---------------------------- MODULE Records_proofs ----------------------------
(***************************************************************************)
(* Proofs about the components whose state repeats what receipts say.      *)
(*                                                                         *)
(* Custody, for any number of taps, of head runs, of seals and of days:    *)
(* what it does to the durable object's chain is what SealQueue does, so   *)
(* the mirror stays a beginning of the chain; published heads list what is *)
(* on the chains; and the counters of a unit increase.                     *)
(*                                                                         *)
(* Timmy, for any verbs, costs and budgets: what it does to its chain is   *)
(* what SealQueue does, and its state follows the chain.  BodyAssumption   *)
(* is its own: no lemma on the others cites it.                            *)
(*                                                                         *)
(* Escrow, for any number of processes and any ceiling: the file verifies  *)
(* whenever it can be read, the receipted draws exceed the ceiling only by *)
(* what was written over, and a final state is final.                      *)
(***************************************************************************)
EXTENDS Custody, Timmy, Escrow, SealQueue_proofs, FiniteSetTheorems,
        WellFoundedInduction

-----------------------------------------------------------------------------
(* The durable object *)

LEMMA StepIsSealStep == [CustodyNext]_custodyVars => [SealNext]_sealVars
BY DEF CustodyNext, custodyVars, sealVars, Midnight

\* Taps and head runs leave the seal queue alone: with them around it behaves as
\* SealQueue says (the KV store is all they share).
THEOREM CustodyImplementsSeal == CustodySpec => SealSpec
<1>1. CustodyInit => SealInit
  BY DEF CustodyInit
<1> QED
  BY <1>1, StepIsSealStep, PTL DEF CustodySpec, SealSpec

LEMMA CustodySealInv == CustodySpec => []SealInv
BY CustodyImplementsSeal, SealInvariant, PTL

\* The mirror in the shared KV store is a beginning of the SQL chain in every state.
THEOREM CustodyMirror == CustodySpec => []MirrorIsPrefix
BY CustodyImplementsSeal, SealMirrorIsPrefix, PTL

-----------------------------------------------------------------------------
(* The taps *)

TapStates == {Away} \cup [at : {"fresh", "counted"}, counter : Nat]
                    \cup [at : {"sealing"}, chain : Seq(Nat)]

Increasing(c) == \A i \in 1..Len(c) : \A k \in 1..(i - 1) : c[k] < c[i]

TapTypeOK ==
  /\ tap \in [Taps -> TapStates]
  /\ last \in Nat /\ unit \in Seq(Nat) /\ overlapped \in BOOLEAN

\* Until two taps overlap, the only one under way stands between the counters
\* that are on the chain and the ones that are not.
TapOrder(t) ==
  /\ tap[t].at = "fresh" => last < tap[t].counter
  /\ tap[t].at = "counted" => tap[t].counter = last
  /\ tap[t].at = "sealing" => tap[t].chain = Append(unit, last)
  /\ tap[t].at \in {"counted", "sealing"} => \A i \in 1..Len(unit) : unit[i] < last

TapInv ==
  /\ TapTypeOK
  /\ ~overlapped =>
       /\ \A t, u \in Taps : tap[t] # Away /\ tap[u] # Away => t = u
       /\ Increasing(unit)
       /\ \A i \in 1..Len(unit) : unit[i] <= last
       /\ \A t \in Taps : TapOrder(t)

LEMMA AwayTap == Away \in TapStates /\ Away.at = "away"
BY DEF Away, TapStates

LEMMA TapKinds ==
  ASSUME NEW s \in TapStates
  PROVE  /\ s.at \in {"away", "fresh", "counted", "sealing"}
         /\ s.at = "away" => s = Away
         /\ s.at \in {"fresh", "counted"} => s \in [at : {"fresh", "counted"}, counter : Nat]
         /\ s.at = "sealing" => s.chain \in Seq(Nat)
BY DEF TapStates, Away

LEMMA TapReadInv == ASSUME TapInv, NEW t \in Taps, TapRead(t) PROVE TapInv'
<1>1. PICK c \in Counters : c > last /\ tap' = [tap EXCEPT ![t] = [at |-> "fresh", counter |-> c]]
  BY DEF TapRead
<1> DEFINE s == [at |-> "fresh", counter |-> c]
<1>2. c \in Nat /\ s \in TapStates /\ s.at = "fresh" /\ s.counter = c /\ s # Away
  BY CustodyAssumption DEF TapStates, Away
<1> HIDE DEF s
<1>3. /\ tap' \in [Taps -> TapStates] /\ tap'[t] = s
      /\ \A u \in Taps : u # t => tap'[u] = tap[u]
  BY <1>1, <1>2 DEF TapInv, TapTypeOK, s
<1>4. TapTypeOK'
  BY <1>3 DEF TapInv, TapTypeOK, TapRead
<1>5. ASSUME ~overlapped'
      PROVE  /\ ~overlapped
             /\ \A u \in Taps : u # t => tap'[u] = Away
  <2>1. ~overlapped /\ \A u \in Taps : tap[u] = Away
    BY <1>5 DEF TapRead, TapInv, TapTypeOK
  <2> QED
    BY <1>3, <2>1
<1>6. ASSUME ~overlapped', NEW u \in Taps PROVE TapOrder(u)'
  <2>1. CASE u = t
    BY <1>1, <1>2, <1>3, <2>1 DEF TapOrder, TapRead
  <2>2. CASE u # t
    BY <1>5, <1>6, <2>2, AwayTap DEF TapOrder
  <2> QED
    BY <2>1, <2>2
<1>7. UNCHANGED <<last, unit>>
  BY DEF TapRead
<1> QED
  BY <1>4, <1>5, <1>6, <1>7 DEF TapInv, Increasing

LEMMA TapSetInv == ASSUME TapInv, NEW t \in Taps, TapSet(t) PROVE TapInv'
<1> DEFINE s == [tap[t] EXCEPT !.at = "counted"]
<1>1. tap[t] \in [at : {"fresh", "counted"}, counter : Nat] /\ tap[t].at = "fresh"
  BY TapKinds DEF TapInv, TapTypeOK, TapSet
<1>2. /\ s \in TapStates /\ s.at = "counted" /\ s.counter = tap[t].counter
      /\ tap[t].counter \in Nat /\ tap[t] # Away
  BY <1>1 DEF TapStates, Away
<1> HIDE DEF s
<1>3. /\ tap' \in [Taps -> TapStates] /\ tap'[t] = s
      /\ \A u \in Taps : u # t => tap'[u] = tap[u]
  BY <1>2 DEF TapInv, TapTypeOK, TapSet, s
<1>4. UNCHANGED <<unit, overlapped>> /\ last' = tap[t].counter
  BY DEF TapSet
<1>5. TapTypeOK'
  BY <1>2, <1>3, <1>4 DEF TapInv, TapTypeOK
<1>6. CASE overlapped
  BY <1>4, <1>5, <1>6 DEF TapInv
<1>7. CASE ~overlapped
  <2>1. /\ last < tap[t].counter /\ \A i \in 1..Len(unit) : unit[i] <= last
        /\ \A u \in Taps : u # t => tap[u] = Away
        /\ Increasing(unit)
    BY <1>1, <1>2, <1>7 DEF TapInv, TapOrder
  <2>2. \A i \in 1..Len(unit) : unit[i] \in Nat /\ last \in Nat
    BY DEF TapInv, TapTypeOK
  <2>3. \A i \in 1..Len(unit) : unit[i] < last'
    BY <1>2, <1>4, <2>1, <2>2
  <2>4. \A u \in Taps : TapOrder(u)'
    <3> SUFFICES ASSUME NEW u \in Taps PROVE TapOrder(u)'
      OBVIOUS
    <3>1. CASE u = t
      BY <1>2, <1>3, <1>4, <2>3, <3>1 DEF TapOrder
    <3>2. CASE u # t
      BY <1>3, <2>1, <3>2, AwayTap DEF TapOrder
    <3> QED
      BY <3>1, <3>2
  <2>5. \A u, v \in Taps : tap'[u] # Away /\ tap'[v] # Away => u = v
    BY <1>3, <2>1
  <2>6. \A i \in 1..Len(unit') : unit'[i] <= last'
    BY <1>2, <1>4, <2>2, <2>3
  <2> QED
    BY <1>4, <1>5, <2>1, <2>4, <2>5, <2>6 DEF TapInv, Increasing
<1> QED
  BY <1>6, <1>7

LEMMA TapGetInv == ASSUME TapInv, NEW t \in Taps, TapGet(t) PROVE TapInv'
<1> DEFINE s == [at |-> "sealing", chain |-> Append(unit, tap[t].counter)]
<1>1. /\ tap[t] \in [at : {"fresh", "counted"}, counter : Nat]
      /\ tap[t].at = "counted" /\ tap[t] # Away
  BY TapKinds, AwayTap DEF TapInv, TapTypeOK, TapGet
<1>2. /\ s \in TapStates /\ s.at = "sealing" /\ s.chain = Append(unit, tap[t].counter)
  BY <1>1, AppendProperties DEF TapStates, TapInv, TapTypeOK
<1> HIDE DEF s
<1>3. /\ tap' \in [Taps -> TapStates] /\ tap'[t] = s
      /\ \A u \in Taps : u # t => tap'[u] = tap[u]
  BY <1>2 DEF TapInv, TapTypeOK, TapGet, s
<1>4. UNCHANGED <<last, unit, overlapped>>
  BY DEF TapGet
<1>5. TapTypeOK'
  BY <1>3, <1>4 DEF TapInv, TapTypeOK
<1>6. CASE overlapped
  BY <1>4, <1>5, <1>6 DEF TapInv
<1>7. CASE ~overlapped
  <2>1. \A u \in Taps : u # t => tap[u] = Away
    BY <1>1, <1>7 DEF TapInv
  <2>2. tap[t].counter = last /\ \A i \in 1..Len(unit) : unit[i] < last
    BY <1>1, <1>7 DEF TapInv, TapOrder
  <2>3. \A u \in Taps : TapOrder(u)'
    <3> SUFFICES ASSUME NEW u \in Taps PROVE TapOrder(u)'
      OBVIOUS
    <3>1. CASE u = t
      BY <1>2, <1>3, <1>4, <2>2, <3>1 DEF TapOrder
    <3>2. CASE u # t
      BY <1>3, <2>1, <3>2, AwayTap DEF TapOrder
    <3> QED
      BY <3>1, <3>2
  <2>4. \A u, v \in Taps : tap'[u] # Away /\ tap'[v] # Away => u = v
    BY <1>3, <2>1
  <2> QED
    BY <1>4, <1>5, <1>7, <2>3, <2>4 DEF TapInv, Increasing
<1> QED
  BY <1>6, <1>7

LEMMA TapPutInv == ASSUME TapInv, NEW t \in Taps, TapPut(t) PROVE TapInv'
<1>1. tap[t].at = "sealing" /\ tap[t].chain \in Seq(Nat) /\ tap[t] # Away
  BY TapKinds, AwayTap DEF TapInv, TapTypeOK, TapPut
<1>2. /\ tap' \in [Taps -> TapStates] /\ tap'[t] = Away
      /\ \A u \in Taps : u # t => tap'[u] = tap[u]
  BY AwayTap DEF TapInv, TapTypeOK, TapPut
<1>3. UNCHANGED <<last, overlapped>> /\ unit' = tap[t].chain
  BY DEF TapPut
<1>4. TapTypeOK'
  BY <1>1, <1>2, <1>3 DEF TapInv, TapTypeOK
<1>5. CASE overlapped
  BY <1>3, <1>4, <1>5 DEF TapInv
<1>6. CASE ~overlapped
  <2>1. \A u \in Taps : tap'[u] = Away
    BY <1>1, <1>2, <1>6 DEF TapInv
  <2>2. /\ unit' = Append(unit, last) /\ \A i \in 1..Len(unit) : unit[i] < last
        /\ Increasing(unit)
    BY <1>1, <1>3, <1>6 DEF TapInv, TapOrder
  <2>3. last \in Nat /\ unit \in Seq(Nat) /\ Len(unit) \in Nat
    BY DEF TapInv, TapTypeOK
  <2>4. /\ Len(unit') = Len(unit) + 1 /\ unit'[Len(unit) + 1] = last
        /\ \A i \in 1..Len(unit) : unit'[i] = unit[i] /\ unit[i] \in Nat
    BY <2>2, <2>3, AppendProperties
  <2>5. Increasing(unit')
    <3> SUFFICES ASSUME NEW i \in 1..Len(unit'), NEW k \in 1..(i - 1) PROVE unit'[k] < unit'[i]
      BY DEF Increasing
    <3>1. k \in 1..Len(unit) /\ (i \in 1..Len(unit) \/ i = Len(unit) + 1)
      BY <2>3, <2>4
    <3> QED
      BY <2>2, <2>4, <3>1 DEF Increasing
  <2>6. \A i \in 1..Len(unit') : unit'[i] <= last'
    <3> SUFFICES ASSUME NEW i \in 1..Len(unit') PROVE unit'[i] <= last'
      OBVIOUS
    <3>1. i \in 1..Len(unit) \/ i = Len(unit) + 1
      BY <2>3, <2>4
    <3> QED
      BY <1>3, <2>2, <2>3, <2>4, <3>1
  <2>7. \A u \in Taps : TapOrder(u)'
    BY <2>1, AwayTap DEF TapOrder
  <2> QED
    BY <1>4, <2>1, <2>5, <2>6, <2>7 DEF TapInv, Increasing
<1> QED
  BY <1>5, <1>6

LEMMA TapDiesInv == ASSUME TapInv, NEW t \in Taps, TapDies(t) PROVE TapInv'
<1>1. /\ tap' \in [Taps -> TapStates] /\ tap'[t] = Away
      /\ \A u \in Taps : u # t => tap'[u] = tap[u]
  BY AwayTap DEF TapInv, TapTypeOK, TapDies
<1>2. UNCHANGED <<last, unit, overlapped>>
  BY DEF TapDies
<1>3. TapTypeOK'
  BY <1>1, <1>2 DEF TapInv, TapTypeOK
<1>4. ASSUME ~overlapped, NEW u \in Taps PROVE TapOrder(u)'
  <2>1. CASE u = t
    BY <1>1, <2>1, AwayTap DEF TapOrder
  <2>2. CASE u # t
    BY <1>1, <1>2, <1>4, <2>2 DEF TapInv, TapOrder
  <2> QED
    BY <2>1, <2>2
<1> QED
  BY <1>1, <1>2, <1>3, <1>4 DEF TapInv, Increasing

LEMMA TapKept == TapInv /\ UNCHANGED tapVars => TapInv'
BY DEF TapInv, TapTypeOK, TapOrder, tapVars, Increasing

LEMMA InitTap == CustodyInit => TapInv
<1> SUFFICES ASSUME CustodyInit PROVE TapInv
  OBVIOUS
<1>1. unit = << >> /\ unit \in Seq(Nat) /\ Len(unit) = 0
  BY EmptySeq DEF CustodyInit
<1>2. \A t \in Taps : tap[t] = Away /\ TapOrder(t)
  BY AwayTap DEF CustodyInit, TapOrder
<1>3. TapTypeOK
  BY <1>1, AwayTap DEF CustodyInit, TapTypeOK
<1>4. Increasing(unit) /\ \A i \in 1..Len(unit) : unit[i] <= last
  BY <1>1 DEF Increasing
<1>5. \A t, u \in Taps : ~(tap[t] # Away /\ tap[u] # Away)
  BY <1>2
<1> QED
  BY <1>2, <1>3, <1>4, <1>5 DEF TapInv

LEMMA NextTap == TapInv /\ [CustodyNext]_custodyVars => TapInv'
<1> SUFFICES ASSUME TapInv, [CustodyNext]_custodyVars PROVE TapInv'
  OBVIOUS
<1>1. ASSUME NEW t \in Taps, TapStep(t) PROVE TapInv'
  BY <1>1, TapReadInv, TapSetInv, TapGetInv, TapPutInv, TapDiesInv DEF TapStep
<1> QED
  BY <1>1, TapKept DEF CustodyNext, custodyVars, Midnight

\* No URL of a tag is sealed twice on its unit's chain, and the counters increase
\* along it, for any number of taps of which no two overlap, wherever they die.
THEOREM CountersAlwaysIncrease == CustodySpec => []CountersIncrease
<1>1. TapInv => CountersIncrease
  BY DEF TapInv, CountersIncrease, Increasing
<1> QED
  BY <1>1, InitTap, NextTap, PTL DEF CustodySpec

-----------------------------------------------------------------------------
(* The published heads *)

\* Chain d begins with chain c; what l says of a chain is on it.
Extends(c, d) == Len(c) <= Len(d) /\ \A i \in 1..Len(c) : d[i] = c[i]
OnUnit(e) == e.count \in 0..Len(unit) /\ (e.count > 0 => unit[e.count] = e.last)
OnSql(e) == e.count \in 0..Len(receipts) /\ (e.count > 0 => receipts[e.count].hash = e.last)

Listed(b) == OnSql(b.timmy) /\ (overlapped \/ OnUnit(b.unit))

\* What a head run holds is listed already.
RunListed(r) ==
  /\ r.at \in {"unit", "chains"} => overlapped \/ OnUnit(r.unit)
  /\ r.at = "chains" => OnSql(r.timmy)
  /\ r.at \in {"made", "dated"} => r = [at |-> r.at, daily |-> r.daily] /\ Listed(r.daily)

KV == head = [h \in Runs |-> head[h]] /\ days = [d \in 1..LastDay |-> days[d]]

HeadInv ==
  /\ KV
  /\ \A h \in Runs : RunListed(head[h])
  /\ latest # NoHead => Listed(latest)
  /\ \A d \in 1..LastDay : days[d] # NoHead => Listed(days[d])

\* Nothing is taken off a chain, while no two taps overlap.
LEMMA ChainsGrow ==
  ASSUME SealInv, TapInv, [CustodyNext]_custodyVars
  PROVE  /\ receipts \in Seq(Chain!Receipt) /\ unit \in Seq(Nat) /\ overlapped \in BOOLEAN
         /\ Extends(receipts, receipts')
         /\ overlapped => overlapped'
         /\ ~overlapped' => Extends(unit, unit')
<1>1. receipts \in Seq(Chain!Receipt) /\ unit \in Seq(Nat) /\ overlapped \in BOOLEAN
  BY DEF SealInv, SealTypeOK, TapInv, TapTypeOK
<1>2. Extends(receipts, receipts) /\ Extends(unit, unit)
  BY <1>1 DEF Extends
<1>3. Extends(receipts, receipts')
  <2>1. ASSUME NEW j \in Jobs, InsertReceipt(j) PROVE Extends(receipts, receipts')
    <3>1. receipts' = Append(receipts, NewReceipt(seal[j])) /\ NewReceipt(seal[j]) \in Chain!Receipt
      BY <2>1, NewReceiptType DEF InsertReceipt, SealInv, SealTypeOK
    <3>2. /\ Len(receipts') = Len(receipts) + 1 /\ Len(receipts) \in Nat
          /\ \A i \in 1..Len(receipts) : receipts'[i] = receipts[i]
      BY <1>1, <3>1, AppendProperties
    <3> QED
      BY <3>2 DEF Extends
  <2>2. CASE UNCHANGED receipts
    BY <1>2, <2>2
  <2>3. [SealNext]_sealVars
    BY StepIsSealStep
  <2> QED
    BY <2>1, <2>2, <2>3 DEF SealNext, SealStep, Enqueue, ReadChain, Settle, FailSeal,
       SealRestart, sealVars
<1>4. (overlapped => overlapped') /\ (~overlapped' => Extends(unit, unit'))
  <2>1. ASSUME NEW t \in Taps, TapStep(t)
        PROVE  (overlapped => overlapped') /\ (~overlapped' => Extends(unit, unit'))
    <3>1. CASE TapPut(t)
      <4>1. tap[t] \in TapStates /\ unit' = tap[t].chain /\ overlapped' = overlapped
            /\ tap[t].at = "sealing"
        BY <3>1 DEF TapPut, TapInv, TapTypeOK
      <4>2. CASE ~overlapped
        <5>1. unit' = Append(unit, last) /\ last \in Nat
          BY <4>1, <4>2 DEF TapInv, TapTypeOK, TapOrder
        <5>2. /\ Len(unit') = Len(unit) + 1 /\ Len(unit) \in Nat
              /\ \A i \in 1..Len(unit) : unit'[i] = unit[i]
          BY <1>1, <5>1, AppendProperties
        <5> QED
          BY <4>1, <5>2 DEF Extends
      <4> QED
        BY <4>1, <4>2
    <3>2. CASE TapRead(t)
      BY <1>1, <1>2, <3>2 DEF TapRead
    <3>3. CASE TapSet(t) \/ TapGet(t) \/ TapDies(t)
      BY <1>2, <3>3 DEF TapSet, TapGet, TapDies
    <3> QED
      BY <2>1, <3>1, <3>2, <3>3 DEF TapStep
  <2>2. CASE UNCHANGED tapVars
    BY <1>2, <2>2 DEF tapVars
  <2> QED
    BY <2>1, <2>2 DEF CustodyNext, custodyVars, Midnight
<1> QED
  BY <1>1, <1>3, <1>4

\* So what is listed stays listed.
LEMMA StaysListed ==
  ASSUME SealInv, TapInv, [CustodyNext]_custodyVars
  PROVE  /\ \A e : OnSql(e) => OnSql(e)'
         /\ \A e : overlapped \/ OnUnit(e) => overlapped' \/ OnUnit(e)'
         /\ \A b : Listed(b) => Listed(b)'
         /\ \A r : RunListed(r) => RunListed(r)'
<1>1. TapInv' /\ SealInv'
  BY NextTap, StepIsSealStep, NextInv
<1>2. /\ Len(receipts) \in Nat /\ Len(receipts') \in Nat
      /\ Len(unit) \in Nat /\ Len(unit') \in Nat
      /\ overlapped \in BOOLEAN /\ overlapped' \in BOOLEAN
  BY <1>1 DEF TapInv, TapTypeOK, SealInv, SealTypeOK
<1>3. ASSUME NEW e, OnSql(e) PROVE OnSql(e)'
  <2>1. Extends(receipts, receipts')
    BY ChainsGrow
  <2> QED
    BY <1>2, <1>3, <2>1 DEF OnSql, Extends
<1>4. ASSUME NEW e, overlapped \/ OnUnit(e) PROVE overlapped' \/ OnUnit(e)'
  <2> SUFFICES ASSUME ~overlapped' PROVE OnUnit(e)'
    OBVIOUS
  <2>1. ~overlapped /\ Extends(unit, unit')
    BY ChainsGrow
  <2> QED
    BY <1>2, <1>4, <2>1 DEF OnUnit, Extends
<1>5. ASSUME NEW b, Listed(b) PROVE Listed(b)'
  BY <1>3, <1>4, <1>5 DEF Listed
<1>6. ASSUME NEW r, RunListed(r) PROVE RunListed(r)'
  BY <1>3, <1>4, <1>5, <1>6 DEF RunListed
<1> QED
  BY <1>3, <1>4, <1>5, <1>6

\* A run that moves to s, which is listed.
LEMMA RunsMove ==
  ASSUME SealInv, TapInv, HeadInv, [CustodyNext]_custodyVars,
         NEW h \in Runs, NEW s, RunListed(s), head' = [head EXCEPT ![h] = s]
  PROVE  head' = [k \in Runs |-> head'[k]] /\ (\A k \in Runs : RunListed(head[k]))'
<1>1. head = [k \in Runs |-> head[k]]
  BY DEF HeadInv, KV
<1>2. head' = [k \in Runs |-> IF k = h THEN s ELSE head[k]]
  BY <1>1
<1>3. \A k \in Runs : head'[k] = IF k = h THEN s ELSE head[k]
  BY <1>2
<1>4. \A k \in Runs : RunListed(head[k]) /\ RunListed(s)
  BY DEF HeadInv
<1>5. ASSUME NEW k \in Runs PROVE (RunListed(head[k]))'
  <2>1. \E r : r = head'[k] /\ RunListed(r)
    BY <1>3, <1>4
  <2>2. \E r : r = head'[k] /\ RunListed(r)'
    BY <2>1, StaysListed
  <2> QED
    BY <2>2 DEF RunListed, Listed, OnSql, OnUnit
<1>6. head' = [k \in Runs |-> head'[k]]
  BY <1>2, <1>3
<1> QED
  BY <1>5, <1>6

\* What is published stays listed when nothing is.
LEMMA PublishedKept ==
  ASSUME SealInv, TapInv, HeadInv, [CustodyNext]_custodyVars, UNCHANGED <<days, latest>>
  PROVE  /\ (latest # NoHead => Listed(latest))'
         /\ (\A d \in 1..LastDay : days[d] # NoHead => Listed(days[d]))'
         /\ days' = [d \in 1..LastDay |-> days'[d]]
<1>1. latest # NoHead => Listed(latest)'
  <2>1. \E b : b = latest /\ (latest # NoHead => Listed(b)')
    BY StaysListed DEF HeadInv
  <2> QED
    BY <2>1 DEF Listed, OnSql, OnUnit
<1>2. ASSUME NEW d \in 1..LastDay, days[d] # NoHead PROVE Listed(days[d])'
  <2>1. \E b : b = days[d] /\ Listed(b)'
    BY <1>2, StaysListed DEF HeadInv
  <2> QED
    BY <2>1 DEF Listed, OnSql, OnUnit
<1>3. NoHead' = NoHead
  BY DEF NoHead
<1> QED
  BY <1>1, <1>2, <1>3 DEF HeadInv, KV

LEMMA UnitEntry ==
  ASSUME TapInv PROVE OnUnit(Entry(unit, IF unit = << >> THEN 0 ELSE unit[Len(unit)]))
<1>1. unit \in Seq(Nat) /\ Len(unit) \in Nat /\ (unit = << >> <=> Len(unit) = 0)
  BY EmptySeq DEF TapInv, TapTypeOK
<1> QED
  BY <1>1 DEF Entry, OnUnit

LEMMA MirrorEntry == ASSUME SealInv PROVE OnSql(Entry(mirror, Chain!HeadHash(mirror)))
<1>1. /\ mirror \in Seq(Chain!Receipt) /\ Len(mirror) \in Nat
      /\ receipts \in Seq(Chain!Receipt) /\ Len(receipts) \in Nat
      /\ mirror = << >> <=> Len(mirror) = 0
  BY EmptySeq DEF SealInv, SealTypeOK
<1>2. Len(mirror) <= Len(receipts) /\ \A i \in 1..Len(mirror) : mirror[i] = receipts[i]
  BY DEF SealInv, MirrorIsPrefix
<1>3. Len(mirror) > 0 => Chain!HeadHash(mirror) = receipts[Len(mirror)].hash
  BY <1>1, <1>2 DEF Chain!HeadHash
<1> QED
  BY <1>1, <1>2, <1>3 DEF Entry, OnSql

LEMMA NoEntry ==
  ASSUME TapInv, SealInv
  PROVE  OnUnit(Entry(<< >>, 0)) /\ OnSql(Entry(<< >>, Chain!HeadHash(<< >>)))
<1>1. Len(<< >>) = 0 /\ Len(unit) \in Nat /\ Len(receipts) \in Nat
  BY EmptySeq DEF TapInv, TapTypeOK, SealInv, SealTypeOK
<1> QED
  BY <1>1 DEF Entry, OnUnit, OnSql

LEMMA HeadStepInv ==
  ASSUME SealInv, TapInv, HeadInv, [CustodyNext]_custodyVars, NEW h \in Runs, HeadStep(h)
  PROVE  HeadInv'
<1>1. ASSUME NEW s, RunListed(s), head' = [head EXCEPT ![h] = s], UNCHANGED <<days, latest>>
      PROVE  HeadInv'
  <2>1. head' = [k \in Runs |-> head'[k]] /\ (\A k \in Runs : RunListed(head[k]))'
    BY <1>1, RunsMove
  <2> QED
    BY <1>1, <2>1, PublishedKept DEF HeadInv, KV
<1>2. CASE HeadStart(h)
  <2> DEFINE s == [at |-> "listed", date |-> today,
       keys |-> (IF unit = << >> THEN {} ELSE {"unit"})
                  \cup (IF mirror = << >> THEN {} ELSE {"timmy"})]
  <2>1. head' = [head EXCEPT ![h] = s] /\ UNCHANGED <<days, latest>>
    BY <1>2 DEF HeadStart
  <2>2. RunListed(s)
    BY DEF RunListed
  <2> QED
    BY <1>1, <2>1, <2>2
<1>3. CASE ReadUnit(h)
  <2> DEFINE c == IF "unit" \in head[h].keys THEN unit ELSE << >>
             s == [at |-> "unit", date |-> head[h].date, keys |-> head[h].keys,
                   unit |-> Entry(c, IF c = << >> THEN 0 ELSE c[Len(c)])]
  <2>1. head' = [head EXCEPT ![h] = s] /\ UNCHANGED <<days, latest>>
    BY <1>3 DEF ReadUnit
  <2>2. OnUnit(Entry(c, IF c = << >> THEN 0 ELSE c[Len(c)]))
    BY UnitEntry, NoEntry
  <2>3. RunListed(s)
    BY <2>2 DEF RunListed
  <2> QED
    BY <1>1, <2>1, <2>3
<1>4. CASE ReadMirror(h)
  <2> DEFINE c == IF "timmy" \in head[h].keys THEN mirror ELSE << >>
             s == [at |-> "chains", date |-> head[h].date, unit |-> head[h].unit,
                   timmy |-> Entry(c, Chain!HeadHash(c))]
  <2>1. head' = [head EXCEPT ![h] = s] /\ UNCHANGED <<days, latest>> /\ head[h].at = "unit"
    BY <1>4 DEF ReadMirror
  <2>2. OnSql(Entry(c, Chain!HeadHash(c)))
    BY MirrorEntry, NoEntry
  <2>3. overlapped \/ OnUnit(head[h].unit)
    BY <2>1 DEF HeadInv, RunListed
  <2>4. RunListed(s)
    BY <2>2, <2>3 DEF RunListed
  <2> QED
    BY <1>1, <2>1, <2>4
<1>5. CASE MakeHead(h)
  <2> DEFINE daily == [date |-> head[h].date, unit |-> head[h].unit, timmy |-> head[h].timmy,
                       prev |-> Previous(head[h].date)]
             s == [at |-> "made", daily |-> daily]
  <2>1. head' = [head EXCEPT ![h] = s] /\ UNCHANGED <<days, latest>> /\ head[h].at = "chains"
    BY <1>5 DEF MakeHead
  <2>2. OnSql(head[h].timmy) /\ (overlapped \/ OnUnit(head[h].unit))
    BY <2>1 DEF HeadInv, RunListed
  <2>3. Listed(daily)
    BY <2>2 DEF Listed
  <2> HIDE DEF daily
  <2>4. RunListed(s)
    BY <2>3 DEF RunListed
  <2> QED
    BY <1>1, <2>1, <2>4
<1>6. CASE PutDay(h)
  <2> DEFINE b == head[h].daily
             s == [at |-> "dated", daily |-> b]
  <2>1. head[h].at = "made" /\ head[h] = [at |-> "made", daily |-> b] /\ Listed(b)
    BY <1>6 DEF PutDay, HeadInv, RunListed
  <2>2. head' = [head EXCEPT ![h] = s]
    <3>1. head' = [head EXCEPT ![h] = [head[h] EXCEPT !.at = "dated"]]
      BY <1>6 DEF PutDay
    <3>2. [head[h] EXCEPT !.at = "dated"] = s
      BY <2>1
    <3> QED
      BY <3>1, <3>2
  <2> HIDE DEF b
  <2>3. RunListed(s)
    BY <2>1 DEF RunListed
  <2>4. head' = [k \in Runs |-> head'[k]] /\ (\A k \in Runs : RunListed(head[k]))'
    BY <2>2, <2>3, RunsMove
  <2>5. latest' = latest /\ days' = [days EXCEPT ![b.date] = b]
    BY <1>6 DEF PutDay, b
  <2>6. days' = [d \in 1..LastDay |-> IF d = b.date THEN b ELSE days[d]]
    BY <2>5 DEF HeadInv, KV
  <2>7. ASSUME NEW d \in 1..LastDay, days'[d] # NoHead PROVE (Listed(days[d]))'
    <3>1. \E x : x = days'[d] /\ Listed(x)
      BY <2>1, <2>6, <2>7 DEF HeadInv
    <3>2. \E x : x = days'[d] /\ Listed(x)'
      BY <3>1, StaysListed
    <3> QED
      BY <3>2 DEF Listed, OnSql, OnUnit
  <2>8. latest' # NoHead => (Listed(latest))'
    <3>1. \E x : x = latest /\ (latest # NoHead => Listed(x)')
      BY StaysListed DEF HeadInv
    <3> QED
      BY <2>5, <3>1 DEF Listed, OnSql, OnUnit
  <2>9. days' = [d \in 1..LastDay |-> days'[d]] /\ NoHead' = NoHead
    BY <2>6 DEF NoHead
  <2> QED
    BY <2>4, <2>7, <2>8, <2>9 DEF HeadInv, KV
<1>7. CASE PutLatest(h)
  <2> DEFINE b == head[h].daily
  <2>1. Listed(b) /\ latest' = b /\ head' = [head EXCEPT ![h] = Away] /\ UNCHANGED days
    BY <1>7 DEF PutLatest, HeadInv, RunListed
  <2>2. RunListed(Away)
    BY DEF RunListed, Away
  <2>3. head' = [k \in Runs |-> head'[k]] /\ (\A k \in Runs : RunListed(head[k]))'
    BY <2>1, <2>2, RunsMove
  <2>4. (Listed(latest))'
    <3>1. \E x : x = latest' /\ Listed(x)'
      BY <2>1, StaysListed
    <3> QED
      BY <3>1 DEF Listed, OnSql, OnUnit
  <2>5. ASSUME NEW d \in 1..LastDay, days[d] # NoHead PROVE (Listed(days[d]))'
    <3>1. \E x : x = days[d] /\ Listed(x)'
      BY <2>5, StaysListed DEF HeadInv
    <3> QED
      BY <2>1, <3>1 DEF Listed, OnSql, OnUnit
  <2>6. days' = [d \in 1..LastDay |-> days'[d]] /\ NoHead' = NoHead
    BY <2>1 DEF NoHead, HeadInv, KV
  <2> QED
    BY <2>1, <2>3, <2>4, <2>5, <2>6 DEF HeadInv, KV
<1>8. CASE HeadDies(h)
  <2>1. RunListed(Away)
    BY DEF RunListed, Away
  <2> QED
    BY <1>1, <1>8, <2>1 DEF HeadDies
<1> QED
  BY <1>2, <1>3, <1>4, <1>5, <1>6, <1>7, <1>8 DEF HeadStep

LEMMA NextHead == SealInv /\ TapInv /\ HeadInv /\ [CustodyNext]_custodyVars => HeadInv'
<1> SUFFICES ASSUME SealInv, TapInv, HeadInv, [CustodyNext]_custodyVars PROVE HeadInv'
  OBVIOUS
<1>1. ASSUME NEW h \in Runs, HeadStep(h) PROVE HeadInv'
  BY <1>1, HeadStepInv
<1>2. CASE UNCHANGED <<head, days, latest>>
  <2>1. ASSUME NEW k \in Runs PROVE (RunListed(head[k]))'
    <3>1. \E r : r = head[k] /\ RunListed(r)'
      BY StaysListed DEF HeadInv
    <3> QED
      BY <1>2, <3>1 DEF RunListed, Listed, OnSql, OnUnit
  <2> QED
    BY <1>2, <2>1, PublishedKept DEF HeadInv, KV
<1> QED
  BY <1>1, <1>2 DEF CustodyNext, custodyVars, headVars, Midnight

LEMMA InitHead == CustodyInit => HeadInv
BY DEF CustodyInit, HeadInv, KV, RunListed, Away

\* What a published head says of a chain stays on that chain, for any number of seals,
\* restarts and head runs; of a unit's chain, as long as no two taps overlap.
THEOREM HeadsAlwaysList == CustodySpec => []HeadListsChain
<1>1. SealInv /\ TapInv /\ HeadInv => HeadListsChain
  <2> SUFFICES ASSUME SealInv, TapInv, HeadInv, NEW b \in Heads
               PROVE  Listed(b)
    <3>1. Len(receipts) \in Nat /\ Len(unit) \in Nat
      BY DEF SealInv, SealTypeOK, TapInv, TapTypeOK
    <3> QED
      BY <3>1 DEF HeadListsChain, Listed, OnSql, OnUnit
  <2> QED
    BY DEF Heads, Published, HeadInv
<1>2. CustodyInit => SealInv /\ TapInv /\ HeadInv
  BY InitInv, InitTap, InitHead DEF CustodyInit
<1>3. SealInv /\ TapInv /\ HeadInv /\ [CustodyNext]_custodyVars => (SealInv /\ TapInv /\ HeadInv)'
  BY StepIsSealStep, NextInv, NextTap, NextHead
<1> QED
  BY <1>1, <1>2, <1>3, PTL DEF CustodySpec

-----------------------------------------------------------------------------
(* The days *)

Dated(b, d) == b.date = d /\ b.prev.date \in 0..(d - 1)

\* b is the head kept for the last day before d that has one.
Before(d, b) ==
  \/ b = NoHead /\ \A k \in 1..(d - 1) : days[k] = NoHead
  \/ b # NoHead /\ \E e \in 1..(d - 1) :
       days[e] = b /\ \A k \in (e + 1)..(d - 1) : days[k] = NoHead

\* Unless a run crossed midnight, everybody works on today and cites an earlier day.
DatesInv ==
  /\ \A h \in Runs : head[h].at \in {"listed", "unit", "chains"} => head[h].date = today
  /\ \A h \in Runs : head[h].at \in {"made", "dated"} => Dated(head[h].daily, today)
  /\ latest = NoHead \/ \E d \in 1..today : Dated(latest, d)
  /\ \A d \in 1..LastDay : days[d] = NoHead \/ Dated(days[d], d)

\* With one run at a time that ends both of its puts, head:latest is the last head,
\* but between the two puts.
LinksInv ==
  /\ \A h, k \in Runs : head[h] # Away /\ head[k] # Away => h = k
  /\ \A d \in 1..LastDay : days[d] # NoHead => d <= today /\ Before(d, days[d].prev)
  /\ \A h \in Runs : head[h].at = "made" => Before(today, head[h].daily.prev)
  /\ \A h \in Runs : head[h].at = "dated" => days[today] = head[h].daily
  /\ (\A h \in Runs : head[h].at # "dated") => Before(today + 1, latest)

DayInv ==
  /\ today \in 1..LastDay /\ crossed \in BOOLEAN /\ torn \in BOOLEAN
  /\ ~crossed => DatesInv
  /\ ~crossed /\ ~torn => LinksInv

LEMMA HeadNames ==
  /\ Away.at = "away" /\ NoHead.date = 0
  /\ \A b, d : Dated(b, d) /\ d \in 1..LastDay => b # NoHead
BY DEF Away, NoHead, Dated

LEMMA InitDay == CustodyInit => DayInv
<1> SUFFICES ASSUME CustodyInit PROVE DayInv
  OBVIOUS
<1>1. today \in 1..LastDay
  BY CustodyAssumption DEF CustodyInit
<1>2. \A h \in Runs : head[h] = Away
  BY DEF CustodyInit
<1>3. \A d \in 1..LastDay : days[d] = NoHead
  BY DEF CustodyInit
<1>4. latest = NoHead /\ crossed = FALSE /\ torn = FALSE /\ today = 1
  BY DEF CustodyInit
<1>5. DatesInv
  BY <1>2, <1>3, <1>4, HeadNames DEF DatesInv
<1>6. Before(today + 1, latest)
  BY <1>1, <1>3, <1>4 DEF Before
<1>7. LinksInv
  BY <1>2, <1>3, <1>6, HeadNames DEF LinksInv
<1> QED
  BY <1>1, <1>4, <1>5, <1>7 DEF DayInv

\* A run h that moves, from and to a state that is not "dated", and keeps its date.
LEMMA MoveDay ==
  ASSUME HeadInv, DayInv, NEW h \in Runs, NEW s, head' = [head EXCEPT ![h] = s],
         UNCHANGED <<days, latest, today, crossed>>,
         torn' \in BOOLEAN, torn => torn',
         s.at \in {"away", "listed", "unit", "chains"},
         s.at = "away" => s = Away,
         s.at # "away" /\ ~crossed => s.date = today,
         ~torn' => head[h].at # "dated" /\ (head[h] # Away \/ \A k \in Runs : head[k] = Away)
  PROVE  DayInv'
<1>1. \A k \in Runs : head'[k] = IF k = h THEN s ELSE head[k]
  <2>1. head = [k \in Runs |-> head[k]]
    BY DEF HeadInv, KV
  <2> QED
    BY <2>1
<1>2. ~crossed => DatesInv'
  <2> SUFFICES ASSUME ~crossed PROVE DatesInv'
    OBVIOUS
  <2>1. DatesInv
    BY DEF DayInv
  <2> QED
    BY <1>1, <2>1 DEF DatesInv, Dated, NoHead
<1>3. ~crossed /\ ~torn' => LinksInv'
  <2> SUFFICES ASSUME ~crossed, ~torn' PROVE LinksInv'
    OBVIOUS
  <2>1. LinksInv
    BY DEF DayInv
  <2>2. \A k \in Runs : k # h => head[k] = Away
    BY <2>1 DEF LinksInv
  <2>3. \A k \in Runs : head[k].at # "dated"
    BY <2>2, HeadNames
  <2>4. Before(today + 1, latest)
    BY <2>1, <2>3 DEF LinksInv
  <2>5. \A k \in Runs : head'[k].at \notin {"made", "dated"} /\ (k # h => head'[k] = Away)
    BY <1>1, <2>2, HeadNames
  <2>6. Away' = Away /\ NoHead' = NoHead
    BY DEF Away, NoHead
  <2>7. (Before(today + 1, latest))'
    BY <2>4 DEF Before, NoHead
  <2>8. \A d \in 1..LastDay : days'[d] # NoHead => d <= today' /\ (Before(d, days[d].prev))'
    BY <2>1 DEF LinksInv, Before, NoHead
  <2> QED
    BY <2>5, <2>6, <2>7, <2>8 DEF LinksInv
<1> QED
  BY <1>2, <1>3 DEF DayInv

\* What a head of today cites.
LEMMA PreviousDay ==
  ASSUME DayInv, ~crossed
  PROVE  /\ Previous(today).date \in 0..(today - 1)
         /\ ~torn /\ (\A h \in Runs : head[h].at # "dated") => Before(today, Previous(today))
<1>1. DatesInv /\ today \in 1..LastDay /\ LastDay \in Nat
  BY CustodyAssumption DEF DayInv
<1>2. Previous(today).date \in 0..(today - 1)
  <2>1. CASE latest = NoHead
    BY <1>1, <2>1, HeadNames DEF Previous
  <2>2. CASE latest # NoHead
    <3>1. PICK d \in 1..today : Dated(latest, d)
      BY <1>1, <2>2 DEF DatesInv
    <3> QED
      BY <1>1, <2>2, <3>1 DEF Previous, Dated
  <2> QED
    BY <2>1, <2>2
<1>3. ASSUME ~torn, \A h \in Runs : head[h].at # "dated" PROVE Before(today, Previous(today))
  <2>1. LinksInv /\ Before(today + 1, latest)
    BY <1>3 DEF DayInv, LinksInv
  <2>2. CASE latest = NoHead
    BY <1>1, <2>1, <2>2 DEF Previous, Before
  <2>3. CASE latest # NoHead
    <3>1. PICK e \in 1..today : days[e] = latest /\ \A k \in (e + 1)..today : days[k] = NoHead
      BY <1>1, <2>1, <2>3 DEF Before
    <3>2. latest.date = e
      BY <1>1, <2>3, <3>1 DEF DatesInv, Dated
    <3>3. CASE e = today
      BY <1>1, <2>1, <2>3, <3>1, <3>2, <3>3 DEF Previous, LinksInv
    <3>4. CASE e # today
      BY <1>1, <2>3, <3>1, <3>2, <3>4 DEF Previous, Before
    <3> QED
      BY <3>3, <3>4
  <2> QED
    BY <2>2, <2>3
<1> QED
  BY <1>2, <1>3

LEMMA MakeDay ==
  ASSUME HeadInv, DayInv, NEW h \in Runs, MakeHead(h), UNCHANGED today
  PROVE  DayInv'
<1> DEFINE daily == [date |-> head[h].date, unit |-> head[h].unit, timmy |-> head[h].timmy,
                     prev |-> Previous(head[h].date)]
           s == [at |-> "made", daily |-> daily]
<1>1. head' = [head EXCEPT ![h] = s] /\ head[h].at = "chains"
  BY DEF MakeHead
<1>2. UNCHANGED <<days, latest, today, crossed, torn>>
  BY DEF MakeHead
<1>3. s.at = "made" /\ s.daily.date = head[h].date /\ s.daily.prev = Previous(head[h].date)
  OBVIOUS
<1> HIDE DEF daily, s
<1>4. \A k \in Runs : head'[k] = IF k = h THEN s ELSE head[k]
  <2>1. head = [k \in Runs |-> head[k]]
    BY DEF HeadInv, KV
  <2> QED
    BY <1>1, <2>1
<1>5. ~crossed => head[h].date = today /\ Dated(s.daily, today)
  BY <1>1, <1>3, PreviousDay DEF DayInv, DatesInv, Dated
<1>6. ~crossed => DatesInv'
  <2> SUFFICES ASSUME ~crossed PROVE DatesInv'
    OBVIOUS
  <2>1. DatesInv
    BY DEF DayInv
  <2> QED
    BY <1>2, <1>3, <1>4, <1>5, <2>1 DEF DatesInv, Dated, NoHead
<1>7. ~crossed /\ ~torn => LinksInv'
  <2> SUFFICES ASSUME ~crossed, ~torn PROVE LinksInv'
    OBVIOUS
  <2>1. LinksInv
    BY DEF DayInv
  <2>2. \A k \in Runs : k # h => head[k] = Away
    BY <1>1, <2>1, HeadNames DEF LinksInv
  <2>3. \A k \in Runs : head[k].at # "dated"
    BY <1>1, <2>2, HeadNames
  <2>4. Before(today, s.daily.prev)
    BY <1>3, <1>5, <2>3, PreviousDay
  <2>5. Before(today + 1, latest)
    BY <2>1, <2>3 DEF LinksInv
  <2>6. \A k \in Runs : k # h => head'[k] = Away
    BY <1>4, <2>2
  <2>7. head'[h] = s
    BY <1>4
  <2>8. Away' = Away /\ NoHead' = NoHead
    BY DEF Away, NoHead
  <2>9. (Before(today + 1, latest))'
    BY <1>2, <2>5 DEF Before, NoHead
  <2>10. \A d \in 1..LastDay : days'[d] # NoHead => d <= today' /\ (Before(d, days[d].prev))'
    BY <1>2, <2>1 DEF LinksInv, Before, NoHead
  <2>11. \A k \in Runs : head'[k].at = "made" => (Before(today, head[k].daily.prev))'
    BY <1>2, <2>4, <2>6, <2>7, HeadNames DEF Before, NoHead
  <2>12. \A k \in Runs : head'[k].at # "dated"
    BY <1>3, <2>6, <2>7, HeadNames
  <2> QED
    BY <2>6, <2>8, <2>9, <2>10, <2>11, <2>12 DEF LinksInv
<1> QED
  BY <1>2, <1>6, <1>7 DEF DayInv

LEMMA PutDayDay ==
  ASSUME HeadInv, DayInv, NEW h \in Runs, PutDay(h), UNCHANGED today
  PROVE  DayInv'
<1> DEFINE b == head[h].daily
           s == [at |-> "dated", daily |-> b]
<1>1. head[h].at = "made" /\ head[h] = [at |-> "made", daily |-> b]
  BY DEF PutDay, HeadInv, RunListed
<1>2. head' = [head EXCEPT ![h] = s]
  <2>1. head' = [head EXCEPT ![h] = [head[h] EXCEPT !.at = "dated"]]
    BY DEF PutDay
  <2>2. [head[h] EXCEPT !.at = "dated"] = s
    BY <1>1
  <2> QED
    BY <2>1, <2>2
<1>3. UNCHANGED <<latest, today, crossed, torn>> /\ days' = [days EXCEPT ![b.date] = b]
  BY DEF PutDay
<1> HIDE DEF b
<1>4. s.at = "dated" /\ s.daily = b /\ s # Away
  BY HeadNames
<1> HIDE DEF s
<1>5. /\ \A k \in Runs : head'[k] = IF k = h THEN s ELSE head[k]
      /\ \A d \in 1..LastDay : days'[d] = IF d = b.date THEN b ELSE days[d]
  <2>1. head = [k \in Runs |-> head[k]] /\ days = [d \in 1..LastDay |-> days[d]]
    BY DEF HeadInv, KV
  <2> QED
    BY <1>2, <1>3, <2>1
<1>6. ~crossed => Dated(b, today)
  BY <1>1 DEF DayInv, DatesInv, b
<1>7. ~crossed => DatesInv'
  <2> SUFFICES ASSUME ~crossed PROVE DatesInv'
    OBVIOUS
  <2>1. DatesInv
    BY DEF DayInv
  <2> QED
    BY <1>3, <1>4, <1>5, <1>6, <2>1 DEF DatesInv, Dated, NoHead
<1>8. ~crossed /\ ~torn => LinksInv'
  <2> SUFFICES ASSUME ~crossed, ~torn PROVE LinksInv'
    OBVIOUS
  <2>1. LinksInv /\ today \in 1..LastDay /\ LastDay \in Nat
    BY CustodyAssumption DEF DayInv
  <2>2. b.date = today /\ Before(today, b.prev)
    BY <1>1, <1>6, <2>1 DEF Dated, LinksInv, b
  <2>3. \A k \in Runs : k # h => head'[k] = Away
    BY <1>1, <1>5, <2>1, HeadNames DEF LinksInv
  <2>4. head'[h] = s
    BY <1>5
  <2>5. Away' = Away /\ NoHead' = NoHead
    BY DEF Away, NoHead
  <2>6. ASSUME NEW d \in 1..LastDay, days'[d] # NoHead
        PROVE  d <= today /\ (Before(d, days[d].prev))'
    <3>1. d <= today /\ Before(d, days'[d].prev)
      BY <1>5, <2>1, <2>2, <2>6 DEF LinksInv
    <3>2. \A e \in 1..(d - 1) : days'[e] = days[e]
      BY <1>5, <2>1, <2>2, <3>1
    <3> QED
      BY <3>1, <3>2 DEF Before, NoHead
  <2>7. days'[today] = b
    BY <1>5, <2>1, <2>2
  <2>8. \A k \in Runs : head'[k].at # "made" /\ (head'[k].at = "dated" => k = h)
    BY <1>4, <2>3, <2>4, HeadNames
  <2> QED
    BY <1>3, <1>4, <2>3, <2>4, <2>5, <2>6, <2>7, <2>8 DEF LinksInv
<1> QED
  BY <1>3, <1>7, <1>8 DEF DayInv

LEMMA PutLatestDay ==
  ASSUME HeadInv, DayInv, NEW h \in Runs, PutLatest(h), UNCHANGED today
  PROVE  DayInv'
<1> DEFINE b == head[h].daily
<1>1. /\ head[h].at = "dated" /\ latest' = b /\ head' = [head EXCEPT ![h] = Away]
      /\ UNCHANGED <<days, today, crossed, torn>>
  BY DEF PutLatest
<1> HIDE DEF b
<1>2. \A k \in Runs : head'[k] = IF k = h THEN Away ELSE head[k]
  <2>1. head = [k \in Runs |-> head[k]]
    BY DEF HeadInv, KV
  <2> QED
    BY <1>1, <2>1
<1>3. today \in 1..LastDay /\ LastDay \in Nat /\ (~crossed => Dated(b, today))
  BY <1>1, CustodyAssumption DEF DayInv, DatesInv, b
<1>4. ~crossed => DatesInv'
  <2> SUFFICES ASSUME ~crossed PROVE DatesInv'
    OBVIOUS
  <2>1. DatesInv
    BY DEF DayInv
  <2>2. \E d \in 1..today : (Dated(latest, d))'
    BY <1>1, <1>3 DEF Dated
  <2> QED
    BY <1>1, <1>2, <2>1, <2>2, HeadNames DEF DatesInv, Dated, NoHead, Away
<1>5. ~crossed /\ ~torn => LinksInv'
  <2> SUFFICES ASSUME ~crossed, ~torn PROVE LinksInv'
    OBVIOUS
  <2>1. LinksInv
    BY DEF DayInv
  <2>2. \A k \in Runs : head'[k] = Away
    BY <1>1, <1>2, <2>1, HeadNames DEF LinksInv
  <2>3. days[today] = b /\ b # NoHead
    BY <1>1, <1>3, <2>1, HeadNames DEF LinksInv, b
  <2>4. Before(today + 1, b)
    BY <1>3, <2>3 DEF Before
  <2>5. (Before(today + 1, latest))'
    BY <1>1, <2>4 DEF Before, NoHead
  <2>6. \A d \in 1..LastDay : days'[d] # NoHead => d <= today' /\ (Before(d, days[d].prev))'
    BY <1>1, <2>1 DEF LinksInv, Before, NoHead
  <2>7. Away' = Away /\ NoHead' = NoHead
    BY DEF Away, NoHead
  <2> QED
    BY <2>2, <2>5, <2>6, <2>7, HeadNames DEF LinksInv
<1> QED
  BY <1>1, <1>3, <1>4, <1>5 DEF DayInv

LEMMA MidnightDay == ASSUME DayInv, Midnight PROVE DayInv'
<1>1. /\ today' = today + 1 /\ today < LastDay /\ today \in 1..LastDay /\ LastDay \in Nat
      /\ UNCHANGED <<head, days, latest, torn>>
      /\ crossed' \in BOOLEAN
      /\ ~crossed' => ~crossed /\ \A h \in Runs : head[h] = Away
  BY CustodyAssumption DEF Midnight, headVars, DayInv
<1>2. ~crossed' => DatesInv'
  <2> SUFFICES ASSUME ~crossed' PROVE DatesInv'
    OBVIOUS
  <2>1. DatesInv /\ \A h \in Runs : head'[h] = Away
    BY <1>1 DEF DayInv
  <2>2. latest = NoHead \/ \E d \in 1..(today + 1) : Dated(latest, d)
    BY <1>1, <2>1 DEF DatesInv
  <2> QED
    BY <1>1, <2>1, <2>2, HeadNames DEF DatesInv, Dated, NoHead
<1>3. ~crossed' /\ ~torn' => LinksInv'
  <2> SUFFICES ASSUME ~crossed', ~torn' PROVE LinksInv'
    OBVIOUS
  <2>1. LinksInv /\ \A h \in Runs : head[h] = Away
    BY <1>1 DEF DayInv
  <2>2. days[today + 1] = NoHead /\ Before(today + 1, latest)
    BY <1>1, <2>1, HeadNames DEF LinksInv
  <2>3. Before((today + 1) + 1, latest)
    <3>1. \A k : k \in 1..((today + 1) + 1 - 1) <=> k \in 1..((today + 1) - 1) \/ k = today + 1
      BY <1>1
    <3>2. \A e \in 1..((today + 1) - 1) : \A k : k \in (e + 1)..((today + 1) + 1 - 1)
            <=> k \in (e + 1)..((today + 1) - 1) \/ k = today + 1
      BY <1>1
    <3> QED
      BY <2>2, <3>1, <3>2 DEF Before
  <2>4. (Before(today + 1, latest))'
    BY <1>1, <2>3 DEF Before, NoHead
  <2>5. \A d \in 1..LastDay : days'[d] # NoHead => d <= today' /\ (Before(d, days[d].prev))'
    BY <1>1, <2>1 DEF LinksInv, Before, NoHead
  <2>6. Away' = Away /\ NoHead' = NoHead
    BY DEF Away, NoHead
  <2> QED
    BY <1>1, <2>1, <2>4, <2>5, <2>6, HeadNames DEF LinksInv
<1> QED
  BY <1>1, <1>2, <1>3 DEF DayInv

LEMMA NextDay == HeadInv /\ DayInv /\ [CustodyNext]_custodyVars => DayInv'
<1> SUFFICES ASSUME HeadInv, DayInv, [CustodyNext]_custodyVars PROVE DayInv'
  OBVIOUS
<1>1. ASSUME NEW h \in Runs, HeadStep(h), UNCHANGED today PROVE DayInv'
  <2>1. CASE HeadStart(h)
    <3> DEFINE s == [at |-> "listed", date |-> today,
         keys |-> (IF unit = << >> THEN {} ELSE {"unit"})
                    \cup (IF mirror = << >> THEN {} ELSE {"timmy"})]
    <3>1. /\ head' = [head EXCEPT ![h] = s] /\ UNCHANGED <<days, latest, crossed>>
          /\ head[h] = Away /\ torn' = (torn \/ \E k \in Runs : head[k] # Away)
      BY <2>1 DEF HeadStart
    <3>2. s.at = "listed" /\ s.date = today
      OBVIOUS
    <3> HIDE DEF s
    <3>3. torn \in BOOLEAN
      BY DEF DayInv
    <3>4. ~torn' => \A k \in Runs : head[k] = Away
      BY <3>1, <3>3
    <3>5. torn' \in BOOLEAN /\ (torn => torn')
      BY <3>1, <3>3
    <3> QED
      BY <1>1, <3>1, <3>2, <3>4, <3>5, HeadNames, MoveDay
  <2>2. CASE ReadUnit(h)
    <3> DEFINE c == IF "unit" \in head[h].keys THEN unit ELSE << >>
               s == [at |-> "unit", date |-> head[h].date, keys |-> head[h].keys,
                     unit |-> Entry(c, IF c = << >> THEN 0 ELSE c[Len(c)])]
    <3>1. /\ head' = [head EXCEPT ![h] = s] /\ UNCHANGED <<days, latest, crossed, torn>>
          /\ head[h].at = "listed"
      BY <2>2 DEF ReadUnit
    <3>2. s.at = "unit" /\ s.date = head[h].date
      OBVIOUS
    <3> HIDE DEF s
    <3>3. torn \in BOOLEAN /\ (~crossed => head[h].date = today)
      BY <3>1 DEF DayInv, DatesInv
    <3> QED
      BY <1>1, <3>1, <3>2, <3>3, HeadNames, MoveDay
  <2>3. CASE ReadMirror(h)
    <3> DEFINE c == IF "timmy" \in head[h].keys THEN mirror ELSE << >>
               s == [at |-> "chains", date |-> head[h].date, unit |-> head[h].unit,
                     timmy |-> Entry(c, Chain!HeadHash(c))]
    <3>1. /\ head' = [head EXCEPT ![h] = s] /\ UNCHANGED <<days, latest, crossed, torn>>
          /\ head[h].at = "unit"
      BY <2>3 DEF ReadMirror
    <3>2. s.at = "chains" /\ s.date = head[h].date
      OBVIOUS
    <3> HIDE DEF s
    <3>3. torn \in BOOLEAN /\ (~crossed => head[h].date = today)
      BY <3>1 DEF DayInv, DatesInv
    <3> QED
      BY <1>1, <3>1, <3>2, <3>3, HeadNames, MoveDay
  <2>4. CASE HeadDies(h)
    <3>1. /\ head' = [head EXCEPT ![h] = Away] /\ UNCHANGED <<days, latest, crossed>>
          /\ head[h] # Away /\ torn' = (torn \/ head[h].at = "dated")
      BY <2>4 DEF HeadDies
    <3>2. torn \in BOOLEAN
      BY DEF DayInv
    <3> QED
      BY <1>1, <3>1, <3>2, HeadNames, MoveDay
  <2> QED
    BY <1>1, <2>1, <2>2, <2>3, <2>4, MakeDay, PutDayDay, PutLatestDay DEF HeadStep
<1>2. CASE UNCHANGED <<headVars, today>>
  BY <1>2 DEF headVars, DayInv, DatesInv, LinksInv, Before, Dated, Away, NoHead
<1> QED
  BY <1>1, <1>2, MidnightDay DEF CustodyNext, custodyVars

\* The last day before d that has a head, by which DaysLinked chooses.
LEMMA LastBefore ==
  ASSUME DayInv, NEW d \in 1..LastDay, NEW b, Before(d, b)
  PROVE  LET before == {e \in 1..(d - 1) : days[e] # NoHead} IN
         b = IF before = {} THEN NoHead
             ELSE days[CHOOSE e \in before : \A k \in before : k <= e]
<1> DEFINE before == {e \in 1..(d - 1) : days[e] # NoHead}
<1>1. CASE b = NoHead
  BY <1>1 DEF Before
<1>2. CASE b # NoHead
  <2>1. PICK e \in 1..(d - 1) : days[e] = b /\ \A k \in (e + 1)..(d - 1) : days[k] = NoHead
    BY <1>2 DEF Before
  <2>2. e \in before /\ \A k \in before : k <= e
    BY <1>2, <2>1, CustodyAssumption
  <2>3. \A x \in before : (\A k \in before : k <= x) => x = e
    BY <2>2, CustodyAssumption
  <2>4. (CHOOSE x \in before : \A k \in before : k <= x) = e
    BY <2>2, <2>3
  <2> QED
    BY <2>1, <2>2, <2>4
<1> QED
  BY <1>1, <1>2

\* The heads of the days are linked, for any number of days and of runs of which no
\* two overlap, none crosses midnight and none dies between its puts.
THEOREM DaysAlwaysLinked == CustodySpec => []DaysLinked
<1>1. DayInv => DaysLinked
  <2> SUFFICES ASSUME DayInv, ~crossed
               PROVE  /\ \A b \in Heads : b.prev.date < b.date
                      /\ torn \/ \A d \in 1..LastDay : days[d] # NoHead =>
                           LET before == {e \in 1..(d - 1) : days[e] # NoHead} IN
                           days[d].prev = IF before = {} THEN NoHead
                             ELSE days[CHOOSE e \in before : \A k \in before : k <= e]
    BY DEF DaysLinked
  <2>1. DatesInv /\ today \in 1..LastDay
    BY DEF DayInv
  <2>2. ASSUME NEW b \in Heads PROVE b.prev.date < b.date
    <3>1. \E d \in 1..LastDay : Dated(b, d)
      BY <2>1, CustodyAssumption DEF Heads, Published, DatesInv
    <3> QED
      BY <3>1, CustodyAssumption DEF Dated
  <2>3. ASSUME ~torn, NEW d \in 1..LastDay, days[d] # NoHead PROVE Before(d, days[d].prev)
    BY <2>3 DEF DayInv, LinksInv
  <2> QED
    BY <2>2, <2>3, LastBefore
<1>2. CustodyInit => SealInv /\ TapInv /\ HeadInv /\ DayInv
  BY InitInv, InitTap, InitHead, InitDay DEF CustodyInit
<1>3. SealInv /\ TapInv /\ HeadInv /\ DayInv /\ [CustodyNext]_custodyVars
        => (SealInv /\ TapInv /\ HeadInv /\ DayInv)'
  BY StepIsSealStep, NextInv, NextTap, NextHead, NextDay
<1> QED
  BY <1>1, <1>2, <1>3, PTL DEF CustodySpec

-----------------------------------------------------------------------------
(* What a chain of receipts says, and what one more receipt changes of it *)

\* A set of numbers that has 0 and with each number the next has all of them.
LEMMA Induction ==
  ASSUME NEW S, 0 \in S, \A n \in Nat : n \in S => n + 1 \in S
  PROVE  Nat \subseteq S
<1> SUFFICES ASSUME Nat \ S # {} PROVE FALSE
  OBVIOUS
<1>1. PICK x \in Nat \ S : \A y \in Nat \ S : ~ (<<y, x>> \in OpToRel(<, Nat))
  BY NatLessThanWellFounded, WFMin
<1>2. x \in Nat /\ x # 0
  BY <1>1
<1>3. x - 1 \in Nat /\ x - 1 < x /\ (x - 1) + 1 = x
  BY <1>2
<1>4. x - 1 \in S
  <2>1. <<x - 1, x>> \in Nat \X Nat
    BY <1>2, <1>3
  <2>2. <<x - 1, x>> \in OpToRel(<, Nat)
    BY <1>3, <2>1, Zenon DEF OpToRel
  <2> QED
    BY <1>1, <1>3, <2>2
<1> QED
  BY <1>1, <1>3, <1>4

\* A set of numbers up to n has a last one.
LEMMA LastOf ==
  ASSUME NEW n \in Nat, NEW P \in SUBSET (1..n), P # {}
  PROVE  \E i \in P : \A k \in P : k <= i
<1> DEFINE S == {d \in Nat : n - d \in P}
<1>1. \A k \in P : n - k \in Nat /\ n - (n - k) = k
  OBVIOUS
<1>2. \A k \in P : n - k \in S
  BY <1>1
<1>3. S # {} /\ S \subseteq Nat
  BY <1>2
<1>4. \A d \in S : n - d \in P
  OBVIOUS
<1> HIDE DEF S
<1>5. PICK x \in S : \A y \in S : ~ (<<y, x>> \in OpToRel(<, Nat))
  BY <1>3, NatLessThanWellFounded, WFMin
<1>6. ASSUME NEW k \in P PROVE k <= n - x
  <2>1. x \in Nat /\ n - k \in Nat /\ n - k \in S /\ k \in Int
    BY <1>1, <1>2, <1>3
  <2>2. <<n - k, x>> \in Nat \X Nat
    BY <2>1
  <2>3. ~(n - k < x)
    BY <1>5, <2>1, <2>2, Zenon DEF OpToRel
  <2> QED
    BY <2>1, <2>3
<1> QED
  BY <1>4, <1>6

\* f says what the receipts of c up to each place cost.
Sums(f, c, n) ==
  f = [i \in 0..n |-> IF i = 0 THEN 0 ELSE f[i - 1] + c[i].body.usd]

TheSum(c) == CHOOSE f : Sums(f, c, Len(c))

LEMMA BilledIsSum ==
  ASSUME NEW c
  PROVE  Billed(c) = TheSum(c)[Len(c)]
BY DEF Billed, TheSum, Sums

LEMMA SumsExist ==
  ASSUME NEW c
  PROVE  \A n \in Nat : \E f : Sums(f, c, n)
<1> DEFINE S == {n \in Nat : \E f : Sums(f, c, n)}
<1>1. 0 \in S
  <2> DEFINE f == [i \in 0..0 |-> 0]
  <2>1. f = [i \in 0..0 |-> IF i = 0 THEN 0 ELSE f[i - 1] + c[i].body.usd]
    OBVIOUS
  <2> HIDE DEF f
  <2>2. Sums(f, c, 0)
    BY <2>1 DEF Sums
  <2> QED
    BY <2>2
<1>2. ASSUME NEW n \in Nat, n \in S PROVE n + 1 \in S
  <2>1. PICK f : Sums(f, c, n)
    BY <1>2
  <2> DEFINE g == [i \in 0..(n + 1) |-> IF i = n + 1 THEN f[n] + c[n + 1].body.usd ELSE f[i]]
  <2>2. ASSUME NEW i \in 0..(n + 1)
        PROVE  g[i] = IF i = 0 THEN 0 ELSE g[i - 1] + c[i].body.usd
    <3>1. CASE i = n + 1
      <4>1. i # 0 /\ i - 1 = n /\ n \in 0..(n + 1) /\ n # n + 1
        BY <3>1
      <4>2. g[i] = f[n] + c[i].body.usd /\ g[n] = f[n]
        BY <3>1, <4>1
      <4> QED
        BY <4>1, <4>2
    <3>2. CASE i # n + 1
      <4>1. i \in 0..n /\ g[i] = f[i]
        BY <3>2
      <4>2. f[i] = IF i = 0 THEN 0 ELSE f[i - 1] + c[i].body.usd
        BY <4>1, <2>1 DEF Sums
      <4>3. i # 0 => g[i - 1] = f[i - 1]
        BY <4>1
      <4> QED
        BY <4>1, <4>2, <4>3
    <3> QED
      BY <3>1, <3>2
  <2>3. g = [i \in 0..(n + 1) |-> g[i]]
    OBVIOUS
  <2> HIDE DEF g
  <2>4. g = [i \in 0..(n + 1) |-> IF i = 0 THEN 0 ELSE g[i - 1] + c[i].body.usd]
    BY <2>2, <2>3
  <2>5. Sums(g, c, n + 1)
    BY <2>4 DEF Sums
  <2> QED
    BY <2>5
<1> HIDE DEF S
<1>3. Nat \subseteq S
  BY <1>1, <1>2, Induction
<1> QED
  BY <1>3 DEF S

\* Sums of chains that begin alike agree as far as they do.
LEMMA SumsAgree ==
  ASSUME NEW c, NEW d, NEW l \in Nat, NEW f, NEW g, Sums(f, c, l + 1), Sums(g, d, l),
         \A i \in 1..l : c[i] = d[i]
  PROVE  f[l] = g[l]
<1> DEFINE S == {k \in Nat : k <= l => f[k] = g[k]}
<1>1. \A k \in 0..l : /\ f[k] = IF k = 0 THEN 0 ELSE f[k - 1] + c[k].body.usd
                      /\ g[k] = IF k = 0 THEN 0 ELSE g[k - 1] + d[k].body.usd
  <2> SUFFICES ASSUME NEW k \in 0..l
               PROVE  /\ f[k] = IF k = 0 THEN 0 ELSE f[k - 1] + c[k].body.usd
                      /\ g[k] = IF k = 0 THEN 0 ELSE g[k - 1] + d[k].body.usd
    OBVIOUS
  <2>1. k \in 0..(l + 1)
    OBVIOUS
  <2>2. f[k] = IF k = 0 THEN 0 ELSE f[k - 1] + c[k].body.usd
    BY <2>1 DEF Sums
  <2>3. g[k] = IF k = 0 THEN 0 ELSE g[k - 1] + d[k].body.usd
    BY <2>1 DEF Sums
  <2> QED
    BY <2>2, <2>3
<1>2. 0 \in S
  BY <1>1
<1>3. ASSUME NEW k \in Nat, k \in S PROVE k + 1 \in S
  <2> SUFFICES ASSUME k + 1 <= l PROVE f[k + 1] = g[k + 1]
    BY <1>3
  <2>1. k + 1 \in 0..l /\ k + 1 \in 1..l /\ k + 1 # 0 /\ (k + 1) - 1 = k /\ k <= l
    OBVIOUS
  <2>2. f[k] = g[k] /\ c[k + 1] = d[k + 1]
    BY <1>3, <2>1
  <2> QED
    BY <1>1, <2>1, <2>2
<1> HIDE DEF S
<1>4. Nat \subseteq S
  BY <1>2, <1>3, Induction
<1> QED
  BY <1>4 DEF S

LEMMA BilledEmpty == Billed(<< >>) = 0
<1>1. Len(<< >>) = 0
  OBVIOUS
<1>2. Sums(TheSum(<< >>), << >>, 0)
  BY <1>1, SumsExist DEF TheSum
<1>3. TheSum(<< >>)[0] = 0
  BY <1>2 DEF Sums
<1> QED
  BY <1>1, <1>3, BilledIsSum

\* One more receipt costs what its body says.
LEMMA BilledAppend ==
  ASSUME NEW T, NEW c \in Seq(T), NEW r \in T
  PROVE  Billed(Append(c, r)) = Billed(c) + r.body.usd
<1> DEFINE d == Append(c, r)
<1>1. /\ Len(c) \in Nat /\ Len(d) = Len(c) + 1
      /\ \A i \in 1..Len(c) : d[i] = c[i]
      /\ d[Len(c) + 1] = r
  BY AppendProperties
<1> HIDE DEF d
<1>2. Sums(TheSum(c), c, Len(c))
  BY <1>1, SumsExist DEF TheSum
<1>3. Sums(TheSum(d), d, Len(c) + 1)
  <2>1. Len(c) + 1 \in Nat
    BY <1>1
  <2>2. \E f : Sums(f, d, Len(d))
    BY <1>1, <2>1, SumsExist
  <2> QED
    BY <1>1, <2>2 DEF TheSum
<1>4. TheSum(d)[Len(c)] = TheSum(c)[Len(c)]
  <2> DEFINE n == Len(c)
             f == TheSum(d)
             g == TheSum(c)
  <2>1. n \in Nat /\ Sums(f, d, n + 1) /\ Sums(g, c, n) /\ \A i \in 1..n : d[i] = c[i]
    BY <1>1, <1>2, <1>3
  <2> HIDE DEF n, f, g
  <2>2. f[n] = g[n]
    BY <2>1, SumsAgree
  <2> QED
    BY <2>2 DEF n, f, g
<1>5. TheSum(d)[Len(c) + 1] = TheSum(d)[Len(c)] + d[Len(c) + 1].body.usd
  <2>1. Len(c) + 1 \in 0..(Len(c) + 1) /\ Len(c) + 1 # 0 /\ (Len(c) + 1) - 1 = Len(c)
    BY <1>1
  <2>2. \A k \in 0..(Len(c) + 1) :
          TheSum(d)[k] = IF k = 0 THEN 0 ELSE TheSum(d)[k - 1] + d[k].body.usd
    BY <1>3 DEF Sums
  <2> QED
    BY <2>1, <2>2
<1> QED
  BY <1>1, <1>4, <1>5, BilledIsSum DEF d

LEMMA LastBudgetEmpty == LastBudget(<< >>) = FirstCap
BY DEF LastBudget

\* One more receipt sets the budget if it is a profile's.
LEMMA LastBudgetAppend ==
  ASSUME NEW T, NEW c \in Seq(T), NEW r \in T
  PROVE  LastBudget(Append(c, r)) =
           IF r.body.kind = "profile" THEN r.body.budget ELSE LastBudget(c)
<1> DEFINE d == Append(c, r)
           p == {i \in 1..Len(c) : c[i].body.kind = "profile"}
           q == {i \in 1..Len(d) : d[i].body.kind = "profile"}
<1>1. /\ Len(c) \in Nat /\ Len(d) = Len(c) + 1
      /\ \A i \in 1..Len(c) : d[i] = c[i]
      /\ d[Len(c) + 1] = r
  BY AppendProperties
<1>2. LastBudget(d) = IF q = {} THEN FirstCap
                      ELSE d[CHOOSE i \in q : \A k \in q : k <= i].body.budget
  BY DEF LastBudget
<1>3. LastBudget(c) = IF p = {} THEN FirstCap
                      ELSE c[CHOOSE i \in p : \A k \in p : k <= i].body.budget
  BY DEF LastBudget
<1> HIDE DEF d
<1>4. CASE r.body.kind = "profile"
  <2>1. Len(c) + 1 \in q /\ \A k \in q : k <= Len(c) + 1
    BY <1>1, <1>4
  <2>2. (CHOOSE i \in q : \A k \in q : k <= i) = Len(c) + 1
    <3>1. \A i \in q : (\A k \in q : k <= i) => i = Len(c) + 1
      BY <1>1, <2>1
    <3> QED
      BY <2>1, <3>1
  <2> QED
    BY <1>1, <1>2, <1>4, <2>1, <2>2 DEF d
<1>5. CASE r.body.kind # "profile"
  <2>1. q = p
    BY <1>1, <1>5
  <2>2. CASE p = {}
    BY <1>2, <1>3, <1>5, <2>1, <2>2 DEF d
  <2>3. CASE p # {}
    <3>1. \E i \in p : \A k \in p : k <= i
      <4>1. p \in SUBSET (1..Len(c))
        OBVIOUS
      <4> HIDE DEF p
      <4> QED
        BY <1>1, <2>3, <4>1, LastOf
    <3>2. (CHOOSE i \in p : \A k \in p : k <= i) \in 1..Len(c)
      BY <3>1
    <3> QED
      BY <1>1, <1>2, <1>3, <1>5, <2>1, <2>3, <3>2 DEF d
  <2> QED
    BY <2>2, <2>3
<1> QED
  BY <1>4, <1>5

-----------------------------------------------------------------------------
(* The invariant of a Timmy *)

\* A verb that waits for its receipt: what it commits, and what it asked for.
Asked ==
  \A j \in Jobs : req[j].at = "seal" =>
    /\ seal[j].at \in {"waiting", "hashing"} => seal[j].body = req[j].body
    /\ req[j].body.kind = "turn" =>
         req[j].next = [req[j].read EXCEPT !.usd = @ + req[j].body.usd]
    /\ req[j].body.kind # "turn" => req[j].body.usd = 0

Follows(c) == state.cap_usd = LastBudget(c) /\ state.usd = Billed(c)

\* Unless a commit was lost the state follows the chain: all of it when no receipt waits
\* for its commit, and otherwise all but the last, which its verb will commit.
Follow ==
  lost \/
    /\ (\A j \in Jobs : seal[j].at # "putting") =>
         Follows(receipts) /\ (receipts # << >> => state.head = Chain!HeadHash(receipts))
    /\ \A j \in Jobs : seal[j].at = "putting" =>
         \E c \in Seq(Chain!Receipt), r \in Chain!Receipt :
           receipts = Append(c, r) /\ r.body = req[j].body /\ Follows(c)

TimmyInv == SealInv /\ TypeOK /\ Asked /\ Follow

LEMMA VerbTypes ==
  ASSUME NEW v \in Verb \cup {None}
  PROVE  /\ v.at \in {"none", "mind", "answered", "seal"}
         /\ v = None <=> v.at = "none"
         /\ v.at = "answered" => v.usd \in Costs /\ v.read \in TimmyState
         /\ v.at = "seal" => /\ v.body \in Body /\ v.next \in TimmyState
                             /\ v.read \in TimmyState /\ v.notes \in Nat
BY DEF Verb, None

LEMMA BodyTypes ==
  ASSUME NEW b \in Body
  PROVE  b.usd \in Nat /\ b.budget \in Nat /\ b.kind \in {"turn", "profile", "remember"}
<1>1. b.usd \in Costs \cup {0} /\ b.budget \in Budgets \cup {0}
  BY DEF Body
<1>2. b.kind \in {"turn", "profile", "remember"}
  BY DEF Body
<1>3. Costs \cup {0} \subseteq Nat /\ Budgets \cup {0} \subseteq Nat
  BY TimmyAssumption
<1> QED
  BY <1>1, <1>2, <1>3, Zenon

LEMMA StateFields ==
  ASSUME NEW s \in TimmyState
  PROVE  s.usd \in Nat /\ s.cap_usd \in Nat /\ s.memory_notes \in Nat /\ s.head \in Nat
BY DEF TimmyState

LEMMA InitTimmy == TimmyInit => TimmyInv
<1> SUFFICES ASSUME TimmyInit PROVE TimmyInv
  OBVIOUS
<1>1. SealInv
  BY InitInv DEF TimmyInit
<1>2. \A j \in Jobs : req[j] = None /\ seal[j].at = "idle"
  BY DEF TimmyInit, SealInit, Idle
<1>3. None.at = "none"
  BY DEF None
<1>4. TypeOK
  BY <1>1, <1>2, <1>3, TimmyAssumption DEF TypeOK, TimmyInit, SealInv, TimmyState
<1>5. receipts = << >>
  BY DEF TimmyInit, SealInit
<1>6. Follows(receipts)
  BY <1>5, BilledEmpty, LastBudgetEmpty DEF Follows, TimmyInit
<1>7. Asked /\ Follow
  BY <1>2, <1>3, <1>5, <1>6 DEF Asked, Follow
<1> QED
  BY <1>1, <1>4, <1>7 DEF TimmyInv

\* A verb that asks for a receipt.
LEMMA AskTimmy ==
  ASSUME TimmyInv, SealInv', NEW j \in Jobs, NEW b \in Body,
         NEW read \in TimmyState, NEW next \in TimmyState, NEW notes \in Nat,
         AskSeal(j, b, read, next, notes),
         b.kind = "turn" => next = [read EXCEPT !.usd = @ + b.usd],
         b.kind # "turn" => b.usd = 0,
         UNCHANGED <<state, lost>>, memory' \subseteq Notes
  PROVE  TimmyInv'
<1> DEFINE v == [at |-> "seal", body |-> b, next |-> next, read |-> read, notes |-> notes]
<1>1. /\ seal[j] = Idle /\ seal' = [seal EXCEPT ![j] = Waiting(b)]
      /\ req' = [req EXCEPT ![j] = v] /\ UNCHANGED receipts
  BY DEF AskSeal, Enqueue
<1>2. Waiting(b).at = "waiting" /\ Waiting(b).body = b /\ Idle.at = "idle"
  BY DEF Waiting, Idle
<1>3. /\ v \in Verb \cup {None} /\ v.at = "seal" /\ v.body = b /\ v.next = next
      /\ v.read = read
  BY DEF Verb
<1> HIDE DEF v
<1>4. /\ req \in [Jobs -> Verb \cup {None}] /\ seal \in [Jobs -> SealStates]
      /\ state \in TimmyState /\ lost \in BOOLEAN
      /\ \A k \in Jobs : req[k].at = "seal" <=> seal[k].at # "idle"
  BY DEF TimmyInv, TypeOK, SealTypeOK
<1>5. /\ req'[j] = v /\ seal'[j] = Waiting(b)
      /\ \A k \in Jobs \ {j} : req'[k] = req[k] /\ seal'[k] = seal[k]
  BY <1>1, <1>4
<1>6. req' \in [Jobs -> Verb \cup {None}]
  BY <1>1, <1>3, <1>4
<1>7. TypeOK'
  <2>1. \A k \in Jobs : req'[k].at = "seal" <=> seal'[k].at # "idle"
    BY <1>2, <1>3, <1>4, <1>5
  <2> QED
    BY <2>1, <1>4, <1>6 DEF TypeOK, SealInv
<1>8. Asked'
  <2> SUFFICES ASSUME NEW k \in Jobs, req'[k].at = "seal"
               PROVE  /\ seal'[k].at \in {"waiting", "hashing"} => seal'[k].body = req'[k].body
                      /\ req'[k].body.kind = "turn" =>
                           req'[k].next = [req'[k].read EXCEPT !.usd = @ + req'[k].body.usd]
                      /\ req'[k].body.kind # "turn" => req'[k].body.usd = 0
    BY DEF Asked
  <2>1. CASE k = j
    BY <2>1, <1>2, <1>3, <1>5
  <2>2. CASE k # j
    BY <2>2, <1>5 DEF TimmyInv, Asked
  <2> QED
    BY <2>1, <2>2
<1>9. Follow'
  <2>1. \A k \in Jobs : seal'[k].at = "putting" <=> seal[k].at = "putting"
    BY <1>1, <1>2, <1>5
  <2>2. \A k \in Jobs : seal[k].at = "putting" => req'[k] = req[k]
    BY <1>1, <1>2, <1>5
  <2> QED
    BY <1>1, <2>1, <2>2 DEF TimmyInv, Follow, Follows
<1> QED
  BY <1>7, <1>8, <1>9 DEF TimmyInv

\* A verb that only thinks: it does not wait for a receipt, before or after.
LEMMA ThinkTimmy ==
  ASSUME TimmyInv, SealInv', NEW j \in Jobs, NEW v \in Verb \cup {None},
         req[j].at # "seal", v.at # "seal",
         req' = [req EXCEPT ![j] = v],
         UNCHANGED <<state, memory, lost, sealVars>>
  PROVE  TimmyInv'
<1>1. /\ req \in [Jobs -> Verb \cup {None}]
      /\ \A k \in Jobs : req[k].at = "seal" <=> seal[k].at # "idle"
      /\ seal' = seal /\ receipts' = receipts
  BY DEF TimmyInv, TypeOK, sealVars
<1>2. req'[j] = v /\ \A k \in Jobs \ {j} : req'[k] = req[k]
  BY <1>1
<1>3. req' \in [Jobs -> Verb \cup {None}]
  BY <1>1
<1>4. TypeOK'
  BY <1>1, <1>2, <1>3 DEF TimmyInv, TypeOK, SealInv
<1>5. Asked'
  BY <1>1, <1>2 DEF TimmyInv, Asked
<1>6. \A k \in Jobs : seal[k].at = "putting" => req'[k] = req[k]
  BY <1>1, <1>2
<1>7. Follow'
  BY <1>1, <1>6 DEF TimmyInv, Follow, Follows
<1> QED
  BY <1>4, <1>5, <1>7 DEF TimmyInv

\* The receipt of the verb j is hashed.
LEMMA ReadTimmy ==
  ASSUME TimmyInv, SealInv', NEW j \in Jobs, ReadChain(j),
         UNCHANGED <<state, req, memory, lost>>
  PROVE  TimmyInv'
<1> DEFINE h == Hashing(seal[j].body, receipts, hashes + 1)
<1>1. /\ seal[j].at = "waiting" /\ seal' = [seal EXCEPT ![j] = h] /\ UNCHANGED receipts
  BY DEF ReadChain
<1>2. h.at = "hashing" /\ h.body = seal[j].body
  BY DEF Hashing
<1> HIDE DEF h
<1>3. seal'[j] = h /\ \A k \in Jobs \ {j} : seal'[k] = seal[k]
  BY <1>1 DEF TimmyInv, TypeOK, SealTypeOK
<1>4. TypeOK'
  BY <1>1, <1>2, <1>3 DEF TimmyInv, TypeOK, SealInv
<1>5. Asked'
  BY <1>1, <1>2, <1>3 DEF TimmyInv, Asked
<1>6. \A k \in Jobs : seal'[k].at = "putting" <=> seal[k].at = "putting"
  BY <1>1, <1>2, <1>3
<1>7. Follow'
  BY <1>1, <1>6 DEF TimmyInv, Follow, Follows
<1> QED
  BY <1>4, <1>5, <1>7 DEF TimmyInv

\* Whoever hashes or puts is alone with it.
LEMMA WorksAlone ==
  ASSUME SealInv, NEW j \in Jobs, NEW k \in Jobs,
         seal[j].at \in {"hashing", "putting"}, seal[k].at \in {"hashing", "putting"}
  PROVE  j = k
BY DEF SealInv, OnlyHeadWorks, Turn

\* It is inserted: the state follows the chain before it.
LEMMA InsertTimmy ==
  ASSUME TimmyInv, SealInv', NEW j \in Jobs, InsertReceipt(j),
         UNCHANGED <<state, req, memory, lost>>
  PROVE  TimmyInv'
<1> DEFINE r == NewReceipt(seal[j])
           u == Putting(Append(seal[j].chain, r))
<1>1. /\ seal[j].at = "hashing" /\ receipts' = Append(receipts, r)
      /\ seal' = [seal EXCEPT ![j] = u]
  BY DEF InsertReceipt
<1>2. u.at = "putting"
  BY DEF Putting
<1>3. seal[j] \in SealStates /\ receipts \in Seq(Chain!Receipt)
  BY DEF TimmyInv, TypeOK, SealTypeOK
<1>4. r \in Chain!Receipt /\ r.body = seal[j].body
  BY <1>1, <1>3, NewReceiptType DEF NewReceipt
<1> HIDE DEF r, u
<1>5. seal'[j] = u /\ \A k \in Jobs \ {j} : seal'[k] = seal[k]
  BY <1>1 DEF TimmyInv, TypeOK, SealTypeOK
<1>6. \A k \in Jobs : seal[k].at = "putting" => FALSE
  BY <1>1, WorksAlone DEF TimmyInv
<1>7. req[j].at = "seal" /\ seal[j].body = req[j].body
  BY <1>1 DEF TimmyInv, TypeOK, Asked
<1>8. TypeOK'
  BY <1>1, <1>2, <1>5 DEF TimmyInv, TypeOK, SealInv
<1>9. Asked'
  BY <1>1, <1>2, <1>5 DEF TimmyInv, Asked
<1>10. Follow'
  <2> SUFFICES ASSUME ~lost
               PROVE  \E c \in Seq(Chain!Receipt), q \in Chain!Receipt :
                        receipts' = Append(c, q) /\ q.body = req[j].body /\ Follows(c)
    BY <1>2, <1>5, <1>6 DEF Follow, Follows
  <2>1. Follows(receipts)
    BY <1>6 DEF TimmyInv, Follow
  <2> QED
    BY <1>1, <1>3, <1>4, <1>7, <2>1
<1> QED
  BY <1>8, <1>9, <1>10 DEF TimmyInv

\* What is left of the invariant when the verb of j is over: its state and what is said
\* of the chain.
LEMMA OverTimmy ==
  ASSUME TimmyInv, SealInv', NEW j \in Jobs, seal[j].at \in {"hashing", "putting"},
         seal' = [seal EXCEPT ![j] = Idle], req' = [req EXCEPT ![j] = None],
         UNCHANGED <<memory, receipts>>,
         state' \in TimmyState, lost' \in BOOLEAN,
         lost' \/ /\ Follows(receipts)'
                  /\ receipts # << >> => state'.head = Chain!HeadHash(receipts)
  PROVE  TimmyInv'
<1>1. /\ req \in [Jobs -> Verb \cup {None}] /\ seal \in [Jobs -> SealStates]
      /\ \A k \in Jobs : req[k].at = "seal" <=> seal[k].at # "idle"
  BY DEF TimmyInv, TypeOK, SealTypeOK
<1>2. None.at = "none" /\ Idle.at = "idle"
  BY DEF None, Idle
<1>3. /\ req'[j] = None /\ seal'[j] = Idle
      /\ \A k \in Jobs \ {j} : req'[k] = req[k] /\ seal'[k] = seal[k]
      /\ req' \in [Jobs -> Verb \cup {None}]
  BY <1>1
<1>4. TypeOK'
  <2>1. \A k \in Jobs : req'[k].at = "seal" <=> seal'[k].at # "idle"
    BY <1>1, <1>2, <1>3
  <2> QED
    BY <1>3, <2>1 DEF TimmyInv, TypeOK, SealInv
<1>5. Asked'
  BY <1>2, <1>3 DEF TimmyInv, Asked
<1>6. \A k \in Jobs : seal'[k].at # "putting"
  BY <1>2, <1>3, WorksAlone DEF TimmyInv
<1>7. Follow'
  BY <1>6 DEF Follow, Follows
<1> QED
  BY <1>4, <1>5, <1>7 DEF TimmyInv

LEMMA FailTimmy ==
  ASSUME TimmyInv, SealInv', NEW j \in Jobs, SealFailed(j)
  PROVE  TimmyInv'
<1>1. /\ seal[j].at = "hashing" /\ seal' = [seal EXCEPT ![j] = Idle]
      /\ req' = [req EXCEPT ![j] = None] /\ UNCHANGED <<receipts, state, memory, lost>>
  BY DEF SealFailed, FailSeal
<1>2. \A k \in Jobs : seal[k].at # "putting"
  BY <1>1, WorksAlone DEF TimmyInv
<1>3. state' \in TimmyState /\ lost' \in BOOLEAN
  BY <1>1 DEF TimmyInv, TypeOK
<1>4. lost' \/ /\ Follows(receipts)'
               /\ receipts # << >> => state'.head = Chain!HeadHash(receipts)
  BY <1>1, <1>2 DEF TimmyInv, Follow, Follows
<1> QED
  BY <1>1, <1>3, <1>4, OverTimmy

LEMMA LostTimmy ==
  ASSUME TimmyInv, SealInv', NEW j \in Jobs, TurnLost(j)
  PROVE  TimmyInv'
<1>1. /\ seal[j].at = "putting" /\ seal' = [seal EXCEPT ![j] = Idle]
      /\ req' = [req EXCEPT ![j] = None] /\ UNCHANGED <<receipts, memory>> /\ lost' = TRUE
      /\ state' = [state EXCEPT !.head = Chain!HeadHash(seal[j].chain)]
  BY DEF TurnLost, Settle
<1>2. seal[j].chain = receipts /\ receipts \in Seq(Chain!Receipt)
  BY <1>1 DEF TimmyInv, SealInv, OnlyHeadWorks, SealTypeOK
<1>3. Chain!HeadHash(seal[j].chain) \in Nat
  BY <1>2, HeadHashType
<1>4. state' \in TimmyState
  BY <1>1, <1>3 DEF TimmyInv, TypeOK, TimmyState
<1> QED
  BY <1>1, <1>4, OverTimmy

\* The verb commits: what its receipt says is what the chain says more.
LEMMA SealedTimmy ==
  ASSUME TimmyInv, SealInv', NEW j \in Jobs, Sealed(j)
  PROVE  TimmyInv'
<1> DEFINE v == req[j]
           top == Chain!HeadHash(receipts)
           now == [state EXCEPT !.head = top]
<1>1. seal[j].at = "putting" /\ seal' = [seal EXCEPT ![j] = Idle]
  BY DEF Sealed, Settle
<1>2. seal[j].chain = receipts /\ receipts \in Seq(Chain!Receipt)
  BY <1>1 DEF TimmyInv, SealInv, OnlyHeadWorks, SealTypeOK
<1>3. /\ req' = [req EXCEPT ![j] = None] /\ UNCHANGED <<receipts, memory>>
      /\ state' = Committed(v, top)
      /\ lost' = (lost \/ (v.body.kind = "turn"
                            /\ [v.read EXCEPT !.head = 0] # [state EXCEPT !.head = 0]))
  BY <1>2 DEF Sealed, Settle
<1>4. /\ state \in TimmyState /\ lost \in BOOLEAN
      /\ req \in [Jobs -> Verb \cup {None}] /\ v.at = "seal"
  BY <1>1 DEF TimmyInv, TypeOK
<1>5. /\ v.body \in Body /\ v.next \in TimmyState /\ v.read \in TimmyState /\ v.notes \in Nat
      /\ top \in Nat
  BY <1>2, <1>4, VerbTypes, HeadHashType
<1>6. /\ v.body.kind = "turn" => v.next = [v.read EXCEPT !.usd = @ + v.body.usd]
      /\ v.body.kind # "turn" => v.body.usd = 0
  BY <1>4 DEF TimmyInv, Asked
<1>7. /\ v.body.usd \in Nat /\ v.body.budget \in Nat
      /\ v.body.kind \in {"turn", "profile", "remember"}
  BY <1>5, BodyTypes
<1> HIDE DEF v, top
<1>8. /\ v.body.kind = "turn" => state' = [v.next EXCEPT !.head = top]
      /\ v.body.kind = "profile" => state' = [now EXCEPT !.cap_usd = v.body.budget]
      /\ v.body.kind = "remember" => state' = [now EXCEPT !.memory_notes = v.notes]
  BY <1>3 DEF Committed
<1>9. now \in TimmyState /\ now.usd = state.usd /\ now.cap_usd = state.cap_usd /\ now.head = top
  BY <1>4, <1>5 DEF TimmyState
<1> HIDE DEF now
<1>10. state' \in TimmyState /\ state'.head = top
  BY <1>5, <1>7, <1>8, <1>9 DEF TimmyState
<1>11. lost' \in BOOLEAN
  BY <1>3, <1>4
<1>12. ASSUME ~lost' PROVE Follows(receipts)'
  <2>1. ~lost /\ (v.body.kind = "turn" => [v.read EXCEPT !.head = 0] = [state EXCEPT !.head = 0])
    BY <1>3, <1>4, <1>12
  <2>2. PICK c \in Seq(Chain!Receipt), r \in Chain!Receipt :
          receipts = Append(c, r) /\ r.body = v.body /\ Follows(c)
    BY <1>1, <2>1 DEF TimmyInv, Follow, v
  <2>3. Billed(receipts) = Billed(c) + v.body.usd
    BY <2>2, BilledAppend
  <2>4. LastBudget(receipts) =
          IF v.body.kind = "profile" THEN v.body.budget ELSE LastBudget(c)
    BY <2>2, LastBudgetAppend
  <2>5. state.cap_usd = LastBudget(c) /\ state.usd = Billed(c) /\ state.usd \in Nat
    BY <1>4, <2>2, StateFields DEF Follows
  <2>6. CASE v.body.kind = "turn"
    <3>1. v.read.usd = state.usd /\ v.read.cap_usd = state.cap_usd
      <4>1. /\ [v.read EXCEPT !.head = 0].usd = v.read.usd
            /\ [state EXCEPT !.head = 0].usd = state.usd
            /\ [v.read EXCEPT !.head = 0].cap_usd = v.read.cap_usd
            /\ [state EXCEPT !.head = 0].cap_usd = state.cap_usd
        BY <1>4, <1>5 DEF TimmyState
      <4> QED
        BY <2>1, <2>6, <4>1
    <3>2. v.next.usd = v.read.usd + v.body.usd /\ v.next.cap_usd = v.read.cap_usd
      BY <1>5, <1>6, <2>6 DEF TimmyState
    <3>3. state'.usd = v.next.usd /\ state'.cap_usd = v.next.cap_usd
      BY <1>5, <1>8, <2>6 DEF TimmyState
    <3> QED
      BY <1>3, <2>3, <2>4, <2>5, <2>6, <3>1, <3>2, <3>3 DEF Follows
  <2>7. CASE v.body.kind = "profile"
    <3>1. state'.usd = now.usd /\ state'.cap_usd = v.body.budget
      BY <1>8, <1>9, <2>7 DEF TimmyState
    <3>2. v.body.usd = 0
      BY <1>6, <2>7
    <3> QED
      BY <1>3, <1>9, <2>3, <2>4, <2>5, <2>7, <3>1, <3>2 DEF Follows
  <2>8. CASE v.body.kind = "remember"
    <3>1. state'.usd = now.usd /\ state'.cap_usd = now.cap_usd
      BY <1>8, <1>9, <2>8 DEF TimmyState
    <3>2. v.body.usd = 0
      BY <1>6, <2>8
    <3> QED
      BY <1>3, <1>9, <2>3, <2>4, <2>5, <2>8, <3>1, <3>2 DEF Follows
  <2> QED
    BY <1>7, <2>6, <2>7, <2>8
<1> QED
  BY <1>1, <1>3, <1>10, <1>11, <1>12, OverTimmy DEF top

LEMMA RestartTimmy ==
  ASSUME TimmyInv, SealInv', Restart
  PROVE  TimmyInv'
<1>1. /\ seal' = [j \in Jobs |-> Idle] /\ req' = [j \in Jobs |-> None]
      /\ lost' = (lost \/ \E j \in Jobs : seal[j].at = "putting")
      /\ UNCHANGED <<receipts, state, memory>>
  BY DEF Restart, SealRestart
<1>2. None.at = "none" /\ Idle.at = "idle"
  BY DEF None, Idle
<1>3. \A j \in Jobs : seal'[j].at = "idle" /\ req'[j].at = "none"
  BY <1>1, <1>2
<1>4. lost' \in BOOLEAN
  BY <1>1 DEF TimmyInv, TypeOK
<1>5. TypeOK'
  BY <1>1, <1>3, <1>4 DEF TimmyInv, TypeOK, SealInv
<1>6. Asked'
  BY <1>3 DEF Asked
<1>7. Follow'
  BY <1>1, <1>3 DEF TimmyInv, Follow, Follows
<1> QED
  BY <1>5, <1>6, <1>7 DEF TimmyInv

-----------------------------------------------------------------------------
(* A Timmy works on the queue of SealQueue *)

LEMMA AskedBodies ==
  ASSUME TypeOK, NEW j \in Jobs,
         AskTurn(j) \/ Profile(j) \/ Remember(j)
  PROVE  \E b \in Body, read \in TimmyState, next \in TimmyState, notes \in Nat :
           /\ AskSeal(j, b, read, next, notes)
           /\ b.kind = "turn" => next = [read EXCEPT !.usd = @ + b.usd]
           /\ b.kind # "turn" => b.usd = 0
           /\ req[j].at # "seal"
           /\ UNCHANGED <<state, lost>> /\ memory' \subseteq Notes
<1>1. req[j] \in Verb \cup {None} /\ state \in TimmyState /\ memory \subseteq Notes
  BY DEF TypeOK
<1>2. None.at = "none"
  BY DEF None
<1>3. CASE AskTurn(j)
  <2> DEFINE b == [kind |-> "turn", usd |-> req[j].usd, budget |-> 0]
             next == [req[j].read EXCEPT !.usd = @ + req[j].usd]
  <2>1. req[j].at = "answered" /\ AskSeal(j, b, req[j].read, next, 0)
    BY <1>3 DEF AskTurn
  <2>2. req[j].usd \in Costs /\ req[j].read \in TimmyState
    BY <1>1, <2>1, VerbTypes
  <2>3. b \in Body /\ b.kind = "turn" /\ b.usd = req[j].usd
    BY <2>2 DEF Body
  <2>4. next \in TimmyState
    BY <2>2, TimmyAssumption DEF TimmyState
  <2>5. next = [req[j].read EXCEPT !.usd = @ + b.usd]
    BY <2>3
  <2> HIDE DEF b, next
  <2>6. UNCHANGED <<state, memory, lost>>
    BY <1>3 DEF AskTurn
  <2> QED
    BY <1>1, <2>1, <2>2, <2>3, <2>4, <2>5, <2>6
<1>4. CASE Profile(j)
  <2>1. PICK budget \in Budgets :
          AskSeal(j, [kind |-> "profile", usd |-> 0, budget |-> budget], state, state, 0)
    BY <1>4 DEF Profile
  <2> DEFINE b == [kind |-> "profile", usd |-> 0, budget |-> budget]
  <2>2. b \in Body /\ b.kind = "profile" /\ b.usd = 0 /\ AskSeal(j, b, state, state, 0)
    BY <2>1 DEF Body
  <2> HIDE DEF b
  <2>3. UNCHANGED <<state, memory, lost>> /\ req[j] = None
    BY <1>4 DEF Profile
  <2> QED
    BY <1>1, <1>2, <2>2, <2>3
<1>5. CASE Remember(j)
  <2> DEFINE b == [kind |-> "remember", usd |-> 0, budget |-> 0]
  <2>1. AskSeal(j, b, state, state, Cardinality(memory')) /\ req[j] = None /\ UNCHANGED <<state, lost>>
    BY <1>5 DEF Remember
  <2>2. b \in Body /\ b.kind = "remember" /\ b.usd = 0
    BY DEF Body
  <2> HIDE DEF b
  <2>3. memory' \subseteq Notes
    BY <1>1, <1>5 DEF Remember
  <2>4. Cardinality(memory') \in Nat
    BY <2>3, FS_Subset, FS_CardinalityType, TimmyAssumption
  <2> QED
    BY <1>1, <1>2, <2>1, <2>2, <2>3, <2>4
<1> QED
  BY <1>3, <1>4, <1>5

LEMMA TimmyStepIsSealStep ==
  ASSUME TypeOK, [TimmyNext]_timmyVars
  PROVE  [SealNext]_sealVars
<1>1. ASSUME NEW j \in Jobs, AskTurn(j) \/ Profile(j) \/ Remember(j) PROVE SealNext
  <2>1. PICK b \in Body : Enqueue(j, b)
    BY <1>1, AskedBodies DEF AskSeal
  <2> QED
    BY <2>1, BodyAssumption DEF SealNext
<1>2. ASSUME NEW j \in Jobs, Think(j) \/ MindFails(j) \/ MindAnswered(j)
      PROVE  UNCHANGED sealVars
  BY <1>2 DEF Think, MindFails, MindAnswered
<1>3. ASSUME NEW j \in Jobs, Work(j) \/ Sealed(j) \/ TurnLost(j) \/ SealFailed(j)
      PROVE  SealNext
  BY <1>3 DEF Work, Sealed, TurnLost, SealFailed, SealNext, SealStep
<1>4. CASE Restart
  BY <1>4 DEF Restart, SealNext
<1>5. CASE UNCHANGED timmyVars
  BY <1>5 DEF timmyVars, sealVars
<1> QED
  BY <1>1, <1>2, <1>3, <1>4, <1>5 DEF TimmyNext

LEMMA NextTimmy == TimmyInv /\ [TimmyNext]_timmyVars => TimmyInv'
<1> SUFFICES ASSUME TimmyInv, [TimmyNext]_timmyVars PROVE TimmyInv'
  OBVIOUS
<1>1. SealInv'
  BY TimmyStepIsSealStep, NextInv DEF TimmyInv
<1>2. None \in Verb \cup {None} /\ None.at = "none"
  BY DEF None
<1>3. ASSUME NEW j \in Jobs, AskTurn(j) \/ Profile(j) \/ Remember(j) PROVE TimmyInv'
  <2>1. PICK b \in Body, read \in TimmyState, next \in TimmyState, notes \in Nat :
           /\ AskSeal(j, b, read, next, notes)
           /\ b.kind = "turn" => next = [read EXCEPT !.usd = @ + b.usd]
           /\ b.kind # "turn" => b.usd = 0
           /\ UNCHANGED <<state, lost>> /\ memory' \subseteq Notes
    BY <1>3, AskedBodies DEF TimmyInv
  <2> QED
    BY <1>1, <2>1, AskTimmy
<1>4. ASSUME NEW j \in Jobs, Think(j) PROVE TimmyInv'
  <2> DEFINE v == [at |-> "mind"]
  <2>1. v \in Verb \cup {None} /\ v.at = "mind"
    BY DEF Verb
  <2>2. req[j] = None /\ req' = [req EXCEPT ![j] = v] /\ UNCHANGED <<state, memory, lost, sealVars>>
    BY <1>4 DEF Think
  <2> HIDE DEF v
  <2> QED
    BY <1>1, <1>2, <2>1, <2>2, ThinkTimmy
<1>5. ASSUME NEW j \in Jobs, MindFails(j) PROVE TimmyInv'
  BY <1>1, <1>2, <1>5, ThinkTimmy DEF MindFails
<1>6. ASSUME NEW j \in Jobs, MindAnswered(j) PROVE TimmyInv'
  <2>1. PICK usd \in Costs :
          req' = [req EXCEPT ![j] = [at |-> "answered", usd |-> usd, read |-> state]]
    BY <1>6 DEF MindAnswered
  <2> DEFINE v == [at |-> "answered", usd |-> usd, read |-> state]
  <2>2. v \in Verb \cup {None} /\ v.at = "answered"
    BY DEF Verb, TimmyInv, TypeOK
  <2>3. req[j].at = "mind" /\ UNCHANGED <<state, memory, lost, sealVars>>
    BY <1>6 DEF MindAnswered
  <2>4. req' = [req EXCEPT ![j] = v]
    BY <2>1
  <2> HIDE DEF v
  <2> QED
    BY <1>1, <2>2, <2>3, <2>4, ThinkTimmy
<1>7. ASSUME NEW j \in Jobs, Work(j) PROVE TimmyInv'
  BY <1>1, <1>7, ReadTimmy, InsertTimmy DEF Work
<1>8. ASSUME NEW j \in Jobs, Sealed(j) \/ TurnLost(j) \/ SealFailed(j) PROVE TimmyInv'
  BY <1>1, <1>8, SealedTimmy, LostTimmy, FailTimmy
<1>9. CASE Restart
  BY <1>1, <1>9, RestartTimmy
<1>10. CASE UNCHANGED timmyVars
  <2>1. UNCHANGED <<state, req, memory, lost, seal, receipts>>
    BY <1>10 DEF timmyVars, sealVars
  <2>2. TypeOK'
    BY <1>1, <2>1 DEF TimmyInv, TypeOK, SealInv
  <2> QED
    BY <1>1, <2>1, <2>2 DEF TimmyInv, Asked, Follow, Follows
<1> QED
  BY <1>3, <1>4, <1>5, <1>6, <1>7, <1>8, <1>9, <1>10 DEF TimmyNext

-----------------------------------------------------------------------------
(* Theorems about a Timmy *)

\* The types, what a verb under way will commit, and how far the state is behind.
THEOREM TimmyInvariant == TimmySpec => []TimmyInv
BY InitTimmy, NextTimmy, PTL DEF TimmySpec

\* Every verb asks its receipts of one queue, so the queue's theorems hold of a Timmy.
THEOREM TimmyImplementsSeal == TimmySpec => SealSpec
<1>1. TimmyInit => SealInit
  BY DEF TimmyInit
<1>2. TimmyInv /\ [TimmyNext]_timmyVars => [SealNext]_sealVars
  BY TimmyStepIsSealStep DEF TimmyInv
<1> QED
  BY <1>1, <1>2, TimmyInvariant, PTL DEF TimmySpec, SealSpec

\* The variables keep their types, and a verb waits exactly while its seal() is pending.
THEOREM TimmyTypeCorrect == TimmySpec => []TypeOK
<1>1. TimmyInv => TypeOK
  BY DEF TimmyInv
<1> QED
  BY <1>1, TimmyInvariant, PTL

\* For any number of verbs, costs and budgets the state of a Timmy is what its chain
\* says, unless a commit was lost or is under way (rpcThink, rpcProfile, seal).
THEOREM TimmyFollowsChain == TimmySpec => []StateFollowsChain
<1>1. TimmyInv => StateFollowsChain
  BY DEF TimmyInv, Follow, Follows, StateFollowsChain
<1> QED
  BY <1>1, TimmyInvariant, PTL

-----------------------------------------------------------------------------
(* Escrows that verify *)

Path(e) == <<"armed">> \o e.transitions

\* What verifyEscrow accepts, and what makes it so after the next transition: an
\* escrow that was judged passed both gates and only ends from there.
Sound(e) ==
  /\ e \in EscrowFile
  /\ e.drawn_usd <= Ceiling
  /\ \A k \in 1..Len(e.transitions) : Path(e)[k + 1] \in LEGAL[Path(e)[k]]
  /\ e.state = Path(e)[Len(Path(e))]
  /\ e.state = "settled" => e.refund_usd = Ceiling - e.drawn_usd
  /\ (\E k \in 1..Len(Path(e)) : Path(e)[k] = "judged") =>
       e.gates /\ e.state \in {"judged", "settled", "slashed"}

LEMMA SoundVerifies ==
  ASSUME NEW e, Sound(e)
  PROVE  Verifies(e)
BY DEF Sound, Verifies, Path

LEMMA ArmedSound == Sound(Armed)
<1>1. Armed \in EscrowFile /\ Armed.transitions = << >> /\ Armed.state = "armed"
  BY DEF Armed, EscrowFile, States
<1>2. Path(Armed) = <<"armed">> /\ Len(Path(Armed)) = 1 /\ Len(Armed.transitions) = 0
  BY <1>1 DEF Path
<1>3. Armed.drawn_usd = 0
  BY DEF Armed
<1> QED
  BY <1>1, <1>2, <1>3, EscrowAssumption DEF Sound

\* A transition lengthens the path by the state it leads to.
LEMMA MovedPath ==
  ASSUME NEW e \in EscrowFile, NEW to \in States
  PROVE  /\ Moved(e, to) \in EscrowFile
         /\ Moved(e, to).state = to
         /\ Moved(e, to).transitions = Append(e.transitions, to)
         /\ Moved(e, to).drawn_usd = e.drawn_usd
         /\ Moved(e, to).refund_usd = e.refund_usd
         /\ Moved(e, to).gates = e.gates
         /\ Len(Moved(e, to).transitions) = Len(e.transitions) + 1
         /\ Len(Path(e)) = Len(e.transitions) + 1
         /\ Len(Path(Moved(e, to))) = Len(Path(e)) + 1
         /\ \A k \in 1..Len(Path(e)) : Path(Moved(e, to))[k] = Path(e)[k]
         /\ Path(Moved(e, to))[Len(Path(e)) + 1] = to
<1>1. e.transitions \in Seq(States) /\ Len(e.transitions) \in Nat
  BY DEF EscrowFile
<1>2. Append(e.transitions, to) \in Seq(States)
  BY <1>1
<1>3. Moved(e, to) \in EscrowFile
  BY <1>2 DEF Moved, EscrowFile
<1>4. /\ Moved(e, to).state = to
      /\ Moved(e, to).transitions = Append(e.transitions, to)
      /\ Moved(e, to).drawn_usd = e.drawn_usd
      /\ Moved(e, to).refund_usd = e.refund_usd
      /\ Moved(e, to).gates = e.gates
  BY DEF Moved, EscrowFile
<1>5. "armed" \in States
  BY DEF States
<1>6. Path(e) \in Seq(States) /\ Len(Path(e)) = Len(e.transitions) + 1
  BY <1>1, <1>5 DEF Path
<1>7. Path(Moved(e, to)) = Append(Path(e), to)
  <2>1. <<"armed">> \o Append(e.transitions, to) = Append(<<"armed">> \o e.transitions, to)
    BY <1>1, <1>5
  <2> QED
    BY <2>1, <1>4 DEF Path
<1> QED
  BY <1>1, <1>3, <1>4, <1>6, <1>7, AppendProperties

\* A legal transition of a sound escrow is sound if what is written with it is: the
\* refund of a settlement, and the gates of a judgement.
LEMMA MovedSound ==
  ASSUME NEW e \in EscrowFile, NEW to, to \in LEGAL[e.state],
         e.drawn_usd <= Ceiling,
         \A k \in 1..Len(e.transitions) : Path(e)[k + 1] \in LEGAL[Path(e)[k]],
         e.state = Path(e)[Len(Path(e))],
         (\E k \in 1..Len(Path(e)) : Path(e)[k] = "judged") => e.gates /\ e.state = "judged",
         to = "settled" => e.refund_usd = Ceiling - e.drawn_usd,
         to = "judged" => e.gates
  PROVE  Sound(Moved(e, to))
<1> DEFINE m == Moved(e, to)
<1>1. e.state \in States
  BY DEF EscrowFile
<1>2. to \in States /\ LEGAL[e.state] \subseteq {"locked", "judged", "settled", "slashed"}
  BY <1>1 DEF LEGAL, States
<1>3. e.state = "judged" => to \in {"settled", "slashed"}
  BY <1>1 DEF LEGAL, States
<1>4. /\ m \in EscrowFile /\ m.state = to /\ m.drawn_usd = e.drawn_usd
      /\ m.refund_usd = e.refund_usd /\ m.gates = e.gates
      /\ Len(m.transitions) = Len(e.transitions) + 1
      /\ Len(Path(e)) = Len(e.transitions) + 1
      /\ Len(Path(m)) = Len(Path(e)) + 1
      /\ \A k \in 1..Len(Path(e)) : Path(m)[k] = Path(e)[k]
      /\ Path(m)[Len(Path(e)) + 1] = to
  BY <1>2, MovedPath
<1>5. Len(e.transitions) \in Nat
  BY DEF EscrowFile
<1> HIDE DEF m
<1>6. ASSUME NEW k \in 1..Len(m.transitions) PROVE Path(m)[k + 1] \in LEGAL[Path(m)[k]]
  <2>1. CASE k \in 1..Len(e.transitions)
    <3>1. k \in 1..Len(Path(e)) /\ k + 1 \in 1..Len(Path(e))
      BY <2>1, <1>4, <1>5
    <3> QED
      BY <3>1, <2>1, <1>4
  <2>2. CASE k = Len(e.transitions) + 1
    <3>1. k = Len(Path(e)) /\ k \in 1..Len(Path(e))
      BY <2>2, <1>4, <1>5
    <3> QED
      BY <3>1, <1>4
  <2> QED
    BY <2>1, <2>2, <1>4, <1>5
<1>7. m.state = Path(m)[Len(Path(m))]
  BY <1>4
<1>8. ASSUME NEW k \in 1..Len(Path(m)), Path(m)[k] = "judged"
      PROVE  m.gates /\ m.state \in {"judged", "settled", "slashed"}
  <2>1. CASE k \in 1..Len(Path(e))
    BY <2>1, <1>3, <1>4, <1>8
  <2>2. CASE k = Len(Path(e)) + 1
    BY <2>2, <1>4, <1>8
  <2> QED
    BY <2>1, <2>2, <1>4, <1>5
<1> QED
  BY <1>4, <1>6, <1>7, <1>8 DEF Sound, m

-----------------------------------------------------------------------------
(* The invariant *)

OpStates ==
  {NoOp} \cup [step : {"write", "cut", "receipt"}, e : EscrowFile, usd : Nat, stale : BOOLEAN]

Typed ==
  /\ file \in {Unborn, NoFile} \cup EscrowFile
  /\ op \in [Procs -> OpStates]
  /\ drawn \in Nat /\ overwritten \in Nat
  /\ verdict \in Final \cup {"none"}
  /\ file = Unborn => drawn = 0 /\ verdict = "none" /\ \A p \in Procs : op[p] = NoOp

\* The file is sound, and so is every copy; a copy counts what it draws.
Copies ==
  /\ Known => Sound(file)
  /\ \A p \in Procs : op[p] # NoOp => Sound(op[p].e) /\ op[p].usd <= op[p].e.drawn_usd

\* The units that were drawn by operations that owe their receipt.
Owed(p) == {p} \X (1..op[p].usd)
Due == UNION {Owed(p) : p \in {q \in Procs : op[q].step = "receipt"}}

\* For what the last escrow written counts as drawn: a copy that is not stale adds its
\* own draw to it, and what it does not count of the draws was written over.
Counted(d) ==
  /\ Known => file.drawn_usd = d
  /\ \A p \in Procs :
       op[p].step \in {"write", "cut"} /\ ~op[p].stale => op[p].e.drawn_usd = d + op[p].usd
  /\ drawn + Cardinality(Due) <= Ceiling * overwritten + d

Accounted == IsFiniteSet(Due) /\ \E d \in 0..Ceiling : Counted(d)

\* After the verdict only stale copies are left, and nobody makes another.
Ended ==
  overwritten = 0 /\ verdict # "none" =>
    /\ Known => file.state = verdict
    /\ \A p \in Procs : op[p].step \in {"write", "cut"} => op[p].stale

EscrowInv == Typed /\ Copies /\ Accounted /\ Ended

-----------------------------------------------------------------------------
(* Types *)

LEMMA KnownFile ==
  ASSUME Typed, Known
  PROVE  file \in EscrowFile
BY DEF Typed, Known

LEMMA FileKnown ==
  ASSUME file \in EscrowFile
  PROVE  Known
<1>1. file.state \in States
  BY DEF EscrowFile
<1>2. NoFile.state \notin States /\ Unborn.state \notin States
  BY DEF NoFile, Unborn, States
<1> QED
  BY <1>1, <1>2 DEF Known

LEMMA FinalStates == Final = {"settled", "slashed"} /\ "none" \notin Final
BY DEF Final, LEGAL, States

LEMMA OpTypes ==
  ASSUME NEW o \in OpStates
  PROVE  /\ o.step \in {"none", "write", "cut", "receipt"}
         /\ o = NoOp <=> o.step = "none"
         /\ o.usd \in Nat
         /\ o # NoOp => o.e \in EscrowFile /\ o.stale \in BOOLEAN
BY DEF OpStates, NoOp

-----------------------------------------------------------------------------
(* The verbs prepare a sound copy of the file *)

\* What a verb of process p does: it prepares e, which draws usd more than the file.
Prepares(p, e, usd) ==
  /\ Known
  /\ file.state \notin Final
  /\ Sound(e)
  /\ usd \in Nat
  /\ e.drawn_usd = file.drawn_usd + usd
  /\ Prepare(p, e, usd)

\* A transition that leaves what was drawn alone.
LEMMA TransitionPrepares ==
  ASSUME Typed, Copies, Known, NEW p \in Procs,
         NEW e \in EscrowFile, NEW to,
         e.state = file.state, e.transitions = file.transitions,
         e.drawn_usd = file.drawn_usd, e.gates = file.gates \/ file.state = "locked",
         to = "settled" => e.refund_usd = Ceiling - e.drawn_usd,
         to = "judged" => e.gates,
         Transition(p, e, to)
  PROVE  Prepares(p, Moved(e, to), 0)
<1>1. file \in EscrowFile /\ Sound(file)
  BY KnownFile DEF Copies
<1>2. to \in LEGAL[file.state] /\ Prepare(p, Moved(e, to), 0)
  BY DEF Transition
<1>3. file.state \in States /\ file.state \notin Final
  BY <1>1, <1>2 DEF EscrowFile, Final
<1>4. Path(e) = Path(file)
  BY DEF Path
<1>5. (\E k \in 1..Len(Path(e)) : Path(e)[k] = "judged") => file.gates /\ file.state = "judged"
  BY <1>1, <1>3, <1>4, FinalStates DEF Sound
<1>6. (\E k \in 1..Len(Path(e)) : Path(e)[k] = "judged") => e.gates /\ e.state = "judged"
  BY <1>5
<1>7. Sound(Moved(e, to))
  BY <1>1, <1>2, <1>4, <1>6, MovedSound DEF Sound
<1>8. Moved(e, to).drawn_usd = file.drawn_usd + 0
  <2>1. Moved(e, to).drawn_usd = e.drawn_usd
    BY DEF Moved, EscrowFile
  <2> QED
    BY <2>1, <1>1 DEF EscrowFile
<1> QED
  BY <1>2, <1>3, <1>7, <1>8 DEF Prepares

LEMMA LockPrepares ==
  ASSUME Typed, Copies, NEW p \in Procs, Lock(p)
  PROVE  \E e, usd : Prepares(p, e, usd)
<1>1. Known /\ Transition(p, file, "locked")
  BY DEF Lock
<1>2. Prepares(p, Moved(file, "locked"), 0)
  BY <1>1, KnownFile, TransitionPrepares
<1> QED
  BY <1>2

LEMMA SlashPrepares ==
  ASSUME Typed, Copies, NEW p \in Procs, Slash(p)
  PROVE  \E e, usd : Prepares(p, e, usd)
<1>1. Known /\ Transition(p, file, "slashed")
  BY DEF Slash
<1>2. Prepares(p, Moved(file, "slashed"), 0)
  BY <1>1, KnownFile, TransitionPrepares
<1> QED
  BY <1>2

LEMMA JudgePrepares ==
  ASSUME Typed, Copies, NEW p \in Procs, Judge(p)
  PROVE  \E e, usd : Prepares(p, e, usd)
<1>1. Known /\ file.state = "locked"
  BY DEF Judge
<1>2. CASE Transition(p, file, "slashed")
  <2>1. Prepares(p, Moved(file, "slashed"), 0)
    BY <1>1, <1>2, KnownFile, TransitionPrepares
  <2> QED
    BY <2>1
<1>3. CASE Transition(p, [file EXCEPT !.gates = TRUE], "judged")
  <2> DEFINE e == [file EXCEPT !.gates = TRUE]
  <2>1. /\ e \in EscrowFile /\ e.state = file.state /\ e.transitions = file.transitions
        /\ e.drawn_usd = file.drawn_usd /\ e.gates = TRUE
    BY <1>1, KnownFile DEF EscrowFile
  <2>2. Transition(p, e, "judged")
    BY <1>3
  <2> HIDE DEF e
  <2>3. Prepares(p, Moved(e, "judged"), 0)
    BY <1>1, <2>1, <2>2, TransitionPrepares
  <2> QED
    BY <2>3
<1> QED
  BY <1>2, <1>3 DEF Judge

\* Settling and cancelling give back what was not drawn.
LEMMA RefundPrepares ==
  ASSUME Typed, Copies, Known, NEW p \in Procs, Transition(p, Refunded(file), "settled")
  PROVE  \E e, usd : Prepares(p, e, usd)
<1>1. file \in EscrowFile /\ file.drawn_usd \in Nat /\ file.drawn_usd <= Ceiling
  BY KnownFile DEF Copies, Sound, EscrowFile
<1>2. Ceiling - file.drawn_usd \in Nat
  BY <1>1, EscrowAssumption
<1> DEFINE e == Refunded(file)
<1>3. /\ e \in EscrowFile /\ e.state = file.state /\ e.transitions = file.transitions
      /\ e.drawn_usd = file.drawn_usd /\ e.gates = file.gates
      /\ e.refund_usd = Ceiling - e.drawn_usd
  BY <1>1, <1>2 DEF Refunded, EscrowFile
<1>4. Transition(p, e, "settled")
  OBVIOUS
<1> HIDE DEF e
<1>5. Prepares(p, Moved(e, "settled"), 0)
  BY <1>3, <1>4, TransitionPrepares
<1> QED
  BY <1>5

LEMMA DrawPrepares ==
  ASSUME Typed, Copies, NEW p \in Procs, Draw(p)
  PROVE  \E e, usd : Prepares(p, e, usd)
<1>1. Known /\ file.state = "locked"
  BY DEF Draw
<1>2. PICK usd \in Amounts :
        /\ file.drawn_usd + usd <= Ceiling
        /\ Prepare(p, [file EXCEPT !.drawn_usd = @ + usd], usd)
  BY DEF Draw
<1>3. file \in EscrowFile /\ Sound(file) /\ usd \in Nat
  BY <1>1, KnownFile, EscrowAssumption DEF Copies
<1> DEFINE e == [file EXCEPT !.drawn_usd = @ + usd]
<1>4. /\ e \in EscrowFile /\ e.state = "locked" /\ e.transitions = file.transitions
      /\ e.drawn_usd = file.drawn_usd + usd /\ e.gates = file.gates
  BY <1>1, <1>3 DEF EscrowFile
<1>5. Prepare(p, e, usd)
  BY <1>2
<1> HIDE DEF e
<1>6. Path(e) = Path(file)
  BY <1>4 DEF Path
<1>7. Sound(e)
  BY <1>1, <1>2, <1>3, <1>4, <1>6 DEF Sound
<1> QED
  BY <1>1, <1>3, <1>4, <1>5, <1>7, FinalStates DEF Prepares

LEMMA VerbPrepares ==
  ASSUME Typed, Copies, NEW p \in Procs,
         Lock(p) \/ Draw(p) \/ Judge(p) \/ SettleEscrow(p) \/ Cancel(p) \/ Slash(p)
  PROVE  \E e, usd : Prepares(p, e, usd)
BY LockPrepares, DrawPrepares, JudgePrepares, RefundPrepares, SlashPrepares
   DEF SettleEscrow, Cancel

-----------------------------------------------------------------------------
(* The units that are owed a receipt *)

LEMMA OwedSize ==
  ASSUME NEW p \in Procs, op[p].usd \in Nat
  PROVE  IsFiniteSet(Owed(p)) /\ Cardinality(Owed(p)) = op[p].usd
<1>1. IsFiniteSet({p}) /\ Cardinality({p}) = 1
  BY FS_Singleton
<1>2. IsFiniteSet(1..op[p].usd) /\ Cardinality(1..op[p].usd) = op[p].usd
  <2>1. \A n \in Nat : IsFiniteSet(1..n) /\ Cardinality(1..n) = IF 1 > n THEN 0 ELSE n - 1 + 1
    BY FS_Interval
  <2> QED
    BY <2>1
<1>3. IsFiniteSet({p} \X (1..op[p].usd))
  BY <1>1, <1>2, FS_Product
<1>4. Cardinality({p} \X (1..op[p].usd)) = 1 * op[p].usd
  BY <1>1, <1>2, FS_Product
<1> QED
  BY <1>3, <1>4 DEF Owed

\* A process that starts to owe its receipt adds what it drew ...
LEMMA DueGrows ==
  ASSUME Typed, IsFiniteSet(Due), NEW p \in Procs, op[p].step # "receipt",
         op' \in [Procs -> OpStates],
         op'[p].step = "receipt", op'[p].usd = op[p].usd,
         \A q \in Procs \ {p} : op'[q].step = "receipt" <=> op[q].step = "receipt",
         \A q \in Procs \ {p} : op'[q].usd = op[q].usd
  PROVE  IsFiniteSet(Due') /\ Cardinality(Due') = Cardinality(Due) + op[p].usd
<1>1. op[p].usd \in Nat
  BY OpTypes DEF Typed
<1>2. IsFiniteSet(Owed(p)) /\ Cardinality(Owed(p)) = op[p].usd
  BY <1>1, OwedSize
<1>3. Due' = Due \cup Owed(p)
  BY DEF Due, Owed
<1>4. Due \cap Owed(p) = {}
  BY DEF Due, Owed
<1>5. Cardinality(Due \cap Owed(p)) = 0
  BY <1>4, FS_EmptySet
<1>6. /\ IsFiniteSet(Due \cup Owed(p))
      /\ Cardinality(Due \cup Owed(p))
           = Cardinality(Due) + Cardinality(Owed(p)) - Cardinality(Due \cap Owed(p))
  BY <1>2, FS_Union
<1>7. Cardinality(Due) \in Nat
  BY FS_CardinalityType
<1> QED
  BY <1>1, <1>2, <1>3, <1>5, <1>6, <1>7

\* ... and one that gives it, or dies, takes it away.
LEMMA DueShrinks ==
  ASSUME Typed, IsFiniteSet(Due), NEW p \in Procs,
         op' = [op EXCEPT ![p] = NoOp]
  PROVE  /\ IsFiniteSet(Due')
         /\ Cardinality(Due') <= Cardinality(Due)
         /\ op[p].step = "receipt" => Cardinality(Due') + op[p].usd = Cardinality(Due)
<1>1. op[p].usd \in Nat /\ op'[p].step = "none"
  BY OpTypes DEF Typed, NoOp
<1>2. IsFiniteSet(Owed(p)) /\ Cardinality(Owed(p)) = op[p].usd
  BY <1>1, OwedSize
<1>3. Due' \subseteq Due
  BY <1>1 DEF Due, Owed, Typed
<1>4. IsFiniteSet(Due') /\ Cardinality(Due') <= Cardinality(Due)
  BY <1>3, FS_Subset
<1>5. ASSUME op[p].step = "receipt" PROVE Cardinality(Due') + op[p].usd = Cardinality(Due)
  <2>1. Due = Due' \cup Owed(p)
    BY <1>1, <1>5 DEF Due, Owed, Typed
  <2>2. Due' \cap Owed(p) = {}
    BY <1>1 DEF Due, Owed, Typed
  <2>3. Cardinality(Due' \cap Owed(p)) = 0
    BY <2>2, FS_EmptySet
  <2>4. Cardinality(Due' \cup Owed(p))
          = Cardinality(Due') + Cardinality(Owed(p)) - Cardinality(Due' \cap Owed(p))
    BY <1>2, <1>4, FS_Union
  <2>5. Cardinality(Due') \in Nat
    BY <1>4, FS_CardinalityType
  <2> QED
    BY <1>1, <1>2, <2>1, <2>3, <2>4, <2>5
<1> QED
  BY <1>4, <1>5

-----------------------------------------------------------------------------
(* The invariant is inductive *)

LEMMA InitEscrow == Init => EscrowInv
<1> SUFFICES ASSUME Init PROVE EscrowInv
  OBVIOUS
<1>1. \A p \in Procs : op[p] = NoOp /\ op[p].step = "none"
  BY DEF Init, NoOp
<1>2. ~Known
  BY DEF Init, Known
<1>3. Typed
  BY <1>1 DEF Typed, Init, OpStates
<1>4. Due = {}
  BY <1>1 DEF Due
<1>5. IsFiniteSet(Due) /\ Cardinality(Due) = 0
  BY <1>4, FS_EmptySet
<1>6. 0 \in 0..Ceiling /\ Ceiling * 0 = 0
  BY EscrowAssumption
<1>7. Counted(0)
  BY <1>1, <1>2, <1>5, <1>6 DEF Counted, Init
<1>8. Ended
  BY DEF Ended, Init
<1> QED
  BY <1>1, <1>2, <1>3, <1>5, <1>6, <1>7, <1>8 DEF EscrowInv, Copies, Accounted

LEMMA ArmEscrow ==
  ASSUME EscrowInv, Arm
  PROVE  EscrowInv'
<1>1. file = Unborn /\ file' = Armed /\ UNCHANGED <<op, drawn, overwritten, verdict>>
  BY DEF Arm
<1>2. Sound(Armed) /\ Armed \in EscrowFile
  BY ArmedSound DEF Sound
<1>3. ~Known /\ verdict = "none" /\ \A p \in Procs : op[p] = NoOp
  BY <1>1 DEF EscrowInv, Typed, Known
<1>4. \A p \in Procs : op[p].step = "none"
  <2>1. NoOp.step = "none"
    BY DEF NoOp
  <2> QED
    BY <1>3, <2>1
<1>5. Armed # Unborn
  <2>1. Armed.state = "armed" /\ Unborn.state = "unborn"
    BY DEF Armed, Unborn
  <2> QED
    BY <2>1
<1>6. Typed'
  BY <1>1, <1>2, <1>5 DEF EscrowInv, Typed
<1>7. Copies'
  BY <1>1, <1>2 DEF EscrowInv, Copies
<1>8. Due' = Due /\ Due = {}
  BY <1>1, <1>4 DEF Due, Owed
<1>9. Accounted'
  <2>1. IsFiniteSet(Due') /\ Cardinality(Due') = 0
    BY <1>8, FS_EmptySet
  <2>2. drawn = 0 /\ overwritten \in Nat
    BY <1>1 DEF EscrowInv, Typed
  <2>3. 0 \in 0..Ceiling /\ 0 <= Ceiling * overwritten
    BY <2>2, EscrowAssumption
  <2>4. Armed.drawn_usd = 0
    BY DEF Armed
  <2>5. drawn' + Cardinality(Due') <= Ceiling * overwritten' + 0
    BY <1>1, <2>1, <2>2, <2>3, EscrowAssumption
  <2>6. \A p \in Procs : ~(op'[p].step \in {"write", "cut"})
    BY <1>1, <1>4
  <2>7. Counted(0)'
    BY <1>1, <2>4, <2>5, <2>6 DEF Counted
  <2> QED
    BY <2>1, <2>3, <2>7 DEF Accounted
<1>10. Ended'
  BY <1>1, <1>3 DEF Ended
<1> QED
  BY <1>6, <1>7, <1>9, <1>10 DEF EscrowInv

LEMMA PrepareEscrow ==
  ASSUME EscrowInv, NEW p \in Procs, NEW e, NEW usd, Prepares(p, e, usd)
  PROVE  EscrowInv'
<1> DEFINE o == [NoOp EXCEPT !.step = "write", !.e = e, !.usd = usd]
<1>1. /\ Known /\ file.state \notin Final /\ Sound(e) /\ usd \in Nat
      /\ e.drawn_usd = file.drawn_usd + usd
      /\ op[p] = NoOp
      /\ op' = [op EXCEPT ![p] = o]
      /\ UNCHANGED <<file, drawn, overwritten, verdict>>
  BY DEF Prepares, Prepare
<1>2. o.step = "write" /\ o.e = e /\ o.usd = usd /\ o.stale = FALSE
  BY DEF NoOp
<1>3. NoOp \in [step : {"none", "write"}, e : {NoFile} \cup EscrowFile, usd : Nat, stale : BOOLEAN]
  BY DEF NoOp
<1>4. e \in EscrowFile
  BY <1>1 DEF Sound
<1>5. o \in OpStates
  BY <1>1, <1>3, <1>4 DEF OpStates
<1> HIDE DEF o
<1>6. /\ op \in [Procs -> OpStates] /\ op' \in [Procs -> OpStates]
      /\ op'[p] = o /\ \A q \in Procs \ {p} : op'[q] = op[q]
  BY <1>1, <1>5 DEF EscrowInv, Typed
<1>7. file # Unborn
  BY <1>1 DEF Known
<1>8. file \in EscrowFile /\ file.drawn_usd \in Nat
  BY <1>1, KnownFile DEF EscrowInv, EscrowFile
<1>9. Typed'
  BY <1>1, <1>6, <1>7 DEF EscrowInv, Typed
<1>10. Copies'
  <2>1. usd <= e.drawn_usd
    BY <1>1, <1>8
  <2> QED
    BY <1>1, <1>2, <1>6, <2>1 DEF EscrowInv, Copies, Known
<1>11. op[p].step # "receipt"
  BY <1>1 DEF NoOp
<1>12. Due' = Due
  BY <1>2, <1>6, <1>11 DEF Due, Owed
<1>13. Accounted'
  <2>1. PICK d \in 0..Ceiling : Counted(d)
    BY DEF EscrowInv, Accounted
  <2>2. file.drawn_usd = d
    BY <1>1, <2>1 DEF Counted
  <2>3. Counted(d)'
    BY <1>1, <1>2, <1>6, <1>12, <2>1, <2>2 DEF Counted, Known
  <2> QED
    BY <1>12, <2>3 DEF EscrowInv, Accounted
<1>14. Ended'
  <2>1. overwritten = 0 => verdict = "none"
    BY <1>1 DEF EscrowInv, Ended, Typed
  <2> QED
    BY <1>1, <2>1 DEF Ended
<1> QED
  BY <1>9, <1>10, <1>13, <1>14 DEF EscrowInv

LEMMA CutEscrow ==
  ASSUME EscrowInv, NEW p \in Procs, Cut(p)
  PROVE  EscrowInv'
<1>1. /\ op[p].step = "write" /\ file' = NoFile
      /\ op' = [op EXCEPT ![p].step = "cut"]
      /\ UNCHANGED <<drawn, overwritten, verdict>>
  BY DEF Cut
<1>2. op[p] \in OpStates /\ op \in [Procs -> OpStates]
  BY DEF EscrowInv, Typed
<1>3. op[p] \in [step : {"write", "cut", "receipt"}, e : EscrowFile, usd : Nat, stale : BOOLEAN]
  BY <1>1, <1>2 DEF OpStates, NoOp
<1> DEFINE o == [op[p] EXCEPT !.step = "cut"]
<1>4. /\ o \in OpStates /\ o.step = "cut" /\ o.e = op[p].e
      /\ o.usd = op[p].usd /\ o.stale = op[p].stale
  BY <1>3 DEF OpStates
<1>5. op' = [op EXCEPT ![p] = o]
  BY <1>1
<1> HIDE DEF o
<1>6. op' \in [Procs -> OpStates] /\ op'[p] = o /\ \A q \in Procs \ {p} : op'[q] = op[q]
  BY <1>2, <1>4, <1>5
<1>7. op[p] # NoOp
  BY <1>1 DEF NoOp
<1>8. file # Unborn /\ ~Known'
  BY <1>1, <1>7 DEF EscrowInv, Typed, Known
<1>9. NoFile # Unborn
  BY DEF NoFile, Unborn
<1>10. Typed'
  BY <1>1, <1>6, <1>9 DEF EscrowInv, Typed
<1>11. Copies'
  BY <1>4, <1>6, <1>7, <1>8 DEF EscrowInv, Copies
<1>12. Due' = Due
  BY <1>1, <1>4, <1>6 DEF Due, Owed
<1>13. Accounted'
  <2>1. PICK d \in 0..Ceiling : Counted(d)
    BY DEF EscrowInv, Accounted
  <2>2. Counted(d)'
    BY <1>1, <1>4, <1>6, <1>8, <1>12, <2>1 DEF Counted
  <2> QED
    BY <1>12, <2>2 DEF EscrowInv, Accounted
<1>14. Ended'
  BY <1>1, <1>4, <1>6, <1>8 DEF EscrowInv, Ended
<1> QED
  BY <1>10, <1>11, <1>13, <1>14 DEF EscrowInv

LEMMA WriteEscrow ==
  ASSUME EscrowInv, NEW p \in Procs, Write(p)
  PROVE  EscrowInv'
<1> DEFINE e == op[p].e
           o == [op[p] EXCEPT !.step = "receipt"]
<1>1. /\ op[p].step = "cut" /\ file' = e /\ drawn' = drawn
      /\ op' = [q \in Procs |->
                  IF q = p THEN o
                  ELSE IF op[q].step \in {"write", "cut"} THEN [op[q] EXCEPT !.stale = TRUE]
                  ELSE op[q]]
      /\ overwritten' = IF op[p].stale THEN overwritten + 1 ELSE overwritten
      /\ verdict' = IF verdict = "none" /\ e.state \in Final THEN e.state ELSE verdict
  BY DEF Write
<1>2. \A q \in Procs : op[q] \in OpStates
  BY DEF EscrowInv, Typed
<1>3. op[p] # NoOp /\ op[p] \in [step : {"write", "cut", "receipt"}, e : EscrowFile,
                                 usd : Nat, stale : BOOLEAN]
  BY <1>1, <1>2 DEF OpStates, NoOp
<1>4. /\ o \in OpStates /\ o.step = "receipt" /\ o.e = e /\ o.usd = op[p].usd
      /\ e \in EscrowFile /\ op[p].usd \in Nat /\ op[p].stale \in BOOLEAN
  BY <1>3 DEF OpStates
<1>5. Sound(e) /\ op[p].usd <= e.drawn_usd /\ e.drawn_usd \in Nat /\ e.drawn_usd <= Ceiling
  BY <1>3, <1>4 DEF EscrowInv, Copies, Sound, EscrowFile
\* Every other operation keeps its step, its copy and its draw.
<1>6. ASSUME NEW q \in Procs \ {p}
      PROVE  /\ op'[q] \in OpStates /\ op'[q].step = op[q].step /\ op'[q].usd = op[q].usd
             /\ op'[q].e = op[q].e
             /\ op[q].step \in {"write", "cut"} => op'[q].stale = TRUE
             /\ op'[q] # NoOp => op[q] # NoOp
  <2>1. CASE op[q].step \in {"write", "cut"}
    <3>1. op'[q] = [op[q] EXCEPT !.stale = TRUE]
      BY <1>1, <2>1
    <3>2. op[q] \in [step : {"write", "cut", "receipt"}, e : EscrowFile, usd : Nat, stale : BOOLEAN]
      BY <1>2, <2>1 DEF OpStates, NoOp
    <3>3. op[q] # NoOp
      BY <2>1 DEF NoOp
    <3> QED
      BY <3>1, <3>2, <3>3 DEF OpStates
  <2>2. CASE op[q].step \notin {"write", "cut"}
    <3>1. op'[q] = op[q]
      BY <1>1, <2>2
    <3> QED
      BY <3>1, <2>2, <1>2
  <2> QED
    BY <2>1, <2>2
<1>7. op'[p] = o
  BY <1>1
<1> HIDE DEF o, e
<1>8. op' \in [Procs -> OpStates]
  <2>1. \A q \in Procs : op'[q] \in OpStates
    BY <1>4, <1>6, <1>7
  <2>2. op' = [q \in Procs |-> op'[q]]
    BY <1>1
  <2> QED
    BY <2>1, <2>2
<1>9. overwritten' \in Nat /\ verdict' \in Final \cup {"none"}
  BY <1>1, <1>4 DEF EscrowInv, Typed
<1>10. Known' /\ file' # Unborn
  <2>1. file' \in EscrowFile
    BY <1>1, <1>4
  <2>2. e.state \in States
    BY <1>4 DEF EscrowFile
  <2>3. NoFile.state \notin States /\ Unborn.state \notin States
    BY DEF NoFile, Unborn, States
  <2> QED
    BY <1>1, <2>2, <2>3 DEF Known
<1>11. Typed'
  BY <1>1, <1>4, <1>8, <1>9, <1>10 DEF EscrowInv, Typed
<1>12. Copies'
  <2>1. Sound(file')
    BY <1>1, <1>5
  <2>2. ASSUME NEW q \in Procs, op'[q] # NoOp
        PROVE  Sound(op'[q].e) /\ op'[q].usd <= op'[q].e.drawn_usd
    <3>1. CASE q = p
      BY <1>4, <1>5, <1>7, <3>1
    <3>2. CASE q # p
      BY <1>6, <2>2, <3>2 DEF EscrowInv, Copies
    <3> QED
      BY <3>1, <3>2
  <2>3. Sound(file)' = Sound(file')
    BY DEF Sound, Path
  <2> QED
    BY <2>1, <2>2, <2>3 DEF Copies, Sound, Path
<1>13. Accounted'
  <2>1. PICK d \in 0..Ceiling : Counted(d)
    BY DEF EscrowInv, Accounted
  <2>2. IsFiniteSet(Due) /\ Typed
    BY DEF EscrowInv, Accounted
  <2>3. IsFiniteSet(Due') /\ Cardinality(Due') = Cardinality(Due) + op[p].usd
    BY <1>1, <1>4, <1>6, <1>7, <1>8, <2>2, DueGrows
  <2>4. Cardinality(Due) \in Nat /\ drawn \in Nat /\ overwritten \in Nat
    BY <2>2, FS_CardinalityType DEF Typed
  <2>5. drawn + Cardinality(Due) <= Ceiling * overwritten + d
    BY <2>1 DEF Counted
  <2>6. drawn' + Cardinality(Due') <= Ceiling * overwritten' + e.drawn_usd
    <3>1. CASE op[p].stale
      <4>1. Ceiling * overwritten' = Ceiling * overwritten + Ceiling
        BY <1>1, <2>4, <3>1, EscrowAssumption
      <4>2. Ceiling * overwritten \in Nat /\ Ceiling \in Nat
        BY <2>4, EscrowAssumption
      <4> DEFINE c == Ceiling * overwritten
      <4> HIDE DEF c
      <4>3. c \in Nat /\ Ceiling * overwritten' = c + Ceiling /\ drawn + Cardinality(Due) <= c + d
        BY <4>1, <4>2, <2>5 DEF c
      <4> QED
        BY <1>1, <1>4, <1>5, <2>1, <2>3, <2>4, <4>2, <4>3
    <3>2. CASE ~op[p].stale
      <4>1. e.drawn_usd = d + op[p].usd
        BY <1>1, <2>1, <3>2 DEF Counted, e
      <4>2. overwritten' = overwritten /\ Ceiling * overwritten \in Nat
        BY <1>1, <2>4, <3>2, EscrowAssumption
      <4> DEFINE c == Ceiling * overwritten
      <4> HIDE DEF c
      <4>3. c \in Nat /\ Ceiling * overwritten' = c /\ drawn + Cardinality(Due) <= c + d
        BY <4>2, <2>5 DEF c
      <4> QED
        BY <1>1, <1>4, <1>5, <2>1, <2>3, <2>4, <4>1, <4>3
    <3> QED
      BY <3>1, <3>2
  <2>7. \A q \in Procs : op'[q].step \in {"write", "cut"} => op'[q].stale
    BY <1>4, <1>6, <1>7
  <2>8. PICK n \in 0..Ceiling : n = e.drawn_usd
    BY <1>5, EscrowAssumption
  <2>9. Counted(n)'
    BY <1>1, <2>6, <2>7, <2>8 DEF Counted
  <2> QED
    BY <2>3, <2>9 DEF Accounted
<1>14. Ended'
  <2>1. \A q \in Procs : op'[q].step \in {"write", "cut"} => op'[q].stale
    BY <1>4, <1>6, <1>7
  <2>2. ASSUME overwritten' = 0, verdict' # "none" PROVE file'.state = verdict'
    <3>1. ~op[p].stale /\ overwritten = 0
      BY <1>1, <1>4, <2>2 DEF EscrowInv, Typed
    <3>2. verdict = "none"
      BY <1>1, <3>1 DEF EscrowInv, Ended
    <3> QED
      BY <1>1, <2>2, <3>2
  <2> QED
    BY <2>1, <2>2 DEF Ended
<1> QED
  BY <1>11, <1>12, <1>13, <1>14 DEF EscrowInv

LEMMA LeaveEscrow ==
  ASSUME EscrowInv, NEW p \in Procs, Receipt(p) \/ Die(p)
  PROVE  EscrowInv'
<1>1. op' = [op EXCEPT ![p] = NoOp] /\ UNCHANGED <<file, overwritten, verdict>>
  BY DEF Receipt, Die
<1>2. op[p] \in OpStates /\ op \in [Procs -> OpStates] /\ NoOp \in OpStates
  BY DEF EscrowInv, Typed, OpStates
<1>3. op' \in [Procs -> OpStates] /\ op'[p] = NoOp /\ \A q \in Procs \ {p} : op'[q] = op[q]
  BY <1>1, <1>2
<1>4. NoOp.step = "none"
  BY DEF NoOp
<1>5. op[p].usd \in Nat /\ drawn \in Nat
  BY <1>2, OpTypes DEF EscrowInv, Typed
<1>6. drawn' \in Nat /\ op[p] # NoOp
  BY <1>4, <1>5 DEF Receipt, Die
<1>7. Typed'
  BY <1>1, <1>3, <1>6 DEF EscrowInv, Typed
<1>8. Copies'
  BY <1>1, <1>3 DEF EscrowInv, Copies, Known
<1>9. Accounted'
  <2>1. PICK d \in 0..Ceiling : Counted(d)
    BY DEF EscrowInv, Accounted
  <2>2. /\ IsFiniteSet(Due) /\ IsFiniteSet(Due')
        /\ Cardinality(Due') <= Cardinality(Due)
        /\ op[p].step = "receipt" => Cardinality(Due') + op[p].usd = Cardinality(Due)
    BY <1>1, DueShrinks DEF EscrowInv, Accounted
  <2>3. Cardinality(Due) \in Nat /\ Cardinality(Due') \in Nat
    BY <2>2, FS_CardinalityType
  <2>4. drawn' + Cardinality(Due') <= drawn + Cardinality(Due)
    BY <1>5, <2>2, <2>3 DEF Receipt, Die
  <2>5. drawn + Cardinality(Due) <= Ceiling * overwritten + d /\ Ceiling * overwritten + d \in Nat
    BY <2>1, EscrowAssumption DEF Counted, EscrowInv, Typed
  <2>6. drawn' + Cardinality(Due') <= Ceiling * overwritten' + d
    BY <1>1, <1>5, <1>6, <2>3, <2>4, <2>5
  <2>7. Counted(d)'
    BY <1>1, <1>3, <1>4, <2>1, <2>6 DEF Counted, Known
  <2> QED
    BY <2>2, <2>7 DEF Accounted
<1>10. Ended'
  BY <1>1, <1>3, <1>4 DEF EscrowInv, Ended, Known
<1> QED
  BY <1>7, <1>8, <1>9, <1>10 DEF EscrowInv

LEMMA StillEscrow ==
  ASSUME EscrowInv, UNCHANGED vars
  PROVE  EscrowInv'
<1>1. UNCHANGED <<file, op, drawn, overwritten, verdict>>
  BY DEF vars
<1>2. Due' = Due
  BY <1>1 DEF Due, Owed
<1> QED
  BY <1>1, <1>2 DEF EscrowInv, Typed, Copies, Accounted, Counted, Ended, Known

LEMMA NextEscrow == EscrowInv /\ [Next]_vars => EscrowInv'
<1> SUFFICES ASSUME EscrowInv, [Next]_vars PROVE EscrowInv'
  OBVIOUS
<1>1. CASE Arm
  BY <1>1, ArmEscrow
<1>2. ASSUME NEW p \in Procs, Act(p) PROVE EscrowInv'
  <2>1. CASE Lock(p) \/ Draw(p) \/ Judge(p) \/ SettleEscrow(p) \/ Cancel(p) \/ Slash(p)
    <3>1. PICK e, usd : Prepares(p, e, usd)
      BY <2>1, VerbPrepares DEF EscrowInv
    <3> QED
      BY <3>1, PrepareEscrow
  <2>2. CASE Cut(p)
    BY <2>2, CutEscrow
  <2>3. CASE Write(p)
    BY <2>3, WriteEscrow
  <2>4. CASE Receipt(p) \/ Die(p)
    BY <2>4, LeaveEscrow
  <2> QED
    BY <1>2, <2>1, <2>2, <2>3, <2>4 DEF Act
<1>3. CASE UNCHANGED vars
  BY <1>3, StillEscrow
<1> QED
  BY <1>1, <1>2, <1>3 DEF Next

-----------------------------------------------------------------------------
(* Theorems *)

\* The three properties follow from one invariant.
THEOREM EscrowInvariant == Spec => []EscrowInv
BY InitEscrow, NextEscrow, PTL DEF Spec

\* The escrow file, whenever it can be read, is one that verifyEscrow accepts,
\* wherever the processes that write it whole die (writeEscrow, transition).
THEOREM FileAlwaysVerifies == Spec => []FileVerifies
<1>1. EscrowInv => FileVerifies
  BY KnownFile, SoundVerifies DEF EscrowInv, Copies, FileVerifies
<1> QED
  BY <1>1, EscrowInvariant, PTL

\* The draws on the receipt chain exceed the ceiling by a ceiling at most for each
\* escrow that was written over, for any ceiling and any draws (drawEscrow).
THEOREM DrawsAlwaysBounded == Spec => []DrawsBounded
<1>1. ASSUME EscrowInv PROVE DrawsBounded
  <2>1. PICK d \in 0..Ceiling : drawn + Cardinality(Due) <= Ceiling * overwritten + d
    BY <1>1 DEF EscrowInv, Accounted, Counted
  <2>2. Cardinality(Due) \in Nat /\ drawn \in Nat /\ overwritten \in Nat /\ Ceiling \in Nat
    BY <1>1, FS_CardinalityType, EscrowAssumption DEF EscrowInv, Accounted, Typed
  <2>3. Ceiling * (1 + overwritten) = Ceiling * overwritten + Ceiling /\ Ceiling * overwritten \in Nat
    BY <2>2
  <2> QED
    BY <2>1, <2>2, <2>3 DEF DrawsBounded
<1> QED
  BY <1>1, EscrowInvariant, PTL

\* A settled or slashed escrow stays as it is unless a copy read before is written
\* over it, for any number of processes (LEGAL).
THEOREM FinalStaysFinal == Spec => []FinalUnlessOverwritten
<1>1. EscrowInv => FinalUnlessOverwritten
  BY DEF EscrowInv, Ended, FinalUnlessOverwritten
<1> QED
  BY <1>1, EscrowInvariant, PTL
=============================================================================
