-------------------------- MODULE SealQueue_proofs --------------------------
(***************************************************************************)
(* Proofs about SealQueue, for any set of jobs and of receipt bodies: the  *)
(* SQL chain stays linked, the KV mirror stays a beginning of it, only the *)
(* oldest seal works, and the queue implements EdgeChain.                  *)
(***************************************************************************)
EXTENDS SealQueue, TLAPS, SequenceTheorems

\* Hashes on the chain have been drawn before, so a new one is new.
HashesDrawn ==
  /\ \A i \in 1..Len(receipts) : receipts[i].hash <= hashes
  /\ \A j \in Jobs : seal[j].at = "hashing" =>
       \A i \in 1..Len(receipts) : receipts[i].hash < seal[j].hash
  /\ \A j \in Jobs : seal[j].at = "hashing" => seal[j].hash <= hashes

\* The inductive invariant.  ChainLinked needs OnlyHeadWorks (an insert
\* extends the chain it read), and so does the mirror.
SealInv ==
  /\ SealTypeOK
  /\ OnlyHeadWorks
  /\ HashesDrawn
  /\ MirrorIsPrefix
  /\ ChainLinked

-----------------------------------------------------------------------------
(* The states of a job *)

LEMMA StateTypes ==
  /\ Idle \in SealStates
  /\ \A b \in Bodies : Waiting(b) \in SealStates
  /\ \A b \in Bodies, c \in Seq(Chain!Receipt), h \in Nat \ {0} :
       Hashing(b, c, h) \in SealStates
  /\ \A c \in Seq(Chain!Receipt) : Putting(c) \in SealStates
BY DEF SealStates, Idle, Waiting, Hashing, Putting

LEMMA WaitingType ==
  ASSUME NEW s \in SealStates, s.at = "waiting"
  PROVE  s.body \in Bodies
BY DEF SealStates, Idle

LEMMA HashingType ==
  ASSUME NEW s \in SealStates, s.at = "hashing"
  PROVE  s.body \in Bodies /\ s.chain \in Seq(Chain!Receipt) /\ s.hash \in Nat \ {0}
BY DEF SealStates, Idle

LEMMA PuttingType ==
  ASSUME NEW s \in SealStates, s.at = "putting"
  PROVE  s.chain \in Seq(Chain!Receipt)
BY DEF SealStates, Idle

LEMMA ReceiptHashes ==
  ASSUME NEW c \in Seq(Chain!Receipt)
  PROVE  \A i \in 1..Len(c) : c[i].hash \in Nat
<1> SUFFICES ASSUME NEW i \in 1..Len(c) PROVE c[i].hash \in Nat
  OBVIOUS
<1>1. c[i] \in Chain!Receipt
  BY ElementOfSeq
<1> QED
  BY <1>1 DEF Chain!Receipt

LEMMA HeadHashType ==
  ASSUME NEW c \in Seq(Chain!Receipt)
  PROVE  Chain!HeadHash(c) \in Nat
<1>1. CASE c = << >>
  BY <1>1 DEF Chain!HeadHash, Chain!Genesis
<1>2. CASE c # << >>
  <2>1. Len(c) \in 1..Len(c)
    BY <1>2, EmptySeq
  <2>2. c[Len(c)] \in Chain!Receipt
    BY <2>1, ElementOfSeq
  <2> QED
    BY <1>2, <2>2 DEF Chain!HeadHash, Chain!Receipt
<1> QED
  BY <1>1, <1>2

\* The receipt a job inserts is well typed and cites the chain it read.
LEMMA NewReceiptType ==
  ASSUME NEW s \in SealStates, s.at = "hashing"
  PROVE  /\ NewReceipt(s) \in Chain!Receipt
         /\ NewReceipt(s).prev_hash = Chain!HeadHash(s.chain)
         /\ NewReceipt(s).hash = s.hash
BY HashingType, HeadHashType DEF NewReceipt, Chain!Receipt, Chain!Genesis

\* Extending a linked chain with a receipt that cites its head keeps it linked.
LEMMA AppendLinked ==
  ASSUME NEW c \in Seq(Chain!Receipt), NEW r \in Chain!Receipt,
         Chain!Linked(c), r.prev_hash = Chain!HeadHash(c)
  PROVE  Chain!Linked(Append(c, r))
<1>1. /\ Len(Append(c, r)) = Len(c) + 1
      /\ \A i \in 1..Len(c) : Append(c, r)[i] = c[i]
      /\ Append(c, r)[Len(c) + 1] = r
      /\ Len(c) \in Nat
  BY AppendProperties
<1>2. c = << >> <=> Len(c) = 0
  BY EmptySeq
<1>3. Chain!HeadHash(c) = IF Len(c) = 0 THEN Chain!Genesis ELSE c[Len(c)].hash
  BY <1>2 DEF Chain!HeadHash
<1> SUFFICES ASSUME NEW i \in 1..(Len(c) + 1)
             PROVE  Append(c, r)[i].prev_hash =
                      IF i = 1 THEN Chain!Genesis ELSE Append(c, r)[i - 1].hash
  BY <1>1 DEF Chain!Linked
<1>4. CASE i \in 1..Len(c)
  <2>1. i # 1 => i - 1 \in 1..Len(c)
    BY <1>1, <1>4
  <2> QED
    BY <1>1, <1>4, <2>1 DEF Chain!Linked
<1>5. CASE i = Len(c) + 1
  <2>1. i # 1 => i - 1 \in 1..Len(c) /\ i - 1 = Len(c)
    BY <1>1, <1>5
  <2> QED
    BY <1>1, <1>3, <1>5, <2>1
<1> QED
  BY <1>1, <1>4, <1>5
-----------------------------------------------------------------------------
(* The inductive invariant *)

LEMMA InitInv == SealInit => SealInv
<1> SUFFICES ASSUME SealInit PROVE SealInv
  OBVIOUS
<1>1. SealTypeOK
  BY StateTypes DEF SealInit, SealTypeOK
<1>2. \A j \in Jobs : seal[j].at = "idle"
  BY DEF SealInit, Idle
<1>3. Len(receipts) = 0 /\ Len(mirror) = 0
  BY DEF SealInit
<1> QED
  BY <1>1, <1>2, <1>3 DEF SealInv, OnlyHeadWorks, HashesDrawn, MirrorIsPrefix,
     ChainLinked, Chain!Linked

LEMMA EnqueueInv ==
  ASSUME SealInv, NEW j \in Jobs, NEW b \in Bodies, Enqueue(j, b)
  PROVE  SealInv'
<1> USE DEF SealInv, Enqueue
<1>1. SealTypeOK'
  BY StateTypes DEF SealTypeOK
<1>2. /\ seal'[j].at = "waiting"
      /\ \A k \in Jobs : k # j => seal'[k] = seal[k]
  BY DEF SealTypeOK, Waiting
<1>3. \A k \in Jobs : Turn(k) => Turn(k)'
  BY HeadTailAppend, AppendProperties DEF Turn, SealTypeOK
<1>4. OnlyHeadWorks'
  BY <1>2, <1>3 DEF OnlyHeadWorks
<1> QED
  BY <1>1, <1>2, <1>4 DEF HashesDrawn, MirrorIsPrefix, ChainLinked

LEMMA ReadChainInv ==
  ASSUME SealInv, NEW j \in Jobs, ReadChain(j)
  PROVE  SealInv'
<1> USE DEF SealInv, ReadChain
<1>1. SealTypeOK'
  BY StateTypes, WaitingType DEF SealTypeOK
<1>2. /\ seal'[j].at = "hashing" /\ seal'[j].chain = receipts /\ seal'[j].hash = hashes + 1
      /\ \A k \in Jobs : k # j => seal'[k] = seal[k]
  BY DEF SealTypeOK, Hashing
<1>3. OnlyHeadWorks'
  BY <1>2 DEF OnlyHeadWorks, Turn
<1>4. HashesDrawn'
  <2>1. \A i \in 1..Len(receipts) : receipts[i].hash \in Nat /\ receipts[i].hash <= hashes
    BY ReceiptHashes DEF SealTypeOK, HashesDrawn
  <2>2. hashes \in Nat /\ \A k \in Jobs : k # j => seal'[k].at # "hashing"
    BY <1>2 DEF OnlyHeadWorks, Turn, SealTypeOK
  <2> QED
    BY <1>2, <2>1, <2>2 DEF HashesDrawn
<1> QED
  BY <1>1, <1>3, <1>4 DEF MirrorIsPrefix, ChainLinked

LEMMA InsertReceiptInv ==
  ASSUME SealInv, NEW j \in Jobs, InsertReceipt(j)
  PROVE  SealInv'
<1> DEFINE r == NewReceipt(seal[j])
<1>1. /\ seal[j] \in SealStates /\ seal[j].at = "hashing"
      /\ receipts \in Seq(Chain!Receipt) /\ mirror \in Seq(Chain!Receipt) /\ hashes \in Nat
  BY DEF InsertReceipt, SealInv, SealTypeOK
<1>2. /\ r \in Chain!Receipt
      /\ r.prev_hash = Chain!HeadHash(receipts)
      /\ r.hash = seal[j].hash
      /\ seal[j].chain = receipts
      /\ Turn(j)
  BY <1>1, NewReceiptType DEF SealInv, OnlyHeadWorks
<1>3. /\ receipts' = Append(receipts, r)
      /\ seal' = [seal EXCEPT ![j] = Putting(Append(receipts, r))]
      /\ UNCHANGED <<sealChain, mirror, hashes>>
  BY <1>2 DEF InsertReceipt
<1>4. /\ receipts' \in Seq(Chain!Receipt)
      /\ Len(receipts') = Len(receipts) + 1
      /\ \A i \in 1..Len(receipts) : receipts'[i] = receipts[i]
      /\ receipts'[Len(receipts) + 1] = r
      /\ Len(receipts) \in Nat
  BY <1>1, <1>2, <1>3, AppendProperties
<1> HIDE DEF r
<1>5. SealTypeOK'
  BY <1>3, <1>4, StateTypes DEF SealInv, SealTypeOK
<1>6. /\ seal'[j].at = "putting" /\ seal'[j].chain = receipts'
      /\ \A k \in Jobs : k # j => seal'[k] = seal[k]
      /\ \A k \in Jobs : k # j => seal[k].at \notin {"hashing", "putting"}
  BY <1>2, <1>3 DEF SealInv, SealTypeOK, Putting, OnlyHeadWorks, Turn
<1>7. OnlyHeadWorks'
  BY <1>2, <1>3, <1>6 DEF OnlyHeadWorks, Turn
<1>8. HashesDrawn'
  <2>1. r.hash <= hashes
    BY <1>1, <1>2 DEF SealInv, HashesDrawn
  <2>2. \A i \in 1..Len(receipts') : receipts'[i].hash <= hashes
    BY <1>4, <2>1 DEF SealInv, HashesDrawn
  <2> QED
    BY <1>3, <1>6, <2>2 DEF HashesDrawn
<1>9. MirrorIsPrefix'
  <2>1. Len(mirror) \in Nat
    BY <1>1, LenProperties
  <2> QED
    BY <1>3, <1>4, <2>1 DEF SealInv, MirrorIsPrefix
<1>10. ChainLinked'
  BY <1>1, <1>2, <1>3, AppendLinked DEF SealInv, ChainLinked
<1> QED
  BY <1>5, <1>7, <1>8, <1>9, <1>10 DEF SealInv

\* What Settle and FailSeal share: the working job leaves the queue.
LEMMA LeaveInv ==
  ASSUME SealInv, NEW j \in Jobs, seal[j].at \in {"hashing", "putting"},
         sealChain' = Tail(sealChain), seal' = [seal EXCEPT ![j] = Idle],
         UNCHANGED <<receipts, hashes>>, mirror' \in {mirror, receipts}
  PROVE  SealInv'
<1> USE DEF SealInv
<1>1. /\ sealChain # << >> /\ sealChain \in Seq(Jobs) /\ Turn(j)
      /\ receipts \in Seq(Chain!Receipt) /\ mirror \in Seq(Chain!Receipt)
  BY DEF OnlyHeadWorks, Turn, SealTypeOK
<1>2. SealTypeOK'
  BY <1>1, HeadTailProperties, StateTypes DEF SealTypeOK
<1>3. /\ seal'[j].at = "idle"
      /\ \A k \in Jobs : k # j => seal'[k].at \notin {"hashing", "putting"}
  BY <1>1 DEF OnlyHeadWorks, Turn, SealTypeOK, Idle
<1>4. MirrorIsPrefix'
  <2>1. Len(receipts) \in Nat /\ Len(mirror) \in Nat
    BY <1>1, LenProperties
  <2> QED
    BY <2>1 DEF MirrorIsPrefix
<1> QED
  BY <1>2, <1>3, <1>4 DEF OnlyHeadWorks, HashesDrawn, ChainLinked

LEMMA RestartInv ==
  ASSUME SealInv, SealRestart
  PROVE  SealInv'
<1> USE DEF SealInv, SealRestart
<1>1. mirror' \in {mirror, receipts} /\ mirror' \in Seq(Chain!Receipt)
  BY DEF OnlyHeadWorks, SealTypeOK
<1>2. SealTypeOK'
  BY <1>1, StateTypes, EmptySeq DEF SealTypeOK
<1>3. \A k \in Jobs : seal'[k].at = "idle"
  BY DEF Idle
<1>4. MirrorIsPrefix'
  <2>1. Len(receipts) \in Nat /\ Len(mirror) \in Nat
    BY LenProperties DEF SealTypeOK
  <2> QED
    BY <1>1, <2>1 DEF MirrorIsPrefix
<1> QED
  BY <1>2, <1>3, <1>4 DEF OnlyHeadWorks, HashesDrawn, ChainLinked

LEMMA NextInv == SealInv /\ [SealNext]_sealVars => SealInv'
<1> SUFFICES ASSUME SealInv, [SealNext]_sealVars PROVE SealInv'
  OBVIOUS
<1>1. ASSUME NEW j \in Jobs, NEW b \in Bodies, Enqueue(j, b) PROVE SealInv'
  BY <1>1, EnqueueInv
<1>2. ASSUME NEW j \in Jobs, ReadChain(j) PROVE SealInv'
  BY <1>2, ReadChainInv
<1>3. ASSUME NEW j \in Jobs, InsertReceipt(j) PROVE SealInv'
  BY <1>3, InsertReceiptInv
<1>4. ASSUME NEW j \in Jobs, Settle(j) PROVE SealInv'
  <2>1. seal[j].chain = receipts
    BY <1>4 DEF SealInv, OnlyHeadWorks, Settle
  <2> QED
    BY <1>4, <2>1, LeaveInv DEF Settle
<1>5. ASSUME NEW j \in Jobs, FailSeal(j) PROVE SealInv'
  BY <1>5, LeaveInv DEF FailSeal
<1>6. CASE SealRestart
  BY <1>6, RestartInv
<1>7. CASE UNCHANGED sealVars
  BY <1>7 DEF sealVars, SealInv, SealTypeOK, OnlyHeadWorks, Turn, HashesDrawn,
     MirrorIsPrefix, ChainLinked
<1> QED
  BY <1>1, <1>2, <1>3, <1>4, <1>5, <1>6, <1>7 DEF SealNext, SealStep
-----------------------------------------------------------------------------
(* The theorems *)

\* The inductive invariant holds in every state of the queue.
THEOREM SealInvariant == SealSpec => []SealInv
BY InitInv, NextInv, PTL DEF SealSpec

\* Every variable keeps its type.
THEOREM SealTypeCorrect == SealSpec => []SealTypeOK
<1>1. SealInv => SealTypeOK
  BY DEF SealInv
<1> QED
  BY <1>1, SealInvariant, PTL

\* The chain a reader verifies is linked from genesis in every state,
\* whatever the interleaving of seals, failures and restarts.
THEOREM SealChainLinked == SealSpec => []ChainLinked
<1>1. SealInv => ChainLinked
  BY DEF SealInv
<1> QED
  BY <1>1, SealInvariant, PTL

\* The KV mirror is a beginning of the SQL chain in every state.
THEOREM SealMirrorIsPrefix == SealSpec => []MirrorIsPrefix
<1>1. SealInv => MirrorIsPrefix
  BY DEF SealInv
<1> QED
  BY <1>1, SealInvariant, PTL

\* The queue implements the append-only chain: a step appends one receipt
\* that cites the last one and has a hash of its own, or changes nothing.
THEOREM SealImplementsEdgeChain == SealSpec => ImplementsEdgeChain
<1>1. SealInit => Chain!Init
  BY DEF SealInit, Chain!Init
<1>2. SealInv /\ [SealNext]_sealVars => [Chain!Next]_receipts
  <2> SUFFICES ASSUME SealInv, [SealNext]_sealVars PROVE Chain!Next \/ UNCHANGED receipts
    OBVIOUS
  <2>1. ASSUME NEW j \in Jobs, InsertReceipt(j) PROVE Chain!Next
    <3> DEFINE r == NewReceipt(seal[j])
    <3>1. /\ seal[j] \in SealStates /\ seal[j].at = "hashing"
          /\ receipts \in Seq(Chain!Receipt) /\ seal[j].chain = receipts
      BY <2>1 DEF InsertReceipt, SealInv, SealTypeOK, OnlyHeadWorks
    <3>2. /\ r \in Chain!Receipt
          /\ r.prev_hash = Chain!HeadHash(receipts)
          /\ r.hash = seal[j].hash
          /\ receipts' = Append(receipts, r)
      BY <2>1, <3>1, NewReceiptType DEF InsertReceipt
    <3> HIDE DEF r
    <3>3. Len(receipts') = Len(receipts) + 1 /\ receipts'[Len(receipts')] = r
      BY <3>1, <3>2, AppendProperties
    <3>4. \A i \in 1..Len(receipts) : receipts[i].hash # r.hash
      <4>1. \A i \in 1..Len(receipts) : receipts[i].hash \in Nat
        BY <3>1, ReceiptHashes
      <4>2. seal[j].hash \in Nat
        BY <3>1, HashingType
      <4> QED
        BY <3>1, <3>2, <4>1, <4>2 DEF SealInv, HashesDrawn
    <3> QED
      BY <3>2, <3>3, <3>4 DEF Chain!Next, Chain!AppendReceipt
  <2> QED
    BY <2>1 DEF SealNext, SealStep, Enqueue, ReadChain, Settle, FailSeal,
       SealRestart, sealVars
<1> QED
  BY <1>1, <1>2, SealInvariant, PTL DEF SealSpec, ImplementsEdgeChain, Chain!Spec
=============================================================================
