-------------------------- MODULE Commander_proofs --------------------------
(***************************************************************************)
(* Proofs about Commander, for any number of requests and swarm members:   *)
(* its types, that a held room is paused, that the ledger never counts     *)
(* more than the sealed receipts bill, that the head never moves back,     *)
(* that the room implements SealQueue and therefore EdgeChain, and that a  *)
(* swarm's receipt cites every receipt of its members.                     *)
(***************************************************************************)
EXTENDS Commander, TLAPS, SequenceTheorems, FiniteSetTheorems

\* The seal queue's own proofs, for the jobs and bodies of a room.
SealP == INSTANCE SealQueue_proofs WITH Jobs <- Jobs, Bodies <- Body

\* A captured state is one the room could be in: held means paused.
Paused(s) == s.held_by # Nobody => s.openrouter_paused

NextIsPaused == \A r \in Requests : req[r].pc = "seal" => Paused(req[r].next)

\* A state waiting for its receipt owes at most what that receipt bills; once
\* the receipt is inserted it is part of billed.
NextIsBilled ==
  \A r \in Requests : req[r].pc = "seal" =>
    req[r].next.usd <=
      billed + IF seal[<<r, Own>>].at = "putting" THEN 0 ELSE seal[<<r, Own>>].body.usd

\* Only member calls seal member receipts.
OwnBodies ==
  \A r \in Requests : seal[<<r, Own>>].at \in {"waiting", "hashing"} =>
    seal[<<r, Own>>].body.kind # "member"

HeadOnChain == state.head <= Seal!Chain!HeadHash(receipts)

\* The receipt a putting job has inserted is the last one of the chain.
PuttingSealed == \A j \in Jobs : seal[j].at = "putting" => receipts # << >>

\* Only a swarm has calls under way.
CallsOfSwarm ==
  \A r \in Requests : Busy(r) => req[r].pc \in {"swarm", "failed"}

RoomInv ==
  /\ TypeOK
  /\ CallsOfSwarm
  /\ SealP!SealInv
  /\ PuttingSealed
  /\ HeldMeansPaused
  /\ NextIsPaused
  /\ LedgerNeverOverBills
  /\ NextIsBilled
  /\ OwnBodies
  /\ HeadOnChain

-----------------------------------------------------------------------------
(* Two names of the seal queue: Commander's Seal and the proofs' SealP *)

LEMMA SealOps ==
  /\ Seal!Idle = SealP!Idle
  /\ \A b : Seal!Waiting(b) = SealP!Waiting(b)
  /\ \A b, c, h : Seal!Hashing(b, c, h) = SealP!Hashing(b, c, h)
  /\ \A c : Seal!Putting(c) = SealP!Putting(c)
  /\ \A s : Seal!NewReceipt(s) = SealP!NewReceipt(s)
  /\ \A j : Seal!Turn(j) = SealP!Turn(j)
  /\ Seal!SealStates = SealP!SealStates
  /\ Seal!Chain!Receipt = SealP!Chain!Receipt
BY DEF Seal!Idle, SealP!Idle, Seal!Waiting, SealP!Waiting, Seal!Hashing, SealP!Hashing,
  Seal!Putting, SealP!Putting, Seal!NewReceipt, SealP!NewReceipt, Seal!Turn, SealP!Turn,
  Seal!Chain!HeadHash, SealP!Chain!HeadHash, Seal!Chain!Genesis, SealP!Chain!Genesis,
  Seal!SealStates, SealP!SealStates, Seal!Chain!Receipt, SealP!Chain!Receipt

LEMMA SealInitSame == Seal!SealInit => SealP!SealInit
BY SealOps DEF Seal!SealInit, SealP!SealInit

LEMMA SealNextSame == [Seal!SealNext]_sealVars => [SealP!SealNext]_SealP!sealVars
BY SealOps DEF Seal!SealNext, SealP!SealNext, Seal!Enqueue, SealP!Enqueue, Seal!SealStep,
  SealP!SealStep, Seal!ReadChain, SealP!ReadChain, Seal!InsertReceipt, SealP!InsertReceipt,
  Seal!Settle, SealP!Settle, Seal!FailSeal, SealP!FailSeal, Seal!SealRestart,
  SealP!SealRestart, sealVars, SealP!sealVars

\* A step of the queue keeps the queue's invariant.
LEMMA SealKept ==
  ASSUME SealP!SealInv, [Seal!SealNext]_sealVars
  PROVE  SealP!SealInv'
BY SealNextSame, SealP!NextInv

LEMMA SealFacts ==
  ASSUME SealP!SealInv
  PROVE  /\ seal \in [Jobs -> Seal!SealStates]
         /\ receipts \in Seq(Seal!Chain!Receipt)
         /\ hashes \in Nat
         /\ \A j \in Jobs : seal[j].at \in {"hashing", "putting"} => seal[j].chain = receipts
BY SealOps DEF SealP!SealInv, SealP!SealTypeOK, SealP!OnlyHeadWorks

LEMMA JobFacts ==
  /\ Jobs' = Jobs /\ Own' = Own
  /\ \A r \in Requests : <<r, Own>> \in Jobs
  /\ \A r \in Requests, m \in Members : <<r, m>> \in Jobs
  /\ \A r \in Requests, m \in Members, q \in Requests : <<r, m>> # <<q, Own>>
BY OwnAssumption DEF Jobs, Own

\* A pending body is a body.
LEMMA BodyFacts ==
  ASSUME NEW s \in Seal!SealStates, s.at \in {"waiting", "hashing"}
  PROVE  s.body \in Body
BY DEF Seal!SealStates, Seal!Idle

LEMMA StateFacts ==
  ASSUME NEW s \in State
  PROVE  /\ s.usd \in Nat /\ s.turns \in Nat /\ s.swarms \in Nat /\ s.head \in Nat
         /\ s.memory_notes \in Nat /\ s.mode \in Modes /\ s.cap_usd \in Nat
         /\ s.held_by \in Tokens \cup {Nobody}
         /\ s.killed \in BOOLEAN /\ s.openrouter_paused \in BOOLEAN
BY DEF State
-----------------------------------------------------------------------------
(* Shapes of steps *)

\* A handler asks for its own receipt, having captured s.
LEMMA AskSealInv ==
  ASSUME RoomInv, NEW r \in Requests, NEW b \in Body, NEW s \in State, NEW c \in AllCommands,
         Seal!Enqueue(<<r, Own>>, b), b.kind # "member",
         req' \in [Requests -> Request], req'[r] = Sealing(c, s),
         \A q \in Requests : q # r => req'[q].pc = req[q].pc /\ req'[q].next = req[q].next,
         calls' \in [Requests -> [Members -> {"free", "calling", "sealing", "sealed"}]],
         \A q \in Requests, m \in Members :
           calls'[q][m] = "sealing" <=> calls[q][m] = "sealing",
         CallsOfSwarm', Paused(s), s.usd <= billed + b.usd,
         schedules' \in SUBSET Schedules, memory' \in SUBSET Notes,
         UNCHANGED <<state, rows, runs, billed>>, issued' \in SUBSET Tokens
  PROVE  RoomInv'
<1>1. SealP!SealInv'
  <2>1. Seal!SealNext
    BY JobFacts DEF Seal!SealNext
  <2> QED
    BY <2>1, SealKept DEF RoomInv
<1>2. /\ seal'[<<r, Own>>].at = "waiting" /\ seal'[<<r, Own>>].body = b
      /\ \A j \in Jobs : j # <<r, Own>> => seal'[j] = seal[j]
      /\ receipts' = receipts
  BY SealFacts, JobFacts DEF RoomInv, Seal!Enqueue, Seal!Waiting
<1>10. /\ \A q \in Requests : q # r => seal'[<<q, Own>>] = seal[<<q, Own>>]
       /\ \A q \in Requests, m \in Members : seal'[<<q, m>>] = seal[<<q, m>>]
  BY <1>2, JobFacts
<1>3. req'[r].pc = "seal" /\ req'[r].next = s
  BY DEF Sealing, NoRequest
<1>4. TypeOK'
  <2>1. /\ state' \in State /\ rows' \in SUBSET [table : {"turns", "swarms"}, receipt : Nat]
        /\ runs' \in Nat /\ billed' \in Nat
    BY DEF RoomInv, TypeOK
  <2>4. /\ \A q \in Requests : req[q].pc = "seal" <=> seal[<<q, Own>>].at # "idle"
        /\ \A q \in Requests, m \in Members :
             calls[q][m] = "sealing" <=> seal[<<q, m>>].at # "idle"
    BY DEF RoomInv, TypeOK
  <2>2. ASSUME NEW q \in Requests
        PROVE  req'[q].pc = "seal" <=> seal'[<<q, Own>>].at # "idle"
    <3>1. CASE q = r
      BY <1>2, <1>3, <3>1
    <3>2. CASE q # r
      BY <1>10, <2>4, <3>2
    <3> QED
      BY <3>1, <3>2
  <2>3. ASSUME NEW q \in Requests, NEW m \in Members
        PROVE  calls'[q][m] = "sealing" <=> seal'[<<q, m>>].at # "idle"
    <3>1. seal'[<<q, m>>] = seal[<<q, m>>]
      BY <1>10
    <3>2. calls[q][m] = "sealing" <=> seal[<<q, m>>].at # "idle"
      BY <2>4
    <3> QED
      BY <3>1, <3>2
  <2> QED
    BY <2>1, <2>2, <2>3, JobFacts DEF TypeOK
<1>5. PuttingSealed'
  <2> SUFFICES ASSUME NEW j \in Jobs, seal'[j].at = "putting" PROVE receipts' # << >>
    BY JobFacts DEF PuttingSealed
  <2>1. seal[j].at = "putting"
    BY <1>2
  <2>2. receipts # << >>
    BY <2>1 DEF RoomInv, PuttingSealed
  <2>3. receipts' = receipts
    BY <1>2
  <2> QED
    BY <2>2, <2>3
<1>6. HeldMeansPaused' /\ LedgerNeverOverBills' /\ HeadOnChain'
  BY <1>2 DEF RoomInv, HeldMeansPaused, LedgerNeverOverBills, HeadOnChain,
     Seal!Chain!HeadHash
<1>7. NextIsPaused'
  BY <1>3 DEF RoomInv, NextIsPaused
<1>8. NextIsBilled'
  <2> SUFFICES ASSUME NEW q \in Requests, req'[q].pc = "seal"
               PROVE  req'[q].next.usd <= billed' +
                        IF seal'[<<q, Own>>].at = "putting" THEN 0
                        ELSE seal'[<<q, Own>>].body.usd
    BY JobFacts DEF NextIsBilled
  <2>1. CASE q = r
    BY <1>2, <1>3, <2>1
  <2>2. CASE q # r
    BY <1>10, <2>2 DEF RoomInv, NextIsBilled
  <2> QED
    BY <2>1, <2>2
<1>9. OwnBodies'
  <2> SUFFICES ASSUME NEW q \in Requests, seal'[<<q, Own>>].at \in {"waiting", "hashing"}
               PROVE  seal'[<<q, Own>>].body.kind # "member"
    BY JobFacts DEF OwnBodies
  <2>1. CASE q = r
    BY <1>2, <2>1
  <2>2. CASE q # r
    <3>1. seal'[<<q, Own>>] = seal[<<q, Own>>]
      BY <1>10, <2>2
    <3> QED
      BY <3>1 DEF RoomInv, OwnBodies
  <2> QED
    BY <2>1, <2>2
<1> QED
  BY <1>1, <1>4, <1>5, <1>6, <1>7, <1>8, <1>9 DEF RoomInv

\* A step that leaves the seals alone and neither starts nor ends a wait.
LEMMA LocalInv ==
  ASSUME RoomInv, UNCHANGED <<state, billed, sealVars>>,
         req' \in [Requests -> Request],
         \A q \in Requests :
           (req'[q].pc = "seal" \/ req[q].pc = "seal") => req'[q] = req[q],
         calls' \in [Requests -> [Members -> {"free", "calling", "sealing", "sealed"}]],
         \A q \in Requests, m \in Members :
           calls'[q][m] = "sealing" <=> calls[q][m] = "sealing",
         CallsOfSwarm', schedules' \in SUBSET Schedules, runs' \in Nat,
         UNCHANGED <<memory, rows, issued>>
  PROVE  RoomInv'
<1>1. SealP!SealInv'
  BY SealKept DEF RoomInv
<1>2. TypeOK'
  BY DEF RoomInv, TypeOK, sealVars
<1>3. PuttingSealed' /\ OwnBodies'
  BY DEF RoomInv, PuttingSealed, OwnBodies, sealVars
<1>4. HeldMeansPaused' /\ LedgerNeverOverBills' /\ HeadOnChain'
  BY DEF RoomInv, HeldMeansPaused, LedgerNeverOverBills, HeadOnChain,
     Seal!Chain!HeadHash, sealVars
<1>5. NextIsPaused' /\ NextIsBilled'
  BY DEF RoomInv, NextIsPaused, NextIsBilled, sealVars
<1> QED
  BY <1>1, <1>2, <1>3, <1>4, <1>5 DEF RoomInv

LEMMA SealAt ==
  ASSUME seal \in [Jobs -> Seal!SealStates], NEW j \in Jobs, NEW x,
         seal' = [seal EXCEPT ![j] = x]
  PROVE  /\ seal'[j] = x
         /\ \A k \in Jobs : k # j => seal'[k] = seal[k]
OBVIOUS

\* No job begins or ends its seal, the handlers and the room do not move.
LEMMA WaitsKept ==
  ASSUME TypeOK, \A k \in Jobs : seal'[k].at = "idle" <=> seal[k].at = "idle",
         UNCHANGED <<state, req, calls, schedules, memory, rows, issued, runs>>,
         billed' \in Nat
  PROVE  TypeOK'
<1>1. ASSUME NEW r \in Requests
      PROVE  req'[r].pc = "seal" <=> seal'[<<r, Own>>].at # "idle"
  <2>1. req[r].pc = "seal" <=> seal[<<r, Own>>].at # "idle"
    BY DEF TypeOK
  <2>2. <<r, Own>> \in Jobs
    BY JobFacts
  <2> QED
    BY <2>1, <2>2
<1>2. ASSUME NEW r \in Requests, NEW m \in Members
      PROVE  calls'[r][m] = "sealing" <=> seal'[<<r, m>>].at # "idle"
  <2>1. calls[r][m] = "sealing" <=> seal[<<r, m>>].at # "idle"
    BY DEF TypeOK
  <2>2. <<r, m>> \in Jobs
    BY JobFacts
  <2> QED
    BY <2>1, <2>2
<1> QED
  BY <1>1, <1>2, JobFacts DEF TypeOK

LEMMA ReadChainInv ==
  ASSUME RoomInv, NEW j \in Jobs, ReadChain(j)
  PROVE  RoomInv'
<1>1. SealP!SealInv'
  BY SealKept DEF RoomInv, ReadChain, Seal!SealNext, Seal!SealStep
<1>2. /\ seal[j].at = "waiting"
      /\ seal' = [seal EXCEPT ![j] = Seal!Hashing(seal[j].body, receipts, hashes + 1)]
      /\ UNCHANGED <<receipts, state, req, calls, schedules, memory, rows, issued, runs, billed>>
  BY DEF ReadChain, Seal!ReadChain, roomVars
<1>3. /\ seal'[j].at = "hashing" /\ seal'[j].body = seal[j].body
      /\ \A k \in Jobs : k # j => seal'[k] = seal[k]
  BY <1>2, SealFacts, SealAt DEF RoomInv, Seal!Hashing
<1>4. TypeOK'
  BY <1>2, <1>3, WaitsKept DEF RoomInv, TypeOK
<1>5. PuttingSealed'
  <2> SUFFICES ASSUME NEW k \in Jobs, seal'[k].at = "putting" PROVE receipts' # << >>
    BY JobFacts DEF PuttingSealed
  <2> QED
    BY <1>2, <1>3 DEF RoomInv, PuttingSealed
<1>6. HeldMeansPaused' /\ LedgerNeverOverBills' /\ HeadOnChain' /\ NextIsPaused' /\ CallsOfSwarm'
  BY <1>2 DEF RoomInv, HeldMeansPaused, LedgerNeverOverBills, HeadOnChain, NextIsPaused,
     CallsOfSwarm, Busy, Seal!Chain!HeadHash
<1>7. ASSUME NEW q \in Requests
      PROVE  /\ seal'[<<q, Own>>].at = "putting" <=> seal[<<q, Own>>].at = "putting"
             /\ IF seal[<<q, Own>>].at = "waiting"
                  THEN seal'[<<q, Own>>].body = seal[<<q, Own>>].body
                  ELSE seal'[<<q, Own>>] = seal[<<q, Own>>]
  <2>1. <<q, Own>> \in Jobs
    BY JobFacts
  <2> QED
    BY <1>2, <1>3, <2>1
<1>8. NextIsBilled'
  <2> SUFFICES ASSUME NEW q \in Requests, req[q].pc = "seal"
               PROVE  req[q].next.usd <= billed +
                        IF seal'[<<q, Own>>].at = "putting" THEN 0
                        ELSE seal'[<<q, Own>>].body.usd
    BY <1>2, JobFacts DEF NextIsBilled
  <2> QED
    BY <1>7 DEF RoomInv, NextIsBilled
<1>9. OwnBodies'
  <2> SUFFICES ASSUME NEW q \in Requests, seal'[<<q, Own>>].at \in {"waiting", "hashing"}
               PROVE  seal'[<<q, Own>>].body.kind # "member"
    BY JobFacts DEF OwnBodies
  <2> QED
    BY <1>7, <1>3 DEF RoomInv, OwnBodies
<1> QED
  BY <1>1, <1>4, <1>5, <1>6, <1>8, <1>9 DEF RoomInv

LEMMA InsertReceiptInv ==
  ASSUME RoomInv, NEW j \in Jobs, InsertReceipt(j)
  PROVE  RoomInv' /\ (receipts' # << >> /\ billed' >= billed)
<1> DEFINE bill == IF seal[j].body.kind = "member" THEN 0 ELSE seal[j].body.usd
<1>1. SealP!SealInv'
  BY SealKept DEF RoomInv, InsertReceipt, Seal!SealNext, Seal!SealStep
<1>2. /\ seal[j].at = "hashing"
      /\ receipts' = Append(receipts, Seal!NewReceipt(seal[j]))
      /\ seal' = [seal EXCEPT ![j] =
                    Seal!Putting(Append(seal[j].chain, Seal!NewReceipt(seal[j])))]
      /\ UNCHANGED <<state, req, calls, schedules, memory, rows, issued, runs>>
      /\ billed' = billed + bill
  BY DEF InsertReceipt, Seal!InsertReceipt
<1>3. /\ seal[j] \in Seal!SealStates /\ receipts \in Seq(Seal!Chain!Receipt)
      /\ billed \in Nat
  BY SealFacts DEF RoomInv, TypeOK
<1>4. seal[j].body \in Body /\ bill \in Nat
  <2>1. seal[j].body \in Body
    BY <1>2, <1>3, BodyFacts
  <2> QED
    BY <2>1 DEF Body
<1>5. /\ seal'[j].at = "putting"
      /\ \A k \in Jobs : k # j => seal'[k] = seal[k]
  BY <1>2, SealFacts, SealAt DEF RoomInv, Seal!Putting
<1> HIDE DEF bill
<1>6. TypeOK'
  BY <1>2, <1>3, <1>4, <1>5, WaitsKept DEF RoomInv
<1>7. /\ receipts' # << >> /\ Len(receipts') = Len(receipts) + 1
      /\ receipts'[Len(receipts')] = Seal!NewReceipt(seal[j])
      /\ Len(receipts) \in Nat
  <2>1. Seal!NewReceipt(seal[j]) \in Seal!Chain!Receipt
    <3>1. SealP!NewReceipt(seal[j]) \in SealP!Chain!Receipt
      BY <1>2, <1>3, SealOps, SealP!NewReceiptType
    <3> QED
      BY <3>1, SealOps
  <2> QED
    BY <1>2, <1>3, <2>1, AppendProperties, EmptySeq
<1>8. PuttingSealed'
  BY <1>7 DEF PuttingSealed
<1>9. HeldMeansPaused' /\ NextIsPaused' /\ CallsOfSwarm'
  BY <1>2 DEF RoomInv, HeldMeansPaused, NextIsPaused, CallsOfSwarm, Busy
<1>10. LedgerNeverOverBills'
  BY <1>2, <1>3, <1>4, StateFacts DEF RoomInv, LedgerNeverOverBills, TypeOK
<1>11. HeadOnChain'
  <2>1. Seal!Chain!HeadHash(receipts') = seal[j].hash
    BY <1>7 DEF Seal!Chain!HeadHash, Seal!NewReceipt
  <2>2. Seal!Chain!HeadHash(receipts) <= seal[j].hash
    <3>1. CASE receipts = << >>
      <4>1. seal[j].hash \in Nat
        BY <1>2, <1>3 DEF Seal!SealStates, Seal!Idle
      <4> QED
        BY <3>1, <4>1 DEF Seal!Chain!HeadHash, Seal!Chain!Genesis
    <3>2. CASE receipts # << >>
      <4>1. Len(receipts) \in 1..Len(receipts)
        BY <1>3, <3>2, EmptySeq
      <4>2. receipts[Len(receipts)].hash < seal[j].hash
        BY <1>2, <4>1 DEF RoomInv, SealP!SealInv, SealP!HashesDrawn
      <4>3. receipts[Len(receipts)].hash \in Nat /\ seal[j].hash \in Nat
        <5>1. receipts[Len(receipts)] \in Seal!Chain!Receipt
          BY <1>3, <4>1, ElementOfSeq
        <5> QED
          BY <1>2, <1>3, <5>1 DEF Seal!Chain!Receipt, Seal!SealStates, Seal!Idle
      <4> QED
        BY <3>2, <4>2, <4>3 DEF Seal!Chain!HeadHash
    <3> QED
      BY <3>1, <3>2
  <2>3. /\ seal[j].hash \in Nat /\ state.head \in Nat
        /\ Seal!Chain!HeadHash(receipts) \in Nat
    <3>1. SealP!Chain!HeadHash(receipts) \in Nat
      BY <1>3, SealOps, SealP!HeadHashType
    <3>2. Seal!Chain!HeadHash(receipts) = SealP!Chain!HeadHash(receipts)
      BY DEF Seal!Chain!HeadHash, SealP!Chain!HeadHash, Seal!Chain!Genesis, SealP!Chain!Genesis
    <3>3. seal[j].hash \in Nat
      BY <1>2, <1>3 DEF Seal!SealStates, Seal!Idle
    <3> QED
      BY <3>1, <3>2, <3>3, StateFacts DEF RoomInv, TypeOK
  <2> QED
    BY <1>2, <2>1, <2>2, <2>3 DEF RoomInv, HeadOnChain
<1>12. NextIsBilled'
  <2> SUFFICES ASSUME NEW q \in Requests, req[q].pc = "seal"
               PROVE  req[q].next.usd <= billed' +
                        IF seal'[<<q, Own>>].at = "putting" THEN 0
                        ELSE seal'[<<q, Own>>].body.usd
    BY <1>2, JobFacts DEF NextIsBilled
  <2>1. <<q, Own>> \in Jobs /\ req[q].next.usd \in Nat
    <3>1. req[q].next \in State
      BY DEF RoomInv, TypeOK, Request
    <3> QED
      BY <3>1, JobFacts, StateFacts
  <2>2. req[q].next.usd <= billed + IF seal[<<q, Own>>].at = "putting" THEN 0
                                    ELSE seal[<<q, Own>>].body.usd
    BY DEF RoomInv, NextIsBilled
  <2>3. CASE j = <<q, Own>>
    <3>1. seal[<<q, Own>>].body.kind # "member"
      BY <1>2, <2>3 DEF RoomInv, OwnBodies
    <3>2. bill = seal[<<q, Own>>].body.usd
      BY <2>3, <3>1 DEF bill
    <3> QED
      BY <1>2, <1>3, <1>4, <1>5, <2>2, <2>3, <3>2
  <2>4. CASE j # <<q, Own>>
    <3>1. seal'[<<q, Own>>] = seal[<<q, Own>>]
      BY <1>5, <2>1, <2>4
    <3>2. /\ seal[<<q, Own>>].at # "idle"
          /\ seal[<<q, Own>>].at # "putting" => seal[<<q, Own>>].body.usd \in Nat
      <4>1. seal[<<q, Own>>] \in Seal!SealStates /\ seal[<<q, Own>>].at # "idle"
        BY <2>1, SealFacts DEF RoomInv, TypeOK
      <4>2. seal[<<q, Own>>].at # "putting" => seal[<<q, Own>>].body \in Body
        BY <4>1 DEF Seal!SealStates, Seal!Idle
      <4> QED
        BY <4>1, <4>2 DEF Body
    <3>3. billed \in Nat /\ billed' \in Nat /\ billed <= billed'
      BY <1>2, <1>3, <1>4
    <3>4. CASE seal[<<q, Own>>].at = "putting"
      BY <2>1, <2>2, <3>1, <3>3, <3>4
    <3>5. CASE seal[<<q, Own>>].at # "putting"
      <4> DEFINE usd == seal[<<q, Own>>].body.usd
      <4>1. usd \in Nat /\ req[q].next.usd <= billed + usd
        BY <2>2, <3>2, <3>5
      <4>2. req[q].next.usd <= billed' + usd
        BY <2>1, <3>3, <4>1
      <4> QED
        BY <3>1, <3>5, <4>2
    <3> QED
      BY <3>4, <3>5
  <2> QED
    BY <2>3, <2>4
<1>13. OwnBodies'
  <2> SUFFICES ASSUME NEW q \in Requests, seal'[<<q, Own>>].at \in {"waiting", "hashing"}
               PROVE  seal'[<<q, Own>>].body.kind # "member"
    BY JobFacts DEF OwnBodies
  <2>1. <<q, Own>> \in Jobs
    BY JobFacts
  <2>2. seal'[<<q, Own>>] = seal[<<q, Own>>]
    BY <1>5, <2>1
  <2> QED
    BY <2>2 DEF RoomInv, OwnBodies
<1> QED
  BY <1>1, <1>2, <1>3, <1>4, <1>6, <1>7, <1>8, <1>9, <1>10, <1>11, <1>12, <1>13 DEF RoomInv

\* A handler's own seal() settles or fails.
LEMMA OwnLeaves ==
  ASSUME RoomInv, SealP!SealInv', NEW r \in Requests,
         seal[<<r, Own>>].at # "idle", seal' = [seal EXCEPT ![<<r, Own>>] = Seal!Idle],
         req' = [req EXCEPT ![r] = NoRequest],
         state' \in State, HeldMeansPaused', LedgerNeverOverBills', HeadOnChain',
         rows' \in SUBSET [table : {"turns", "swarms"}, receipt : Nat],
         UNCHANGED <<receipts, calls, schedules, memory, issued, runs, billed>>
  PROVE  RoomInv'
<1>1. /\ seal'[<<r, Own>>].at = "idle"
      /\ \A k \in Jobs : k # <<r, Own>> => seal'[k] = seal[k]
  BY SealFacts, SealAt, JobFacts DEF RoomInv, Seal!Idle
<1>2. ASSUME NEW q \in Requests
      PROVE  /\ q # r => seal'[<<q, Own>>] = seal[<<q, Own>>]
             /\ \A m \in Members : seal'[<<q, m>>] = seal[<<q, m>>]
  <2>1. q # r => seal'[<<q, Own>>] = seal[<<q, Own>>]
    BY <1>1, JobFacts
  <2>2. ASSUME NEW m \in Members PROVE seal'[<<q, m>>] = seal[<<q, m>>]
    BY <1>1, JobFacts
  <2> QED
    BY <2>1, <2>2
<1>3. /\ req \in [Requests -> Request] /\ NoRequest \in Request
      /\ req'[r].pc = "idle" /\ \A q \in Requests : q # r => req'[q] = req[q]
  <2>1. NoRequest \in Request
    BY CommanderAssumption DEF NoRequest, Request, InitialState, State, AllCommands
  <2> QED
    BY <2>1 DEF RoomInv, TypeOK, NoRequest
<1>4. TypeOK'
  <2>1. ASSUME NEW q \in Requests
        PROVE  req'[q].pc = "seal" <=> seal'[<<q, Own>>].at # "idle"
    <3>1. req[q].pc = "seal" <=> seal[<<q, Own>>].at # "idle"
      BY DEF RoomInv, TypeOK
    <3>2. CASE q = r
      BY <1>1, <1>3, <3>2
    <3>3. CASE q # r
      BY <1>2, <1>3, <3>1, <3>3
    <3> QED
      BY <3>2, <3>3
  <2>2. ASSUME NEW q \in Requests, NEW m \in Members
        PROVE  calls'[q][m] = "sealing" <=> seal'[<<q, m>>].at # "idle"
    <3>1. calls[q][m] = "sealing" <=> seal[<<q, m>>].at # "idle"
      BY DEF RoomInv, TypeOK
    <3>2. seal'[<<q, m>>] = seal[<<q, m>>]
      BY <1>2
    <3> QED
      BY <3>1, <3>2
  <2>3. req' \in [Requests -> Request]
    BY <1>3
  <2> QED
    BY <2>1, <2>2, <2>3, JobFacts DEF RoomInv, TypeOK
<1>5. PuttingSealed'
  <2> SUFFICES ASSUME NEW k \in Jobs, seal'[k].at = "putting" PROVE receipts' # << >>
    BY JobFacts DEF PuttingSealed
  <2> QED
    BY <1>1 DEF RoomInv, PuttingSealed
<1>6. CallsOfSwarm'
  <2> SUFFICES ASSUME NEW q \in Requests, Busy(q)'
               PROVE  req'[q].pc \in {"swarm", "failed"}
    BY DEF CallsOfSwarm
  <2>1. Busy(q) /\ req[q].pc \in {"swarm", "failed"}
    BY DEF Busy, RoomInv, CallsOfSwarm
  <2>2. req[r].pc = "seal"
    BY DEF RoomInv, TypeOK
  <2> QED
    BY <1>3, <2>1, <2>2
<1>7. NextIsPaused'
  BY <1>3 DEF RoomInv, NextIsPaused
<1>8. NextIsBilled'
  <2> SUFFICES ASSUME NEW q \in Requests, req'[q].pc = "seal"
               PROVE  req'[q].next.usd <= billed +
                        IF seal'[<<q, Own>>].at = "putting" THEN 0
                        ELSE seal'[<<q, Own>>].body.usd
    BY JobFacts DEF NextIsBilled
  <2>1. q # r /\ req'[q] = req[q]
    BY <1>3
  <2>2. seal'[<<q, Own>>] = seal[<<q, Own>>]
    BY <1>2, <2>1
  <2> QED
    BY <2>1, <2>2 DEF RoomInv, NextIsBilled
<1>9. OwnBodies'
  <2> SUFFICES ASSUME NEW q \in Requests, seal'[<<q, Own>>].at \in {"waiting", "hashing"}
               PROVE  seal'[<<q, Own>>].body.kind # "member"
    BY JobFacts DEF OwnBodies
  <2>1. seal'[<<q, Own>>] = seal[<<q, Own>>]
    BY <1>1, <1>2
  <2> QED
    BY <2>1 DEF RoomInv, OwnBodies
<1> QED
  BY <1>4, <1>5, <1>6, <1>7, <1>8, <1>9 DEF RoomInv

\* A member's seal() settles or fails, or begins.
LEMMA MemberSealInv ==
  ASSUME RoomInv, SealP!SealInv', NEW r \in Requests, NEW m \in Members, NEW x, NEW w,
         seal' = [seal EXCEPT ![<<r, m>>] = x], x.at # "putting",
         calls' = [calls EXCEPT ![r][m] = w], w \in {"sealing", "sealed"},
         w = "sealing" <=> x.at # "idle", calls[r][m] \in {"calling", "sealing"},
         req' \in [Requests -> Request],
         req'[r].pc \in {req[r].pc, "failed"},
         \A q \in Requests : q # r => req'[q] = req[q],
         UNCHANGED <<state, receipts, schedules, memory, rows, issued, runs, billed>>
  PROVE  RoomInv'
<1>1. /\ seal'[<<r, m>>] = x
      /\ \A k \in Jobs : k # <<r, m>> => seal'[k] = seal[k]
  BY SealFacts, SealAt, JobFacts DEF RoomInv
<1>2. ASSUME NEW q \in Requests
      PROVE  /\ seal'[<<q, Own>>] = seal[<<q, Own>>]
             /\ \A n \in Members : <<q, n>> # <<r, m>> => seal'[<<q, n>>] = seal[<<q, n>>]
  <2>1. seal'[<<q, Own>>] = seal[<<q, Own>>]
    BY <1>1, JobFacts
  <2>2. ASSUME NEW n \in Members, <<q, n>> # <<r, m>>
        PROVE  seal'[<<q, n>>] = seal[<<q, n>>]
    BY <1>1, <2>2, JobFacts
  <2> QED
    BY <2>1, <2>2
<1>3. calls \in [Requests -> [Members -> {"free", "calling", "sealing", "sealed"}]]
  BY DEF RoomInv, TypeOK
<1>4. /\ calls' \in [Requests -> [Members -> {"free", "calling", "sealing", "sealed"}]]
      /\ calls'[r][m] = w
      /\ \A q \in Requests, n \in Members : <<q, n>> # <<r, m>> => calls'[q][n] = calls[q][n]
  BY <1>3
<1>5. req[r].pc \in {"swarm", "failed"} /\ req'[r].pc \in {"swarm", "failed"}
  <2>1. Busy(r)
    BY DEF Busy
  <2> QED
    BY <2>1 DEF RoomInv, CallsOfSwarm
<1>6. TypeOK'
  <2>1. ASSUME NEW q \in Requests
        PROVE  req'[q].pc = "seal" <=> seal'[<<q, Own>>].at # "idle"
    <3>1. req[q].pc = "seal" <=> seal[<<q, Own>>].at # "idle"
      BY DEF RoomInv, TypeOK
    <3>2. seal'[<<q, Own>>] = seal[<<q, Own>>]
      BY <1>2
    <3>3. req'[q].pc = "seal" <=> req[q].pc = "seal"
      BY <1>5
    <3> QED
      BY <3>1, <3>2, <3>3
  <2>2. ASSUME NEW q \in Requests, NEW n \in Members
        PROVE  calls'[q][n] = "sealing" <=> seal'[<<q, n>>].at # "idle"
    <3>1. CASE <<q, n>> = <<r, m>>
      BY <1>1, <1>4, <3>1
    <3>2. CASE <<q, n>> # <<r, m>>
      <4>1. calls[q][n] = "sealing" <=> seal[<<q, n>>].at # "idle"
        BY DEF RoomInv, TypeOK
      <4>2. seal'[<<q, n>>] = seal[<<q, n>>] /\ calls'[q][n] = calls[q][n]
        BY <1>2, <1>4, <3>2
      <4> QED
        BY <4>1, <4>2
    <3> QED
      BY <3>1, <3>2
  <2> QED
    BY <1>4, <2>1, <2>2, JobFacts DEF RoomInv, TypeOK
<1>7. PuttingSealed'
  <2> SUFFICES ASSUME NEW k \in Jobs, seal'[k].at = "putting" PROVE receipts' # << >>
    BY JobFacts DEF PuttingSealed
  <2> QED
    BY <1>1 DEF RoomInv, PuttingSealed
<1>8. CallsOfSwarm'
  <2> SUFFICES ASSUME NEW q \in Requests, Busy(q)'
               PROVE  req'[q].pc \in {"swarm", "failed"}
    BY DEF CallsOfSwarm
  <2>1. CASE q = r
    BY <1>5, <2>1
  <2>2. CASE q # r
    <3>1. PICK n \in Members : calls'[q][n] \in {"calling", "sealing"}
      BY DEF Busy
    <3>2. calls'[q][n] = calls[q][n]
      BY <1>4, <2>2
    <3>3. Busy(q)
      BY <3>1, <3>2 DEF Busy
    <3> QED
      BY <2>2, <3>3 DEF RoomInv, CallsOfSwarm
  <2> QED
    BY <2>1, <2>2
<1>9. HeldMeansPaused' /\ LedgerNeverOverBills' /\ HeadOnChain'
  BY DEF RoomInv, HeldMeansPaused, LedgerNeverOverBills, HeadOnChain, Seal!Chain!HeadHash
<1>10. ASSUME NEW q \in Requests, req'[q].pc = "seal" PROVE req'[q] = req[q]
  BY <1>5, <1>10
<1>11. NextIsPaused'
  BY <1>10 DEF RoomInv, NextIsPaused
<1>12. NextIsBilled'
  <2> SUFFICES ASSUME NEW q \in Requests, req'[q].pc = "seal"
               PROVE  req'[q].next.usd <= billed +
                        IF seal'[<<q, Own>>].at = "putting" THEN 0
                        ELSE seal'[<<q, Own>>].body.usd
    BY JobFacts DEF NextIsBilled
  <2> QED
    BY <1>2, <1>10 DEF RoomInv, NextIsBilled
<1>13. OwnBodies'
  <2> SUFFICES ASSUME NEW q \in Requests, seal'[<<q, Own>>].at \in {"waiting", "hashing"}
               PROVE  seal'[<<q, Own>>].body.kind # "member"
    BY JobFacts DEF OwnBodies
  <2> QED
    BY <1>2 DEF RoomInv, OwnBodies
<1> QED
  BY <1>6, <1>7, <1>8, <1>9, <1>11, <1>12, <1>13 DEF RoomInv

LEMMA RestartInv ==
  ASSUME RoomInv, Restart
  PROVE  RoomInv'
<1>1. SealP!SealInv'
  BY SealKept DEF RoomInv, Restart, Seal!SealNext
<1>2. /\ seal' = [j \in Jobs |-> Seal!Idle]
      /\ req' = [r \in Requests |-> NoRequest] /\ calls' = [r \in Requests |-> NoCalls]
      /\ UNCHANGED <<receipts, state, schedules, memory, rows, issued, runs, billed>>
  BY DEF Restart, Seal!SealRestart
<1>3. /\ \A j \in Jobs : seal'[j].at = "idle"
      /\ \A r \in Requests : req'[r].pc = "idle"
      /\ \A r \in Requests, m \in Members : calls'[r][m] = "free"
  BY <1>2 DEF Seal!Idle, NoRequest, NoCalls
<1>4. TypeOK'
  <2>1. NoRequest \in Request /\ NoCalls \in [Members -> {"free", "calling", "sealing", "sealed"}]
    BY CommanderAssumption DEF NoRequest, Request, InitialState, State, AllCommands, NoCalls
  <2>2. ASSUME NEW r \in Requests
        PROVE  req'[r].pc = "seal" <=> seal'[<<r, Own>>].at # "idle"
    BY <1>3, JobFacts
  <2>3. ASSUME NEW r \in Requests, NEW m \in Members
        PROVE  calls'[r][m] = "sealing" <=> seal'[<<r, m>>].at # "idle"
    BY <1>3, JobFacts
  <2> QED
    BY <1>2, <2>1, <2>2, <2>3, JobFacts DEF RoomInv, TypeOK
<1>5. PuttingSealed' /\ CallsOfSwarm' /\ NextIsPaused' /\ NextIsBilled'
  BY <1>3, JobFacts DEF PuttingSealed, CallsOfSwarm, Busy, NextIsPaused, NextIsBilled
<1>6. OwnBodies'
  BY <1>3, JobFacts DEF OwnBodies
<1>7. HeldMeansPaused' /\ LedgerNeverOverBills' /\ HeadOnChain'
  BY <1>2 DEF RoomInv, HeldMeansPaused, LedgerNeverOverBills, HeadOnChain, Seal!Chain!HeadHash
<1> QED
  BY <1>1, <1>4, <1>5, <1>6, <1>7 DEF RoomInv

LEMMA InitInv == Init => RoomInv
<1> SUFFICES ASSUME Init PROVE RoomInv
  OBVIOUS
<1>1. SealP!SealInv
  BY SealInitSame, SealP!InitInv DEF Init
<1>2. /\ \A j \in Jobs : seal[j].at = "idle"
      /\ \A r \in Requests : req[r].pc = "idle"
      /\ \A r \in Requests, m \in Members : calls[r][m] = "free"
  BY DEF Init, Seal!SealInit, Seal!Idle, NoRequest, NoCalls
<1>3. TypeOK
  <2>1. /\ NoRequest \in Request /\ InitialState \in State
        /\ NoCalls \in [Members -> {"free", "calling", "sealing", "sealed"}]
    BY CommanderAssumption DEF NoRequest, Request, InitialState, State, AllCommands, NoCalls
  <2>2. ASSUME NEW r \in Requests
        PROVE  req[r].pc = "seal" <=> seal[<<r, Own>>].at # "idle"
    BY <1>2, JobFacts
  <2>3. ASSUME NEW r \in Requests, NEW m \in Members
        PROVE  calls[r][m] = "sealing" <=> seal[<<r, m>>].at # "idle"
    BY <1>2, JobFacts
  <2> QED
    BY <2>1, <2>2, <2>3 DEF Init, TypeOK
<1>4. PuttingSealed /\ CallsOfSwarm /\ NextIsPaused /\ NextIsBilled
  BY <1>2, JobFacts DEF PuttingSealed, CallsOfSwarm, Busy, NextIsPaused, NextIsBilled
<1>5. OwnBodies
  BY <1>2, JobFacts DEF OwnBodies
<1>6. HeldMeansPaused /\ LedgerNeverOverBills /\ HeadOnChain
  BY DEF Init, InitialState, HeldMeansPaused, LedgerNeverOverBills, HeadOnChain,
     Seal!SealInit, Seal!Chain!HeadHash, Seal!Chain!Genesis
<1> QED
  BY <1>1, <1>3, <1>4, <1>5, <1>6 DEF RoomInv
-----------------------------------------------------------------------------
(* Handlers *)

\* What a handler that starts needs of its slot.
LEMMA IdleFacts ==
  ASSUME RoomInv, NEW r \in Requests, req[r].pc \notin {"swarm", "failed"}
  PROVE  ~Busy(r)
BY DEF RoomInv, CallsOfSwarm

\* The states a handler captures.
LEMMA SpendFacts ==
  ASSUME NEW s \in State, Paused(s), NEW u \in Nat
  PROVE  ApplySpend(s, u) \in State /\ Paused(ApplySpend(s, u)) /\ ApplySpend(s, u).usd = s.usd + u
BY DEF State, Paused, ApplySpend

LEMMA HoldFacts ==
  ASSUME NEW s \in State, Paused(s)
  PROVE  /\ \A t \in Tokens : ApplyHandoff(s, t) \in State /\ Paused(ApplyHandoff(s, t))
                              /\ ApplyHandoff(s, t).usd = s.usd
         /\ ApplyRelease(s) \in State /\ Paused(ApplyRelease(s)) /\ ApplyRelease(s).usd = s.usd
<1>1. ASSUME NEW t \in Tokens
      PROVE  ApplyHandoff(s, t) \in State /\ Paused(ApplyHandoff(s, t))
             /\ ApplyHandoff(s, t).usd = s.usd
  BY DEF State, Paused, ApplyHandoff
<1>2. ApplyRelease(s) \in State /\ Paused(ApplyRelease(s)) /\ ApplyRelease(s).usd = s.usd
  BY DEF State, Paused, ApplyRelease
<1> QED
  BY <1>1, <1>2

LEMMA KillFacts ==
  ASSUME NEW s \in State, Paused(s)
  PROVE  /\ ApplyKill(s) \in State /\ Paused(ApplyKill(s)) /\ ApplyKill(s).usd = s.usd
         /\ ApplyRevive(s) \in State /\ Paused(ApplyRevive(s)) /\ ApplyRevive(s).usd = s.usd
<1>1. ApplyKill(s) \in State /\ Paused(ApplyKill(s)) /\ ApplyKill(s).usd = s.usd
  BY DEF State, Paused, ApplyKill
<1>2. ApplyRevive(s) \in State /\ Paused(ApplyRevive(s)) /\ ApplyRevive(s).usd = s.usd
  BY DEF State, Paused, ApplyRevive
<1> QED
  BY <1>1, <1>2

LEMMA SettingFacts ==
  ASSUME NEW s \in State, Paused(s)
  PROVE  /\ \A m \in Modes : ApplyMode(s, m) \in State /\ Paused(ApplyMode(s, m))
                             /\ ApplyMode(s, m).usd = s.usd
         /\ \A c \in Caps : ApplyCap(s, c) \in State /\ Paused(ApplyCap(s, c))
                            /\ ApplyCap(s, c).usd = s.usd
         /\ \A n \in Nat : LET t == [s EXCEPT !.memory_notes = n] IN
                           t \in State /\ Paused(t) /\ t.usd = s.usd
<1>1. ASSUME NEW m \in Modes
      PROVE  ApplyMode(s, m) \in State /\ Paused(ApplyMode(s, m)) /\ ApplyMode(s, m).usd = s.usd
  BY DEF State, Paused, ApplyMode
<1>2. ASSUME NEW c \in Caps
      PROVE  ApplyCap(s, c) \in State /\ Paused(ApplyCap(s, c)) /\ ApplyCap(s, c).usd = s.usd
  BY CommanderAssumption DEF State, Paused, ApplyCap
<1>3. ASSUME NEW n \in Nat
      PROVE  LET t == [s EXCEPT !.memory_notes = n] IN
             t \in State /\ Paused(t) /\ t.usd = s.usd
  BY DEF State, Paused
<1> QED
  BY <1>1, <1>2, <1>3

LEMMA PlainFacts ==
  /\ \A k \in Kinds : Plain(k) \in Body /\ Plain(k).kind = k /\ Plain(k).usd = 0
  /\ \A k \in Kinds, u \in Nat : LET b == [Plain(k) EXCEPT !.usd = u] IN
       b \in Body /\ b.kind = k /\ b.usd = u
BY DEF Plain, Body

LEMMA RequestFacts ==
  ASSUME NEW c \in AllCommands, NEW s \in State
  PROVE  /\ NoRequest \in Request /\ NoRequest.pc = "idle"
         /\ Sealing(c, s) \in Request /\ Sealing(c, s).pc = "seal"
<1>1. NoRequest \in Request /\ NoRequest.pc = "idle"
  BY CommanderAssumption DEF NoRequest, Request, InitialState, State, AllCommands
<1>2. Sealing(c, s) \in Request /\ Sealing(c, s).pc = "seal"
  BY <1>1 DEF Sealing, Request
<1> QED
  BY <1>1, <1>2

\* A handler outside a swarm asks for its receipt.
LEMMA AskInv ==
  ASSUME RoomInv, NEW r \in Requests, NEW c \in AllCommands, NEW b \in Body, NEW s \in State,
         AskSeal(r, c, b, s), b.kind # "member", Paused(s), s.usd <= billed + b.usd,
         req[r].pc \notin {"swarm", "failed"},
         schedules' \in SUBSET Schedules, memory' \in SUBSET Notes, issued' \in SUBSET Tokens,
         UNCHANGED <<state, calls, rows, runs, billed>>
  PROVE  RoomInv'
<1>1. /\ req \in [Requests -> Request] /\ Sealing(c, s) \in Request
      /\ calls \in [Requests -> [Members -> {"free", "calling", "sealing", "sealed"}]]
  BY RequestFacts DEF RoomInv, TypeOK
<1>2. /\ req' \in [Requests -> Request] /\ req'[r] = Sealing(c, s)
      /\ \A q \in Requests : q # r => req'[q] = req[q]
  BY <1>1 DEF AskSeal
<1>3. CallsOfSwarm'
  <2> SUFFICES ASSUME NEW q \in Requests, Busy(q)'
               PROVE  req'[q].pc \in {"swarm", "failed"}
    BY DEF CallsOfSwarm
  <2>1. Busy(q)
    BY DEF Busy
  <2>2. q # r
    BY <2>1, IdleFacts
  <2> QED
    BY <1>2, <2>1, <2>2 DEF RoomInv, CallsOfSwarm
<1>4. Seal!Enqueue(<<r, Own>>, b)
  BY DEF AskSeal
<1> QED
  BY <1>1, <1>2, <1>3, <1>4, AskSealInv

\* A handler outside a swarm moves on without touching the seals.
LEMMA MoveInv ==
  ASSUME RoomInv, NEW r \in Requests, NEW x \in Request,
         req' = [req EXCEPT ![r] = x], req[r].pc \in {"idle", "mind"}, x.pc # "seal",
         UNCHANGED <<state, calls, memory, rows, issued, billed, sealVars>>,
         schedules' \in SUBSET Schedules, runs' \in Nat
  PROVE  RoomInv'
<1>1. /\ req \in [Requests -> Request]
      /\ calls \in [Requests -> [Members -> {"free", "calling", "sealing", "sealed"}]]
  BY DEF RoomInv, TypeOK
<1>2. /\ req' \in [Requests -> Request] /\ req'[r] = x
      /\ \A q \in Requests : q # r => req'[q] = req[q]
  BY <1>1
<1>3. CallsOfSwarm'
  <2> SUFFICES ASSUME NEW q \in Requests, Busy(q)'
               PROVE  req'[q].pc \in {"swarm", "failed"}
    BY DEF CallsOfSwarm
  <2>1. Busy(q)
    BY DEF Busy
  <2>2. q # r
    BY <2>1, IdleFacts
  <2> QED
    BY <1>2, <2>1, <2>2 DEF RoomInv, CallsOfSwarm
<1>4. \A q \in Requests : (req'[q].pc = "seal" \/ req[q].pc = "seal") => req'[q] = req[q]
  BY <1>2
<1> QED
  BY <1>1, <1>2, <1>3, <1>4, LocalInv

LEMMA MindInv ==
  ASSUME RoomInv, NEW r \in Requests, Think(r) \/ MindAnswered(r) \/ MindRefused(r) \/ Fire(r)
  PROVE  RoomInv'
<1>1. /\ state \in State /\ Paused(state) /\ state.usd <= billed /\ state.usd \in Nat
      /\ billed \in Nat /\ runs \in Nat
      /\ schedules \in SUBSET Schedules /\ memory \in SUBSET Notes /\ issued \in SUBSET Tokens
  BY StateFacts DEF RoomInv, TypeOK, HeldMeansPaused, Paused, LedgerNeverOverBills
<1>2. /\ NoRequest \in Request
      /\ [NoRequest EXCEPT !.pc = "mind", !.cmd = "think"] \in Request
      /\ NoRequest.pc # "seal"
      /\ [NoRequest EXCEPT !.pc = "mind", !.cmd = "think"].pc # "seal"
  BY CommanderAssumption DEF NoRequest, Request, InitialState, State, AllCommands
<1>3. CASE Think(r)
  BY <1>1, <1>2, <1>3, MoveInv DEF Think, Free, StartMind
<1>4. CASE MindAnswered(r)
  <2>1. PICK u \in Costs : AskSeal(r, "think", [Plain("turn") EXCEPT !.usd = u],
                                   ApplySpend(state, u))
    BY <1>4 DEF MindAnswered
  <2>2. u \in Nat
    BY CommanderAssumption
  <2>3. /\ ApplySpend(state, u) \in State /\ Paused(ApplySpend(state, u))
        /\ ApplySpend(state, u).usd = state.usd + u
    BY <1>1, <2>2, SpendFacts
  <2> DEFINE b == [Plain("turn") EXCEPT !.usd = u]
  <2>4. b \in Body /\ b.kind # "member" /\ b.usd = u
    BY <2>2, PlainFacts DEF Kinds
  <2>5. AskSeal(r, "think", b, ApplySpend(state, u))
    BY <2>1
  <2> HIDE DEF b
  <2>6. ApplySpend(state, u).usd <= billed + b.usd
    BY <1>1, <2>2, <2>3, <2>4
  <2>7. /\ "think" \in AllCommands /\ req[r].pc = "mind"
        /\ UNCHANGED <<state, calls, schedules, memory, rows, issued, runs, billed>>
    BY <1>4 DEF MindAnswered, AllCommands
  <2> QED
    BY <1>1, <2>3, <2>4, <2>5, <2>6, <2>7, AskInv
<1>5. CASE MindRefused(r)
  BY <1>1, <1>2, <1>5, MoveInv DEF MindRefused
<1>6. CASE Fire(r)
  <2>1. schedules' \in SUBSET Schedules
    BY <1>1, <1>6 DEF Fire
  <2>2. CASE StartMind(r) /\ UNCHANGED sealVars
    BY <1>1, <1>2, <1>6, <2>1, <2>2, MoveInv DEF Fire, StartMind
  <2>3. CASE AskSeal(r, "skip", Plain("turn"), state)
    <3>1. Plain("turn") \in Body /\ Plain("turn").kind # "member" /\ Plain("turn").usd = 0
      BY PlainFacts DEF Kinds
    <3> QED
      BY <1>1, <1>6, <2>1, <2>3, <3>1, AskInv DEF Fire, AllCommands
  <2> QED
    BY <1>6, <2>2, <2>3 DEF Fire
<1> QED
  BY <1>3, <1>4, <1>5, <1>6

\* The handlers that ask for a receipt with a body that bills nothing.
LEMMA PlainInv ==
  ASSUME RoomInv, NEW r \in Requests, NEW c \in AllCommands, NEW k \in Kinds \ {"member"},
         NEW s \in State, AskSeal(r, c, Plain(k), s), Paused(s), s.usd = state.usd,
         req[r].pc \notin {"swarm", "failed"},
         schedules' \in SUBSET Schedules, memory' \in SUBSET Notes, issued' \in SUBSET Tokens,
         UNCHANGED <<state, calls, rows, runs, billed>>
  PROVE  RoomInv'
<1>1. state.usd <= billed /\ state.usd \in Nat /\ billed \in Nat
  BY StateFacts DEF RoomInv, TypeOK, LedgerNeverOverBills
<1>2. Plain(k) \in Body /\ Plain(k).kind # "member" /\ Plain(k).usd = 0
  BY PlainFacts
<1> QED
  BY <1>1, <1>2, AskInv

LEMMA RoomFacts ==
  ASSUME RoomInv
  PROVE  /\ state \in State /\ Paused(state)
         /\ schedules \in SUBSET Schedules /\ memory \in SUBSET Notes
         /\ issued \in SUBSET Tokens
BY DEF RoomInv, TypeOK, HeldMeansPaused, Paused

LEMMA RoleInv ==
  ASSUME RoomInv, NEW r \in Requests, HolderTurn(r) \/ Handoff(r) \/ Release(r)
  PROVE  RoomInv'
<1> USE RoomFacts DEF Free, Kinds, AllCommands
<1>1. CASE HolderTurn(r)
  BY <1>1, PlainInv DEF HolderTurn
<1>2. CASE Handoff(r)
  <2>1. PICK t \in Tokens \ issued :
          /\ issued' = issued \cup {t}
          /\ AskSeal(r, "handoff", Plain("handoff"), ApplyHandoff(state, t))
    BY <1>2 DEF Handoff
  <2>2. /\ ApplyHandoff(state, t) \in State /\ Paused(ApplyHandoff(state, t))
        /\ ApplyHandoff(state, t).usd = state.usd
    BY HoldFacts
  <2> QED
    BY <1>2, <2>1, <2>2, PlainInv DEF Handoff
<1>3. CASE Release(r)
  BY <1>3, HoldFacts, PlainInv DEF Release
<1> QED
  BY <1>1, <1>2, <1>3

LEMMA KillInv ==
  ASSUME RoomInv, NEW r \in Requests, Kill(r)
  PROVE  RoomInv'
<1>1. /\ ApplyKill(state) \in State /\ Paused(ApplyKill(state))
      /\ ApplyKill(state).usd = state.usd
      /\ state.usd <= billed /\ state.usd \in Nat /\ billed \in Nat
  BY RoomFacts, KillFacts, StateFacts DEF RoomInv, TypeOK, LedgerNeverOverBills
<1>2. Plain("kill") \in Body /\ Plain("kill").kind # "member" /\ Plain("kill").usd = 0
  BY PlainFacts DEF Kinds
<1>3. req \in [Requests -> Request] /\ Sealing("kill", ApplyKill(state)) \in Request
  BY <1>1, RequestFacts DEF RoomInv, TypeOK, AllCommands
<1>4. ASSUME NEW q \in Requests
      PROVE  /\ req'[q] \in Request
             /\ q = r => req'[q] = Sealing("kill", ApplyKill(state))
             /\ q # r => req'[q].pc = req[q].pc /\ req'[q].next = req[q].next
  <2>1. CASE q = r
    BY <1>3, <2>1 DEF Kill
  <2>2. CASE q # r
    <3>1. req'[q] = [req[q] EXCEPT !.aborted = @ \/ req[q].pc \in {"mind", "swarm"}]
      BY <2>2 DEF Kill
    <3>2. req[q] \in Request
      BY <1>3
    <3> QED
      BY <2>2, <3>1, <3>2 DEF Request
  <2> QED
    BY <2>1, <2>2
<1>5. req' \in [Requests -> Request]
  <2>1. DOMAIN req' = Requests /\ req' = [q \in Requests |-> req'[q]]
    BY DEF Kill
  <2> QED
    BY <1>4, <2>1
<1>6. CallsOfSwarm'
  <2> SUFFICES ASSUME NEW q \in Requests, Busy(q)'
               PROVE  req'[q].pc \in {"swarm", "failed"}
    BY DEF CallsOfSwarm
  <2>1. Busy(q)
    BY DEF Busy, Kill
  <2>2. q # r
    BY <2>1, IdleFacts DEF Kill, Free
  <2> QED
    BY <1>4, <2>1, <2>2 DEF RoomInv, CallsOfSwarm
<1>7. /\ Seal!Enqueue(<<r, Own>>, Plain("kill")) /\ schedules' = {}
      /\ UNCHANGED <<state, calls, memory, rows, issued, runs, billed>>
  BY DEF Kill
<1>8. calls \in [Requests -> [Members -> {"free", "calling", "sealing", "sealed"}]]
  BY DEF RoomInv, TypeOK
<1>9. /\ req'[r] = Sealing("kill", ApplyKill(state))
      /\ \A q \in Requests : q # r => req'[q].pc = req[q].pc /\ req'[q].next = req[q].next
  BY <1>4
<1>10. "kill" \in AllCommands /\ ApplyKill(state).usd <= billed + Plain("kill").usd
  BY <1>1, <1>2 DEF AllCommands
<1> QED
  BY <1>1, <1>2, <1>5, <1>6, <1>7, <1>8, <1>9, <1>10, RoomFacts, AskSealInv

LEMMA SettingInv ==
  ASSUME RoomInv, NEW r \in Requests,
         Revive(r) \/ SetMode(r) \/ SetCap(r) \/ Schedule(r) \/ Cancel(r) \/ Remember(r)
  PROVE  RoomInv'
<1> USE RoomFacts DEF Free, Kinds, AllCommands
<1>1. CASE Revive(r)
  BY <1>1, KillFacts, PlainInv DEF Revive
<1>2. CASE SetMode(r)
  <2>1. PICK m \in Modes : AskSeal(r, "mode", Plain("mode"), ApplyMode(state, m))
    BY <1>2 DEF SetMode
  <2>2. /\ ApplyMode(state, m) \in State /\ Paused(ApplyMode(state, m))
        /\ ApplyMode(state, m).usd = state.usd
    BY SettingFacts
  <2> QED
    BY <1>2, <2>1, <2>2, PlainInv DEF SetMode
<1>3. CASE SetCap(r)
  <2>1. PICK c \in Caps : AskSeal(r, "cap", Plain("cap"), ApplyCap(state, c))
    BY <1>3 DEF SetCap
  <2>2. /\ ApplyCap(state, c) \in State /\ Paused(ApplyCap(state, c))
        /\ ApplyCap(state, c).usd = state.usd
    BY SettingFacts
  <2> QED
    BY <1>3, <2>1, <2>2, PlainInv DEF SetCap
<1>4. CASE Schedule(r)
  BY <1>4, PlainInv DEF Schedule
<1>5. CASE Cancel(r)
  BY <1>5, PlainInv DEF Cancel
<1>6. CASE Remember(r)
  <2>1. memory' \in SUBSET Notes
    BY <1>6 DEF Remember
  <2>2. IsFiniteSet(memory') /\ Cardinality(memory') \in Nat
    BY <2>1, CommanderAssumption, FS_Subset, FS_CardinalityType
  <2> DEFINE s == [state EXCEPT !.memory_notes = Cardinality(memory')]
  <2>3. s \in State /\ Paused(s) /\ s.usd = state.usd
    BY <2>2, SettingFacts
  <2>4. /\ AskSeal(r, "remember", Plain("remember"), s) /\ req[r].pc = "idle"
        /\ UNCHANGED <<state, calls, schedules, rows, issued, runs, billed>>
    BY <1>6 DEF Remember
  <2> HIDE DEF s
  <2> QED
    BY <2>1, <2>3, <2>4, PlainInv
<1> QED
  BY <1>1, <1>2, <1>3, <1>4, <1>5, <1>6
-----------------------------------------------------------------------------
(* Swarms *)

LEMMA RecordInv ==
  ASSUME RoomInv, NEW r \in Requests, RecordSwarm(r)
  PROVE  RoomInv'
<1>1. /\ state.usd <= billed /\ state.usd \in Nat /\ billed \in Nat
  BY StateFacts DEF RoomInv, TypeOK, LedgerNeverOverBills
<1>2. PICK u \in Costs : AskSeal(r, "record", [Plain("run") EXCEPT !.usd = u], state)
  BY DEF RecordSwarm
<1> DEFINE b == [Plain("run") EXCEPT !.usd = u]
<1>3. u \in Nat /\ b \in Body /\ b.kind # "member" /\ b.usd = u
  BY CommanderAssumption, PlainFacts DEF Kinds
<1>4. AskSeal(r, "record", b, state)
  BY <1>2
<1> HIDE DEF b
<1>5. state.usd <= billed + b.usd
  BY <1>1, <1>3
<1>6. /\ "record" \in AllCommands /\ req[r].pc = "idle"
      /\ UNCHANGED <<state, calls, schedules, memory, rows, issued, runs, billed>>
  BY DEF RecordSwarm, Free, AllCommands
<1> QED
  BY <1>3, <1>4, <1>5, <1>6, RoomFacts, AskInv

LEMMA StartSwarmInv ==
  ASSUME RoomInv, NEW r \in Requests, StartSwarm(r)
  PROVE  RoomInv'
<1> DEFINE x == [NoRequest EXCEPT !.pc = "swarm", !.cmd = "swarm", !.run = runs + 1]
<1>1. runs \in Nat
  BY DEF RoomInv, TypeOK
<1>2. x \in Request /\ x.pc # "seal"
  <2>1. InitialState \in State /\ runs + 1 \in Nat
    BY <1>1, CommanderAssumption DEF InitialState, State
  <2> QED
    BY <2>1 DEF NoRequest, Request, AllCommands
<1>3. /\ req' = [req EXCEPT ![r] = x] /\ req[r].pc = "idle" /\ runs' = runs + 1
      /\ UNCHANGED <<state, calls, schedules, memory, rows, issued, billed, sealVars>>
  BY DEF StartSwarm, Free
<1> HIDE DEF x
<1>4. runs' \in Nat /\ schedules' \in SUBSET Schedules /\ req[r].pc \in {"idle", "mind"}
  BY <1>1, <1>3, RoomFacts
<1> QED
  BY <1>2, <1>3, <1>4, MoveInv

LEMMA MemberCallInv ==
  ASSUME RoomInv, NEW r \in Requests, NEW m \in Members, MemberCall(r, m)
  PROVE  RoomInv'
<1>1. /\ calls' = [calls EXCEPT ![r][m] = "calling"] /\ calls[r][m] = "free"
      /\ req[r].pc = "swarm"
      /\ UNCHANGED <<state, req, schedules, memory, rows, issued, runs, billed, sealVars>>
  BY DEF MemberCall
<1>2. /\ calls \in [Requests -> [Members -> {"free", "calling", "sealing", "sealed"}]]
      /\ req \in [Requests -> Request] /\ runs \in Nat
  BY DEF RoomInv, TypeOK
<1>3. /\ calls' \in [Requests -> [Members -> {"free", "calling", "sealing", "sealed"}]]
      /\ calls'[r][m] = "calling"
      /\ \A q \in Requests, n \in Members : <<q, n>> # <<r, m>> => calls'[q][n] = calls[q][n]
  BY <1>1, <1>2
<1>4. ASSUME NEW q \in Requests, NEW n \in Members
      PROVE  calls'[q][n] = "sealing" <=> calls[q][n] = "sealing"
  <2>1. CASE <<q, n>> = <<r, m>>
    BY <1>1, <1>3, <2>1
  <2>2. CASE <<q, n>> # <<r, m>>
    BY <1>3, <2>2
  <2> QED
    BY <2>1, <2>2
<1>5. CallsOfSwarm'
  <2> SUFFICES ASSUME NEW q \in Requests, Busy(q)'
               PROVE  req'[q].pc \in {"swarm", "failed"}
    BY DEF CallsOfSwarm
  <2>1. CASE q = r
    BY <1>1, <2>1
  <2>2. CASE q # r
    <3>1. PICK n \in Members : calls'[q][n] \in {"calling", "sealing"}
      BY DEF Busy
    <3>2. Busy(q)
      BY <1>3, <2>2, <3>1 DEF Busy
    <3> QED
      BY <1>1, <3>2 DEF RoomInv, CallsOfSwarm
  <2> QED
    BY <2>1, <2>2
<1> QED
  BY <1>1, <1>2, <1>3, <1>4, <1>5, RoomFacts, LocalInv

LEMMA MemberAnsweredInv ==
  ASSUME RoomInv, NEW r \in Requests, NEW m \in Members, MemberAnswered(r, m)
  PROVE  RoomInv'
<1>1. PICK u \in Costs : Seal!Enqueue(<<r, m>>,
        [kind |-> "member", usd |-> u, run |-> req[r].run, cites |-> {}])
  BY DEF MemberAnswered
<1> DEFINE b == [kind |-> "member", usd |-> u, run |-> req[r].run, cites |-> {}]
<1>2. b \in Body
  <2>1. req[r].run \in Nat
    BY DEF RoomInv, TypeOK, Request
  <2> QED
    BY <2>1, CommanderAssumption DEF Body, Kinds
<1>3. SealP!SealInv'
  <2>1. <<r, m>> \in Jobs
    BY JobFacts
  <2>2. Seal!SealNext
    BY <1>1, <1>2, <2>1 DEF Seal!SealNext
  <2> QED
    BY <2>2, SealKept DEF RoomInv
<1>4. /\ seal' = [seal EXCEPT ![<<r, m>>] = Seal!Waiting(b)] /\ UNCHANGED receipts
      /\ Seal!Waiting(b).at = "waiting"
  BY <1>1 DEF Seal!Enqueue, Seal!Waiting
<1>5. /\ calls[r][m] = "calling" /\ calls' = [calls EXCEPT ![r][m] = "sealing"]
      /\ UNCHANGED <<state, req, schedules, memory, rows, issued, runs, billed>>
      /\ req \in [Requests -> Request]
  BY DEF MemberAnswered, RoomInv, TypeOK
<1> QED
  BY <1>3, <1>4, <1>5, MemberSealInv

\* What MemberSealed and MemberSealFailed share.
LEMMA MemberLeaves ==
  ASSUME RoomInv, NEW r \in Requests, NEW m \in Members,
         Seal!Settle(<<r, m>>) \/ Seal!FailSeal(<<r, m>>),
         calls' = [calls EXCEPT ![r][m] = "sealed"],
         req' \in [Requests -> Request], req'[r].pc \in {req[r].pc, "failed"},
         \A q \in Requests : q # r => req'[q] = req[q],
         UNCHANGED <<state, schedules, memory, rows, issued, runs, billed>>
  PROVE  RoomInv'
<1>1. SealP!SealInv'
  <2>1. <<r, m>> \in Jobs
    BY JobFacts
  <2>2. Seal!SealNext
    BY <2>1 DEF Seal!SealNext, Seal!SealStep
  <2> QED
    BY <2>2, SealKept DEF RoomInv
<1>2. /\ seal' = [seal EXCEPT ![<<r, m>>] = Seal!Idle] /\ UNCHANGED receipts
      /\ Seal!Idle.at = "idle" /\ seal[<<r, m>>].at # "idle"
  BY DEF Seal!Settle, Seal!FailSeal, Seal!Idle
<1>3. calls[r][m] = "sealing"
  BY <1>2 DEF RoomInv, TypeOK
<1> QED
  BY <1>1, <1>2, <1>3, MemberSealInv

\* The receipt a settling job has sealed is the last one of the chain.
LEMMA SealedFacts ==
  ASSUME RoomInv, NEW j \in Jobs, seal[j].at = "putting"
  PROVE  /\ Sealed(j) = receipts[Len(receipts)] /\ receipts # << >>
         /\ Sealed(j) \in Seal!Chain!Receipt
         /\ Sealed(j).hash = Seal!Chain!HeadHash(receipts)
<1>1. seal[j].chain = receipts /\ receipts # << >> /\ receipts \in Seq(Seal!Chain!Receipt)
  BY SealFacts DEF RoomInv, PuttingSealed
<1>2. Len(receipts) \in 1..Len(receipts)
  BY <1>1, EmptySeq
<1>3. receipts[Len(receipts)] \in Seal!Chain!Receipt
  BY <1>1, <1>2, ElementOfSeq
<1> QED
  BY <1>1, <1>3 DEF Sealed, Seal!Chain!HeadHash

LEMMA MemberSealedInv ==
  ASSUME RoomInv, NEW r \in Requests, NEW m \in Members,
         MemberSealed(r, m) \/ MemberSealFailed(r, m)
  PROVE  RoomInv'
<1>1. req \in [Requests -> Request]
  BY DEF RoomInv, TypeOK
<1>2. CASE MemberSealed(r, m)
  <2>1. seal[<<r, m>>].at = "putting" /\ <<r, m>> \in Jobs
    BY <1>2, JobFacts DEF MemberSealed, Seal!Settle
  <2>2. Sealed(<<r, m>>).body \in Body /\ Sealed(<<r, m>>).hash \in Nat
    BY <2>1, SealedFacts DEF Seal!Chain!Receipt
  <2>3. Sealed(<<r, m>>).body.usd \in Nat
    BY <2>2 DEF Body
  <2> DEFINE x == [req[r] EXCEPT !.spent = @ + Sealed(<<r, m>>).body.usd,
                                 !.cites = @ \cup {Sealed(<<r, m>>).hash}]
  <2>4. x \in Request /\ x.pc = req[r].pc
    <3>1. req[r] \in Request /\ req[r].spent \in Nat /\ req[r].cites \in SUBSET Nat
      BY <1>1 DEF Request
    <3>2. /\ req[r].spent + Sealed(<<r, m>>).body.usd \in Nat
          /\ req[r].cites \cup {Sealed(<<r, m>>).hash} \in SUBSET Nat
      BY <2>2, <2>3, <3>1
    <3> QED
      BY <3>1, <3>2 DEF Request
  <2>5. req' = [req EXCEPT ![r] = x]
    BY <1>1, <1>2 DEF MemberSealed
  <2> HIDE DEF x
  <2>6. /\ req' \in [Requests -> Request] /\ req'[r].pc = req[r].pc
        /\ \A q \in Requests : q # r => req'[q] = req[q]
    BY <1>1, <2>4, <2>5
  <2> QED
    BY <1>2, <2>6, MemberLeaves DEF MemberSealed
<1>3. CASE MemberSealFailed(r, m)
  <2>1. /\ req' \in [Requests -> Request] /\ req'[r].pc = "failed"
        /\ \A q \in Requests : q # r => req'[q] = req[q]
    BY <1>1, <1>3 DEF MemberSealFailed, Request
  <2> QED
    BY <1>3, <2>1, MemberLeaves DEF MemberSealFailed
<1> QED
  BY <1>2, <1>3

\* What SwarmDone and SwarmOver do with the slots of their swarm.
LEMMA SlotsCleared ==
  ASSUME RoomInv, NEW r \in Requests, ~Busy(r), calls' = [calls EXCEPT ![r] = NoCalls],
         \A q \in Requests : q # r => req'[q] = req[q]
  PROVE  /\ calls' \in [Requests -> [Members -> {"free", "calling", "sealing", "sealed"}]]
         /\ \A q \in Requests, m \in Members :
              calls'[q][m] = "sealing" <=> calls[q][m] = "sealing"
         /\ CallsOfSwarm'
<1>1. /\ calls \in [Requests -> [Members -> {"free", "calling", "sealing", "sealed"}]]
      /\ NoCalls \in [Members -> {"free", "calling", "sealing", "sealed"}]
      /\ \A m \in Members : NoCalls[m] = "free"
  BY DEF RoomInv, TypeOK, NoCalls
<1>2. /\ calls' \in [Requests -> [Members -> {"free", "calling", "sealing", "sealed"}]]
      /\ \A m \in Members : calls'[r][m] = "free"
      /\ \A q \in Requests : q # r => calls'[q] = calls[q]
  BY <1>1
<1>3. ASSUME NEW q \in Requests, NEW m \in Members
      PROVE  calls'[q][m] = "sealing" <=> calls[q][m] = "sealing"
  <2>1. CASE q = r
    <3>1. calls[r][m] # "sealing"
      BY DEF Busy
    <3> QED
      BY <1>2, <2>1, <3>1
  <2>2. CASE q # r
    BY <1>2, <2>2
  <2> QED
    BY <2>1, <2>2
<1>4. CallsOfSwarm'
  <2> SUFFICES ASSUME NEW q \in Requests, Busy(q)'
               PROVE  req'[q].pc \in {"swarm", "failed"}
    BY DEF CallsOfSwarm
  <2>1. PICK n \in Members : calls'[q][n] \in {"calling", "sealing"}
    BY DEF Busy
  <2>2. q # r
    BY <1>2, <2>1
  <2>3. Busy(q)
    BY <1>2, <2>1, <2>2 DEF Busy
  <2> QED
    BY <2>2, <2>3 DEF RoomInv, CallsOfSwarm
<1> QED
  BY <1>2, <1>3, <1>4

LEMMA SwarmDoneInv ==
  ASSUME RoomInv, NEW r \in Requests, SwarmDone(r)
  PROVE  RoomInv'
<1> DEFINE b == RunBody(r)
           s == ApplySpend(state, req[r].spent)
<1>1. /\ req[r].spent \in Nat /\ req[r].run \in Nat /\ req[r].cites \in SUBSET Nat
      /\ state.usd <= billed /\ state.usd \in Nat /\ billed \in Nat
      /\ req \in [Requests -> Request]
  BY StateFacts DEF RoomInv, TypeOK, LedgerNeverOverBills, Request
<1>2. b \in Body /\ b.kind # "member" /\ b.usd = req[r].spent
  BY <1>1 DEF RunBody, Body, Kinds
<1>3. s \in State /\ Paused(s) /\ s.usd = state.usd + req[r].spent
  BY <1>1, RoomFacts, SpendFacts
<1>4. /\ Seal!Enqueue(<<r, Own>>, b) /\ req' = [req EXCEPT ![r] = Sealing("swarm", s)]
      /\ ~Busy(r) /\ calls' = [calls EXCEPT ![r] = NoCalls]
      /\ UNCHANGED <<state, schedules, memory, rows, issued, runs, billed>>
  BY DEF SwarmDone, AskSeal
<1> HIDE DEF b, s
<1>5. "swarm" \in AllCommands /\ Sealing("swarm", s) \in Request
  BY <1>3, RequestFacts DEF AllCommands
<1>6. /\ req' \in [Requests -> Request] /\ req'[r] = Sealing("swarm", s)
      /\ \A q \in Requests : q # r => req'[q] = req[q]
  BY <1>1, <1>4, <1>5
<1>7. s.usd <= billed + b.usd
  BY <1>1, <1>2, <1>3
<1>8. /\ calls' \in [Requests -> [Members -> {"free", "calling", "sealing", "sealed"}]]
      /\ \A q \in Requests, m \in Members :
           calls'[q][m] = "sealing" <=> calls[q][m] = "sealing"
      /\ CallsOfSwarm'
  BY <1>4, <1>6, SlotsCleared
<1> QED
  BY <1>2, <1>3, <1>4, <1>5, <1>6, <1>7, <1>8, RoomFacts, AskSealInv

LEMMA SwarmOverInv ==
  ASSUME RoomInv, NEW r \in Requests, SwarmOver(r)
  PROVE  RoomInv'
<1>1. /\ req' = [req EXCEPT ![r] = NoRequest] /\ req[r].pc = "failed"
      /\ ~Busy(r) /\ calls' = [calls EXCEPT ![r] = NoCalls]
      /\ UNCHANGED <<state, schedules, memory, rows, issued, runs, billed, sealVars>>
  BY DEF SwarmOver
<1>2. /\ req \in [Requests -> Request] /\ runs \in Nat
      /\ NoRequest \in Request /\ NoRequest.pc = "idle"
  BY RequestFacts, RoomFacts DEF RoomInv, TypeOK, AllCommands
<1>3. /\ req' \in [Requests -> Request] /\ req'[r].pc = "idle"
      /\ \A q \in Requests : q # r => req'[q] = req[q]
  BY <1>1, <1>2
<1>4. /\ calls' \in [Requests -> [Members -> {"free", "calling", "sealing", "sealed"}]]
      /\ \A q \in Requests, m \in Members :
           calls'[q][m] = "sealing" <=> calls[q][m] = "sealing"
      /\ CallsOfSwarm'
  BY <1>1, <1>3, SlotsCleared
<1>5. \A q \in Requests : (req'[q].pc = "seal" \/ req[q].pc = "seal") => req'[q] = req[q]
  BY <1>1, <1>3
<1>6. runs' \in Nat /\ schedules' \in SUBSET Schedules
  BY <1>1, <1>2, RoomFacts
<1> QED
  BY <1>1, <1>3, <1>4, <1>5, <1>6, LocalInv
-----------------------------------------------------------------------------
(* Commits *)

\* What a commit writes is a state, is paused if held, and owes nothing.
LEMMA CommittedFacts ==
  ASSUME RoomInv, NEW r \in Requests, req[r].pc = "seal", seal[<<r, Own>>].at = "putting"
  PROVE  /\ Committed(r) \in State /\ Paused(Committed(r)) /\ Committed(r).usd <= billed
<1> DEFINE s == req[r].next
<1>1. /\ state \in State /\ Paused(state) /\ state.usd <= billed /\ billed \in Nat
      /\ state.turns \in Nat /\ state.swarms \in Nat
  BY StateFacts, RoomFacts DEF RoomInv, LedgerNeverOverBills, TypeOK
<1>2. s \in State /\ s.turns \in Nat /\ s.memory_notes \in Nat
  <2>1. s \in State
    BY DEF RoomInv, TypeOK, Request
  <2> QED
    BY <2>1, StateFacts
<1>3. Paused(s) /\ s.usd <= billed
  <2>1. s.usd <= billed + 0
    BY DEF RoomInv, NextIsBilled
  <2> QED
    BY <1>1, <1>2, <2>1, StateFacts DEF RoomInv, NextIsPaused
<1> HIDE DEF s
<1>4. LET t == [s EXCEPT !.turns = @ + 1] IN t \in State /\ Paused(t) /\ t.usd <= billed
  BY <1>2, <1>3 DEF State, Paused
<1>5. LET t == [s EXCEPT !.swarms = state.swarms + 1] IN
      t \in State /\ Paused(t) /\ t.usd <= billed
  BY <1>1, <1>2, <1>3 DEF State, Paused
<1>6. LET t == [state EXCEPT !.turns = @ + 1] IN t \in State /\ Paused(t) /\ t.usd <= billed
  BY <1>1 DEF State, Paused
<1>7. LET t == [state EXCEPT !.swarms = @ + 1] IN t \in State /\ Paused(t) /\ t.usd <= billed
  BY <1>1 DEF State, Paused
<1>8. LET t == [state EXCEPT !.memory_notes = s.memory_notes] IN
      t \in State /\ Paused(t) /\ t.usd <= billed
  BY <1>1, <1>2 DEF State, Paused
<1> QED
  BY <1>1, <1>2, <1>3, <1>4, <1>5, <1>6, <1>7, <1>8 DEF Committed, s

LEMMA CommitInv ==
  ASSUME RoomInv, NEW r \in Requests, Commit(r)
  PROVE  RoomInv' /\ state'.head >= state.head
<1>1. /\ seal[<<r, Own>>].at = "putting" /\ <<r, Own>> \in Jobs
      /\ seal' = [seal EXCEPT ![<<r, Own>>] = Seal!Idle] /\ UNCHANGED receipts
  BY JobFacts DEF Commit, Seal!Settle
<1>2. SealP!SealInv'
  <2>1. Seal!SealNext
    BY <1>1 DEF Commit, Seal!SealNext, Seal!SealStep
  <2> QED
    BY <2>1, SealKept DEF RoomInv
<1>3. req[r].pc = "seal"
  BY <1>1 DEF RoomInv, TypeOK
<1> DEFINE h == Sealed(<<r, Own>>).hash
<1>4. h = Seal!Chain!HeadHash(receipts) /\ h \in Nat
  BY <1>1, SealedFacts DEF Seal!Chain!Receipt
<1>5. /\ state' = [Committed(r) EXCEPT !.head = h]
      /\ req' = [req EXCEPT ![r] = NoRequest]
      /\ rows' = rows \cup NewRows(r, h)
      /\ UNCHANGED <<calls, schedules, memory, issued, runs, billed>>
  BY DEF Commit
<1> HIDE DEF h
<1>6. /\ state' \in State /\ Paused(state') /\ state'.usd <= billed /\ state'.head = h
  <2>1. Committed(r) \in State /\ Paused(Committed(r)) /\ Committed(r).usd <= billed
    BY <1>1, <1>3, CommittedFacts
  <2> QED
    BY <1>4, <1>5, <2>1 DEF State, Paused
<1>7. HeldMeansPaused' /\ LedgerNeverOverBills'
  BY <1>5, <1>6 DEF HeldMeansPaused, LedgerNeverOverBills, Paused
<1>8. HeadOnChain'
  <2>1. Seal!Chain!HeadHash(receipts') = h
    BY <1>1, <1>4 DEF Seal!Chain!HeadHash
  <2> QED
    BY <1>4, <1>6, <2>1 DEF HeadOnChain, Seal!Chain!HeadHash
<1>9. rows' \in SUBSET [table : {"turns", "swarms"}, receipt : Nat]
  <2>1. rows \in SUBSET [table : {"turns", "swarms"}, receipt : Nat]
    BY DEF RoomInv, TypeOK
  <2>2. NewRows(r, h) \in SUBSET [table : {"turns", "swarms"}, receipt : Nat]
    BY <1>4 DEF NewRows
  <2> QED
    BY <1>5, <2>1, <2>2
<1>10. state'.head >= state.head
  BY <1>4, <1>6, StateFacts DEF RoomInv, HeadOnChain, TypeOK
<1> QED
  BY <1>1, <1>2, <1>5, <1>6, <1>7, <1>8, <1>9, <1>10, OwnLeaves DEF Seal!Idle

LEMMA SealFailedInv ==
  ASSUME RoomInv, NEW r \in Requests, SealFailed(r)
  PROVE  RoomInv'
<1>1. /\ seal[<<r, Own>>].at = "hashing" /\ <<r, Own>> \in Jobs
      /\ seal' = [seal EXCEPT ![<<r, Own>>] = Seal!Idle] /\ UNCHANGED receipts
  BY JobFacts DEF SealFailed, Seal!FailSeal
<1>2. SealP!SealInv'
  <2>1. Seal!SealNext
    BY <1>1 DEF SealFailed, Seal!SealNext, Seal!SealStep
  <2> QED
    BY <2>1, SealKept DEF RoomInv
<1>3. /\ req' = [req EXCEPT ![r] = NoRequest]
      /\ UNCHANGED <<state, calls, schedules, memory, rows, issued, runs, billed>>
  BY DEF SealFailed
<1>4. HeldMeansPaused' /\ LedgerNeverOverBills' /\ HeadOnChain'
  BY <1>1, <1>3 DEF RoomInv, HeldMeansPaused, LedgerNeverOverBills, HeadOnChain,
     Seal!Chain!HeadHash
<1>5. /\ state' \in State /\ rows' \in SUBSET [table : {"turns", "swarms"}, receipt : Nat]
  BY <1>3 DEF RoomInv, TypeOK
<1> QED
  BY <1>1, <1>2, <1>3, <1>4, <1>5, OwnLeaves

LEMMA RowFailsInv ==
  ASSUME RoomInv, NEW r \in Requests, RowFails(r)
  PROVE  RoomInv'
<1>1. /\ seal[<<r, Own>>].at = "putting" /\ <<r, Own>> \in Jobs
      /\ seal' = [seal EXCEPT ![<<r, Own>>] = Seal!Idle] /\ UNCHANGED receipts
  BY JobFacts DEF RowFails, Seal!Settle
<1>2. SealP!SealInv'
  <2>1. Seal!SealNext
    BY <1>1 DEF RowFails, Seal!SealNext, Seal!SealStep
  <2> QED
    BY <2>1, SealKept DEF RoomInv
<1>3. /\ req' = [req EXCEPT ![r] = NoRequest]
      /\ UNCHANGED <<state, calls, schedules, memory, rows, issued, runs, billed>>
  BY DEF RowFails
<1>4. HeldMeansPaused' /\ LedgerNeverOverBills' /\ HeadOnChain'
  BY <1>1, <1>3 DEF RoomInv, HeldMeansPaused, LedgerNeverOverBills, HeadOnChain,
     Seal!Chain!HeadHash
<1>5. /\ state' \in State /\ rows' \in SUBSET [table : {"turns", "swarms"}, receipt : Nat]
  BY <1>3 DEF RoomInv, TypeOK
<1> QED
  BY <1>1, <1>2, <1>3, <1>4, <1>5, OwnLeaves
-----------------------------------------------------------------------------
(* The theorems *)

LEMMA NextInv == RoomInv /\ [Next]_vars => RoomInv'
<1> SUFFICES ASSUME RoomInv, [Next]_vars PROVE RoomInv'
  OBVIOUS
<1>1. ASSUME NEW r \in Requests, Receive(r) PROVE RoomInv'
  BY <1>1, MindInv, RoleInv, KillInv, SettingInv, RecordInv, StartSwarmInv DEF Receive
<1>2. ASSUME NEW r \in Requests, Proceed(r) PROVE RoomInv'
  BY <1>2, MindInv, SwarmDoneInv, SwarmOverInv, CommitInv, RowFailsInv, SealFailedInv,
     MemberCallInv, MemberAnsweredInv, MemberSealedInv DEF Proceed
<1>3. ASSUME NEW j \in Jobs, ReadChain(j) \/ InsertReceipt(j) PROVE RoomInv'
  BY <1>3, ReadChainInv, InsertReceiptInv
<1>4. CASE Restart
  BY <1>4, RestartInv
<1>5. CASE UNCHANGED vars
  <2>1. CallsOfSwarm' /\ TypeOK
    BY <1>5 DEF RoomInv, CallsOfSwarm, Busy, vars, roomVars
  <2> QED
    BY <1>5, <2>1, LocalInv DEF TypeOK, vars, roomVars
<1> QED
  BY <1>1, <1>2, <1>3, <1>4, <1>5 DEF Next

\* The inductive invariant holds in every state of the room.
THEOREM RoomInvariant == Spec => []RoomInv
BY InitInv, NextInv, PTL DEF Spec

\* Every variable keeps its type, and a handler waits for a receipt exactly
\* while its seal() is pending.
THEOREM RoomTypeCorrect == Spec => []TypeOK
<1>1. RoomInv => TypeOK
  BY DEF RoomInv
<1> QED
  BY <1>1, RoomInvariant, PTL

\* A held room is paused, however many handlers commit states they captured
\* before other handlers committed theirs.
THEOREM RoomHeldMeansPaused == Spec => []HeldMeansPaused
<1>1. RoomInv => HeldMeansPaused
  BY DEF RoomInv
<1> QED
  BY <1>1, RoomInvariant, PTL

\* The ledger never shows more than the sealed receipts bill.
THEOREM RoomLedgerNeverOverBills == Spec => []LedgerNeverOverBills
<1>1. RoomInv => LedgerNeverOverBills
  BY DEF RoomInv
<1> QED
  BY <1>1, RoomInvariant, PTL

\* No step moves the head of the room back along its chain.
THEOREM RoomHeadNeverRegresses == Spec => HeadNeverRegresses
<1>1. RoomInv /\ [Next]_vars => [state'.head >= state.head]_vars
  <2> SUFFICES ASSUME RoomInv, Next PROVE state'.head >= state.head
    BY DEF vars
  <2>1. state.head \in Nat
    BY StateFacts DEF RoomInv, TypeOK
  <2>2. ASSUME NEW r \in Requests, Receive(r) PROVE UNCHANGED state
    BY <2>2 DEF Receive, Think, HolderTurn, Handoff, Release, Kill, Revive, SetMode, SetCap,
       Schedule, Cancel, Remember, RecordSwarm, StartSwarm, Fire
  <2>3. ASSUME NEW r \in Requests, Proceed(r) PROVE UNCHANGED state \/ Commit(r)
    BY <2>3 DEF Proceed, MindAnswered, MindRefused, SwarmDone, SwarmOver, RowFails,
       SealFailed, MemberCall, MemberAnswered, MemberSealed, MemberSealFailed
  <2>4. ASSUME NEW j \in Jobs, ReadChain(j) \/ InsertReceipt(j) PROVE UNCHANGED state
    BY <2>4 DEF ReadChain, InsertReceipt, roomVars
  <2>5. CASE Restart
    BY <2>1, <2>5 DEF Restart
  <2> QED
    BY <2>1, <2>2, <2>3, <2>4, <2>5, CommitInv DEF Next
<1> QED
  BY <1>1, RoomInvariant, PTL DEF Spec, HeadNeverRegresses

\* The bodies of the receipts that bill something.
LEMMA BillFacts ==
  ASSUME RoomInv, NEW r \in Requests
  PROVE  /\ \A u \in Costs : /\ [Plain("turn") EXCEPT !.usd = u] \in Body
                             /\ [Plain("run") EXCEPT !.usd = u] \in Body
                             /\ [kind |-> "member", usd |-> u, run |-> req[r].run, cites |-> {}]
                                  \in Body
         /\ RunBody(r) \in Body
<1>1. /\ req[r].spent \in Nat /\ req[r].run \in Nat /\ req[r].cites \in SUBSET Nat
  BY DEF RoomInv, TypeOK, Request
<1>2. ASSUME NEW u \in Costs
      PROVE  /\ [Plain("turn") EXCEPT !.usd = u] \in Body
             /\ [Plain("run") EXCEPT !.usd = u] \in Body
  BY CommanderAssumption, PlainFacts DEF Kinds
<1>3. ASSUME NEW u \in Costs
      PROVE  [kind |-> "member", usd |-> u, run |-> req[r].run, cites |-> {}] \in Body
  BY <1>1, CommanderAssumption DEF Body, Kinds
<1>4. RunBody(r) \in Body
  BY <1>1 DEF RunBody, Body, Kinds
<1> QED
  BY <1>2, <1>3, <1>4

\* Every step of the room is a step of its seal queue or leaves it alone.
THEOREM RoomImplementsSealQueue == Spec => ImplementsSealQueue
<1>1. Init => Seal!SealInit
  BY DEF Init
<1>2. RoomInv /\ [Next]_vars => [Seal!SealNext]_Seal!sealVars
  <2> SUFFICES ASSUME RoomInv, [Next]_vars PROVE Seal!SealNext \/ UNCHANGED sealVars
    BY DEF Seal!sealVars, sealVars
  <2>1. ASSUME NEW r \in Requests, NEW b \in Body, Seal!Enqueue(<<r, Own>>, b)
        PROVE  Seal!SealNext
    BY <2>1, JobFacts DEF Seal!SealNext
  <2>2. \A k \in Kinds : Plain(k) \in Body
    BY PlainFacts
  <2>3. ASSUME NEW r \in Requests, Receive(r) PROVE Seal!SealNext \/ UNCHANGED sealVars
    <3>1. CASE Think(r) \/ StartSwarm(r)
      BY <3>1 DEF Think, StartSwarm
    <3>2. CASE HolderTurn(r) \/ Handoff(r) \/ Release(r) \/ Kill(r) \/ Revive(r)
      BY <2>1, <2>2, <3>2 DEF HolderTurn, Handoff, Release, Kill, Revive, AskSeal, Kinds
    <3>3. CASE SetMode(r) \/ SetCap(r) \/ Schedule(r) \/ Cancel(r) \/ Remember(r)
      BY <2>1, <2>2, <3>3 DEF SetMode, SetCap, Schedule, Cancel, Remember, AskSeal, Kinds
    <3>4. CASE RecordSwarm(r)
      BY <2>1, <3>4, BillFacts DEF RecordSwarm, AskSeal
    <3>5. CASE Fire(r)
      BY <2>1, <2>2, <3>5 DEF Fire, AskSeal, Kinds
    <3> QED
      BY <2>3, <3>1, <3>2, <3>3, <3>4, <3>5 DEF Receive
  <2>4. ASSUME NEW r \in Requests, Proceed(r) PROVE Seal!SealNext \/ UNCHANGED sealVars
    <3>1. CASE MindRefused(r) \/ SwarmOver(r) \/ \E m \in Members : MemberCall(r, m)
      BY <3>1 DEF MindRefused, SwarmOver, MemberCall
    <3>2. CASE MindAnswered(r)
      BY <2>1, <3>2, BillFacts DEF MindAnswered, AskSeal
    <3>3. CASE SwarmDone(r)
      BY <2>1, <3>3, BillFacts DEF SwarmDone, AskSeal
    <3>4. CASE Commit(r) \/ RowFails(r) \/ SealFailed(r)
      BY <3>4, JobFacts DEF Commit, RowFails, SealFailed, Seal!SealNext,
         Seal!SealStep
    <3>5. ASSUME NEW m \in Members, MemberAnswered(r, m) PROVE Seal!SealNext
      BY <3>5, JobFacts, BillFacts DEF MemberAnswered, Seal!SealNext
    <3>6. ASSUME NEW m \in Members, MemberSealed(r, m) \/ MemberSealFailed(r, m)
          PROVE  Seal!SealNext
      BY <3>6, JobFacts DEF MemberSealed, MemberSealFailed, Seal!SealNext, Seal!SealStep
    <3> QED
      BY <2>4, <3>1, <3>2, <3>3, <3>4, <3>5, <3>6 DEF Proceed
  <2>5. ASSUME NEW j \in Jobs, ReadChain(j) \/ InsertReceipt(j) PROVE Seal!SealNext
    BY <2>5 DEF ReadChain, InsertReceipt, Seal!SealNext, Seal!SealStep
  <2>6. CASE Restart
    BY <2>6 DEF Restart, Seal!SealNext
  <2>7. CASE UNCHANGED vars
    BY <2>7 DEF vars
  <2> QED
    BY <2>3, <2>4, <2>5, <2>6, <2>7 DEF Next
<1> QED
  BY <1>1, <1>2, RoomInvariant, PTL DEF Spec, ImplementsSealQueue, Seal!SealSpec

\* ... so the room's receipts form an append-only edge chain.
THEOREM RoomImplementsEdgeChain == Spec => ImplementsEdgeChain
<1>1. Seal!SealInit => SealP!SealInit
  BY SealInitSame
<1>2. [Seal!SealNext]_Seal!sealVars => [SealP!SealNext]_SealP!sealVars
  BY SealNextSame DEF Seal!sealVars, sealVars
<1>3. SealP!Chain!Init => Seal!Chain!Init
  BY DEF SealP!Chain!Init, Seal!Chain!Init
<1>4. [SealP!Chain!Next]_receipts => [Seal!Chain!Next]_receipts
  BY SealOps DEF SealP!Chain!Next, Seal!Chain!Next, SealP!Chain!AppendReceipt,
     Seal!Chain!AppendReceipt, SealP!Chain!HeadHash, Seal!Chain!HeadHash,
     SealP!Chain!Genesis, Seal!Chain!Genesis
<1> QED
  BY <1>1, <1>2, <1>3, <1>4, RoomImplementsSealQueue, SealP!SealImplementsEdgeChain, PTL
  DEF ImplementsSealQueue, Seal!SealSpec, SealP!SealSpec, SealP!ImplementsEdgeChain,
      SealP!Chain!Spec, ImplementsEdgeChain, Seal!Chain!Spec

-----------------------------------------------------------------------------
(* What a swarm's receipt cites *)

\* The hashes of the member receipts of run n.
Cited(rs, n) ==
  {rs[k].hash : k \in {l \in 1..Len(rs) : rs[l].body.kind = "member" /\ rs[l].body.run = n}}

Live(r) == req[r].pc \in {"swarm", "failed"}

\* A run that was drawn and whose swarm has summed up or is gone.
Over(n) == n \in 1..runs /\ \A r \in Requests : Live(r) => req[r].run # n

Pending(j) == seal[j].at \in {"waiting", "hashing"}

\* Receipts of r's members that are in the chain but not yet recorded.
Inserted(r) == {Sealed(<<r, m>>).hash : m \in {x \in Members : seal[<<r, x>>].at = "putting"}}

RunsApart ==
  /\ \A r \in Requests : Live(r) => req[r].run \in 1..runs
  /\ \A r, q \in Requests : Live(r) /\ Live(q) /\ req[r].run = req[q].run => r = q

MemberBodies ==
  \A r \in Requests, m \in Members : Pending(<<r, m>>) =>
    Live(r) /\ seal[<<r, m>>].body.kind = "member" /\ seal[<<r, m>>].body.run = req[r].run

\* A swarm under way has counted every member receipt of its run but those inserted.
SwarmCounts ==
  \A r \in Requests : req[r].pc = "swarm" =>
    Cited(receipts, req[r].run) = req[r].cites \cup Inserted(r)

\* The body of a run is of a run that is over, and cites its members.
Summed(b) ==
  b.kind = "run" /\ b.run # 0 => Over(b.run) /\ b.cites = Cited(receipts, b.run)

RunBodies ==
  \A r \in Requests : Pending(<<r, Own>>) =>
    seal[<<r, Own>>].body.run \in 0..runs /\ Summed(seal[<<r, Own>>].body)

RunReceipts ==
  \A i \in 1..Len(receipts) : receipts[i].body.run \in 0..runs /\ Summed(receipts[i].body)

CiteInv == RunsApart /\ MemberBodies /\ SwarmCounts /\ RunBodies /\ RunReceipts

LEMMA InitCites == Init => CiteInv
<1> SUFFICES ASSUME Init PROVE CiteInv
  OBVIOUS
<1>1. /\ \A r \in Requests : req[r].pc = "idle"
      /\ \A j \in Jobs : seal[j].at = "idle"
      /\ receipts = << >>
  BY DEF Init, Seal!SealInit, Seal!Idle, NoRequest
<1>2. \A r \in Requests : ~Live(r)
  BY <1>1 DEF Live
<1>3. \A j \in Jobs : ~Pending(j)
  BY <1>1 DEF Pending
<1> QED
  BY <1>1, <1>2, <1>3, JobFacts DEF CiteInv, RunsApart, MemberBodies, SwarmCounts, RunBodies,
     RunReceipts

\* Steps that insert no receipt and start no run: whoever is live was so with the same
\* run, and a swarm's count and its inserted receipts are together what they were.
LEMMA CitesKept ==
  ASSUME CiteInv, receipts' = receipts, runs' = runs,
         \A r \in Requests : Live(r)' => Live(r) /\ req'[r].run = req[r].run,
         \A r \in Requests : req'[r].pc = "swarm" =>
           /\ req[r].pc = "swarm" /\ req'[r].run = req[r].run
           /\ req'[r].cites \cup Inserted(r)' = req[r].cites \cup Inserted(r),
         MemberBodies',
         \A r \in Requests : Pending(<<r, Own>>)' =>
           \/ Pending(<<r, Own>>) /\ seal'[<<r, Own>>].body = seal[<<r, Own>>].body
           \/ seal'[<<r, Own>>].body.run \in 0..runs /\ Summed(seal[<<r, Own>>].body)'
  PROVE  CiteInv'
<1>1. \A n : Over(n) => Over(n)'
  BY DEF Over
<1>2. \A b : Summed(b) => (b.kind = "run" /\ b.run # 0 => Over(b.run)' /\ b.cites = Cited(receipts', b.run))
  BY <1>1 DEF Summed
<1>3. RunsApart'
  BY DEF CiteInv, RunsApart
<1>4. SwarmCounts'
  BY DEF CiteInv, SwarmCounts
<1>5. RunBodies'
  <2> SUFFICES ASSUME NEW r \in Requests, Pending(<<r, Own>>)'
               PROVE  seal'[<<r, Own>>].body.run \in 0..runs /\ Summed(seal[<<r, Own>>].body)'
    BY JobFacts DEF RunBodies
  <2>1. CASE Pending(<<r, Own>>) /\ seal'[<<r, Own>>].body = seal[<<r, Own>>].body
    <3>1. seal[<<r, Own>>].body.run \in 0..runs /\ Summed(seal[<<r, Own>>].body)
      BY <2>1 DEF CiteInv, RunBodies
    <3> QED
      BY <1>2, <2>1, <3>1, JobFacts DEF Summed
  <2> QED
    BY <2>1
<1>6. RunReceipts'
  BY <1>2 DEF CiteInv, RunReceipts, Summed
<1> QED
  BY <1>3, <1>4, <1>5, <1>6 DEF CiteInv

LEMMA InsertedSame ==
  ASSUME NEW r \in Requests, \A m \in Members : seal'[<<r, m>>] = seal[<<r, m>>]
  PROVE  Inserted(r)' = Inserted(r)
<1>1. {x \in Members : seal'[<<r, x>>].at = "putting"} = {x \in Members : seal[<<r, x>>].at = "putting"}
  OBVIOUS
<1>2. \A m \in Members : Sealed(<<r, m>>)' = Sealed(<<r, m>>)
  BY DEF Sealed
<1>3. \A v : v \in Inserted(r)' <=> v \in Inserted(r)
  BY <1>1, <1>2 DEF Inserted
<1> QED
  BY <1>3 DEF Inserted

\* Without a busy call none of a request's members has a seal under way.
LEMMA RestFacts ==
  ASSUME RoomInv, NEW r \in Requests, ~Busy(r)
  PROVE  (\A m \in Members : seal[<<r, m>>].at = "idle") /\ Inserted(r) = {}
<1>1. \A m \in Members : seal[<<r, m>>].at = "idle"
  BY DEF RoomInv, TypeOK, Busy
<1> QED
  BY <1>1 DEF Inserted

\* A handler asks for its own receipt; if it is a swarm's, the swarm has summed up.
LEMMA AskCites ==
  ASSUME RoomInv, CiteInv, NEW r \in Requests, NEW b, Seal!Enqueue(<<r, Own>>, b), ~Busy(r),
         runs' = runs, req'[r].pc = "seal",
         \A q \in Requests : q # r =>
           req'[q].pc = req[q].pc /\ req'[q].run = req[q].run /\ req'[q].cites = req[q].cites,
         \/ b.run = 0
         \/ req[r].pc = "swarm" /\ b.run = req[r].run /\ b.cites = req[r].cites
  PROVE  CiteInv'
<1>1. /\ seal' = [seal EXCEPT ![<<r, Own>>] = Seal!Waiting(b)] /\ receipts' = receipts
      /\ Seal!Waiting(b).at = "waiting" /\ Seal!Waiting(b).body = b
  BY DEF Seal!Enqueue, Seal!Waiting
<1>2. /\ seal'[<<r, Own>>] = Seal!Waiting(b)
      /\ \A k \in Jobs : k # <<r, Own>> => seal'[k] = seal[k]
  BY <1>1, SealFacts, SealAt, JobFacts DEF RoomInv
<1>3. /\ \A q \in Requests, m \in Members : seal'[<<q, m>>] = seal[<<q, m>>]
      /\ \A q \in Requests : q # r => seal'[<<q, Own>>] = seal[<<q, Own>>]
  BY <1>2, JobFacts
<1>4. \A q \in Requests : Live(q)' => q # r /\ Live(q) /\ req'[q].run = req[q].run
  BY DEF Live
<1>5. \A q \in Requests : Inserted(q)' = Inserted(q)
  BY <1>3, InsertedSame
<1>6. MemberBodies'
  <2> SUFFICES ASSUME NEW q \in Requests, NEW m \in Members, Pending(<<q, m>>)'
               PROVE  /\ Live(q)' /\ seal'[<<q, m>>].body.kind = "member"
                      /\ seal'[<<q, m>>].body.run = req'[q].run
    BY DEF MemberBodies
  <2>1. Pending(<<q, m>>) /\ seal'[<<q, m>>] = seal[<<q, m>>]
    BY <1>3 DEF Pending
  <2>2. /\ Live(q) /\ seal[<<q, m>>].body.kind = "member"
        /\ seal[<<q, m>>].body.run = req[q].run
    BY <2>1 DEF CiteInv, MemberBodies
  <2>3. q # r
    BY <2>1, RestFacts DEF Pending
  <2> QED
    BY <2>1, <2>2, <2>3 DEF Live
<1>7. ASSUME NEW q \in Requests, Pending(<<q, Own>>)'
      PROVE  \/ Pending(<<q, Own>>) /\ seal'[<<q, Own>>].body = seal[<<q, Own>>].body
             \/ seal'[<<q, Own>>].body.run \in 0..runs /\ Summed(seal[<<q, Own>>].body)'
  <2>1. CASE q # r
    <3>1. seal'[<<q, Own>>] = seal[<<q, Own>>]
      BY <1>3, <2>1
    <3> QED
      BY <1>7, <3>1, JobFacts DEF Pending
  <2>2. CASE q = r
    <3>1. seal'[<<q, Own>>].body = b
      BY <1>1, <1>2, <2>2
    <3>2. ASSUME b.kind = "run", b.run # 0
          PROVE  Over(b.run)' /\ b.cites = Cited(receipts', b.run)
      <4>1. /\ req[r].pc = "swarm" /\ b.run = req[r].run /\ b.cites = req[r].cites
            /\ Live(r)
        BY <3>2 DEF Live
      <4>2. Over(b.run)'
        BY <1>4, <4>1 DEF Over, CiteInv, RunsApart
      <4>3. Inserted(r) = {}
        BY RestFacts
      <4>4. Cited(receipts, req[r].run) = req[r].cites \cup Inserted(r)
        BY <4>1 DEF CiteInv, SwarmCounts
      <4> QED
        BY <1>1, <4>1, <4>2, <4>3, <4>4
    <3>3. b.run \in 0..runs
      <4>1. runs \in Nat
        BY DEF RoomInv, TypeOK
      <4>2. CASE req[r].pc = "swarm" /\ b.run = req[r].run
        BY <4>1, <4>2 DEF CiteInv, RunsApart, Live
      <4> QED
        BY <4>1, <4>2
    <3> QED
      BY <3>1, <3>2, <3>3, JobFacts DEF Summed
  <2> QED
    BY <2>1, <2>2
<1>8. \A q \in Requests : req'[q].pc = "swarm" =>
        /\ req[q].pc = "swarm" /\ req'[q].run = req[q].run
        /\ req'[q].cites \cup Inserted(q)' = req[q].cites \cup Inserted(q)
  BY <1>5
<1> QED
  BY <1>1, <1>4, <1>6, <1>7, <1>8, CitesKept

\* The seals do not move; whoever ceases to be live has no call under way.
LEMMA StillCites ==
  ASSUME RoomInv, CiteInv, UNCHANGED <<sealVars, runs>>,
         \A q \in Requests : Live(q)' => req'[q] = req[q],
         \A q \in Requests : Live(q) => Live(q)' \/ ~Busy(q)
  PROVE  CiteInv'
<1>1. \A q \in Requests : Live(q)' => Live(q) /\ req'[q].run = req[q].run
  BY DEF Live
<1>2. \A q \in Requests : Inserted(q)' = Inserted(q)
  BY DEF Inserted, Sealed, sealVars
<1>3. MemberBodies'
  <2> SUFFICES ASSUME NEW q \in Requests, NEW m \in Members, Pending(<<q, m>>)
               PROVE  /\ Live(q)' /\ seal[<<q, m>>].body.kind = "member"
                      /\ seal[<<q, m>>].body.run = req'[q].run
    BY DEF MemberBodies, Pending, sealVars
  <2>1. /\ Live(q) /\ seal[<<q, m>>].body.kind = "member"
        /\ seal[<<q, m>>].body.run = req[q].run
    BY DEF CiteInv, MemberBodies
  <2>2. Busy(q)
    <3>1. ~Busy(q) => seal[<<q, m>>].at = "idle"
      BY RestFacts
    <3> QED
      BY <3>1 DEF Pending
  <2> QED
    BY <2>1, <2>2
<1>4. \A q \in Requests : req'[q].pc = "swarm" =>
        /\ req[q].pc = "swarm" /\ req'[q].run = req[q].run
        /\ req'[q].cites \cup Inserted(q)' = req[q].cites \cup Inserted(q)
  BY <1>2 DEF Live
<1>5. \A q \in Requests : Pending(<<q, Own>>)' =>
        Pending(<<q, Own>>) /\ seal'[<<q, Own>>].body = seal[<<q, Own>>].body
  BY JobFacts DEF Pending, sealVars
<1> QED
  BY <1>1, <1>3, <1>4, <1>5, CitesKept DEF sealVars

\* A swarm starts with the next run number, which no receipt and nobody has.
LEMMA StartCites == ASSUME RoomInv, CiteInv, NEW r \in Requests, StartSwarm(r) PROVE CiteInv'
<1> USE DEF CiteInv
<1>1. /\ runs \in Nat /\ req \in [Requests -> Request] /\ req[r].pc = "idle"
      /\ runs' = runs + 1
      /\ UNCHANGED <<calls, sealVars>>
      /\ req' = [req EXCEPT ![r] = [NoRequest EXCEPT !.pc = "swarm", !.cmd = "swarm",
                                                     !.run = runs + 1]]
  BY DEF StartSwarm, Free, RoomInv, TypeOK
<1>2. /\ req'[r].pc = "swarm" /\ req'[r].run = runs + 1 /\ req'[r].cites = {}
      /\ \A q \in Requests : q # r => req'[q] = req[q]
  BY <1>1 DEF NoRequest
<1>3. \A q \in Requests : Live(q)' => q = r \/ (Live(q) /\ req'[q].run = req[q].run)
  BY <1>2 DEF Live
<1>4. \A n : Over(n) => Over(n)'
  BY <1>1, <1>2 DEF Over, Live
<1>5. RunsApart'
  <2>1. ASSUME NEW q \in Requests, Live(q)' PROVE req'[q].run \in 1..runs'
    BY <1>1, <1>2, <1>3, <2>1 DEF RunsApart
  <2>2. ASSUME NEW q \in Requests, Live(q)', q # r PROVE req'[q].run # runs + 1
    BY <1>1, <1>3, <2>2 DEF RunsApart
  <2>3. ASSUME NEW p \in Requests, NEW q \in Requests, Live(p)', Live(q)',
               req'[p].run = req'[q].run
        PROVE  p = q
    <3>1. CASE p = r \/ q = r
      BY <1>2, <2>2, <2>3, <3>1
    <3>2. CASE p # r /\ q # r
      BY <1>3, <2>3, <3>2 DEF RunsApart
    <3> QED
      BY <3>1, <3>2
  <2> QED
    BY <2>1, <2>3 DEF RunsApart
<1>6. ~Busy(r) /\ Inserted(r) = {} /\ \A q \in Requests : Inserted(q)' = Inserted(q)
  BY <1>1, IdleFacts, RestFacts, InsertedSame DEF sealVars
<1>7. MemberBodies'
  <2> SUFFICES ASSUME NEW q \in Requests, NEW m \in Members, Pending(<<q, m>>)
               PROVE  /\ Live(q)' /\ seal[<<q, m>>].body.kind = "member"
                      /\ seal[<<q, m>>].body.run = req'[q].run
    BY <1>1 DEF MemberBodies, Pending, sealVars
  <2>1. q # r
    BY <1>6, RestFacts DEF Pending
  <2> QED
    BY <1>2, <2>1 DEF MemberBodies, Live
<1>8. SwarmCounts'
  <2> SUFFICES ASSUME NEW q \in Requests, req'[q].pc = "swarm"
               PROVE  Cited(receipts, req'[q].run) = req'[q].cites \cup Inserted(q)
    BY <1>1, <1>6 DEF SwarmCounts, sealVars
  <2>1. CASE q = r
    <3>1. \A l \in 1..Len(receipts) : receipts[l].body.run # runs + 1
      BY <1>1 DEF RunReceipts
    <3>2. Cited(receipts, runs + 1) = {}
      BY <3>1 DEF Cited
    <3> QED
      BY <1>2, <1>6, <2>1, <3>2
  <2>2. CASE q # r
    BY <1>2, <2>2 DEF SwarmCounts
  <2> QED
    BY <2>1, <2>2
<1>9. \A b : Summed(b) => (b.kind = "run" /\ b.run # 0 => Over(b.run)' /\ b.cites = Cited(receipts, b.run))
  BY <1>4 DEF Summed
<1>10. RunBodies'
  <2> SUFFICES ASSUME NEW q \in Requests, Pending(<<q, Own>>)
               PROVE  seal[<<q, Own>>].body.run \in 0..runs' /\ Summed(seal[<<q, Own>>].body)'
    BY <1>1, JobFacts DEF RunBodies, Pending, sealVars
  <2>1. seal[<<q, Own>>].body.run \in 0..runs /\ Summed(seal[<<q, Own>>].body)
    BY DEF RunBodies
  <2> QED
    BY <1>1, <1>9, <2>1, JobFacts DEF Summed, sealVars
<1>11. RunReceipts'
  BY <1>1, <1>9 DEF RunReceipts, Summed, sealVars
<1> QED
  BY <1>5, <1>7, <1>8, <1>10, <1>11

\* A handler's own seal settles or fails and it is gone.
LEMMA LeaveCites ==
  ASSUME RoomInv, CiteInv, NEW r \in Requests, seal[<<r, Own>>].at # "idle",
         seal' = [seal EXCEPT ![<<r, Own>>] = Seal!Idle],
         req' = [req EXCEPT ![r] = NoRequest], UNCHANGED <<receipts, runs>>
  PROVE  CiteInv'
<1>1. /\ seal'[<<r, Own>>].at = "idle"
      /\ \A q \in Requests : q # r => seal'[<<q, Own>>] = seal[<<q, Own>>]
      /\ \A q \in Requests, m \in Members : seal'[<<q, m>>] = seal[<<q, m>>]
  <2>1. /\ seal'[<<r, Own>>].at = "idle"
        /\ \A k \in Jobs : k # <<r, Own>> => seal'[k] = seal[k]
    BY SealFacts, SealAt, JobFacts DEF RoomInv, Seal!Idle
  <2> QED
    BY <2>1, JobFacts
<1>2. /\ req[r].pc = "seal" /\ req'[r].pc = "idle"
      /\ \A q \in Requests : q # r => req'[q] = req[q]
  BY DEF RoomInv, TypeOK, NoRequest
<1>3. \A q \in Requests : Live(q)' => Live(q) /\ req'[q].run = req[q].run
  BY <1>2 DEF Live
<1>4. \A q \in Requests : Inserted(q)' = Inserted(q)
  BY <1>1, InsertedSame
<1>5. MemberBodies'
  <2> SUFFICES ASSUME NEW q \in Requests, NEW m \in Members, Pending(<<q, m>>)'
               PROVE  /\ Live(q)' /\ seal'[<<q, m>>].body.kind = "member"
                      /\ seal'[<<q, m>>].body.run = req'[q].run
    BY DEF MemberBodies
  <2>1. Pending(<<q, m>>) /\ seal'[<<q, m>>] = seal[<<q, m>>]
    BY <1>1 DEF Pending
  <2>2. /\ Live(q) /\ seal[<<q, m>>].body.kind = "member"
        /\ seal[<<q, m>>].body.run = req[q].run
    BY <2>1 DEF CiteInv, MemberBodies
  <2> QED
    BY <1>2, <2>1, <2>2 DEF Live
<1>6. \A q \in Requests : req'[q].pc = "swarm" =>
        /\ req[q].pc = "swarm" /\ req'[q].run = req[q].run
        /\ req'[q].cites \cup Inserted(q)' = req[q].cites \cup Inserted(q)
  BY <1>2, <1>4
<1>7. \A q \in Requests : Pending(<<q, Own>>)' =>
        Pending(<<q, Own>>) /\ seal'[<<q, Own>>].body = seal[<<q, Own>>].body
  <2> SUFFICES ASSUME NEW q \in Requests, Pending(<<q, Own>>)'
               PROVE  Pending(<<q, Own>>) /\ seal'[<<q, Own>>].body = seal[<<q, Own>>].body
    OBVIOUS
  <2>1. seal'[<<q, Own>>].at \in {"waiting", "hashing"}
    BY JobFacts DEF Pending
  <2>2. q # r
    BY <1>1, <2>1
  <2> QED
    BY <1>1, <2>1, <2>2 DEF Pending
<1> QED
  BY <1>3, <1>5, <1>6, <1>7, CitesKept

\* A member's call is sealed, and its receipt recorded, or it begins or fails to be.
LEMMA MemberCites ==
  ASSUME RoomInv, CiteInv, NEW r \in Requests, NEW m \in Members,
         MemberAnswered(r, m) \/ MemberSealed(r, m) \/ MemberSealFailed(r, m)
  PROVE  CiteInv'
<1>1. /\ UNCHANGED <<receipts, runs>> /\ calls[r][m] \in {"calling", "sealing"}
      /\ \A q \in Requests : q # r => req'[q] = req[q]
      /\ req \in [Requests -> Request]
  <2>1. calls[r][m] \in {"calling", "sealing"}
    <3>1. seal[<<r, m>>].at # "idle" => calls[r][m] = "sealing"
      BY DEF RoomInv, TypeOK
    <3> QED
      BY <3>1 DEF MemberAnswered, MemberSealed, MemberSealFailed, Seal!Settle, Seal!FailSeal
  <2> QED
    BY <2>1 DEF MemberAnswered, MemberSealed, MemberSealFailed, Seal!Settle, Seal!FailSeal,
       Seal!Enqueue, RoomInv, TypeOK
<1>2. Live(r)
  <2>1. Busy(r)
    BY <1>1 DEF Busy
  <2> QED
    BY <2>1 DEF RoomInv, CallsOfSwarm, Live
<1>3. PICK x : seal' = [seal EXCEPT ![<<r, m>>] = x] /\ x.at # "putting"
               /\ (x.at # "idle" => x.body.kind = "member" /\ x.body.run = req[r].run)
               /\ (x.at = "idle" \/ UNCHANGED req)
  <2>1. CASE MemberAnswered(r, m)
    <3>1. PICK u \in Costs : Seal!Enqueue(<<r, m>>,
            [kind |-> "member", usd |-> u, run |-> req[r].run, cites |-> {}])
      BY <2>1 DEF MemberAnswered
    <3> DEFINE b == [kind |-> "member", usd |-> u, run |-> req[r].run, cites |-> {}]
    <3>2. b.kind = "member" /\ b.run = req[r].run
      OBVIOUS
    <3>3. seal' = [seal EXCEPT ![<<r, m>>] = Seal!Waiting(b)] /\ UNCHANGED req
      BY <2>1, <3>1 DEF MemberAnswered, Seal!Enqueue
    <3> HIDE DEF b
    <3>4. Seal!Waiting(b).at = "waiting" /\ Seal!Waiting(b).body = b
      BY DEF Seal!Waiting
    <3> QED
      BY <3>2, <3>3, <3>4
  <2>2. CASE MemberSealed(r, m) \/ MemberSealFailed(r, m)
    <3>1. seal' = [seal EXCEPT ![<<r, m>>] = Seal!Idle] /\ Seal!Idle.at = "idle"
      BY <2>2 DEF MemberSealed, MemberSealFailed, Seal!Settle, Seal!FailSeal, Seal!Idle
    <3> QED
      BY <3>1
  <2> QED
    BY <2>1, <2>2
<1>4. /\ seal'[<<r, m>>] = x
      /\ \A q \in Requests : seal'[<<q, Own>>] = seal[<<q, Own>>]
      /\ \A q \in Requests, n \in Members : <<q, n>> # <<r, m>> => seal'[<<q, n>>] = seal[<<q, n>>]
  <2>1. /\ seal'[<<r, m>>] = x
        /\ \A k \in Jobs : k # <<r, m>> => seal'[k] = seal[k]
    BY <1>3, SealFacts, SealAt, JobFacts DEF RoomInv
  <2> QED
    BY <2>1, JobFacts
<1>5. /\ req'[r].run = req[r].run /\ req'[r].pc \in {req[r].pc, "failed"}
      /\ MemberSealed(r, m) => req'[r].cites = req[r].cites \cup {Sealed(<<r, m>>).hash}
      /\ MemberAnswered(r, m) => req'[r].cites = req[r].cites
      /\ MemberSealFailed(r, m) => req'[r].pc = "failed"
  <2>1. req[r] \in Request
    BY <1>1
  <2>2. CASE MemberSealed(r, m)
    <3> DEFINE z == [req[r] EXCEPT !.spent = @ + Sealed(<<r, m>>).body.usd,
                                   !.cites = @ \cup {Sealed(<<r, m>>).hash}]
    <3>1. req'[r] = z
      BY <1>1, <2>2 DEF MemberSealed
    <3>2. /\ z.run = req[r].run /\ z.pc = req[r].pc
          /\ z.cites = req[r].cites \cup {Sealed(<<r, m>>).hash}
      BY <2>1 DEF Request
    <3>3. ~MemberAnswered(r, m) /\ ~MemberSealFailed(r, m)
      BY <2>2 DEF MemberSealed, MemberAnswered, MemberSealFailed, Seal!Settle, Seal!FailSeal,
         RoomInv, TypeOK
    <3> QED
      BY <3>1, <3>2, <3>3
  <2>3. CASE MemberAnswered(r, m)
    <3>1. UNCHANGED req /\ ~MemberSealed(r, m) /\ ~MemberSealFailed(r, m)
      BY <2>3 DEF MemberAnswered, MemberSealed, MemberSealFailed, Seal!Settle, Seal!FailSeal,
         RoomInv, TypeOK
    <3> QED
      BY <2>3, <3>1
  <2>4. CASE MemberSealFailed(r, m)
    <3>1. req' = [req EXCEPT ![r].pc = "failed"]
      BY <2>4 DEF MemberSealFailed
    <3>2. req'[r].pc = "failed" /\ req'[r].run = req[r].run
      BY <1>1, <2>1, <3>1 DEF Request
    <3>3. ~MemberAnswered(r, m) /\ ~MemberSealed(r, m)
      BY <2>4 DEF MemberAnswered, MemberSealed, MemberSealFailed, Seal!Settle, Seal!FailSeal,
         RoomInv, TypeOK
    <3> QED
      BY <3>2, <3>3
  <2> QED
    BY <2>2, <2>3, <2>4
<1>6. \A q \in Requests : (Live(q)' <=> Live(q)) /\ req'[q].run = req[q].run
  BY <1>1, <1>2, <1>5 DEF Live
<1>7. MemberBodies'
  <2> SUFFICES ASSUME NEW q \in Requests, NEW n \in Members, Pending(<<q, n>>)'
               PROVE  /\ Live(q)' /\ seal'[<<q, n>>].body.kind = "member"
                      /\ seal'[<<q, n>>].body.run = req'[q].run
    BY DEF MemberBodies
  <2>1. CASE <<q, n>> = <<r, m>>
    BY <1>2, <1>3, <1>4, <1>6, <2>1 DEF Pending
  <2>2. CASE <<q, n>> # <<r, m>>
    <3>1. Pending(<<q, n>>) /\ seal'[<<q, n>>] = seal[<<q, n>>]
      BY <1>4, <2>2 DEF Pending
    <3> QED
      BY <1>6, <3>1 DEF CiteInv, MemberBodies
  <2> QED
    BY <2>1, <2>2
<1>8. ASSUME NEW q \in Requests, req'[q].pc = "swarm"
      PROVE  /\ req[q].pc = "swarm" /\ req'[q].run = req[q].run
             /\ req'[q].cites \cup Inserted(q)' = req[q].cites \cup Inserted(q)
  <2>1. CASE q # r
    <3>1. \A n \in Members : seal'[<<q, n>>] = seal[<<q, n>>]
      BY <1>4, <2>1
    <3> QED
      BY <1>1, <1>8, <2>1, <3>1, InsertedSame
  <2>2. CASE q = r
    <3>1. ~MemberSealFailed(r, m) /\ req[r].pc = "swarm" /\ req'[r].run = req[r].run
      BY <1>2, <1>5, <1>8, <2>2 DEF Live
    <3>2. \A n \in Members : n # m => seal'[<<r, n>>] = seal[<<r, n>>]
      BY <1>4
    <3>3. \A n \in Members : n # m => Sealed(<<r, n>>)' = Sealed(<<r, n>>)
      BY <3>2 DEF Sealed
    <3>4. seal'[<<r, m>>].at # "putting"
      BY <1>3, <1>4
    <3>5. \A v : v \in Inserted(r)' <=> \E n \in Members : n # m /\ seal[<<r, n>>].at = "putting"
                                                        /\ v = Sealed(<<r, n>>).hash
      BY <3>2, <3>3, <3>4 DEF Inserted
    <3>6. \A v : v \in Inserted(r) <=> \E n \in Members : seal[<<r, n>>].at = "putting"
                                                        /\ v = Sealed(<<r, n>>).hash
      BY DEF Inserted
    <3>7. CASE MemberSealed(r, m)
      <4>1. seal[<<r, m>>].at = "putting"
        BY <3>7 DEF MemberSealed, Seal!Settle
      <4>2. \A v : v \in Inserted(r) <=> v \in Inserted(r)' \/ v = Sealed(<<r, m>>).hash
        BY <3>5, <3>6, <4>1
      <4> QED
        BY <1>5, <2>2, <3>1, <3>7, <4>2
    <3>8. CASE MemberAnswered(r, m)
      <4>1. seal[<<r, m>>].at # "putting"
        <5>1. seal[<<r, m>>] = Seal!Idle
          BY <3>8 DEF MemberAnswered, Seal!Enqueue
        <5>2. Seal!Idle.at = "idle"
          BY DEF Seal!Idle
        <5> QED
          BY <5>1, <5>2
      <4>2. \A n \in Members : seal[<<r, n>>].at = "putting" => n # m
        BY <4>1
      <4>3. \A v : v \in Inserted(r) <=> v \in Inserted(r)'
        BY <3>5, <3>6, <4>2, Zenon
      <4> QED
        BY <1>5, <2>2, <3>1, <3>8, <4>3
    <3> QED
      BY <3>1, <3>7, <3>8
  <2> QED
    BY <2>1, <2>2
<1>9. \A q \in Requests : Pending(<<q, Own>>)' =>
        Pending(<<q, Own>>) /\ seal'[<<q, Own>>].body = seal[<<q, Own>>].body
  <2> SUFFICES ASSUME NEW q \in Requests, Pending(<<q, Own>>)'
               PROVE  Pending(<<q, Own>>) /\ seal'[<<q, Own>>].body = seal[<<q, Own>>].body
    OBVIOUS
  <2>1. seal'[<<q, Own>>].at \in {"waiting", "hashing"}
    BY JobFacts DEF Pending
  <2> QED
    BY <1>4, <2>1 DEF Pending
<1> QED
  BY <1>1, <1>6, <1>7, <1>8, <1>9, CitesKept

\* A job reads the chain: its body stays.
LEMMA ReadCites == ASSUME RoomInv, CiteInv, NEW j \in Jobs, ReadChain(j) PROVE CiteInv'
<1>1. /\ seal[j].at = "waiting" /\ UNCHANGED <<receipts, req, calls, runs>>
      /\ seal' = [seal EXCEPT ![j] = Seal!Hashing(seal[j].body, receipts, hashes + 1)]
  BY DEF ReadChain, Seal!ReadChain, roomVars
<1>2. /\ seal'[j].at = "hashing" /\ seal'[j].body = seal[j].body
      /\ \A k \in Jobs : k # j => seal'[k] = seal[k]
  BY <1>1, SealFacts, SealAt DEF RoomInv, Seal!Hashing
<1>3. \A k \in Jobs : /\ seal'[k].at = "putting" <=> seal[k].at = "putting"
                      /\ seal'[k].at \in {"waiting", "hashing"} <=> seal[k].at \in {"waiting", "hashing"}
                      /\ seal[k].at \in {"waiting", "hashing"} => seal'[k].body = seal[k].body
                      /\ seal[k].at = "putting" => seal'[k] = seal[k]
  <2> SUFFICES ASSUME NEW k \in Jobs
               PROVE  /\ seal'[k].at = "putting" <=> seal[k].at = "putting"
                      /\ seal'[k].at \in {"waiting", "hashing"} <=> seal[k].at \in {"waiting", "hashing"}
                      /\ seal[k].at \in {"waiting", "hashing"} => seal'[k].body = seal[k].body
                      /\ seal[k].at = "putting" => seal'[k] = seal[k]
    OBVIOUS
  <2>1. CASE k = j
    <3>1. /\ seal[k].at = "waiting" /\ seal'[k].at = "hashing"
          /\ seal'[k].body = seal[k].body
      BY <1>1, <1>2, <2>1
    <3> QED
      BY <3>1
  <2>2. CASE k # j
    <3>1. seal'[k] = seal[k]
      BY <1>2, <2>2
    <3> QED
      BY <3>1
  <2> QED
    BY <2>1, <2>2
<1>4. \A q \in Requests : Live(q)' <=> Live(q)
  BY <1>1 DEF Live
<1>5. \A q \in Requests : Inserted(q)' = Inserted(q)
  <2> SUFFICES ASSUME NEW q \in Requests PROVE Inserted(q)' = Inserted(q)
    OBVIOUS
  <2>1. \A m \in Members : /\ seal'[<<q, m>>].at = "putting" <=> seal[<<q, m>>].at = "putting"
                           /\ seal[<<q, m>>].at = "putting" =>
                                Sealed(<<q, m>>)' = Sealed(<<q, m>>)
    BY <1>3, JobFacts DEF Sealed
  <2>2. \A v : v \in Inserted(q)' <=> v \in Inserted(q)
    BY <2>1 DEF Inserted
  <2> QED
    BY <2>2 DEF Inserted
<1>6. MemberBodies'
  <2> SUFFICES ASSUME NEW q \in Requests, NEW m \in Members, Pending(<<q, m>>)'
               PROVE  /\ Live(q)' /\ seal'[<<q, m>>].body.kind = "member"
                      /\ seal'[<<q, m>>].body.run = req'[q].run
    BY DEF MemberBodies
  <2>1. Pending(<<q, m>>) /\ seal'[<<q, m>>].body = seal[<<q, m>>].body
    BY <1>3, JobFacts DEF Pending
  <2> QED
    BY <1>1, <1>4, <2>1 DEF CiteInv, MemberBodies
<1>7. \A q \in Requests : req'[q].pc = "swarm" =>
        /\ req[q].pc = "swarm" /\ req'[q].run = req[q].run
        /\ req'[q].cites \cup Inserted(q)' = req[q].cites \cup Inserted(q)
  BY <1>1, <1>5
<1>8. \A q \in Requests : Pending(<<q, Own>>)' =>
        Pending(<<q, Own>>) /\ seal'[<<q, Own>>].body = seal[<<q, Own>>].body
  BY <1>3, JobFacts DEF Pending
<1> QED
  BY <1>1, <1>4, <1>6, <1>7, <1>8, CitesKept

\* One more receipt: its hash is cited of its run if it is a member's.
LEMMA CitedAppend ==
  ASSUME NEW R, NEW rs \in Seq(R), NEW x \in R, NEW n
  PROVE  Cited(Append(rs, x), n) =
           Cited(rs, n) \cup IF x.body.kind = "member" /\ x.body.run = n THEN {x.hash} ELSE {}
<1> DEFINE qs == Append(rs, x)
<1>1. /\ Len(qs) = Len(rs) + 1 /\ Len(rs) \in Nat /\ qs[Len(rs) + 1] = x
      /\ \A i \in 1..Len(rs) : qs[i] = rs[i]
  BY AppendProperties
<1> HIDE DEF qs
<1>2. \A v : v \in Cited(qs, n) <=>
        \E k \in 1..Len(qs) : qs[k].body.kind = "member" /\ qs[k].body.run = n /\ v = qs[k].hash
  BY DEF Cited
<1>3. \A v : v \in Cited(rs, n) <=>
        \E k \in 1..Len(rs) : rs[k].body.kind = "member" /\ rs[k].body.run = n /\ v = rs[k].hash
  BY DEF Cited
<1>4. 1..Len(qs) = (1..Len(rs)) \cup {Len(rs) + 1}
  BY <1>1
<1>5. \A v : v \in Cited(qs, n) <=>
        v \in Cited(rs, n) \/ (x.body.kind = "member" /\ x.body.run = n /\ v = x.hash)
  BY <1>1, <1>2, <1>3, <1>4
<1>6. \A v : v \in Cited(qs, n) <=>
        v \in Cited(rs, n) \cup IF x.body.kind = "member" /\ x.body.run = n THEN {x.hash} ELSE {}
  BY <1>5
<1> QED
  BY <1>6 DEF qs, Cited

\* A receipt is inserted: a member's counts for its swarm, which is live; a run's is
\* of a run that is over.
LEMMA InsertCites == ASSUME RoomInv, CiteInv, NEW j \in Jobs, InsertReceipt(j) PROVE CiteInv'
<1> USE DEF CiteInv
<1> DEFINE b == seal[j].body
           x == Seal!NewReceipt(seal[j])
<1>1. /\ seal[j].at = "hashing" /\ UNCHANGED <<req, calls, runs>>
      /\ receipts' = Append(receipts, x)
      /\ seal' = [seal EXCEPT ![j] = Seal!Putting(Append(seal[j].chain, x))]
      /\ x.body = b
  BY DEF InsertReceipt, Seal!InsertReceipt, Seal!NewReceipt
<1>2. x \in Seal!Chain!Receipt /\ receipts \in Seq(Seal!Chain!Receipt) /\ seal[j].chain = receipts
      /\ seal[j] \in Seal!SealStates
  <2>1. /\ receipts \in Seq(Seal!Chain!Receipt) /\ seal[j].chain = receipts
        /\ seal[j] \in Seal!SealStates
    BY <1>1, SealFacts DEF RoomInv
  <2>2. SealP!NewReceipt(seal[j]) \in SealP!Chain!Receipt
    BY <1>1, <2>1, SealOps, SealP!NewReceiptType
  <2> QED
    BY <2>1, <2>2, SealOps
<1>3. b \in Body /\ b.run \in Nat
  BY <1>1, <1>2, BodyFacts DEF Body
<1> HIDE DEF x
<1>4. /\ seal'[j].at = "putting" /\ seal'[j].chain = receipts'
      /\ \A k \in Jobs : k # j => seal'[k] = seal[k]
  BY <1>1, <1>2, SealFacts, SealAt DEF RoomInv, Seal!Putting
<1>5. /\ Len(receipts') = Len(receipts) + 1 /\ Len(receipts) \in Nat
      /\ receipts'[Len(receipts')] = x
      /\ \A i \in 1..Len(receipts) : receipts'[i] = receipts[i]
  BY <1>1, <1>2, AppendProperties
<1>6. \A n : Cited(receipts', n) =
        Cited(receipts, n) \cup IF b.kind = "member" /\ b.run = n THEN {x.hash} ELSE {}
  BY <1>1, <1>2, CitedAppend
<1> HIDE DEF b
<1>7. \A k \in Jobs : k # j => seal[k].at \notin {"hashing", "putting"}
  BY <1>1 DEF RoomInv, SealP!SealInv, SealP!OnlyHeadWorks, SealP!Turn
<1>8. (\A q \in Requests : Live(q)' <=> Live(q)) /\ (\A n : Over(n)' <=> Over(n))
  BY <1>1 DEF Live, Over
<1>9. b.kind = "member" => \E r \in Requests : Live(r) /\ b.run = req[r].run
  <2>1. PICK r \in Requests, y \in Members \cup {Own} : j = <<r, y>>
    BY DEF Jobs
  <2>2. CASE y = Own
    BY <1>1, <2>1, <2>2 DEF RoomInv, OwnBodies, b
  <2>3. CASE y \in Members
    BY <1>1, <2>1, <2>3 DEF MemberBodies, Pending, b
  <2> QED
    BY <2>1, <2>2, <2>3
<1>10. \A n : Over(n) => Cited(receipts', n) = Cited(receipts, n)
  BY <1>6, <1>9 DEF Over
<1>11. ASSUME NEW c, Summed(c)
       PROVE  c.kind = "run" /\ c.run # 0 => Over(c.run)' /\ c.cites = Cited(receipts', c.run)
  BY <1>8, <1>10, <1>11 DEF Summed
<1>12. Summed(b) /\ b.run \in 0..runs
  <2>1. PICK r \in Requests, y \in Members \cup {Own} : j = <<r, y>>
    BY DEF Jobs
  <2>2. CASE y = Own
    <3>1. Pending(<<r, Own>>) /\ b.kind # "member"
      BY <1>1, <2>1, <2>2 DEF Pending, RoomInv, OwnBodies, b
    <3> QED
      BY <2>1, <2>2, <3>1 DEF RunBodies, b
  <2>3. CASE y \in Members
    <3>1. /\ Live(r) /\ b.kind = "member" /\ b.run = req[r].run
      BY <1>1, <2>1, <2>3 DEF MemberBodies, Pending, b
    <3>2. b.run \in 1..runs
      BY <3>1 DEF RunsApart
    <3> QED
      BY <3>1, <3>2 DEF Summed
  <2> QED
    BY <2>1, <2>2, <2>3
<1>13. MemberBodies'
  <2> SUFFICES ASSUME NEW q \in Requests, NEW m \in Members, Pending(<<q, m>>)'
               PROVE  /\ Live(q)' /\ seal'[<<q, m>>].body.kind = "member"
                      /\ seal'[<<q, m>>].body.run = req'[q].run
    BY DEF MemberBodies
  <2>1. <<q, m>> # j /\ <<q, m>> \in Jobs
    BY <1>4, JobFacts DEF Pending
  <2>2. seal'[<<q, m>>] = seal[<<q, m>>] /\ Pending(<<q, m>>)
    BY <1>4, <2>1 DEF Pending
  <2> QED
    BY <1>1, <1>8, <2>2 DEF MemberBodies
<1>14. RunBodies'
  <2> SUFFICES ASSUME NEW q \in Requests, Pending(<<q, Own>>)'
               PROVE  seal'[<<q, Own>>].body.run \in 0..runs' /\ Summed(seal[<<q, Own>>].body)'
    BY JobFacts DEF RunBodies
  <2>1. seal'[<<q, Own>>].at \in {"waiting", "hashing"}
    BY JobFacts DEF Pending
  <2>2. <<q, Own>> # j /\ <<q, Own>> \in Jobs
    BY <1>4, <2>1, JobFacts
  <2>3. seal'[<<q, Own>>] = seal[<<q, Own>>] /\ Pending(<<q, Own>>)
    BY <1>4, <2>1, <2>2 DEF Pending
  <2>4. seal[<<q, Own>>].body.run \in 0..runs /\ Summed(seal[<<q, Own>>].body)
    BY <2>3 DEF RunBodies
  <2> QED
    BY <1>1, <1>11, <2>3, <2>4, JobFacts DEF Summed
<1>15. RunReceipts'
  <2> SUFFICES ASSUME NEW i \in 1..Len(receipts')
               PROVE  receipts'[i].body.run \in 0..runs /\ Summed(receipts[i].body)'
    BY <1>1 DEF RunReceipts
  <2>1. CASE i \in 1..Len(receipts)
    <3>1. receipts'[i] = receipts[i]
      BY <1>5, <2>1
    <3>2. receipts[i].body.run \in 0..runs /\ Summed(receipts[i].body)
      BY <2>1 DEF RunReceipts
    <3> QED
      BY <1>11, <3>1, <3>2 DEF Summed
  <2>2. CASE i = Len(receipts')
    <3>1. receipts'[i].body = b
      BY <1>1, <1>5, <2>2 DEF x, b
    <3> QED
      BY <1>11, <1>12, <3>1 DEF Summed
  <2> QED
    BY <1>5, <2>1, <2>2
<1>16. SwarmCounts'
  <2> SUFFICES ASSUME NEW q \in Requests, req[q].pc = "swarm"
               PROVE  Cited(receipts', req[q].run) = req[q].cites \cup Inserted(q)'
    BY <1>1 DEF SwarmCounts
  <2>1. Cited(receipts, req[q].run) = req[q].cites \cup Inserted(q)
    BY DEF SwarmCounts
  <2>2. Inserted(q) = {}
    <3>1. \A m \in Members : seal[<<q, m>>].at # "putting"
      BY <1>1, <1>7, JobFacts
    <3> QED
      BY <3>1 DEF Inserted
  <2>3. Live(q)
    BY DEF Live
  <2>4. CASE \E m \in Members : j = <<q, m>>
    <3>1. PICK m \in Members : j = <<q, m>>
      BY <2>4
    <3>2. b.kind = "member" /\ b.run = req[q].run
      BY <1>1, <3>1 DEF MemberBodies, Pending, b
    <3>3. \A n \in Members : seal'[<<q, n>>].at = "putting" <=> n = m
      <4> SUFFICES ASSUME NEW n \in Members PROVE seal'[<<q, n>>].at = "putting" <=> n = m
        OBVIOUS
      <4>1. CASE n = m
        BY <1>4, <3>1, <4>1
      <4>2. CASE n # m
        BY <1>4, <1>7, <3>1, <4>2, JobFacts
      <4> QED
        BY <4>1, <4>2
    <3>4. Sealed(j)' = x
      BY <1>4, <1>5 DEF Sealed
    <3>5. \A v : v \in Inserted(q)' <=> v = x.hash
      <4>1. \A v : v \in Inserted(q)' <=>
              \E n \in Members : seal'[<<q, n>>].at = "putting" /\ v = Sealed(<<q, n>>)'.hash
        BY DEF Inserted
      <4> QED
        BY <3>1, <3>3, <3>4, <4>1
    <3>6. Inserted(q)' = {x.hash}
      BY <3>5 DEF Inserted
    <3> QED
      BY <1>6, <2>1, <2>2, <3>2, <3>6
  <2>5. CASE ~ \E m \in Members : j = <<q, m>>
    <3>1. \A m \in Members : seal'[<<q, m>>].at # "putting"
      BY <1>4, <1>7, <2>5, JobFacts
    <3>2. Inserted(q)' = {}
      BY <3>1 DEF Inserted
    <3>3. ~(b.kind = "member" /\ b.run = req[q].run)
      <4> SUFFICES ASSUME b.kind = "member", b.run = req[q].run PROVE FALSE
        OBVIOUS
      <4>1. PICK r \in Requests, y \in Members \cup {Own} : j = <<r, y>>
        BY DEF Jobs
      <4>2. y \in Members
        BY <1>1, <4>1 DEF RoomInv, OwnBodies, b
      <4>3. Live(r) /\ b.run = req[r].run
        BY <1>1, <4>1, <4>2 DEF MemberBodies, Pending, b
      <4>4. r = q
        BY <2>3, <4>3 DEF RunsApart
      <4> QED
        BY <2>5, <4>1, <4>2, <4>4
    <3> QED
      BY <1>6, <2>1, <2>2, <3>2, <3>3
  <2> QED
    BY <2>4, <2>5
<1>17. RunsApart'
  BY <1>1, <1>8 DEF RunsApart
<1> QED
  BY <1>13, <1>14, <1>15, <1>16, <1>17

\* The object is evicted: no handler is left, and no seal.
LEMMA RestartCites == ASSUME CiteInv, Restart PROVE CiteInv'
<1>1. /\ \A j \in Jobs : seal'[j].at = "idle"
      /\ \A r \in Requests : req'[r].pc = "idle"
      /\ UNCHANGED <<receipts, runs>>
  BY DEF Restart, Seal!SealRestart, Seal!Idle, NoRequest
<1>2. \A r \in Requests : ~Live(r)' /\ req'[r].pc # "swarm"
  BY <1>1 DEF Live
<1>3. \A j \in Jobs : ~Pending(j)'
  BY <1>1 DEF Pending
<1>4. MemberBodies'
  BY <1>3, JobFacts DEF MemberBodies
<1> QED
  BY <1>1, <1>2, <1>3, <1>4, JobFacts, CitesKept

\* A handler outside a swarm asks for a receipt that is of no run.
LEMMA SealingCites ==
  ASSUME RoomInv, CiteInv, NEW r \in Requests, NEW c, NEW b, NEW s,
         AskSeal(r, c, b, s), b.run = 0, req[r].pc \in {"idle", "mind"}, runs' = runs
  PROVE  CiteInv'
<1>1. Sealing(c, s).pc = "seal" /\ req \in [Requests -> Request]
  BY DEF Sealing, NoRequest, RoomInv, TypeOK
<1>2. /\ Seal!Enqueue(<<r, Own>>, b) /\ req'[r].pc = "seal"
      /\ \A q \in Requests : q # r => req'[q] = req[q]
  BY <1>1 DEF AskSeal
<1> QED
  BY <1>2, IdleFacts, AskCites

\* A handler outside a swarm moves on without touching the seals.
LEMMA MoveCites ==
  ASSUME RoomInv, CiteInv, NEW r \in Requests, NEW x, req' = [req EXCEPT ![r] = x],
         req[r].pc \in {"idle", "mind"}, x.pc \in {"idle", "mind"}, UNCHANGED <<sealVars, runs>>
  PROVE  CiteInv'
<1>1. /\ req'[r] = x /\ \A q \in Requests : q # r => req'[q] = req[q]
  BY DEF RoomInv, TypeOK
<1>2. \A q \in Requests : (Live(q)' <=> Live(q)) /\ (Live(q) => req'[q] = req[q])
  BY <1>1 DEF Live
<1> QED
  BY <1>2, StillCites

\* Kill aborts who is under way, and changes nothing else of them.
LEMMA KillCites == ASSUME RoomInv, CiteInv, NEW r \in Requests, Kill(r) PROVE CiteInv'
<1>1. req[r].pc = "idle" /\ req \in [Requests -> Request] /\ runs' = runs
  BY DEF Kill, Free, RoomInv, TypeOK
<1>2. req'[r].pc = "seal"
  <2>1. req'[r] = Sealing("kill", ApplyKill(state))
    BY DEF Kill
  <2>2. Sealing("kill", ApplyKill(state)).pc = "seal"
    BY DEF Sealing, NoRequest
  <2> QED
    BY <2>1, <2>2
<1>3. ASSUME NEW q \in Requests, q # r
      PROVE  req'[q].pc = req[q].pc /\ req'[q].run = req[q].run /\ req'[q].cites = req[q].cites
  <2>1. req'[q] = [req[q] EXCEPT !.aborted = @ \/ req[q].pc \in {"mind", "swarm"}]
    BY <1>3 DEF Kill
  <2>2. req[q] \in Request
    BY <1>1
  <2> QED
    BY <2>1, <2>2 DEF Request
<1>4. Seal!Enqueue(<<r, Own>>, Plain("kill")) /\ Plain("kill").run = 0
  BY DEF Kill, Plain
<1> QED
  BY <1>1, <1>2, <1>3, <1>4, IdleFacts, AskCites

LEMMA ReceiveCites == ASSUME RoomInv, CiteInv, NEW r \in Requests, Receive(r) PROVE CiteInv'
<1>1. /\ \A k : Plain(k).run = 0
      /\ \A k, u : [Plain(k) EXCEPT !.usd = u].run = 0
  BY DEF Plain
<1>2. [NoRequest EXCEPT !.pc = "mind", !.cmd = "think"].pc = "mind"
  BY DEF NoRequest
<1>3. CASE Think(r)
  BY <1>2, <1>3, MoveCites DEF Think, Free, StartMind
<1>4. CASE HolderTurn(r)
  BY <1>1, <1>4, SealingCites DEF HolderTurn, Free
<1>5. CASE Handoff(r)
  BY <1>1, <1>5, SealingCites DEF Handoff, Free
<1>6. CASE Release(r)
  BY <1>1, <1>6, SealingCites DEF Release, Free
<1>7. CASE Kill(r)
  BY <1>7, KillCites
<1>8. CASE Revive(r)
  BY <1>1, <1>8, SealingCites DEF Revive, Free
<1>9. CASE SetMode(r)
  BY <1>1, <1>9, SealingCites DEF SetMode, Free
<1>10. CASE SetCap(r)
  BY <1>1, <1>10, SealingCites DEF SetCap, Free
<1>11. CASE Schedule(r)
  BY <1>1, <1>11, SealingCites DEF Schedule, Free
<1>12. CASE Cancel(r)
  BY <1>1, <1>12, SealingCites DEF Cancel, Free
<1>13. CASE Remember(r)
  BY <1>1, <1>13, SealingCites DEF Remember, Free
<1>14. CASE RecordSwarm(r)
  BY <1>1, <1>14, SealingCites DEF RecordSwarm, Free
<1>15. CASE StartSwarm(r)
  BY <1>15, StartCites
<1>16. CASE Fire(r)
  <2>1. CASE StartMind(r) /\ UNCHANGED sealVars
    BY <1>2, <1>16, <2>1, MoveCites DEF Fire, StartMind
  <2>2. CASE AskSeal(r, "skip", Plain("turn"), state)
    BY <1>1, <1>16, <2>2, SealingCites DEF Fire
  <2> QED
    BY <1>16, <2>1, <2>2 DEF Fire
<1> QED
  BY <1>3, <1>4, <1>5, <1>6, <1>7, <1>8, <1>9, <1>10, <1>11, <1>12, <1>13, <1>14, <1>15, <1>16
  DEF Receive

\* The swarm sums up: its body is of its run and cites what it has counted.
LEMMA SwarmDoneCites == ASSUME RoomInv, CiteInv, NEW r \in Requests, SwarmDone(r) PROVE CiteInv'
<1>1. /\ req[r].pc = "swarm" /\ ~Busy(r) /\ runs' = runs
      /\ AskSeal(r, "swarm", RunBody(r), ApplySpend(state, req[r].spent))
      /\ req \in [Requests -> Request]
  BY DEF SwarmDone, RoomInv, TypeOK
<1>2. RunBody(r).run = req[r].run /\ RunBody(r).cites = req[r].cites
  BY DEF RunBody
<1>3. Sealing("swarm", ApplySpend(state, req[r].spent)).pc = "seal"
  BY DEF Sealing, NoRequest
<1>4. /\ Seal!Enqueue(<<r, Own>>, RunBody(r)) /\ req'[r].pc = "seal"
      /\ \A q \in Requests : q # r => req'[q] = req[q]
  BY <1>1, <1>3 DEF AskSeal
<1> QED
  BY <1>1, <1>2, <1>4, AskCites

LEMMA ProceedCites == ASSUME RoomInv, CiteInv, NEW r \in Requests, Proceed(r) PROVE CiteInv'
<1>1. CASE MindAnswered(r)
  <2>1. \A u : [Plain("turn") EXCEPT !.usd = u].run = 0
    BY DEF Plain
  <2> QED
    BY <1>1, <2>1, SealingCites DEF MindAnswered
<1>2. CASE MindRefused(r)
  <2>1. NoRequest.pc = "idle"
    BY DEF NoRequest
  <2> QED
    BY <1>2, <2>1, MoveCites DEF MindRefused
<1>3. CASE SwarmDone(r)
  BY <1>3, SwarmDoneCites
<1>4. CASE SwarmOver(r)
  <2>1. /\ ~Busy(r) /\ req'[r] = NoRequest /\ NoRequest.pc = "idle"
        /\ \A q \in Requests : q # r => req'[q] = req[q]
        /\ UNCHANGED <<sealVars, runs>>
    BY <1>4 DEF SwarmOver, RoomInv, TypeOK, NoRequest
  <2>2. \A q \in Requests : Live(q)' => req'[q] = req[q]
    BY <2>1 DEF Live
  <2>3. \A q \in Requests : Live(q) => Live(q)' \/ ~Busy(q)
    BY <2>1 DEF Live
  <2> QED
    BY <2>1, <2>2, <2>3, StillCites
<1>5. CASE Commit(r) \/ RowFails(r) \/ SealFailed(r)
  <2>1. /\ seal[<<r, Own>>].at # "idle" /\ seal' = [seal EXCEPT ![<<r, Own>>] = Seal!Idle]
        /\ req' = [req EXCEPT ![r] = NoRequest] /\ UNCHANGED <<receipts, runs>>
    BY <1>5 DEF Commit, RowFails, SealFailed, Seal!Settle, Seal!FailSeal
  <2> QED
    BY <2>1, LeaveCites
<1>6. ASSUME NEW m \in Members, MemberCall(r, m) PROVE CiteInv'
  <2>1. UNCHANGED <<req, sealVars, runs>>
    BY <1>6 DEF MemberCall
  <2>2. \A q \in Requests : (Live(q)' <=> Live(q)) /\ req'[q] = req[q]
    BY <2>1 DEF Live
  <2> QED
    BY <2>1, <2>2, StillCites
<1>7. ASSUME NEW m \in Members, MemberAnswered(r, m) \/ MemberSealed(r, m) \/ MemberSealFailed(r, m)
      PROVE  CiteInv'
  BY <1>7, MemberCites
<1> QED
  BY <1>1, <1>2, <1>3, <1>4, <1>5, <1>6, <1>7 DEF Proceed

LEMMA NextCites == RoomInv /\ CiteInv /\ [Next]_vars => CiteInv'
<1> SUFFICES ASSUME RoomInv, CiteInv, [Next]_vars PROVE CiteInv'
  OBVIOUS
<1>1. CASE UNCHANGED vars
  <2>1. UNCHANGED <<req, sealVars, runs>>
    BY <1>1 DEF vars, roomVars
  <2>2. \A q \in Requests : (Live(q)' <=> Live(q)) /\ req'[q] = req[q]
    BY <2>1 DEF Live
  <2> QED
    BY <2>1, <2>2, StillCites
<1> QED
  BY <1>1, ReceiveCites, ProceedCites, ReadCites, InsertCites, RestartCites DEF Next

\* What the swarms and their receipts owe each other holds in every state of the room.
THEOREM CiteInvariant == Spec => []CiteInv
BY InitInv, InitCites, NextInv, NextCites, PTL DEF Spec

\* However many swarms, members and other handlers seal at once, fail to seal or are
\* evicted, the receipt of a run cites the member receipts of that run, every one and
\* no other (cmdSwarm, runSwarm's exec and seal of commander.ts).
THEOREM SwarmsCiteAll == Spec => []SwarmCitesAll
<1>1. CiteInv => SwarmCitesAll
  BY DEF CiteInv, RunReceipts, Summed, Cited, SwarmCitesAll
<1> QED
  BY <1>1, CiteInvariant, PTL
=============================================================================
