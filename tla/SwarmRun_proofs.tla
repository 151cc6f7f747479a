--------------------------- MODULE SwarmRun_proofs ---------------------------
(***************************************************************************)
(* Proofs about SwarmRun, for any number of members, any topology, budget, *)
(* call cap, weights and cost of a call: a run of a swarm overspends its   *)
(* budget by one wave of calls at most, keeps its types, and loses no good *)
(* answer.                                                                 *)
(***************************************************************************)
EXTENDS SwarmRun, FiniteSetTheorems, WellFoundedInduction, TLAPS

\* What the bounds rest on: the counters are numbers, and who is waited for is finite.
CountInv ==
  /\ calls \in Nat /\ spent \in Nat
  /\ max_calls \in Nat \ {0}
  /\ IsFiniteSet(pending)

SwarmInv == CountInv /\ OverspendBounded

\* A wave is the judge, one member or all of them.
Wave(callers) == callers = Members \/ \E c : callers = {c}

-----------------------------------------------------------------------------
LEMMA MembersFinite == IsFiniteSet(Members) /\ Cardinality(Members) = Size
<1>1. 1 \in Int /\ Size \in Int /\ Size >= 1
  BY SwarmAssumption
<1>2. IsFiniteSet(1..Size) /\ Cardinality(1..Size) = Size
  <2>1. IsFiniteSet(1..Size) /\ Cardinality(1..Size) = IF 1 > Size THEN 0 ELSE Size - 1 + 1
    BY <1>1, FS_Interval, Zenon
  <2> QED
    BY <1>1, <2>1
<1> QED
  BY <1>2 DEF Members

LEMMA PendingFinite ==
  ASSUME CountInv
  PROVE  IsFiniteSet(pending) /\ Cardinality(pending) \in Nat
BY FS_CardinalityType DEF CountInv

\* A wave has a member of the swarm for each of its calls, or fewer.
LEMMA WaveSize ==
  ASSUME NEW callers, Wave(callers)
  PROVE  /\ IsFiniteSet(callers)
         /\ Cardinality(callers) \in Nat /\ Cardinality(callers) <= Size
<1>1. CASE callers = Members
  BY <1>1, MembersFinite, SwarmAssumption
<1>2. ASSUME NEW c, callers = {c}
      PROVE  /\ IsFiniteSet(callers)
             /\ Cardinality(callers) \in Nat /\ Cardinality(callers) <= Size
  <2>1. IsFiniteSet({c}) /\ Cardinality({c}) = 1
    BY FS_Singleton, Zenon
  <2> QED
    BY <1>2, <2>1, SwarmAssumption
<1> QED
  BY <1>1, <1>2 DEF Wave

\* What the calls in flight may still cost.
LEMMA CostMonotone ==
  ASSUME NEW m \in Nat, NEW n \in Nat, m <= n
  PROVE  MaxCost * m \in Nat /\ MaxCost * n \in Nat /\ MaxCost * m <= MaxCost * n
BY SwarmAssumption

LEMMA CostOfOne ==
  ASSUME NEW n \in Nat, n >= 1
  PROVE  MaxCost * (n - 1) + MaxCost = MaxCost * n
BY SwarmAssumption

-----------------------------------------------------------------------------
LEMMA InitSwarmInv == Init => SwarmInv
<1> SUFFICES ASSUME Init PROVE SwarmInv
  OBVIOUS
<1>1. CountInv
  <2>1. IsFiniteSet(pending)
    BY FS_EmptySet DEF Init
  <2> QED
    BY <2>1, SwarmAssumption DEF Init, CountInv
<1>2. Cardinality(pending) = 0
  BY FS_EmptySet DEF Init
<1>3. MaxCost * 0 = 0 /\ MaxCost * Size \in Nat
  BY CostMonotone, SwarmAssumption
<1>4. calls = 0 /\ spent = 0
  BY DEF Init
<1> QED
  BY <1>1, <1>2, <1>3, <1>4, SwarmAssumption DEF SwarmInv, CountInv, OverspendBounded

\* The governor lets a wave go only while the budget is not spent.
LEMMA CallKeeps ==
  ASSUME SwarmInv, NEW ph, NEW callers, Wave(callers), Call(ph, callers)
  PROVE  SwarmInv'
<1>1. /\ calls' = calls /\ spent' = spent /\ max_calls' = max_calls
      /\ pending' = IF Allowed THEN callers ELSE {}
  BY DEF Call, specification, ledger
<1>2. CountInv'
  <2>1. IsFiniteSet(pending')
    BY <1>1, WaveSize, FS_EmptySet
  <2> QED
    BY <1>1, <2>1 DEF SwarmInv, CountInv
<1>3. CASE Allowed
  <2>1. pending' = callers /\ Cardinality(pending') <= Size /\ Cardinality(pending') \in Nat
    BY <1>1, <1>3, WaveSize
  <2>2. calls < max_calls /\ (Usd > 0 => spent < Usd)
    BY <1>3, SwarmAssumption DEF Allowed, OverBudget, SwarmInv, CountInv
  <2>3. MaxCost * Cardinality(pending') \in Nat /\ MaxCost * Size \in Nat
        /\ MaxCost * Cardinality(pending') <= MaxCost * Size
    BY <2>1, CostMonotone, SwarmAssumption
  <2> HIDE DEF Allowed
  <2>4. calls' + Cardinality(pending') <= max_calls' - 1 + Size
    BY <1>1, <2>1, <2>2, SwarmAssumption DEF SwarmInv, CountInv
  <2>5. Usd > 0 => spent' + MaxCost * Cardinality(pending') <= Usd - 1 + MaxCost * Size
    <3> DEFINE wave == MaxCost * Cardinality(pending')
               bound == MaxCost * Size
    <3>1. wave \in Nat /\ bound \in Nat /\ wave <= bound /\ spent \in Nat /\ Usd \in Nat
      BY <2>3, SwarmAssumption DEF SwarmInv, CountInv
    <3> HIDE DEF wave, bound
    <3>2. Usd > 0 => spent' + wave <= Usd - 1 + bound
      BY <1>1, <2>2, <3>1
    <3> QED
      BY <3>2 DEF wave, bound
  <2> QED
    BY <1>2, <2>4, <2>5 DEF SwarmInv, OverspendBounded
<1>4. CASE ~Allowed
  <2>1. Cardinality(pending') = 0 /\ MaxCost * 0 = 0
    BY <1>1, <1>4, FS_EmptySet, SwarmAssumption
  <2>2. Cardinality(pending) \in Nat /\ MaxCost * Cardinality(pending) \in Nat
        /\ MaxCost * Size \in Nat
    BY PendingFinite, CostMonotone, SwarmAssumption DEF SwarmInv
  <2> QED
    BY <1>1, <1>2, <2>1, <2>2, SwarmAssumption DEF SwarmInv, CountInv, OverspendBounded
<1> QED
  BY <1>3, <1>4

\* A call that returns moves its cost from what may still be spent to what was.
LEMMA ReturnKeeps ==
  ASSUME SwarmInv, NEW c \in Callers, Return(c)
  PROVE  SwarmInv'
<1>1. PICK usd \in 0..MaxCost : spent' = spent + usd
  BY DEF Return
<1>2. /\ calls' = calls + 1 /\ max_calls' = max_calls
      /\ c \in pending /\ pending' = pending \ {c}
  BY DEF Return, specification
<1>3. usd \in Nat /\ usd <= MaxCost
  BY SwarmAssumption
<1>4. CountInv'
  <2>1. IsFiniteSet(pending')
    BY <1>2, FS_RemoveElement DEF SwarmInv, CountInv
  <2> QED
    BY <1>1, <1>2, <1>3, <2>1 DEF SwarmInv, CountInv
<1>5. /\ Cardinality(pending) \in Nat /\ Cardinality(pending) >= 1
      /\ Cardinality(pending') = Cardinality(pending) - 1
  <2>1. Cardinality(pending') = Cardinality(pending) - 1
    BY <1>2, PendingFinite, FS_RemoveElement DEF SwarmInv
  <2>2. Cardinality(pending') \in Nat
    BY <1>4, FS_CardinalityType DEF CountInv
  <2> QED
    BY <2>1, <2>2, PendingFinite DEF SwarmInv
<1>6. MaxCost * Cardinality(pending') + MaxCost = MaxCost * Cardinality(pending)
  BY <1>5, CostOfOne
<1>7. MaxCost * Cardinality(pending) \in Nat /\ MaxCost * Cardinality(pending') \in Nat
      /\ MaxCost * Size \in Nat
  <2>1. Cardinality(pending') \in Nat /\ Size \in Nat
    BY <1>5, SwarmAssumption
  <2> QED
    BY <1>5, <2>1, CostMonotone
<1>8. calls \in Nat /\ spent \in Nat /\ max_calls \in Nat
  BY DEF SwarmInv, CountInv
<1>9. OverspendBounded'
  <2> DEFINE left == MaxCost * Cardinality(pending)
             more == MaxCost * Cardinality(pending')
             most == MaxCost * Size
  <2>1. left \in Nat /\ more \in Nat /\ most \in Nat /\ more + MaxCost = left
    BY <1>6, <1>7
  <2>2. Usd > 0 => spent + left <= Usd - 1 + most
    BY DEF SwarmInv, OverspendBounded
  <2>3. calls' + Cardinality(pending') <= max_calls' - 1 + Size
    BY <1>2, <1>5, <1>8, SwarmAssumption DEF SwarmInv, OverspendBounded
  <2> HIDE DEF left, more, most
  <2>4. Usd > 0 => spent' + more <= Usd - 1 + most
    BY <1>1, <1>3, <1>8, <2>1, <2>2, SwarmAssumption
  <2> QED
    BY <2>3, <2>4 DEF OverspendBounded, more, most
<1> QED
  BY <1>4, <1>9 DEF SwarmInv

\* Every step of a run is a wave, or keeps what was called and who is waited for.
LEMMA AdvanceCalls ==
  ASSUME Advance
  PROVE  \/ \E ph, callers : Wave(callers) /\ Call(ph, callers)
         \/ UNCHANGED <<calls, spent, pending, max_calls>>
<1> DEFINE Called == \E ph, callers : Wave(callers) /\ Call(ph, callers)
           Quiet == UNCHANGED <<calls, spent, pending, max_calls>>
<1>1. Wave(Members) /\ \A c : Wave({c})
  BY Zenon DEF Wave
<1>2. \A ph : (Call(ph, Members) => Called) /\ \A c : Call(ph, {c}) => Called
  BY <1>1, Zenon
<1>3. \A a, w : Finish(a, w) => Quiet
  BY Zenon DEF Finish, ledger, specification
<1> SUFFICES Called \/ Quiet
  BY DEF Called, Quiet
<1> HIDE DEF Called, Quiet
<1>4. CASE Start
  BY <1>2, <1>4 DEF Start
<1>5. CASE Planned \/ Compose \/ Opened
  BY <1>2, <1>5 DEF Planned, Compose, Opened
<1>6. CASE Fanned \/ NothingToCompose \/ Composed \/ Picked
  BY <1>3, <1>6 DEF Fanned, NothingToCompose, Composed, Picked
<1>7. CASE Relayed
  <2>1. (\E a, w : Finish(a, w)) \/ Call("relay", {round + 1})
    BY <1>7, Zenon DEF Relayed
  <2> QED
    BY <1>2, <1>3, <2>1, Zenon
<1>8. CASE Tournament
  BY <1>2, <1>3, <1>8 DEF Tournament
<1>9. CASE Voted
  <2>1. (\E a, w : Finish(a, w)) \/ Call("vote", Members) \/ Call("tiebreak", {Judge})
    BY <1>9, Zenon DEF Voted
  <2> QED
    BY <1>2, <1>3, <2>1, Zenon
<1> QED
  BY <1>4, <1>5, <1>6, <1>7, <1>8, <1>9 DEF Advance

LEMMA QuietKeeps ==
  ASSUME SwarmInv, UNCHANGED <<calls, spent, pending, max_calls>>
  PROVE  SwarmInv'
BY DEF SwarmInv, CountInv, OverspendBounded

LEMMA NextKeeps ==
  ASSUME SwarmInv, [Next]_vars
  PROVE  SwarmInv'
<1>1. CASE Outside
  BY <1>1, QuietKeeps DEF Outside, ledger, specification
<1>2. CASE Advance
  BY <1>2, AdvanceCalls, CallKeeps, QuietKeeps
<1>3. ASSUME NEW c \in Callers, Return(c)
      PROVE  SwarmInv'
  BY <1>3, ReturnKeeps
<1>4. CASE UNCHANGED vars
  BY <1>4, QuietKeeps DEF vars, ledger, specification
<1> QED
  BY <1>1, <1>2, <1>3, <1>4 DEF Next

\* However many members are asked at once and however the calls interleave, a swarm
\* spends at most one wave of calls more than its budget (Governor.allow).
THEOREM RunOverspendBounded == Spec => []OverspendBounded
<1>1. SwarmInv => OverspendBounded
  BY DEF SwarmInv
<1> QED
  BY <1>1, InitSwarmInv, NextKeeps, PTL DEF Spec

-----------------------------------------------------------------------------
(* What a run ends with *)

\* Who has spoken: a text of a member, or a seat with a position, makes the swarm ok.
Spoken ==
  /\ \A c \in Callers : reply[c] = "blank" => blank
  /\ \A m \in Members : reply[m] = "text" => anyOk
  /\ seats # {} => anyOk

\* A run that has not started has asked nobody.
Fresh ==
  phase = "start" => round = 1 /\ winner = NoOne /\ \A c \in Callers : reply[c] = "none"

\* The links of a relay before the one asked have answered, those behind it have not;
\* an answer among them is kept.
Links ==
  phase = "relay" =>
    /\ topology = "relay" /\ round \in Members /\ pending \subseteq {round}
    /\ \A m \in Members : m < round /\ reply[m] = "text" => winner # NoOne
    /\ \A m \in Members : m > round => reply[m] = "none"

\* A vote is of a council, and the judge is only asked when there is a choice.
Choices ==
  /\ phase = "vote" => topology = "council"
  /\ phase = "pick" => candidates # {}
  /\ phase = "tiebreak" => candidates \cap seats # {}

\* There is an answer unless nothing was good, or the council voted for nobody seated.
Kept(a) ==
  \/ topology = "fanout" \/ a = "text"
  \/ IF topology = "council" THEN candidates \cap seats = {} ELSE Good = {}

Ended == phase = "done" /\ ~blank => Kept(answer)

RunInv == TypeOK /\ Spoken /\ Fresh /\ Links /\ Choices /\ Ended

Replies == {"none", "text", "blank", "failed", "killed"}
Waves == {"plan", "answer", "relay", "vote", "compose", "pick", "tiebreak"}

\* Every set of members has a first.
LEMMA FirstOf ==
  ASSUME NEW S \in SUBSET Members, S # {}
  PROVE  First(S) \in S
<1>1. S \subseteq Nat
  BY SwarmAssumption DEF Members
<1>2. PICK x \in S : \A y \in S : ~ (<<y, x>> \in OpToRel(<, Nat))
  BY <1>1, NatLessThanWellFounded, WFMin
<1>3. ASSUME NEW y \in S PROVE x <= y
  <2>1. x \in Nat /\ y \in Nat /\ <<y, x>> \in Nat \X Nat
    BY <1>1
  <2>2. ~(y < x)
    BY <1>2, <2>1, Zenon DEF OpToRel
  <2> QED
    BY <2>1, <2>2
<1> QED
  BY <1>3 DEF First

LEMMA RunTypes ==
  /\ Members \subseteq Callers /\ Judge \in Callers /\ NoOne \notin Members
  /\ \A m \in Members : m \in Nat /\ m >= 1 /\ m <= Size
  /\ Good \subseteq Members /\ Restated \subseteq Members
  /\ \A v : MostVoted(v) \subseteq Members
BY SwarmAssumption DEF Members, Callers, Judge, NoOne, Good, Restated, MostVoted

LEMMA InitRun == Init => RunInv
<1> SUFFICES ASSUME Init PROVE RunInv
  OBVIOUS
<1>1. TypeOK
  <2>1. 1 \in 1..(Size + Rounds)
    BY SwarmAssumption
  <2>2. reply \in [Callers -> {"none", "text", "blank", "failed", "killed"}]
    BY DEF Init
  <2> QED
    BY <2>1, <2>2 DEF Init, TypeOK
<1>2. \A c \in Callers : reply[c] = "none"
  BY DEF Init
<1>3. phase = "start" /\ seats = {} /\ round = 1 /\ winner = NoOne
  BY DEF Init
<1> QED
  BY <1>1, <1>2, <1>3, RunTypes DEF RunInv, Spoken, Fresh, Links, Choices, Ended

\* A wave goes out: it has no reply yet, or it was killed.
LEMMA CallReplies ==
  ASSUME RunInv, NEW ph, NEW callers \in SUBSET Callers, Call(ph, callers)
  PROVE  /\ phase' = ph /\ pending' \subseteq callers
         /\ reply' \in [Callers -> Replies] /\ exhausted' \in {"no", "killed", "budget"}
         /\ \A c \in pending' : reply'[c] = "none"
         /\ \A c \in Callers : IF c \in callers THEN reply'[c] \in {"none", "killed"}
                               ELSE reply'[c] = reply[c]
         /\ UNCHANGED <<topology, max_calls, calls, spent, anyOk, blank, aborted, gate, late>>
<1>1. reply \in [Callers -> Replies] /\ exhausted \in {"no", "killed", "budget"}
  BY DEF RunInv, TypeOK, Replies
<1>2. /\ phase' = ph /\ pending' = IF Allowed THEN callers ELSE {}
      /\ reply' = [c \in Callers |->
           IF c \notin callers THEN reply[c] ELSE IF Allowed THEN "none" ELSE "killed"]
      /\ exhausted' = Exhausted
      /\ UNCHANGED <<topology, max_calls, calls, spent, anyOk, blank, aborted, gate, late>>
  BY DEF Call, specification, ledger, room
<1>3. exhausted' \in {"no", "killed", "budget"}
  BY <1>1, <1>2 DEF Exhausted
<1> HIDE DEF Allowed
<1>4. reply' \in [Callers -> Replies]
  BY <1>1, <1>2 DEF Replies
<1> QED
  BY <1>2, <1>3, <1>4

LEMMA CallRun ==
  ASSUME RunInv, NEW ph \in Waves, NEW callers \in SUBSET Callers, Call(ph, callers),
         round' \in 1..(Size + Rounds), seats' \subseteq Members, candidates' \subseteq Members,
         winner' \in Members \cup {NoOne}, answer' = answer,
         seats' # {} => anyOk, Links', Choices'
  PROVE  RunInv'
<1>1. /\ phase' = ph /\ pending' \subseteq callers
      /\ reply' \in [Callers -> Replies] /\ exhausted' \in {"no", "killed", "budget"}
      /\ \A c \in pending' : reply'[c] = "none"
      /\ \A c \in Callers : IF c \in callers THEN reply'[c] \in {"none", "killed"}
                            ELSE reply'[c] = reply[c]
      /\ UNCHANGED <<topology, max_calls, calls, spent, anyOk, blank, aborted, gate, late>>
  BY CallReplies
<1>2. phase' \notin {"start", "done"}
  BY <1>1 DEF Waves
<1>3. TypeOK'
  BY <1>1, <1>2 DEF RunInv, TypeOK, Waves, Replies
<1>4. Spoken'
  <2>1. \A c \in Callers : reply'[c] \in {"text", "blank"} => reply'[c] = reply[c]
    BY <1>1
  <2> QED
    BY <1>1, <2>1, RunTypes DEF RunInv, Spoken
<1>5. Fresh' /\ Ended'
  BY <1>2 DEF Fresh, Ended
<1> QED
  BY <1>3, <1>4, <1>5 DEF RunInv

\* The run is over: what it answers is kept.
LEMMA FinishRun ==
  ASSUME RunInv, NEW a \in {"none", "blank", "text"}, NEW w \in Members \cup {NoOne},
         Finish(a, w), pending = {}, seats' \subseteq Members, candidates' \subseteq Members,
         seats' # {} => anyOk, ~blank => (Kept(a))'
  PROVE  RunInv'
<1>1. /\ phase' = "done" /\ answer' = a /\ winner' = w /\ exhausted' = Exhausted
      /\ UNCHANGED <<topology, max_calls, round, pending, reply, calls, spent, anyOk, blank,
                     aborted, gate, late>>
  BY DEF Finish, specification, ledger, room
<1>2. exhausted' \in {"no", "killed", "budget"}
  BY <1>1 DEF Exhausted, RunInv, TypeOK
<1>3. TypeOK'
  BY <1>1, <1>2 DEF RunInv, TypeOK
<1>4. Spoken'
  BY <1>1 DEF RunInv, Spoken
<1>5. Fresh' /\ Links' /\ Choices'
  BY <1>1 DEF Fresh, Links, Choices
<1>6. Ended'
  BY <1>1 DEF Ended, Kept
<1> QED
  BY <1>3, <1>4, <1>5, <1>6 DEF RunInv

\* What the invariant says where a wave is back.
LEMMA BackFacts ==
  ASSUME RunInv
  PROVE  /\ round \in 1..(Size + Rounds) /\ seats \subseteq Members /\ candidates \subseteq Members
         /\ winner \in Members \cup {NoOne}
         /\ seats # {} => anyOk
         /\ Good # {} => anyOk
         /\ Members \in SUBSET Callers /\ {Judge} \in SUBSET Callers
BY RunTypes DEF RunInv, TypeOK, Spoken, Good

LEMMA StartRun == ASSUME RunInv, Start PROVE RunInv'
<1>1. phase = "start" /\ UNCHANGED <<round, seats, candidates, winner, answer>>
  BY DEF Start, Back, result
<1>2. /\ round = 1 /\ winner = NoOne /\ \A c \in Callers : reply[c] = "none"
  BY <1>1 DEF RunInv, Fresh
<1>3. CASE topology = "relay"
  <2>1. Call("relay", {1})
    BY <1>3 DEF Start
  <2>2. 1 \in Members /\ {1} \in SUBSET Callers
    BY SwarmAssumption, RunTypes DEF Members
  <2>3. /\ phase' = "relay" /\ pending' \subseteq {1} /\ topology' = topology
        /\ \A c \in Callers : c # 1 => reply'[c] = "none"
    BY <1>2, <2>1, <2>2, CallReplies
  <2>4. \A m \in Members : ~(m < 1) /\ (m > 1 => m # 1)
    BY RunTypes
  <2>5. Links' /\ Choices'
    BY <1>1, <1>2, <1>3, <2>2, <2>3, <2>4, RunTypes DEF Links, Choices
  <2> QED
    BY <1>1, <2>1, <2>2, <2>5, CallRun, BackFacts DEF Waves
<1>4. ASSUME NEW ph \in {"plan", "answer"}, NEW callers \in SUBSET Callers, Call(ph, callers)
      PROVE  RunInv'
  <2>1. Links' /\ Choices'
    BY <1>4 DEF Call, Links, Choices
  <2> QED
    BY <1>1, <1>4, <2>1, CallRun, BackFacts DEF Waves
<1>5. CASE topology # "relay"
  <2>1. Call("plan", {Judge}) \/ Call("answer", Members)
    BY <1>5 DEF Start
  <2> QED
    BY <1>4, <2>1, BackFacts
<1> QED
  BY <1>3, <1>5

\* A wave of answers, or of the judge composing, goes out behind another.
LEMMA AnswerRun == ASSUME RunInv, Planned \/ Compose PROVE RunInv'
<1>1. PICK ph \in {"answer", "compose"}, callers \in SUBSET Callers : Call(ph, callers)
  BY BackFacts DEF Planned, Compose
<1>2. UNCHANGED <<round, seats, candidates, winner, answer>>
  BY DEF Planned, Compose, result
<1>3. Links' /\ Choices'
  BY <1>1 DEF Call, Links, Choices
<1> QED
  BY <1>1, <1>2, <1>3, CallRun, BackFacts DEF Waves

LEMMA OverRun == ASSUME RunInv, Fanned \/ NothingToCompose \/ Composed PROVE RunInv'
<1>1. NoOne \in Members \cup {NoOne} /\ UNCHANGED <<seats, candidates>> /\ pending = {}
  BY DEF Fanned, NothingToCompose, Composed, Back
<1>2. CASE Fanned
  <2>1. Finish("text", NoOne)
    BY <1>2 DEF Fanned
  <2>2. (Kept("text"))'
    BY DEF Kept
  <2> QED
    BY <1>1, <2>1, <2>2, FinishRun, BackFacts
<1>3. CASE NothingToCompose
  <2>1. Finish("none", NoOne) /\ Good = {} /\ topology # "council"
    BY <1>3 DEF NothingToCompose
  <2>2. (Kept("none"))'
    BY <2>1 DEF Kept, Finish, specification, Good
  <2> QED
    BY <1>1, <2>1, <2>2, FinishRun, BackFacts
<1>4. CASE Composed
  <2> DEFINE a == IF reply[Judge] \in {"text", "blank"} THEN reply[Judge] ELSE "text"
  <2>1. Finish(a, NoOne)
    BY <1>4 DEF Composed
  <2>2. a \in {"none", "blank", "text"} /\ (~blank => a = "text")
    BY RunTypes DEF RunInv, Spoken
  <2> HIDE DEF a
  <2>3. PICK b \in {"none", "blank", "text"} : b = a
    BY <2>2
  <2>4. ~blank => (Kept(b))'
    BY <2>2, <2>3 DEF Kept
  <2> QED
    BY <1>1, <2>1, <2>3, <2>4, FinishRun, BackFacts
<1> QED
  BY <1>2, <1>3, <1>4

\* A link of the relay answered, or did not: the next one is asked, or the last
\* answer is the swarm's.
LEMMA RelayRun == ASSUME RunInv, Relayed PROVE RunInv'
<1> DEFINE prev == IF reply[round] = "text" THEN round ELSE winner
<1>1. /\ phase = "relay" /\ pending = {} /\ UNCHANGED <<seats, candidates>>
      /\ IF round = Size
           THEN Finish(IF prev = NoOne THEN "none" ELSE "text", prev)
           ELSE winner' = prev /\ round' = round + 1 /\ Call("relay", {round + 1})
                /\ UNCHANGED answer
  BY DEF Relayed, Back
<1>2. /\ topology = "relay" /\ round \in Members
      /\ \A m \in Members : m < round /\ reply[m] = "text" => winner # NoOne
      /\ \A m \in Members : m > round => reply[m] = "none"
  BY <1>1 DEF RunInv, Links
<1>3. PICK w \in Members \cup {NoOne} : w = prev
  BY <1>2, BackFacts
<1>4. \A m \in Members : m <= round /\ reply[m] = "text" => w # NoOne
  BY <1>2, <1>3, RunTypes
<1> HIDE DEF prev
<1>5. CASE round = Size
  <2>1. PICK a \in {"none", "text"} : a = IF w = NoOne THEN "none" ELSE "text"
    OBVIOUS
  <2>2. Finish(a, w)
    BY <1>1, <1>3, <1>5, <2>1
  <2>3. a = "none" => Good = {}
    BY <1>4, <1>5, <2>1, RunTypes DEF Good
  <2>4. (Kept(a))'
    BY <1>2, <2>1, <2>2, <2>3 DEF Kept, Finish, specification, Good
  <2> QED
    BY <1>1, <2>2, <2>4, FinishRun, BackFacts
<1>6. CASE round # Size
  <2>1. /\ winner' = w /\ round' = round + 1 /\ Call("relay", {round + 1}) /\ answer' = answer
    BY <1>1, <1>3, <1>6
  <2>2. round + 1 \in Members /\ {round + 1} \in SUBSET Callers /\ round \in Nat
    BY <1>2, <1>6, SwarmAssumption, RunTypes DEF Members
  <2>3. /\ phase' = "relay" /\ topology' = topology /\ pending' \subseteq {round + 1}
        /\ \A c \in Callers : c # round + 1 => reply'[c] = reply[c]
        /\ reply'[round + 1] # "text"
    BY <2>1, <2>2, RunTypes, CallReplies
  <2>4. \A m \in Members : m < round + 1 /\ reply'[m] = "text" => w # NoOne
    BY <1>4, <2>2, <2>3, RunTypes
  <2>5. \A m \in Members : m > round + 1 => reply'[m] = "none"
    BY <1>2, <2>2, <2>3, RunTypes
  <2>6. Links' /\ Choices'
    BY <1>2, <2>1, <2>2, <2>3, <2>4, <2>5 DEF Links, Choices
  <2>7. round' \in 1..(Size + Rounds)
    BY <2>1, <2>2, SwarmAssumption DEF Members
  <2> QED
    BY <1>1, <2>1, <2>2, <2>6, <2>7, CallRun, BackFacts DEF Waves
<1> QED
  BY <1>5, <1>6

LEMMA TournamentRun == ASSUME RunInv, Tournament PROVE RunInv'
<1>1. /\ pending = {} /\ topology = "tournament" /\ candidates' = Good /\ UNCHANGED seats
  BY DEF Tournament, Back
<1>2. CASE Cardinality(Good) > 1
  <2>1. Call("pick", {Judge}) /\ UNCHANGED <<round, seats, winner, answer>>
    BY <1>2 DEF Tournament
  <2>2. Good # {}
    BY <1>2, FS_EmptySet
  <2>3. Links' /\ Choices'
    BY <1>1, <2>1, <2>2 DEF Call, Links, Choices
  <2> QED
    BY <1>1, <2>1, <2>3, CallRun, BackFacts, RunTypes DEF Waves
<1>3. CASE ~(Cardinality(Good) > 1)
  <2>1. PICK a \in {"none", "text"} : a = IF Good = {} THEN "none" ELSE "text"
    OBVIOUS
  <2>2. PICK w \in Members \cup {NoOne} : w = IF Good = {} THEN NoOne ELSE First(Good)
    BY FirstOf, RunTypes
  <2>3. Finish(a, w)
    BY <1>3, <2>1, <2>2 DEF Tournament
  <2>4. (Kept(a))'
    BY <1>1, <2>1, <2>3 DEF Kept, Finish, specification, Good
  <2> QED
    BY <1>1, <2>3, <2>4, FinishRun, BackFacts, RunTypes
<1> QED
  BY <1>2, <1>3

\* The judge has a choice, so that somebody is picked whatever it says.
LEMMA PickedRun == ASSUME RunInv, Picked PROVE RunInv'
<1> DEFINE S == candidates \cap (IF phase = "pick" THEN Members ELSE seats)
<1>1. /\ phase \in {"pick", "tiebreak"} /\ pending = {} /\ UNCHANGED <<seats, candidates>>
      /\ \E w \in Picks(S) : Finish("text", w)
  BY DEF Picked, Back
<1>2. S \subseteq Members /\ S # {}
  <2>1. CASE phase = "pick"
    BY <2>1, BackFacts DEF RunInv, Choices
  <2>2. CASE phase = "tiebreak"
    BY <2>2, BackFacts DEF RunInv, Choices
  <2> QED
    BY <1>1, <2>1, <2>2
<1> HIDE DEF S
<1>3. PICK w \in Picks(S) : Finish("text", w)
  BY <1>1
<1>4. w \in Members
  BY <1>2, FirstOf DEF Picks
<1>5. (Kept("text"))'
  BY DEF Kept
<1> QED
  BY <1>1, <1>3, <1>4, <1>5, FinishRun, BackFacts

LEMMA OpenedRun == ASSUME RunInv, Opened PROVE RunInv'
<1>1. /\ topology = "council" /\ seats' = Good /\ round' = 2 /\ Call("vote", Members)
      /\ UNCHANGED <<candidates, winner, answer>>
  BY DEF Opened
<1>2. 2 \in 1..(Size + Rounds)
  BY SwarmAssumption
<1>3. Links' /\ Choices'
  BY <1>1 DEF Call, specification, Links, Choices
<1> QED
  BY <1>1, <1>2, <1>3, CallRun, BackFacts, RunTypes DEF Waves

\* A vote: who has spoken, or has a seat, keeps the swarm ok; the last vote decides
\* unless it is for nobody who is seated.
LEMMA VotedRun == ASSUME RunInv, Voted PROVE RunInv'
<1>1. phase = "vote" /\ pending = {} /\ topology = "council" /\ seats' = Restated
  BY DEF Voted, Back, RunInv, Choices
<1>2. Restated # {} => anyOk
  BY DEF Restated, RunInv, Spoken
<1>3. CASE round < Rounds
  <2>1. /\ round' = round + 1 /\ Call("vote", Members) /\ UNCHANGED <<candidates, winner, answer>>
    BY <1>3 DEF Voted
  <2>2. round' \in 1..(Size + Rounds)
    BY <1>3, <2>1, BackFacts, SwarmAssumption
  <2>3. Links' /\ Choices'
    BY <1>1, <2>1 DEF Call, specification, Links, Choices
  <2> QED
    BY <1>1, <1>2, <2>1, <2>2, <2>3, CallRun, BackFacts, RunTypes DEF Waves
<1>4. CASE ~(round < Rounds)
  <2>1. PICK vote \in [Good -> Members \cup {NoOne}] :
          /\ candidates' = MostVoted(vote)
          /\ LET tied == MostVoted(vote) \cap Restated IN
             IF Cardinality(tied) > 1
               THEN Call("tiebreak", {Judge}) /\ UNCHANGED <<round, winner, answer>>
               ELSE Finish(IF tied = {} THEN "none" ELSE "text",
                           IF tied = {} THEN NoOne ELSE First(tied))
    BY <1>4 DEF Voted
  <2> DEFINE tied == MostVoted(vote) \cap Restated
  <2>2. tied \subseteq Members /\ tied = candidates' \cap seats'
    BY <1>1, <2>1, RunTypes
  <2>3. candidates' \subseteq Members /\ seats' \subseteq Members
    BY <1>1, <2>1, RunTypes
  <2>4. CASE Cardinality(tied) > 1
    <3>1. Call("tiebreak", {Judge}) /\ UNCHANGED <<round, winner, answer>>
      BY <2>1, <2>4
    <3>2. tied # {}
      BY <2>4, FS_EmptySet
    <3>3. Links' /\ Choices'
      BY <2>2, <3>1, <3>2 DEF Call, Links, Choices
    <3> QED
      BY <1>1, <1>2, <2>3, <3>1, <3>3, CallRun, BackFacts DEF Waves
  <2>5. CASE ~(Cardinality(tied) > 1)
    <3>1. Finish(IF tied = {} THEN "none" ELSE "text", IF tied = {} THEN NoOne ELSE First(tied))
      BY <2>1, <2>5
    <3>2. tied # {} => First(tied) \in Members
      BY <2>2, FirstOf
    <3> HIDE DEF tied
    <3>3. PICK a \in {"none", "text"} : a = IF tied = {} THEN "none" ELSE "text"
      OBVIOUS
    <3>4. PICK w \in Members \cup {NoOne} : w = IF tied = {} THEN NoOne ELSE First(tied)
      BY <3>2
    <3>5. Finish(a, w)
      BY <3>1, <3>3, <3>4
    <3>6. (Kept(a))'
      BY <1>1, <2>2, <3>3, <3>5 DEF Kept, Finish, specification
    <3> QED
      BY <1>1, <1>2, <2>3, <3>5, <3>6, FinishRun
  <2> QED
    BY <2>4, <2>5
<1> QED
  BY <1>3, <1>4

\* A call returns: it was asked, and a run that is over has asked nobody.
LEMMA ReturnRun == ASSUME RunInv, NEW c \in Callers, Return(c) PROVE RunInv'
<1>1. PICK x \in {"text", "blank", "failed"}, usd \in 0..MaxCost :
        /\ reply' = [reply EXCEPT ![c] = x]
        /\ spent' = spent + usd
        /\ anyOk' = (anyOk \/ (c # Judge /\ x # "failed"))
        /\ blank' = (blank \/ x = "blank")
  BY DEF Return
<1>2. /\ c \in pending /\ pending' = pending \ {c} /\ calls' = calls + 1
      /\ UNCHANGED <<topology, max_calls, phase, round, seats, candidates, winner, answer,
                     exhausted, aborted, gate, late>>
  BY DEF Return, specification, result, room
<1>3. phase # "start" /\ phase # "done"
  BY <1>2 DEF RunInv, TypeOK
<1>4. reply' \in [Callers -> Replies] /\ reply'[c] = x
      /\ \A q \in Callers : q # c => reply'[q] = reply[q]
  BY <1>1 DEF RunInv, TypeOK, Replies
<1>5. TypeOK'
  <2>1. spent' \in Nat /\ calls' \in Nat
    BY <1>1, <1>2, SwarmAssumption DEF RunInv, TypeOK
  <2>2. anyOk' \in BOOLEAN /\ blank' \in BOOLEAN
    BY <1>1, Zenon
  <2>3. pending' \subseteq Callers /\ \A q \in pending' : reply'[q] = "none"
    BY <1>2, <1>3, <1>4 DEF RunInv, TypeOK
  <2> QED
    BY <1>2, <1>3, <1>4, <2>1, <2>2, <2>3 DEF RunInv, TypeOK, Replies
<1>6. Spoken'
  <2>1. (blank => blank') /\ (anyOk => anyOk') /\ (x = "blank" => blank')
        /\ (c # Judge /\ x = "text" => anyOk')
    BY <1>1
  <2>2. \A m \in Members : m # Judge
    BY RunTypes DEF Judge, NoOne
  <2> QED
    BY <1>2, <1>4, <2>1, <2>2, RunTypes DEF RunInv, Spoken
<1>7. Fresh' /\ Ended'
  BY <1>2, <1>3 DEF Fresh, Ended
<1>8. Links'
  <2> SUFFICES ASSUME phase = "relay"
               PROVE  /\ topology = "relay" /\ round \in Members /\ pending' \subseteq {round}
                      /\ \A m \in Members : m < round /\ reply'[m] = "text" => winner # NoOne
                      /\ \A m \in Members : m > round => reply'[m] = "none"
    BY <1>2 DEF Links
  <2>1. /\ topology = "relay" /\ round \in Members /\ pending \subseteq {round}
        /\ \A m \in Members : m < round /\ reply[m] = "text" => winner # NoOne
        /\ \A m \in Members : m > round => reply[m] = "none"
    BY DEF RunInv, Links
  <2>2. c = round
    BY <1>2, <2>1
  <2>3. \A m \in Members : m < round \/ m > round => reply'[m] = reply[m]
    BY <1>4, <2>2, RunTypes
  <2> QED
    BY <1>2, <2>1, <2>3
<1>9. Choices'
  BY <1>2 DEF RunInv, Choices
<1> QED
  BY <1>5, <1>6, <1>7, <1>8, <1>9 DEF RunInv

LEMMA OutsideRun == ASSUME RunInv, Outside PROVE RunInv'
<1>1. UNCHANGED <<topology, max_calls, phase, round, pending, reply, seats, candidates, winner,
                  answer, calls, spent, anyOk, blank, exhausted>>
  BY DEF Outside, specification, result, ledger
<1>2. aborted' \in BOOLEAN /\ gate' \in BOOLEAN /\ late' \in BOOLEAN
  <2>1. aborted \in BOOLEAN /\ gate \in BOOLEAN /\ late \in BOOLEAN
    BY DEF RunInv, TypeOK
  <2> QED
    BY <2>1, Zenon DEF Outside, Abort, Gate, TimeOver
<1>3. TypeOK'
  BY <1>1, <1>2 DEF RunInv, TypeOK
<1>4. Spoken' /\ Fresh' /\ Links' /\ Choices'
  BY <1>1 DEF RunInv, Spoken, Fresh, Links, Choices
<1>5. Ended'
  BY <1>1 DEF RunInv, Ended, Kept, Good
<1> QED
  BY <1>3, <1>4, <1>5 DEF RunInv

LEMMA StillRun == ASSUME RunInv, UNCHANGED vars PROVE RunInv'
<1>1. UNCHANGED <<topology, max_calls, phase, round, pending, reply, seats, candidates, winner,
                  answer, calls, spent, anyOk, blank, exhausted, aborted, gate, late>>
  BY DEF vars, specification, result, ledger, room
<1>2. TypeOK'
  BY <1>1 DEF RunInv, TypeOK
<1>3. Spoken' /\ Fresh' /\ Links' /\ Choices'
  BY <1>1 DEF RunInv, Spoken, Fresh, Links, Choices
<1>4. Ended'
  BY <1>1 DEF RunInv, Ended, Kept, Good
<1> QED
  BY <1>2, <1>3, <1>4 DEF RunInv

LEMMA NextRun == RunInv /\ [Next]_vars => RunInv'
<1> SUFFICES ASSUME RunInv, [Next]_vars PROVE RunInv'
  OBVIOUS
<1>1. CASE Advance
  BY <1>1, StartRun, AnswerRun, OverRun, RelayRun, TournamentRun, PickedRun, OpenedRun, VotedRun
  DEF Advance
<1> QED
  BY <1>1, OutsideRun, ReturnRun, StillRun DEF Next

THEOREM RunInvariant == Spec => []RunInv
BY InitRun, NextRun, PTL DEF Spec

\* The variables of a run keep their types, whoever has answered has a reply, and nobody
\* works for a run that is over (runSwarm).
THEOREM RunTypeCorrect == Spec => []TypeOK
<1>1. RunInv => TypeOK
  BY DEF RunInv
<1> QED
  BY <1>1, RunInvariant, PTL

\* Whatever topology, size, budget and weights a swarm has, and whoever of it is killed,
\* fails or is never asked: a good answer makes it come out ok, unless a blank reply or
\* a vote for a seat without a position took the answer away (runSwarm).
THEOREM RunLosesNothing == Spec => []NothingLost
<1>1. RunInv => NothingLost
  <2> SUFFICES ASSUME RunInv, phase = "done", ~blank,
                      IF topology = "council" THEN candidates \cap seats # {} ELSE Good # {}
               PROVE  Ok
    BY DEF NothingLost
  <2>1. anyOk
    <3>1. CASE topology = "council"
      BY <3>1 DEF RunInv, Spoken
    <3>2. CASE topology # "council"
      BY <3>2, BackFacts
    <3> QED
      BY <3>1, <3>2
  <2>2. topology = "fanout" \/ answer = "text"
    BY DEF RunInv, Ended, Kept
  <2> QED
    BY <2>1, <2>2 DEF Ok
<1> QED
  BY <1>1, RunInvariant, PTL
=============================================================================
