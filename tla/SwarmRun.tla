------------------------------- MODULE SwarmRun -------------------------------
(***************************************************************************)
(* One run of a swarm (runSwarm) under its governor.  Every topology is a  *)
(* series of waves of calls: all members at once, one link of a relay, or  *)
(* the judge.  The governor is asked for a whole wave before any of its    *)
(* calls returns, and each call is recorded as it returns; meanwhile the   *)
(* room may be held or killed and the time may run out.                    *)
(*                                                                         *)
(* A reply is a text, a blank (ok, but nothing in it), a failure, or the   *)
(* killed call of a member that was never asked.  What the texts say is a  *)
(* choice where the code parses it: votes, picks.  Members are numbered in *)
(* the order of the specification.                                         *)
(***************************************************************************)
EXTENDS Integers, FiniteSets

CONSTANTS Size,      \* how many members
          Weight,    \* what the vote of each counts
          Rounds,    \* rounds of a council
          Usd,       \* budget.usd, none when 0
          CallCaps,  \* what budget.max_calls may be
          MaxCost    \* the most one call may cost
ASSUME SwarmAssumption ==
  /\ Size \in Nat \ {0} /\ Rounds \in Nat \ {0} /\ CallCaps \subseteq Nat \ {0}
  /\ Usd \in Nat /\ MaxCost \in Nat
  /\ Weight \in [1..Size -> Nat \ {0}]

VARIABLES
  topology, max_calls,    \* the specification of the swarm
  phase,       \* which wave is out, or came back last
  round,       \* the link of a relay, the round of a council
  pending,     \* who has not answered yet
  reply,       \* the last reply of each
  seats,       \* the seats of a council that have a position
  candidates,  \* those the judge picks from, or the most voted seats
  winner,
  answer,      \* the answer of the swarm
  calls, spent,   \* the ledger: calls made and what they cost
  exhausted,   \* the ledger: the first reason a call was not allowed
  anyOk,       \* some member's call was ok
  blank,       \* auxiliary: some ok reply was blank
  aborted, gate, late     \* the signal, the room's gate, the time is over

specification == <<topology, max_calls>>
result == <<seats, candidates, winner, answer>>
ledger == <<calls, spent, anyOk, blank>>
room == <<aborted, gate, late>>
vars == <<specification, phase, round, pending, reply, result, ledger, exhausted, room>>

Topologies == {"fanout", "closed", "fusion", "relay", "coordinator", "tournament",
               "council", "crew"}
Members == 1..Size
Judge == 0
Callers == Members \cup {Judge}
NoOne == 0

TypeOK ==
  /\ topology \in Topologies /\ max_calls \in CallCaps
  /\ phase \in {"start", "plan", "answer", "relay", "vote", "compose", "pick", "tiebreak", "done"}
  /\ round \in 1..(Size + Rounds)
  /\ pending \subseteq Callers
  /\ reply \in [Callers -> {"none", "text", "blank", "failed", "killed"}]
  /\ seats \subseteq Members /\ candidates \subseteq Members
  /\ winner \in Members \cup {NoOne}
  /\ answer \in {"none", "blank", "text"}
  /\ calls \in Nat /\ spent \in Nat
  /\ exhausted \in {"no", "killed", "budget"}
  /\ {anyOk, blank, aborted, gate, late} \subseteq BOOLEAN
  \* Whoever has answered has a reply, and nobody works for a run that is over.
  /\ phase # "start" /\ phase # "done" => \A c \in pending : reply[c] = "none"
  /\ phase \in {"start", "done"} => pending = {}

Init ==
  /\ topology \in Topologies /\ max_calls \in CallCaps
  /\ phase = "start" /\ round = 1
  /\ pending = {} /\ reply = [c \in Callers |-> "none"]
  /\ seats = {} /\ candidates = {} /\ winner = NoOne /\ answer = "none"
  /\ calls = 0 /\ spent = 0 /\ exhausted = "no" /\ anyOk = FALSE /\ blank = FALSE
  /\ aborted = FALSE /\ gate = FALSE /\ late = FALSE

-----------------------------------------------------------------------------
(* The governor *)

OverBudget == (Usd > 0 /\ spent >= Usd) \/ calls >= max_calls \/ late

\* (A bug: a budget that is just spent still allows a call.)
Allowed_AtLimit == ~aborted /\ ~gate /\ ~(Usd > 0 /\ spent > Usd) /\ calls < max_calls /\ ~late

Allowed == ~aborted /\ ~gate /\ ~OverBudget

\* Why calls were refused, noted when the first is: killed before out of budget.
Exhausted ==
  IF Allowed \/ exhausted # "no" THEN exhausted
  ELSE IF aborted \/ gate THEN "killed"
  ELSE "budget"

\* The callers are all asked at once, or all killed.
Call(ph, callers) ==
  /\ phase' = ph
  /\ pending' = IF Allowed THEN callers ELSE {}
  /\ reply' = [c \in Callers |->
       IF c \notin callers THEN reply[c] ELSE IF Allowed THEN "none" ELSE "killed"]
  /\ exhausted' = Exhausted
  /\ UNCHANGED <<specification, ledger, room>>

\* A call comes back, if it does, and is recorded; it never throws.
Return(c) ==
  /\ c \in pending
  /\ \E r \in {"text", "blank", "failed"}, usd \in 0..MaxCost :
       /\ reply' = [reply EXCEPT ![c] = r]
       /\ spent' = spent + usd
       /\ anyOk' = (anyOk \/ (c # Judge /\ r # "failed"))
       /\ blank' = (blank \/ r = "blank")
  /\ pending' = pending \ {c}
  /\ calls' = calls + 1
  /\ UNCHANGED <<specification, phase, round, result, exhausted, room>>

-----------------------------------------------------------------------------
(* The waves *)

Good == {m \in Members : reply[m] = "text"}

\* (A bug: the first reply of a wave is taken for all of them.)
Back_First(ph) == phase = ph

\* The wave of phase ph is back.
Back(ph) == phase = ph /\ pending = {}

\* The run is over; a last question to the governor may still note a reason.
Finish(a, w) ==
  /\ phase' = "done"
  /\ answer' = a /\ winner' = w
  /\ exhausted' = Exhausted
  /\ UNCHANGED <<specification, round, pending, reply, ledger, room>>

Start ==
  /\ Back("start")
  /\ CASE topology = "relay" -> Call("relay", {1})
       [] topology \in {"coordinator", "crew"} -> Call("plan", {Judge})
       [] OTHER -> Call("answer", Members)
  /\ UNCHANGED <<round, result>>

\* With a plan or without one, every member is given its part.
Planned == Back("plan") /\ Call("answer", Members) /\ UNCHANGED <<round, result>>

Fanned ==
  /\ Back("answer") /\ topology = "fanout"
  /\ Finish("text", NoOne) /\ UNCHANGED <<seats, candidates>>

\* closed, fusion and coordinator give the judge what is good; a crew reports anyway.
Compose ==
  /\ Back("answer")
  /\ \/ topology = "crew"
     \/ topology \in {"closed", "fusion", "coordinator"} /\ Good # {}
  /\ Call("compose", {Judge}) /\ UNCHANGED <<round, result>>

NothingToCompose ==
  /\ Back("answer") /\ topology \in {"closed", "fusion", "coordinator"} /\ Good = {}
  /\ Finish("none", NoOne) /\ UNCHANGED <<seats, candidates>>

\* (A bug: without the judge there is no answer.)
Composed_JudgeOnly ==
  /\ Back("compose")
  /\ Finish(IF reply[Judge] \in {"text", "blank"} THEN reply[Judge] ELSE "none", NoOne)
  /\ UNCHANGED <<seats, candidates>>

\* What the judge says is the answer; without it the parts are.
Composed ==
  /\ Back("compose")
  /\ Finish(IF reply[Judge] \in {"text", "blank"} THEN reply[Judge] ELSE "text", NoOne)
  /\ UNCHANGED <<seats, candidates>>

\* (A bug: a broken link is asked again.)
Relayed_Retry ==
  /\ Back("relay")
  /\ LET prev == IF reply[round] = "text" THEN round ELSE winner IN
     IF reply[round] = "text" /\ round = Size
       THEN Finish("text", prev) /\ UNCHANGED <<seats, candidates>>
       ELSE /\ winner' = prev
            /\ round' = IF reply[round] = "text" THEN round + 1 ELSE round
            /\ Call("relay", {round'})
            /\ UNCHANGED <<seats, candidates, answer>>

\* A broken link is skipped: the next one starts from the last good answer.
Relayed ==
  /\ Back("relay")
  /\ LET prev == IF reply[round] = "text" THEN round ELSE winner IN
     IF round = Size
       THEN /\ Finish(IF prev = NoOne THEN "none" ELSE "text", prev)
            /\ UNCHANGED <<seats, candidates>>
       ELSE /\ winner' = prev
            /\ round' = round + 1
            /\ Call("relay", {round + 1})
            /\ UNCHANGED <<seats, candidates, answer>>

\* The first of the candidates, when the judge picks none.
First(S) == CHOOSE m \in S : \A n \in S : m <= n

\* What the judge picks, if its reply can be read.
Picks(S) == IF reply[Judge] = "text" THEN S ELSE {First(S)}

Tournament ==
  /\ Back("answer") /\ topology = "tournament"
  /\ candidates' = Good
  /\ IF Cardinality(Good) > 1
       THEN Call("pick", {Judge}) /\ UNCHANGED <<round, seats, winner, answer>>
       ELSE /\ Finish(IF Good = {} THEN "none" ELSE "text",
                      IF Good = {} THEN NoOne ELSE First(Good))
            /\ UNCHANGED seats

Picked ==
  /\ Back("pick") \/ Back("tiebreak")
  /\ \E w \in Picks(candidates \cap (IF phase = "pick" THEN Members ELSE seats)) : Finish("text", w)
  /\ UNCHANGED <<seats, candidates>>

\* The positions are on the table: the seats vote.
Opened ==
  /\ Back("answer") /\ topology = "council"
  /\ seats' = Good
  /\ round' = 2
  /\ Call("vote", Members)
  /\ UNCHANGED <<candidates, winner, answer>>

\* A vote restates the position, and a blank one takes it back.
Restated == {m \in Members : reply[m] = "text" \/ (m \in seats /\ reply[m] # "blank")}

\* The weights of the votes each seat has, and the seats that have most.
Tally(vote, m) ==
  LET for == {n \in Good : vote[n] = m} IN
  LET sum[k \in 0..Size] == IF k = 0 THEN 0 ELSE sum[k - 1] + (IF k \in for THEN Weight[k] ELSE 0)
  IN sum[Size]
MostVoted(vote) ==
  {m \in Members : \A n \in Members : Tally(vote, n) <= Tally(vote, m)}

\* The votes of a round are in, none for oneself; the last round decides, among the
\* seats that have a position.
Voted ==
  /\ Back("vote")
  /\ seats' = Restated
  /\ IF round < Rounds
       THEN round' = round + 1 /\ Call("vote", Members) /\ UNCHANGED <<candidates, winner, answer>>
       ELSE \E vote \in [Good -> Members \cup {NoOne}] :
              /\ \A m \in Good : vote[m] # m
              /\ candidates' = MostVoted(vote)
              /\ LET tied == MostVoted(vote) \cap Restated IN
                 IF Cardinality(tied) > 1
                   THEN Call("tiebreak", {Judge}) /\ UNCHANGED <<round, winner, answer>>
                   ELSE Finish(IF tied = {} THEN "none" ELSE "text",
                               IF tied = {} THEN NoOne ELSE First(tied))

-----------------------------------------------------------------------------
(* The room and the clock *)

Abort == ~aborted /\ aborted' = TRUE /\ UNCHANGED <<gate, late>>
Gate == gate' = ~gate /\ UNCHANGED <<aborted, late>>
TimeOver == ~late /\ late' = TRUE /\ UNCHANGED <<aborted, gate>>

Outside ==
  /\ phase # "done"
  /\ Abort \/ Gate \/ TimeOver
  /\ UNCHANGED <<specification, phase, round, pending, reply, result, ledger, exhausted>>

Advance ==
  \/ Start \/ Planned \/ Fanned \/ Compose \/ NothingToCompose \/ Composed \/ Relayed
  \/ Tournament \/ Picked \/ Opened \/ Voted

Next == Outside \/ Advance \/ \E c \in Callers : Return(c)

\* The run goes on when a wave is back.  A call need not come back: it has no time
\* limit of its own, and the one of the budget is only looked at before a call.
Fairness == WF_vars(Advance)

Spec == Init /\ [][Next]_vars /\ Fairness

-----------------------------------------------------------------------------
(* Properties *)

\* The swarm's result is ok: some member was, and there is an answer.
Ok == anyOk /\ (topology = "fanout" \/ answer = "text")

\* What a swarm spends over its budget is at most one wave: every member in flight
\* was allowed before any of them was recorded (Governor.allow, Governor.record).
OverspendBounded ==
  /\ calls + Cardinality(pending) <= max_calls - 1 + Size
  /\ Usd > 0 => spent + MaxCost * Cardinality(pending) <= Usd - 1 + MaxCost * Size

\* Good answers are not lost: whoever is killed, fails or runs out of budget after
\* them, the swarm comes out ok.  A blank reply of the judge or of a seat takes an
\* answer away, and so does a council that votes for a seat without a position.
NothingLost ==
  phase = "done" /\ ~blank
    /\ (IF topology = "council" THEN candidates \cap seats # {} ELSE Good # {})
  => Ok

\* Every run whose calls come back ends: no topology asks for waves without end,
\* whatever fails, is refused or killed on the way (runSwarm).
RunEnds == []<>(pending = {}) => <>(phase = "done")
=============================================================================
