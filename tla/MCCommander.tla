---------------------------- MODULE MCCommander ----------------------------
(* Commander on small instances: a handler starts only while fewer than    *)
(* MaxSeals receipts have been computed or are due to handlers under way,  *)
(* and at most MaxRuns swarms start, all but one before the first receipt. *)
EXTENDS Commander, TLC

CONSTANTS MaxSeals, MaxRuns
ASSUME BoundsAssumption == MaxSeals \in Nat /\ MaxRuns \in Nat

Symmetric == Permutations(Requests) \cup Permutations(Tokens) \cup Permutations(Members)

Room == hashes + Cardinality({r \in Requests : req[r].pc # "idle"}) < MaxSeals

MCNext ==
  \/ /\ Room
     /\ \E r \in Requests : Receive(r)
     /\ runs' \in {runs, 1} \/ (hashes = 0 /\ runs' <= MaxRuns)
  \/ \E r \in Requests : Proceed(r)
  \/ \E j \in Jobs : ReadChain(j)
  \/ \E j \in Jobs : InsertReceipt(j)
  \/ Restart

MCSpec == Init /\ [][MCNext]_vars

MCFairSpec == MCSpec /\ \A r \in Requests : WF_vars(SealSteps(r))
=============================================================================
