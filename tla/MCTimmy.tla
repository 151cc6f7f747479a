------------------------------ MODULE MCTimmy ------------------------------
(* Timmy on a small instance: a verb starts only while fewer than MaxSeals *)
(* receipts have been hashed or are due to verbs under way.                *)
EXTENDS Timmy

CONSTANT MaxSeals
ASSUME MaxSealsAssumption == MaxSeals \in Nat

Room ==
  hashes + Cardinality({j \in Jobs : req[j] # None /\ seal[j].at \in {"idle", "waiting"}})
    < MaxSeals

MCNext ==
  \/ \E j \in Jobs : Room /\ Think(j)
  \/ \E j \in Jobs : Room /\ Profile(j)
  \/ \E j \in Jobs : Room /\ Remember(j)
  \/ \E j \in Jobs : MindFails(j)
  \/ \E j \in Jobs : MindAnswered(j)
  \/ \E j \in Jobs : AskTurn(j)
  \/ \E j \in Jobs : Work(j)
  \/ \E j \in Jobs : Sealed(j)
  \/ \E j \in Jobs : TurnLost(j)
  \/ \E j \in Jobs : SealFailed(j)
  \/ Restart

MCSpec == TimmyInit /\ [][MCNext]_timmyVars
=============================================================================
