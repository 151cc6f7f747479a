------------------------------ MODULE MCDispatch ------------------------------
(* Dispatch on small instances: at most MaxLost copies are written over a  *)
(* newer plan, and then nobody approves or arms anew; or at most MaxDead   *)
(* processes die.  The processes of Third work, or are dead, only while one*)
(* token at most was minted, the plan holds Plain and nothing was launched *)
(* or lost; and so it stays once the lock was stolen twice.                *)
EXTENDS Dispatch, TLC

CONSTANTS MaxLost, MaxDead, MaxBoxes, Third, Plain
ASSUME BoundsAssumption ==
  MaxLost \in Nat /\ MaxDead \in Nat /\ MaxBoxes \in Nat /\ Third \subseteq Procs

Symmetric == Permutations(Procs \ Third) \cup Permutations(Tokens)

OnlyApprovals ==
  /\ session = {} /\ lost = 0
  /\ \A i \in Plans : plan[i].plan \in {None, Plain} /\ plan[i].lifecycle \in {"none", "ready", "armed"}
  /\ \A c \in Contents : launches[c] = 0
  /\ \A t \in Tokens : bound[t] \in {None, Plain}
  /\ Cardinality({t \in Tokens : bound[t] # None}) <= 1
  /\ \A p \in Procs : op[p].cmd \in {"none", "issue", "arm"}

Approves(p) == op[p].cmd \in {"issue", "arm"}

Crowded == overlap \/ \E p \in Third : op[p] # NoOp \/ p \in dead

MCNext ==
  /\ Next
  /\ lost' <= MaxLost
  /\ Cardinality(dead') <= MaxDead
  /\ lost' = 0 \/ dead' = {}
  /\ lost = 0 \/ \A p \in Procs : Approves(p)' => Approves(p)
  /\ \A p \in Procs, i \in Plans : boxes'[p][i] <= MaxBoxes
  /\ IF Crowded' THEN OnlyApprovals' ELSE TRUE

MCSpec == Init /\ [][MCNext]_vars
=============================================================================
