-------------------------------- MODULE MCForge --------------------------------
(* Forge on small instances: a plan that is short on renders, one whose balance   *)
(* ends first, one without a declared balance, one whose recordings are free, and *)
(* one of a single generation: only that one is rehearsed by more than Crew       *)
(* processes.                                                                     *)
EXTENDS Forge, TLC

CONSTANTS MaxDead, Crew
ASSUME BoundsAssumption == MaxDead \in Nat /\ Crew \in Nat

Caps(spend, probes, renders, balance, cost) ==
  [max_spend |-> spend, max_probe |-> probes, max_render |-> renders,
   balance |-> balance, cost |-> cost]
OneShot == Caps(1, 1, 1, 1, 1)
ScriptsDef ==
  {Caps(3, 9, 1, 9, 1), Caps(4, 9, 9, 2, 1), Caps(4, 9, 9, -1, 1), Caps(4, 2, 2, 1, 0), OneShot}

Symmetric == Permutations(Drivers)

Dead == {d \in Drivers : run[d].pc = "dead"}

Begun == {d \in Drivers : run[d].pc # "out"}

MCNext ==
  /\ Next
  /\ Cardinality(Dead') <= MaxDead
  /\ script = OneShot \/ Cardinality(Begun') <= Crew

MCSpec == Init /\ [][MCNext]_vars
=============================================================================
