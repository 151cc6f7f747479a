------------------------------ MODULE MCSwarmRun ------------------------------
(* SwarmRun with three members, the vote of the last one counting double. *)
EXTENDS SwarmRun

WeightDef == [m \in 1..Size |-> IF m = Size THEN 2 ELSE 1]
=============================================================================
