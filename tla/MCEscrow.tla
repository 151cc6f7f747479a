------------------------------- MODULE MCEscrow -------------------------------
(* Escrow on small instances: at most MaxLost stale copies are written. *)
EXTENDS Escrow, TLC

CONSTANTS MaxLost
ASSUME BoundsAssumption == MaxLost \in Nat

Symmetric == Permutations(Procs)

MCNext == Next /\ overwritten' <= MaxLost

MCSpec == Init /\ [][MCNext]_vars
=============================================================================
