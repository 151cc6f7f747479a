--------------------------- MODULE MCReceiptStore ---------------------------
(* ReceiptStore on small instances: at most MaxHashes receipts are signed  *)
(* and at most MaxTears lines are cut off.                                 *)
EXTENDS ReceiptStore, TLC

CONSTANTS MaxHashes, MaxTears
ASSUME BoundsAssumption == MaxHashes \in Nat /\ MaxTears \in Nat

Symmetric == Permutations(Procs) \cup Permutations(Rotators)

MCNext == Next /\ hashes' <= MaxHashes /\ tears' <= MaxTears

MCSpec == Init /\ [][MCNext]_vars
=============================================================================
