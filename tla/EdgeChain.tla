----------------------------- MODULE EdgeChain -----------------------------
(***************************************************************************)
(* What an edge receipt chain promises to whoever reads it: an append-only  *)
(* log in which every receipt cites the receipt before it, the first one   *)
(* cites genesis, and no two receipts carry the same hash.  The Commander   *)
(* and the Timmy durable objects implement it with a queue of asynchronous  *)
(* seals (module SealQueue).                                               *)
(*                                                                         *)
(* A receipt's hash stands for the sha256 of its whole body.  The body has *)
(* a random id and the previous hash in it, so the hash is modelled as a   *)
(* number nobody has drawn before, and prev_hash as the number it repeats. *)
(***************************************************************************)
EXTENDS Naturals, Sequences

CONSTANT Bodies    \* what a receipt says: kind, subject and data

Genesis == 0       \* genesisOf(subject)

Receipt == [body : Bodies, prev_hash : Nat, hash : Nat \ {Genesis}]

\* The hash the next receipt of chain c has to cite.
HeadHash(c) == IF c = << >> THEN Genesis ELSE c[Len(c)].hash

\* verifyEdgeChain: every receipt cites the hash of the one before it.
Linked(c) ==
  \A i \in 1..Len(c) : c[i].prev_hash = IF i = 1 THEN Genesis ELSE c[i - 1].hash

-----------------------------------------------------------------------------
VARIABLE log

\* Append r: it cites the receipt before it and carries a hash of its own.
AppendReceipt(r) ==
  /\ r \in Receipt
  /\ r.prev_hash = HeadHash(log)
  /\ \A i \in 1..Len(log) : log[i].hash # r.hash
  /\ log' = Append(log, r)

Init == log = << >>
Next == Len(log') = Len(log) + 1 /\ AppendReceipt(log'[Len(log')])
Spec == Init /\ [][Next]_log
=============================================================================
