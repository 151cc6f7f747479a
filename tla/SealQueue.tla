----------------------------- MODULE SealQueue -----------------------------
(***************************************************************************)
(* The seal machinery a Commander (and a Timmy) durable object runs on:    *)
(* seal() chains every request for a receipt behind the previous one on    *)
(* the promise sealChain; the receipt is computed from the SQL chain,      *)
(* hashed (an await), inserted in SQL, and the whole chain is mirrored to  *)
(* the KV store (a second await, best effort).  A failed seal is swallowed *)
(* by sealChain, so the seals behind it still run.                         *)
(*                                                                         *)
(* A job is one pending call of seal().  Jobs wait in the order in which   *)
(* seal() was called; only the first one works.                            *)
(***************************************************************************)
EXTENDS Naturals, Sequences

CONSTANTS Jobs,      \* the callers that can have one seal() pending each
          Bodies     \* what a receipt says

VARIABLES sealChain,  \* jobs whose seal() has not settled, oldest first
          seal,       \* where each job's seal() is, and what it holds
          receipts,   \* SQL table receipts, in seq order
          mirror,     \* the chain under CUSTODY_KV chain:<subject>
          hashes      \* number of hashes drawn so far

sealVars == <<sealChain, seal, receipts, mirror, hashes>>

\* genesisOf, and the receipts of the promise this module implements.
Chain == INSTANCE EdgeChain WITH log <- receipts

Idle == [at |-> "idle"]
Waiting(b) == [at |-> "waiting", body |-> b]
Hashing(b, c, h) == [at |-> "hashing", body |-> b, chain |-> c, hash |-> h]
Putting(c) == [at |-> "putting", chain |-> c]

SealStates ==
       {Idle}
  \cup [at : {"waiting"}, body : Bodies]
  \cup [at : {"hashing"}, body : Bodies, chain : Seq(Chain!Receipt), hash : Nat \ {0}]
  \cup [at : {"putting"}, chain : Seq(Chain!Receipt)]

SealTypeOK ==
  /\ sealChain \in Seq(Jobs)
  /\ seal \in [Jobs -> SealStates]
  /\ receipts \in Seq(Chain!Receipt)
  /\ mirror \in Seq(Chain!Receipt)
  /\ hashes \in Nat

SealInit ==
  /\ sealChain = << >>
  /\ seal = [j \in Jobs |-> Idle]
  /\ receipts = << >>
  /\ mirror = << >>
  /\ hashes = 0

-----------------------------------------------------------------------------
\* (A bug: every caller reads the chain at once, there is no queue.)
Turn_NoQueue(j) == \E i \in 1..Len(sealChain) : sealChain[i] = j

\* It is this job's turn: every seal() called before it has settled.
Turn(j) == sealChain # << >> /\ Head(sealChain) = j

\* seal(kind, data): queue behind the previous seal.
Enqueue(j, b) ==
  /\ seal[j] = Idle
  /\ sealChain' = Append(sealChain, j)
  /\ seal' = [seal EXCEPT ![j] = Waiting(b)]
  /\ UNCHANGED <<receipts, mirror, hashes>>

\* (A bug: the body is hashed before its random id is drawn.)
ReadChain_OldHash(j) ==
  /\ Turn(j)
  /\ seal[j].at = "waiting"
  /\ hashes' = hashes + 1
  /\ seal' = [seal EXCEPT ![j] = Hashing(seal[j].body, receipts, hashes)]
  /\ UNCHANGED <<sealChain, receipts, mirror>>

\* this.chain() is read and appendEdgeReceipt starts hashing: an await.
ReadChain(j) ==
  /\ Turn(j)
  /\ seal[j].at = "waiting"
  /\ hashes' = hashes + 1
  /\ seal' = [seal EXCEPT ![j] = Hashing(seal[j].body, receipts, hashes + 1)]
  /\ UNCHANGED <<sealChain, receipts, mirror>>

\* The receipt a hashing job is about to insert: it cites the chain it read.
NewReceipt(s) ==
  [body |-> s.body, prev_hash |-> Chain!HeadHash(s.chain), hash |-> s.hash]

\* The hash is known: INSERT INTO receipts, then await the KV put.
InsertReceipt(j) ==
  /\ seal[j].at = "hashing"
  /\ receipts' = Append(receipts, NewReceipt(seal[j]))
  /\ seal' = [seal EXCEPT ![j] = Putting(Append(seal[j].chain, NewReceipt(seal[j])))]
  /\ UNCHANGED <<sealChain, mirror, hashes>>

\* (A bug: the mirror is given this receipt and the KV's own chain.)
Settle_OwnMirror(j) ==
  /\ seal[j].at = "putting"
  /\ mirror' \in {mirror, Append(mirror, seal[j].chain[Len(seal[j].chain)])}
  /\ sealChain' = Tail(sealChain)
  /\ seal' = [seal EXCEPT ![j] = Idle]
  /\ UNCHANGED <<receipts, hashes>>

\* The KV put has answered or thrown; either way seal() resolves.
Settle(j) ==
  /\ seal[j].at = "putting"
  /\ mirror' \in {mirror, seal[j].chain}
  /\ sealChain' = Tail(sealChain)
  /\ seal' = [seal EXCEPT ![j] = Idle]
  /\ UNCHANGED <<receipts, hashes>>

\* (A bug: sealChain = p without the catch, a rejection blocks the queue.)
FailSeal_Wedged(j) ==
  /\ seal[j].at = "hashing"
  /\ seal' = [seal EXCEPT ![j] = Idle]
  /\ UNCHANGED <<sealChain, receipts, mirror, hashes>>

\* The INSERT throws: seal() rejects, sealChain swallows the rejection.
FailSeal(j) ==
  /\ seal[j].at = "hashing"
  /\ sealChain' = Tail(sealChain)
  /\ seal' = [seal EXCEPT ![j] = Idle]
  /\ UNCHANGED <<receipts, mirror, hashes>>

\* The object is evicted: promises are gone, SQL and KV stay, and a put that
\* was under way may or may not have landed.
SealRestart ==
  /\ sealChain' = << >>
  /\ seal' = [j \in Jobs |-> Idle]
  /\ mirror' \in {mirror} \cup {seal[j].chain : j \in {k \in Jobs : seal[k].at = "putting"}}
  /\ UNCHANGED <<receipts, hashes>>

SealStep(j) == ReadChain(j) \/ InsertReceipt(j) \/ Settle(j) \/ FailSeal(j)

SealNext ==
  \/ \E j \in Jobs, b \in Bodies : Enqueue(j, b)
  \/ \E j \in Jobs : SealStep(j)
  \/ SealRestart

SealSpec == SealInit /\ [][SealNext]_sealVars

-----------------------------------------------------------------------------
(* Properties *)

\* The chain every reader verifies is linked from genesis, whatever the
\* order in which handlers ask for receipts, seals fail and restarts fall
\* (verifyEdgeChain over chain()).
ChainLinked == Chain!Linked(receipts)

\* What the KV mirror shows is always a beginning of the SQL chain, even
\* after lost puts and restarts, so the daily head never lists a fork
\* (CUSTODY_KV.put after the INSERT, best effort).
MirrorIsPrefix ==
  /\ Len(mirror) <= Len(receipts)
  /\ \A i \in 1..Len(mirror) : mirror[i] = receipts[i]

\* Only the oldest pending seal() has read the chain; what it read is still
\* the chain when it inserts (the comment on seal: parallel members must not
\* compute prev_hash from the same head).
OnlyHeadWorks ==
  \A j \in Jobs : seal[j].at \in {"hashing", "putting"} =>
    /\ Turn(j)
    /\ seal[j].chain = receipts

\* The queue implements the append-only chain of EdgeChain.
ImplementsEdgeChain == Chain!Spec
=============================================================================
