-------------------------------- MODULE Escrow --------------------------------
(***************************************************************************)
(* The escrow engine: one escrow, a file that is armed, locked, drawn on,  *)
(* judged, settled, cancelled or slashed.  Every operation reads the file, *)
(* checks and changes its copy, writes the file whole and then appends a   *)
(* receipt, without a lock: between its read and its write the file may    *)
(* have become another one.  Writing first empties the file, which then    *)
(* reads as no escrow at all.                                              *)
(*                                                                         *)
(* Money is a number of the smallest unit.  drawEscrow itself takes any    *)
(* amount; what calls it draws positive ones, and so does the model.  The  *)
(* schema check, which then only repeats what the code keeps, is left out. *)
(***************************************************************************)
EXTENDS Integers, Sequences

CONSTANTS Procs,
          Ceiling,   \* what may be drawn in all
          Amounts    \* what the callers draw: positive amounts
ASSUME EscrowAssumption ==
  Ceiling \in Nat /\ Amounts \subseteq Nat \ {0}

VARIABLES
  file,         \* the escrow file
  op,           \* the operation each process is in
  drawn,        \* what the draw receipts of the chain add up to
  overwritten,  \* auxiliary: writes over an escrow written since it was read
  verdict       \* auxiliary: the first final state that was written

vars == <<file, op, drawn, overwritten, verdict>>

States == {"armed", "locked", "judged", "settled", "slashed"}

LEGAL == [s \in States |->
            CASE s = "armed" -> {"locked", "settled", "slashed"}
              [] s = "locked" -> {"judged", "settled", "slashed"}
              [] s = "judged" -> {"settled", "slashed"}
              [] OTHER -> {}]
Final == {s \in States : LEGAL[s] = {}}

\* An escrow: what was drawn and given back, the states it went through, and
\* whether the pass and the QA value it was judged by were good.
NoRefund == -1
EscrowFile == [state : States, drawn_usd : Nat, refund_usd : Nat \cup {NoRefund},
               transitions : Seq(States), gates : BOOLEAN]
Unborn == [state |-> "unborn"]
NoFile == [state |-> "none"]
Armed == [state |-> "armed", drawn_usd |-> 0, refund_usd |-> NoRefund,
          transitions |-> << >>, gates |-> FALSE]

\* An operation: the escrow e as it will be written, what it draws, and whether
\* the file was written by somebody else since it was read.
NoOp == [step |-> "none", e |-> NoFile, usd |-> 0, stale |-> FALSE]

Init ==
  /\ file = Unborn
  /\ op = [p \in Procs |-> NoOp]
  /\ drawn = 0
  /\ overwritten = 0
  /\ verdict = "none"

-----------------------------------------------------------------------------
(* The operations: read the file, check and change the copy *)

\* Process p has changed its copy to e and drawn usd in it.
Prepare(p, e, usd) ==
  /\ op[p] = NoOp
  /\ op' = [op EXCEPT ![p] = [NoOp EXCEPT !.step = "write", !.e = e, !.usd = usd]]
  /\ UNCHANGED <<file, drawn, overwritten, verdict>>

\* The file as transition() leaves it in the copy.
Moved(e, to) == [e EXCEPT !.state = to, !.transitions = Append(@, to)]

Transition(p, e, to) ==
  /\ to \in LEGAL[e.state]
  /\ Prepare(p, Moved(e, to), 0)

\* The id is new: nobody reads the file before it is there.
Arm ==
  /\ file = Unborn
  /\ file' = Armed
  /\ UNCHANGED <<op, drawn, overwritten, verdict>>

Known == file \notin {NoFile, Unborn}

Lock(p) == Known /\ Transition(p, file, "locked")

\* (A bug: what was drawn before is not counted.)
Draw_NotAdded(p) ==
  /\ Known /\ file.state = "locked"
  /\ \E usd \in Amounts :
       /\ usd <= Ceiling
       /\ Prepare(p, [file EXCEPT !.drawn_usd = usd], usd)

Draw(p) ==
  /\ Known /\ file.state = "locked"
  /\ \E usd \in Amounts :
       /\ file.drawn_usd + usd <= Ceiling
       /\ Prepare(p, [file EXCEPT !.drawn_usd = @ + usd], usd)

\* A pass that does not verify, or a QA value below the threshold, slashes.
Judge(p) ==
  /\ Known /\ file.state = "locked"
  /\ \/ Transition(p, file, "slashed")
     \/ Transition(p, [file EXCEPT !.gates = TRUE], "judged")

\* What settling and cancelling give back.
Refunded(e) == [e EXCEPT !.refund_usd = Ceiling - e.drawn_usd]

SettleEscrow(p) ==
  /\ Known /\ file.state = "judged"
  /\ Transition(p, Refunded(file), "settled")

\* (A bug: cancelling forgets what was drawn.)
Cancel_FullRefund(p) ==
  /\ Known /\ file.state \in {"armed", "locked"}
  /\ Transition(p, [file EXCEPT !.refund_usd = Ceiling], "settled")

Cancel(p) ==
  /\ Known /\ file.state \in {"armed", "locked"}
  /\ Transition(p, Refunded(file), "settled")

\* (A bug: the transition is not looked up.)
Slash_Always(p) == Known /\ Prepare(p, Moved(file, "slashed"), 0)

Slash(p) == Known /\ Transition(p, file, "slashed")

-----------------------------------------------------------------------------
(* writeEscrow and the receipt *)

\* The file is opened and emptied ...
Cut(p) ==
  /\ op[p].step = "write"
  /\ file' = NoFile
  /\ op' = [op EXCEPT ![p].step = "cut"]
  /\ UNCHANGED <<drawn, overwritten, verdict>>

\* ... and written: every copy somebody else has read is stale from now on.
Write(p) ==
  /\ op[p].step = "cut"
  /\ file' = op[p].e
  /\ op' = [q \in Procs |->
              IF q = p THEN [op[p] EXCEPT !.step = "receipt"]
              ELSE IF op[q].step \in {"write", "cut"} THEN [op[q] EXCEPT !.stale = TRUE]
              ELSE op[q]]
  /\ overwritten' = IF op[p].stale THEN overwritten + 1 ELSE overwritten
  /\ verdict' = IF verdict = "none" /\ op[p].e.state \in Final THEN op[p].e.state ELSE verdict
  /\ UNCHANGED drawn

\* The receipt is sealed: a draw names what it drew.
Receipt(p) ==
  /\ op[p].step = "receipt"
  /\ drawn' = drawn + op[p].usd
  /\ op' = [op EXCEPT ![p] = NoOp]
  /\ UNCHANGED <<file, overwritten, verdict>>

\* The process is killed; a file it has emptied stays empty.
Die(p) ==
  /\ op[p] # NoOp
  /\ op' = [op EXCEPT ![p] = NoOp]
  /\ UNCHANGED <<file, drawn, overwritten, verdict>>

Act(p) ==
  \/ Lock(p) \/ Draw(p) \/ Judge(p) \/ SettleEscrow(p) \/ Cancel(p) \/ Slash(p)
  \/ Cut(p) \/ Write(p) \/ Receipt(p) \/ Die(p)

Next == Arm \/ \E p \in Procs : Act(p)

Spec == Init /\ [][Next]_vars

-----------------------------------------------------------------------------
(* Properties *)

\* verifyEscrow accepts e: it went through legal transitions to the state it has,
\* and settled gives back what was not drawn; and a payout, settled after judged,
\* had both gates ("no payout path around them").
Verifies(e) ==
  LET path == <<"armed">> \o e.transitions IN
  /\ \A k \in 1..Len(e.transitions) : path[k + 1] \in LEGAL[path[k]]
  /\ e.state = path[Len(path)]
  /\ e.drawn_usd <= Ceiling
  /\ e.state = "settled" => e.refund_usd = Ceiling - e.drawn_usd
  /\ e.state = "settled" /\ (\E k \in 1..Len(path) : path[k] = "judged") => e.gates

\* Whatever copies are written over each other and wherever processes die, the
\* file is one that verifyEscrow accepts, or none (transition, writeEscrow).
FileVerifies == Known => file \in EscrowFile /\ Verifies(file)

\* The draws that were receipted exceed the ceiling only by what was written over:
\* each overwritten escrow may give its draws back once (drawEscrow).
DrawsBounded == drawn <= Ceiling * (1 + overwritten)

\* A settled or slashed escrow stays so, and is not settled after it was slashed,
\* unless a copy read before is written over it ("settled: []", LEGAL).
FinalUnlessOverwritten ==
  overwritten = 0 /\ verdict # "none" /\ Known => file.state = verdict
=============================================================================
