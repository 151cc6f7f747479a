-------------------------------- MODULE Forge --------------------------------
(***************************************************************************)
(* The forge pipeline: rehearsals of one mission, several processes over   *)
(* one ledger.  A rehearsal drives the pure stage machine, asks the spend  *)
(* gate before every generation, submits the mission, records the run and  *)
(* then what came of it.  Submissions and transitions are serialized by    *)
(* the pipeline lock; one transition appends up to three records, one by   *)
(* one, and a process may die between them or in the middle of one.        *)
(*                                                                         *)
(* The ledger is what its readers make of it: the open submissions, the    *)
(* marks of a toxic prompt version, and whether its last line is torn      *)
(* (then every read and append throws).  All rehearsals of a mission use   *)
(* one prompt version and one segment.  The script is abstracted to its    *)
(* caps, its declared balance and what its recordings cost; where its      *)
(* stages and outcomes end is a choice.                                    *)
(*                                                                         *)
(* The pipeline lock is a directory lock as in LockDir, and like there it  *)
(* is exclusive until a process dies in it: two that wait may both take it *)
(* for theirs to steal, one after the other, and the second then removes   *)
(* the lock that the first has made.  So once it is orphaned a process may *)
(* enter while another is inside; that it may also do so late errs on the  *)
(* side of more behaviours.  The age of a lock, and a PID that cannot be   *)
(* probed, are in LockDir.  The ledger has a lock of its own for each      *)
(* append: two in it at once give two records one number, after which      *)
(* every reader throws as for a torn line.                                 *)
(***************************************************************************)
EXTENDS Integers, Sequences, FiniteSets

CONSTANTS Drivers, Nobody,
          Scripts,          \* [max_spend, max_probe, max_render, balance, cost]
          MaxAttempts,      \* max_probe_attempts
          MaxIterations     \* max_iterations
ASSUME ForgeAssumption ==
  /\ Nobody \notin Drivers
  /\ MaxAttempts \in Nat /\ MaxIterations \in Nat
  /\ Scripts \subseteq [max_spend : Nat, max_probe : Nat, max_render : Nat,
                        balance : Nat \cup {-1}, cost : Nat]

VARIABLES
  opens,     \* the ledger: the open submissions, each by the number of its opening
  nsfw,      \*   a stage record says nsfw
  toxic,     \*   a pipeline_toxic record is there
  torn,      \*   its readers throw: the last line is incomplete, or two have one number
  plock,     \* who made the pipeline lock, if it is there and not a dead one's
  orphaned,  \* somebody died in it: what is there may be stolen
  opened,    \* how many submissions were opened
  run,       \* the rehearsal of each process
  script,    \* what all of them rehearse
  overlap,   \* auxiliary: somebody entered the lock while another was inside
  shared     \* auxiliary: a rehearsal went on with another's submission, or one was reaped

ledger == <<opens, nsfw, toxic, torn, opened, script>>
lock == <<plock, orphaned, overlap>>
vars == <<ledger, lock, run, shared>>

Stages == {"intake", "pre_vetting", "probe", "probe_judging", "iterate", "escalate",
           "full_render", "chain", "done", "quarantined", "aborted"}

-----------------------------------------------------------------------------
(* The stage machine *)

\* Every legal event and where it leads; on the way to iterate the counters decide.
Moves == {
  <<"intake", "submitted", "pre_vetting">>,
  <<"pre_vetting", "passed", "probe">>, <<"pre_vetting", "failed", "iterate">>,
  <<"pre_vetting", "hard_failed", "quarantined">>,
  <<"probe", "completed", "probe_judging">>, <<"probe", "failed", "iterate">>,
  <<"probe", "nsfw", "quarantined">>,
  <<"probe_judging", "passed", "full_render">>, <<"probe_judging", "failed", "iterate">>,
  <<"iterate", "budget_exhausted", "escalate">>, <<"iterate", "revised", "probe">>,
  <<"iterate", "max_iterations", "escalate">>,
  <<"escalate", "approved", "full_render">>, <<"escalate", "denied", "aborted">>,
  <<"full_render", "completed", "chain">>, <<"full_render", "failed", "iterate">>,
  <<"full_render", "nsfw", "quarantined">>,
  <<"chain", "completed", "done">>, <<"chain", "failed", "aborted">>}

Events == {move[2] : move \in Moves}

\* A pipeline state: the stage, the failed probes and the revisions so far.
PipelineState == [stage : Stages, probe_attempts : Nat, iterations : Nat]

EnterIterate(s) ==
  IF s.iterations >= MaxIterations
    THEN [s EXCEPT !.stage = "escalate"]
    ELSE [s EXCEPT !.stage = "iterate", !.iterations = @ + 1]

\* Where a legal event leads.
LeadsTo(stage, event) == (CHOOSE move \in Moves : move[1] = stage /\ move[2] = event)[3]

\* The state after a legal event.
Transition(s, event) ==
  LET to == LeadsTo(s.stage, event)
      failed == [s EXCEPT !.probe_attempts = @ + 1]
  IN IF to # "iterate" THEN [s EXCEPT !.stage = to]
     ELSE IF s.stage # "probe" THEN EnterIterate(s)
     ELSE IF s.probe_attempts >= MaxAttempts THEN [failed EXCEPT !.stage = "quarantined"]
     ELSE EnterIterate(failed)

\* (A bug: the probe being judged is not in flight.)
InFlight_NotJudging(stage) == stage \in {"probe", "full_render"}

\* The paid path, over which the submission stays open.
InFlight(stage) == stage \in {"probe", "probe_judging", "full_render"}

-----------------------------------------------------------------------------
(* The spend gate *)

Unavailable == -1    \* no balance was declared

\* A declared balance must still cover what the mission has spent: a hard stop.
BalanceShort(r) == script.balance < script.cost + r.spent

\* The plan's own caps.
Affordable(r) ==
  /\ r.spent + script.cost <= script.max_spend
  /\ r.st.stage = "probe" => r.probes < script.max_probe
  /\ r.st.stage = "full_render" => r.renders < script.max_render

CanSpend(r) == Affordable(r) /\ script.balance # Unavailable /\ ~BalanceShort(r)

ApplySpend(r) == [r EXCEPT
  !.spent = @ + script.cost,
  !.probes = IF r.st.stage = "probe" THEN @ + 1 ELSE @,
  !.renders = IF r.st.stage = "full_render" THEN @ + 1 ELSE @]

-----------------------------------------------------------------------------
(* The rehearsals *)

\* pc says where a rehearsal is: out, at the head of its loop, submitting, opening
\* (holding the lock), about to record the run, about to step, or in the records
\* of a step (holding the lock); or ended, or dead.
PCs == {"out", "loop", "submit", "open", "start", "step", "stage", "toxic", "close",
        "ended", "dead"}
Locked == {"open", "stage", "toxic", "close"}
Intake == [stage |-> "intake", probe_attempts |-> 0, iterations |-> 0]

\* mine is the submission it opened last, paid whether a generation is in flight,
\* todo the events it will step through, closing the submission a step will close.
Fresh == [pc |-> "out", st |-> Intake, todo |-> << >>, closing |-> 0, mine |-> 0,
          paid |-> FALSE, spent |-> 0, probes |-> 0, renders |-> 0, hard_stopped |-> FALSE]

TypeOK ==
  /\ opens \subseteq 1..opened
  /\ opened \in Nat
  /\ nsfw \in BOOLEAN /\ toxic \in BOOLEAN /\ torn \in BOOLEAN /\ shared \in BOOLEAN
  /\ plock \in Drivers \cup {Nobody}
  /\ orphaned \in BOOLEAN /\ overlap \in BOOLEAN
  /\ script \in Scripts
  /\ run \in [Drivers -> [pc : PCs, st : PipelineState, todo : Seq(Events), closing : 0..opened,
                          mine : 0..opened, paid : BOOLEAN, spent : Nat, probes : Nat,
                          renders : Nat, hard_stopped : BOOLEAN]]
  \* The lock is held by who is at work under it unless it was stolen twice, and the caps
  \* of the machine hold.
  /\ ~overlap => \A d \in Drivers : run[d].pc \in Locked <=> plock = d
  /\ \A d \in Drivers :
       /\ run[d].st.iterations <= MaxIterations
       /\ run[d].st.probe_attempts <= MaxAttempts + 1
       /\ run[d].probes <= 1 + MaxIterations

Init ==
  /\ opens = {} /\ nsfw = FALSE /\ toxic = FALSE /\ torn = FALSE
  /\ plock = Nobody /\ orphaned = FALSE /\ overlap = FALSE
  /\ opened = 0
  /\ run = [d \in Drivers |-> Fresh]
  /\ script \in Scripts
  /\ shared = FALSE

\* The rehearsal begins: the mode switch is recorded, the mission submitted and vetted.
Begin(d) ==
  /\ run[d].pc = "out" /\ ~torn
  /\ run' = [run EXCEPT ![d] = [Fresh EXCEPT !.pc = "step", !.todo = <<"submitted", "passed">>]]
  /\ UNCHANGED <<ledger, lock, shared>>

End(d) == run' = [run EXCEPT ![d].pc = "ended"]

\* The script has no further stage, outcome or recording.
ScriptEnds(d) ==
  /\ run[d].pc = "loop"
  /\ End(d)
  /\ UNCHANGED <<ledger, lock, shared>>

\* The gate refuses before anything is recorded; a balance refusal is a hard stop,
\* which is recorded.
Refused(d) ==
  /\ run[d].pc = "loop" /\ ~CanSpend(run[d])
  /\ Affordable(run[d]) => ~torn
  /\ run' = [run EXCEPT ![d].pc = "ended", ![d].hard_stopped = Affordable(run[d])]
  /\ UNCHANGED <<ledger, lock, shared>>

Gate(d) ==
  /\ run[d].pc = "loop" /\ CanSpend(run[d])
  /\ run' = [run EXCEPT ![d].pc = "submit"]
  /\ UNCHANGED <<ledger, lock, shared>>

\* (A bug: only the toxic record is looked for.)
Toxic_RecordOnly == toxic

\* A prompt version is toxic from the stage record of the nsfw outcome on.
Toxic == toxic \/ nsfw

\* withPipelineLock: the lock is made, or an orphaned one stolen, which by then may be
\* another's who stole it first and is inside.
MayEnter == plock = Nobody \/ orphaned
Entered == overlap' = (overlap \/ plock # Nobody) /\ UNCHANGED orphaned

\* (A bug: the pipeline lock is not taken.)
Submit_NoLock(d) ==
  /\ run[d].pc = "submit" /\ ~torn
  /\ \/ Toxic /\ End(d) /\ UNCHANGED shared
     \/ /\ ~Toxic /\ opens = {}
        /\ run' = [run EXCEPT ![d].pc = "open"]
        /\ UNCHANGED shared
     \/ /\ ~Toxic /\ opens # {}
        /\ run' = [run EXCEPT ![d].pc = "start"]
        /\ shared' = (shared \/ run[d].mine \notin opens)
  /\ UNCHANGED <<ledger, lock>>

\* submitMission: a toxic version ends the rehearsal; a submission that is already
\* open is taken for its own.
Submit(d) ==
  /\ run[d].pc = "submit" /\ ~torn
  /\ MayEnter /\ Entered
  /\ \/ Toxic /\ End(d) /\ plock' = Nobody /\ UNCHANGED shared
     \/ /\ ~Toxic /\ opens = {}
        /\ plock' = d
        /\ run' = [run EXCEPT ![d].pc = "open"]
        /\ UNCHANGED shared
     \/ /\ ~Toxic /\ opens # {}
        /\ plock' = Nobody
        /\ run' = [run EXCEPT ![d].pc = "start"]
        /\ shared' = (shared \/ run[d].mine \notin opens)
  /\ UNCHANGED ledger

\* Whoever leaves the lock removes what is there, be it another's by now.
Open(d) ==
  /\ run[d].pc = "open" /\ ~torn
  /\ opened' = opened + 1
  /\ opens' = opens \cup {opened + 1}
  /\ run' = [run EXCEPT ![d].pc = "start", ![d].mine = opened + 1]
  /\ plock' = Nobody
  /\ UNCHANGED <<nsfw, toxic, torn, script, shared, orphaned, overlap>>

\* The spend is counted, the run recorded, and the recording replayed: what came of
\* it decides the steps to come.
Start(d) ==
  /\ run[d].pc = "start" /\ ~torn
  /\ \E outcome \in {"completed", "failed", "nsfw"} :
       LET then == IF outcome # "completed" THEN << >>
                   ELSE IF run[d].st.stage = "probe" THEN <<"passed">>
                   ELSE <<"completed">>
       IN run' = [run EXCEPT ![d] = [ApplySpend(run[d]) EXCEPT
                    !.pc = "step", !.paid = TRUE, !.todo = <<outcome>> \o then]]
  /\ UNCHANGED <<ledger, lock, shared>>

-----------------------------------------------------------------------------
(* recordTransition *)

Target(d) == Transition(run[d].st, Head(run[d].todo))

Several == \E o, other \in opens : o # other

\* Under the lock, an exit of the paid path looks up the submission it will close; of
\* several it cannot tell which, and throws.
Step(d) ==
  LET exits == InFlight(run[d].st.stage) /\ ~InFlight(Target(d).stage) IN
  /\ run[d].pc = "step" /\ ~torn
  /\ MayEnter /\ Entered
  /\ \/ exits /\ Several /\ End(d) /\ plock' = Nobody
     \/ /\ ~(exits /\ Several)
        /\ plock' = d
        /\ run' = [run EXCEPT ![d].pc = "stage",
                     ![d].closing = IF exits /\ opens # {} THEN CHOOSE o \in opens : TRUE ELSE 0]
  /\ UNCHANGED <<ledger, shared>>

\* The rehearsal once the step is recorded: it revises, goes on, or ends.
Landed(r, st) ==
  LET rest == IF st.stage = "iterate" THEN <<"revised">> ELSE Tail(r.todo) IN
  [r EXCEPT !.st = st, !.todo = rest, !.closing = 0,
            !.paid = @ /\ st.stage \in {"probe", "probe_judging", "full_render"},
            !.pc = IF rest # << >> THEN "step"
                   ELSE IF st.stage \in {"probe", "full_render"} THEN "loop"
                   ELSE "ended"]

\* What follows a record of the step: its close, or the end of the step.
After(d) ==
  IF run[d].closing # 0
    THEN run' = [run EXCEPT ![d].pc = "close"] /\ UNCHANGED plock
    ELSE run' = [run EXCEPT ![d] = Landed(run[d], Target(d))] /\ plock' = Nobody

RecordStage(d) ==
  /\ run[d].pc = "stage" /\ ~torn
  /\ IF Head(run[d].todo) = "nsfw"
       THEN /\ nsfw' = TRUE
            /\ run' = [run EXCEPT ![d].pc = "toxic"]
            /\ UNCHANGED plock
       ELSE After(d) /\ UNCHANGED nsfw
  /\ UNCHANGED <<opens, toxic, torn, opened, script, shared, orphaned, overlap>>

RecordToxic(d) ==
  /\ run[d].pc = "toxic" /\ ~torn
  /\ toxic' = TRUE
  /\ After(d)
  /\ UNCHANGED <<opens, nsfw, torn, opened, script, shared, orphaned, overlap>>

RecordClose(d) ==
  /\ run[d].pc = "close" /\ ~torn
  /\ opens' = opens \ {run[d].closing}
  /\ run' = [run EXCEPT ![d] = Landed(run[d], Target(d))]
  /\ plock' = Nobody
  /\ UNCHANGED <<nsfw, toxic, torn, opened, script, shared, orphaned, overlap>>

-----------------------------------------------------------------------------
(* Failures and the operator *)

\* The ledger cannot be read, or the lock is held too long: the rehearsal throws.
Throw(d) ==
  /\ \/ run[d].pc \in {"submit", "open", "start", "step", "stage", "toxic", "close"} /\ torn
     \/ run[d].pc \in {"submit", "step"} /\ (plock # Nobody \/ orphaned)
  /\ End(d)
  /\ plock' = IF run[d].pc \in Locked THEN Nobody ELSE plock
  /\ UNCHANGED <<ledger, shared, orphaned, overlap>>

\* The process dies; in the middle of an append it leaves the last line torn.  Its
\* lock is a dead owner's, for others to steal.
Die(d) ==
  /\ run[d].pc \notin {"out", "ended", "dead"}
  /\ run' = [run EXCEPT ![d].pc = "dead"]
  /\ plock' = IF plock = d THEN Nobody ELSE plock
  /\ orphaned' = (orphaned \/ plock = d)
  /\ \/ UNCHANGED torn
     \/ run[d].pc \in Locked \cup {"start"} /\ torn' = TRUE
  /\ UNCHANGED <<opens, nsfw, toxic, opened, script, shared, overlap>>

\* Somebody died in the ledger's own lock, and two that stole it append at once.
Clash ==
  /\ \E d \in Drivers : run[d].pc = "dead"
  /\ \E d, e \in Drivers : d # e /\ {run[d].pc, run[e].pc} \subseteq Locked \cup {"start"}
  /\ torn' = TRUE
  /\ UNCHANGED <<opens, nsfw, toxic, opened, script, lock, run, shared>>

\* The operator reaps the submissions opened before some record.
CloseStale ==
  /\ ~torn /\ opens # {}
  /\ MayEnter /\ Entered
  /\ plock' = Nobody
  /\ \E before \in 1..(opened + 1) : opens' = {o \in opens : o >= before}
  /\ shared' = TRUE
  /\ UNCHANGED <<nsfw, toxic, torn, opened, run, script>>

Drive(d) ==
  \/ Begin(d) \/ ScriptEnds(d) \/ Refused(d) \/ Gate(d) \/ Submit(d) \/ Open(d) \/ Start(d)
  \/ Step(d) \/ RecordStage(d) \/ RecordToxic(d) \/ RecordClose(d)
  \/ Throw(d) \/ Die(d)

Next == CloseStale \/ Clash \/ \E d \in Drivers : Drive(d)

Spec == Init /\ [][Next]_vars

-----------------------------------------------------------------------------
(* Properties *)

\* One mission has one submission in flight, whatever processes submit it at once and
\* wherever they die, unless two came to be in the lock of one that died there
\* ("duplicate submission in flight", submitMission).
OneSubmission == Several => orphaned /\ overlap

\* Once a nsfw outcome is on record no submission of the prompt version is opened,
\* also when the process died before it wrote the toxic mark, unless two came to be in
\* the lock: then the one may have looked before the other recorded (submitMission).
NeverRerun == [][(nsfw \/ toxic) /\ ~(orphaned /\ overlap) => opens' \subseteq opens]_vars

\* A rehearsal whose generation is in flight has its submission open, from the probe
\* to the end of the render, unless it went on with another's or the operator reaped
\* ("keeps one open across the paid path").
PaidIsOpen == shared \/ \A d \in Drivers : run[d].paid => run[d].mine \in opens

\* A rehearsal spends within its plan and within the declared balance, however often
\* it iterates (canSpend, applySpend).
SpendWithinPlan ==
  \A d \in Drivers : LET r == run[d] IN
    /\ r.spent <= script.max_spend
    /\ r.spent > 0 => r.spent <= script.balance
    /\ r.probes <= script.max_probe /\ r.renders <= script.max_render
=============================================================================
