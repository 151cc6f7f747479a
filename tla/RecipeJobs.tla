------------------------------ MODULE RecipeJobs ------------------------------
(***************************************************************************)
(* One recipe job: a directory of marker files that processes write once   *)
(* and never replace.  A client claims the job and spawns a supervisor;    *)
(* the supervisor claims the execution, spawns a worker, renews a          *)
(* heartbeat, kills the worker when the job is cancelled or takes too      *)
(* long, and writes the verdict when the worker has closed; the worker     *)
(* claims the native execution, builds and records a signed result.        *)
(* Clients cancel and recover meanwhile, anybody may run the supervisor or *)
(* the worker by hand, and any process may be killed at any step, or end   *)
(* with an error that nothing catches.                                     *)
(*                                                                         *)
(* A process that ended may be another one later.  Signatures, hashes and  *)
(* the files of a build are one bit: whether completion verifies.          *)
(***************************************************************************)
EXTENDS Integers, FiniteSets

CONSTANTS Procs, Nobody
ASSUME JobAssumption == Nobody \notin Procs

VARIABLES
  job,      \* the marker files of the job's directory
  lateBeat, \* the last heartbeat, or the claim, is older than 5 s
  intact,   \* what the job's result refers to is as it was recorded
  changed,  \* a source the job is bound to has changed
  proc,     \* what each process does
  builds,   \* auxiliary: native builds started
  early,    \* auxiliary: the job was cancelled before anybody claimed it
  crashed,  \* auxiliary: a process that owned the job was killed, or threw
  stray     \* auxiliary: a supervisor or worker was run by hand, or a worker is
            \* not waited for

world == <<lateBeat, intact, changed>>
aux == <<builds, early, crashed, stray>>
vars == <<job, world, proc, aux>>

None == "none"
Native == {"succeeded", "failed"}

\* What terminal.json and recovered.json hold: a state, and whether it refers to
\* a result; "unverified" is interrupted with the progress verification-failed.
States == {"succeeded", "failed", "cancelled", "interrupted", "unverified"}
Verdict == [state : States, refs : BOOLEAN]
NoVerdict == [state |-> None, refs |-> FALSE]

Job == [claim : BOOLEAN, cancel : BOOLEAN, execution : BOOLEAN, native : BOOLEAN,
        result : Native \cup {None},
        terminal : Verdict \cup {NoVerdict}, recovered : Verdict \cup {NoVerdict}]

\* A process: the command it runs, where in it, the verdict or result it is about
\* to write and where to, its child, and how that ended.
Process ==
  [run : {None, "start", "cancel", "recover", "supervise", "execute"},
   step : {"begin", "gate", "own", "spawn", "wait", "closed", "judge", "verify", "stop",
           "write", "mark", "build", "record", "exit"},
   verdict : Verdict \cup {NoVerdict}, file : {"terminal", "recovered"},
   result : Native \cup {None},
   child : Procs \cup {Nobody}, ok : BOOLEAN]
Idle == [run |-> None, step |-> "begin", verdict |-> NoVerdict, file |-> "terminal",
         result |-> None, child |-> Nobody, ok |-> FALSE]

Building(p) == proc[p].step = "build"

TypeOK ==
  /\ job \in Job
  /\ lateBeat \in BOOLEAN /\ intact \in BOOLEAN /\ changed \in BOOLEAN
  /\ proc \in [Procs -> Process]
  /\ builds \in Nat
  /\ early \in BOOLEAN /\ crashed \in BOOLEAN /\ stray \in BOOLEAN
  \* Each marker comes after the one it needs.
  /\ job.native => job.execution /\ job.claim
  /\ job.result # None => job.native
  /\ job.recovered # NoVerdict => job.terminal.state = "interrupted" /\ job.recovered.refs
  /\ \A p \in Procs : Building(p) => builds > 0

Init ==
  /\ job = [claim |-> FALSE, cancel |-> FALSE, execution |-> FALSE, native |-> FALSE,
            result |-> None, terminal |-> NoVerdict, recovered |-> NoVerdict]
  /\ lateBeat = FALSE
  /\ intact = TRUE
  /\ changed = FALSE
  /\ proc = [p \in Procs |-> Idle]
  /\ builds = 0
  /\ early = FALSE /\ crashed = FALSE /\ stray = FALSE

-----------------------------------------------------------------------------
(* Marker files, completion and status *)

\* (A bug: a file written aside is renamed over the one that is there.)
Once_Renamed(old, none, new) == new

\* once(): a hard link publishes the new file unless one is there.
Once(old, none, new) == IF old = none THEN new ELSE old

\* completion(): the result is there, and it and all it refers to verify.
Complete == job.result # None /\ intact

\* The verdict on record.
Recorded == IF job.recovered # NoVerdict THEN job.recovered ELSE job.terminal

\* What status() answers.
Status ==
  IF Recorded # NoVerdict THEN
    LET legacy == Recorded.state = "cancelled" /\ job.result # None
        checked == Recorded.refs \/ legacy
        agrees == /\ Complete
                  /\ Recorded.state \in {"cancelled", job.result}
    IN IF checked /\ ~agrees THEN "unverified" ELSE Recorded.state
  ELSE IF job.claim THEN "running"
  ELSE IF job.cancel THEN "cancelled"
  ELSE "queued"

-----------------------------------------------------------------------------
(* Processes *)

Begin(p, run) == [Idle EXCEPT !.run = run]

At(p, run, step) == proc[p].run = run /\ proc[p].step = step

Goto(p, step) == proc' = [proc EXCEPT ![p].step = step]

\* Process p ends; a supervisor that waits for it sees it close.
Ended(p, ok) ==
  [q \in Procs |->
     IF q = p THEN Idle
     ELSE IF proc[q].child = p THEN [proc[q] EXCEPT !.child = Nobody, !.step = "closed", !.ok = ok]
     ELSE proc[q]]

Exit(p, ok) == proc' = Ended(p, ok)

\* A command at the shell; supervise and execute are the workers' own entries.
Run(p) ==
  /\ proc[p] = Idle
  /\ \E run \in {"start", "cancel", "recover", "supervise", "execute"} :
       /\ proc' = [proc EXCEPT ![p] = Begin(p, run)]
       /\ stray' = (stray \/ run \in {"supervise", "execute"})
  /\ UNCHANGED <<job, world, builds, early, crashed>>

\* Process p will give the job its verdict: it spawns or is its supervisor.
Owns(p) ==
  \/ At(p, "start", "spawn")
  \/ proc[p].step = "write" /\ proc[p].file = "terminal"
  \/ proc[p].run = "supervise" /\ proc[p].step \in
       IF job.execution THEN {"spawn", "wait", "closed", "verify", "stop"}
                        ELSE {"begin", "gate", "own", "stop"}

Unjudged == job.claim /\ job.terminal = NoVerdict

\* A process is killed, or ended by an error that nothing catches: worker.log is
\* there or worker code cannot be found after the claim, loadJob refuses the job,
\* the workspace is no directory, a later heartbeat or the verdict cannot be
\* written.  Its children run on.
Crash(p) ==
  /\ proc[p] # Idle
  /\ Exit(p, FALSE)
  /\ crashed' = (crashed \/ (Unjudged /\ Owns(p)))
  /\ UNCHANGED <<job, world, builds, early, stray>>

\* terminal(), or recovered.json: the verdict is written unless there is one.
WriteVerdict(p) ==
  /\ proc[p].step = "write"
  /\ job' = IF proc[p].file = "terminal"
              THEN [job EXCEPT !.terminal = Once(@, NoVerdict, proc[p].verdict)]
              ELSE [job EXCEPT !.recovered = Once(@, NoVerdict, proc[p].verdict)]
  /\ Exit(p, TRUE)
  /\ UNCHANGED <<world, aux>>

\* Process p goes on to write a verdict.
Write(p, file, state, refs) ==
  proc' = [proc EXCEPT ![p].step = "write", ![p].file = file,
                       ![p].verdict = [state |-> state, refs |-> refs]]

-----------------------------------------------------------------------------
(* start, cancel, recover *)

\* A job that is not queued is left alone, and one whose sources changed.
StartLook(p) ==
  /\ At(p, "start", "begin")
  /\ IF Status = "queued" /\ ~changed THEN Goto(p, "own") ELSE Exit(p, TRUE)
  /\ UNCHANGED <<job, world, aux>>

StartClaim(p) ==
  /\ At(p, "start", "own")
  /\ job' = [job EXCEPT !.claim = Once(@, FALSE, TRUE)]
  /\ IF job.claim THEN Exit(p, TRUE) ELSE Goto(p, "spawn")
  /\ UNCHANGED <<world, aux>>

\* The supervisor is spawned, detached, or cannot be; an error before that is Crash.
StartSpawn(p) ==
  /\ At(p, "start", "spawn")
  /\ \/ \E q \in Procs :
          /\ proc[q] = Idle
          /\ proc' = [Ended(p, TRUE) EXCEPT ![q] = Begin(q, "supervise")]
     \/ Write(p, "terminal", "failed", FALSE)
  /\ UNCHANGED <<job, world, aux>>

CancelLook(p) ==
  /\ At(p, "cancel", "begin")
  /\ IF Status \in {"queued", "running"} THEN Goto(p, "mark") ELSE Exit(p, TRUE)
  /\ UNCHANGED <<job, world, aux>>

CancelMark(p) ==
  /\ At(p, "cancel", "mark")
  /\ job' = [job EXCEPT !.cancel = Once(@, FALSE, TRUE)]
  /\ early' = (early \/ (~job.cancel /\ ~job.claim))
  /\ Exit(p, TRUE)
  /\ UNCHANGED <<world, builds, crashed, stray>>

\* Only a job that is running or interrupted is recovered, not one whose result could
\* not be verified; where its result will be noted depends on which.
RecoverLook(p) ==
  /\ At(p, "recover", "begin")
  /\ IF Status \in {"running", "interrupted"}
       THEN proc' = [proc EXCEPT ![p].step = "verify",
                       ![p].file = IF Status = "interrupted" THEN "recovered" ELSE "terminal"]
       ELSE Exit(p, TRUE)
  /\ UNCHANGED <<job, world, aux>>

\* A verified result is the verdict, cancelled if that was asked for; without a
\* result a worker that is silent for 5 s counts as lost.
RecoverJudge(p) ==
  /\ At(p, "recover", "verify")
  /\ IF job.result # None
       THEN IF Complete
              THEN Write(p, proc[p].file, IF job.cancel THEN "cancelled" ELSE job.result, TRUE)
              ELSE Write(p, "terminal", "unverified", FALSE)
       ELSE IF lateBeat THEN Write(p, "terminal", "interrupted", FALSE) ELSE Exit(p, TRUE)
  /\ UNCHANGED <<job, world, aux>>

-----------------------------------------------------------------------------
(* supervise *)

\* A job that loadJob refuses ends the supervisor: Crash.
SuperviseBegin(p) ==
  /\ At(p, "supervise", "begin")
  /\ IF ~job.claim \/ job.terminal # NoVerdict THEN Exit(p, TRUE) ELSE Goto(p, "gate")
  /\ UNCHANGED <<job, world, aux>>

\* (A bug: changed sources end the supervisor without a verdict.)
SuperviseGate_Silent(p) ==
  /\ At(p, "supervise", "gate")
  /\ IF changed THEN Exit(p, TRUE)
     ELSE IF job.cancel THEN Goto(p, "stop")
     ELSE Goto(p, "own")
  /\ UNCHANGED <<job, world, aux>>

SuperviseGate(p) ==
  /\ At(p, "supervise", "gate")
  /\ IF changed THEN Write(p, "terminal", "failed", FALSE)
     ELSE IF job.cancel THEN Goto(p, "stop")
     ELSE Goto(p, "own")
  /\ UNCHANGED <<job, world, aux>>

\* execution.json: a second supervisor cannot launch the job.
SuperviseClaim(p) ==
  /\ At(p, "supervise", "own")
  /\ job' = [job EXCEPT !.execution = Once(@, FALSE, TRUE)]
  /\ IF job.execution THEN Exit(p, TRUE) ELSE Goto(p, "spawn")
  /\ UNCHANGED <<world, aux>>

\* The worker is spawned and the first heartbeat written; or it cannot be spawned; or
\* the heartbeat cannot be written, and the verdict does not wait for the worker,
\* which is killed only after it.
SuperviseSpawn(p) ==
  /\ At(p, "supervise", "spawn")
  /\ \/ \E q \in Procs :
          /\ proc[q] = Idle
          /\ \/ /\ proc' = [proc EXCEPT ![p].step = "wait", ![p].child = q,
                                         ![q] = Begin(q, "execute")]
                /\ lateBeat' = FALSE
                /\ UNCHANGED stray
             \/ /\ proc' = [proc EXCEPT ![p].step = "closed", ![q] = Begin(q, "execute")]
                /\ stray' = TRUE
                /\ UNCHANGED lateBeat
     \/ Goto(p, "closed") /\ UNCHANGED <<lateBeat, stray>>
  /\ UNCHANGED <<job, intact, changed, builds, early, crashed>>

Beat(p) ==
  /\ At(p, "supervise", "wait")
  /\ lateBeat /\ lateBeat' = FALSE
  /\ UNCHANGED <<job, intact, changed, proc, aux>>

\* (A bug: the supervisor goes on to its verdict without waiting for the close.)
KillWorker_NoWait(p) ==
  /\ At(p, "supervise", "wait")
  /\ proc' = [proc EXCEPT ![p].step = "closed", ![p].child = Nobody]
  /\ lateBeat' = FALSE
  /\ UNCHANGED <<job, intact, changed, aux>>

\* The heartbeat finds the job cancelled, or the worker running for 150 s.
KillWorker(p) ==
  /\ At(p, "supervise", "wait")
  /\ proc' = Ended(proc[p].child, FALSE)
  /\ lateBeat' = FALSE
  /\ UNCHANGED <<job, intact, changed, aux>>

\* The worker has closed: cancel.json first, then its result if it did well.
Closed(p) ==
  /\ At(p, "supervise", "closed")
  /\ IF job.cancel THEN Goto(p, "stop")
     ELSE IF proc[p].ok THEN Goto(p, "verify")
     ELSE Write(p, "terminal", "failed", FALSE)
  /\ UNCHANGED <<job, world, aux>>

\* What completion() finds is the verdict; when it throws, or the verdict cannot be
\* written, cancel.json is looked at again.
Judge(p) ==
  /\ At(p, "supervise", "verify")
  /\ \/ Complete /\ Write(p, "terminal", job.result, TRUE)
     \/ job.cancel /\ Goto(p, "stop")
     \/ ~job.cancel /\ Write(p, "terminal", "failed", FALSE)
  /\ UNCHANGED <<job, world, aux>>

\* terminalCancellation: a result that is there is kept, if it can be read.
Stop(p) ==
  /\ At(p, "supervise", "stop")
  /\ \/ job.result = None /\ Write(p, "terminal", "cancelled", FALSE)
     \/ Complete /\ Write(p, "terminal", "cancelled", TRUE)
     \/ job.result # None /\ Write(p, "terminal", "unverified", FALSE)
  /\ UNCHANGED <<job, world, aux>>

-----------------------------------------------------------------------------
(* executeJob and recordResult, in the worker *)

\* The job is claimed, its execution too, and it is neither over nor cancelled.
ExecuteGate(p) ==
  /\ At(p, "execute", "begin")
  /\ IF /\ ~changed /\ job.claim /\ job.execution /\ ~job.cancel
        /\ job.terminal = NoVerdict /\ job.recovered = NoVerdict /\ job.result = None
       THEN Goto(p, "own")
       ELSE Exit(p, FALSE)
  /\ UNCHANGED <<job, world, aux>>

\* (A bug: the marker is renamed into place, which always succeeds.)
ExecuteClaim_Renamed(p) ==
  /\ At(p, "execute", "own")
  /\ job' = [job EXCEPT !.native = TRUE]
  /\ Goto(p, "build") /\ builds' = builds + 1
  /\ UNCHANGED <<world, early, crashed, stray>>

\* native-execution.json, which stays whatever becomes of the build.
ExecuteClaim(p) ==
  /\ At(p, "execute", "own")
  /\ job' = [job EXCEPT !.native = Once(@, FALSE, TRUE)]
  /\ IF job.native
       THEN Exit(p, FALSE) /\ UNCHANGED builds
       ELSE Goto(p, "build") /\ builds' = builds + 1
  /\ UNCHANGED <<world, early, crashed, stray>>

\* The build ends well, or badly, or throws.
Build(p) ==
  /\ At(p, "execute", "build")
  /\ \/ \E r \in Native : proc' = [proc EXCEPT ![p].step = "record", ![p].result = r]
     \/ Exit(p, FALSE)
  /\ UNCHANGED <<job, world, aux>>

\* recordResult: result.json.
Record(p) ==
  /\ At(p, "execute", "record")
  /\ job' = [job EXCEPT !.result = Once(@, None, proc[p].result)]
  /\ Goto(p, "exit")
  /\ UNCHANGED <<world, aux>>

ExecuteExit(p) ==
  /\ At(p, "execute", "exit")
  /\ Exit(p, TRUE)
  /\ UNCHANGED <<job, world, aux>>

-----------------------------------------------------------------------------
(* The world: time, and files that are changed and put back *)

\* Nobody asks for the heartbeat once there is a result or a verdict.
Silence ==
  /\ job.claim /\ ~lateBeat /\ job.result = None /\ job.terminal = NoVerdict
  /\ lateBeat' = TRUE
  /\ UNCHANGED <<job, intact, changed, proc, aux>>

Tamper ==
  /\ job.result # None
  /\ intact' = ~intact
  /\ UNCHANGED <<job, lateBeat, changed, proc, aux>>

ChangeSource ==
  /\ ~changed /\ changed' = TRUE
  /\ UNCHANGED <<job, lateBeat, intact, proc, aux>>

Client(p) ==
  \/ StartLook(p) \/ StartClaim(p) \/ StartSpawn(p)
  \/ CancelLook(p) \/ CancelMark(p) \/ RecoverLook(p) \/ RecoverJudge(p)

Supervisor(p) ==
  \/ SuperviseBegin(p) \/ SuperviseGate(p) \/ SuperviseClaim(p) \/ SuperviseSpawn(p)
  \/ KillWorker(p) \/ Closed(p) \/ Judge(p) \/ Stop(p)

Worker(p) ==
  ExecuteGate(p) \/ ExecuteClaim(p) \/ Build(p) \/ Record(p) \/ ExecuteExit(p)

\* What process p does of its own accord.
Step(p) == Client(p) \/ Supervisor(p) \/ Worker(p) \/ WriteVerdict(p)

Next ==
  \/ \E p \in Procs : Run(p) \/ Step(p) \/ Beat(p) \/ Crash(p)
  \/ Silence \/ Tamper \/ ChangeSource

Spec == Init /\ [][Next]_vars

-----------------------------------------------------------------------------
(* Properties *)

\* "Independent one-shot boundary": however many starts, supervisors and workers
\* run, die and are run again by hand, the native build starts at most once, and
\* never when the job was cancelled before it was claimed (executeJob).
NativeAtMostOnce == builds <= (IF early THEN 0 ELSE 1)

\* "does not claim completed cancellation without a verified result or stopped
\* worker": when the record says cancelled and names no result, nothing is being
\* built any more, and nothing will, unless workers were run by hand or the first
\* heartbeat could not be written (supervise).
CancelledMeansStopped ==
  ~stray /\ Recorded.state = "cancelled" /\ ~Recorded.refs =>
    \A p \in Procs : ~Building(p) /\ proc[p].step # "record" /\ ~At(p, "execute", "own")

\* A verdict once on record stays: only "interrupted" may become what a verified
\* result says, and that is final (terminal, recover).
VerdictNeverChanges ==
  [][Recorded # NoVerdict /\ Recorded' # Recorded =>
       /\ Recorded.state = "interrupted" /\ ~Recorded.refs
       /\ Recorded'.refs /\ Recorded'.state # "interrupted"]_vars

\* No claimed job is left without a verdict and with nobody to give it one, whoever
\* else tried to start, supervise, execute, cancel or recover it and whatever became
\* of its worker: some process is at it, or a process that was at it was killed or
\* ended by an uncaught error (start, supervise).
ClaimedJobHasOwner == Unjudged /\ ~crashed => \E p \in Procs : Owns(p)
=============================================================================
