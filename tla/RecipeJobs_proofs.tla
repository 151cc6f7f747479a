-------------------------- MODULE RecipeJobs_proofs --------------------------
(***************************************************************************)
(* Proofs about RecipeJobs, for any set of processes: the types and the    *)
(* order of the marker files, that the native build starts at most once,   *)
(* that a verdict on record stays, that a cancelled job has stopped, and   *)
(* that a claimed job without a verdict has a process that will give one.  *)
(***************************************************************************)
EXTENDS RecipeJobs, TLAPS

USE DEF States

\* What a process in state r relies on: nobody is about to claim the native execution
\* of a job cancelled before it was claimed; a build, its record and its exit follow
\* the marker; a supervisor past its first look has seen the claim; and a verdict for
\* recovered.json refines an interrupted one.
Sound(r) ==
  /\ r.run = "supervise" /\ r.step \in {"gate", "own"} => job.claim
  /\ r.run = "execute" /\ r.step = "own" => job.claim /\ job.execution /\ ~early
  /\ r.step \in {"build", "record", "exit"} => job.native /\ builds > 0
  /\ r.run = "recover" /\ r.step = "verify" /\ r.file = "recovered" =>
       job.terminal.state = "interrupted"
  /\ r.step = "write" =>
       /\ r.verdict \in Verdict
       /\ r.verdict.state = "interrupted" => ~r.verdict.refs /\ r.file = "terminal"
       /\ r.file = "recovered" => job.terminal.state = "interrupted" /\ r.verdict.refs

\* The native build needs its marker, and an early cancellation keeps it away.
BuiltInv ==
  /\ builds \in {0, 1}
  /\ builds > 0 => job.native
  /\ early => job.cancel /\ builds = 0
  /\ job.execution => job.claim
  /\ job.terminal.state = "interrupted" => ~job.terminal.refs

\* The verdict of recovered.json never says interrupted.
RecoveredInv == job.recovered # NoVerdict => job.recovered.state # "interrupted"

JobInv ==
  /\ TypeOK
  /\ BuiltInv
  /\ RecoveredInv
  /\ \A p \in Procs : Sound(proc[p])

-----------------------------------------------------------------------------
LEMMA InitJobInv == Init => JobInv
<1> SUFFICES ASSUME Init PROVE JobInv
  OBVIOUS
<1>1. \A p \in Procs : proc[p] = Idle
  BY DEF Init
<1>2. Idle \in Process /\ NoVerdict \notin Verdict
  BY DEF Idle, Process, NoVerdict, Verdict, None
<1>3. Idle.run = "none" /\ Idle.step = "begin"
  BY DEF Idle, None
<1>4. TypeOK
  BY <1>1, <1>2, <1>3 DEF Init, TypeOK, Job, Building, None
<1>5. BuiltInv /\ RecoveredInv
  BY DEF Init, BuiltInv, RecoveredInv, NoVerdict, None
<1>6. \A p \in Procs : Sound(proc[p])
  BY <1>1, <1>3 DEF Sound
<1> QED
  BY <1>4, <1>5, <1>6 DEF JobInv

\* Steps that leave the markers alone: whoever moved is sound where he is now.
LEMMA MoveKeeps ==
  ASSUME JobInv, UNCHANGED <<job, builds, early>>,
         lateBeat' \in BOOLEAN, intact' \in BOOLEAN, changed' \in BOOLEAN,
         crashed' \in BOOLEAN, stray' \in BOOLEAN,
         proc' \in [Procs -> Process],
         \A q \in Procs : proc'[q] = proc[q] \/ Sound(proc'[q])
  PROVE  JobInv'
<1>1. \A q \in Procs : Sound(proc'[q])
  BY DEF JobInv
<1>2. (\A q \in Procs : Sound(proc[q]))'
  BY <1>1 DEF Sound
<1>3. TypeOK'
  BY <1>1 DEF JobInv, TypeOK, Building, Sound
<1>4. BuiltInv' /\ RecoveredInv'
  BY DEF JobInv, BuiltInv, RecoveredInv
<1> QED
  BY <1>2, <1>3, <1>4 DEF JobInv

\* One process moves, and its step is none that relies on anything.
Quiet(r) == r.step \notin {"build", "record", "exit", "verify", "write"}
            /\ ~(r.run = "execute" /\ r.step = "own")
            /\ ~(r.run = "supervise" /\ r.step \in {"gate", "own"})

LEMMA QuietIsSound == \A r : Quiet(r) => Sound(r)
BY DEF Quiet, Sound

\* What Goto, Exit and Write make of the processes.
LEMMA GotoFacts ==
  ASSUME JobInv, NEW p \in Procs,
         NEW step \in {"begin", "gate", "own", "spawn", "wait", "closed", "judge", "verify",
                       "stop", "write", "mark", "build", "record", "exit"},
         Goto(p, step)
  PROVE  /\ proc' \in [Procs -> Process]
         /\ proc'[p] = [proc[p] EXCEPT !.step = step]
         /\ proc'[p].step = step /\ proc'[p].run = proc[p].run /\ proc'[p].file = proc[p].file
         /\ \A q \in Procs : q # p => proc'[q] = proc[q]
BY DEF JobInv, TypeOK, Goto, Process

LEMMA EndedFacts ==
  ASSUME JobInv, NEW p, NEW ok \in BOOLEAN
  PROVE  /\ Ended(p, ok) \in [Procs -> Process]
         /\ \A q \in Procs : Ended(p, ok)[q] = proc[q] \/ Quiet(Ended(p, ok)[q])
<1>1. Idle \in Process /\ Quiet(Idle)
  BY DEF Idle, Process, Quiet, NoVerdict, None
<1>2. proc \in [Procs -> Process]
  BY DEF JobInv, TypeOK
<1>3. ASSUME NEW q \in Procs
      PROVE  LET r == [proc[q] EXCEPT !.child = Nobody, !.step = "closed", !.ok = ok]
             IN  r \in Process /\ Quiet(r)
  <2>1. proc[q] \in Process
    BY <1>2
  <2> DEFINE r == [proc[q] EXCEPT !.child = Nobody, !.step = "closed", !.ok = ok]
  <2>2. r \in Process
    BY <2>1 DEF Process
  <2>3. r.step = "closed"
    BY <2>1 DEF Process
  <2> QED
    BY <2>2, <2>3 DEF Quiet
<1> DEFINE e == [q \in Procs |->
     IF q = p THEN Idle
     ELSE IF proc[q].child = p THEN [proc[q] EXCEPT !.child = Nobody, !.step = "closed", !.ok = ok]
     ELSE proc[q]]
<1>4. Ended(p, ok) = e
  BY DEF Ended
<1>5. \A q \in Procs : e[q] \in Process /\ (e[q] = proc[q] \/ Quiet(e[q]))
  BY <1>1, <1>2, <1>3
<1> QED
  BY <1>4, <1>5

LEMMA ExitFacts ==
  ASSUME JobInv, NEW p, NEW ok \in BOOLEAN, proc' = Ended(p, ok)
  PROVE  /\ proc' \in [Procs -> Process]
         /\ \A q \in Procs : proc'[q] = proc[q] \/ Quiet(proc'[q])
BY EndedFacts

LEMMA WriteFacts ==
  ASSUME JobInv, NEW p \in Procs, NEW file \in {"terminal", "recovered"},
         NEW state \in States,
         NEW refs \in BOOLEAN, Write(p, file, state, refs)
  PROVE  /\ proc' \in [Procs -> Process]
         /\ proc'[p].step = "write" /\ proc'[p].file = file
         /\ proc'[p].verdict = [state |-> state, refs |-> refs]
         /\ proc'[p].verdict \in Verdict
         /\ proc'[p].run = proc[p].run
         /\ \A q \in Procs : q # p => proc'[q] = proc[q]
<1> DEFINE v == [state |-> state, refs |-> refs]
           r == [proc[p] EXCEPT !.step = "write", !.file = file, !.verdict = v]
<1>1. v \in Verdict
  BY DEF Verdict
<1>2. proc[p] \in Process
  BY DEF JobInv, TypeOK
<1>3. /\ r \in Process
      /\ r.step = "write" /\ r.file = file /\ r.verdict = v /\ r.run = proc[p].run
  BY <1>1, <1>2 DEF Process
<1> HIDE DEF v
<1>4. proc' = [proc EXCEPT ![p] = r]
  BY DEF Write, v, JobInv, TypeOK
<1> HIDE DEF r
<1>5. /\ proc' \in [Procs -> Process] /\ proc'[p] = r
      /\ \A q \in Procs : q # p => proc'[q] = proc[q]
  BY <1>3, <1>4 DEF JobInv, TypeOK
<1> QED
  BY <1>1, <1>3, <1>5 DEF v

\* A step of one process that leaves the markers alone, by how it moves.
LEMMA ExitKeeps ==
  ASSUME JobInv, NEW p \in Procs, NEW ok \in BOOLEAN, Exit(p, ok), UNCHANGED <<job, world, aux>>
  PROVE  JobInv'
<1>1. proc' \in [Procs -> Process] /\ \A q \in Procs : proc'[q] = proc[q] \/ Sound(proc'[q])
  BY ExitFacts, QuietIsSound DEF Exit
<1> QED
  BY <1>1, MoveKeeps DEF world, aux, JobInv, TypeOK

LEMMA GotoKeeps ==
  ASSUME JobInv, NEW p \in Procs,
         NEW step \in {"begin", "spawn", "wait", "closed", "judge", "stop", "mark"},
         Goto(p, step), UNCHANGED <<job, world, aux>>
  PROVE  JobInv'
<1>1. /\ proc' \in [Procs -> Process] /\ proc'[p].step = step
      /\ \A q \in Procs : q # p => proc'[q] = proc[q]
  BY GotoFacts
<1>2. Quiet(proc'[p])
  BY <1>1 DEF Quiet
<1> QED
  BY <1>1, <1>2, QuietIsSound, MoveKeeps DEF world, aux, JobInv, TypeOK

LEMMA WriteKeeps ==
  ASSUME JobInv, NEW p \in Procs, NEW file \in {"terminal", "recovered"},
         NEW state \in States,
         NEW refs \in BOOLEAN, Write(p, file, state, refs),
         state = "interrupted" => ~refs /\ file = "terminal",
         file = "recovered" => job.terminal.state = "interrupted" /\ refs,
         UNCHANGED <<job, world, aux>>
  PROVE  JobInv'
<1>1. Sound(proc'[p])
  <2>1. /\ proc'[p].step = "write" /\ proc'[p].file = file /\ proc'[p].verdict \in Verdict
        /\ proc'[p].verdict = [state |-> state, refs |-> refs]
    BY WriteFacts
  <2> QED
    BY <2>1 DEF Sound
<1>2. proc' \in [Procs -> Process] /\ \A q \in Procs : q # p => proc'[q] = proc[q]
  BY WriteFacts
<1> QED
  BY <1>1, <1>2, MoveKeeps DEF world, aux, JobInv, TypeOK

\* A process that comes to its gate or its claim, from a step of the same command.
LEMMA OwnKeeps ==
  ASSUME JobInv, NEW p \in Procs, NEW step \in {"gate", "own"}, Goto(p, step),
         UNCHANGED <<job, world, aux>>,
         proc[p].run = "supervise" => job.claim,
         proc[p].run = "execute" => job.claim /\ job.execution /\ ~early
  PROVE  JobInv'
<1>1. /\ proc' \in [Procs -> Process] /\ proc'[p].step = step /\ proc'[p].run = proc[p].run
      /\ \A q \in Procs : q # p => proc'[q] = proc[q]
  BY GotoFacts
<1>2. Sound(proc'[p])
  BY <1>1 DEF Sound
<1> QED
  BY <1>1, <1>2, MoveKeeps DEF world, aux, JobInv, TypeOK

\* A process p moves on or ends, and another begins one of the commands.
LEMMA SpawnKeeps ==
  ASSUME JobInv, UNCHANGED <<job, builds, early>>,
         lateBeat' \in BOOLEAN, intact' \in BOOLEAN, changed' \in BOOLEAN,
         crashed' \in BOOLEAN, stray' \in BOOLEAN,
         NEW f \in [Procs -> Process], \A q \in Procs : f[q] = proc[q] \/ Quiet(f[q]),
         NEW p \in Procs, NEW run \in {"start", "cancel", "recover", "supervise", "execute"},
         proc' = [f EXCEPT ![p] = Begin(p, run)]
  PROVE  JobInv'
<1>1. /\ Begin(p, run) \in Process
      /\ Begin(p, run).step = "begin"
  BY DEF Begin, Idle, Process, NoVerdict, None
<1>2. Quiet(Begin(p, run))
  BY <1>1 DEF Quiet
<1>3. proc' \in [Procs -> Process] /\ \A q \in Procs : proc'[q] = proc[q] \/ Quiet(proc'[q])
  BY <1>1, <1>2
<1> QED
  BY <1>3, QuietIsSound, MoveKeeps

\* A marker is written that no verdict depends on.
LEMMA MarkKeeps ==
  ASSUME JobInv, job' \in Job,
         job'.terminal = job.terminal, job'.recovered = job.recovered,
         job.claim => job'.claim, job.execution => job'.execution, job.native => job'.native,
         job.cancel => job'.cancel,
         job'.native => job'.execution /\ job'.claim, job'.execution => job'.claim,
         job'.result # None => job'.native,
         builds' \in {0, 1}, builds' > 0 => job'.native, builds <= builds',
         early' \in BOOLEAN, early' => job'.cancel /\ builds' = 0,
         UNCHANGED <<world, crashed, stray>>,
         proc' \in [Procs -> Process],
         \A q \in Procs : \/ proc'[q] = proc[q]
                                /\ (proc[q].run = "execute" /\ proc[q].step = "own" => ~early')
                          \/ (Sound(proc[q]))'
  PROVE  JobInv'
<1>1. builds \in Nat /\ builds' \in Nat
  BY DEF JobInv, TypeOK
<1>2. ASSUME NEW q \in Procs PROVE (Sound(proc[q]))'
  <2>1. CASE (Sound(proc[q]))'
    BY <2>1
  <2>2. CASE /\ proc'[q] = proc[q]
             /\ proc[q].run = "execute" /\ proc[q].step = "own" => ~early'
    <3>1. Sound(proc[q])
      BY DEF JobInv
    <3> QED
      BY <1>1, <2>2, <3>1 DEF Sound
  <2> QED
    BY <2>1, <2>2
<1>3. BuiltInv' /\ RecoveredInv'
  BY DEF JobInv, BuiltInv, RecoveredInv
<1>4. TypeOK'
  <2>1. \A q \in Procs : Building(q)' => builds' > 0
    BY <1>2 DEF Building, Sound
  <2> QED
    BY <1>1, <2>1 DEF JobInv, TypeOK, world
<1> QED
  BY <1>2, <1>3, <1>4 DEF JobInv

-----------------------------------------------------------------------------
(* One lemma per command *)

\* Status says interrupted only of an interrupted terminal.json.
LEMMA InterruptedStatus == JobInv /\ Status = "interrupted" => job.terminal.state = "interrupted"
<1> SUFFICES ASSUME JobInv, Status = "interrupted" PROVE job.terminal.state = "interrupted"
  OBVIOUS
<1>1. Recorded # NoVerdict /\ Recorded.state = "interrupted"
  BY DEF Status
<1> QED
  BY <1>1 DEF Recorded, JobInv, RecoveredInv

LEMMA ClientKeeps == ASSUME JobInv, NEW p \in Procs, Client(p) PROVE JobInv'
<1>1. CASE StartLook(p)
  <2>1. CASE Goto(p, "own")
    BY <1>1, <2>1, OwnKeeps DEF StartLook, At
  <2>2. CASE Exit(p, TRUE)
    BY <1>1, <2>2, ExitKeeps DEF StartLook
  <2> QED
    BY <1>1, <2>1, <2>2 DEF StartLook
<1>2. CASE StartClaim(p)
  <2>1. /\ job' \in Job /\ job'.claim
        /\ job'.terminal = job.terminal /\ job'.recovered = job.recovered
        /\ job'.execution = job.execution /\ job'.native = job.native
        /\ job'.cancel = job.cancel /\ job'.result = job.result
    BY <1>2 DEF StartClaim, Once, JobInv, TypeOK, Job
  <2>2. proc' \in [Procs -> Process] /\ \A q \in Procs : proc'[q] = proc[q] \/ Quiet(proc'[q])
    <3>1. CASE Exit(p, TRUE)
      BY <3>1, ExitFacts DEF Exit
    <3>2. CASE Goto(p, "spawn")
      BY <3>2, GotoFacts DEF Quiet
    <3> QED
      BY <1>2, <3>1, <3>2 DEF StartClaim
  <2>3. \A q \in Procs : proc'[q] = proc[q] \/ (Sound(proc[q]))'
    BY <2>2 DEF Quiet, Sound
  <2>4. \A q \in Procs : proc[q].run = "execute" /\ proc[q].step = "own" => ~early
    BY DEF JobInv, Sound
  <2>5. UNCHANGED <<world, aux>>
    BY <1>2 DEF StartClaim
  <2> QED
    BY <2>1, <2>2, <2>3, <2>4, <2>5, MarkKeeps DEF aux, JobInv, TypeOK, BuiltInv
<1>3. CASE StartSpawn(p)
  <2>1. ASSUME NEW q \in Procs, proc' = [Ended(p, TRUE) EXCEPT ![q] = Begin(q, "supervise")]
        PROVE  JobInv'
    <3> DEFINE f == Ended(p, TRUE)
    <3>1. f \in [Procs -> Process] /\ \A x \in Procs : f[x] = proc[x] \/ Quiet(f[x])
      BY EndedFacts
    <3> HIDE DEF f
    <3>2. proc' = [f EXCEPT ![q] = Begin(q, "supervise")]
      BY <2>1 DEF f
    <3> QED
      BY <1>3, <3>1, <3>2, SpawnKeeps DEF StartSpawn, world, aux, JobInv, TypeOK
  <2>2. CASE Write(p, "terminal", "failed", FALSE)
    BY <1>3, <2>2, WriteKeeps DEF StartSpawn
  <2> QED
    BY <1>3, <2>1, <2>2 DEF StartSpawn
<1>4. CASE CancelLook(p)
  BY <1>4, GotoKeeps, ExitKeeps DEF CancelLook
<1>5. CASE CancelMark(p)
  <2>1. /\ job' \in Job /\ job'.cancel
        /\ job'.terminal = job.terminal /\ job'.recovered = job.recovered
        /\ job'.execution = job.execution /\ job'.native = job.native
        /\ job'.claim = job.claim /\ job'.result = job.result
    BY <1>5 DEF CancelMark, Once, JobInv, TypeOK, Job
  <2>2. proc' \in [Procs -> Process] /\ \A q \in Procs : proc'[q] = proc[q] \/ Quiet(proc'[q])
    BY <1>5, ExitFacts DEF CancelMark, Exit
  <2>3. \A q \in Procs : proc'[q] = proc[q] \/ (Sound(proc[q]))'
    BY <2>2 DEF Quiet, Sound
  <2>4. \A q \in Procs : proc[q].run = "execute" /\ proc[q].step = "own" => ~early'
    BY <1>5 DEF CancelMark, JobInv, Sound
  <2>5. early' => builds = 0
    BY <1>5 DEF CancelMark, JobInv, TypeOK, BuiltInv
  <2>6. UNCHANGED <<world, builds, crashed, stray>> /\ early' \in BOOLEAN
    BY <1>5 DEF CancelMark, JobInv, TypeOK
  <2> QED
    BY <2>1, <2>2, <2>3, <2>4, <2>5, <2>6, MarkKeeps DEF JobInv, TypeOK, BuiltInv
<1>6. CASE RecoverLook(p)
  <2>1. CASE Status \in {"running", "interrupted"}
    <3> DEFINE file == IF Status = "interrupted" THEN "recovered" ELSE "terminal"
               r == [proc[p] EXCEPT !.step = "verify", !.file = file]
    <3>1. proc[p] \in Process /\ proc[p].run = "recover" /\ proc \in [Procs -> Process]
      BY <1>6 DEF RecoverLook, At, JobInv, TypeOK
    <3>2. r \in Process /\ r.step = "verify" /\ r.run = "recover" /\ r.file = file
      BY <3>1 DEF Process
    <3>3. file = "recovered" => job.terminal.state = "interrupted"
      BY InterruptedStatus
    <3>4. Sound(r)
      BY <3>2, <3>3 DEF Sound
    <3>5. proc' = [proc EXCEPT ![p] = r]
      BY <1>6, <2>1, <3>1 DEF RecoverLook
    <3> HIDE DEF r
    <3>6. proc' \in [Procs -> Process] /\ \A q \in Procs : proc'[q] = proc[q] \/ Sound(proc'[q])
      BY <3>1, <3>2, <3>4, <3>5
    <3> QED
      BY <1>6, <3>6, MoveKeeps DEF RecoverLook, world, aux, JobInv, TypeOK
  <2>2. CASE Exit(p, TRUE)
    BY <1>6, <2>2, ExitKeeps DEF RecoverLook
  <2> QED
    BY <1>6, <2>1, <2>2 DEF RecoverLook
<1>7. CASE RecoverJudge(p)
  <2>1. CASE Write(p, proc[p].file, IF job.cancel THEN "cancelled" ELSE job.result, TRUE)
             /\ job.result # None
    <3>1. proc[p].file \in {"terminal", "recovered"}
      BY DEF JobInv, TypeOK, Process
    <3>2. (IF job.cancel THEN "cancelled" ELSE job.result) \in {"succeeded", "failed", "cancelled"}
      BY <2>1 DEF JobInv, TypeOK, Job, Native
    <3>3. proc[p].file = "recovered" => job.terminal.state = "interrupted"
      BY <1>7 DEF RecoverJudge, At, JobInv, Sound
    <3> QED
      BY <1>7, <2>1, <3>1, <3>2, <3>3, WriteKeeps DEF RecoverJudge
  <2>2. ASSUME NEW state \in {"interrupted", "unverified"}, Write(p, "terminal", state, FALSE)
        PROVE  JobInv'
    BY <1>7, <2>2, WriteKeeps DEF RecoverJudge
  <2>3. CASE Exit(p, TRUE)
    BY <1>7, <2>3, ExitKeeps DEF RecoverJudge
  <2> QED
    BY <1>7, <2>1, <2>2, <2>3 DEF RecoverJudge
<1> QED
  BY <1>1, <1>2, <1>3, <1>4, <1>5, <1>6, <1>7 DEF Client

LEMMA SupervisorKeeps == ASSUME JobInv, NEW p \in Procs, Supervisor(p) PROVE JobInv'
<1>1. CASE SuperviseBegin(p)
  <2>1. CASE Exit(p, TRUE)
    BY <1>1, <2>1, ExitKeeps DEF SuperviseBegin
  <2>2. CASE job.claim /\ Goto(p, "gate")
    BY <1>1, <2>2, OwnKeeps DEF SuperviseBegin, At
  <2> QED
    BY <1>1, <2>1, <2>2 DEF SuperviseBegin
<1>2. CASE SuperviseGate(p)
  <2>1. proc[p].run = "supervise" /\ job.claim
    BY <1>2 DEF SuperviseGate, At, JobInv, Sound
  <2>2. CASE Goto(p, "own")
    BY <1>2, <2>1, <2>2, OwnKeeps DEF SuperviseGate
  <2>3. CASE Goto(p, "stop")
    BY <1>2, <2>3, GotoKeeps DEF SuperviseGate
  <2>4. CASE Write(p, "terminal", "failed", FALSE)
    BY <1>2, <2>4, WriteKeeps DEF SuperviseGate
  <2> QED
    BY <1>2, <2>2, <2>3, <2>4 DEF SuperviseGate
<1>3. CASE SuperviseClaim(p)
  <2>1. /\ job' \in Job /\ job'.execution
        /\ job'.terminal = job.terminal /\ job'.recovered = job.recovered
        /\ job'.claim = job.claim /\ job'.native = job.native
        /\ job'.cancel = job.cancel /\ job'.result = job.result
    BY <1>3 DEF SuperviseClaim, Once, JobInv, TypeOK, Job
  <2>2. proc' \in [Procs -> Process] /\ \A q \in Procs : proc'[q] = proc[q] \/ Quiet(proc'[q])
    <3>1. CASE Exit(p, TRUE)
      BY <3>1, ExitFacts DEF Exit
    <3>2. CASE Goto(p, "spawn")
      BY <3>2, GotoFacts DEF Quiet
    <3> QED
      BY <1>3, <3>1, <3>2 DEF SuperviseClaim
  <2>3. \A q \in Procs : proc'[q] = proc[q] \/ (Sound(proc[q]))'
    BY <2>2 DEF Quiet, Sound
  <2>4. \A q \in Procs : proc[q].run = "execute" /\ proc[q].step = "own" => ~early
    BY DEF JobInv, Sound
  <2>5. UNCHANGED <<world, aux>> /\ job.claim
    BY <1>3 DEF SuperviseClaim, At, JobInv, Sound
  <2> QED
    BY <2>1, <2>2, <2>3, <2>4, <2>5, MarkKeeps DEF aux, JobInv, TypeOK, BuiltInv
<1>4. CASE SuperviseSpawn(p)
  <2>1. ASSUME NEW q \in Procs, lateBeat' = FALSE, UNCHANGED stray,
               proc' = [proc EXCEPT ![p].step = "wait", ![p].child = q,
                                    ![q] = Begin(q, "execute")]
        PROVE  JobInv'
    <3> DEFINE r == [proc[p] EXCEPT !.step = "wait", !.child = q]
               f == [proc EXCEPT ![p] = r]
    <3>1. proc[p] \in Process /\ proc \in [Procs -> Process]
      BY DEF JobInv, TypeOK
    <3>2. r \in Process /\ r.step = "wait"
      BY <3>1 DEF Process
    <3>3. f = [proc EXCEPT ![p].step = "wait", ![p].child = q]
      BY <3>1
    <3>4. proc' = [f EXCEPT ![q] = Begin(q, "execute")]
      BY <2>1, <3>3
    <3> HIDE DEF r
    <3>5. f \in [Procs -> Process] /\ \A x \in Procs : f[x] = proc[x] \/ Quiet(f[x])
      BY <3>1, <3>2 DEF Quiet
    <3> HIDE DEF f
    <3> QED
      BY <1>4, <2>1, <3>4, <3>5, SpawnKeeps DEF SuperviseSpawn, aux, JobInv, TypeOK
  <2>2. CASE Goto(p, "closed") /\ UNCHANGED <<lateBeat, stray>>
    BY <1>4, <2>2, GotoKeeps DEF SuperviseSpawn, world, aux
  <2>3. ASSUME NEW q \in Procs, UNCHANGED lateBeat, stray' = TRUE,
               proc' = [proc EXCEPT ![p].step = "closed", ![q] = Begin(q, "execute")]
        PROVE  JobInv'
    <3> DEFINE r == [proc[p] EXCEPT !.step = "closed"]
               f == [proc EXCEPT ![p] = r]
    <3>1. proc[p] \in Process /\ proc \in [Procs -> Process]
      BY DEF JobInv, TypeOK
    <3>2. r \in Process /\ r.step = "closed"
      BY <3>1 DEF Process
    <3>3. proc' = [f EXCEPT ![q] = Begin(q, "execute")]
      BY <2>3, <3>1
    <3> HIDE DEF r
    <3>4. f \in [Procs -> Process] /\ \A x \in Procs : f[x] = proc[x] \/ Quiet(f[x])
      BY <3>1, <3>2 DEF Quiet
    <3> HIDE DEF f
    <3> QED
      BY <1>4, <2>3, <3>3, <3>4, SpawnKeeps DEF SuperviseSpawn, aux, JobInv, TypeOK
  <2> QED
    BY <1>4, <2>1, <2>2, <2>3 DEF SuperviseSpawn
<1>5. CASE KillWorker(p)
  <2>1. proc' \in [Procs -> Process] /\ \A q \in Procs : proc'[q] = proc[q] \/ Sound(proc'[q])
    BY <1>5, ExitFacts, QuietIsSound DEF KillWorker
  <2> QED
    BY <1>5, <2>1, MoveKeeps DEF KillWorker, aux, JobInv, TypeOK
<1>6. CASE Closed(p)
  <2>1. CASE proc' = [proc EXCEPT ![p].step = "verify"]
    <3>1. Goto(p, "verify")
      BY <2>1 DEF Goto
    <3>2. /\ proc' \in [Procs -> Process] /\ proc'[p].step = "verify"
          /\ proc'[p].run = "supervise" /\ \A q \in Procs : q # p => proc'[q] = proc[q]
      BY <1>6, <3>1, GotoFacts DEF Closed, At
    <3>3. Sound(proc'[p])
      BY <3>2 DEF Sound
    <3> QED
      BY <1>6, <3>2, <3>3, MoveKeeps DEF Closed, world, aux, JobInv, TypeOK
  <2>2. CASE Goto(p, "stop")
    BY <1>6, <2>2, GotoKeeps DEF Closed
  <2>3. CASE Write(p, "terminal", "failed", FALSE)
    BY <1>6, <2>3, WriteKeeps DEF Closed
  <2> QED
    BY <1>6, <2>1, <2>2, <2>3 DEF Closed, Goto
<1>7. CASE Judge(p)
  <2>1. CASE Complete /\ Write(p, "terminal", job.result, TRUE)
    <3>1. job.result \in {"succeeded", "failed"}
      BY <2>1 DEF Complete, JobInv, TypeOK, Job, Native
    <3> QED
      BY <1>7, <2>1, <3>1, WriteKeeps DEF Judge
  <2>2. CASE Goto(p, "stop")
    BY <1>7, <2>2, GotoKeeps DEF Judge
  <2>3. CASE Write(p, "terminal", "failed", FALSE)
    BY <1>7, <2>3, WriteKeeps DEF Judge
  <2> QED
    BY <1>7, <2>1, <2>2, <2>3 DEF Judge
<1>8. CASE Stop(p)
  <2>1. CASE Write(p, "terminal", "cancelled", FALSE)
    BY <1>8, <2>1, WriteKeeps DEF Stop
  <2>2. CASE Write(p, "terminal", "cancelled", TRUE)
    BY <1>8, <2>2, WriteKeeps DEF Stop
  <2>3. CASE Write(p, "terminal", "unverified", FALSE)
    BY <1>8, <2>3, WriteKeeps DEF Stop
  <2> QED
    BY <1>8, <2>1, <2>2, <2>3 DEF Stop
<1> QED
  BY <1>1, <1>2, <1>3, <1>4, <1>5, <1>6, <1>7, <1>8 DEF Supervisor

LEMMA WorkerKeeps == ASSUME JobInv, NEW p \in Procs, Worker(p) PROVE JobInv'
<1>1. CASE ExecuteGate(p)
  <2>1. CASE Goto(p, "own") /\ job.claim /\ job.execution /\ ~job.cancel
    <3>1. ~early
      BY <2>1 DEF JobInv, BuiltInv
    <3> QED
      BY <1>1, <2>1, <3>1, OwnKeeps DEF ExecuteGate
  <2>2. CASE Exit(p, FALSE)
    BY <1>1, <2>2, ExitKeeps DEF ExecuteGate
  <2> QED
    BY <1>1, <2>1, <2>2 DEF ExecuteGate
<1>2. CASE ExecuteClaim(p)
  <2>1. job.claim /\ job.execution /\ ~early
    BY <1>2 DEF ExecuteClaim, At, JobInv, Sound
  <2>2. /\ job' \in Job /\ job'.native
        /\ job'.terminal = job.terminal /\ job'.recovered = job.recovered
        /\ job'.claim = job.claim /\ job'.execution = job.execution
        /\ job'.cancel = job.cancel /\ job'.result = job.result
    BY <1>2 DEF ExecuteClaim, Once, JobInv, TypeOK, Job
  <2>3. UNCHANGED <<world, early, crashed, stray>>
    BY <1>2 DEF ExecuteClaim
  <2>4. \A q \in Procs : proc[q].run = "execute" /\ proc[q].step = "own" => ~early
    BY <2>1
  <2>5. CASE Exit(p, FALSE) /\ UNCHANGED builds
    <3>1. proc' \in [Procs -> Process] /\ \A q \in Procs : proc'[q] = proc[q] \/ Quiet(proc'[q])
      BY <2>5, ExitFacts DEF Exit
    <3>2. \A q \in Procs : proc'[q] = proc[q] \/ (Sound(proc[q]))'
      BY <3>1 DEF Quiet, Sound
    <3> QED
      BY <2>1, <2>2, <2>3, <2>4, <2>5, <3>1, <3>2, MarkKeeps DEF JobInv, TypeOK, BuiltInv
  <2>6. CASE ~job.native /\ Goto(p, "build") /\ builds' = builds + 1
    <3>1. builds = 0 /\ builds' = 1
      BY <2>6 DEF JobInv, TypeOK, BuiltInv
    <3>2. /\ proc' \in [Procs -> Process] /\ proc'[p].step = "build"
          /\ \A q \in Procs : q # p => proc'[q] = proc[q]
      BY <2>6, GotoFacts
    <3>3. (Sound(proc[p]))'
      BY <2>2, <3>1, <3>2 DEF Sound
    <3>4. \A q \in Procs : proc'[q] = proc[q] \/ (Sound(proc[q]))'
      BY <3>2, <3>3
    <3>5. builds' \in {0, 1} /\ builds <= builds'
      BY <3>1
    <3> QED
      BY <2>1, <2>2, <2>3, <2>4, <3>2, <3>4, <3>5, MarkKeeps DEF JobInv, TypeOK
  <2> QED
    BY <1>2, <2>5, <2>6 DEF ExecuteClaim
<1>3. CASE Build(p)
  <2>1. ASSUME NEW r \in Native,
               proc' = [proc EXCEPT ![p].step = "record", ![p].result = r]
        PROVE  JobInv'
    <3> DEFINE s == [proc[p] EXCEPT !.step = "record", !.result = r]
    <3>1. proc[p] \in Process /\ proc \in [Procs -> Process]
      BY DEF JobInv, TypeOK
    <3>2. s \in Process /\ s.step = "record"
      BY <3>1 DEF Process
    <3>3. proc' = [proc EXCEPT ![p] = s]
      BY <2>1, <3>1
    <3>4. job.native /\ builds > 0
      BY <1>3 DEF Build, At, JobInv, Sound
    <3>5. Sound(s)
      BY <3>2, <3>4 DEF Sound
    <3> HIDE DEF s
    <3>6. proc' \in [Procs -> Process] /\ \A q \in Procs : proc'[q] = proc[q] \/ Sound(proc'[q])
      BY <3>1, <3>2, <3>3, <3>5
    <3> QED
      BY <1>3, <3>6, MoveKeeps DEF Build, world, aux, JobInv, TypeOK
  <2>2. CASE Exit(p, FALSE)
    BY <1>3, <2>2, ExitKeeps DEF Build
  <2> QED
    BY <1>3, <2>1, <2>2 DEF Build
<1>4. CASE Record(p)
  <2>1. job.native /\ builds > 0
    BY <1>4 DEF Record, At, JobInv, Sound
  <2>2. /\ job' \in Job
        /\ job'.terminal = job.terminal /\ job'.recovered = job.recovered
        /\ job'.claim = job.claim /\ job'.execution = job.execution
        /\ job'.cancel = job.cancel /\ job'.native = job.native
    BY <1>4 DEF Record, Once, JobInv, TypeOK, Job, Process
  <2>3. UNCHANGED <<world, aux>>
    BY <1>4 DEF Record
  <2>4. \A q \in Procs : proc[q].run = "execute" /\ proc[q].step = "own" => ~early
    BY DEF JobInv, Sound
  <2>5. /\ proc' \in [Procs -> Process] /\ proc'[p].step = "exit"
        /\ \A q \in Procs : q # p => proc'[q] = proc[q]
    BY <1>4, GotoFacts DEF Record
  <2>6. (Sound(proc[p]))'
    BY <2>1, <2>2, <2>3, <2>5 DEF Sound, aux
  <2>7. \A q \in Procs : proc'[q] = proc[q] \/ (Sound(proc[q]))'
    BY <2>5, <2>6
  <2> QED
    BY <2>1, <2>2, <2>3, <2>4, <2>5, <2>7, MarkKeeps DEF aux, JobInv, TypeOK, BuiltInv
<1>5. CASE ExecuteExit(p)
  BY <1>5, ExitKeeps DEF ExecuteExit
<1> QED
  BY <1>1, <1>2, <1>3, <1>4, <1>5 DEF Worker

-----------------------------------------------------------------------------
(* The verdict *)

\* What a write of process p makes of the two verdict files: nothing, a first
\* terminal verdict, or a refinement of an interrupted one.
LEMMA WrittenVerdict ==
  ASSUME JobInv, NEW p \in Procs, WriteVerdict(p)
  PROVE  /\ job' \in Job
         /\ job'.claim = job.claim /\ job'.cancel = job.cancel
         /\ job'.execution = job.execution /\ job'.native = job.native
         /\ job'.result = job.result
         /\ \/ job'.terminal = job.terminal /\ job'.recovered = job.recovered
            \/ /\ job.terminal = NoVerdict /\ job.recovered = NoVerdict
               /\ job'.recovered = NoVerdict
               /\ job'.terminal \in Verdict
               /\ job'.terminal.state = "interrupted" => ~job'.terminal.refs
            \/ /\ job.terminal.state = "interrupted" /\ job'.terminal = job.terminal
               /\ job.recovered = NoVerdict /\ job'.recovered \in Verdict
               /\ job'.recovered.refs /\ job'.recovered.state # "interrupted"
<1> DEFINE v == proc[p].verdict
<1>1. /\ v \in Verdict
      /\ v.state = "interrupted" => ~v.refs /\ proc[p].file = "terminal"
      /\ proc[p].file = "recovered" => job.terminal.state = "interrupted" /\ v.refs
  BY DEF WriteVerdict, JobInv, Sound
<1>2. proc[p].file \in {"terminal", "recovered"} /\ job \in Job
  BY DEF JobInv, TypeOK, Process
<1>3. NoVerdict.state = "none"
  BY DEF NoVerdict, None
<1> HIDE DEF v
<1>4. CASE proc[p].file = "terminal"
  <2>1. job' = [job EXCEPT !.terminal = IF job.terminal = NoVerdict THEN v ELSE job.terminal]
    BY <1>4 DEF WriteVerdict, Once, v
  <2>2. CASE job.terminal = NoVerdict
    <3>1. job.recovered = NoVerdict
      BY <1>3, <2>2 DEF JobInv, TypeOK
    <3> QED
      BY <1>1, <1>2, <2>1, <2>2, <3>1 DEF Job
  <2>3. CASE job.terminal # NoVerdict
    BY <1>2, <2>1, <2>3 DEF Job
  <2> QED
    BY <2>2, <2>3
<1>5. CASE proc[p].file = "recovered"
  <2>1. job' = [job EXCEPT !.recovered = IF job.recovered = NoVerdict THEN v ELSE job.recovered]
    BY <1>5 DEF WriteVerdict, Once, v
  <2>2. CASE job.recovered = NoVerdict
    BY <1>1, <1>2, <1>5, <2>1, <2>2 DEF Job
  <2>3. CASE job.recovered # NoVerdict
    BY <1>2, <2>1, <2>3 DEF Job
  <2> QED
    BY <2>2, <2>3
<1> QED
  BY <1>2, <1>4, <1>5

LEMMA VerdictKeeps == ASSUME JobInv, NEW p \in Procs, WriteVerdict(p) PROVE JobInv'
<1>1. UNCHANGED <<world, aux>>
  BY DEF WriteVerdict
<1>2. proc' \in [Procs -> Process] /\ \A q \in Procs : proc'[q] = proc[q] \/ Quiet(proc'[q])
  BY ExitFacts DEF WriteVerdict, Exit
<1>3. NoVerdict.state = "none" /\ NoVerdict \notin Verdict
  BY DEF NoVerdict, Verdict, None
<1>4. job.terminal.state = "interrupted" => job'.terminal.state = "interrupted"
  BY <1>3, WrittenVerdict
<1>5. \A q \in Procs : (Sound(proc[q]))'
  <2> SUFFICES ASSUME NEW q \in Procs PROVE (Sound(proc[q]))'
    OBVIOUS
  <2>1. CASE Quiet(proc'[q])
    BY <2>1 DEF Quiet, Sound
  <2>2. CASE proc'[q] = proc[q]
    <3>1. Sound(proc[q])
      BY DEF JobInv
    <3> QED
      BY <1>1, <1>4, <2>2, <3>1, WrittenVerdict DEF Sound, aux
  <2> QED
    BY <1>2, <2>1, <2>2
<1>6. BuiltInv' /\ RecoveredInv'
  BY <1>1, <1>3, WrittenVerdict DEF JobInv, BuiltInv, RecoveredInv, aux
<1>7. TypeOK'
  <2>1. \A q \in Procs : Building(q)' => builds' > 0
    BY <1>5 DEF Building, Sound
  <2>2. job'.recovered # NoVerdict => job'.terminal.state = "interrupted" /\ job'.recovered.refs
    BY <1>4, WrittenVerdict DEF JobInv, TypeOK
  <2> QED
    BY <1>1, <1>2, <2>1, <2>2, WrittenVerdict DEF JobInv, TypeOK, world, aux
<1> QED
  BY <1>5, <1>6, <1>7 DEF JobInv

-----------------------------------------------------------------------------
(* The theorems *)

LEMMA NextKeeps == JobInv /\ [Next]_vars => JobInv'
<1> SUFFICES ASSUME JobInv, [Next]_vars PROVE JobInv'
  OBVIOUS
<1> USE DEF world, aux
<1>1. ASSUME NEW p \in Procs, Run(p) PROVE JobInv'
  <2>1. proc \in [Procs -> Process]
    BY DEF JobInv, TypeOK
  <2>2. PICK run \in {"start", "cancel", "recover", "supervise", "execute"} :
          /\ proc' = [proc EXCEPT ![p] = Begin(p, run)]
          /\ stray' = (stray \/ run \in {"supervise", "execute"})
    BY <1>1 DEF Run
  <2> QED
    BY <1>1, <2>1, <2>2, SpawnKeeps DEF Run, JobInv, TypeOK
<1>2. ASSUME NEW p \in Procs, Step(p) PROVE JobInv'
  BY <1>2, ClientKeeps, SupervisorKeeps, WorkerKeeps, VerdictKeeps DEF Step
<1>3. ASSUME NEW p \in Procs, Beat(p) PROVE JobInv'
  BY <1>3, MoveKeeps DEF Beat, JobInv, TypeOK
<1>4. ASSUME NEW p \in Procs, Crash(p) PROVE JobInv'
  <2>1. proc' \in [Procs -> Process] /\ \A q \in Procs : proc'[q] = proc[q] \/ Sound(proc'[q])
    BY <1>4, ExitFacts, QuietIsSound DEF Crash, Exit
  <2> QED
    BY <1>4, <2>1, MoveKeeps DEF Crash, JobInv, TypeOK
<1>5. CASE Silence
  BY <1>5, MoveKeeps DEF Silence, JobInv, TypeOK
<1>6. CASE Tamper
  BY <1>6, MoveKeeps DEF Tamper, JobInv, TypeOK
<1>7. CASE ChangeSource
  BY <1>7, MoveKeeps DEF ChangeSource, JobInv, TypeOK
<1>8. CASE UNCHANGED vars
  BY <1>8, MoveKeeps DEF vars, JobInv, TypeOK
<1> QED
  BY <1>1, <1>2, <1>3, <1>4, <1>5, <1>6, <1>7, <1>8 DEF Next

THEOREM JobInvariant == Spec => []JobInv
BY InitJobInv, NextKeeps, PTL DEF Spec

\* Whatever processes there are and however they are killed, the markers of a job
\* come in their order and a recovered verdict refines an interrupted one (once).
THEOREM JobTypeCorrect == Spec => []TypeOK
<1>1. JobInv => TypeOK
  BY DEF JobInv
<1> QED
  BY <1>1, JobInvariant, PTL

\* The native build of a job starts at most once, and never after a cancellation
\* that came before the claim, for any number of processes (executeJob).
THEOREM BuildsOnce == Spec => []NativeAtMostOnce
<1>1. JobInv => NativeAtMostOnce
  BY DEF JobInv, BuiltInv, NativeAtMostOnce
<1> QED
  BY <1>1, JobInvariant, PTL

\* Only a write of a verdict changes the one on record.
LEMMA OnlyWritesRecord ==
  ASSUME JobInv, [Next]_vars
  PROVE  \/ job'.terminal = job.terminal /\ job'.recovered = job.recovered
         \/ \E p \in Procs : WriteVerdict(p)
<1> USE DEF JobInv, TypeOK, Job
<1>1. ASSUME NEW p \in Procs, Client(p)
      PROVE  job'.terminal = job.terminal /\ job'.recovered = job.recovered
  BY <1>1 DEF Client, StartLook, StartClaim, StartSpawn, CancelLook, CancelMark, RecoverLook,
     RecoverJudge
<1>2. ASSUME NEW p \in Procs, Supervisor(p)
      PROVE  job'.terminal = job.terminal /\ job'.recovered = job.recovered
  BY <1>2 DEF Supervisor, SuperviseBegin, SuperviseGate, SuperviseClaim, SuperviseSpawn,
     KillWorker, Closed, Judge, Stop
<1>3. ASSUME NEW p \in Procs, Worker(p)
      PROVE  job'.terminal = job.terminal /\ job'.recovered = job.recovered
  BY <1>3 DEF Worker, ExecuteGate, ExecuteClaim, Build, Record, ExecuteExit
<1>4. ASSUME NEW p \in Procs, Run(p) \/ Beat(p) \/ Crash(p) PROVE job' = job
  BY <1>4 DEF Run, Beat, Crash
<1>5. CASE Silence \/ Tamper \/ ChangeSource \/ UNCHANGED vars
  BY <1>5 DEF Silence, Tamper, ChangeSource, vars
<1> QED
  BY <1>1, <1>2, <1>3, <1>4, <1>5 DEF Next, Step

\* A verdict on record is final, but for an interrupted one that a verified result
\* replaces (terminal, recover).
THEOREM VerdictFinal == Spec => VerdictNeverChanges
<1>1. ASSUME JobInv, [Next]_vars, Recorded # NoVerdict, Recorded' # Recorded
      PROVE  /\ Recorded.state = "interrupted" /\ ~Recorded.refs
             /\ Recorded'.refs /\ Recorded'.state # "interrupted"
  <2>1. ~(job'.terminal = job.terminal /\ job'.recovered = job.recovered)
    BY <1>1 DEF Recorded
  <2>2. PICK p \in Procs : WriteVerdict(p)
    BY <1>1, <2>1, OnlyWritesRecord
  <2>3. /\ job.terminal.state = "interrupted" /\ job'.terminal = job.terminal
        /\ job.recovered = NoVerdict /\ job'.recovered \in Verdict
        /\ job'.recovered.refs /\ job'.recovered.state # "interrupted"
    BY <1>1, <2>1, <2>2, WrittenVerdict DEF Recorded
  <2>4. NoVerdict \notin Verdict
    BY DEF NoVerdict, Verdict, None
  <2>5. Recorded = job.terminal /\ Recorded' = job'.recovered
    BY <2>3, <2>4 DEF Recorded
  <2> QED
    BY <1>1, <2>3, <2>5 DEF JobInv, BuiltInv
<1>2. JobInv /\ [Next]_vars =>
        [Recorded # NoVerdict /\ Recorded' # Recorded =>
           /\ Recorded.state = "interrupted" /\ ~Recorded.refs
           /\ Recorded'.refs /\ Recorded'.state # "interrupted"]_vars
  BY <1>1
<1> QED
  BY <1>2, JobInvariant, PTL DEF Spec, VerdictNeverChanges

-----------------------------------------------------------------------------
(* Whose the job is: parents and children, and who gives the verdict *)

\* What a process in state r is: a parent waits for its child, and only a worker
\* builds; only a supervisor writes of a cancellation without a result.
Shape(r) ==
  /\ r.child # Nobody <=> (r.run = "supervise" /\ r.step = "wait")
  /\ r.step \in {"build", "record", "exit"} => r.run = "execute"
  /\ r.run = "execute" => r.step \in {"begin", "own", "build", "record", "exit"}
  /\ r.step = "write" /\ r.verdict.state = "cancelled" /\ ~r.verdict.refs =>
       r.run = "supervise"

Family ==
  /\ \A p \in Procs : Shape(proc[p])
  /\ \A p \in Procs : proc[p].child # Nobody => proc[proc[p].child].run = "execute"

\* A supervisor, or a starter that is about to spawn one.
Leads(r) == r.run = "supervise" \/ (r.run = "start" /\ r.step = "spawn")

Works(r) == r.run = "execute"

\* The record says cancelled and names no result.
Unpaid == job.terminal.state = "cancelled" /\ ~job.terminal.refs

\* Of processes that nobody ran by hand one at most leads, and only its child works;
\* once the job was cancelled without a result nobody does.
OneLine ==
  ~stray =>
    /\ \A p \in Procs : Leads(proc[p]) \/ Works(proc[p]) => job.claim /\ ~Unpaid
    /\ \A p, q \in Procs : Leads(proc[p]) /\ Leads(proc[q]) => p = q
    /\ \A p, q \in Procs : Leads(proc[p]) /\ Works(proc[q]) => proc[p].child = q
    /\ Unpaid => job.claim

\* A process that gives a job its verdict before anybody claims the execution, and
\* one that does so after.
Starts(r) ==
  \/ r.run = "start" /\ r.step = "spawn"
  \/ r.step = "write" /\ r.file = "terminal"
  \/ r.run = "supervise" /\ r.step \in {"begin", "gate", "own", "stop"}

Answers(r) ==
  \/ r.step = "write" /\ r.file = "terminal"
  \/ r.run = "supervise" /\ r.step \in {"spawn", "wait", "closed", "verify", "stop"}

\* A claimed job without a verdict has one of the first kind, and once its execution
\* is claimed one of the second.
Attended ==
  Unjudged /\ ~crashed =>
    /\ ~job.execution => \E p \in Procs : Starts(proc[p])
    /\ job.execution => \E p \in Procs : Answers(proc[p])

LineInv == JobInv /\ Family /\ OneLine /\ Attended

\* Both kinds own the job: the first before its execution is claimed, the second after.
LEMMA OwnerFacts ==
  ASSUME NEW p \in Procs
  PROVE  /\ ~job.execution => (Owns(p) <=> Starts(proc[p]))
         /\ job.execution => (Answers(proc[p]) => Owns(p))
BY DEF Owns, At, Starts, Answers

LEMMA IdleFacts ==
  /\ Idle \in Process /\ Idle.run = "none" /\ Idle.step = "begin" /\ Idle.child = Nobody
  /\ Shape(Idle) /\ ~Leads(Idle) /\ ~Works(Idle) /\ ~Starts(Idle) /\ ~Answers(Idle)
BY DEF Idle, Process, NoVerdict, None, Shape, Leads, Works, Starts, Answers

LEMMA BeginFacts ==
  ASSUME NEW q, NEW run \in {"start", "cancel", "recover", "supervise", "execute"}
  PROVE  /\ Begin(q, run) \in Process
         /\ Begin(q, run).run = run /\ Begin(q, run).step = "begin"
         /\ Begin(q, run).child = Nobody
         /\ Shape(Begin(q, run))
<1>1. /\ Begin(q, run) \in Process
      /\ Begin(q, run).run = run /\ Begin(q, run).step = "begin"
      /\ Begin(q, run).child = Nobody
  BY DEF Begin, Idle, Process, NoVerdict, None
<1> QED
  BY <1>1 DEF Shape

LEMMA InitLine == Init => LineInv
<1> SUFFICES ASSUME Init PROVE LineInv
  OBVIOUS
<1>1. \A p \in Procs : proc[p] = Idle
  BY DEF Init
<1>2. Family
  BY <1>1, IdleFacts DEF Family
<1>3. OneLine
  BY <1>1, IdleFacts DEF Init, OneLine, Unpaid, NoVerdict, None
<1>4. Attended
  BY DEF Init, Attended, Unjudged
<1> QED
  BY <1>2, <1>3, <1>4, InitJobInv DEF LineInv

\* What becomes of each process when x ends.
LEMMA EndedProcs ==
  ASSUME JobInv, NEW x \in Procs, NEW ok \in BOOLEAN, NEW q \in Procs
  PROVE  /\ q = x => Ended(x, ok)[q] = Idle
         /\ q # x /\ proc[q].child # x => Ended(x, ok)[q] = proc[q]
         /\ q # x /\ proc[q].child = x =>
              /\ Ended(x, ok)[q].run = proc[q].run /\ Ended(x, ok)[q].step = "closed"
              /\ Ended(x, ok)[q].child = Nobody
<1>1. proc[q] \in Process
  BY DEF JobInv, TypeOK
<1> DEFINE r == [proc[q] EXCEPT !.child = Nobody, !.step = "closed", !.ok = ok]
<1>2. r.run = proc[q].run /\ r.step = "closed" /\ r.child = Nobody
  BY <1>1 DEF Process
<1>3. Ended(x, ok)[q] = IF q = x THEN Idle ELSE IF proc[q].child = x THEN r ELSE proc[q]
  BY DEF Ended
<1> HIDE DEF r
<1> QED
  BY <1>2, <1>3

\* Process x ends, which leaves the job what it needs.
LEMMA ExitLine ==
  ASSUME LineInv, NEW x \in Procs, NEW ok \in BOOLEAN, proc' = Ended(x, ok),
         job'.claim = job.claim, job'.execution = job.execution,
         job.terminal # NoVerdict => job'.terminal # NoVerdict,
         Unpaid' => Unpaid \/ (Leads(proc[x]) /\ proc[x].child = Nobody),
         stray' = stray, crashed => crashed',
         \/ crashed' \/ job'.terminal # NoVerdict \/ ~job.claim
         \/ /\ Starts(proc[x]) => job.execution
            /\ Answers(proc[x]) => ~job.execution
  PROVE  Family' /\ OneLine' /\ Attended'
<1> USE DEF LineInv
<1> x # Nobody
  BY JobAssumption
<1>1. \A q \in Procs : /\ q = x => proc'[q] = Idle
                       /\ q # x /\ proc[q].child # x => proc'[q] = proc[q]
                       /\ q # x /\ proc[q].child = x =>
                            /\ proc'[q].run = "supervise" /\ proc'[q].step = "closed"
                            /\ proc'[q].child = Nobody
                            /\ proc[q].run = "supervise" /\ proc[q].step = "wait"
  BY EndedProcs DEF Family, Shape
<1>2. Family'
  <2>1. \A q \in Procs : Shape(proc'[q])
    BY <1>1, IdleFacts DEF Family, Shape
  <2>2. ASSUME NEW q \in Procs, proc'[q].child # Nobody
        PROVE  proc'[proc'[q].child].run = "execute"
    <3>1. q # x /\ proc[q].child # x /\ proc'[q] = proc[q]
      BY <1>1, <2>2, IdleFacts
    <3>2. proc[q].child \in Procs /\ proc[proc[q].child].run = "execute"
      BY <2>2, <3>1 DEF Family, JobInv, TypeOK, Process
    <3> QED
      BY <1>1, <3>1, <3>2
  <2>3. (\A q \in Procs : Shape(proc[q]))'
    BY <2>1 DEF Shape
  <2> QED
    BY <2>2, <2>3 DEF Family
<1>3. \A q \in Procs : /\ Leads(proc'[q]) => q # x /\ Leads(proc[q])
                       /\ Works(proc'[q]) => q # x /\ Works(proc[q])
  BY <1>1, IdleFacts DEF Leads, Works
<1>4. OneLine'
  <2> SUFFICES ASSUME ~stray
               PROVE  /\ \A p \in Procs : Leads(proc'[p]) \/ Works(proc'[p]) => job'.claim /\ ~Unpaid'
                      /\ \A p, q \in Procs : Leads(proc'[p]) /\ Leads(proc'[q]) => p = q
                      /\ \A p, q \in Procs : Leads(proc'[p]) /\ Works(proc'[q]) => proc'[p].child = q
                      /\ Unpaid' => job'.claim
    BY DEF OneLine, Leads, Works
  <2>1. \A p, q \in Procs : Leads(proc'[p]) /\ Leads(proc'[q]) => p = q
    BY <1>3 DEF OneLine
  <2>2. ASSUME NEW p \in Procs, NEW q \in Procs, Leads(proc'[p]), Works(proc'[q])
        PROVE  proc'[p].child = q
    <3>1. p # x /\ q # x /\ proc[p].child = q
      BY <1>3, <2>2 DEF OneLine
    <3> QED
      BY <1>1, <3>1
  <2>3. ASSUME NEW p \in Procs, Leads(proc'[p]) \/ Works(proc'[p])
        PROVE  job'.claim /\ ~Unpaid'
    <3>1. p # x /\ (Leads(proc[p]) \/ Works(proc[p]))
      BY <1>3, <2>3
    <3>2. job.claim /\ ~Unpaid
      BY <3>1 DEF OneLine
    <3>3. ~(Leads(proc[x]) /\ proc[x].child = Nobody)
      <4> SUFFICES ASSUME Leads(proc[x]), proc[x].child = Nobody PROVE FALSE
        OBVIOUS
      <4>1. CASE Leads(proc[p])
        BY <3>1, <4>1 DEF OneLine
      <4>2. CASE Works(proc[p])
        BY <3>1, <4>2, JobAssumption DEF OneLine
      <4> QED
        BY <3>1, <4>1, <4>2
    <3> QED
      BY <3>2, <3>3
  <2>4. Unpaid' => job'.claim
    BY DEF OneLine
  <2> QED
    BY <2>1, <2>2, <2>3, <2>4
<1>5. Attended'
  <2> SUFFICES ASSUME job'.claim, job'.terminal = NoVerdict, ~crashed'
               PROVE  /\ ~job'.execution => \E p \in Procs : Starts(proc'[p])
                      /\ job'.execution => \E p \in Procs : Answers(proc'[p])
    BY DEF Attended, Unjudged, Starts, Answers
  <2>1. Unjudged /\ ~crashed
    BY DEF Unjudged
  <2>2. \A q \in Procs : q # x => /\ Starts(proc[q]) => Starts(proc'[q])
                                  /\ Answers(proc[q]) => Answers(proc'[q])
    BY <1>1 DEF Starts, Answers
  <2>3. ASSUME ~job'.execution PROVE \E p \in Procs : Starts(proc'[p])
    <3>1. PICK p \in Procs : Starts(proc[p])
      BY <2>1, <2>3 DEF Attended
    <3>2. p # x
      BY <2>3, <3>1
    <3> QED
      BY <2>2, <3>1, <3>2
  <2>4. ASSUME job'.execution PROVE \E p \in Procs : Answers(proc'[p])
    <3>1. PICK p \in Procs : Answers(proc[p])
      BY <2>1, <2>4 DEF Attended
    <3>2. p # x
      BY <2>4, <3>1
    <3> QED
      BY <2>2, <3>1, <3>2
  <2> QED
    BY <2>3, <2>4
<1> QED
  BY <1>2, <1>4, <1>5

\* Process p goes on as r, still the same command; it may have claimed the job or
\* its execution.
LEMMA MoveLine ==
  ASSUME LineInv, NEW p \in Procs, NEW r \in Process,
         proc' = [proc EXCEPT ![p] = r],
         r.run = proc[p].run, proc[p].child = Nobody, r.child = Nobody, Shape(r),
         job.claim => job'.claim, job.execution => job'.execution,
         job'.terminal = job.terminal, stray' = stray, crashed' = crashed,
         Leads(r) => Leads(proc[p]) \/ (~job.claim /\ job'.claim),
         Starts(r) \/ job'.execution \/ (~Starts(proc[p]) /\ job'.claim = job.claim),
         Answers(r) \/ (~Answers(proc[p]) /\ job'.execution = job.execution)
  PROVE  Family' /\ OneLine' /\ Attended'
<1> USE DEF LineInv
<1>1. proc'[p] = r /\ \A q \in Procs : q # p => proc'[q] = proc[q]
  BY DEF JobInv, TypeOK
<1>2. Family'
  <2>1. \A q \in Procs : Shape(proc'[q])
    BY <1>1 DEF Family
  <2>2. ASSUME NEW q \in Procs, proc'[q].child # Nobody
        PROVE  proc'[proc'[q].child].run = "execute"
    <3>1. q # p /\ proc'[q] = proc[q]
      BY <1>1, <2>2
    <3>2. proc[q].child \in Procs /\ proc[proc[q].child].run = "execute"
      BY <2>2, <3>1 DEF Family, JobInv, TypeOK, Process
    <3> QED
      BY <1>1, <3>1, <3>2
  <2>3. (\A q \in Procs : Shape(proc[q]))'
    BY <2>1 DEF Shape
  <2> QED
    BY <2>2, <2>3 DEF Family
<1>3. \A q \in Procs : Works(proc'[q]) => Works(proc[q])
  BY <1>1 DEF Works
<1>4. Unpaid' <=> Unpaid
  BY DEF Unpaid
<1>5. OneLine'
  <2> SUFFICES ASSUME ~stray
               PROVE  /\ \A q \in Procs : Leads(proc'[q]) \/ Works(proc'[q]) => job'.claim /\ ~Unpaid'
                      /\ \A u, v \in Procs : Leads(proc'[u]) /\ Leads(proc'[v]) => u = v
                      /\ \A u, v \in Procs : Leads(proc'[u]) /\ Works(proc'[v]) => proc'[u].child = v
                      /\ Unpaid' => job'.claim
    BY DEF OneLine, Leads, Works
  <2>1. CASE Leads(r) => Leads(proc[p])
    <3>1. \A q \in Procs : Leads(proc'[q]) => Leads(proc[q])
      BY <1>1, <2>1
    <3>2. \A q \in Procs : proc'[q].child = proc[q].child
      BY <1>1
    <3> QED
      BY <1>3, <1>4, <3>1, <3>2 DEF OneLine
  <2>2. CASE Leads(r) /\ ~job.claim /\ job'.claim
    <3>1. \A q \in Procs : ~Leads(proc[q]) /\ ~Works(proc[q])
      BY <2>2 DEF OneLine
    <3>2. ~Unpaid'
      BY <1>4, <2>2 DEF OneLine
    <3>3. \A q \in Procs : ~Works(proc'[q])
      BY <1>3, <3>1
    <3>4. \A q \in Procs : Leads(proc'[q]) => q = p
      BY <1>1, <3>1
    <3> QED
      BY <2>2, <3>2, <3>3, <3>4
  <2> QED
    BY <2>1, <2>2
<1>6. Attended'
  <2> SUFFICES ASSUME job'.claim, job.terminal = NoVerdict, ~crashed
               PROVE  /\ ~job'.execution => \E q \in Procs : Starts(proc'[q])
                      /\ job'.execution => \E q \in Procs : Answers(proc'[q])
    BY DEF Attended, Unjudged, Starts, Answers
  <2>1. ASSUME ~job'.execution PROVE \E q \in Procs : Starts(proc'[q])
    <3>1. CASE Starts(r)
      BY <1>1, <3>1
    <3>2. CASE ~Starts(proc[p]) /\ job'.claim = job.claim
      <4>1. PICK q \in Procs : Starts(proc[q])
        BY <2>1, <3>2 DEF Attended, Unjudged, JobInv, BuiltInv
      <4> QED
        BY <1>1, <3>2, <4>1
    <3> QED
      BY <2>1, <3>1, <3>2
  <2>2. ASSUME job'.execution PROVE \E q \in Procs : Answers(proc'[q])
    <3>1. CASE Answers(r)
      BY <1>1, <3>1
    <3>2. CASE ~Answers(proc[p]) /\ job'.execution = job.execution
      <4>1. PICK q \in Procs : Answers(proc[q])
        BY <2>2, <3>2 DEF Attended, Unjudged, JobInv, BuiltInv
      <4> QED
        BY <1>1, <3>2, <4>1
    <3> QED
      BY <3>1, <3>2
  <2> QED
    BY <2>1, <2>2
<1> QED
  BY <1>2, <1>5, <1>6

\* The same for a step within a command that leaves the job and the world alone.
LEMMA GotoLine ==
  ASSUME LineInv, NEW p \in Procs,
         NEW step \in {"begin", "gate", "own", "closed", "verify", "stop", "mark", "spawn",
                       "build", "exit"},
         Goto(p, step),
         Shape(proc'[p]), proc[p].child = Nobody,
         job.claim => job'.claim, job.execution => job'.execution,
         job'.terminal = job.terminal, stray' = stray, crashed' = crashed,
         Leads(proc'[p]) => Leads(proc[p]) \/ (~job.claim /\ job'.claim),
         \/ Starts(proc'[p]) \/ job'.execution
         \/ ~Starts(proc[p]) /\ job'.claim = job.claim,
         Answers(proc'[p]) \/ (~Answers(proc[p]) /\ job'.execution = job.execution)
  PROVE  Family' /\ OneLine' /\ Attended'
<1> DEFINE r == [proc[p] EXCEPT !.step = step]
<1>1. proc[p] \in Process /\ proc \in [Procs -> Process]
  BY DEF LineInv, JobInv, TypeOK
<1>2. proc' = [proc EXCEPT ![p] = r]
  BY <1>1 DEF Goto
<1>3. r \in Process /\ r.run = proc[p].run /\ r.child = Nobody
  BY <1>1 DEF Process
<1>4. PICK s : s = r
  OBVIOUS
<1>5. proc'[p] = s /\ proc' = [proc EXCEPT ![p] = s]
  BY <1>1, <1>2, <1>4
<1>6. s \in Process /\ s.run = proc[p].run /\ s.child = Nobody
  BY <1>3, <1>4
<1> HIDE DEF r
<1>7. /\ Shape(s)
      /\ Leads(s) => Leads(proc[p]) \/ (~job.claim /\ job'.claim)
      /\ Starts(s) \/ job'.execution \/ (~Starts(proc[p]) /\ job'.claim = job.claim)
      /\ Answers(s) \/ (~Answers(proc[p]) /\ job'.execution = job.execution)
  BY <1>5
<1> QED
  BY <1>5, <1>6, <1>7, MoveLine

\* Process p goes on to write a verdict; only a supervisor's may cancel without a
\* result, and who owed the job its verdict now writes it.
LEMMA WriteLine ==
  ASSUME LineInv, NEW p \in Procs, NEW file \in {"terminal", "recovered"},
         NEW state \in States,
         NEW refs \in BOOLEAN, Write(p, file, state, refs),
         proc[p].run # "execute", proc[p].child = Nobody,
         state = "cancelled" /\ ~refs => proc[p].run = "supervise",
         file = "terminal" \/ (proc[p].run = "recover" /\ proc[p].step = "verify"),
         UNCHANGED <<job, world, aux>>
  PROVE  Family' /\ OneLine' /\ Attended'
<1> DEFINE v == [state |-> state, refs |-> refs]
           r == [proc[p] EXCEPT !.step = "write", !.file = file, !.verdict = v]
<1>1. v \in Verdict
  BY DEF Verdict
<1>2. proc[p] \in Process /\ proc \in [Procs -> Process]
  BY DEF LineInv, JobInv, TypeOK
<1>3. /\ r \in Process
      /\ r.step = "write" /\ r.file = file /\ r.verdict = v /\ r.run = proc[p].run
      /\ r.child = Nobody
  BY <1>1, <1>2 DEF Process
<1>4. v.state = state /\ v.refs = refs
  OBVIOUS
<1> HIDE DEF v
<1>5. proc' = [proc EXCEPT ![p] = r]
  BY <1>2 DEF Write, v
<1> HIDE DEF r
<1>6. Shape(r)
  BY <1>3, <1>4 DEF Shape
<1>7. Leads(r) => Leads(proc[p])
  BY <1>3 DEF Leads
<1>8. (Starts(r) /\ Answers(r)) \/ (~Starts(proc[p]) /\ ~Answers(proc[p]))
  BY <1>3 DEF Starts, Answers
<1> QED
  BY <1>3, <1>5, <1>6, <1>7, <1>8, MoveLine DEF aux

\* Process q, idle until now, begins a command at the shell.
LEMMA RunLine == ASSUME LineInv, NEW q \in Procs, Run(q) PROVE Family' /\ OneLine' /\ Attended'
<1> USE DEF LineInv
<1>1. PICK run \in {"start", "cancel", "recover", "supervise", "execute"} :
        /\ proc' = [proc EXCEPT ![q] = Begin(q, run)]
        /\ stray' = (stray \/ run \in {"supervise", "execute"})
  BY DEF Run
<1>2. proc[q] = Idle /\ UNCHANGED <<job, crashed>>
  BY DEF Run
<1>3. /\ proc'[q] = Begin(q, run) /\ proc'[q].run = run /\ proc'[q].step = "begin"
      /\ proc'[q].child = Nobody /\ Shape(proc'[q])
      /\ \A p \in Procs : p # q => proc'[p] = proc[p]
  BY <1>1, BeginFacts DEF JobInv, TypeOK
<1>4. Family'
  <2>1. \A p \in Procs : Shape(proc'[p])
    BY <1>3 DEF Family
  <2>2. ASSUME NEW p \in Procs, proc'[p].child # Nobody
        PROVE  proc'[proc'[p].child].run = "execute"
    <3>1. p # q /\ proc'[p] = proc[p]
      BY <1>3, <2>2
    <3>2. proc[p].child \in Procs /\ proc[proc[p].child].run = "execute"
      BY <2>2, <3>1 DEF Family, JobInv, TypeOK, Process
    <3>3. proc[p].child # q
      BY <1>2, <3>2, IdleFacts
    <3> QED
      BY <1>3, <3>1, <3>2, <3>3
  <2>3. (\A p \in Procs : Shape(proc[p]))'
    BY <2>1 DEF Shape
  <2> QED
    BY <2>2, <2>3 DEF Family
<1>5. OneLine'
  <2> SUFFICES ASSUME ~stray'
               PROVE  /\ \A p \in Procs : Leads(proc'[p]) \/ Works(proc'[p]) => job.claim /\ ~Unpaid
                      /\ \A u, v \in Procs : Leads(proc'[u]) /\ Leads(proc'[v]) => u = v
                      /\ \A u, v \in Procs : Leads(proc'[u]) /\ Works(proc'[v]) => proc'[u].child = v
                      /\ Unpaid => job.claim
    BY <1>2 DEF OneLine, Leads, Works, Unpaid
  <2>1. ~stray /\ run \notin {"supervise", "execute"}
    BY <1>1
  <2>2. ~Leads(proc'[q]) /\ ~Works(proc'[q])
    BY <1>3, <2>1 DEF Leads, Works
  <2> QED
    BY <1>3, <2>1, <2>2 DEF OneLine
<1>6. Attended'
  <2>1. \A p \in Procs : /\ Starts(proc[p]) => Starts(proc'[p])
                         /\ Answers(proc[p]) => Answers(proc'[p])
    BY <1>2, <1>3, IdleFacts
  <2>2. /\ (\E p \in Procs : Starts(proc[p])) => (\E p \in Procs : Starts(proc'[p]))
        /\ (\E p \in Procs : Answers(proc[p])) => (\E p \in Procs : Answers(proc'[p]))
    BY <2>1
  <2> QED
    BY <1>2, <2>2 DEF Attended, Unjudged, Starts, Answers
<1> QED
  BY <1>4, <1>5, <1>6

\* A starter ends and its supervisor begins.
LEMMA StarterLine ==
  ASSUME LineInv, NEW p \in Procs, At(p, "start", "spawn"),
         NEW q \in Procs, proc[q] = Idle,
         proc' = [Ended(p, TRUE) EXCEPT ![q] = Begin(q, "supervise")],
         UNCHANGED <<job, world, aux>>
  PROVE  Family' /\ OneLine' /\ Attended'
<1> USE DEF LineInv
<1>1. proc[p].run = "start" /\ proc[p].step = "spawn" /\ p # q
  BY IdleFacts DEF At
<1>2. \A u \in Procs : proc[u].child # p
  BY <1>1, JobAssumption DEF Family
<1>3. /\ proc'[p] = Idle
      /\ proc'[q] = Begin(q, "supervise") /\ proc'[q].run = "supervise"
      /\ proc'[q].step = "begin" /\ proc'[q].child = Nobody /\ Shape(proc'[q])
      /\ \A u \in Procs : u # p /\ u # q => proc'[u] = proc[u]
  <2>1. /\ Ended(p, TRUE) \in [Procs -> Process] /\ Ended(p, TRUE)[p] = Idle
        /\ \A u \in Procs : u # p => Ended(p, TRUE)[u] = proc[u]
    BY <1>2, EndedFacts, EndedProcs
  <2>2. /\ Begin(q, "supervise").run = "supervise" /\ Begin(q, "supervise").step = "begin"
        /\ Begin(q, "supervise").child = Nobody /\ Shape(Begin(q, "supervise"))
    BY BeginFacts
  <2>3. /\ proc'[p] = Idle /\ proc'[q] = Begin(q, "supervise")
        /\ \A u \in Procs : u # p /\ u # q => proc'[u] = proc[u]
    BY <1>1, <2>1
  <2> QED
    BY <2>2, <2>3
<1>4. Family'
  <2>1. \A u \in Procs : Shape(proc'[u])
    BY <1>3, IdleFacts DEF Family
  <2>2. ASSUME NEW u \in Procs, proc'[u].child # Nobody
        PROVE  proc'[proc'[u].child].run = "execute"
    <3>1. u # p /\ u # q /\ proc'[u] = proc[u]
      BY <1>3, <2>2, IdleFacts
    <3>2. proc[u].child \in Procs /\ proc[proc[u].child].run = "execute"
      <4>1. proc[u] \in Process
        BY DEF JobInv, TypeOK
      <4>2. proc[u].child \in Procs
        BY <2>2, <3>1, <4>1 DEF Process
      <4> QED
        BY <2>2, <3>1, <4>2 DEF Family
    <3>3. proc[u].child # q /\ proc[u].child # p
      BY <1>2, <3>2, IdleFacts
    <3> QED
      BY <1>3, <3>1, <3>2, <3>3
  <2>3. (\A u \in Procs : Shape(proc[u]))'
    BY <2>1 DEF Shape
  <2> QED
    BY <2>2, <2>3 DEF Family
<1>5. OneLine'
  <2> SUFFICES ASSUME ~stray
               PROVE  /\ \A u \in Procs : Leads(proc'[u]) \/ Works(proc'[u]) => job.claim /\ ~Unpaid
                      /\ \A u, v \in Procs : Leads(proc'[u]) /\ Leads(proc'[v]) => u = v
                      /\ \A u, v \in Procs : Leads(proc'[u]) /\ Works(proc'[v]) => proc'[u].child = v
                      /\ Unpaid => job.claim
    BY DEF OneLine, Leads, Works, Unpaid, aux
  <2>1. Leads(proc[p]) /\ proc[p].child = Nobody
    BY <1>1 DEF Leads, Family, Shape
  <2>2. \A u \in Procs : (Leads(proc[u]) => u = p) /\ ~Works(proc[u])
    BY <2>1, JobAssumption DEF OneLine
  <2>3. \A u \in Procs : (Leads(proc'[u]) => u = q) /\ ~Works(proc'[u])
    <3>1. ~Works(proc'[q])
      BY <1>3 DEF Works
    <3> QED
      BY <1>3, <2>2, <3>1, IdleFacts
  <2>4. job.claim /\ ~Unpaid
    BY <2>1 DEF OneLine
  <2> QED
    BY <2>3, <2>4
<1>6. Attended'
  <2>1. Starts(proc'[q])
    BY <1>3 DEF Starts
  <2>2. \A u \in Procs : Answers(proc[u]) => Answers(proc'[u])
    BY <1>1, <1>3, IdleFacts DEF Answers
  <2>3. \E u \in Procs : Starts(proc'[u])
    BY <2>1
  <2>4. (\E u \in Procs : Answers(proc[u])) => (\E u \in Procs : Answers(proc'[u]))
    BY <2>2
  <2> QED
    BY <2>3, <2>4 DEF Attended, Unjudged, Starts, Answers, aux
<1> QED
  BY <1>4, <1>5, <1>6

\* A supervisor spawns its worker and waits for it.
LEMMA ParentLine ==
  ASSUME LineInv, NEW p \in Procs, At(p, "supervise", "spawn"),
         NEW q \in Procs, proc[q] = Idle,
         proc' = [proc EXCEPT ![p].step = "wait", ![p].child = q, ![q] = Begin(q, "execute")],
         UNCHANGED <<job, aux>>
  PROVE  Family' /\ OneLine' /\ Attended'
<1> USE DEF LineInv
<1> DEFINE r == [proc[p] EXCEPT !.step = "wait", !.child = q]
<1>1. /\ proc[p].run = "supervise" /\ proc[p].step = "spawn" /\ p # q
      /\ proc[p] \in Process /\ proc \in [Procs -> Process]
  BY IdleFacts DEF At, JobInv, TypeOK
<1>2. r.step = "wait" /\ r.run = "supervise" /\ r.child = q
  BY <1>1 DEF Process
<1>3. /\ proc'[p] = r
      /\ proc'[q] = Begin(q, "execute") /\ proc'[q].run = "execute"
      /\ proc'[q].step = "begin" /\ proc'[q].child = Nobody /\ Shape(proc'[q])
      /\ \A u \in Procs : u # p /\ u # q => proc'[u] = proc[u]
  BY <1>1, BeginFacts
<1> HIDE DEF r
<1>4. Family'
  <2>1. \A u \in Procs : Shape(proc'[u])
    <3>1. Shape(r)
      BY <1>2, JobAssumption DEF Shape
    <3> QED
      BY <1>3, <3>1 DEF Family
  <2>2. ASSUME NEW u \in Procs, proc'[u].child # Nobody
        PROVE  proc'[proc'[u].child].run = "execute"
    <3>1. CASE u = p
      BY <1>2, <1>3, <3>1
    <3>2. CASE u # p
      <4>1. proc'[u] = proc[u] /\ u # q
        BY <1>3, <2>2, <3>2
      <4>2. proc[u].child \in Procs /\ proc[proc[u].child].run = "execute"
        BY <2>2, <4>1 DEF Family, JobInv, TypeOK, Process
      <4>3. proc[u].child # q /\ proc[u].child # p
        BY <1>1, <4>2, IdleFacts
      <4> QED
        BY <1>3, <4>1, <4>2, <4>3
    <3> QED
      BY <3>1, <3>2
  <2>3. (\A u \in Procs : Shape(proc[u]))'
    BY <2>1 DEF Shape
  <2> QED
    BY <2>2, <2>3 DEF Family
<1>5. OneLine'
  <2> SUFFICES ASSUME ~stray
               PROVE  /\ \A u \in Procs : Leads(proc'[u]) \/ Works(proc'[u]) => job.claim /\ ~Unpaid
                      /\ \A u, v \in Procs : Leads(proc'[u]) /\ Leads(proc'[v]) => u = v
                      /\ \A u, v \in Procs : Leads(proc'[u]) /\ Works(proc'[v]) => proc'[u].child = v
                      /\ Unpaid => job.claim
    BY DEF OneLine, Leads, Works, Unpaid, aux
  <2>1. Leads(proc[p]) /\ proc[p].child = Nobody
    BY <1>1 DEF Leads, Family, Shape
  <2>2. \A u \in Procs : (Leads(proc[u]) => u = p) /\ ~Works(proc[u])
    BY <2>1, JobAssumption DEF OneLine
  <2>3. \A u \in Procs : (Leads(proc'[u]) => u = p) /\ (Works(proc'[u]) => u = q)
    <3>1. ~Leads(proc'[q]) /\ ~Works(proc'[p])
      BY <1>2, <1>3 DEF Works, Leads
    <3> QED
      BY <1>3, <2>2, <3>1
  <2>4. job.claim /\ ~Unpaid /\ proc'[p].child = q
    BY <1>2, <1>3, <2>1 DEF OneLine
  <2> QED
    BY <2>3, <2>4
<1>6. Attended'
  <2>1. Answers(proc'[p]) /\ ~Starts(proc[p])
    BY <1>1, <1>2, <1>3 DEF Starts, Answers
  <2>2. \A u \in Procs : Starts(proc[u]) => Starts(proc'[u])
    BY <1>3, <2>1, IdleFacts
  <2>3. \E u \in Procs : Answers(proc'[u])
    BY <2>1
  <2>4. (\E u \in Procs : Starts(proc[u])) => (\E u \in Procs : Starts(proc'[u]))
    BY <2>2
  <2> QED
    BY <2>3, <2>4 DEF Attended, Unjudged, Starts, Answers, aux
<1> QED
  BY <1>4, <1>5, <1>6

\* A supervisor spawns its worker and gives it up: its first heartbeat failed.
LEMMA StrayLine ==
  ASSUME LineInv, NEW p \in Procs, At(p, "supervise", "spawn"),
         NEW q \in Procs, proc[q] = Idle,
         proc' = [proc EXCEPT ![p].step = "closed", ![q] = Begin(q, "execute")],
         stray' = TRUE, UNCHANGED <<job, crashed>>
  PROVE  Family' /\ OneLine' /\ Attended'
<1> USE DEF LineInv
<1> DEFINE r == [proc[p] EXCEPT !.step = "closed"]
<1>1. /\ proc[p].run = "supervise" /\ proc[p].step = "spawn" /\ p # q
      /\ proc[p] \in Process /\ proc \in [Procs -> Process]
  BY IdleFacts DEF At, JobInv, TypeOK
<1>2. r.step = "closed" /\ r.run = "supervise" /\ r.child = Nobody
  BY <1>1 DEF Process, Family, Shape
<1>3. /\ proc'[p] = r
      /\ proc'[q] = Begin(q, "execute") /\ proc'[q].child = Nobody /\ Shape(proc'[q])
      /\ \A u \in Procs : u # p /\ u # q => proc'[u] = proc[u]
  BY <1>1, BeginFacts
<1> HIDE DEF r
<1>4. Family'
  <2>1. \A u \in Procs : Shape(proc'[u])
    <3>1. Shape(r)
      BY <1>2 DEF Shape
    <3> QED
      BY <1>3, <3>1 DEF Family
  <2>2. ASSUME NEW u \in Procs, proc'[u].child # Nobody
        PROVE  proc'[proc'[u].child].run = "execute"
    <3>1. proc'[u] = proc[u] /\ u # q /\ u # p
      BY <1>2, <1>3, <2>2
    <3>2. proc[u].child \in Procs /\ proc[proc[u].child].run = "execute"
      BY <2>2, <3>1 DEF Family, JobInv, TypeOK, Process
    <3>3. proc[u].child # q /\ proc[u].child # p
      BY <1>1, <3>2, IdleFacts
    <3> QED
      BY <1>3, <3>1, <3>2, <3>3
  <2>3. (\A u \in Procs : Shape(proc[u]))'
    BY <2>1 DEF Shape
  <2> QED
    BY <2>2, <2>3 DEF Family
<1>5. OneLine'
  BY DEF OneLine
<1>6. Attended'
  <2>1. Answers(proc'[p]) /\ ~Starts(proc[p])
    BY <1>1, <1>2, <1>3 DEF Starts, Answers
  <2>2. \A u \in Procs : Starts(proc[u]) => Starts(proc'[u])
    BY <1>3, <2>1, IdleFacts
  <2>3. /\ \E u \in Procs : Answers(proc'[u])
        /\ (\E u \in Procs : Starts(proc[u])) => (\E u \in Procs : Starts(proc'[u]))
    BY <2>1, <2>2
  <2> QED
    BY <2>3 DEF Attended, Unjudged, Starts, Answers
<1> QED
  BY <1>4, <1>5, <1>6

\* Process p ends, of its own accord, where nobody counts on it.
LEMMA QuitLine ==
  ASSUME LineInv, NEW p \in Procs, NEW ok \in BOOLEAN, Exit(p, ok),
         job'.claim = job.claim, job'.execution = job.execution,
         job'.terminal = job.terminal, UNCHANGED <<stray, crashed>>,
         Starts(proc[p]) => ~job.claim \/ job.execution \/ job.terminal # NoVerdict,
         ~Answers(proc[p])
  PROVE  Family' /\ OneLine' /\ Attended'
<1>1. proc' = Ended(p, ok) /\ (Unpaid' <=> Unpaid)
  BY DEF Exit, Unpaid
<1>2. \/ job'.terminal # NoVerdict \/ ~job.claim
      \/ /\ Starts(proc[p]) => job.execution
         /\ Answers(proc[p]) => ~job.execution
  OBVIOUS
<1> QED
  BY <1>1, <1>2, ExitLine

LEMMA GotoChild ==
  ASSUME JobInv, NEW p \in Procs,
         NEW step \in {"begin", "gate", "own", "spawn", "wait", "closed", "judge", "verify",
                       "stop", "write", "mark", "build", "record", "exit"},
         Goto(p, step)
  PROVE  proc'[p].child = proc[p].child
<1>1. proc[p] \in Process /\ proc'[p] = [proc[p] EXCEPT !.step = step]
  BY DEF JobInv, TypeOK, Goto
<1> QED
  BY <1>1 DEF Process

\* Where a process is tells what it is to the job.
LEMMA RoleFacts ==
  ASSUME LineInv, NEW p \in Procs
  PROVE  /\ proc[p].run = "start" /\ proc[p].step \in {"begin", "own"} =>
              ~Starts(proc[p]) /\ ~Answers(proc[p])
         /\ proc[p].run \in {"cancel", "recover"} /\ proc[p].step # "write" =>
              ~Starts(proc[p]) /\ ~Answers(proc[p])
         /\ proc[p].run = "execute" => ~Starts(proc[p]) /\ ~Answers(proc[p])
         /\ proc[p].run = "supervise" /\ proc[p].step \in {"begin", "gate", "own"} =>
              ~Answers(proc[p])
         /\ proc[p].run # "supervise" => proc[p].child = Nobody
         /\ proc[p].step # "wait" => proc[p].child = Nobody
BY DEF LineInv, Family, Shape, Starts, Answers

LEMMA ClientLine == ASSUME LineInv, NEW p \in Procs, Client(p) PROVE Family' /\ OneLine' /\ Attended'
<1> JobInv
  BY DEF LineInv
<1> USE DEF aux
<1>1. CASE StartLook(p)
  <2>1. CASE Goto(p, "own")
    <3>1. proc[p].run = "start" /\ proc[p].step = "begin" /\ UNCHANGED <<job, aux>>
      BY <1>1 DEF StartLook, At
    <3>2. proc'[p].run = "start" /\ proc'[p].step = "own" /\ proc'[p].child = Nobody
      BY <2>1, <3>1, GotoFacts, GotoChild, RoleFacts
    <3>3. Shape(proc'[p]) /\ ~Leads(proc'[p])
      BY <3>2 DEF Shape, Leads
    <3> QED
      BY <2>1, <3>1, <3>3, RoleFacts, GotoLine
  <2>2. CASE Exit(p, TRUE)
    BY <1>1, <2>2, QuitLine, RoleFacts DEF StartLook, At
  <2> QED
    BY <1>1, <2>1, <2>2 DEF StartLook
<1>2. CASE StartClaim(p)
  <2>1. /\ proc[p].run = "start" /\ proc[p].step = "own" /\ UNCHANGED aux
        /\ job'.claim /\ job'.execution = job.execution /\ job'.terminal = job.terminal
    BY <1>2 DEF StartClaim, At, Once, JobInv, TypeOK, Job
  <2>2. CASE job.claim /\ Exit(p, TRUE)
    <3>1. job'.claim = job.claim
      BY <2>1, <2>2 DEF JobInv, TypeOK, Job
    <3> QED
      BY <2>1, <2>2, <3>1, QuitLine, RoleFacts
  <2>3. CASE ~job.claim /\ Goto(p, "spawn")
    <3>1. proc'[p].run = "start" /\ proc'[p].step = "spawn" /\ proc'[p].child = Nobody
      <4>1. proc'[p].step = "spawn" /\ proc'[p].run = proc[p].run
        BY <2>3, GotoFacts
      <4>2. proc'[p].child = proc[p].child
        BY <2>3, GotoChild
      <4>3. proc[p].child = Nobody
        BY <2>1, RoleFacts
      <4> QED
        BY <2>1, <4>1, <4>2, <4>3
    <3>2. Shape(proc'[p]) /\ Starts(proc'[p])
      BY <3>1 DEF Shape, Starts
    <3> QED
      BY <2>1, <2>3, <3>2, RoleFacts, GotoLine
  <2> QED
    BY <1>2, <2>2, <2>3 DEF StartClaim
<1>3. CASE StartSpawn(p)
  <2>1. At(p, "start", "spawn") /\ UNCHANGED <<job, world, aux>>
    BY <1>3 DEF StartSpawn
  <2>2. ASSUME NEW q \in Procs, proc[q] = Idle,
               proc' = [Ended(p, TRUE) EXCEPT ![q] = Begin(q, "supervise")]
        PROVE  Family' /\ OneLine' /\ Attended'
    BY <2>1, <2>2, StarterLine
  <2>3. CASE Write(p, "terminal", "failed", FALSE)
    BY <2>1, <2>3, RoleFacts, WriteLine DEF At
  <2> QED
    BY <1>3, <2>2, <2>3 DEF StartSpawn
<1>4. CASE CancelLook(p)
  <2>1. CASE Goto(p, "mark")
    <3>1. proc[p].run = "cancel" /\ proc[p].step = "begin" /\ UNCHANGED <<job, aux>>
      BY <1>4 DEF CancelLook, At
    <3>2. proc'[p].run = "cancel" /\ proc'[p].step = "mark" /\ proc'[p].child = Nobody
      BY <2>1, <3>1, GotoFacts, GotoChild, RoleFacts
    <3>3. Shape(proc'[p]) /\ ~Leads(proc'[p])
      BY <3>2 DEF Shape, Leads
    <3> QED
      BY <2>1, <3>1, <3>3, RoleFacts, GotoLine
  <2>2. CASE Exit(p, TRUE)
    BY <1>4, <2>2, QuitLine, RoleFacts DEF CancelLook, At
  <2> QED
    BY <1>4, <2>1, <2>2 DEF CancelLook
<1>5. CASE CancelMark(p)
  <2>1. /\ proc[p].run = "cancel" /\ proc[p].step = "mark" /\ Exit(p, TRUE)
        /\ UNCHANGED <<stray, crashed>>
        /\ job'.claim = job.claim /\ job'.execution = job.execution
        /\ job'.terminal = job.terminal
    BY <1>5 DEF CancelMark, At, JobInv, TypeOK, Job
  <2> QED
    BY <2>1, QuitLine, RoleFacts
<1>6. CASE RecoverLook(p)
  <2>1. proc[p].run = "recover" /\ proc[p].step = "begin" /\ UNCHANGED <<job, aux>>
    BY <1>6 DEF RecoverLook, At
  <2>2. CASE Status \in {"running", "interrupted"}
    <3> DEFINE file == IF Status = "interrupted" THEN "recovered" ELSE "terminal"
               r == [proc[p] EXCEPT !.step = "verify", !.file = file]
    <3>1. proc[p] \in Process /\ proc \in [Procs -> Process]
      BY DEF JobInv, TypeOK
    <3>2. proc[p].child = Nobody
      BY <2>1, RoleFacts
    <3>3. r \in Process /\ r.step = "verify" /\ r.run = "recover" /\ r.child = Nobody
      BY <2>1, <3>1, <3>2 DEF Process
    <3>4. proc' = [proc EXCEPT ![p] = r]
      BY <1>6, <2>2, <3>1 DEF RecoverLook
    <3> HIDE DEF r
    <3>5. Shape(r) /\ ~Leads(r)
      BY <3>3 DEF Shape, Leads
    <3> QED
      BY <2>1, <3>2, <3>3, <3>4, <3>5, RoleFacts, MoveLine
  <2>3. CASE Exit(p, TRUE)
    BY <2>1, <2>3, QuitLine, RoleFacts
  <2> QED
    BY <1>6, <2>2, <2>3 DEF RecoverLook
<1>7. CASE RecoverJudge(p)
  <2>1. /\ proc[p].run = "recover" /\ proc[p].step = "verify" /\ UNCHANGED <<job, world, aux>>
        /\ proc[p].file \in {"terminal", "recovered"}
        /\ job.result # None => job.result \in {"succeeded", "failed"}
    BY <1>7 DEF RecoverJudge, At, JobInv, TypeOK, Process, Job, Native
  <2>2. proc[p].child = Nobody /\ proc[p].run # "execute"
    BY <2>1, RoleFacts
  <2>3. CASE job.result # None
             /\ Write(p, proc[p].file, IF job.cancel THEN "cancelled" ELSE job.result, TRUE)
    <3>1. (IF job.cancel THEN "cancelled" ELSE job.result)
             \in States
      BY <2>1, <2>3
    <3> QED
      BY <2>1, <2>2, <2>3, <3>1, WriteLine
  <2>4. ASSUME NEW state \in {"interrupted", "unverified"}, Write(p, "terminal", state, FALSE)
        PROVE  Family' /\ OneLine' /\ Attended'
    BY <2>1, <2>2, <2>4, WriteLine
  <2>5. CASE Exit(p, TRUE)
    BY <2>1, <2>5, QuitLine, RoleFacts
  <2> QED
    BY <1>7, <2>3, <2>4, <2>5 DEF RecoverJudge
<1> QED
  BY <1>1, <1>2, <1>3, <1>4, <1>5, <1>6, <1>7 DEF Client

\* A supervisor that goes on to another of its steps; where one of the two kinds of
\* owners stops owning, the other kind is it.
LEMMA OnwardLine ==
  ASSUME LineInv, NEW p \in Procs, proc[p].run = "supervise", proc[p].child = Nobody,
         NEW step \in {"gate", "own", "spawn", "closed", "verify", "stop"}, Goto(p, step),
         job'.claim = job.claim, job.execution => job'.execution,
         job'.terminal = job.terminal, UNCHANGED <<stray, crashed>>,
         \/ step \in {"gate", "own", "stop"} \/ job'.execution
         \/ proc[p].step \notin {"begin", "gate", "own", "stop"},
         \/ step \in {"spawn", "closed", "verify", "stop"}
         \/ job'.execution = job.execution /\ proc[p].step \in {"begin", "gate"},
         proc[p].step # "write"
  PROVE  Family' /\ OneLine' /\ Attended'
<1> JobInv
  BY DEF LineInv
<1>1. proc'[p].run = "supervise" /\ proc'[p].step = step /\ proc'[p].child = Nobody
  <2>1. proc'[p].step = step /\ proc'[p].run = proc[p].run
    BY GotoFacts
  <2>2. proc'[p].child = proc[p].child
    BY GotoChild
  <2> QED
    BY <2>1, <2>2
<1>2. Shape(proc'[p]) /\ Leads(proc[p])
  BY <1>1 DEF Shape, Leads
<1>3. Starts(proc'[p]) \/ job'.execution \/ ~Starts(proc[p])
  BY <1>1 DEF Starts
<1>4. Answers(proc'[p]) \/ (~Answers(proc[p]) /\ job'.execution = job.execution)
  BY <1>1 DEF Answers
<1> QED
  BY <1>2, <1>3, <1>4, GotoLine

LEMMA SupervisorLine ==
  ASSUME LineInv, NEW p \in Procs, Supervisor(p) PROVE Family' /\ OneLine' /\ Attended'
<1> JobInv
  BY DEF LineInv
<1> USE DEF aux
<1>1. CASE SuperviseBegin(p)
  <2>1. proc[p].run = "supervise" /\ proc[p].step = "begin" /\ UNCHANGED <<job, aux>>
    BY <1>1 DEF SuperviseBegin, At
  <2>2. CASE (~job.claim \/ job.terminal # NoVerdict) /\ Exit(p, TRUE)
    BY <2>1, <2>2, QuitLine, RoleFacts
  <2>3. CASE Goto(p, "gate")
    BY <2>1, <2>3, RoleFacts, OnwardLine
  <2> QED
    BY <1>1, <2>2, <2>3 DEF SuperviseBegin
<1>2. CASE SuperviseGate(p)
  <2>1. proc[p].run = "supervise" /\ proc[p].step = "gate" /\ UNCHANGED <<job, world, aux>>
    BY <1>2 DEF SuperviseGate, At
  <2>2. CASE Write(p, "terminal", "failed", FALSE)
    BY <2>1, <2>2, RoleFacts, WriteLine
  <2>3. CASE Goto(p, "stop")
    BY <2>1, <2>3, RoleFacts, OnwardLine
  <2>4. CASE Goto(p, "own")
    BY <2>1, <2>4, RoleFacts, OnwardLine
  <2> QED
    BY <1>2, <2>2, <2>3, <2>4 DEF SuperviseGate
<1>3. CASE SuperviseClaim(p)
  <2>1. /\ proc[p].run = "supervise" /\ proc[p].step = "own" /\ UNCHANGED aux
        /\ job'.claim = job.claim /\ job'.execution /\ job'.terminal = job.terminal
    BY <1>3 DEF SuperviseClaim, At, Once, JobInv, TypeOK, Job
  <2>2. CASE job.execution /\ Exit(p, TRUE)
    <3>1. job'.execution = job.execution
      BY <2>1, <2>2 DEF JobInv, TypeOK, Job
    <3> QED
      BY <2>1, <2>2, <3>1, QuitLine, RoleFacts
  <2>3. CASE Goto(p, "spawn")
    BY <2>1, <2>3, RoleFacts, OnwardLine
  <2> QED
    BY <1>3, <2>2, <2>3 DEF SuperviseClaim
<1>4. CASE SuperviseSpawn(p)
  <2>1. At(p, "supervise", "spawn") /\ UNCHANGED <<job, builds, early, crashed>>
    BY <1>4 DEF SuperviseSpawn
  <2>2. ASSUME NEW q \in Procs, proc[q] = Idle, UNCHANGED stray,
               proc' = [proc EXCEPT ![p].step = "wait", ![p].child = q,
                                    ![q] = Begin(q, "execute")]
        PROVE  Family' /\ OneLine' /\ Attended'
    BY <2>1, <2>2, ParentLine
  <2>3. ASSUME NEW q \in Procs, proc[q] = Idle, stray' = TRUE,
               proc' = [proc EXCEPT ![p].step = "closed", ![q] = Begin(q, "execute")]
        PROVE  Family' /\ OneLine' /\ Attended'
    BY <2>1, <2>3, StrayLine
  <2>4. CASE Goto(p, "closed") /\ UNCHANGED stray
    BY <2>1, <2>4, RoleFacts, OnwardLine DEF At
  <2> QED
    BY <1>4, <2>2, <2>3, <2>4 DEF SuperviseSpawn
<1>5. CASE KillWorker(p)
  <2> DEFINE c == proc[p].child
  <2>1. /\ proc[p].run = "supervise" /\ proc[p].step = "wait" /\ UNCHANGED <<job, aux>>
        /\ proc' = Ended(c, FALSE)
    BY <1>5 DEF KillWorker, At
  <2>2. c # Nobody /\ proc[c].run = "execute"
    BY <2>1 DEF LineInv, Family, Shape
  <2>3. c \in Procs
    BY <2>2 DEF JobInv, TypeOK, Process
  <2> HIDE DEF c
  <2>4. ~Starts(proc[c]) /\ ~Answers(proc[c])
    BY <2>2, <2>3, RoleFacts
  <2> QED
    BY <2>1, <2>3, <2>4, ExitLine DEF Unpaid
<1>6. CASE Closed(p)
  <2>1. proc[p].run = "supervise" /\ proc[p].step = "closed" /\ UNCHANGED <<job, world, aux>>
    BY <1>6 DEF Closed, At
  <2>2. CASE Goto(p, "stop")
    BY <2>1, <2>2, RoleFacts, OnwardLine
  <2>3. CASE Goto(p, "verify")
    BY <2>1, <2>3, RoleFacts, OnwardLine
  <2>4. CASE Write(p, "terminal", "failed", FALSE)
    BY <2>1, <2>4, RoleFacts, WriteLine
  <2> QED
    BY <1>6, <2>2, <2>3, <2>4 DEF Closed
<1>7. CASE Judge(p)
  <2>1. proc[p].run = "supervise" /\ proc[p].step = "verify" /\ UNCHANGED <<job, world, aux>>
    BY <1>7 DEF Judge, At
  <2>2. CASE Goto(p, "stop")
    BY <2>1, <2>2, RoleFacts, OnwardLine
  <2>3. CASE Complete /\ Write(p, "terminal", job.result, TRUE)
    <3>1. job.result \in {"succeeded", "failed"}
      BY <2>3 DEF Complete, JobInv, TypeOK, Job, Native
    <3> QED
      BY <2>1, <2>3, <3>1, RoleFacts, WriteLine
  <2>4. CASE Write(p, "terminal", "failed", FALSE)
    BY <2>1, <2>4, RoleFacts, WriteLine
  <2> QED
    BY <1>7, <2>2, <2>3, <2>4 DEF Judge
<1>8. CASE Stop(p)
  <2>1. proc[p].run = "supervise" /\ proc[p].step = "stop" /\ UNCHANGED <<job, world, aux>>
    BY <1>8 DEF Stop, At
  <2>2. ASSUME NEW refs \in BOOLEAN, Write(p, "terminal", "cancelled", refs)
        PROVE  Family' /\ OneLine' /\ Attended'
    BY <2>1, <2>2, RoleFacts, WriteLine
  <2>3. CASE Write(p, "terminal", "unverified", FALSE)
    BY <2>1, <2>3, RoleFacts, WriteLine
  <2> QED
    BY <1>8, <2>2, <2>3 DEF Stop
<1> QED
  BY <1>1, <1>2, <1>3, <1>4, <1>5, <1>6, <1>7, <1>8 DEF Supervisor

LEMMA WorkerLine == ASSUME LineInv, NEW p \in Procs, Worker(p) PROVE Family' /\ OneLine' /\ Attended'
<1> JobInv
  BY DEF LineInv
<1> USE DEF aux
<1>1. /\ proc[p].run = "execute" /\ UNCHANGED <<stray, crashed>>
      /\ job'.claim = job.claim /\ job'.execution = job.execution
      /\ job'.terminal = job.terminal
  BY DEF Worker, ExecuteGate, ExecuteClaim, Build, Record, ExecuteExit, At, JobInv, TypeOK, Job
<1>2. proc[p].child = Nobody /\ ~Starts(proc[p]) /\ ~Answers(proc[p])
  BY <1>1, RoleFacts
<1>3. ASSUME NEW ok \in BOOLEAN, Exit(p, ok) PROVE Family' /\ OneLine' /\ Attended'
  BY <1>1, <1>2, <1>3, QuitLine
<1>4. ASSUME NEW step \in {"own", "build", "exit"}, Goto(p, step)
      PROVE  Family' /\ OneLine' /\ Attended'
  <2>1. proc'[p].run = "execute" /\ proc'[p].step = step /\ proc'[p].child = Nobody
    BY <1>1, <1>2, <1>4, GotoFacts, GotoChild
  <2>2. Shape(proc'[p]) /\ ~Leads(proc'[p])
    BY <2>1 DEF Shape, Leads
  <2> QED
    BY <1>1, <1>2, <1>4, <2>2, GotoLine
<1>5. ASSUME NEW n \in Native, proc' = [proc EXCEPT ![p].step = "record", ![p].result = n]
      PROVE  Family' /\ OneLine' /\ Attended'
  <2> DEFINE r == [proc[p] EXCEPT !.step = "record", !.result = n]
  <2>1. proc[p] \in Process /\ proc \in [Procs -> Process]
    BY DEF JobInv, TypeOK
  <2>2. r \in Process /\ r.step = "record" /\ r.run = "execute" /\ r.child = Nobody
    BY <1>1, <1>2, <2>1 DEF Process
  <2>3. proc' = [proc EXCEPT ![p] = r]
    BY <1>5, <2>1
  <2> HIDE DEF r
  <2>4. Shape(r) /\ ~Leads(r)
    BY <2>2 DEF Shape, Leads
  <2> QED
    BY <1>1, <1>2, <2>2, <2>3, <2>4, MoveLine
<1> QED
  BY <1>3, <1>4, <1>5 DEF Worker, ExecuteGate, ExecuteClaim, Build, Record, ExecuteExit

\* A verdict that cancels without a result is a supervisor's, whose child has closed.
LEMMA VerdictLine ==
  ASSUME LineInv, NEW p \in Procs, WriteVerdict(p) PROVE Family' /\ OneLine' /\ Attended'
<1> JobInv
  BY DEF LineInv
<1>1. /\ proc[p].step = "write" /\ proc' = Ended(p, TRUE) /\ UNCHANGED aux
  BY DEF WriteVerdict, Exit
<1>2. proc[p].child = Nobody
  BY <1>1, RoleFacts
<1>3. NoVerdict \notin Verdict /\ NoVerdict.state = "none"
  BY DEF NoVerdict, Verdict, None
<1>4. /\ job'.claim = job.claim /\ job'.execution = job.execution
      /\ job.terminal # NoVerdict => job'.terminal # NoVerdict
  BY <1>3, WrittenVerdict
<1>5. Unpaid' => Unpaid \/ Leads(proc[p])
  <2> SUFFICES ASSUME Unpaid', ~Unpaid PROVE Leads(proc[p])
    OBVIOUS
  <2>1. job'.terminal # job.terminal
    BY DEF Unpaid
  <2>2. job'.terminal = proc[p].verdict
    BY <2>1 DEF WriteVerdict, Once, JobInv, TypeOK, Job
  <2>3. proc[p].run = "supervise"
    BY <1>1, <2>2 DEF Unpaid, LineInv, Family, Shape
  <2> QED
    BY <2>3 DEF Leads
<1>6. job'.terminal # NoVerdict
  <2>1. proc[p].verdict \in Verdict /\ proc[p].file \in {"terminal", "recovered"}
        /\ (proc[p].file = "recovered" => job.terminal.state = "interrupted")
    BY <1>1 DEF JobInv, Sound, TypeOK, Process
  <2>2. CASE proc[p].file = "recovered"
    BY <1>3, <1>4, <2>1, <2>2
  <2>3. CASE proc[p].file = "terminal"
    <3>1. job' = [job EXCEPT !.terminal = Once(job.terminal, NoVerdict, proc[p].verdict)]
      BY <2>3 DEF WriteVerdict
    <3>2. job'.terminal = Once(job.terminal, NoVerdict, proc[p].verdict)
      BY <3>1 DEF JobInv, TypeOK, Job
    <3> QED
      BY <1>3, <2>1, <3>2 DEF Once
  <2> QED
    BY <2>1, <2>2, <2>3
<1> QED
  BY <1>1, <1>2, <1>4, <1>5, <1>6, ExitLine DEF aux

LEMMA StillLine ==
  ASSUME LineInv, UNCHANGED <<job, proc, stray, crashed>> PROVE Family' /\ OneLine' /\ Attended'
BY DEF LineInv, Family, OneLine, Attended, Unjudged, Unpaid, Shape, Leads, Works, Starts, Answers

LEMMA NextLine == LineInv /\ [Next]_vars => LineInv'
<1> SUFFICES ASSUME LineInv, [Next]_vars PROVE Family' /\ OneLine' /\ Attended'
  BY NextKeeps DEF LineInv
<1>1. ASSUME NEW p \in Procs, Run(p) PROVE Family' /\ OneLine' /\ Attended'
  BY <1>1, RunLine
<1>2. ASSUME NEW p \in Procs, Step(p) PROVE Family' /\ OneLine' /\ Attended'
  BY <1>2, ClientLine, SupervisorLine, WorkerLine, VerdictLine DEF Step
<1>3. ASSUME NEW p \in Procs, Beat(p) PROVE Family' /\ OneLine' /\ Attended'
  BY <1>3, StillLine DEF Beat, aux
<1>4. ASSUME NEW p \in Procs, Crash(p) PROVE Family' /\ OneLine' /\ Attended'
  <2>1. /\ proc' = Ended(p, FALSE) /\ UNCHANGED <<job, stray>>
        /\ crashed' = (crashed \/ (Unjudged /\ Owns(p)))
    BY <1>4 DEF Crash, Exit
  <2>2. \/ crashed' \/ ~Unjudged
        \/ /\ Starts(proc[p]) => job.execution
           /\ Answers(proc[p]) => ~job.execution
    BY <2>1, OwnerFacts
  <2>3. crashed => crashed'
    BY <2>1
  <2> QED
    BY <2>1, <2>2, <2>3, ExitLine DEF Unjudged, Unpaid
<1>5. CASE Silence \/ Tamper \/ ChangeSource \/ UNCHANGED vars
  BY <1>5, StillLine DEF Silence, Tamper, ChangeSource, vars, aux
<1> QED
  BY <1>1, <1>2, <1>3, <1>4, <1>5 DEF Next

THEOREM LineInvariant == Spec => []LineInv
BY InitLine, NextLine, PTL DEF Spec

\* A job recorded as cancelled without a result has stopped, whatever was killed and
\* when, as long as no supervisor or worker was run by hand and no first heartbeat
\* failed (supervise).
THEOREM CancelledStopped == Spec => []CancelledMeansStopped
<1>1. ASSUME LineInv, ~stray, Recorded.state = "cancelled", ~Recorded.refs,
             NEW p \in Procs
      PROVE  ~Building(p) /\ proc[p].step # "record" /\ ~At(p, "execute", "own")
  <2>1. Unpaid
    BY <1>1 DEF LineInv, JobInv, TypeOK, Recorded, Unpaid
  <2>2. ~Works(proc[p])
    BY <1>1, <2>1 DEF LineInv, OneLine
  <2>3. proc[p].run # "execute" /\ Shape(proc[p])
    BY <1>1, <2>2 DEF LineInv, Family, Works
  <2>4. proc[p].step \notin {"build", "record"} /\ ~At(p, "execute", "own")
    BY <2>3 DEF Shape, At
  <2> QED
    BY <2>4 DEF Building
<1>2. LineInv => CancelledMeansStopped
  BY <1>1 DEF CancelledMeansStopped
<1> QED
  BY <1>2, LineInvariant, PTL

\* Unless a process that was at it was killed or ended by an uncaught error, a claimed
\* job without a verdict has a process that will give it one, for any number of
\* processes and whatever becomes of the others (start, supervise).
THEOREM JobHasOwner == Spec => []ClaimedJobHasOwner
<1>1. ASSUME LineInv, Unjudged, ~crashed
      PROVE  \E p \in Procs : Owns(p)
  <2>1. (job.execution /\ \E p \in Procs : Answers(proc[p]))
        \/ (~job.execution /\ \E p \in Procs : Starts(proc[p]))
    BY <1>1 DEF LineInv, Attended
  <2> QED
    BY <2>1, OwnerFacts
<1>2. LineInv => ClaimedJobHasOwner
  BY <1>1 DEF ClaimedJobHasOwner
<1> QED
  BY <1>2, LineInvariant, PTL
=============================================================================
