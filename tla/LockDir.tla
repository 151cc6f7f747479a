------------------------------ MODULE LockDir ------------------------------
(***************************************************************************)
(* withLockDir: a lock across processes made of a directory.  mkdir is     *)
(* the atomic claim; the owner then writes its PID inside.  A process that *)
(* finds the directory looks at its age (stat) and then at its PID (read), *)
(* and when it is old and the PID is dead removes it (rmSync) and tries    *)
(* again.  Each of these is a system call of its own: other processes run  *)
(* between any two of them.                                                *)
(*                                                                         *)
(* A process that died never comes back; a new one is another member of    *)
(* Procs.  A PID that is used again counts as alive and is left out.  A    *)
(* PID file that is still empty reads as 0, which kill(0, 0) finds alive:  *)
(* it is waited for as a directory without a PID is.                       *)
(***************************************************************************)
CONSTANTS Procs, Nobody,
          Unprobed   \* <<p, q>>: kill(q, 0) throws EPERM for p, q is another user's

VARIABLES lock,   \* the lock directory: is it there, the PID in it, is it old
          at,     \* where in withLockDir each process is
          dead    \* processes that died

lockVars == <<lock, at, dead>>

NoLock == [dir |-> FALSE, pid |-> Nobody, old |-> FALSE]

Places == {"out", "trying", "stale", "steal", "made", "in", "unlinked"}

LockTypeOK ==
  /\ lock \in [dir : BOOLEAN, pid : Procs \cup {Nobody}, old : BOOLEAN]
  /\ at \in [Procs -> Places]
  /\ dead \in SUBSET Procs
  \* There is no PID and no age without a directory.
  /\ lock.pid # Nobody \/ lock.old => lock.dir

LockInit ==
  /\ lock = NoLock
  /\ at = [p \in Procs |-> "out"]
  /\ dead = {}

-----------------------------------------------------------------------------
\* Process p, alive, goes from one place to another.
Go(p, from, to) ==
  /\ p \notin dead
  /\ at[p] = from
  /\ at' = [at EXCEPT ![p] = to]
  /\ UNCHANGED dead

Ask(p) == Go(p, "out", "trying") /\ UNCHANGED lock

MkDir(p) ==
  /\ ~lock.dir
  /\ Go(p, "trying", "made")
  /\ lock' = [NoLock EXCEPT !.dir = TRUE]

\* mkdir threw and statSync finds a directory older than LOCK_STALE_MS.  One
\* that is not old is waited for: the loop goes on and nothing changes.
Stat(p) == lock.old /\ Go(p, "trying", "stale") /\ UNCHANGED lock

\* (A bug, as before v0.5.0: an old lock is stolen whoever holds it.)
ReadPid_Unchecked(p) == Go(p, "stale", "steal") /\ UNCHANGED lock

\* pidAlive: whatever kill throws means dead, that q may not be probed too.
PidAlive(p, q) == q \notin dead /\ <<p, q>> \notin Unprobed

\* The PID is read and probed: steal unless it is alive.  No directory and no
\* PID in it yet (the read throws) mean waiting, as a live PID does.
ReadPid(p) ==
  /\ Go(p, "stale", IF lock.pid # Nobody /\ ~PidAlive(p, lock.pid) THEN "steal" ELSE "trying")
  /\ UNCHANGED lock

\* The lock once the PID file in it, if any, is unlinked: that makes it young.
NoPid == [lock EXCEPT !.pid = Nobody, !.old = @ /\ lock.pid = Nobody]

\* rmSync removes whatever directory is there by now; it may fail, or fail
\* half way with the PID gone.
Steal(p) ==
  /\ Go(p, "steal", "trying")
  /\ lock' \in {NoLock, lock, NoPid}

\* 30 s are over: withLockDir throws.
GiveUp(p) == Go(p, "trying", "out") /\ UNCHANGED lock

\* The PID is written, best effort: into the directory that is there, if any.
\* A new file makes the directory young again.
WritePid(p) ==
  /\ Go(p, "made", "in")
  /\ \/ lock.dir /\ lock' = [lock EXCEPT !.pid = p, !.old = @ /\ lock.pid # Nobody]
     \/ UNCHANGED lock

\* fn() has returned or thrown: unlink the PID file that is there, if any.
Unlink(p) ==
  /\ Go(p, "in", "unlinked")
  /\ lock' = NoPid

\* rmdir the directory that is there; with a PID in it, it stays.
RmDir(p) ==
  /\ Go(p, "unlinked", "out")
  /\ lock' = IF lock.pid = Nobody THEN NoLock ELSE lock

\* Time passes: the directory is older than LOCK_STALE_MS.
Age ==
  /\ lock.dir /\ ~lock.old
  /\ lock' = [lock EXCEPT !.old = TRUE]
  /\ UNCHANGED <<at, dead>>

Die(p) ==
  /\ p \notin dead
  /\ dead' = dead \cup {p}
  /\ at' = [at EXCEPT ![p] = "out"]
  /\ UNCHANGED lock

\* What withLockDir does but for fn(), which runs at "in".
Waiting(p) == Ask(p) \/ MkDir(p) \/ Stat(p) \/ ReadPid(p) \/ Steal(p) \/ GiveUp(p)

LockNext ==
  \/ \E p \in Procs : Waiting(p) \/ WritePid(p) \/ Unlink(p) \/ RmDir(p) \/ Die(p)
  \/ Age

LockSpec == LockInit /\ [][LockNext]_lockVars
=============================================================================
