------------------------------ MODULE Logs_proofs ------------------------------
(***************************************************************************)
(* Proofs about the root's two append-only files.                          *)
(*                                                                         *)
(* ReceiptStore and its lock LockDir, for any processes, rotators and      *)
(* epochs: the types of both, that live holders of the lock exclude each   *)
(* other, that the store takes the lock as LockDir does, that no receipt   *)
(* is taken back but one without its newline, that live writers never      *)
(* overlap, that a cut off line costs one receipt, and that every segment  *)
(* verifies.                                                               *)
(*                                                                         *)
(* EventBus and SlateRoom, for any events, ids, sizes of a tail and a      *)
(* post: a subscriber misses only what came while it was being set up, a   *)
(* bridge loses nothing that it passed as long as none of its posts is     *)
(* lost, and a page shows the rows in order and skips none until an        *)
(* overrun.                                                                *)
(***************************************************************************)
EXTENDS ReceiptStore, SlateRoom, TLAPS, SequenceTheorems, FiniteSetTheorems,
        WellFoundedInduction

-----------------------------------------------------------------------------
(* The lock directory, of which the store is one user *)

\* Process p made the directory and has not removed it yet.
Holding(p) == at[p] \in {"made", "in", "unlinked"}

\* While nobody died, and every process may be probed, nobody steals, so the
\* directory stays with its maker.
LiveExclusive ==
  dead = {} /\ Unprobed = {} =>
    /\ \A p \in Procs : at[p] # "steal"
    /\ \A p \in Procs : Holding(p) => lock.dir
    /\ \A p, q \in Procs : Holding(p) /\ Holding(q) => p = q

LockInv == Lock!LockTypeOK /\ LiveExclusive

LEMMA LockInitInv == Lock!LockInit => LockInv
BY DEF Lock!LockInit, LockInv, Lock!LockTypeOK, LiveExclusive, Holding, Lock!NoLock, Lock!Places

\* What moving one process does to the types, and to the others.
LEMMA GoFacts ==
  ASSUME LockInv, NEW p \in Procs, NEW from, NEW to \in Lock!Places, Lock!Go(p, from, to)
  PROVE  /\ at' \in [Procs -> Lock!Places] /\ dead' = dead /\ dead' \in SUBSET Procs
         /\ at[p] = from /\ at'[p] = to
         /\ \A q \in Procs : q # p => at'[q] = at[q]
BY DEF LockInv, Lock!LockTypeOK, Lock!Go

\* The values the lock takes are lock states.
LEMMA LockValues ==
  ASSUME LockInv
  PROVE  /\ Lock!NoLock \in [dir : BOOLEAN, pid : Procs \cup {Nobody}, old : BOOLEAN]
         /\ Lock!NoPid \in [dir : BOOLEAN, pid : Procs \cup {Nobody}, old : BOOLEAN]
         /\ ~Lock!NoLock.dir /\ Lock!NoLock.pid = Nobody /\ ~Lock!NoLock.old
         /\ Lock!NoPid.dir = lock.dir /\ Lock!NoPid.pid = Nobody /\ (Lock!NoPid.old => lock.old)
BY DEF LockInv, Lock!LockTypeOK, Lock!NoLock, Lock!NoPid

\* A step that moves p between places that do not hold the lock, and leaves the
\* lock alone, keeps the invariant.
LEMMA LockMoveInv ==
  ASSUME LockInv, NEW p \in Procs, NEW from, NEW to \in {"out", "trying", "stale"},
         Lock!Go(p, from, to), UNCHANGED lock
  PROVE  LockInv'
<1>1. to \in Lock!Places
  BY DEF Lock!Places
<1> QED
  BY <1>1, GoFacts DEF LockInv, Lock!LockTypeOK, LiveExclusive, Holding

LEMMA WaitingInv ==
  ASSUME LockInv, NEW p \in Procs, Lock!Waiting(p)
  PROVE  LockInv'
<1>1. CASE Lock!Ask(p) \/ Lock!Stat(p) \/ Lock!GiveUp(p)
  BY <1>1, LockMoveInv DEF Lock!Ask, Lock!Stat, Lock!GiveUp
<1>2. CASE Lock!MkDir(p)
  <2>1. Lock!Go(p, "trying", "made") /\ "made" \in Lock!Places /\ ~lock.dir
    BY <1>2 DEF Lock!MkDir, Lock!Places
  <2>2. lock' = [Lock!NoLock EXCEPT !.dir = TRUE]
    BY <1>2 DEF Lock!MkDir
  <2>3. Lock!LockTypeOK'
    BY <2>1, <2>2, GoFacts, LockValues DEF Lock!LockTypeOK, Lock!NoLock
  <2>4. LiveExclusive'
    BY <2>1, <2>2, GoFacts DEF LockInv, LiveExclusive, Holding, Lock!NoLock
  <2> QED
    BY <2>3, <2>4 DEF LockInv
<1>3. CASE Lock!ReadPid(p)
  <2>1. CASE lock.pid # Nobody /\ ~Lock!PidAlive(p, lock.pid)
    <3>1. Lock!Go(p, "stale", "steal") /\ "steal" \in Lock!Places /\ UNCHANGED lock
      BY <1>3, <2>1 DEF Lock!ReadPid, Lock!Places
    <3>2. dead # {} \/ Unprobed # {}
      BY <2>1 DEF Lock!PidAlive
    <3> QED
      BY <3>1, <3>2, GoFacts DEF LockInv, Lock!LockTypeOK, LiveExclusive
  <2>2. CASE ~(lock.pid # Nobody /\ ~Lock!PidAlive(p, lock.pid))
    BY <1>3, <2>2, LockMoveInv DEF Lock!ReadPid
  <2> QED
    BY <2>1, <2>2
<1>4. CASE Lock!Steal(p)
  <2>1. Lock!Go(p, "steal", "trying") /\ "trying" \in Lock!Places
    BY <1>4 DEF Lock!Steal, Lock!Places
  <2>2. lock' \in {Lock!NoLock, lock, Lock!NoPid}
    BY <1>4 DEF Lock!Steal
  <2>3. dead # {} \/ Unprobed # {}
    BY <2>1, GoFacts DEF LockInv, LiveExclusive
  <2> QED
    BY <2>1, <2>2, <2>3, GoFacts, LockValues DEF LockInv, Lock!LockTypeOK, LiveExclusive
<1> QED
  BY <1>1, <1>2, <1>3, <1>4 DEF Lock!Waiting

LEMMA WritePidInv ==
  ASSUME LockInv, NEW p \in Procs, Lock!WritePid(p)
  PROVE  LockInv'
<1>1. Lock!Go(p, "made", "in") /\ "in" \in Lock!Places
  BY DEF Lock!WritePid, Lock!Places
<1>2. /\ lock' \in [dir : BOOLEAN, pid : Procs \cup {Nobody}, old : BOOLEAN]
      /\ lock'.dir = lock.dir
      /\ lock'.pid # Nobody \/ lock'.old => lock'.dir
  BY DEF Lock!WritePid, LockInv, Lock!LockTypeOK
<1> QED
  BY <1>1, <1>2, GoFacts DEF LockInv, Lock!LockTypeOK, LiveExclusive, Holding

LEMMA UnlinkInv ==
  ASSUME LockInv, NEW p \in Procs, Lock!Unlink(p)
  PROVE  LockInv'
<1>1. Lock!Go(p, "in", "unlinked") /\ "unlinked" \in Lock!Places /\ lock' = Lock!NoPid
  BY DEF Lock!Unlink, Lock!Places
<1> QED
  BY <1>1, GoFacts, LockValues DEF LockInv, Lock!LockTypeOK, LiveExclusive, Holding

\* Only its one holder removes the directory.
LEMMA RmDirInv ==
  ASSUME LockInv, NEW p \in Procs, Lock!RmDir(p)
  PROVE  LockInv'
<1>1. Lock!Go(p, "unlinked", "out") /\ "out" \in Lock!Places /\ lock' \in {Lock!NoLock, lock}
  BY DEF Lock!RmDir, Lock!Places
<1>2. Lock!LockTypeOK'
  BY <1>1, GoFacts, LockValues DEF LockInv, Lock!LockTypeOK
<1>3. LiveExclusive'
  BY <1>1, GoFacts DEF LockInv, LiveExclusive, Holding
<1> QED
  BY <1>2, <1>3 DEF LockInv

LEMMA AgeInv == ASSUME LockInv, Lock!Age PROVE LockInv'
BY DEF Lock!Age, LockInv, Lock!LockTypeOK, LiveExclusive, Holding

LEMMA DieInv == ASSUME LockInv, NEW p \in Procs, Lock!Die(p) PROVE LockInv'
<1>1. "out" \in Lock!Places
  BY DEF Lock!Places
<1> QED
  BY <1>1 DEF Lock!Die, LockInv, Lock!LockTypeOK, LiveExclusive

LEMMA LockNextInv == LockInv /\ [Lock!LockNext]_Lock!lockVars => LockInv'
<1>1. CASE UNCHANGED Lock!lockVars
  BY <1>1 DEF Lock!lockVars, LockInv, Lock!LockTypeOK, LiveExclusive, Holding
<1> QED
  BY <1>1, WaitingInv, WritePidInv, UnlinkInv, RmDirInv, AgeInv, DieInv DEF Lock!LockNext

THEOREM LockInvariant == Lock!LockSpec => []LockInv
BY LockInitInv, LockNextInv, PTL DEF Lock!LockSpec

\* The lock directory keeps its types: a PID and an age need a directory.
THEOREM LockTypeCorrect == Lock!LockSpec => []Lock!LockTypeOK
BY LockInvariant, PTL DEF LockInv

\* "a stalled-but-alive writer keeps the critical section": as long as nobody
\* died, and every process may be probed, at most one process is between mkdir
\* and rmdir (withLockDir).
THEOREM LockLiveExclusive == Lock!LockSpec => []LiveExclusive
BY LockInvariant, PTL DEF LockInv

-----------------------------------------------------------------------------
(* The inductive invariant *)

\* Work is done inside the lock; what was sealed in it has been drawn.
WorkOK ==
  /\ work \in [Procs -> Work]
  /\ \A p \in Procs : work[p].step # "none" => at[p] = "in"
  /\ \A p \in Procs : work[p].step = "sealed" => work[p].hash \in 1..hashes

ChainOK ==
  /\ chain \in Seq(Receipt)
  /\ tail \in {"whole", "cut", "bare"}
  /\ hashes \in Nat
  /\ answered \in SUBSET (1..hashes)
  /\ tears \in Nat
  /\ misread \in BOOLEAN
  /\ \A i \in 1..Len(chain) : chain[i].hash <= hashes
  /\ \A i, j \in 1..Len(chain) : i < j => chain[i].hash < chain[j].hash

EpochOK ==
  /\ epochFile \in Nat
  /\ tmp \in Nat \cup {NoTmp}
  /\ rot \in [Rotators -> Rotation]
  /\ overlap \in BOOLEAN
  /\ turnedBack \in BOOLEAN

\* Receipts that were appended, and whose callers were or may still be told so.
Promised == answered \cup {work[p].hash : p \in {q \in Procs : work[q].step = "sealed"}}

\* A receipt without its newline is promised to nobody.
BareOK == tail = "bare" => chain # << >> /\ chain[Len(chain)].hash \notin Promised

\* Those of them that cannot be read back: one for each cut off line that
\* something has been glued to.
Missing == {h \in Promised : \A i \in 1..Len(chain) : chain[i].hash # h}
TearsPay == Cardinality(Missing) + (IF tail # "whole" THEN 1 ELSE 0) <= tears

\* Whoever is inside is there alone.
Alone == \A p, q \in Procs : at[p] = "in" /\ at[q] = "in" => p = q

\* Epochs go up along the chain and up to the one in EPOCH.json.
EpochsAscend ==
  /\ \A i \in 1..Len(chain) : chain[i].epoch <= CurrentEpoch
  /\ \A i, j \in 1..Len(chain) : i < j => chain[i].epoch <= chain[j].epoch

\* What the process inside has read still holds when it appends.
WorkIsFresh ==
  \A p \in Procs :
    /\ work[p].step \in {"epoch", "tail"} =>
         /\ work[p].epoch <= CurrentEpoch
         /\ \A i \in 1..Len(chain) : chain[i].epoch <= work[p].epoch
    /\ work[p].step = "tail" => work[p].prev = PrevHash(chain, work[p].epoch)

ForkFree ==
  ~overlap /\ ~turnedBack /\ ~misread =>
    Alone /\ EpochsAscend /\ WorkIsFresh /\ \A i \in 1..Len(chain) : CitesPrevious(i)

Inv == LockInv /\ WorkOK /\ ChainOK /\ EpochOK /\ BareOK /\ TearsPay /\ ForkFree

-----------------------------------------------------------------------------
(* The lock *)

\* Every step of the store is a step of its lock or leaves it alone.
LEMMA LockStep == [Next]_vars => [Lock!LockNext]_Lock!lockVars
<1>1. ASSUME NEW p \in Procs, Seal(p) PROVE Lock!LockNext \/ UNCHANGED lockVars
  <2>1. CASE LockWaiting(p) \/ Enter(p) \/ Leave(p) \/ Die(p)
    BY <2>1 DEF LockWaiting, Enter, Leave, Die, Lock!LockNext
  <2>2. CASE ReadEpoch(p) \/ ReadTail(p) \/ AppendLine(p) \/ AppendFails(p) \/ PublishSealed(p)
    BY <2>2 DEF ReadEpoch, ReadTail, AppendLine, AppendFails, PublishSealed
  <2> QED
    BY <1>1, <2>1, <2>2 DEF Seal
<1>2. ASSUME NEW r \in Rotators, Rotate(r) PROVE UNCHANGED lockVars
  BY <1>2 DEF Rotate, OpenTmp, WriteTmp, Rename, RotatorDies
<1>3. CASE Age
  BY <1>3 DEF Age, Lock!LockNext
<1>4. CASE Publish \/ UNCHANGED vars
  BY <1>4 DEF Publish, vars, lockVars, Lock!lockVars
<1> QED
  BY <1>1, <1>2, <1>3, <1>4 DEF Next, lockVars, Lock!lockVars

\* Where the processes are after a step of the lock: p alone has moved.
LEMMA Moves ==
  ASSUME LockInv, NEW p \in Procs
  PROVE  /\ LockWaiting(p) => at[p] # "in" /\ at'[p] # "in"
         /\ Enter(p) => at[p] # "in" /\ at'[p] = "in"
         /\ Leave(p) => at[p] = "in" /\ at'[p] # "in"
         /\ Die(p) => at'[p] # "in"
         /\ LockWaiting(p) \/ Enter(p) \/ Leave(p) \/ Die(p) =>
              \A q \in Procs : q # p => at'[q] = at[q]
BY DEF LockInv, Lock!LockTypeOK, LockWaiting, Enter, Leave, Die, Lock!Waiting,
  Lock!Ask, Lock!MkDir, Lock!Stat, Lock!ReadPid, Lock!Steal, Lock!GiveUp, Lock!RmDir,
  Lock!WritePid, Lock!Unlink, Lock!Die, Lock!Go

-----------------------------------------------------------------------------
(* Small facts about the data *)

LEMMA EpochPositive == ASSUME EpochOK PROVE CurrentEpoch \in Nat \ {0}
BY DEF EpochOK, CurrentEpoch, NoEpoch

LEMMA ReceiptAt ==
  ASSUME ChainOK, NEW i \in 1..Len(chain)
  PROVE  chain[i] \in Receipt /\ chain[i].epoch \in Nat \ {0} /\ chain[i].hash \in Nat \ {0}
<1>1. chain[i] \in Receipt
  BY ElementOfSeq DEF ChainOK
<1> QED
  BY <1>1 DEF Receipt

\* The last receipt of a chain that is not empty.
LEMMA LastReceipt ==
  ASSUME ChainOK
  PROVE  /\ Len(chain) \in Nat
         /\ chain # << >> => Len(chain) \in 1..Len(chain)
         /\ chain = << >> => Len(chain) = 0
<1>1. Len(chain) \in Nat
  BY LenProperties DEF ChainOK
<1>2. chain = << >> <=> Len(chain) = 0
  BY EmptySeq DEF ChainOK
<1> QED
  BY <1>1, <1>2

LEMMA PrevHashType ==
  ASSUME ChainOK, NEW e \in Nat \ {0}
  PROVE  PrevHash(chain, e) \in Int
<1>1. CASE chain # << >> /\ chain[Len(chain)].epoch = e
  BY <1>1, LastReceipt, ReceiptAt DEF PrevHash
<1>2. CASE ~(chain # << >> /\ chain[Len(chain)].epoch = e)
  BY <1>2 DEF PrevHash, Genesis
<1> QED
  BY <1>1, <1>2

LEMMA NewReceiptType ==
  ASSUME WorkOK, ChainOK, NEW p \in Procs
  PROVE  /\ NewReceipt(p) \in Receipt
         /\ NewReceipt(p).epoch = work[p].epoch
         /\ NewReceipt(p).prev_hash = work[p].prev
         /\ NewReceipt(p).hash = hashes + 1
BY DEF WorkOK, ChainOK, Work, NewReceipt, Receipt

\* What is left of the chain when something is glued to its last line.
LEMMA KeptFacts ==
  ASSUME ChainOK, BareOK
  PROVE  /\ Kept \in Seq(Receipt) /\ Len(Kept) \in Nat /\ Len(Kept) <= Len(chain)
         /\ \A i \in 1..Len(Kept) : i \in 1..Len(chain) /\ Kept[i] = chain[i]
         /\ \A i \in 1..Len(chain) : i < Len(chain) => i \in 1..Len(Kept)
         /\ tail # "bare" => Kept = chain
<1>1. CASE tail # "bare"
  BY <1>1, LastReceipt DEF Kept, ChainOK
<1>2. CASE tail = "bare"
  <2> DEFINE n == Len(chain) - 1
  <2>1. Len(chain) \in Nat /\ Len(chain) \in 1..Len(chain) /\ chain \in Seq(Receipt)
    BY <1>2, LastReceipt DEF BareOK, ChainOK
  <2>2. n \in Nat /\ n <= Len(chain)
    BY <2>1
  <2>3. Kept = SubSeq(chain, 1, n)
    BY <1>2 DEF Kept
  <2> HIDE DEF n
  <2>4. /\ Len(SubSeq(chain, 1, n)) = n
        /\ \A i \in 1..n : SubSeq(chain, 1, n)[i] = chain[i]
    BY <2>1, <2>2
  <2>5. SubSeq(chain, 1, n) \in Seq(Receipt)
    BY <2>1, <2>2
  <2> QED
    BY <1>2, <2>1, <2>2, <2>3, <2>4, <2>5 DEF n
<1> QED
  BY <1>1, <1>2

\* Process p's receipt is appended behind a whole line.
Grows(p) ==
  /\ work[p].step = "tail" /\ at[p] = "in"
  /\ tail = "whole"
  /\ chain' = Append(chain, NewReceipt(p))
  /\ hashes' = hashes + 1

\* What that does to the chain.
LEMMA Appended ==
  ASSUME WorkOK, ChainOK, NEW p \in Procs, Grows(p)
  PROVE  /\ chain' \in Seq(Receipt) /\ hashes' = hashes + 1
         /\ Len(chain) \in Nat /\ Len(chain') = Len(chain) + 1
         /\ \A i \in 1..Len(chain) : chain'[i] = chain[i]
         /\ chain'[Len(chain) + 1].epoch = work[p].epoch
         /\ chain'[Len(chain) + 1].prev_hash = work[p].prev
         /\ chain'[Len(chain) + 1].hash = hashes + 1
<1>1. chain' = Append(chain, NewReceipt(p)) /\ chain \in Seq(Receipt)
  BY DEF Grows, ChainOK
<1> QED
  BY <1>1, NewReceiptType, AppendProperties, LenProperties DEF Grows

\* The actions that leave the file, and the ones that leave the work, alone.
LEMMA FileStays ==
  ASSUME NEW p \in Procs,
         LockWaiting(p) \/ Enter(p) \/ Leave(p) \/ Die(p) \/ ReadEpoch(p) \/ ReadTail(p)
  PROVE  UNCHANGED <<chain, tail, hashes, answered, tears, misread>>
BY DEF LockWaiting, Enter, Leave, Die, ReadEpoch, ReadTail, fileVars

LEMMA RotateFrame ==
  ASSUME NEW r \in Rotators, Rotate(r)
  PROVE  UNCHANGED <<lock, at, dead, work, chain, tail, hashes, answered, tears, misread,
                     overlap>>
BY DEF Rotate, OpenTmp, WriteTmp, Rename, RotatorDies, lockVars, fileVars

LEMMA EpochStays ==
  ASSUME NEW p \in Procs, Seal(p)
  PROVE  UNCHANGED <<epochFile, tmp, rot, turnedBack>>
BY DEF Seal, LockWaiting, Enter, Leave, Die, ReadEpoch, ReadTail, AppendLine, AppendFails,
  PublishSealed, epochVars

LEMMA AgeFrame ==
  ASSUME Age
  PROVE  UNCHANGED <<at, dead, work, chain, tail, hashes, answered, tears, misread, epochFile,
                     tmp, rot, turnedBack, overlap>>
BY DEF Age, Lock!Age, fileVars, epochVars

LEMMA PublishFrame ==
  ASSUME Publish
  PROVE  UNCHANGED <<lock, at, dead, work, hashes, answered, epochFile, tmp, rot, turnedBack,
                     overlap>>
BY DEF Publish, lockVars, epochVars

LEMMA VarsFrame ==
  ASSUME UNCHANGED vars
  PROVE  UNCHANGED <<lock, at, dead, work, chain, tail, hashes, answered, tears, misread,
                     epochFile, tmp, rot, turnedBack, overlap>>
BY DEF vars, lockVars, fileVars, epochVars

-----------------------------------------------------------------------------
(* The work inside the lock *)

\* One process's work becomes w: what that asks of w.
LEMMA WorkSet ==
  ASSUME WorkOK, hashes \in Nat, hashes' = hashes \/ hashes' = hashes + 1, NEW p \in Procs,
         NEW w \in Work, work' = [work EXCEPT ![p] = w],
         \A q \in Procs : q # p => at'[q] = at[q],
         w.step # "none" => at'[p] = "in",
         w.step = "sealed" => w.hash \in 1..hashes'
  PROVE  WorkOK'
<1>1. work' \in [Procs -> Work]
  BY DEF WorkOK
<1>2. work'[p] = w /\ \A q \in Procs : q # p => work'[q] = work[q]
  BY DEF WorkOK
<1>3. \A q \in Procs : work'[q].step # "none" => at'[q] = "in"
  BY <1>2 DEF WorkOK
<1>4. \A q \in Procs : work'[q].step = "sealed" => work'[q].hash \in 1..hashes'
  BY <1>2 DEF WorkOK
<1> QED
  BY <1>1, <1>3, <1>4 DEF WorkOK

LEMMA WorkKept ==
  ASSUME WorkOK, hashes' = hashes, work' = work,
         \A p \in Procs : at[p] = "in" => at'[p] = "in"
  PROVE  WorkOK'
BY DEF WorkOK

LEMMA NoWorkType == NoWork \in Work /\ NoWork.step = "none"
BY DEF NoWork, Work

LEMMA WorkStep == Inv /\ [Next]_vars => WorkOK'
<1> SUFFICES ASSUME Inv, [Next]_vars PROVE WorkOK'
  OBVIOUS
<1>1. WorkOK /\ ChainOK /\ EpochOK /\ hashes \in Nat /\ LockInv
  BY DEF Inv, ChainOK
<1>2. ASSUME NEW p \in Procs, Seal(p) PROVE WorkOK'
  <2>1. work[p] \in Work
    BY <1>1 DEF WorkOK
  <2>2. CASE LockWaiting(p) \/ Enter(p)
    <3>1. UNCHANGED <<work, hashes>>
      BY <2>2, FileStays DEF LockWaiting, Enter
    <3> QED
      BY <1>1, <2>2, <3>1, Moves, WorkKept
  <2>3. CASE Leave(p) \/ Die(p)
    <3>1. work' = [work EXCEPT ![p] = NoWork] /\ hashes' = hashes
      BY <2>3, FileStays DEF Leave, Die
    <3> QED
      BY <1>1, <2>3, <3>1, Moves, NoWorkType, WorkSet
  <2>4. CASE ReadEpoch(p)
    <3> DEFINE w == [NoWork EXCEPT !.step = "epoch", !.epoch = CurrentEpoch]
    <3>1. w \in Work /\ w.step = "epoch"
      <4>1. w \in Work
        BY <1>1, EpochPositive, NoWorkType DEF Work
      <4> QED
        BY <4>1 DEF NoWork
    <3>2. work' = [work EXCEPT ![p] = w] /\ at' = at /\ at[p] = "in" /\ hashes' = hashes
      BY <2>4, FileStays DEF ReadEpoch, Inside, lockVars
    <3> HIDE DEF w
    <3> QED
      BY <1>1, <3>1, <3>2, WorkSet
  <2>5. CASE ReadTail(p)
    <3> DEFINE w == [work[p] EXCEPT !.step = "tail", !.prev = PrevHash(chain, work[p].epoch)]
    <3>1. PrevHash(chain, work[p].epoch) \in Int
      BY <1>1, <2>1, PrevHashType DEF Work
    <3>2. w \in Work /\ w.step = "tail"
      BY <2>1, <3>1 DEF Work
    <3>3. work' = [work EXCEPT ![p] = w] /\ at' = at /\ at[p] = "in" /\ hashes' = hashes
      BY <1>1, <2>5, FileStays DEF ReadTail, Inside, lockVars, WorkOK
    <3> HIDE DEF w
    <3> QED
      BY <1>1, <3>2, <3>3, WorkSet
  <2>6. CASE AppendLine(p)
    <3> DEFINE w == [work[p] EXCEPT !.step = "sealed", !.hash = hashes + 1]
    <3>1. w \in Work /\ w.step = "sealed" /\ w.hash = hashes + 1
      <4>1. hashes + 1 \in Nat
        BY <1>1
      <4> QED
        BY <2>1, <4>1 DEF Work
    <3>2. work' = [work EXCEPT ![p] = w] /\ at' = at /\ at[p] = "in" /\ hashes' = hashes + 1
      BY <1>1, <2>6 DEF AppendLine, Inside, lockVars, WorkOK
    <3> HIDE DEF w
    <3>3. w.hash \in 1..hashes'
      BY <1>1, <3>1, <3>2
    <3> QED
      BY <1>1, <3>1, <3>2, <3>3, WorkSet
  <2>7. CASE AppendFails(p) \/ PublishSealed(p)
    <3> DEFINE w == [work[p] EXCEPT !.step = "done"]
    <3>1. w \in Work /\ w.step = "done" /\ w.step # "sealed"
      BY <2>1 DEF Work
    <3>2. work' = [work EXCEPT ![p] = w] /\ at' = at /\ at[p] = "in"
      BY <1>1, <2>7 DEF AppendFails, PublishSealed, Inside, lockVars, WorkOK
    <3>3. hashes' = hashes \/ hashes' = hashes + 1
      BY <2>7 DEF AppendFails, CutBare, PublishSealed
    <3> HIDE DEF w
    <3> QED
      BY <1>1, <3>1, <3>2, <3>3, WorkSet
  <2> QED
    BY <1>2, <2>2, <2>3, <2>4, <2>5, <2>6, <2>7 DEF Seal
<1>3. ASSUME NEW r \in Rotators, Rotate(r) PROVE WorkOK'
  BY <1>1, <1>3, RotateFrame, WorkKept
<1>4. CASE Age
  BY <1>1, <1>4, AgeFrame, WorkKept
<1>5. CASE Publish
  BY <1>1, <1>5, PublishFrame, WorkKept
<1>6. CASE UNCHANGED vars
  BY <1>1, <1>6, VarsFrame, WorkKept
<1> QED
  BY <1>2, <1>3, <1>4, <1>5, <1>6 DEF Next

-----------------------------------------------------------------------------
(* The file *)

\* What a step does to the file: nothing, a line that is no receipt, a part of a
\* line, or a receipt behind a line that is not whole.
Rests ==
  /\ UNCHANGED <<chain, tail, tears, hashes>>
  /\ Promised' \subseteq Promised
WritesLine ==
  /\ chain' = Kept /\ tail' = "whole" /\ UNCHANGED <<tears, hashes>>
  /\ Promised' \subseteq Promised
CutsLine ==
  /\ chain' = Kept /\ tail' = "cut" /\ tears' = tears + 1 /\ UNCHANGED hashes
  /\ Promised' \subseteq Promised
Glues ==
  /\ tail # "whole" /\ chain' = Kept /\ tail' = "whole" /\ hashes' = hashes + 1
  /\ UNCHANGED tears
  /\ Promised' \subseteq Promised \cup {hashes + 1}

\* A receipt is appended: whole, or without its newline and promised to nobody.
GrowsWhole ==
  /\ tail' = "whole" /\ UNCHANGED tears
  /\ Promised' \subseteq Promised \cup {hashes + 1}
GrowsBare ==
  /\ tail' = "bare" /\ tears' = tears + 1
  /\ Promised' \subseteq Promised

\* What was promised has been drawn.
LEMMA PromisedDrawn ==
  ASSUME WorkOK, ChainOK
  PROVE  Promised \subseteq 1..hashes
BY DEF WorkOK, ChainOK, Promised

LEMMA MissingFinite ==
  ASSUME WorkOK, ChainOK
  PROVE  IsFiniteSet(Missing) /\ Cardinality(Missing) \in Nat
<1>1. IsFiniteSet(1..hashes)
  BY FS_Interval DEF ChainOK
<1>2. Missing \subseteq 1..hashes
  BY PromisedDrawn DEF Missing
<1> QED
  BY <1>1, <1>2, FS_Subset, FS_CardinalityType

\* One process's work becomes w: what is promised then.
LEMMA PromisedBy ==
  ASSUME WorkOK, NEW p \in Procs, NEW w, work' = [work EXCEPT ![p] = w],
         answered' = answered \/ (work[p].step = "sealed" /\ answered' = answered \cup {work[p].hash})
  PROVE  /\ Promised' \subseteq Promised \cup {w.hash}
         /\ w.step # "sealed" => Promised' \subseteq Promised
<1>1. work'[p] = w /\ \A q \in Procs : q # p => work'[q] = work[q]
  BY DEF WorkOK
<1>2. answered' \subseteq Promised
  BY DEF Promised
<1> QED
  BY <1>1, <1>2 DEF Promised

\* Whoever is told that a receipt is sealed was promised it before.
LEMMA AnsweredWerePromised ==
  ASSUME Inv, [Next]_vars
  PROVE  answered' \subseteq Promised
<1>1. ASSUME NEW p \in Procs, Seal(p) PROVE answered' \subseteq Promised
  <2>1. CASE PublishSealed(p)
    BY <2>1 DEF PublishSealed, Inside, Promised
  <2>2. CASE ~PublishSealed(p)
    <3>1. answered' = answered
      BY <1>1, <2>2, FileStays DEF Seal, AppendLine, AppendFails
    <3> QED
      BY <3>1 DEF Promised
  <2> QED
    BY <2>1, <2>2
<1>2. CASE Age \/ Publish \/ UNCHANGED vars \/ \E r \in Rotators : Rotate(r)
  <2>1. answered' = answered
    BY <1>2, AgeFrame, PublishFrame, VarsFrame, RotateFrame
  <2> QED
    BY <2>1 DEF Promised
<1> QED
  BY <1>1, <1>2 DEF Next

LEMMA FileMoves ==
  ASSUME Inv, [Next]_vars
  PROVE  \/ Rests \/ WritesLine \/ CutsLine \/ Glues
         \/ \E p \in Procs : Grows(p) /\ (GrowsWhole \/ GrowsBare)
<1>1. WorkOK /\ ChainOK
  BY DEF Inv
<1>2. ASSUME NEW p \in Procs, LockWaiting(p) \/ Enter(p) PROVE Rests
  <2>1. UNCHANGED <<chain, tail, tears, hashes, answered, work>>
    BY <1>2, FileStays DEF LockWaiting, Enter
  <2> QED
    BY <2>1 DEF Rests, Promised
<1>3. ASSUME NEW p \in Procs, Leave(p) \/ Die(p) PROVE Rests
  <2>1. UNCHANGED <<chain, tail, tears, hashes, answered>>
    BY <1>3, FileStays
  <2>2. work' = [work EXCEPT ![p] = NoWork]
    BY <1>3 DEF Leave, Die
  <2>3. NoWork.step # "sealed"
    BY DEF NoWork
  <2>4. Promised' \subseteq Promised
    BY <1>1, <2>1, <2>2, <2>3, PromisedBy
  <2> QED
    BY <2>1, <2>4 DEF Rests
<1>4. ASSUME NEW p \in Procs, ReadEpoch(p) \/ ReadTail(p) PROVE Rests
  <2>1. UNCHANGED <<chain, tail, tears, hashes, answered>>
    BY <1>4, FileStays
  <2>2. PICK w : work' = [work EXCEPT ![p] = w] /\ w.step # "sealed"
    <3>1. CASE ReadEpoch(p)
      <4> DEFINE w == [NoWork EXCEPT !.step = "epoch", !.epoch = CurrentEpoch]
      <4>1. work' = [work EXCEPT ![p] = w] /\ w.step = "epoch"
        BY <3>1 DEF ReadEpoch, NoWork
      <4> QED
        BY <4>1
    <3>2. CASE ReadTail(p)
      <4> DEFINE w == [work[p] EXCEPT !.step = "tail", !.prev = PrevHash(chain, work[p].epoch)]
      <4>1. work' = [work EXCEPT ![p] = w] /\ w.step = "tail"
        BY <1>1, <3>2 DEF ReadTail, WorkOK, Work
      <4> QED
        BY <4>1
    <3> QED
      BY <1>4, <3>1, <3>2
  <2>3. Promised' \subseteq Promised
    BY <1>1, <2>1, <2>2, PromisedBy
  <2> QED
    BY <2>1, <2>3 DEF Rests
<1>5. ASSUME NEW p \in Procs, AppendLine(p) PROVE Glues \/ (Grows(p) /\ GrowsWhole)
  <2> DEFINE w == [work[p] EXCEPT !.step = "sealed", !.hash = hashes + 1]
  <2>1. work' = [work EXCEPT ![p] = w] /\ w.hash = hashes + 1 /\ answered' = answered
    BY <1>1, <1>5 DEF AppendLine, WorkOK, Work
  <2> HIDE DEF w
  <2>2. Promised' \subseteq Promised \cup {hashes + 1}
    BY <1>1, <2>1, PromisedBy
  <2> QED
    BY <1>5, <2>2 DEF AppendLine, Inside, Glues, Grows, GrowsWhole
<1>6. ASSUME NEW p \in Procs, AppendFails(p) \/ PublishSealed(p)
      PROVE  Promised' \subseteq Promised
  <2> DEFINE w == [work[p] EXCEPT !.step = "done"]
  <2>1. work' = [work EXCEPT ![p] = w] /\ w.step # "sealed"
    BY <1>1, <1>6 DEF AppendFails, PublishSealed, WorkOK, Work
  <2>2. answered' = answered \/ (work[p].step = "sealed" /\ answered' = answered \cup {work[p].hash})
    BY <1>6 DEF AppendFails, PublishSealed, Inside
  <2> HIDE DEF w
  <2> QED
    BY <1>1, <2>1, <2>2, PromisedBy
<1>7. ASSUME NEW p \in Procs, AppendFails(p)
      PROVE  Rests \/ CutsLine \/ (Grows(p) /\ GrowsBare)
  BY <1>6, <1>7 DEF AppendFails, Inside, CutOff, CutBare, Rests, CutsLine, Grows, GrowsBare
<1>8. ASSUME NEW p \in Procs, PublishSealed(p) PROVE Rests \/ WritesLine \/ CutsLine
  BY <1>6, <1>8 DEF PublishSealed, CutOff, WriteLine, Rests, CutsLine, WritesLine
<1>9. CASE Publish
  <2>1. UNCHANGED <<work, answered, hashes>>
    BY <1>9, PublishFrame
  <2>2. Promised' = Promised
    BY <2>1 DEF Promised
  <2> QED
    BY <1>9, <2>1, <2>2 DEF Publish, CutOff, WriteLine, Rests, CutsLine, WritesLine
<1>10. CASE Age \/ UNCHANGED vars \/ \E r \in Rotators : Rotate(r)
  <2>1. UNCHANGED <<chain, tail, tears, hashes, answered, work>>
    BY <1>10, AgeFrame, VarsFrame, RotateFrame
  <2> QED
    BY <2>1 DEF Rests, Promised
<1> QED
  BY <1>2, <1>3, <1>4, <1>5, <1>7, <1>8, <1>9, <1>10 DEF Next, Seal

\* What can be read after a step that appends no receipt.
LEMMA Shrinks ==
  ASSUME ChainOK, BareOK, Rests \/ WritesLine \/ CutsLine \/ Glues
  PROVE  /\ chain' \in Seq(Receipt) /\ Len(chain') \in Nat /\ Len(chain') <= Len(chain)
         /\ \A i \in 1..Len(chain') : i \in 1..Len(chain) /\ chain'[i] = chain[i]
         /\ \A i \in 1..Len(chain) : i < Len(chain) => i \in 1..Len(chain')
<1>1. CASE chain' = chain
  BY <1>1, LastReceipt DEF ChainOK
<1>2. CASE chain' = Kept
  BY <1>2, KeptFacts
<1> QED
  BY <1>1, <1>2 DEF Rests, WritesLine, CutsLine, Glues

LEMMA MisreadStays == ASSUME Inv, [Next]_vars PROVE misread' \in BOOLEAN
<1>1. misread \in BOOLEAN
  BY DEF Inv, ChainOK
<1>2. ASSUME NEW p \in Procs, Seal(p) PROVE misread' = misread
  BY <1>2, FileStays DEF Seal, AppendLine, AppendFails, PublishSealed
<1>3. CASE Publish
  BY <1>3 DEF Publish
<1> QED
  BY <1>1, <1>2, <1>3, AgeFrame, RotateFrame, VarsFrame DEF Next

\* The hashes go up along the chain, whatever is appended or taken back.
LEMMA ChainStep == Inv /\ [Next]_vars => ChainOK'
<1> SUFFICES ASSUME Inv, [Next]_vars PROVE ChainOK'
  OBVIOUS
<1>1. WorkOK /\ ChainOK /\ BareOK /\ hashes \in Nat /\ tears \in Nat /\ Len(chain) \in Nat
  BY LastReceipt DEF Inv, ChainOK
<1>2. tail' \in {"whole", "cut", "bare"} /\ hashes' \in {hashes, hashes + 1} /\ tears' \in {tears, tears + 1}
  BY FileMoves DEF Inv, ChainOK, Rests, WritesLine, CutsLine, Glues, Grows, GrowsWhole, GrowsBare
<1>3. answered' \in SUBSET (1..hashes')
  <2>1. answered' \subseteq 1..hashes
    BY <1>1, AnsweredWerePromised, PromisedDrawn
  <2> QED
    BY <1>1, <1>2, <2>1
<1>4. hashes' \in Nat /\ tears' \in Nat /\ misread' \in BOOLEAN
  BY <1>1, <1>2, MisreadStays
<1>5. \A i \in 1..Len(chain) : chain[i].hash \in Nat /\ chain[i].hash <= hashes
  BY <1>1, ReceiptAt DEF ChainOK
<1>6. CASE Rests \/ WritesLine \/ CutsLine \/ Glues
  <2>1. /\ chain' \in Seq(Receipt)
        /\ \A i \in 1..Len(chain') : i \in 1..Len(chain) /\ chain'[i] = chain[i]
    BY <1>1, <1>6, Shrinks
  <2>2. \A i \in 1..Len(chain') : chain'[i].hash <= hashes'
    BY <1>1, <1>2, <1>5, <2>1
  <2>3. \A i, j \in 1..Len(chain') : i < j => chain'[i].hash < chain'[j].hash
    BY <1>1, <2>1 DEF ChainOK
  <2> QED
    BY <1>2, <1>3, <1>4, <2>1, <2>2, <2>3 DEF ChainOK
<1>7. ASSUME NEW p \in Procs, Grows(p) PROVE ChainOK'
  <2>1. /\ chain' \in Seq(Receipt) /\ hashes' = hashes + 1
        /\ Len(chain') = Len(chain) + 1
        /\ \A i \in 1..Len(chain) : chain'[i] = chain[i]
        /\ chain'[Len(chain) + 1].hash = hashes + 1
    BY <1>1, <1>7, Appended
  <2>2. \A i \in 1..Len(chain') : chain'[i].hash <= hashes'
    <3> TAKE i \in 1..Len(chain')
    <3>1. i \in 1..Len(chain) \/ i = Len(chain) + 1
      BY <1>1, <2>1
    <3> QED
      BY <1>1, <1>5, <2>1, <3>1
  <2>3. \A i, j \in 1..Len(chain') : i < j => chain'[i].hash < chain'[j].hash
    <3> TAKE i, j \in 1..Len(chain')
    <3> HAVE i < j
    <3>1. i \in 1..Len(chain) /\ (j \in 1..Len(chain) \/ j = Len(chain) + 1)
      BY <1>1, <2>1
    <3> QED
      BY <1>1, <1>5, <2>1, <3>1 DEF ChainOK
  <2> QED
    BY <1>2, <1>3, <1>4, <2>1, <2>2, <2>3 DEF ChainOK
<1> QED
  BY <1>6, <1>7, FileMoves

\* Only a receipt whose append failed lacks its newline.
LEMMA BareStep == Inv /\ [Next]_vars => BareOK'
<1> SUFFICES ASSUME Inv, [Next]_vars, tail' = "bare"
             PROVE  chain' # << >> /\ chain'[Len(chain')].hash \notin Promised'
  BY DEF BareOK
<1>1. WorkOK /\ ChainOK /\ BareOK /\ hashes \in Nat
  BY DEF Inv, ChainOK
<1>2. CASE Rests
  BY <1>1, <1>2 DEF Rests, BareOK
<1>3. ASSUME NEW p \in Procs, Grows(p), GrowsBare
      PROVE  chain' # << >> /\ chain'[Len(chain')].hash \notin Promised'
  <2>1. /\ chain' \in Seq(Receipt) /\ Len(chain) \in Nat
        /\ Len(chain') = Len(chain) + 1 /\ chain'[Len(chain) + 1].hash = hashes + 1
    BY <1>1, <1>3, Appended
  <2>2. chain' # << >>
    BY <2>1, EmptySeq
  <2>3. hashes + 1 \notin Promised
    BY <1>1, PromisedDrawn
  <2> QED
    BY <1>3, <2>1, <2>2, <2>3 DEF GrowsBare
<1> QED
  BY <1>2, <1>3, FileMoves DEF WritesLine, CutsLine, Glues, GrowsWhole

\* No promised receipt is taken back; one that is glued to a cut off line may
\* be missing from then on.
LEMMA MissingStep ==
  ASSUME WorkOK, ChainOK, BareOK
  PROVE  /\ Rests \/ WritesLine \/ CutsLine => Missing' \subseteq Missing
         /\ Glues => Missing' \subseteq Missing \cup {hashes + 1}
         /\ (\E p \in Procs : Grows(p) /\ (GrowsWhole \/ GrowsBare)) => Missing' \subseteq Missing
<1>1. ASSUME Rests \/ WritesLine \/ CutsLine \/ Glues, NEW h \in Missing', h \in Promised
      PROVE  h \in Missing
  <2>1. \A i \in 1..Len(chain') : chain'[i].hash # h
    BY DEF Missing
  <2>2. \A i \in 1..Len(chain) : i \in 1..Len(chain') => chain[i].hash # h
    BY <1>1, <2>1, Shrinks
  <2>3. chain' = chain \/ tail = "bare"
    BY <1>1, KeptFacts DEF Rests, WritesLine, CutsLine, Glues
  <2>4. Len(chain) \in Nat
    BY LastReceipt
  <2>5. ASSUME tail = "bare", NEW i \in 1..Len(chain) PROVE chain[i].hash # h
    <3>1. CASE i < Len(chain)
      BY <1>1, <2>2, <3>1, Shrinks
    <3>2. CASE i = Len(chain)
      BY <1>1, <2>5, <3>2 DEF BareOK
    <3> QED
      BY <2>4, <3>1, <3>2
  <2> QED
    BY <1>1, <2>1, <2>3, <2>5 DEF Missing
<1>2. ASSUME NEW p \in Procs, Grows(p), GrowsWhole \/ GrowsBare PROVE Missing' \subseteq Missing
  <2> SUFFICES ASSUME NEW h \in Missing' PROVE h \in Missing
    OBVIOUS
  <2>1. /\ Len(chain) \in Nat /\ Len(chain') = Len(chain) + 1
        /\ \A i \in 1..Len(chain) : chain'[i] = chain[i]
        /\ chain'[Len(chain) + 1].hash = hashes + 1
    BY <1>2, Appended
  <2>2. h \in Promised \cup {hashes + 1} /\ \A i \in 1..Len(chain') : chain'[i].hash # h
    BY <1>2 DEF Missing, GrowsWhole, GrowsBare
  <2>3. h # hashes + 1 /\ \A i \in 1..Len(chain) : chain[i].hash # h
    BY <2>1, <2>2
  <2> QED
    BY <2>2, <2>3 DEF Missing
<1>3. Rests \/ WritesLine \/ CutsLine => Missing' \subseteq Missing
  BY <1>1 DEF Missing, Rests, WritesLine, CutsLine
<1>4. Glues => Missing' \subseteq Missing \cup {hashes + 1}
  BY <1>1 DEF Missing, Glues
<1> QED
  BY <1>2, <1>3, <1>4

\* A cut off line swallows the receipt behind it, and only that one.
LEMMA TearsStep == Inv /\ [Next]_vars => TearsPay'
<1> SUFFICES ASSUME Inv, [Next]_vars PROVE TearsPay'
  OBVIOUS
<1>1. WorkOK /\ ChainOK /\ BareOK /\ tears \in Nat
  BY DEF Inv, ChainOK
<1>2. IsFiniteSet(Missing) /\ Cardinality(Missing) \in Nat
  BY <1>1, MissingFinite
<1>3. Cardinality(Missing) + (IF tail # "whole" THEN 1 ELSE 0) <= tears
  BY DEF Inv, TearsPay
<1>4. ASSUME Missing' \subseteq Missing
      PROVE  Cardinality(Missing') \in Nat /\ Cardinality(Missing') <= Cardinality(Missing)
  BY <1>2, <1>4, FS_Subset, FS_CardinalityType
<1>5. CASE Rests
  BY <1>1, <1>2, <1>3, <1>4, <1>5, MissingStep DEF Rests, TearsPay
<1>6. CASE WritesLine
  BY <1>1, <1>2, <1>3, <1>4, <1>6, MissingStep DEF WritesLine, TearsPay
<1>7. CASE CutsLine
  BY <1>1, <1>2, <1>3, <1>4, <1>7, MissingStep DEF CutsLine, TearsPay
<1>8. CASE Glues
  <2>1. Missing' \subseteq Missing \cup {hashes + 1}
    BY <1>1, <1>8, MissingStep
  <2>2. /\ IsFiniteSet(Missing \cup {hashes + 1})
        /\ Cardinality(Missing \cup {hashes + 1}) <= Cardinality(Missing) + 1
    BY <1>2, FS_AddElement
  <2>3. /\ Cardinality(Missing') <= Cardinality(Missing \cup {hashes + 1})
        /\ Cardinality(Missing') \in Nat
        /\ Cardinality(Missing \cup {hashes + 1}) \in Nat
    BY <2>1, <2>2, FS_Subset, FS_CardinalityType
  <2> QED
    BY <1>1, <1>2, <1>3, <1>8, <2>2, <2>3 DEF Glues, TearsPay
<1>9. ASSUME NEW p \in Procs, Grows(p), GrowsWhole \/ GrowsBare PROVE TearsPay'
  <2>1. Missing' \subseteq Missing
    BY <1>1, <1>9, MissingStep
  <2> QED
    BY <1>1, <1>2, <1>3, <1>4, <1>9, <2>1 DEF Grows, GrowsWhole, GrowsBare, TearsPay
<1> QED
  BY <1>5, <1>6, <1>7, <1>8, <1>9, FileMoves

-----------------------------------------------------------------------------
(* The epoch *)

LEMMA EpochStep == Inv /\ [Next]_vars => EpochOK'
<1> SUFFICES ASSUME Inv, [Next]_vars PROVE EpochOK'
  OBVIOUS
<1>1. EpochOK
  BY DEF Inv
<1>2. ASSUME NEW p \in Procs, Seal(p) PROVE EpochOK'
  <2>1. UNCHANGED <<epochFile, tmp, rot, turnedBack>>
    BY <1>2, EpochStays
  <2>2. overlap' \in BOOLEAN
    <3>1. CASE Enter(p)
      BY <3>1 DEF Enter
    <3>2. CASE ~Enter(p)
      BY <1>1, <1>2, <3>2 DEF Seal, LockWaiting, Leave, Die, ReadEpoch, ReadTail, AppendLine,
        AppendFails, PublishSealed, EpochOK
    <3> QED
      BY <3>1, <3>2
  <2> QED
    BY <1>1, <2>1, <2>2 DEF EpochOK
<1>3. ASSUME NEW r \in Rotators, Rotate(r) PROVE EpochOK'
  <2>1. overlap' = overlap
    BY <1>3, RotateFrame
  <2>2. rot[r] \in Rotation
    BY <1>1 DEF EpochOK
  <2>3. CASE OpenTmp(r)
    <3>1. PICK n \in Epochs : rot' = [rot EXCEPT ![r] = [step |-> "opened", n |-> n, fd |-> "tmp"]]
      BY <2>3 DEF OpenTmp
    <3>2. [step |-> "opened", n |-> n, fd |-> "tmp"] \in Rotation
      BY StoreAssumption DEF Rotation
    <3>3. rot' \in [Rotators -> Rotation]
      BY <1>1, <3>1, <3>2 DEF EpochOK
    <3> QED
      BY <1>1, <2>1, <2>3, <3>3 DEF OpenTmp, EpochOK, NoEpoch
  <2>4. CASE WriteTmp(r)
    <3>1. rot' \in [Rotators -> Rotation]
      BY <1>1, <2>2, <2>4 DEF WriteTmp, EpochOK, Rotation
    <3>2. rot[r].n \in Nat
      BY <2>2 DEF Rotation
    <3>3. epochFile' \in Nat /\ tmp' \in Nat \cup {NoTmp}
      BY <1>1, <2>4, <3>2 DEF WriteTmp, SetEpoch, EpochOK
    <3>4. turnedBack' \in BOOLEAN
      BY <1>1, <2>4 DEF WriteTmp, SetEpoch, EpochOK
    <3> QED
      BY <1>1, <2>1, <3>1, <3>3, <3>4 DEF EpochOK
  <2>5. CASE Rename(r)
    <3>1. rot' \in [Rotators -> Rotation]
      <4>1. NoRotation \in Rotation
        BY DEF NoRotation, Rotation
      <4>2. ASSUME NEW q \in Rotators PROVE [rot[q] EXCEPT !.fd = Renamed(@)] \in Rotation
        <5>1. rot[q] \in Rotation
          BY <1>1 DEF EpochOK
        <5>2. Renamed(rot[q].fd) \in {"none", "tmp", "epoch", "gone"}
          BY <5>1 DEF Renamed, Rotation
        <5> QED
          BY <5>1, <5>2 DEF Rotation
      <4> QED
        BY <1>1, <2>5, <4>1, <4>2 DEF Rename, EpochOK
    <3>2. epochFile' \in Nat /\ tmp' \in Nat \cup {NoTmp}
      BY <1>1, <2>5 DEF Rename, SetEpoch, EpochOK
    <3>3. turnedBack' \in BOOLEAN
      BY <1>1, <2>5 DEF Rename, SetEpoch, EpochOK
    <3> QED
      BY <1>1, <2>1, <3>1, <3>2, <3>3 DEF EpochOK
  <2>6. CASE RotatorDies(r)
    BY <1>1, <2>1, <2>6 DEF RotatorDies, EpochOK, NoRotation, Rotation
  <2> QED
    BY <1>3, <2>3, <2>4, <2>5, <2>6 DEF Rotate
<1>4. CASE Age \/ Publish \/ UNCHANGED vars
  BY <1>1, <1>4, AgeFrame, PublishFrame, VarsFrame DEF EpochOK
<1> QED
  BY <1>2, <1>3, <1>4 DEF Next

\* The epoch goes up unless it is noted that it went down.
LEMMA EpochUp ==
  ASSUME Inv, [Next]_vars, ~turnedBack'
  PROVE  ~turnedBack /\ CurrentEpoch' >= CurrentEpoch
<1>1. EpochOK /\ EpochOK'
  BY EpochStep DEF Inv
<1>2. CurrentEpoch \in Nat /\ CurrentEpoch' \in Nat
  BY <1>1 DEF EpochOK, CurrentEpoch, NoEpoch
<1>3. CASE UNCHANGED <<epochFile, turnedBack>>
  BY <1>2, <1>3 DEF CurrentEpoch
<1>4. ASSUME NEW e, SetEpoch(e) PROVE ~turnedBack /\ CurrentEpoch' >= CurrentEpoch
  <2>1. ~turnedBack /\ ~(CurrentEpoch' < CurrentEpoch)
    BY <1>4 DEF SetEpoch
  <2> QED
    BY <1>2, <2>1
<1>5. UNCHANGED <<epochFile, turnedBack>> \/ \E e : SetEpoch(e)
  <2>1. ASSUME NEW r \in Rotators, Rotate(r)
        PROVE  UNCHANGED <<epochFile, turnedBack>> \/ \E e : SetEpoch(e)
    BY <2>1 DEF Rotate, OpenTmp, WriteTmp, Rename, RotatorDies
  <2> QED
    BY <2>1, EpochStays, AgeFrame, PublishFrame, VarsFrame DEF Next
<1> QED
  BY <1>3, <1>4, <1>5

\* A writer that comes in while nobody is inside is there alone.
LEMMA AloneStep ==
  ASSUME Inv, [Next]_vars, ~overlap', overlap \/ Alone
  PROVE  ~overlap /\ Alone'
<1>1. LockInv
  BY DEF Inv
<1>2. CASE UNCHANGED <<at, overlap>>
  BY <1>2 DEF Alone
<1>3. ASSUME NEW p \in Procs, LockWaiting(p) \/ Leave(p) \/ Die(p) PROVE ~overlap /\ Alone'
  <2>1. ~overlap
    BY <1>3 DEF LockWaiting, Leave, Die
  <2> QED
    BY <1>1, <1>3, <2>1, Moves DEF Alone
<1>4. ASSUME NEW p \in Procs, Enter(p) PROVE ~overlap /\ Alone'
  <2>1. ~overlap /\ \A q \in Procs : at[q] # "in"
    BY <1>4 DEF Enter
  <2> QED
    BY <1>1, <1>4, <2>1, Moves DEF Alone
<1>5. ASSUME NEW p \in Procs, ReadEpoch(p) \/ ReadTail(p) \/ AppendLine(p) \/ AppendFails(p) \/ PublishSealed(p)
      PROVE  UNCHANGED <<at, overlap>>
  BY <1>5 DEF ReadEpoch, ReadTail, AppendLine, AppendFails, PublishSealed, lockVars
<1> QED
  BY <1>2, <1>3, <1>4, <1>5, AgeFrame, PublishFrame, VarsFrame, RotateFrame DEF Next, Seal

-----------------------------------------------------------------------------
(* The segments *)

\* What a receipt cites does not change as long as those up to it stay.
LEMMA CitesKept ==
  ASSUME NEW i \in Nat, \A k \in 1..i : chain'[k] = chain[k], CitesPrevious(i), i >= 1
  PROVE  CitesPrevious(i)'
<1>1. chain'[i] = chain[i] /\ \A k \in 1..(i - 1) : chain'[k] = chain[k]
  OBVIOUS
<1>2. \A k \in 1..(i - 1) : \A j \in (k + 1)..(i - 1) : j \in 1..(i - 1)
  OBVIOUS
<1>3. CASE /\ chain[i].prev_hash = Genesis(chain[i].epoch)
           /\ \A k \in 1..(i - 1) : chain[k].epoch # chain[i].epoch
  <2>1. /\ chain'[i].prev_hash = Genesis(chain'[i].epoch)
        /\ \A k \in 1..(i - 1) : chain'[k].epoch # chain'[i].epoch
    BY <1>1, <1>3
  <2> QED
    BY <2>1 DEF CitesPrevious, Genesis
<1>4. ASSUME NEW k \in 1..(i - 1), chain[k].epoch = chain[i].epoch,
             chain[i].prev_hash = chain[k].hash,
             \A j \in (k + 1)..(i - 1) : chain[j].epoch # chain[i].epoch
      PROVE  CitesPrevious(i)'
  <2>1. /\ chain'[k].epoch = chain'[i].epoch
        /\ chain'[i].prev_hash = chain'[k].hash
        /\ \A j \in (k + 1)..(i - 1) : chain'[j].epoch # chain'[i].epoch
    BY <1>1, <1>2, <1>4
  <2> QED
    BY <2>1 DEF CitesPrevious
<1> QED
  BY <1>3, <1>4 DEF CitesPrevious

\* The receipt p appends goes behind the last of its epoch.
LEMMA NewCites ==
  ASSUME ChainOK, WorkOK, EpochsAscend, WorkIsFresh,
         NEW p \in Procs, Grows(p), NEW i \in Int, i = Len(chain) + 1
  PROVE  CitesPrevious(i)'
<1> DEFINE n == Len(chain)
<1> DEFINE e == work[p].epoch
<1>1. /\ \A k \in 1..n : chain'[k] = chain[k]
      /\ chain'[i].epoch = e
      /\ chain'[i].prev_hash = work[p].prev
  BY Appended
<1>2. n \in Nat /\ i - 1 = n /\ n + 1 = i
  BY LastReceipt
<1>3. /\ work[p].prev = PrevHash(chain, e)
      /\ \A k \in 1..n : chain[k].epoch <= e
  BY DEF Grows, WorkIsFresh
<1>4. e \in Nat /\ \A k \in 1..n : chain[k].epoch \in Nat
  BY ReceiptAt DEF WorkOK, Work
<1>5. n \in 1..n <=> chain # << >>
  BY <1>2, LastReceipt
<1>6. CASE chain # << >> /\ chain[n].epoch = e
  <2>1. n \in 1..n /\ chain[n].epoch = e /\ work[p].prev = chain[n].hash
    BY <1>3, <1>5, <1>6 DEF PrevHash
  <2> HIDE DEF n, e
  <2>2. \A j \in (n + 1)..n : FALSE
    BY <1>2
  <2>3. /\ chain'[n].epoch = chain'[i].epoch
        /\ chain'[i].prev_hash = chain'[n].hash
        /\ \A j \in (n + 1)..n : chain'[j].epoch # chain'[i].epoch
    BY <1>1, <2>1, <2>2
  <2>4. \E k \in 1..(i - 1) :
          /\ chain'[k].epoch = chain'[i].epoch
          /\ chain'[i].prev_hash = chain'[k].hash
          /\ \A j \in (k + 1)..(i - 1) : chain'[j].epoch # chain'[i].epoch
    BY <1>2, <2>1, <2>3
  <2> QED
    BY <2>4 DEF CitesPrevious
<1>7. CASE ~(chain # << >> /\ chain[n].epoch = e)
  <2>1. work[p].prev = Genesis(e)
    BY <1>3, <1>7 DEF PrevHash
  <2>2. \A k \in 1..n : chain[k].epoch # e
    <3> TAKE k \in 1..n
    <3>1. n \in 1..n
      BY <1>2
    <3>2. chain[n].epoch # e /\ chain[n].epoch <= e
      BY <1>3, <1>5, <1>7, <3>1
    <3>3. chain[k].epoch <= chain[n].epoch
      <4>1. CASE k = n
        BY <1>4, <3>1, <4>1
      <4>2. CASE k # n
        <5>1. k < n
          <6> HIDE DEF n
          <6> QED
            BY <1>2, <4>2
        <5> QED
          BY <3>1, <5>1 DEF EpochsAscend
      <4> QED
        BY <4>1, <4>2
    <3> QED
      BY <1>4, <3>1, <3>2, <3>3
  <2> HIDE DEF n, e
  <2>3. /\ chain'[i].prev_hash = Genesis(chain'[i].epoch)
        /\ \A k \in 1..(i - 1) : chain'[k].epoch # chain'[i].epoch
    BY <1>1, <1>2, <2>1, <2>2
  <2> QED
    BY <2>3 DEF CitesPrevious, Genesis
<1> QED
  BY <1>6, <1>7

\* Whoever changes what can be read is inside alone and done with its reading,
\* or publishes while nobody has read the last receipt.
LEMMA WritersWork ==
  ASSUME Inv, [Next]_vars, Alone, ~misread', chain' # chain
  PROVE  /\ CurrentEpoch' = CurrentEpoch
         /\ \A q \in Procs : /\ work'[q].step # "tail"
                             /\ work'[q].step = "epoch" => work'[q] = work[q]
         /\ (\E p \in Procs : Grows(p)) => \A q \in Procs : work'[q].step # "epoch"
<1>1. WorkOK
  BY DEF Inv
<1>2. ASSUME NEW p \in Procs, AppendLine(p) \/ AppendFails(p) \/ PublishSealed(p)
      PROVE  /\ CurrentEpoch' = CurrentEpoch
             /\ \A q \in Procs : work'[q].step \notin {"epoch", "tail"}
  <2>1. at[p] = "in" /\ UNCHANGED epochFile
    BY <1>2 DEF AppendLine, AppendFails, PublishSealed, Inside, epochVars
  <2>2. \A q \in Procs : q # p => work[q].step = "none" /\ work'[q] = work[q]
    BY <1>1, <1>2, <2>1 DEF Alone, WorkOK, AppendLine, AppendFails, PublishSealed
  <2>3. work'[p].step \in {"sealed", "done"}
    BY <1>1, <1>2 DEF AppendLine, AppendFails, PublishSealed, WorkOK, Work
  <2> QED
    BY <2>1, <2>2, <2>3 DEF CurrentEpoch
<1>3. ASSUME NEW p \in Procs, Seal(p)
      PROVE  AppendLine(p) \/ AppendFails(p) \/ PublishSealed(p)
  BY <1>3, FileStays DEF Seal
<1>4. CASE Publish
  <2>1. UNCHANGED <<work, epochFile, hashes>> /\ \A q \in Procs : work[q].step # "tail"
    BY <1>4 DEF Publish, epochVars
  <2>2. ~\E p \in Procs : Grows(p)
    BY <2>1 DEF Grows
  <2> QED
    BY <2>1, <2>2 DEF CurrentEpoch
<1> QED
  BY <1>2, <1>3, <1>4, AgeFrame, RotateFrame, VarsFrame DEF Next

\* The segments after one receipt more.
LEMMA AppendFork ==
  ASSUME Inv, [Next]_vars, Alone, EpochsAscend, WorkIsFresh, ~misread', chain' # chain,
         \A i \in 1..Len(chain) : CitesPrevious(i), NEW p \in Procs, Grows(p)
  PROVE  EpochsAscend' /\ WorkIsFresh' /\ \A i \in 1..Len(chain') : CitesPrevious(i)'
<1>1. WorkOK /\ ChainOK /\ EpochOK
  BY DEF Inv
<1>2. /\ CurrentEpoch' = CurrentEpoch
      /\ \A q \in Procs : work'[q].step \notin {"epoch", "tail"}
  BY WritersWork
<1>3. /\ Len(chain) \in Nat /\ Len(chain') = Len(chain) + 1
      /\ \A i \in 1..Len(chain) : chain'[i] = chain[i]
      /\ chain'[Len(chain) + 1].epoch = work[p].epoch
  BY <1>1, Appended
<1>4. /\ work[p].epoch <= CurrentEpoch
      /\ \A i \in 1..Len(chain) : chain[i].epoch <= work[p].epoch
  BY DEF Grows, WorkIsFresh
<1>5. \A i \in 1..Len(chain') : i \in 1..Len(chain) \/ i = Len(chain) + 1
  BY <1>3
<1>6. \A i \in 1..Len(chain') : chain'[i].epoch <= CurrentEpoch'
  BY <1>2, <1>3, <1>4, <1>5 DEF EpochsAscend
<1>7. \A i, j \in 1..Len(chain') : i < j => chain'[i].epoch <= chain'[j].epoch
  <2> TAKE i, j \in 1..Len(chain')
  <2> HAVE i < j
  <2>1. i \in 1..Len(chain)
    BY <1>3
  <2> QED
    BY <1>3, <1>4, <1>5, <2>1 DEF EpochsAscend
<1>8. \A i \in 1..Len(chain') : CitesPrevious(i)'
  <2> TAKE i \in 1..Len(chain')
  <2>1. CASE i \in 1..Len(chain)
    <3>1. \A k \in 1..i : chain'[k] = chain[k]
      BY <1>3, <2>1
    <3> QED
      BY <2>1, <3>1, CitesKept
  <2>2. CASE i = Len(chain) + 1
    BY <1>1, <2>2, NewCites
  <2> QED
    BY <1>5, <2>1, <2>2
<1> QED
  BY <1>2, <1>6, <1>7, <1>8 DEF EpochsAscend, WorkIsFresh

\* The segments after a receipt without its newline was taken back.
LEMMA ShrinkFork ==
  ASSUME Inv, [Next]_vars, Alone, EpochsAscend, WorkIsFresh, ~misread', chain' # chain,
         \A i \in 1..Len(chain) : CitesPrevious(i), Rests \/ WritesLine \/ CutsLine \/ Glues
  PROVE  EpochsAscend' /\ WorkIsFresh' /\ \A i \in 1..Len(chain') : CitesPrevious(i)'
<1>1. /\ Len(chain') \in Nat
      /\ \A i \in 1..Len(chain') : i \in 1..Len(chain) /\ chain'[i] = chain[i]
  BY Shrinks DEF Inv
<1>2. /\ CurrentEpoch' = CurrentEpoch
      /\ \A q \in Procs : /\ work'[q].step # "tail"
                          /\ work'[q].step = "epoch" => work'[q] = work[q]
  BY WritersWork
<1>3. EpochsAscend'
  BY <1>1, <1>2 DEF EpochsAscend
<1>4. WorkIsFresh'
  BY <1>1, <1>2 DEF WorkIsFresh
<1>5. \A i \in 1..Len(chain') : CitesPrevious(i)'
  <2> TAKE i \in 1..Len(chain')
  <2>1. CitesPrevious(i) /\ \A k \in 1..i : chain'[k] = chain[k]
    BY <1>1
  <2> QED
    BY <2>1, CitesKept
<1> QED
  BY <1>3, <1>4, <1>5

\* Steps that leave the chain: p's reading is fresh because nobody else writes.
LEMMA FreshKept ==
  ASSUME Inv, [Next]_vars, ~overlap, ~turnedBack, ~misread, CurrentEpoch' >= CurrentEpoch,
         chain' = chain
  PROVE  EpochsAscend' /\ WorkIsFresh' /\ \A i \in 1..Len(chain') : CitesPrevious(i)'
<1>1. /\ WorkOK /\ ChainOK /\ EpochOK /\ EpochOK'
      /\ EpochsAscend /\ WorkIsFresh /\ \A i \in 1..Len(chain) : CitesPrevious(i)
  BY EpochStep DEF Inv, ForkFree
<1>2. CurrentEpoch \in Nat /\ CurrentEpoch' \in Nat
  BY <1>1 DEF EpochOK, CurrentEpoch, NoEpoch
<1>3. \A i \in 1..Len(chain) : chain[i].epoch \in Nat
  BY <1>1, ReceiptAt
<1>4. \A i \in 1..Len(chain') : CitesPrevious(i)'
  BY <1>1 DEF CitesPrevious, Genesis
<1>5. EpochsAscend'
  BY <1>1, <1>2, <1>3 DEF EpochsAscend
<1>6. \A p \in Procs : work[p].epoch \in Nat
  BY <1>1 DEF WorkOK, Work
<1>7. ASSUME UNCHANGED work PROVE WorkIsFresh'
  BY <1>1, <1>2, <1>6, <1>7 DEF WorkIsFresh, PrevHash, Genesis
<1>8. ASSUME NEW p \in Procs, NEW w, work' = [work EXCEPT ![p] = w],
             w.step \in {"epoch", "tail"} =>
               /\ w.epoch <= CurrentEpoch'
               /\ \A i \in 1..Len(chain) : chain[i].epoch <= w.epoch,
             w.step = "tail" => w.prev = PrevHash(chain, w.epoch)
      PROVE  WorkIsFresh'
  <2>1. work'[p] = w /\ \A q \in Procs : q # p => work'[q] = work[q]
    BY <1>1, <1>8 DEF WorkOK
  <2> QED
    BY <1>1, <1>2, <1>6, <1>8, <2>1 DEF WorkIsFresh, PrevHash, Genesis
<1>9. ASSUME NEW p \in Procs, Seal(p) PROVE WorkIsFresh'
  <2>1. work[p] \in Work
    BY <1>1 DEF WorkOK
  <2>2. CASE LockWaiting(p) \/ Enter(p)
    BY <1>7, <2>2 DEF LockWaiting, Enter
  <2>3. CASE Leave(p) \/ Die(p)
    <3>1. work' = [work EXCEPT ![p] = NoWork]
      BY <2>3 DEF Leave, Die
    <3> QED
      BY <1>8, <3>1, NoWorkType
  <2>4. CASE ReadEpoch(p)
    <3> DEFINE w == [NoWork EXCEPT !.step = "epoch", !.epoch = CurrentEpoch]
    <3>1. w.step = "epoch" /\ w.epoch = CurrentEpoch
      BY DEF NoWork
    <3>2. work' = [work EXCEPT ![p] = w] /\ CurrentEpoch' = CurrentEpoch
      BY <2>4 DEF ReadEpoch, epochVars, CurrentEpoch
    <3> HIDE DEF w
    <3>3. w.epoch <= CurrentEpoch' /\ \A i \in 1..Len(chain) : chain[i].epoch <= w.epoch
      BY <1>1, <1>2, <3>1, <3>2 DEF EpochsAscend
    <3> QED
      BY <1>8, <3>1, <3>2, <3>3
  <2>5. CASE ReadTail(p)
    <3> DEFINE w == [work[p] EXCEPT !.step = "tail", !.prev = PrevHash(chain, work[p].epoch)]
    <3>1. w.step = "tail" /\ w.epoch = work[p].epoch /\ w.prev = PrevHash(chain, work[p].epoch)
      BY <2>1 DEF Work
    <3>2. work' = [work EXCEPT ![p] = w] /\ work[p].step = "epoch"
      BY <1>1, <2>5 DEF ReadTail, Inside, WorkOK
    <3> HIDE DEF w
    <3>3. w.epoch <= CurrentEpoch' /\ \A i \in 1..Len(chain) : chain[i].epoch <= w.epoch
      BY <1>1, <1>2, <1>6, <3>1, <3>2 DEF WorkIsFresh
    <3> QED
      BY <1>8, <3>1, <3>2, <3>3
  <2>6. CASE AppendLine(p) \/ AppendFails(p) \/ PublishSealed(p)
    <3>1. PICK w : work' = [work EXCEPT ![p] = w] /\ w.step \in {"sealed", "done"}
      <4>1. CASE AppendLine(p)
        <5> DEFINE w == [work[p] EXCEPT !.step = "sealed", !.hash = hashes + 1]
        <5>1. work' = [work EXCEPT ![p] = w] /\ w.step = "sealed"
          BY <1>1, <2>1, <4>1 DEF AppendLine, WorkOK, Work
        <5> QED
          BY <5>1
      <4>2. CASE AppendFails(p) \/ PublishSealed(p)
        <5> DEFINE w == [work[p] EXCEPT !.step = "done"]
        <5>1. work' = [work EXCEPT ![p] = w] /\ w.step = "done"
          BY <1>1, <2>1, <4>2 DEF AppendFails, PublishSealed, WorkOK, Work
        <5> QED
          BY <5>1
      <4> QED
        BY <2>6, <4>1, <4>2
    <3> QED
      BY <1>8, <3>1
  <2> QED
    BY <1>9, <2>2, <2>3, <2>4, <2>5, <2>6 DEF Seal
<1>10. WorkIsFresh'
  <2>1. UNCHANGED work \/ \E p \in Procs : Seal(p)
    BY RotateFrame, AgeFrame, PublishFrame, VarsFrame DEF Next
  <2> QED
    BY <1>7, <1>9, <2>1
<1> QED
  BY <1>4, <1>5, <1>10

\* It is never forgotten that a receipt was spoilt.
LEMMA MisreadOnce == ASSUME Inv, [Next]_vars, ~misread' PROVE ~misread
<1>1. ASSUME NEW p \in Procs, Seal(p) PROVE misread' = misread
  BY <1>1, FileStays DEF Seal, AppendLine, AppendFails, PublishSealed
<1>2. CASE Publish
  BY <1>2 DEF Publish
<1> QED
  BY <1>1, <1>2, AgeFrame, RotateFrame, VarsFrame DEF Next

LEMMA ForkStep == Inv /\ [Next]_vars => ForkFree'
<1> SUFFICES ASSUME Inv, [Next]_vars, ~overlap', ~turnedBack', ~misread'
             PROVE  /\ Alone' /\ EpochsAscend' /\ WorkIsFresh'
                    /\ \A i \in 1..Len(chain') : CitesPrevious(i)'
  BY DEF ForkFree
<1>1. ~turnedBack /\ CurrentEpoch' >= CurrentEpoch /\ ~misread
  BY EpochUp, MisreadOnce
<1>2. ~overlap /\ Alone'
  BY <1>1, AloneStep DEF Inv, ForkFree
<1>3. Alone /\ EpochsAscend /\ WorkIsFresh /\ \A i \in 1..Len(chain) : CitesPrevious(i)
  BY <1>1, <1>2 DEF Inv, ForkFree
<1>4. CASE chain' = chain
  BY <1>1, <1>2, <1>4, FreshKept
<1>5. ASSUME chain' # chain, NEW p \in Procs, Grows(p)
      PROVE  EpochsAscend' /\ WorkIsFresh' /\ \A i \in 1..Len(chain') : CitesPrevious(i)'
  BY <1>3, <1>5, AppendFork
<1>6. CASE chain' # chain /\ (Rests \/ WritesLine \/ CutsLine \/ Glues)
  <2>1. EpochsAscend' /\ WorkIsFresh' /\ \A i \in 1..Len(chain') : CitesPrevious(i)'
    BY <1>3, <1>6, ShrinkFork
  <2> QED
    BY <1>2, <2>1
<1> QED
  BY <1>2, <1>4, <1>5, <1>6, FileMoves

-----------------------------------------------------------------------------
(* The theorems *)

LEMMA InitInv == Init => Inv
<1> SUFFICES ASSUME Init PROVE Inv
  OBVIOUS
<1>1. LockInv
  BY LockInitInv DEF Init
<1>2. chain = << >> /\ Len(chain) = 0 /\ chain \in Seq(Receipt)
  BY EmptySeq DEF Init
<1>3. WorkOK
  BY NoWorkType DEF Init, WorkOK, NoWork
<1>4. ChainOK
  <2>1. 1..Len(chain) = {}
    BY <1>2
  <2>2. hashes \in Nat /\ tears \in Nat /\ answered \in SUBSET (1..hashes)
        /\ tail \in {"whole", "cut", "bare"} /\ misread \in BOOLEAN
    BY DEF Init
  <2> QED
    BY <1>2, <2>1, <2>2 DEF ChainOK
<1>5. EpochOK
  <2>1. NoRotation \in Rotation
    BY DEF NoRotation, Rotation
  <2>2. rot \in [Rotators -> Rotation]
    BY <2>1 DEF Init
  <2>3. overlap \in BOOLEAN /\ turnedBack \in BOOLEAN
    BY DEF Init
  <2>4. epochFile \in Nat /\ tmp \in Nat \cup {NoTmp}
    BY DEF Init, NoEpoch
  <2> QED
    BY <2>2, <2>3, <2>4 DEF EpochOK
<1>6. TearsPay /\ BareOK
  <2>1. Missing = {}
    BY DEF Init, Missing, Promised, NoWork
  <2>2. BareOK
    BY DEF Init, BareOK
  <2> QED
    BY <2>1, <2>2, FS_EmptySet DEF Init, TearsPay
<1>7. ForkFree
  <2>1. Alone
    BY DEF Init, Lock!LockInit, Alone
  <2>2. EpochsAscend /\ \A i \in 1..Len(chain) : CitesPrevious(i)
    BY <1>2 DEF EpochsAscend
  <2>3. WorkIsFresh
    BY DEF Init, NoWork, WorkIsFresh
  <2> QED
    BY <2>1, <2>2, <2>3 DEF ForkFree
<1> QED
  BY <1>1, <1>3, <1>4, <1>5, <1>6, <1>7 DEF Inv

LEMMA NextInv == Inv /\ [Next]_vars => Inv'
BY LockStep, LockNextInv, WorkStep, ChainStep, EpochStep, BareStep, TearsStep, ForkStep DEF Inv

\* Whatever seals, publishes and rotates, the store takes and leaves its lock as
\* withLockDir does: every run of the store is one of the lock.
THEOREM StoreImplementsLock == Spec => Lock!LockSpec
<1>1. Init => Lock!LockInit
  BY DEF Init
<1> QED
  BY <1>1, LockStep, PTL DEF Spec, Lock!LockSpec

THEOREM StoreInvariant == Spec => []Inv
BY InitInv, NextInv, PTL DEF Spec

\* The store keeps its types; every receipt carries a hash drawn once, and work
\* is done inside the lock (appendReceipt).
THEOREM StoreTypeCorrect == Spec => []TypeOK
<1>1. Inv => TypeOK
  BY DEF Inv, WorkOK, ChainOK, EpochOK, BareOK, Promised, TypeOK, LockInv
<1> QED
  BY <1>1, StoreInvariant, PTL

\* Every epoch's segment verifies, for any number of processes and rotators, as
\* long as the lock let no two writers in, no epoch was set back and no receipt
\* without its newline was spoilt between being read and cited (verifyChain).
THEOREM StoreSegmentsVerify == Spec => []SegmentsVerify
<1>1. Inv => SegmentsVerify
  BY DEF Inv, ForkFree, SegmentsVerify
<1> QED
  BY <1>1, StoreInvariant, PTL

\* As long as nobody died and every process may be probed, writers never
\* overlap, for any number of processes and however long they stall
\* (withLockDir).
THEOREM StoreLiveWritersNeverOverlap == Spec => []LiveWritersNeverOverlap
<1>1. Init => LiveWritersNeverOverlap
  BY DEF Init, LiveWritersNeverOverlap
<1>2. Inv /\ LiveWritersNeverOverlap /\ [Next]_vars => LiveWritersNeverOverlap'
  <2> SUFFICES ASSUME Inv, LiveWritersNeverOverlap, [Next]_vars, dead' = {}, Unprobed = {}
               PROVE  ~overlap'
    BY DEF LiveWritersNeverOverlap
  <2>1. ASSUME NEW p \in Procs, Enter(p) PROVE ~overlap'
    <3>1. dead = {} /\ at[p] = "made"
      BY <2>1 DEF Enter, Lock!WritePid, Lock!Go
    <3>2. \A q \in Procs : at[q] # "in"
      BY <3>1 DEF Inv, LockInv, LiveExclusive, Holding
    <3> QED
      BY <2>1, <3>1, <3>2 DEF Enter, LiveWritersNeverOverlap
  <2>2. ASSUME NEW p \in Procs, Seal(p), ~Enter(p) PROVE overlap' = overlap /\ dead = {}
    <3>1. CASE Die(p)
      BY <3>1 DEF Die, Lock!Die
    <3>2. CASE ~Die(p)
      BY <2>2, <3>2 DEF Seal, LockWaiting, Leave, ReadEpoch, ReadTail, AppendLine,
        AppendFails, PublishSealed, lockVars, Lock!Waiting, Lock!Ask, Lock!MkDir, Lock!Stat,
        Lock!ReadPid, Lock!Steal, Lock!GiveUp, Lock!RmDir, Lock!Unlink, Lock!Go
    <3> QED
      BY <3>1, <3>2
  <2>3. (\E p \in Procs : Seal(p)) \/ UNCHANGED <<dead, overlap>>
    BY RotateFrame, AgeFrame, PublishFrame, VarsFrame DEF Next
  <2> QED
    BY <2>1, <2>2, <2>3 DEF LiveWritersNeverOverlap
<1> QED
  BY <1>1, <1>2, StoreInvariant, PTL DEF Spec

\* A cut off line costs at most one receipt whose caller was told it is sealed,
\* even when the lock lets two writers in (appendFileSync).
THEOREM StoreLostAtMostTears == Spec => []LostAtMostTears
<1>1. Inv => LostAtMostTears
  <2> SUFFICES ASSUME Inv PROVE LostAtMostTears
    OBVIOUS
  <2> DEFINE Lost == {h \in answered : \A i \in 1..Len(chain) : chain[i].hash # h}
  <2>1. hashes \in Nat /\ tears \in Nat /\ answered \in SUBSET (1..hashes)
    BY DEF Inv, ChainOK
  <2>2. Lost \subseteq Missing
    BY DEF Missing, Promised
  <2>3. IsFiniteSet(Missing)
    BY MissingFinite DEF Inv
  <2>4. Cardinality(Lost) <= Cardinality(Missing)
    BY <2>2, <2>3, FS_Subset
  <2>5. Cardinality(Lost) \in Nat /\ Cardinality(Missing) \in Nat
    BY <2>2, <2>3, FS_Subset, FS_CardinalityType
  <2>6. Cardinality(Missing) <= tears
    BY <2>1, <2>5 DEF Inv, TearsPay
  <2> QED
    BY <2>1, <2>4, <2>5, <2>6 DEF LostAtMostTears
<1> QED
  BY <1>1, StoreInvariant, PTL

\* A receipt that can be read stays where it is, unless it is the last one and
\* its caller was not told that it is sealed, whoever writes to the file and
\* whatever is cut off (appendFileSync, busPublish).
THEOREM StoreAppendOnly == Spec => AppendOnly
<1>1. Inv /\ [Next]_vars =>
        [\A i \in 1..Len(chain) : i < Len(chain) \/ chain[i].hash \in answered' =>
           i <= Len(chain') /\ chain'[i] = chain[i]]_vars
  <2> SUFFICES ASSUME Inv, [Next]_vars, NEW i \in 1..Len(chain),
                      i < Len(chain) \/ chain[i].hash \in answered'
               PROVE  i <= Len(chain') /\ chain'[i] = chain[i]
    OBVIOUS
  <2>1. WorkOK /\ ChainOK /\ BareOK /\ Len(chain) \in Nat
    BY LastReceipt DEF Inv
  <2>2. ASSUME NEW p \in Procs, Grows(p) PROVE i <= Len(chain') /\ chain'[i] = chain[i]
    BY <2>1, <2>2, Appended
  <2>3. CASE chain' = chain
    BY <2>1, <2>3
  <2>4. CASE chain' = Kept /\ chain' # chain
    <3>1. tail = "bare"
      BY <2>1, <2>4, KeptFacts
    <3>2. i < Len(chain)
      <4>1. chain[Len(chain)].hash \notin Promised
        BY <2>1, <3>1 DEF BareOK
      <4>2. answered' \subseteq Promised
        BY AnsweredWerePromised
      <4> QED
        BY <2>1, <4>1, <4>2
    <3> QED
      BY <2>1, <2>4, <3>2, KeptFacts
  <2> QED
    BY <2>2, <2>3, <2>4, FileMoves DEF Rests, WritesLine, CutsLine, Glues
<1> QED
  BY <1>1, StoreInvariant, PTL DEF Spec, AppendOnly

-----------------------------------------------------------------------------
(* Selections *)

\* A set of numbers that has 0 and with each number the next has all of them.
LEMMA Induction ==
  ASSUME NEW S, 0 \in S, \A n \in Nat : n \in S => n + 1 \in S
  PROVE  Nat \subseteq S
<1> SUFFICES ASSUME Nat \ S # {} PROVE FALSE
  OBVIOUS
<1>1. PICK x \in Nat \ S : \A y \in Nat \ S : ~ (<<y, x>> \in OpToRel(<, Nat))
  BY NatLessThanWellFounded, WFMin
<1>2. x \in Nat /\ x # 0
  BY <1>1
<1>3. x - 1 \in Nat /\ x - 1 < x /\ (x - 1) + 1 = x
  BY <1>2
<1>4. x - 1 \in S
  <2>1. <<x - 1, x>> \in Nat \X Nat
    BY <1>2, <1>3
  <2>2. <<x - 1, x>> \in OpToRel(<, Nat)
    BY <1>3, <2>1, Zenon DEF OpToRel
  <2> QED
    BY <1>1, <1>3, <2>2
<1> QED
  BY <1>1, <1>3, <1>4

\* A set of numbers up to n has a last one.
LEMMA HasLast ==
  ASSUME NEW n \in Nat, NEW P \in SUBSET (1..n), P # {}
  PROVE  \E i \in P : \A k \in P : k <= i
<1> DEFINE S == {d \in Nat : n - d \in P}
<1>1. \A k \in P : n - k \in Nat /\ n - (n - k) = k
  OBVIOUS
<1>2. \A k \in P : n - k \in S
  BY <1>1
<1>3. S # {} /\ S \subseteq Nat
  BY <1>2
<1>4. \A d \in S : n - d \in P
  OBVIOUS
<1> HIDE DEF S
<1>5. PICK x \in S : \A y \in S : ~ (<<y, x>> \in OpToRel(<, Nat))
  BY <1>3, NatLessThanWellFounded, WFMin
<1>6. ASSUME NEW k \in P PROVE k <= n - x
  <2>1. x \in Nat /\ n - k \in Nat /\ n - k \in S /\ k \in Int
    BY <1>1, <1>2, <1>3
  <2>2. <<n - k, x>> \in Nat \X Nat
    BY <2>1
  <2>3. ~(n - k < x)
    BY <1>5, <2>1, <2>2, Zenon DEF OpToRel
  <2> QED
    BY <2>1, <2>3
<1> QED
  BY <1>4, <1>6

\* f[i] is what is at the places P of s up to i.
Steps(f, s, P, n) ==
  f = [i \in 0..n |-> IF i = 0 THEN << >>
                      ELSE IF i \in P THEN Append(f[i - 1], s[i]) ELSE f[i - 1]]

TheSteps(s, P) == CHOOSE f : Steps(f, s, P, Len(s))

LEMMA PickedIsStep ==
  ASSUME NEW s, NEW P
  PROVE  Picked(s, P) = TheSteps(s, P)[Len(s)]
BY DEF Picked, TheSteps, Steps

LEMMA StepsExist ==
  ASSUME NEW s, NEW P
  PROVE  \A n \in Nat : \E f : Steps(f, s, P, n)
<1> DEFINE S == {n \in Nat : \E f : Steps(f, s, P, n)}
<1>1. 0 \in S
  <2> DEFINE f == [i \in 0..0 |-> << >>]
  <2>1. f = [i \in 0..0 |-> IF i = 0 THEN << >>
                            ELSE IF i \in P THEN Append(f[i - 1], s[i]) ELSE f[i - 1]]
    OBVIOUS
  <2> HIDE DEF f
  <2>2. Steps(f, s, P, 0)
    BY <2>1 DEF Steps
  <2> QED
    BY <2>2
<1>2. ASSUME NEW n \in Nat, n \in S PROVE n + 1 \in S
  <2>1. PICK f : Steps(f, s, P, n)
    BY <1>2
  <2> DEFINE item == IF n + 1 \in P THEN Append(f[n], s[n + 1]) ELSE f[n]
             g == [i \in 0..(n + 1) |-> IF i = n + 1 THEN item ELSE f[i]]
  <2>2. ASSUME NEW i \in 0..(n + 1)
        PROVE  g[i] = IF i = 0 THEN << >>
                      ELSE IF i \in P THEN Append(g[i - 1], s[i]) ELSE g[i - 1]
    <3>1. CASE i = n + 1
      <4>1. i # 0 /\ i - 1 = n /\ n \in 0..(n + 1) /\ n # n + 1
        BY <3>1
      <4>2. g[i] = item /\ g[n] = f[n]
        BY <3>1, <4>1
      <4> QED
        BY <3>1, <4>1, <4>2
    <3>2. CASE i # n + 1
      <4>1. i \in 0..n /\ g[i] = f[i]
        BY <3>2
      <4>2. f[i] = IF i = 0 THEN << >>
                   ELSE IF i \in P THEN Append(f[i - 1], s[i]) ELSE f[i - 1]
        BY <4>1, <2>1 DEF Steps
      <4>3. i # 0 => g[i - 1] = f[i - 1]
        BY <4>1
      <4> QED
        BY <4>1, <4>2, <4>3
    <3> QED
      BY <3>1, <3>2
  <2>3. g = [i \in 0..(n + 1) |-> g[i]]
    OBVIOUS
  <2> HIDE DEF g
  <2>4. g = [i \in 0..(n + 1) |-> IF i = 0 THEN << >>
                                  ELSE IF i \in P THEN Append(g[i - 1], s[i]) ELSE g[i - 1]]
    BY <2>2, <2>3
  <2>5. Steps(g, s, P, n + 1)
    BY <2>4 DEF Steps
  <2> QED
    BY <2>5
<1> HIDE DEF S
<1>3. Nat \subseteq S
  BY <1>1, <1>2, Induction
<1> QED
  BY <1>3 DEF S

Ascends(p) == \A i, j \in 1..Len(p) : i < j => p[i] < p[j]

\* q is what is at the places P of s up to n, and p says where.
PicksAt(p, q, s, P, n) ==
  /\ p \in Seq(Nat) /\ Len(p) = Len(q) /\ Ascends(p)
  /\ \A k \in 1..Len(p) : p[k] \in P /\ p[k] <= n /\ q[k] = s[p[k]]
  /\ \A i \in P : i <= n => \E k \in 1..Len(p) : p[k] = i

LEMMA OneMore ==
  ASSUME NEW T, NEW s \in Seq(T), NEW P \in SUBSET (1..Len(s)), NEW n \in Nat,
         n + 1 \in P, NEW q \in Seq(T), NEW p, PicksAt(p, q, s, P, n)
  PROVE  PicksAt(Append(p, n + 1), Append(q, s[n + 1]), s, P, n + 1)
<1> DEFINE p1 == Append(p, n + 1)
           q1 == Append(q, s[n + 1])
<1>1. Len(p) \in Nat
  BY DEF PicksAt
<1>2. p \in Seq(Nat) /\ Len(p) = Len(q) /\ Ascends(p) /\ Len(p) \in Nat
  BY DEF PicksAt
<1>3. /\ p1 \in Seq(Nat) /\ Len(p1) = Len(p) + 1 /\ p1[Len(p) + 1] = n + 1
      /\ \A k \in 1..Len(p) : p1[k] = p[k]
  BY <1>2, AppendProperties
<1>4. s[n + 1] \in T
  BY ElementOfSeq
<1>5. /\ Len(q1) = Len(p) + 1 /\ q1[Len(p) + 1] = s[n + 1]
      /\ \A k \in 1..Len(p) : q1[k] = q[k]
  BY <1>2, <1>4, AppendProperties
<1> HIDE DEF p1, q1
<1>6. \A k \in 1..Len(p) : p[k] \in P /\ p[k] <= n /\ q[k] = s[p[k]] /\ p[k] \in Nat
  BY <1>2, ElementOfSeq DEF PicksAt
<1>7. Ascends(p1)
  <2> SUFFICES ASSUME NEW i \in 1..Len(p1), NEW j \in 1..Len(p1), i < j
               PROVE  p1[i] < p1[j]
    BY DEF Ascends
  <2>1. i \in 1..Len(p) /\ p1[i] = p[i] /\ p[i] <= n /\ p[i] \in Nat
    BY <1>2, <1>3, <1>6, SMTT(30)
  <2>2. CASE j = Len(p) + 1
    <3>1. p1[j] = n + 1
      BY <1>3, <2>2
    <3> QED
      BY <2>1, <3>1
  <2>3. CASE j # Len(p) + 1
    <3>1. j \in 1..(Len(p) + 1)
      BY <1>3
    <3>2. j \in 1..Len(p)
      BY <1>1, <2>3, <3>1
    <3>3. p1[j] = p[j]
      BY <1>3, <3>2
    <3> QED
      BY <1>2, <2>1, <3>2, <3>3 DEF Ascends
  <2> QED
    BY <2>2, <2>3
<1>8. ASSUME NEW k \in 1..Len(p1)
      PROVE  p1[k] \in P /\ p1[k] <= n + 1 /\ q1[k] = s[p1[k]]
  <2>1. CASE k = Len(p) + 1
    BY <1>3, <1>5, <2>1
  <2>2. CASE k # Len(p) + 1
    <3>1. k \in 1..Len(p) /\ p1[k] = p[k] /\ q1[k] = q[k]
      BY <1>2, <1>3, <1>5, <2>2
    <3> QED
      BY <1>6, <3>1
  <2> QED
    BY <2>1, <2>2
<1>9. ASSUME NEW i \in P, i <= n + 1
      PROVE  \E k \in 1..Len(p1) : p1[k] = i
  <2>1. CASE i = n + 1
    <3>1. Len(p) + 1 \in 1..Len(p1)
      BY <1>2, <1>3
    <3> QED
      BY <1>3, <2>1, <3>1
  <2>2. CASE i # n + 1
    <3>1. i <= n
      BY <1>9, <2>2
    <3>2. PICK k \in 1..Len(p) : p[k] = i
      BY <3>1 DEF PicksAt
    <3> QED
      BY <1>2, <1>3, <3>2
  <2> QED
    BY <2>1, <2>2
<1>10. Len(p1) = Len(q1)
  BY <1>3, <1>5
<1>11. PicksAt(p1, q1, s, P, n + 1)
  BY <1>3, <1>7, <1>8, <1>9, <1>10 DEF PicksAt
<1> QED
  BY <1>11 DEF p1, q1

\* What is picked is picked at places that go up, and at each place once.
LEMMA PickedFacts ==
  ASSUME NEW T, NEW s \in Seq(T), NEW P \in SUBSET (1..Len(s))
  PROVE  /\ Picked(s, P) \in Seq(T)
         /\ \E p : PicksAt(p, Picked(s, P), s, P, Len(s))
<1> DEFINE f == TheSteps(s, P)
           n == Len(s)
           S == {k \in Nat : k <= n => f[k] \in Seq(T) /\ \E p : PicksAt(p, f[k], s, P, k)}
<1>1. n \in Nat
  OBVIOUS
<1>2. Steps(f, s, P, n)
  BY <1>1, StepsExist DEF TheSteps
<1>3. \A k \in 0..n : f[k] = IF k = 0 THEN << >>
                             ELSE IF k \in P THEN Append(f[k - 1], s[k]) ELSE f[k - 1]
  <2> HIDE DEF f, n
  <2> QED
    BY <1>2 DEF Steps
<1> HIDE DEF f
<1>4. 0 \in S
  <2>1. f[0] = << >> /\ << >> \in Seq(T) /\ << >> \in Seq(Nat) /\ Len(<< >>) = 0
    BY <1>1, <1>3
  <2>2. PicksAt(<< >>, << >>, s, P, 0)
    BY <2>1 DEF PicksAt, Ascends
  <2> QED
    BY <2>1, <2>2
<1>5. ASSUME NEW k \in Nat, k \in S PROVE k + 1 \in S
  <2> SUFFICES ASSUME k + 1 <= n
               PROVE  f[k + 1] \in Seq(T) /\ \E p : PicksAt(p, f[k + 1], s, P, k + 1)
    BY <1>5
  <2>1. k <= n /\ k + 1 \in 0..n /\ k + 1 # 0 /\ (k + 1) - 1 = k /\ k + 1 \in 1..n
    BY <1>1
  <2>2. f[k] \in Seq(T)
    BY <1>5, <2>1
  <2>3. PICK p : PicksAt(p, f[k], s, P, k)
    BY <1>5, <2>1
  <2>4. f[k + 1] = IF k + 1 \in P THEN Append(f[k], s[k + 1]) ELSE f[k]
    BY <1>3, <2>1
  <2>5. CASE k + 1 \in P
    <3>1. s[k + 1] \in T
      BY <2>1, ElementOfSeq
    <3>2. f[k + 1] = Append(f[k], s[k + 1]) /\ f[k + 1] \in Seq(T)
      BY <2>2, <2>4, <2>5, <3>1
    <3>3. PicksAt(Append(p, k + 1), Append(f[k], s[k + 1]), s, P, k + 1)
      BY <2>2, <2>3, <2>5, OneMore
    <3> QED
      BY <3>2, <3>3
  <2>6. CASE k + 1 \notin P
    <3>1. \A i \in P : i <= k + 1 => i <= k
      BY <2>6
    <3>2. \A i \in P : i <= k => i <= k + 1
      OBVIOUS
    <3>3. PicksAt(p, f[k], s, P, k + 1)
      BY <2>3, <3>1, <3>2 DEF PicksAt
    <3> QED
      BY <2>2, <2>4, <2>6, <3>3
  <2> QED
    BY <2>5, <2>6
<1> HIDE DEF S
<1>6. Nat \subseteq S
  BY <1>4, <1>5, Induction
<1>7. f[n] \in Seq(T) /\ \E p : PicksAt(p, f[n], s, P, n)
  BY <1>1, <1>6 DEF S
<1> QED
  BY <1>7, PickedIsStep DEF f

-----------------------------------------------------------------------------
(* Texts *)

HalfLine == [event : Nat, half : {"first", "rest"}]

LEMMA HalfAt ==
  ASSUME NEW text \in Seq(HalfLine), NEW i \in 1..Len(text)
  PROVE  text[i] \in HalfLine /\ text[i].event \in Nat /\ text[i].half \in {"first", "rest"}
<1>1. text[i] \in HalfLine
  BY ElementOfSeq
<1> QED
  BY <1>1 DEF HalfLine

LEMMA AfterFacts ==
  ASSUME NEW T, NEW s \in Seq(T), NEW n \in 0..Len(s)
  PROVE  /\ After(s, n) \in Seq(T) /\ Len(After(s, n)) = Len(s) - n
         /\ \A i \in 1..(Len(s) - n) : After(s, n)[i] = s[n + i]
<1>1. n + 1 \in Int /\ Len(s) \in Int /\ \A i \in (n + 1)..Len(s) : s[i] \in T
  BY ElementOfSeq
<1>2. /\ SubSeq(s, n + 1, Len(s)) \in Seq(T)
      /\ Len(SubSeq(s, n + 1, Len(s))) = IF n + 1 <= Len(s) THEN Len(s) - (n + 1) + 1 ELSE 0
      /\ \A i \in 1..(Len(s) - (n + 1) + 1) : SubSeq(s, n + 1, Len(s))[i] = s[(n + 1) + i - 1]
  BY <1>1, SubSeqProperties
<1>3. /\ Len(s) - (n + 1) + 1 = Len(s) - n
      /\ ~(n + 1 <= Len(s)) => Len(s) - n = 0
      /\ \A i \in 1..(Len(s) - n) : (n + 1) + i - 1 = n + i
  OBVIOUS
<1> QED
  BY <1>2, <1>3 DEF After

LEMMA BeforeFacts ==
  ASSUME NEW T, NEW s \in Seq(T), NEW n \in 0..Len(s)
  PROVE  /\ Before(s, n) \in Seq(T) /\ Len(Before(s, n)) = n
         /\ \A i \in 1..n : Before(s, n)[i] = s[i]
<1>1. 1 \in Int /\ n \in Int /\ \A i \in 1..n : s[i] \in T
  BY ElementOfSeq
<1>2. /\ SubSeq(s, 1, n) \in Seq(T)
      /\ Len(SubSeq(s, 1, n)) = IF 1 <= n THEN n - 1 + 1 ELSE 0
      /\ \A i \in 1..(n - 1 + 1) : SubSeq(s, 1, n)[i] = s[1 + i - 1]
  BY <1>1, SubSeqProperties
<1>3. n - 1 + 1 = n /\ (~(1 <= n) => n = 0) /\ \A i \in 1..n : 1 + i - 1 = i
  OBVIOUS
<1> QED
  BY <1>2, <1>3 DEF Before

\* Whether a line that lies before the place n of a text is whole is seen from the
\* first n half lines.
LEMMA WholeAlike ==
  ASSUME NEW s, NEW t, NEW n \in Nat, n <= Len(s), n <= Len(t),
         Len(s) \in Nat, Len(t) \in Nat,
         \A i \in 1..n : s[i] = t[i],
         NEW i \in 1..n, i + 1 <= n
  PROVE  Whole(s, i) <=> Whole(t, i)
<1>1. s[i] = t[i] /\ s[i + 1] = t[i + 1] /\ (i > 1 => s[i - 1] = t[i - 1])
  OBVIOUS
<1>2. i + 1 <= Len(s) /\ i + 1 <= Len(t)
  OBVIOUS
<1> QED
  BY <1>1, <1>2 DEF Whole

\* p says where the lines of text begin that parse to the events evs.
ParsedAt(p, evs, text) ==
  /\ p \in Seq(Nat) /\ evs \in Seq(Nat) /\ Len(p) = Len(evs) /\ Ascends(p)
  /\ \A k \in 1..Len(p) :
       p[k] \in 1..Len(text) /\ Whole(text, p[k]) /\ evs[k] = text[p[k]].event
  /\ \A i \in 1..Len(text) : Whole(text, i) => \E k \in 1..Len(p) : p[k] = i

LEMMA ParseFacts ==
  ASSUME NEW text \in Seq(HalfLine)
  PROVE  \E p : ParsedAt(p, Parse(text), text)
<1> DEFINE P == {i \in 1..Len(text) : Whole(text, i)}
           lines == Picked(text, P)
<1>1. /\ lines \in Seq(HalfLine) /\ \E p : PicksAt(p, lines, text, P, Len(text))
  BY PickedFacts
<1>2. Parse(text) = [k \in 1..Len(lines) |-> lines[k].event]
  BY DEF Parse
<1>3. PICK p : PicksAt(p, lines, text, P, Len(text))
  BY <1>1
<1>4. Len(lines) \in Nat /\ \A k \in 1..Len(lines) : lines[k].event \in Nat
  <2>1. lines \in Seq(HalfLine)
    BY <1>1
  <2> HIDE DEF lines
  <2> QED
    BY <2>1, HalfAt
<1>5. P \subseteq 1..Len(text) /\ (\A i \in P : Whole(text, i)) /\ Len(text) \in Nat
      /\ \A i \in 1..Len(text) : Whole(text, i) => i \in P
  OBVIOUS
<1> HIDE DEF lines, P
<1>6. /\ Parse(text) \in Seq(Nat) /\ Len(Parse(text)) = Len(lines)
      /\ \A k \in 1..Len(lines) : Parse(text)[k] = lines[k].event
  BY <1>2, <1>4
<1>7. p \in Seq(Nat) /\ Len(p) = Len(lines) /\ Ascends(p)
  BY <1>3 DEF PicksAt
<1>8. ASSUME NEW k \in 1..Len(p)
      PROVE  p[k] \in 1..Len(text) /\ Whole(text, p[k]) /\ Parse(text)[k] = text[p[k]].event
  <2>1. p[k] \in P /\ lines[k] = text[p[k]]
    BY <1>3 DEF PicksAt
  <2>2. k \in 1..Len(lines)
    BY <1>7
  <2> QED
    BY <1>5, <1>6, <2>1, <2>2
<1>9. ASSUME NEW i \in 1..Len(text), Whole(text, i)
      PROVE  \E k \in 1..Len(p) : p[k] = i
  <2>1. i \in P /\ i <= Len(text)
    BY <1>5, <1>9
  <2> QED
    BY <1>3, <2>1 DEF PicksAt
<1>10. ParsedAt(p, Parse(text), text)
  BY <1>6, <1>7, <1>8, <1>9 DEF ParsedAt
<1> QED
  BY <1>10

LEMMA CutFacts ==
  ASSUME NEW text \in Seq(HalfLine)
  PROVE  /\ Cut(text) \in 0..Len(text)
         /\ Cut(text) > 0 => text[Cut(text)].half = "rest"
         /\ \A i \in (Cut(text) + 1)..Len(text) : text[i].half = "first"
<1> DEFINE P == {i \in 1..Len(text) : text[i].half = "rest"}
           last == CHOOSE i \in P : \A j \in P : j <= i
<1>1. Cut(text) = IF P = {} THEN 0 ELSE last
  BY DEF Cut
<1>2. Len(text) \in Nat /\ \A i \in 1..Len(text) : text[i].half \in {"first", "rest"}
  BY HalfAt
<1>3. P \in SUBSET (1..Len(text))
  OBVIOUS
<1>4. /\ \A i \in P : text[i].half = "rest"
      /\ \A i \in 1..Len(text) : i \notin P => text[i].half = "first"
  BY <1>2
<1>5. P # {} => last \in P /\ \A j \in P : j <= last
  <2> HIDE DEF P
  <2> QED
    BY <1>2, <1>3, HasLast
<1> HIDE DEF P, last
<1>6. CASE P = {}
  BY <1>1, <1>2, <1>4, <1>6
<1>7. CASE P # {}
  <2>1. Cut(text) = last /\ last \in 1..Len(text) /\ text[last].half = "rest"
    BY <1>1, <1>3, <1>4, <1>5, <1>7
  <2>2. \A i \in (last + 1)..Len(text) : i \in 1..Len(text) /\ i \notin P
    BY <1>2, <1>5, <1>7, <2>1
  <2> QED
    BY <1>2, <1>4, <2>1, <2>2
<1> QED
  BY <1>6, <1>7

-----------------------------------------------------------------------------
(* The bus: what was written stays, and the first half of an event is there once *)

BusOK ==
  /\ published \in Nat /\ halves \subseteq 0..published
  /\ file \in Seq(HalfLine)
  /\ \A i \in 1..Len(file) : file[i].event <= published
  /\ \A i, j \in 1..Len(file) : file[i].half = "first" /\ file[i] = file[j] => i = j

\* The file was appended to, if anything.
Grown ==
  /\ file \in Seq(HalfLine) /\ file' \in Seq(HalfLine)
  /\ Len(file) \in Nat /\ Len(file') \in Nat /\ Len(file) <= Len(file')
  /\ \A i \in 1..Len(file) : file'[i] = file[i]

LEMMA HalvesTyped ==
  ASSUME NEW e \in Nat
  PROVE  /\ First(e) \in HalfLine /\ First(e).event = e /\ First(e).half = "first"
         /\ Rest(e) \in HalfLine /\ Rest(e).event = e /\ Rest(e).half = "rest"
BY DEF First, Rest, HalfLine

LEMMA AppendGrows ==
  ASSUME BusOK, NEW h \in HalfLine, file' = Append(file, h)
  PROVE  Grown /\ Len(file') = Len(file) + 1 /\ file'[Len(file) + 1] = h
<1>1. file \in Seq(HalfLine) /\ Len(file) \in Nat
  BY DEF BusOK
<1>2. /\ file' \in Seq(HalfLine) /\ Len(file') = Len(file) + 1
      /\ \A i \in 1..Len(file) : file'[i] = file[i]
      /\ file'[Len(file) + 1] = h
  BY <1>1, AppendProperties
<1>3. Len(file') \in Nat /\ Len(file) <= Len(file')
  BY <1>1, <1>2
<1> QED
  BY <1>1, <1>2, <1>3 DEF Grown

LEMMA BusInitOK == BusInit => BusOK
BY DEF BusInit, BusOK

\* A half line of an event that is new, or the rest of one, is appended.
LEMMA AppendOK ==
  ASSUME BusOK, NEW h \in HalfLine, file' = Append(file, h),
         published' \in Nat, published <= published', h.event <= published',
         h.half = "first" => h.event > published,
         halves' \subseteq 0..published'
  PROVE  BusOK'
<1>1. Grown /\ Len(file') = Len(file) + 1 /\ file'[Len(file) + 1] = h
  BY AppendGrows
<1>2. /\ Len(file) \in Nat /\ file' \in Seq(HalfLine)
      /\ \A i \in 1..Len(file) : file'[i] = file[i]
      /\ \A i \in 1..Len(file) : file[i].event \in Nat /\ file[i].event <= published
  BY <1>1, HalfAt DEF Grown, BusOK
<1>3. \A i \in 1..Len(file') : i \in 1..Len(file) \/ i = Len(file) + 1
  BY <1>1, <1>2
<1>4. published \in Nat /\ h.event \in Nat
  BY DEF BusOK, HalfLine
<1>5. \A i \in 1..Len(file') : file'[i].event <= published'
  BY <1>1, <1>2, <1>3, <1>4
<1>6. ASSUME NEW i \in 1..Len(file'), NEW j \in 1..Len(file'),
             file'[i].half = "first", file'[i] = file'[j]
      PROVE  i = j
  <2>1. CASE i = Len(file) + 1 /\ j = Len(file) + 1
    BY <2>1
  <2>2. CASE i = Len(file) + 1 /\ j \in 1..Len(file)
    <3>1. h.half = "first" /\ h = file[j] /\ file[j].event <= published /\ h.event > published
      BY <1>1, <1>2, <1>6, <2>2
    <3> QED
      BY <1>4, <3>1
  <2>3. CASE j = Len(file) + 1 /\ i \in 1..Len(file)
    <3>1. h.half = "first" /\ h = file[i] /\ file[i].event <= published /\ h.event > published
      BY <1>1, <1>2, <1>6, <2>3
    <3> QED
      BY <1>4, <3>1
  <2>4. CASE i \in 1..Len(file) /\ j \in 1..Len(file)
    BY <1>2, <1>6, <2>4 DEF BusOK
  <2> QED
    BY <1>3, <2>1, <2>2, <2>3, <2>4
<1> QED
  BY <1>2, <1>5, <1>6 DEF BusOK

Publishing == PublishEvent \/ PublishShort \/ \E e \in halves : PublishRest(e)

\* One line at once: its two halves one after the other.
LEMMA PublishEventOK ==
  ASSUME BusOK, PublishEvent
  PROVE  BusOK' /\ Grown
<1> DEFINE e == published + 1
           n == Len(file)
<1>1. /\ published \in Nat /\ e \in Nat /\ n \in Nat /\ file \in Seq(HalfLine)
      /\ published' = e /\ halves' = halves
  BY DEF BusOK, PublishEvent
<1>2. file' = file \o <<First(e), Rest(e)>>
  BY DEF PublishEvent
<1>3. First(e) \in HalfLine /\ First(e).event = e /\ First(e).half = "first"
      /\ Rest(e) \in HalfLine /\ Rest(e).event = e /\ Rest(e).half = "rest"
  BY <1>1, HalvesTyped
<1>4. /\ <<First(e), Rest(e)>> \in Seq(HalfLine) /\ Len(<<First(e), Rest(e)>>) = 2
      /\ <<First(e), Rest(e)>>[1] = First(e) /\ <<First(e), Rest(e)>>[2] = Rest(e)
  BY <1>3
<1> HIDE DEF n
<1>5. /\ file' \in Seq(HalfLine) /\ Len(file') = n + 2
      /\ \A i \in 1..(n + 2) : file'[i] = IF i <= n THEN file[i] ELSE <<First(e), Rest(e)>>[i - n]
  BY <1>1, <1>2, <1>4, ConcatProperties DEF n
<1>6. \A i \in 1..n : file'[i] = file[i]
  BY <1>1, <1>5
<1>7. file'[n + 1] = First(e) /\ file'[n + 2] = Rest(e)
  <2>1. n + 1 \in 1..(n + 2) /\ n + 2 \in 1..(n + 2) /\ ~(n + 1 <= n) /\ ~(n + 2 <= n)
        /\ (n + 1) - n = 1 /\ (n + 2) - n = 2
    BY <1>1
  <2> QED
    BY <1>4, <1>5, <2>1
<1>8. Grown
  BY <1>1, <1>5, <1>6 DEF Grown, n
<1>9. \A i \in 1..Len(file') : i \in 1..n \/ i = n + 1 \/ i = n + 2
  BY <1>1, <1>5
<1>10. \A i \in 1..n : file[i].event \in Nat /\ file[i].event <= published
  BY <1>1, HalfAt DEF BusOK, n
<1> HIDE DEF e
<1>11. e > published
  BY <1>1 DEF e
<1>12. \A i \in 1..Len(file') : file'[i].event <= published'
  BY <1>1, <1>3, <1>6, <1>7, <1>9, <1>10, <1>11, SMTT(30)
<1>13. ASSUME NEW i \in 1..Len(file'), NEW j \in 1..Len(file'),
              file'[i].half = "first", file'[i] = file'[j]
       PROVE  i = j
  <2>1. \A k \in 1..n : file'[k].event # e
    BY <1>1, <1>6, <1>10, <1>11
  <2>2. file'[n + 1].event = e /\ file'[n + 2].half = "rest"
    BY <1>3, <1>7
  <2>3. i # n + 2 /\ j # n + 2
    BY <1>13, <2>2
  <2>4. CASE i \in 1..n /\ j \in 1..n
    BY <1>6, <1>13, <2>4 DEF BusOK, n
  <2>5. i \in 1..n <=> j \in 1..n
    BY <1>9, <1>13, <2>1, <2>2, <2>3
  <2> QED
    BY <1>9, <2>3, <2>4, <2>5
<1>14. halves' \subseteq 0..published'
  BY <1>1, <1>11 DEF BusOK
<1> QED
  BY <1>1, <1>5, <1>8, <1>12, <1>13, <1>14 DEF BusOK

LEMMA BusStep ==
  ASSUME BusOK, BusNext \/ UNCHANGED busVars
  PROVE  BusOK' /\ Grown
<1>1. CASE PublishEvent
  BY <1>1, PublishEventOK
<1>2. CASE PublishShort
  <2>1. published + 1 \in Nat /\ published \in Nat /\ published' = published + 1
    BY <1>2 DEF PublishShort, BusOK
  <2>2. file' = Append(file, First(published + 1)) /\ halves' \subseteq 0..published'
    BY <1>2, <2>1 DEF PublishShort, BusOK
  <2>3. /\ First(published + 1) \in HalfLine /\ First(published + 1).event = published + 1
    BY <2>1, HalvesTyped
  <2>4. First(published + 1).event <= published' /\ First(published + 1).event > published
        /\ published <= published'
    BY <2>1, <2>3
  <2>5. BusOK'
    BY <2>1, <2>2, <2>3, <2>4, AppendOK
  <2> QED
    BY <2>2, <2>3, <2>5, AppendGrows
<1>3. ASSUME NEW e \in halves, PublishRest(e) PROVE BusOK' /\ Grown
  <2>1. e \in Nat /\ e <= published /\ published \in Nat /\ published' = published
    BY <1>3 DEF PublishRest, BusOK
  <2>2. file' = Append(file, Rest(e)) /\ halves' \subseteq 0..published'
    BY <1>3 DEF PublishRest, BusOK
  <2>3. Rest(e) \in HalfLine /\ Rest(e).event = e /\ Rest(e).half = "rest"
    BY <2>1, HalvesTyped
  <2> QED
    BY <2>1, <2>2, <2>3, AppendOK, AppendGrows DEF BusOK
<1>4. CASE UNCHANGED <<file, published, halves>>
  <2>1. Grown
    BY <1>4 DEF BusOK, Grown
  <2> QED
    BY <1>4, <2>1 DEF BusOK
<1> QED
  BY <1>1, <1>2, <1>3, <1>4 DEF BusNext, Backfill, TakeOffset, Drain, busVars

-----------------------------------------------------------------------------
(* The subscriber *)

Got(e) == \E k \in 1..Len(sub.got) : sub.got[k] = e

\* p says where in the file the events begin that the subscriber was given.
GivenAt(p, n) ==
  /\ p \in Seq(Nat) /\ Len(p) = Len(sub.got) /\ Ascends(p)
  /\ \A k \in 1..Len(p) : p[k] \in 1..n /\ file[p[k]] = First(sub.got[k])

\* How far the lines go that a live subscriber has dealt with; buf is what it has read
\* beyond.
Base == sub.offset - Len(sub.buf)

Subscriber == [pc : {"out", "stat", "live"}, read : Nat, start : Nat, offset : Nat,
               buf : Seq(HalfLine), got : Seq(Nat)]

SubOK ==
  /\ sub \in Subscriber
  /\ sub.pc # "live" => sub.buf = << >>
  /\ sub.pc = "stat" =>
       /\ sub.read <= Len(file)
       /\ \E p : GivenAt(p, sub.read)
       /\ \A i \in 1..sub.read : Whole(file, i) /\ i + 1 <= sub.read => Got(file[i].event)
  /\ sub.pc = "live" =>
       /\ sub.read <= sub.start /\ sub.start <= Base /\ sub.offset <= Len(file)
       /\ \A i \in 1..Len(sub.buf) : sub.buf[i] = file[Base + i] /\ sub.buf[i].half = "first"
       /\ Base > sub.start => file[Base].half = "rest"
       /\ \E p : GivenAt(p, Base)
       /\ \A i \in 1..sub.offset :
            Whole(file, i) /\ i + 1 <= sub.offset /\ (i + 1 <= sub.read \/ i > sub.start)
              => Got(file[i].event)

LEMMA SubInitOK == BusInit => SubOK
<1> SUFFICES ASSUME BusInit PROVE SubOK
  OBVIOUS
<1>1. sub = [pc |-> "out", read |-> 0, start |-> 0, offset |-> 0, buf |-> << >>, got |-> << >>]
  BY DEF BusInit
<1>2. sub \in Subscriber /\ sub.pc = "out" /\ sub.buf = << >>
  BY <1>1 DEF Subscriber
<1> QED
  BY <1>2 DEF SubOK

LEMMA SubFields ==
  ASSUME SubOK
  PROVE  /\ sub.pc \in {"out", "stat", "live"} /\ sub.read \in Nat /\ sub.start \in Nat
         /\ sub.offset \in Nat /\ sub.buf \in Seq(HalfLine) /\ sub.got \in Seq(Nat)
         /\ Len(sub.buf) \in Nat /\ Base \in Int /\ Len(sub.got) \in Nat
         /\ sub.pc = "live" => Base \in Nat /\ Base <= sub.offset
<1>1. /\ sub.pc \in {"out", "stat", "live"} /\ sub.read \in Nat /\ sub.start \in Nat
      /\ sub.offset \in Nat /\ sub.buf \in Seq(HalfLine) /\ sub.got \in Seq(Nat)
  BY DEF SubOK, Subscriber
<1>2. Len(sub.buf) \in Nat /\ Len(sub.got) \in Nat
  BY <1>1
<1>3. Base \in Int /\ Base <= sub.offset
  BY <1>1, <1>2 DEF Base
<1>4. sub.pc = "live" => sub.start <= Base
  BY DEF SubOK
<1> QED
  BY <1>1, <1>2, <1>3, <1>4

LEMMA WholeGrown ==
  ASSUME Grown, NEW n \in Nat, n <= Len(file), NEW i \in 1..n, i + 1 <= n
  PROVE  Whole(file', i) <=> Whole(file, i)
BY WholeAlike DEF Grown

\* Nothing the subscriber relies on changes when the file grows.
LEMMA SubStays ==
  ASSUME SubOK, Grown, UNCHANGED sub
  PROVE  SubOK'
<1>1. /\ sub.read \in Nat /\ sub.start \in Nat /\ sub.offset \in Nat /\ Len(sub.buf) \in Nat
      /\ sub.pc = "live" => Base \in Nat /\ Base <= sub.offset
  BY SubFields
<1>2. Base' = Base /\ \A e : Got(e)' <=> Got(e)
  BY DEF Base, Got
<1>3. /\ Len(file) \in Nat /\ Len(file') \in Nat /\ Len(file) <= Len(file')
      /\ \A i \in 1..Len(file) : file'[i] = file[i]
  BY DEF Grown
<1>4. ASSUME NEW n \in Nat, n <= Len(file), NEW p, GivenAt(p, n)
      PROVE  GivenAt(p, n)'
  <2>1. ASSUME NEW k \in 1..Len(p)
        PROVE  p[k] \in 1..n /\ file'[p[k]] = First(sub.got[k])
    <3>1. p[k] \in 1..n /\ file[p[k]] = First(sub.got[k])
      BY <1>4 DEF GivenAt
    <3>2. p[k] \in 1..Len(file)
      BY <1>3, <1>4, <3>1
    <3> QED
      BY <1>3, <3>1, <3>2
  <2> QED
    BY <1>4, <2>1 DEF GivenAt
<1>5. ASSUME sub.pc = "stat"
      PROVE  /\ sub.read <= Len(file')
             /\ \E p : GivenAt(p, sub.read)'
             /\ \A i \in 1..sub.read : Whole(file', i) /\ i + 1 <= sub.read => Got(file[i].event)'
  <2>1. sub.read <= Len(file)
    BY <1>5 DEF SubOK
  <2>2. PICK p : GivenAt(p, sub.read)
    BY <1>5 DEF SubOK
  <2>3. GivenAt(p, sub.read)'
    BY <1>1, <1>4, <2>1, <2>2
  <2>4. ASSUME NEW i \in 1..sub.read, Whole(file', i), i + 1 <= sub.read
        PROVE  Got(file[i].event)'
    <3>1. Whole(file, i)
      BY <1>1, <2>1, <2>4, WholeGrown
    <3>2. file'[i] = file[i]
      BY <1>1, <1>3, <2>1
    <3>3. Got(file[i].event)
      BY <1>5, <2>4, <3>1 DEF SubOK
    <3> QED
      BY <3>2, <3>3 DEF Got
  <2> QED
    BY <1>1, <1>3, <2>1, <2>3, <2>4
<1>6. ASSUME sub.pc = "live"
      PROVE  /\ sub.read <= sub.start /\ sub.start <= Base /\ sub.offset <= Len(file')
             /\ \A i \in 1..Len(sub.buf) :
                  sub.buf[i] = file'[Base + i] /\ sub.buf[i].half = "first"
             /\ Base > sub.start => file'[Base].half = "rest"
             /\ \E p : GivenAt(p, Base)'
             /\ \A i \in 1..sub.offset :
                  Whole(file', i) /\ i + 1 <= sub.offset /\ (i + 1 <= sub.read \/ i > sub.start)
                    => Got(file[i].event)'
  <2>1. sub.read <= sub.start /\ sub.start <= Base /\ sub.offset <= Len(file)
    BY <1>6 DEF SubOK
  <2>2. Base \in Nat /\ Base <= sub.offset /\ Base + Len(sub.buf) = sub.offset
    BY <1>1, <1>6 DEF Base
  <2>3. PICK p : GivenAt(p, Base)
    BY <1>6 DEF SubOK
  <2>4. GivenAt(p, Base)'
    <3>1. Base <= Len(file)
      BY <1>1, <1>3, <2>1, <2>2
    <3> HIDE DEF Base
    <3> QED
      BY <1>2, <1>4, <2>2, <2>3, <3>1 DEF GivenAt
  <2>5. ASSUME NEW i \in 1..sub.offset, Whole(file', i), i + 1 <= sub.offset,
               i + 1 <= sub.read \/ i > sub.start
        PROVE  Got(file[i].event)'
    <3>1. Whole(file, i)
      BY <1>1, <2>1, <2>5, WholeGrown
    <3>2. file'[i] = file[i]
      BY <1>1, <1>3, <2>1
    <3>3. Got(file[i].event)
      BY <1>6, <2>5, <3>1 DEF SubOK
    <3> QED
      BY <3>2, <3>3 DEF Got
  <2>6. ASSUME NEW i \in 1..Len(sub.buf)
        PROVE  sub.buf[i] = file'[Base + i] /\ sub.buf[i].half = "first"
    <3>1. sub.buf[i] = file[Base + i] /\ sub.buf[i].half = "first"
      BY <1>6 DEF SubOK
    <3>2. Base + i \in 1..Len(file)
      BY <1>1, <1>3, <2>1, <2>2
    <3> QED
      BY <1>3, <3>1, <3>2
  <2>7. ASSUME Base > sub.start PROVE file'[Base].half = "rest"
    <3>1. Base \in 1..Len(file)
      BY <1>1, <1>3, <2>1, <2>2, <2>7
    <3> QED
      BY <1>3, <1>6, <2>7, <3>1 DEF SubOK
  <2>8. sub.offset <= Len(file')
    BY <1>1, <1>3, <2>1
  <2> QED
    BY <2>1, <2>4, <2>5, <2>6, <2>7, <2>8
<1>7. sub' = sub
  OBVIOUS
<1>8. sub'.pc = "stat" =>
       /\ sub'.read <= Len(file')
       /\ \E p : GivenAt(p, sub.read)'
       /\ \A i \in 1..sub'.read : Whole(file', i) /\ i + 1 <= sub'.read => Got(file[i].event)'
  BY <1>5, <1>7
<1>9. sub'.pc = "live" =>
       /\ sub'.read <= sub'.start /\ sub'.start <= Base' /\ sub'.offset <= Len(file')
       /\ \A i \in 1..Len(sub'.buf) : sub'.buf[i] = file'[Base' + i] /\ sub'.buf[i].half = "first"
       /\ Base' > sub'.start => file'[Base'].half = "rest"
       /\ \E p : GivenAt(p, Base)'
       /\ \A i \in 1..sub'.offset :
            Whole(file', i) /\ i + 1 <= sub'.offset /\ (i + 1 <= sub'.read \/ i > sub'.start)
              => Got(file[i].event)'
  BY <1>2, <1>6, <1>7
<1>10. sub' \in Subscriber /\ (sub'.pc # "live" => sub'.buf = << >>)
  BY <1>7 DEF SubOK
<1> QED
  BY <1>8, <1>9, <1>10 DEF SubOK

LEMMA BackfillOK ==
  ASSUME BusOK, SubOK, Backfill
  PROVE  SubOK'
<1>1. /\ sub.pc = "out" /\ file' = file
      /\ sub' = [sub EXCEPT !.pc = "stat", !.read = Len(file), !.got = Parse(file)]
  BY DEF Backfill
<1>2. sub \in Subscriber /\ sub.buf = << >> /\ file \in Seq(HalfLine) /\ Len(file) \in Nat
  BY <1>1 DEF SubOK, BusOK
<1>3. PICK p : ParsedAt(p, Parse(file), file)
  BY <1>2, ParseFacts
<1>4. Parse(file) \in Seq(Nat) /\ Len(p) = Len(Parse(file))
  BY <1>3 DEF ParsedAt
<1>5. sub'.pc = "stat" /\ sub'.read = Len(file) /\ sub'.got = Parse(file) /\ sub'.buf = << >>
  BY <1>1, <1>2 DEF Subscriber
<1>6. sub' \in Subscriber
  BY <1>1, <1>2, <1>4 DEF Subscriber
<1>7. ASSUME NEW k \in 1..Len(p)
      PROVE  p[k] \in 1..Len(file) /\ file[p[k]] = First(Parse(file)[k])
  BY <1>3 DEF ParsedAt, Whole
<1>8. GivenAt(p, sub.read)'
  BY <1>1, <1>3, <1>4, <1>5, <1>7 DEF ParsedAt, GivenAt
<1>9. ASSUME NEW i \in 1..Len(file), Whole(file, i)
      PROVE  Got(file[i].event)'
  <2>1. PICK k \in 1..Len(p) : p[k] = i
    BY <1>3, <1>9 DEF ParsedAt
  <2>2. Parse(file)[k] = file[i].event /\ k \in 1..Len(Parse(file))
    BY <1>3, <2>1 DEF ParsedAt
  <2> QED
    BY <1>1, <1>5, <2>2 DEF Got
<1>10. /\ sub'.read <= Len(file')
       /\ \E q : GivenAt(q, sub.read)'
       /\ \A i \in 1..sub'.read : Whole(file', i) /\ i + 1 <= sub'.read => Got(file[i].event)'
  BY <1>1, <1>2, <1>5, <1>8, <1>9
<1> QED
  BY <1>5, <1>6, <1>10 DEF SubOK

LEMMA TakeOffsetOK ==
  ASSUME BusOK, SubOK, TakeOffset
  PROVE  SubOK'
<1>1. /\ sub.pc = "stat" /\ file' = file
      /\ sub' = [sub EXCEPT !.pc = "live", !.start = Len(file), !.offset = Len(file)]
  BY DEF TakeOffset
<1>2. sub \in Subscriber /\ sub.buf = << >> /\ Len(file) \in Nat /\ sub.read \in Nat
      /\ sub.read <= Len(file) /\ sub.got \in Seq(Nat)
  BY <1>1 DEF SubOK, BusOK, Subscriber
<1>3. /\ sub'.pc = "live" /\ sub'.read = sub.read /\ sub'.start = Len(file)
      /\ sub'.offset = Len(file) /\ sub'.got = sub.got /\ sub'.buf = << >>
  BY <1>1, <1>2 DEF Subscriber
<1>4. sub' \in Subscriber
  BY <1>1, <1>2 DEF Subscriber
<1>5. Base' = Len(file)
  BY <1>2, <1>3 DEF Base
<1>6. \A e : Got(e)' <=> Got(e)
  BY <1>3 DEF Got
<1>7. PICK p : GivenAt(p, sub.read)
  BY <1>1 DEF SubOK
<1>8. \A k \in 1..Len(p) : p[k] \in 1..Len(file) /\ file'[p[k]] = First(sub'.got[k])
  BY <1>1, <1>2, <1>3, <1>7, SMTT(30) DEF GivenAt
<1>9. GivenAt(p, Base)'
  <2>1. p \in Seq(Nat) /\ Len(p) = Len(sub'.got) /\ Ascends(p)
    BY <1>3, <1>7 DEF GivenAt
  <2> QED
    BY <1>5, <1>8, <2>1 DEF GivenAt
<1>10. ASSUME NEW i \in 1..Len(file), Whole(file, i), i + 1 <= sub.read \/ i > Len(file)
       PROVE  Got(file[i].event)'
  <2>1. i \in 1..sub.read /\ i + 1 <= sub.read
    BY <1>2, <1>10
  <2>2. Got(file[i].event)
    BY <1>1, <1>10, <2>1 DEF SubOK
  <2> QED
    BY <1>1, <1>6, <2>2
<1>11. Len(sub'.buf) = 0
  BY <1>3
<1>12. /\ sub'.read <= sub'.start /\ sub'.start <= Base' /\ sub'.offset <= Len(file')
       /\ \A i \in 1..Len(sub'.buf) : sub'.buf[i] = file'[Base' + i] /\ sub'.buf[i].half = "first"
       /\ Base' > sub'.start => file'[Base'].half = "rest"
       /\ \E q : GivenAt(q, Base)'
  BY <1>1, <1>2, <1>3, <1>5, <1>9, <1>11
<1>13. \A i \in 1..sub'.offset :
            Whole(file', i) /\ i + 1 <= sub'.offset /\ (i + 1 <= sub'.read \/ i > sub'.start)
              => Got(file[i].event)'
  BY <1>1, <1>3, <1>10
<1> QED
  BY <1>3, <1>4, <1>12, <1>13 DEF SubOK

\* The text that a drain looks at is what the file has after Base.
LEMMA DrainText ==
  ASSUME BusOK, SubOK, sub.pc = "live", sub.offset <= Len(file),
         NEW text, text = sub.buf \o After(file, sub.offset)
  PROVE  /\ text \in Seq(HalfLine) /\ Len(text) = Len(file) - Base
         /\ \A i \in 1..Len(text) : text[i] = file[Base + i]
<1> DEFINE b == sub.buf
           a == After(file, sub.offset)
<1>1. /\ sub.offset \in Nat /\ b \in Seq(HalfLine) /\ Len(b) \in Nat /\ Len(file) \in Nat
      /\ file \in Seq(HalfLine)
  BY SubFields DEF BusOK
<1>2. sub.offset \in 0..Len(file)
  BY <1>1
<1>3. /\ a \in Seq(HalfLine) /\ Len(a) = Len(file) - sub.offset
      /\ \A i \in 1..(Len(file) - sub.offset) : a[i] = file[sub.offset + i]
  BY <1>1, <1>2, AfterFacts
<1>4. \A i \in 1..Len(b) : b[i] = file[Base + i]
  BY DEF SubOK
<1>5. Base = sub.offset - Len(b)
  BY DEF Base
<1> HIDE DEF a, b
<1>6. /\ b \o a \in Seq(HalfLine) /\ Len(b \o a) = Len(b) + Len(a)
      /\ \A i \in 1..(Len(b) + Len(a)) : (b \o a)[i] = IF i <= Len(b) THEN b[i] ELSE a[i - Len(b)]
  BY <1>1, <1>3, ConcatProperties
<1>7. text = b \o a
  BY DEF a, b
<1>8. Len(text) = Len(file) - Base
  BY <1>1, <1>3, <1>5, <1>6, <1>7
<1>9. ASSUME NEW i \in 1..Len(text) PROVE text[i] = file[Base + i]
  <2>1. CASE i <= Len(b)
    BY <1>1, <1>4, <1>6, <1>7, <2>1
  <2>2. CASE ~(i <= Len(b))
    <3>1. i - Len(b) \in 1..(Len(file) - sub.offset) /\ sub.offset + (i - Len(b)) = Base + i
      BY <1>1, <1>2, <1>3, <1>5, <1>6, <1>7, <2>2, SMTT(30)
    <3>2. text[i] = a[i - Len(b)]
      BY <1>6, <1>7, <2>2
    <3> QED
      BY <1>3, <3>1, <3>2
  <2> QED
    BY <2>1, <2>2
<1> QED
  BY <1>6, <1>7, <1>8, <1>9

UpTo(p, n) == p \in Seq(Nat) /\ Ascends(p) /\ \A k \in 1..Len(p) : p[k] <= n
FromOne(q) == q \in Seq(Nat) /\ Ascends(q) /\ \A k \in 1..Len(q) : q[k] >= 1
Shift(t, q, n) == t \in Seq(Nat) /\ Len(t) = Len(q) /\ \A k \in 1..Len(q) : t[k] = n + q[k]
Joined(r, p, q, n) ==
  /\ r \in Seq(Nat) /\ Len(r) = Len(p) + Len(q) /\ Ascends(r)
  /\ \A k \in 1..Len(p) : r[k] = p[k]
  /\ \A k \in 1..Len(q) : r[Len(p) + k] = n + q[k]

\* Positions in a later part of a text are moved by the length of the earlier part.
LEMMA Moved ==
  ASSUME NEW p, NEW q, NEW n \in Nat, UpTo(p, n), FromOne(q), NEW t, Shift(t, q, n)
  PROVE  Joined(p \o t, p, q, n)
<1> DEFINE r == p \o t
<1>1. p \in Seq(Nat) /\ q \in Seq(Nat) /\ Ascends(p) /\ Ascends(q)
  BY DEF UpTo, FromOne
<1>2. /\ \A k \in 1..Len(p) : p[k] <= n
      /\ \A k \in 1..Len(q) : q[k] >= 1
  BY DEF UpTo, FromOne
<1>3. t \in Seq(Nat) /\ Len(t) = Len(q) /\ \A k \in 1..Len(q) : t[k] = n + q[k]
  BY DEF Shift
<1>4. /\ Len(p) \in Nat /\ Len(q) \in Nat
      /\ \A k \in 1..Len(p) : p[k] \in Nat
      /\ \A j \in 1..Len(q) : q[j] \in Nat
  BY <1>1
<1>5. \A k \in 1..Len(q) : n + q[k] \in Nat /\ n + q[k] > n
  BY <1>4, <1>2
<1>6. /\ r \in Seq(Nat) /\ Len(r) = Len(p) + Len(t)
      /\ \A i \in 1..(Len(p) + Len(t)) : r[i] = IF i <= Len(p) THEN p[i] ELSE t[i - Len(p)]
  <2>1. p \in Seq(Nat) /\ t \in Seq(Nat)
    BY <1>1, <1>3
  <2>2. /\ p \o t \in Seq(Nat) /\ Len(p \o t) = Len(p) + Len(t)
        /\ \A i \in 1..(Len(p) + Len(t)) : (p \o t)[i] = IF i <= Len(p) THEN p[i] ELSE t[i - Len(p)]
    BY <2>1, ConcatProperties
  <2> QED
    BY <2>2
<1> HIDE DEF r
<1>7. /\ r \in Seq(Nat) /\ Len(r) = Len(p) + Len(q)
      /\ \A i \in 1..(Len(p) + Len(q)) : r[i] = IF i <= Len(p) THEN p[i] ELSE t[i - Len(p)]
  BY <1>6, <1>3
<1>8. \A k \in 1..Len(p) : r[k] = p[k]
  BY <1>4, <1>7
<1>9. ASSUME NEW k \in 1..Len(q) PROVE r[Len(p) + k] = n + q[k]
  <2>1. Len(p) + k \in 1..(Len(p) + Len(q)) /\ ~(Len(p) + k <= Len(p)) /\ (Len(p) + k) - Len(p) = k
    BY <1>4
  <2> QED
    BY <1>7, <1>3, <2>1
<1>10. ASSUME NEW i \in 1..Len(r), NEW j \in 1..Len(r), i < j
      PROVE  r[i] < r[j]
  <2>1. CASE j <= Len(p)
    <3>1. i \in 1..Len(p) /\ j \in 1..Len(p)
      BY <1>4, <1>7, <1>10, <2>1
    <3> QED
      BY <1>1, <1>8, <1>10, <3>1 DEF Ascends
  <2>2. CASE i <= Len(p) /\ ~(j <= Len(p))
    <3>1. j - Len(p) \in 1..Len(q) /\ Len(p) + (j - Len(p)) = j /\ i \in 1..Len(p)
      BY <1>4, <1>7, <2>2
    <3>2. r[j] = n + q[j - Len(p)] /\ r[i] = p[i] /\ p[i] \in Nat /\ p[i] <= n
      BY <1>4, <1>8, <1>9, <1>2, <3>1
    <3>3. n + q[j - Len(p)] \in Nat /\ n + q[j - Len(p)] > n
      BY <1>5, <3>1
    <3>4. \A x, y \in Nat : x <= n /\ y > n => x < y
      OBVIOUS
    <3>5. p[i] < n + q[j - Len(p)]
      BY <3>2, <3>3, <3>4
    <3> QED
      BY <3>2, <3>5
  <2>3. CASE ~(i <= Len(p))
    <3>1. /\ i - Len(p) \in 1..Len(q) /\ Len(p) + (i - Len(p)) = i
          /\ j - Len(p) \in 1..Len(q) /\ Len(p) + (j - Len(p)) = j /\ i - Len(p) < j - Len(p)
      BY <1>4, <1>7, <1>10, <2>3
    <3>2. r[i] = n + q[i - Len(p)] /\ r[j] = n + q[j - Len(p)]
      BY <1>9, <3>1
    <3>3. q[i - Len(p)] < q[j - Len(p)] /\ q[i - Len(p)] \in Nat /\ q[j - Len(p)] \in Nat
      BY <1>1, <1>4, <3>1 DEF Ascends
    <3>4. \A x, y \in Nat : x < y => n + x < n + y
      OBVIOUS
    <3>5. n + q[i - Len(p)] < n + q[j - Len(p)]
      BY <3>3, <3>4
    <3> QED
      BY <3>2, <3>5
  <2> QED
    BY <2>1, <2>2, <2>3
<1>11. Joined(r, p, q, n)
  BY <1>7, <1>8, <1>9, <1>10 DEF Ascends, Joined
<1> QED
  BY <1>11 DEF r

LEMMA DrainOK ==
  ASSUME BusOK, SubOK, Drain
  PROVE  SubOK'
<1> DEFINE text == sub.buf \o After(file, sub.offset)
           c == Cut(text)
           b == Before(text, c)
           rest == After(text, c)
           new == Parse(b)
<1>1. /\ sub.pc = "live" /\ file' = file
      /\ sub' = [sub EXCEPT !.offset = Len(file), !.buf = rest, !.got = @ \o new]
  BY DEF Drain
<1>2. /\ sub \in Subscriber /\ sub.offset \in Nat /\ sub.got \in Seq(Nat) /\ sub.start \in Nat
      /\ sub.read \in Nat /\ Base \in Nat /\ Base <= sub.offset /\ Len(sub.got) \in Nat
      /\ Len(sub.buf) \in Nat /\ Base + Len(sub.buf) = sub.offset
  BY <1>1, SubFields DEF SubOK, Base
<1>3. sub.read <= sub.start /\ sub.start <= Base /\ sub.offset <= Len(file)
  BY <1>1 DEF SubOK
<1>4. file \in Seq(HalfLine) /\ Len(file) \in Nat
  BY DEF BusOK
<1>5. /\ text \in Seq(HalfLine) /\ Len(text) = Len(file) - Base
      /\ \A i \in 1..Len(text) : text[i] = file[Base + i]
  BY <1>1, <1>3, DrainText
<1> HIDE DEF text
<1>6. /\ c \in 0..Len(text) /\ (c > 0 => text[c].half = "rest")
      /\ \A i \in (c + 1)..Len(text) : text[i].half = "first"
  BY <1>5, CutFacts
<1> HIDE DEF c
<1>7. c \in Nat /\ c <= Len(text) /\ Len(text) \in Nat
  BY <1>5, <1>6
<1>8. /\ b \in Seq(HalfLine) /\ Len(b) = c
      /\ \A i \in 1..c : b[i] = text[i]
  BY <1>5, <1>6, BeforeFacts
<1>9. /\ rest \in Seq(HalfLine) /\ Len(rest) = Len(text) - c
      /\ \A i \in 1..(Len(text) - c) : rest[i] = text[c + i]
  BY <1>5, <1>6, AfterFacts
<1> HIDE DEF b, rest
<1>10. PICK q : ParsedAt(q, new, b)
  BY <1>8, ParseFacts
<1>11. new \in Seq(Nat) /\ q \in Seq(Nat) /\ Len(q) = Len(new) /\ Ascends(q) /\ Len(new) \in Nat
  BY <1>10 DEF ParsedAt
<1> HIDE DEF new
<1>12. /\ sub.got \o new \in Seq(Nat) /\ Len(sub.got \o new) = Len(sub.got) + Len(new)
       /\ \A k \in 1..(Len(sub.got) + Len(new)) :
            (sub.got \o new)[k] = IF k <= Len(sub.got) THEN sub.got[k] ELSE new[k - Len(sub.got)]
  BY <1>2, <1>11, ConcatProperties
<1>13. /\ sub'.pc = "live" /\ sub'.read = sub.read /\ sub'.start = sub.start
       /\ sub'.offset = Len(file) /\ sub'.buf = rest /\ sub'.got = sub.got \o new
  BY <1>1, <1>2 DEF Subscriber
<1>14. sub' \in Subscriber
  BY <1>1, <1>2, <1>4, <1>9, <1>12 DEF Subscriber
<1>15. Base' = Base + c
  <2>1. Base' = Len(file) - Len(rest)
    BY <1>13 DEF Base
  <2> QED
    BY <1>2, <1>4, <1>5, <1>7, <1>9, <2>1
<1>16. /\ Len(sub'.got) = Len(sub.got) + Len(new)
       /\ \A k \in 1..Len(sub.got) : sub'.got[k] = sub.got[k]
       /\ \A k \in 1..Len(new) : sub'.got[Len(sub.got) + k] = new[k]
  <2>1. \A k \in 1..Len(sub.got) : k \in 1..(Len(sub.got) + Len(new)) /\ k <= Len(sub.got)
    BY <1>2, <1>11
  <2>2. \A k \in 1..Len(new) : /\ Len(sub.got) + k \in 1..(Len(sub.got) + Len(new))
                               /\ ~(Len(sub.got) + k <= Len(sub.got))
                               /\ (Len(sub.got) + k) - Len(sub.got) = k
    BY <1>2, <1>11, SMTT(30)
  <2> QED
    BY <1>12, <1>13, <2>1, <2>2
\* What it was given, it was given where the lines are.
<1>17. \E r : GivenAt(r, Base)'
  <2>1. PICK p : GivenAt(p, Base)
    BY <1>1 DEF SubOK
  <2>2. p \in Seq(Nat) /\ Len(p) = Len(sub.got) /\ Ascends(p) /\ \A k \in 1..Len(p) : p[k] <= Base
    BY <1>2, <2>1 DEF GivenAt
  <2>3. \A k \in 1..Len(q) : q[k] \in 1..c /\ b[q[k]] = First(new[k])
    BY <1>8, <1>10 DEF ParsedAt, Whole
  <2>4. PICK n : n = Base
    OBVIOUS
  <2>5. PICK t : Shift(t, q, n)
    <3>1. n \in Nat /\ Len(q) \in Nat /\ \A k \in 1..Len(q) : n + q[k] \in Nat
      BY <1>2, <1>11, <2>3, <2>4, SMTT(30)
    <3>2. Shift([k \in 1..Len(q) |-> n + q[k]], q, n)
      BY <3>1 DEF Shift
    <3> QED
      BY <3>2
  <2>6. PICK r : r = p \o t
    OBVIOUS
  <2>7. Joined(r, p, q, n)
    <3>1. \A k \in 1..Len(q) : q[k] >= 1
      BY <2>3
    <3>2. FromOne(q) /\ UpTo(p, n) /\ n \in Nat
      BY <1>2, <1>11, <2>2, <2>4, <3>1 DEF FromOne, UpTo
    <3> QED
      BY <2>5, <2>6, <3>2, Moved
  <2>8. /\ r \in Seq(Nat) /\ Len(r) = Len(p) + Len(q) /\ Ascends(r)
        /\ \A k \in 1..Len(p) : r[k] = p[k]
        /\ \A k \in 1..Len(q) : r[Len(p) + k] = Base + q[k]
    BY <2>7, <2>4 DEF Joined
  <2>9. ASSUME NEW k \in 1..Len(r)
        PROVE  r[k] \in 1..(Base + c) /\ file[r[k]] = First(sub'.got[k])
    <3>1. CASE k <= Len(sub.got)
      <4>1. k \in 1..Len(p) /\ k \in 1..Len(sub.got)
        BY <1>2, <2>2, <2>8, <3>1
      <4>2. r[k] = p[k] /\ p[k] \in 1..Base /\ file[p[k]] = First(sub.got[k])
        BY <2>1, <2>8, <4>1 DEF GivenAt
      <4>3. \A x \in 1..Base : x \in 1..(Base + c)
        BY <1>2, <1>7
      <4> QED
        BY <1>16, <4>1, <4>2, <4>3
    <3>2. CASE ~(k <= Len(sub.got))
      <4>1. PICK m \in 1..Len(q) : k = Len(p) + m
        <5>1. k - Len(sub.got) \in 1..Len(q) /\ k = Len(p) + (k - Len(sub.got))
          BY <1>2, <1>11, <2>2, <2>8, <3>2
        <5> QED
          BY <5>1
      <4>2. r[k] = Base + q[m] /\ q[m] \in 1..c /\ b[q[m]] = First(new[m])
        <5>1. r[Len(p) + m] = Base + q[m]
          BY <2>8
        <5>2. q[m] \in 1..c /\ b[q[m]] = First(new[m])
          BY <2>3
        <5> QED
          BY <4>1, <5>1, <5>2
      <4>3. sub'.got[k] = new[m]
        BY <1>11, <1>16, <2>2, <4>1
      <4>4. file[Base + q[m]] = b[q[m]] /\ Base + q[m] \in 1..(Base + c)
        <5>1. \A x \in 1..c : x \in 1..Len(text) /\ Base + x \in 1..(Base + c)
          BY <1>2, <1>7
        <5>2. text[q[m]] = file[Base + q[m]]
          BY <1>5, <4>2, <5>1
        <5>3. b[q[m]] = text[q[m]]
          BY <1>8, <4>2
        <5> QED
          BY <4>2, <5>1, <5>2, <5>3
      <4> QED
        BY <4>2, <4>3, <4>4
    <3> QED
      BY <3>1, <3>2
  <2>10. Len(r) = Len(sub'.got)
    BY <1>11, <1>16, <2>2, <2>8
  <2>11. \A k \in 1..Len(r) : r[k] \in 1..Base' /\ file'[r[k]] = First(sub'.got[k])
    BY <1>1, <1>15, <2>9
  <2>12. r \in Seq(Nat) /\ Ascends(r)
    BY <2>8
  <2>13. GivenAt(r, Base)'
    BY <2>10, <2>11, <2>12 DEF GivenAt
  <2> QED
    BY <2>13
<1>18. \A e : Got(e) => Got(e)'
  <2>1. 1..Len(sub.got) \subseteq 1..Len(sub'.got)
    BY <1>2, <1>11, <1>16
  <2> QED
    BY <1>16, <2>1 DEF Got
\* A whole line that it had not read to its end is in the text.
<1>19. ASSUME NEW i \in 1..Len(file), Whole(file, i), i + 1 <= Len(file),
              i + 1 <= sub.read \/ i > sub.start
       PROVE  Got(file[i].event)'
  <2>1. CASE i + 1 <= sub.offset
    <3>1. i \in 1..sub.offset
      BY <1>2, <2>1
    <3>2. Got(file[i].event)
      BY <1>1, <1>19, <2>1, <3>1 DEF SubOK
    <3> QED
      BY <1>1, <1>18, <3>2
  <2>2. CASE ~(i + 1 <= sub.offset)
    <3>1. /\ file[i] = First(file[i].event) /\ file[i + 1] = Rest(file[i].event)
          /\ (i > 1 => file[i - 1].half = "rest")
      BY <1>19 DEF Whole
    <3>2. file[i].half = "first" /\ file[i + 1].half = "rest"
      BY <3>1 DEF First, Rest
    <3>3. i > sub.start /\ i >= Base
      BY <1>2, <1>3, <1>4, <1>19, <2>2
    <3>4. i # Base
      <4> SUFFICES ASSUME i = Base PROVE FALSE
        OBVIOUS
      <4>1. file[Base].half = "rest"
        BY <1>1, <3>3 DEF SubOK
      <4> QED
        BY <3>2, <4>1
    <3> DEFINE j == i - Base
    <3>5. j \in 1..Len(text) /\ j + 1 \in 1..Len(text) /\ Base + j = i /\ Base + (j + 1) = i + 1
          /\ (j > 1 => j - 1 \in 1..Len(text) /\ i > 1 /\ Base + (j - 1) = i - 1)
      BY <1>2, <1>4, <1>5, <1>19, <3>3, <3>4
    <3>6. text[j] = file[i] /\ text[j + 1] = file[i + 1] /\ (j > 1 => text[j - 1] = file[i - 1] /\ i > 1)
      BY <1>5, <3>5
    <3> HIDE DEF j
    <3>7. j + 1 <= c
      <4> SUFFICES ASSUME ~(j + 1 <= c) PROVE FALSE
        OBVIOUS
      <4>1. j + 1 \in (c + 1)..Len(text)
        BY <1>7, <3>5
      <4>2. text[j + 1].half = "first"
        BY <1>6, <4>1
      <4> QED
        BY <3>2, <3>6, <4>2
    <3>8. j \in 1..c /\ j + 1 \in 1..c /\ (j > 1 => j - 1 \in 1..c)
      BY <1>7, <3>5, <3>7
    <3>9. b[j] = file[i] /\ b[j + 1] = file[i + 1] /\ (j > 1 => b[j - 1] = file[i - 1] /\ i > 1)
      BY <1>8, <3>6, <3>8
    <3>10. Whole(b, j)
      BY <1>8, <3>1, <3>7, <3>9 DEF Whole
    <3>11. PICK k \in 1..Len(q) : q[k] = j
      BY <1>8, <1>10, <3>8, <3>10 DEF ParsedAt
    <3>12. new[k] = file[i].event
      BY <1>10, <3>9, <3>11 DEF ParsedAt
    <3>13. k \in 1..Len(new) /\ Len(sub.got) + k \in 1..Len(sub'.got)
      <4>1. k \in 1..Len(new)
        BY <1>11, <3>11
      <4>2. Len(sub.got) + k \in 1..(Len(sub.got) + Len(new))
        BY <1>2, <1>11, <4>1
      <4> QED
        BY <1>16, <4>1, <4>2
    <3>14. sub'.got[Len(sub.got) + k] = file[i].event
      BY <1>16, <3>12, <3>13
    <3> QED
      BY <1>1, <3>13, <3>14 DEF Got
  <2> QED
    BY <2>1, <2>2
<1>20. ASSUME NEW i \in 1..Len(rest)
       PROVE  rest[i] = file[Base' + i] /\ rest[i].half = "first"
  <2>1. i \in 1..(Len(text) - c) /\ c + i \in 1..Len(text) /\ c + i \in (c + 1)..Len(text)
    BY <1>7, <1>9
  <2>2. rest[i] = text[c + i] /\ text[c + i] = file[Base + (c + i)] /\ text[c + i].half = "first"
    BY <1>5, <1>6, <1>9, <2>1
  <2>3. Base + (c + i) = Base' + i
    BY <1>2, <1>7, <1>15
  <2> QED
    BY <2>2, <2>3
<1>21. ASSUME Base' > sub.start PROVE file[Base'].half = "rest"
  <2>1. CASE c = 0
    <3>1. Base' = Base
      BY <1>2, <1>15, <2>1
    <3> QED
      BY <1>1, <1>21, <3>1 DEF SubOK
  <2>2. CASE c # 0
    <3>1. c > 0 /\ c \in 1..Len(text)
      BY <1>7, <2>2
    <3> QED
      BY <1>5, <1>6, <1>15, <3>1
  <2> QED
    BY <2>1, <2>2
<1>22. sub'.read <= sub'.start /\ sub'.start <= Base' /\ sub'.offset <= Len(file')
  <2>1. sub.start <= Base + c
    <3> QED
      BY <1>2, <1>3, <1>7
  <2> QED
    BY <1>1, <1>3, <1>4, <1>13, <1>15, <2>1
<1>23. /\ \A i \in 1..Len(sub'.buf) : sub'.buf[i] = file'[Base' + i] /\ sub'.buf[i].half = "first"
       /\ Base' > sub'.start => file'[Base'].half = "rest"
  BY <1>1, <1>13, <1>20, <1>21
<1>24. \A i \in 1..sub'.offset :
            Whole(file', i) /\ i + 1 <= sub'.offset /\ (i + 1 <= sub'.read \/ i > sub'.start)
              => Got(file[i].event)'
  BY <1>1, <1>13, <1>19
<1> QED
  BY <1>13, <1>14, <1>17, <1>22, <1>23, <1>24 DEF SubOK

LEMMA SubStep ==
  ASSUME BusOK, SubOK, BusNext \/ UNCHANGED busVars
  PROVE  SubOK'
<1>1. Grown
  BY BusStep
<1>2. CASE UNCHANGED sub
  BY <1>1, <1>2, SubStays
<1>3. CASE Backfill \/ TakeOffset \/ Drain
  BY <1>3, BackfillOK, TakeOffsetOK, DrainOK
<1> QED
  BY <1>2, <1>3 DEF BusNext, PublishEvent, PublishShort, PublishRest, busVars

\* Every event the subscriber was given has one place in the file.
LEMMA GivenPlaces ==
  ASSUME BusOK, NEW n \in Nat, n <= Len(file), NEW p, GivenAt(p, n), NEW k \in 1..Len(p)
  PROVE  PlaceOf(sub.got[k]) = p[k]
<1>1. p[k] \in 1..Len(file) /\ file[p[k]] = First(sub.got[k])
  BY DEF GivenAt, BusOK
<1>2. First(sub.got[k]).half = "first"
  BY DEF First
<1>3. \A i \in 1..Len(file) : file[i] = First(sub.got[k]) => i = p[k]
  BY <1>1, <1>2 DEF BusOK
<1> QED
  BY <1>1, <1>3 DEF PlaceOf

LEMMA SubMisses == BusOK /\ SubOK => MissesOnlyTheGap
<1> SUFFICES ASSUME BusOK, SubOK, sub.pc = "live" PROVE MissesOnlyTheGap
  BY DEF MissesOnlyTheGap
<1>1. Base \in Nat /\ Base <= sub.offset /\ sub.offset \in Nat /\ Len(file) \in Nat
  BY SubFields DEF BusOK
<1>2. sub.offset <= Len(file)
  BY DEF SubOK
<1>3. PICK p : GivenAt(p, Base)
  BY DEF SubOK
<1>4. Base <= Len(file)
  BY <1>1, <1>2
<1>5. p \in Seq(Nat) /\ Len(p) = Len(sub.got) /\ Ascends(p)
  BY <1>3 DEF GivenAt
<1>6. \A k \in 1..Len(p) : PlaceOf(sub.got[k]) = p[k]
  BY <1>1, <1>3, <1>4, GivenPlaces
<1>7. \A i, j \in 1..Len(sub.got) : i < j => PlaceOf(sub.got[i]) < PlaceOf(sub.got[j])
  BY <1>5, <1>6 DEF Ascends
<1>8. \A i \in 1..sub.offset :
         Whole(file, i) /\ i + 1 <= sub.offset /\ (i + 1 <= sub.read \/ i > sub.start)
           => \E k \in 1..Len(sub.got) : sub.got[k] = file[i].event
  BY DEF SubOK, Got
<1> QED
  BY <1>7, <1>8 DEF MissesOnlyTheGap

LEMMA SlateMovesBus ==
  [SlateNext]_slateVars => BusNext \/ UNCHANGED busVars
BY DEF SlateNext, slateVars, BridgeStart, Replay, Tick, BridgeDies, PostLost, PostArrives,
       PostFails, Open, Hello, Receive, Close, Poll, busVars

\* A subscriber of the bus in another process is given every event whose line is whole,
\* once and in the order of the file, except what was appended between its two looks at
\* the file, whatever is published, cut short and completed meanwhile (subscribe).
THEOREM SubscriberMissesOnlyTheGap == SlateSpec => []MissesOnlyTheGap
<1>1. SlateInit => BusOK /\ SubOK
  BY BusInitOK, SubInitOK DEF SlateInit
<1>2. BusOK /\ SubOK /\ [SlateNext]_slateVars => BusOK' /\ SubOK'
  BY SlateMovesBus, BusStep, SubStep
<1> QED
  BY <1>1, <1>2, SubMisses, PTL DEF SlateSpec

-----------------------------------------------------------------------------
(* The bridge *)

\* A set of numbers that is not empty has a first one.
LEMMA HasFirst ==
  ASSUME NEW P \in SUBSET Nat, P # {}
  PROVE  \E i \in P : \A k \in P : i <= k
<1>1. PICK x \in P : \A y \in P : ~ (<<y, x>> \in OpToRel(<, Nat))
  BY NatLessThanWellFounded, WFMin
<1>2. ASSUME NEW k \in P PROVE x <= k
  <2>1. x \in Nat /\ k \in Nat /\ <<k, x>> \in Nat \X Nat
    OBVIOUS
  <2>2. ~(k < x)
    BY <1>1, <2>1, Zenon DEF OpToRel
  <2> QED
    BY <2>1, <2>2
<1> QED
  BY <1>2

LEMMA SameBefore ==
  ASSUME NEW T, NEW s \in Seq(T), NEW t \in Seq(T), NEW n \in Nat,
         n <= Len(s), n <= Len(t), \A i \in 1..n : s[i] = t[i]
  PROVE  Before(s, n) = Before(t, n)
<1>1. n \in 0..Len(s) /\ n \in 0..Len(t)
  OBVIOUS
<1>2. /\ Before(s, n) \in Seq(T) /\ Len(Before(s, n)) = n
      /\ \A i \in 1..n : Before(s, n)[i] = s[i]
  BY <1>1, BeforeFacts
<1>3. /\ Before(t, n) \in Seq(T) /\ Len(Before(t, n)) = n
      /\ \A i \in 1..n : Before(t, n)[i] = t[i]
  BY <1>1, BeforeFacts
<1>4. \A i \in 1..n : Before(s, n)[i] = Before(t, n)[i]
  BY <1>2, <1>3
<1> QED
  BY <1>2, <1>3, <1>4, SeqEqual

LEMMA AllBefore ==
  ASSUME NEW T, NEW s \in Seq(T)
  PROVE  Before(s, Len(s)) = s
<1>1. Len(s) \in Nat /\ Len(s) \in 0..Len(s)
  OBVIOUS
<1>2. /\ Before(s, Len(s)) \in Seq(T) /\ Len(Before(s, Len(s))) = Len(s)
      /\ \A i \in 1..Len(s) : Before(s, Len(s))[i] = s[i]
  BY <1>1, BeforeFacts
<1> QED
  BY <1>2, SeqEqual

LEMMA LastOfFacts ==
  ASSUME NEW T, NEW s \in Seq(T), NEW n \in Nat
  PROVE  LastOf(s, n) \in Seq(T)
<1>1. CASE Len(s) > n
  <2>1. Len(s) - n \in 0..Len(s)
    BY <1>1
  <2> QED
    BY <1>1, <2>1, AfterFacts DEF LastOf
<1>2. CASE ~(Len(s) > n)
  BY <1>2 DEF LastOf
<1> QED
  BY <1>1, <1>2

\* What a post adds to the table: the rows it had, and all the ids of the events that
\* the room takes and does not refuse.
LEMMA StoredFacts ==
  ASSUME NEW events \in Seq(Nat), rows \in Seq(Nat)
  PROVE  /\ Stored(events) \in Seq(Nat)
         /\ Len(rows) <= Len(Stored(events)) /\ Ids(rows) \subseteq Ids(Stored(events))
         /\ Len(events) <= MaxPost => WelcomeIds(events) \subseteq Ids(Stored(events))
<1> DEFINE taken == IF Len(events) > MaxPost THEN Before(events, MaxPost) ELSE events
           new == {i \in Welcome(taken) :
                     /\ Id(taken[i]) \notin Ids(rows)
                     /\ \A j \in Welcome(taken) : j < i => Id(taken[j]) # Id(taken[i])}
           added == Picked(taken, new)
<1>1. Stored(events) = rows \o added
  BY DEF Stored
<1>2. taken \in Seq(Nat) /\ (Len(events) <= MaxPost => taken = events)
  <2>1. MaxPost \in Nat /\ Len(events) \in Nat
    BY SlateAssumption
  <2>2. CASE Len(events) > MaxPost
    <3>1. MaxPost \in 0..Len(events)
      BY <2>1, <2>2
    <3>2. Before(events, MaxPost) \in Seq(Nat)
      BY <3>1, BeforeFacts
    <3> QED
      BY <2>1, <2>2, <3>2
  <2>3. CASE ~(Len(events) > MaxPost)
    BY <2>3
  <2> QED
    BY <2>2, <2>3
<1> HIDE DEF taken
<1>3. new \in SUBSET (1..Len(taken)) /\ Welcome(taken) \in SUBSET (1..Len(taken))
  BY DEF Welcome
<1>4. \A i \in Welcome(taken) :
        /\ Id(taken[i]) \notin Ids(rows)
        /\ \A j \in Welcome(taken) : j < i => Id(taken[j]) # Id(taken[i])
        => i \in new
  OBVIOUS
<1> HIDE DEF new
<1>5. added \in Seq(Nat) /\ \E p : PicksAt(p, added, taken, new, Len(taken))
  BY <1>2, <1>3, PickedFacts
<1> HIDE DEF added
<1>6. PICK p : PicksAt(p, added, taken, new, Len(taken))
  BY <1>5
<1>7. Len(rows) \in Nat /\ Len(added) \in Nat /\ Len(taken) \in Nat
  BY <1>2, <1>5
<1>8. /\ rows \o added \in Seq(Nat) /\ Len(rows \o added) = Len(rows) + Len(added)
      /\ \A k \in 1..(Len(rows) + Len(added)) :
           (rows \o added)[k] = IF k <= Len(rows) THEN rows[k] ELSE added[k - Len(rows)]
  BY <1>5, ConcatProperties
<1>9. Ids(rows) \subseteq Ids(rows \o added)
  <2>1. \A k \in 1..Len(rows) : k \in 1..Len(rows \o added) /\ (rows \o added)[k] = rows[k]
    BY <1>7, <1>8
  <2> QED
    BY <2>1 DEF Ids
<1>10. Ids(added) \subseteq Ids(rows \o added)
  <2>1. ASSUME NEW k \in 1..Len(added)
        PROVE  Len(rows) + k \in 1..Len(rows \o added) /\ (rows \o added)[Len(rows) + k] = added[k]
    <3>1. /\ Len(rows) + k \in 1..(Len(rows) + Len(added)) /\ ~(Len(rows) + k <= Len(rows))
          /\ (Len(rows) + k) - Len(rows) = k
      BY <1>7
    <3> QED
      BY <1>8, <3>1
  <2> QED
    BY <2>1 DEF Ids
<1>11. ASSUME NEW i \in Welcome(taken)
       PROVE  Id(taken[i]) \in Ids(rows) \/ Id(taken[i]) \in Ids(added)
  <2> SUFFICES ASSUME Id(taken[i]) \notin Ids(rows) PROVE Id(taken[i]) \in Ids(added)
    OBVIOUS
  <2> DEFINE same == {j \in Welcome(taken) : Id(taken[j]) = Id(taken[i])}
  <2>1. same \in SUBSET Nat /\ same # {} /\ same \subseteq Welcome(taken)
    BY <1>3, <1>7
  <2>2. /\ \A j \in same : Id(taken[j]) = Id(taken[i])
        /\ \A j \in Welcome(taken) : j \notin same => Id(taken[j]) # Id(taken[i])
    OBVIOUS
  <2> HIDE DEF same
  <2>3. PICK first \in same : \A j \in same : first <= j
    BY <2>1, HasFirst
  <2>4. first \in Welcome(taken) /\ first \in 1..Len(taken) /\ Id(taken[first]) = Id(taken[i])
    BY <1>3, <2>1, <2>2
  <2>5. ASSUME NEW j \in Welcome(taken), j < first PROVE Id(taken[j]) # Id(taken[first])
    <3>1. j \in 1..Len(taken) /\ ~(first <= j)
      BY <1>3, <1>7, <2>4, <2>5
    <3> QED
      BY <2>2, <2>3, <2>4, <3>1
  <2>6. first \in new /\ first <= Len(taken)
    BY <1>4, <1>7, <2>4, <2>5
  <2>7. PICK k \in 1..Len(p) : p[k] = first
    BY <1>6, <2>6 DEF PicksAt
  <2>8. k \in 1..Len(added) /\ added[k] = taken[first]
    BY <1>6, <2>7 DEF PicksAt
  <2> QED
    BY <2>4, <2>8 DEF Ids
<1>12. WelcomeIds(taken) \subseteq Ids(rows \o added)
  BY <1>9, <1>10, <1>11 DEF WelcomeIds
<1> QED
  BY <1>1, <1>2, <1>7, <1>8, <1>9, <1>12

\* The ids that are in the room or on their way in a post of the bridge as it runs now.
Mine == Ids(rows) \cup UNION {WelcomeIds(p.events) : p \in {q \in posts : q.boot = bridge.boot}}

Replayed == LastOf(Parse(Before(file, bridge.read)), REPLAY)

Carried ==
  \A i \in (bridge.start + 1)..bridge.offset :
     Whole(file, i) /\ i + 1 <= bridge.offset /\ ~Refused(file[i].event) =>
       Id(file[i].event) \in Mine

Bridge == [pc : {"off", "replay", "posting", "live"}, boot : Nat, start : Nat, read : Nat,
           offset : Nat, lost : BOOLEAN]
APost == [events : Seq(Nat), replay : BOOLEAN, boot : Nat]

BridgeTyped == bridge \in Bridge /\ posts \subseteq APost /\ rows \in Seq(Nat)

BridgePlaces ==
  /\ bridge.start <= bridge.offset /\ bridge.offset <= Len(file) /\ bridge.read <= Len(file)
  /\ bridge.offset > bridge.start => file[bridge.offset].half = "rest"

BridgeKeeps ==
  ~bridge.lost =>
    /\ bridge.pc \in {"posting", "live"} => WelcomeIds(Replayed) \subseteq Mine
    /\ bridge.pc # "off" => Carried

LEMMA BridgeFields ==
  ASSUME BridgeTyped
  PROVE  /\ bridge.pc \in {"off", "replay", "posting", "live"} /\ bridge.boot \in Nat
         /\ bridge.start \in Nat /\ bridge.read \in Nat /\ bridge.offset \in Nat
         /\ bridge.lost \in BOOLEAN
BY DEF BridgeTyped, Bridge

LEMMA InMine ==
  ASSUME NEW x
  PROVE  x \in Mine <=> \/ x \in Ids(rows)
                        \/ \E p \in posts : p.boot = bridge.boot /\ x \in WelcomeIds(p.events)
BY DEF Mine

LEMMA BridgeInitOK == SlateInit => BridgeTyped /\ BridgePlaces /\ BridgeKeeps
<1> SUFFICES ASSUME SlateInit PROVE BridgeTyped /\ BridgePlaces /\ BridgeKeeps
  OBVIOUS
<1>1. /\ bridge = [pc |-> "off", boot |-> 0, start |-> 0, read |-> 0, offset |-> 0, lost |-> FALSE]
      /\ posts = {} /\ rows = << >> /\ file = << >>
  BY DEF SlateInit, BusInit
<1>2. bridge \in Bridge /\ bridge.pc = "off" /\ bridge.start = 0 /\ bridge.read = 0 /\ bridge.offset = 0
  BY <1>1 DEF Bridge
<1>3. Len(file) = 0 /\ rows \in Seq(Nat)
  BY <1>1
<1> QED
  BY <1>1, <1>2, <1>3 DEF BridgeTyped, BridgePlaces, BridgeKeeps

\* What the file gains later changes nothing of what the bridge has dealt with.
LEMMA BridgeStays ==
  ASSUME BusOK, Grown, BridgeTyped, BridgePlaces, BridgeKeeps, UNCHANGED <<bridge, posts, rows>>
  PROVE  BridgeTyped' /\ BridgePlaces' /\ BridgeKeeps'
<1>1. /\ bridge.start \in Nat /\ bridge.read \in Nat /\ bridge.offset \in Nat
  BY BridgeFields
<1>2. /\ file \in Seq(HalfLine) /\ file' \in Seq(HalfLine)
      /\ Len(file) \in Nat /\ Len(file') \in Nat /\ Len(file) <= Len(file')
      /\ \A i \in 1..Len(file) : file'[i] = file[i]
  BY DEF Grown
<1>3. bridge.start <= bridge.offset /\ bridge.offset <= Len(file) /\ bridge.read <= Len(file)
  BY DEF BridgePlaces
<1>4. BridgeTyped'
  BY DEF BridgeTyped
<1>5. BridgePlaces'
  <2>1. bridge.offset > bridge.start => bridge.offset \in 1..Len(file)
    BY <1>1, <1>2, <1>3
  <2>2. bridge.offset > bridge.start => file'[bridge.offset].half = "rest"
    BY <1>2, <2>1 DEF BridgePlaces
  <2>3. bridge.offset <= Len(file') /\ bridge.read <= Len(file')
    BY <1>1, <1>2, <1>3
  <2> QED
    BY <1>3, <2>2, <2>3 DEF BridgePlaces
<1>6. Mine' = Mine
  BY DEF Mine, Ids, WelcomeIds, Welcome
<1>7. Replayed' = Replayed
  <2>1. \A i \in 1..bridge.read : file'[i] = file[i]
    BY <1>1, <1>2, <1>3
  <2>2. bridge.read <= Len(file')
    BY <1>1, <1>2, <1>3
  <2>3. Before(file', bridge.read) = Before(file, bridge.read)
    BY <1>1, <1>2, <1>3, <2>1, <2>2, SameBefore
  <2>4. bridge'.read = bridge.read
    OBVIOUS
  <2> QED
    BY <2>3, <2>4 DEF Replayed
<1>8. ASSUME Carried PROVE Carried'
  <2> SUFFICES ASSUME NEW i \in (bridge.start + 1)..bridge.offset, Whole(file', i),
                      i + 1 <= bridge.offset, ~Refused(file'[i].event)
               PROVE  Id(file'[i].event) \in Mine
    BY <1>6 DEF Carried
  <2>1. i \in 1..Len(file) /\ i \in 1..bridge.offset
    BY <1>1, <1>2, <1>3
  <2>2. Whole(file, i)
    BY <1>1, <1>3, <2>1, WholeGrown
  <2>3. file'[i] = file[i]
    BY <1>2, <2>1
  <2> QED
    BY <1>8, <2>2, <2>3 DEF Carried
<1>9. BridgeKeeps'
  <2>1. bridge' = bridge
    OBVIOUS
  <2> QED
    BY <1>6, <1>7, <1>8, <2>1 DEF BridgeKeeps, WelcomeIds, Welcome
<1> QED
  BY <1>4, <1>5, <1>9

LEMMA BridgeStartOK ==
  ASSUME BusOK, BridgeTyped, BridgePlaces, BridgeKeeps, BridgeStart
  PROVE  BridgeTyped' /\ BridgePlaces' /\ BridgeKeeps'
<1>1. Len(file) \in Nat /\ file' = file
  BY DEF BusOK, BridgeStart, busVars
<1>2. /\ bridge' = [pc |-> "replay", boot |-> bridge.boot + 1, start |-> Len(file), read |-> 0,
                    offset |-> Len(file), lost |-> FALSE]
      /\ posts' = posts /\ rows' = rows
  BY DEF BridgeStart
<1>3. bridge.boot + 1 \in Nat
  BY BridgeFields
<1>4. BridgeTyped'
  BY <1>1, <1>2, <1>3 DEF BridgeTyped, Bridge
<1>5. BridgePlaces'
  BY <1>1, <1>2 DEF BridgePlaces
<1>6. Carried'
  <2>1. \A i \in (Len(file) + 1)..Len(file) : FALSE
    BY <1>1
  <2> QED
    BY <1>1, <1>2, <2>1 DEF Carried
<1>7. BridgeKeeps'
  BY <1>2, <1>6 DEF BridgeKeeps
<1> QED
  BY <1>4, <1>5, <1>7

LEMMA ReplayOK ==
  ASSUME BusOK, BridgeTyped, BridgePlaces, BridgeKeeps, Replay
  PROVE  BridgeTyped' /\ BridgePlaces' /\ BridgeKeeps'
<1> DEFINE all == LastOf(Parse(file), REPLAY)
<1>1. file \in Seq(HalfLine) /\ Len(file) \in Nat /\ file' = file /\ rows' = rows
  BY DEF BusOK, Replay, busVars
<1>2. all \in Seq(Nat)
  <2>1. Parse(file) \in Seq(Nat)
    BY <1>1, ParseFacts DEF ParsedAt
  <2> QED
    BY <2>1, SlateAssumption, LastOfFacts
<1>3. bridge.pc = "replay"
  BY DEF Replay
<1>4. \/ /\ all = << >> /\ posts' = posts
         /\ bridge' = [bridge EXCEPT !.pc = "live", !.read = Len(file)]
      \/ /\ posts' = posts \cup {Post(all, TRUE)}
         /\ bridge' = [bridge EXCEPT !.pc = "posting", !.read = Len(file)]
  BY DEF Replay
<1> HIDE DEF all
<1>5. /\ bridge'.pc \in {"posting", "live"} /\ bridge'.boot = bridge.boot /\ bridge'.start = bridge.start
      /\ bridge'.read = Len(file) /\ bridge'.offset = bridge.offset /\ bridge'.lost = bridge.lost
  BY <1>4 DEF BridgeTyped, Bridge
<1>6. bridge' \in Bridge
  BY <1>1, <1>4 DEF BridgeTyped, Bridge
<1>7. Post(all, TRUE) \in APost /\ Post(all, TRUE).events = all /\ Post(all, TRUE).boot = bridge.boot
  BY <1>2, BridgeFields DEF Post, APost
<1>8. BridgeTyped'
  BY <1>1, <1>4, <1>6, <1>7 DEF BridgeTyped
<1>9. BridgePlaces'
  BY <1>1, <1>5 DEF BridgePlaces
<1>10. posts \subseteq posts'
  BY <1>4
<1>11. Mine \subseteq Mine'
  <2> SUFFICES ASSUME NEW x \in Mine PROVE x \in Mine'
    OBVIOUS
  <2>1. x \in Ids(rows) \/ \E p \in posts : p.boot = bridge.boot /\ x \in WelcomeIds(p.events)
    BY InMine
  <2> QED
    BY <1>1, <1>5, <1>10, <2>1 DEF Mine, Ids, WelcomeIds, Welcome
<1>12. WelcomeIds(all) \subseteq Mine'
  <2>1. CASE all = << >>
    <3>1. Len(all) = 0
      BY <2>1
    <3>2. WelcomeIds(all) = {}
      BY <3>1 DEF WelcomeIds, Welcome
    <3> QED
      BY <3>2
  <2>2. CASE Post(all, TRUE) \in posts'
    BY <1>5, <1>7, <2>2 DEF Mine
  <2> QED
    BY <1>4, <2>1, <2>2
<1>13. Replayed' = all
  <2>1. Before(file, Len(file)) = file
    BY <1>1, AllBefore
  <2>2. Replayed' = LastOf(Parse(Before(file, Len(file))), REPLAY)
    BY <1>1, <1>5 DEF Replayed
  <2> QED
    BY <2>1, <2>2 DEF all
<1>14. WelcomeIds(Replayed)' \subseteq Mine'
  BY <1>12, <1>13 DEF WelcomeIds, Welcome
<1>15. ASSUME Carried PROVE Carried'
  BY <1>1, <1>5, <1>11, <1>15 DEF Carried
<1>16. BridgeKeeps'
  BY <1>3, <1>5, <1>14, <1>15 DEF BridgeKeeps
<1> QED
  BY <1>8, <1>9, <1>16

LEMMA TickOK ==
  ASSUME BusOK, BridgeTyped, BridgePlaces, BridgeKeeps, Tick
  PROVE  BridgeTyped' /\ BridgePlaces' /\ BridgeKeeps'
<1> DEFINE o == bridge.offset
           text == After(file, o)
           c == Cut(text)
           b == Before(text, c)
           events == Parse(b)
<1>1. file \in Seq(HalfLine) /\ Len(file) \in Nat /\ file' = file /\ rows' = rows
  BY DEF BusOK, Tick, busVars
<1>2. bridge.pc = "live" /\ c > 0 /\ bridge' = [bridge EXCEPT !.offset = @ + c]
  BY DEF Tick, WholeLines
<1>3. posts' = IF events = << >> THEN posts ELSE posts \cup {Post(events, FALSE)}
  BY DEF Tick, WholeLines
<1>4. /\ o \in Nat /\ bridge.start \in Nat /\ bridge.read \in Nat /\ bridge.boot \in Nat
      /\ bridge.start <= o /\ o <= Len(file) /\ bridge.read <= Len(file)
  BY BridgeFields DEF BridgePlaces
<1>5. /\ text \in Seq(HalfLine) /\ Len(text) = Len(file) - o
      /\ \A i \in 1..(Len(file) - o) : text[i] = file[o + i]
  <2>1. o \in 0..Len(file)
    BY <1>1, <1>4
  <2> QED
    BY <1>1, <2>1, AfterFacts
<1> HIDE DEF text
<1>6. /\ c \in 0..Len(text) /\ (c > 0 => text[c].half = "rest")
      /\ \A i \in (c + 1)..Len(text) : text[i].half = "first"
  BY <1>5, CutFacts
<1> HIDE DEF c
<1>7. c \in Nat /\ c <= Len(text) /\ Len(text) \in Nat
  BY <1>5, <1>6
<1>8. b \in Seq(HalfLine) /\ Len(b) = c /\ \A i \in 1..c : b[i] = text[i]
  BY <1>5, <1>6, BeforeFacts
<1> HIDE DEF b
<1>9. PICK q : ParsedAt(q, events, b)
  BY <1>8, ParseFacts
<1>10. events \in Seq(Nat) /\ q \in Seq(Nat) /\ Len(q) = Len(events) /\ Len(events) \in Nat
  BY <1>9 DEF ParsedAt
<1> HIDE DEF events, o
<1>11. /\ bridge'.pc = "live" /\ bridge'.boot = bridge.boot /\ bridge'.start = bridge.start
       /\ bridge'.read = bridge.read /\ bridge'.offset = o + c /\ bridge'.lost = bridge.lost
  BY <1>2 DEF BridgeTyped, Bridge, o
<1>12. o + c \in Nat /\ o + c <= Len(file) /\ o + c > bridge.start
  BY <1>1, <1>2, <1>4, <1>5, <1>7
<1>13. bridge' \in Bridge
  BY <1>2, <1>12 DEF BridgeTyped, Bridge, o
<1>14. /\ Post(events, FALSE) \in APost /\ Post(events, FALSE).events = events
       /\ Post(events, FALSE).boot = bridge.boot
  BY <1>4, <1>10 DEF Post, APost
<1>15. BridgeTyped'
  BY <1>1, <1>3, <1>13, <1>14 DEF BridgeTyped
<1>16. file[o + c].half = "rest"
  <2>1. c \in 1..(Len(file) - o)
    BY <1>2, <1>5, <1>7
  <2> QED
    BY <1>2, <1>5, <1>6, <2>1
<1>17. BridgePlaces'
  <2>1. bridge.start <= o + c
    BY <1>4, <1>12
  <2> QED
    BY <1>1, <1>4, <1>11, <1>12, <1>16, <2>1 DEF BridgePlaces
<1>18. Mine \subseteq Mine'
  <2> SUFFICES ASSUME NEW x \in Mine PROVE x \in Mine'
    OBVIOUS
  <2>1. x \in Ids(rows) \/ \E p \in posts : p.boot = bridge.boot /\ x \in WelcomeIds(p.events)
    BY InMine
  <2>2. posts \subseteq posts'
    BY <1>3
  <2> QED
    BY <1>1, <1>11, <2>1, <2>2 DEF Mine, Ids, WelcomeIds, Welcome
<1>19. WelcomeIds(events) \subseteq Mine'
  <2>1. CASE events = << >>
    <3>1. Len(events) = 0
      BY <2>1
    <3>2. WelcomeIds(events) = {}
      BY <3>1 DEF WelcomeIds, Welcome
    <3> QED
      BY <3>2
  <2>2. CASE events # << >>
    <3>1. Post(events, FALSE) \in posts'
      BY <1>3, <2>2
    <3> QED
      BY <1>11, <1>14, <3>1 DEF Mine
  <2> QED
    BY <2>1, <2>2
<1>20. Replayed' = Replayed
  BY <1>1, <1>11 DEF Replayed
\* A whole line between the two offsets is in the text.
<1>21. ASSUME NEW i \in (o + 1)..(o + c), Whole(file, i), i + 1 <= o + c,
              ~Refused(file[i].event)
       PROVE  Id(file[i].event) \in WelcomeIds(events)
  <2> DEFINE j == i - o
  <2>1. /\ j \in 1..c /\ j + 1 \in 1..c /\ o + j = i /\ o + (j + 1) = i + 1
        /\ (j > 1 => j - 1 \in 1..c /\ i > 1 /\ o + (j - 1) = i - 1)
    BY <1>4, <1>7, <1>21
  <2> HIDE DEF j
  <2>2. \A k \in 1..c : b[k] = file[o + k]
    <3>1. \A k \in 1..c : k \in 1..(Len(file) - o)
      BY <1>5, <1>7
    <3> QED
      BY <1>5, <1>8, <3>1
  <2>3. /\ b[j] = file[i] /\ b[j + 1] = file[i + 1]
        /\ (j > 1 => b[j - 1] = file[i - 1] /\ i > 1)
    BY <2>1, <2>2
  <2>4. j + 1 <= Len(b) /\ j \in 1..Len(b)
    BY <1>7, <1>8, <2>1
  <2>5. Whole(b, j)
    BY <1>21, <2>3, <2>4 DEF Whole
  <2>6. PICK k \in 1..Len(q) : q[k] = j
    BY <1>9, <2>4, <2>5 DEF ParsedAt
  <2>7. events[k] = file[i].event /\ k \in 1..Len(events)
    BY <1>9, <1>10, <2>3, <2>6 DEF ParsedAt
  <2> QED
    BY <1>21, <2>7 DEF WelcomeIds, Welcome
<1>22. ASSUME Carried PROVE Carried'
  <2> SUFFICES ASSUME NEW i \in (bridge.start + 1)..(o + c), Whole(file, i), i + 1 <= o + c,
                      ~Refused(file[i].event)
               PROVE  Id(file[i].event) \in Mine'
    BY <1>1, <1>11 DEF Carried
  <2>1. CASE i + 1 <= o
    <3>1. i \in (bridge.start + 1)..o
      BY <1>4, <2>1
    <3>2. Id(file[i].event) \in Mine
      BY <1>22, <2>1, <3>1 DEF Carried, o
    <3> QED
      BY <1>18, <3>2
  <2>2. CASE i = o
    <3>1. file[o].half = "rest"
      <4>1. o > bridge.start
        BY <1>4, <2>2
      <4> QED
        BY <4>1 DEF BridgePlaces, o
    <3>2. file[i].half = "first"
      <4>1. file[i] = First(file[i].event)
        BY DEF Whole
      <4> QED
        BY <4>1 DEF First
    <3> QED
      BY <2>2, <3>1, <3>2
  <2>3. CASE i > o
    <3>1. i \in (o + 1)..(o + c)
      BY <1>4, <1>7, <2>3
    <3> QED
      BY <1>19, <1>21, <3>1
  <2>4. i \in Int
    BY <1>4, <1>7
  <2> QED
    BY <1>4, <2>1, <2>2, <2>3, <2>4
<1>23. ~bridge.lost => WelcomeIds(Replayed) \subseteq Mine /\ Carried
  BY <1>2 DEF BridgeKeeps
<1>24. WelcomeIds(Replayed)' = WelcomeIds(Replayed)
  BY <1>20 DEF WelcomeIds, Welcome
<1>25. BridgeKeeps'
  BY <1>11, <1>18, <1>22, <1>23, <1>24 DEF BridgeKeeps
<1> QED
  BY <1>15, <1>17, <1>25

\* A bridge that ends, or loses a post of its own, promises nothing more; posts of an
\* earlier process were never counted on.
LEMMA BridgeGives ==
  ASSUME BridgeTyped, BridgePlaces, BridgeKeeps,
         UNCHANGED file, bridge' \in Bridge, posts' \subseteq posts, rows' \in Seq(Nat),
         bridge'.boot = bridge.boot, bridge'.start = bridge.start, bridge'.read = bridge.read,
         bridge'.offset = bridge.offset,
         ~bridge'.lost => ~bridge.lost /\ Mine \subseteq Mine',
         bridge'.pc # "off" => bridge.pc # "off",
         bridge'.pc \in {"posting", "live"} => bridge.pc \in {"posting", "live"}
  PROVE  BridgeTyped' /\ BridgePlaces' /\ BridgeKeeps'
<1>1. BridgeTyped'
  BY DEF BridgeTyped
<1>2. BridgePlaces'
  BY DEF BridgePlaces
<1>3. WelcomeIds(Replayed)' = WelcomeIds(Replayed)
  BY DEF WelcomeIds, Welcome, Replayed
<1>4. ASSUME Carried, ~bridge'.lost PROVE Carried'
  BY <1>4 DEF Carried
<1>5. BridgeKeeps'
  BY <1>3, <1>4 DEF BridgeKeeps
<1> QED
  BY <1>1, <1>2, <1>5

LEMMA BridgeDiesOK ==
  ASSUME BridgeTyped, BridgePlaces, BridgeKeeps, BridgeDies
  PROVE  BridgeTyped' /\ BridgePlaces' /\ BridgeKeeps'
<1>1. bridge' = [bridge EXCEPT !.pc = "off"] /\ posts' = posts /\ rows' = rows /\ file' = file
  BY DEF BridgeDies, busVars
<1>2. bridge \in Bridge /\ posts \subseteq APost /\ rows \in Seq(Nat)
  BY DEF BridgeTyped
<1>3. /\ bridge' \in Bridge /\ bridge'.pc = "off" /\ bridge'.boot = bridge.boot
      /\ bridge'.start = bridge.start /\ bridge'.read = bridge.read
      /\ bridge'.offset = bridge.offset /\ bridge'.lost = bridge.lost
  BY <1>1, <1>2 DEF Bridge
<1>4. Mine' = Mine
  BY <1>1, <1>3 DEF Mine, Ids, WelcomeIds, Welcome
<1> QED
  BY <1>1, <1>2, <1>3, <1>4, BridgeGives

\* What an answer changes of the bridge.
LEMMA AnsweredFacts ==
  ASSUME BridgeTyped, NEW p, NEW ok \in BOOLEAN, NEW l \in BOOLEAN,
         bridge' = [Answered(p, ok) EXCEPT !.lost = @ \/ l]
  PROVE  /\ bridge' \in Bridge /\ bridge'.boot = bridge.boot
         /\ bridge'.start = bridge.start /\ bridge'.read = bridge.read
         /\ bridge'.offset = bridge.offset /\ bridge'.lost = (bridge.lost \/ l)
         /\ bridge'.pc # "off" => bridge.pc # "off"
         /\ bridge'.pc \in {"posting", "live"} => bridge.pc \in {"posting", "live"}
<1> DEFINE pc == IF ~(bridge.pc = "posting" /\ p.replay /\ p.boot = bridge.boot) THEN bridge.pc
                 ELSE IF ok THEN "live" ELSE "off"
<1>1. Answered(p, ok) = [bridge EXCEPT !.pc = pc]
  BY DEF Answered
<1>2. bridge \in Bridge
  BY DEF BridgeTyped
<1>3. /\ pc \in {"off", "replay", "posting", "live"} /\ (pc # "off" => bridge.pc # "off")
      /\ pc \in {"posting", "live"} => bridge.pc \in {"posting", "live"}
  BY <1>2 DEF Bridge
<1> HIDE DEF pc
<1>4. bridge' = [[bridge EXCEPT !.pc = pc] EXCEPT !.lost = @ \/ l]
  BY <1>1
<1>5. /\ bridge'.pc = pc /\ bridge'.boot = bridge.boot
      /\ bridge'.start = bridge.start /\ bridge'.read = bridge.read
      /\ bridge'.offset = bridge.offset /\ bridge'.lost = (bridge.lost \/ l)
  BY <1>2, <1>4 DEF Bridge
<1>6. bridge' \in Bridge
  BY <1>2, <1>3, <1>4 DEF Bridge
<1> QED
  BY <1>3, <1>5, <1>6

LEMMA PostLostOK ==
  ASSUME BridgeTyped, BridgePlaces, BridgeKeeps, NEW p \in posts, PostLost(p)
  PROVE  BridgeTyped' /\ BridgePlaces' /\ BridgeKeeps'
<1>1. /\ posts' = posts \ {p} /\ rows' = rows /\ file' = file
      /\ bridge' = [Answered(p, FALSE) EXCEPT !.lost = @ \/ p.boot = bridge.boot]
  BY DEF PostLost, busVars
<1>2. PICK l \in BOOLEAN : l = (p.boot = bridge.boot)
  OBVIOUS
<1>3. bridge' = [Answered(p, FALSE) EXCEPT !.lost = @ \/ l]
  BY <1>1, <1>2
<1>4. /\ bridge' \in Bridge /\ bridge'.boot = bridge.boot
      /\ bridge'.start = bridge.start /\ bridge'.read = bridge.read
      /\ bridge'.offset = bridge.offset /\ bridge'.lost = (bridge.lost \/ l)
      /\ bridge'.pc # "off" => bridge.pc # "off"
      /\ bridge'.pc \in {"posting", "live"} => bridge.pc \in {"posting", "live"}
  BY <1>3, AnsweredFacts
<1>5. ASSUME ~bridge'.lost PROVE ~bridge.lost /\ Mine \subseteq Mine'
  <2>1. ~bridge.lost /\ p.boot # bridge.boot
    BY <1>2, <1>4, <1>5
  <2> SUFFICES ASSUME NEW x \in Mine PROVE x \in Mine'
    BY <2>1
  <2>2. x \in Ids(rows) \/ \E q \in posts : q.boot = bridge.boot /\ x \in WelcomeIds(q.events)
    BY InMine
  <2>3. x \in Ids(rows) \/ \E q \in posts' : q.boot = bridge'.boot /\ x \in WelcomeIds(q.events)
    BY <1>1, <1>4, <2>1, <2>2
  <2>4. x \in Mine' <=> \/ x \in Ids(rows)'
                      \/ \E q \in posts' : q.boot = bridge'.boot /\ x \in WelcomeIds(q.events)
    BY DEF Mine, Ids, WelcomeIds, Welcome
  <2>5. Ids(rows)' = Ids(rows)
    BY <1>1 DEF Ids
  <2> QED
    BY <2>3, <2>4, <2>5
<1>6. rows \in Seq(Nat) /\ posts' \subseteq posts
  BY <1>1 DEF BridgeTyped
<1> QED
  BY <1>1, <1>4, <1>5, <1>6, BridgeGives

\* The rows of a post that fails in its middle are those of its first events.
LEMMA FailedStoredFacts ==
  ASSUME BridgeTyped, NEW p \in posts,
         NEW n \in 0..(Len(p.events) - 1), rows' = Stored(Before(p.events, n))
  PROVE  rows' \in Seq(Nat) /\ Len(rows) <= Len(rows') /\ Ids(rows) \subseteq Ids(rows')
<1>1. p.events \in Seq(Nat) /\ rows \in Seq(Nat)
  BY DEF BridgeTyped, APost
<1>2. n \in 0..Len(p.events)
  BY <1>1
<1>3. Before(p.events, n) \in Seq(Nat)
  BY <1>1, <1>2, BeforeFacts
<1> QED
  BY <1>1, <1>3, StoredFacts

LEMMA PostFailsOK ==
  ASSUME BridgeTyped, BridgePlaces, BridgeKeeps, NEW p \in posts, PostFails(p)
  PROVE  BridgeTyped' /\ BridgePlaces' /\ BridgeKeeps'
<1>1. /\ posts' = posts \ {p} /\ file' = file
      /\ bridge' = [Answered(p, FALSE) EXCEPT !.lost = @ \/ p.boot = bridge.boot]
      /\ \E n \in 0..(Len(p.events) - 1) : rows' = Stored(Before(p.events, n))
  BY DEF PostFails, busVars
<1>2. PICK l \in BOOLEAN : l = (p.boot = bridge.boot)
  OBVIOUS
<1>3. bridge' = [Answered(p, FALSE) EXCEPT !.lost = @ \/ l]
  BY <1>1, <1>2
<1>4. /\ bridge' \in Bridge /\ bridge'.boot = bridge.boot
      /\ bridge'.start = bridge.start /\ bridge'.read = bridge.read
      /\ bridge'.offset = bridge.offset /\ bridge'.lost = (bridge.lost \/ l)
      /\ bridge'.pc # "off" => bridge.pc # "off"
      /\ bridge'.pc \in {"posting", "live"} => bridge.pc \in {"posting", "live"}
  BY <1>3, AnsweredFacts
<1>5. rows' \in Seq(Nat) /\ Ids(rows) \subseteq Ids(rows')
  BY <1>1, FailedStoredFacts
<1>6. ASSUME ~bridge'.lost PROVE ~bridge.lost /\ Mine \subseteq Mine'
  <2>1. ~bridge.lost /\ p.boot # bridge.boot
    BY <1>2, <1>4, <1>6
  <2> SUFFICES ASSUME NEW x \in Mine PROVE x \in Mine'
    BY <2>1
  <2>2. x \in Ids(rows) \/ \E q \in posts : q.boot = bridge.boot /\ x \in WelcomeIds(q.events)
    BY InMine
  <2>3. x \in Ids(rows') \/ \E q \in posts' : q.boot = bridge'.boot /\ x \in WelcomeIds(q.events)
    BY <1>1, <1>4, <1>5, <2>1, <2>2
  <2> QED
    BY <2>3 DEF Mine, Ids, WelcomeIds, Welcome
<1>7. posts' \subseteq posts
  BY <1>1
<1> QED
  BY <1>1, <1>4, <1>5, <1>6, <1>7, BridgeGives

LEMMA PostArrivesOK ==
  ASSUME BridgeTyped, BridgePlaces, BridgeKeeps, NEW p \in posts, PostArrives(p)
  PROVE  BridgeTyped' /\ BridgePlaces' /\ BridgeKeeps'
<1>1. /\ posts' = posts \ {p} /\ rows' = Stored(p.events) /\ file' = file
      /\ \E ok \in BOOLEAN :
           bridge' = [Answered(p, ok) EXCEPT
                        !.lost = @ \/ (p.boot = bridge.boot /\ Len(p.events) > MaxPost)]
  BY DEF PostArrives, busVars
<1>2. PICK l \in BOOLEAN : l = (p.boot = bridge.boot /\ Len(p.events) > MaxPost)
  OBVIOUS
<1>3. PICK ok \in BOOLEAN : bridge' = [Answered(p, ok) EXCEPT !.lost = @ \/ l]
  BY <1>1, <1>2
<1>4. /\ bridge' \in Bridge /\ bridge'.boot = bridge.boot
      /\ bridge'.start = bridge.start /\ bridge'.read = bridge.read
      /\ bridge'.offset = bridge.offset /\ bridge'.lost = (bridge.lost \/ l)
      /\ bridge'.pc # "off" => bridge.pc # "off"
      /\ bridge'.pc \in {"posting", "live"} => bridge.pc \in {"posting", "live"}
  BY <1>3, AnsweredFacts
<1>5. p.events \in Seq(Nat) /\ rows \in Seq(Nat) /\ Len(p.events) \in Nat /\ MaxPost \in Nat
  BY SlateAssumption DEF BridgeTyped, APost
<1>6. /\ rows' \in Seq(Nat) /\ Ids(rows) \subseteq Ids(rows')
      /\ Len(p.events) <= MaxPost => WelcomeIds(p.events) \subseteq Ids(rows')
  BY <1>1, <1>5, StoredFacts
<1>7. ASSUME ~bridge'.lost PROVE ~bridge.lost /\ Mine \subseteq Mine'
  <2>1. ~bridge.lost /\ (p.boot = bridge.boot => Len(p.events) <= MaxPost)
    <3>1. bridge.lost \in BOOLEAN
      BY BridgeFields
    <3>2. ~bridge.lost /\ ~l
      BY <1>4, <1>7, <3>1, Zenon
    <3>3. ~(p.boot = bridge.boot /\ Len(p.events) > MaxPost)
      BY <1>2, <3>2, Zenon
    <3> QED
      BY <1>5, <3>2, <3>3
  <2> SUFFICES ASSUME NEW x \in Mine PROVE x \in Mine'
    BY <2>1
  <2>2. x \in Ids(rows) \/ \E q \in posts : q.boot = bridge.boot /\ x \in WelcomeIds(q.events)
    BY InMine
  <2>3. x \in Ids(rows') \/ \E q \in posts' : q.boot = bridge'.boot /\ x \in WelcomeIds(q.events)
    BY <1>1, <1>4, <1>6, <2>1, <2>2
  <2> QED
    BY <2>3 DEF Mine, Ids, WelcomeIds, Welcome
<1>8. posts' \subseteq posts
  BY <1>1
<1> QED
  BY <1>1, <1>4, <1>6, <1>7, <1>8, BridgeGives

BridgeOK == BridgeTyped /\ BridgePlaces /\ BridgeKeeps

LEMMA BridgeStep ==
  ASSUME BusOK, BridgeOK, [SlateNext]_slateVars
  PROVE  BridgeOK'
<1>1. CASE UNCHANGED <<bridge, posts, rows>>
  <2>1. Grown
    BY SlateMovesBus, BusStep
  <2> QED
    BY <1>1, <2>1, BridgeStays DEF BridgeOK
<1>2. CASE BridgeStart
  BY <1>2, BridgeStartOK DEF BridgeOK
<1>3. CASE Replay
  BY <1>3, ReplayOK DEF BridgeOK
<1>4. CASE Tick
  BY <1>4, TickOK DEF BridgeOK
<1>5. CASE BridgeDies
  BY <1>5, BridgeDiesOK DEF BridgeOK
<1>6. ASSUME NEW p \in posts, PostLost(p) PROVE BridgeOK'
  BY <1>6, PostLostOK DEF BridgeOK
<1>7. ASSUME NEW p \in posts, PostArrives(p) PROVE BridgeOK'
  BY <1>7, PostArrivesOK DEF BridgeOK
<1>8. ASSUME NEW p \in posts, PostFails(p) PROVE BridgeOK'
  BY <1>8, PostFailsOK DEF BridgeOK
<1>9. Open \/ Hello \/ Receive \/ Close \/ Poll => UNCHANGED <<bridge, posts, rows>>
  BY DEF Open, Hello, Receive, Close, Poll
<1> QED
  BY <1>1, <1>2, <1>3, <1>4, <1>5, <1>6, <1>7, <1>8, <1>9 DEF SlateNext, slateVars

LEMMA BridgeLoses == BridgeOK => BridgeLosesNothing
<1> SUFFICES ASSUME BridgeOK, bridge.pc = "live", ~bridge.lost PROVE BridgeLosesNothing
  BY DEF BridgeLosesNothing
<1> DEFINE there == Ids(rows) \cup UNION {WelcomeIds(p.events) : p \in posts}
<1>1. WelcomeIds(Replayed) \subseteq Mine /\ Carried
  BY DEF BridgeOK, BridgeKeeps
<1>2. Mine \subseteq there
  BY DEF Mine
<1>3. /\ WelcomeIds(Replayed) \subseteq there
      /\ \A i \in (bridge.start + 1)..bridge.offset :
           Whole(file, i) /\ i + 1 <= bridge.offset /\ ~Refused(file[i].event) =>
             Id(file[i].event) \in there
  BY <1>1, <1>2 DEF Carried
<1> QED
  BY <1>3 DEF BridgeLosesNothing, Replayed

\* What a live bridge passed, and what it replayed when it started, is in the room or on
\* its way there, unless a post of its own was lost: posts that overlap, come back late
\* or out of order, and earlier processes of the bridge, take nothing of it away
\* (bus-bridge's replay and tail, SlateRoom's ingest).
THEOREM BridgeLosesNothingOfItsOwn == SlateSpec => []BridgeLosesNothing
<1>1. SlateInit => BusOK /\ BridgeOK
  BY BusInitOK, BridgeInitOK DEF SlateInit, BridgeOK
<1>2. BusOK /\ BridgeOK /\ [SlateNext]_slateVars => BusOK' /\ BridgeOK'
  BY SlateMovesBus, BusStep, BridgeStep
<1> QED
  BY <1>1, <1>2, BridgeLoses, PTL DEF SlateSpec

-----------------------------------------------------------------------------
(* The page: messages are runs of seqs *)

BaseSeq(n) == IF n > TAIL THEN n - TAIL + 1 ELSE 1
Lower(m) == IF m = << >> THEN 1 ELSE m[1]
Upper(m) == IF m = << >> THEN 0 ELSE m[Len(m)]
IsRun(m) ==
  /\ m \in Seq(Nat) /\ Lower(m) >= 1 /\ Len(m) = Upper(m) - Lower(m) + 1
  /\ \A k \in 1..Len(m) : m[k] = Lower(m) + k - 1

LEMMA RunFacts ==
  ASSUME NEW m, IsRun(m)
  PROVE  /\ Lower(m) \in Nat /\ Upper(m) \in Nat /\ Len(m) \in Nat /\ Lower(m) >= 1
         /\ Lower(m) <= Upper(m) + 1 /\ (m # << >> => Lower(m) <= Upper(m))
         /\ m = << >> => Lower(m) = 1 /\ Upper(m) = 0
         /\ \A k \in 1..Len(m) : m[k] \in Lower(m)..Upper(m)
         /\ \A x \in Lower(m)..Upper(m) : x - Lower(m) + 1 \in 1..Len(m) /\ m[x - Lower(m) + 1] = x
<1>1. m \in Seq(Nat) /\ Len(m) \in Nat
  BY DEF IsRun
<1>2. CASE m = << >>
  <2>1. Lower(m) = 1 /\ Upper(m) = 0 /\ Len(m) = 0
    BY <1>2 DEF Lower, Upper
  <2> QED
    BY <1>2, <2>1
<1>3. CASE m # << >>
  <2>1. Len(m) >= 1 /\ 1 \in 1..Len(m) /\ Len(m) \in 1..Len(m)
    BY <1>1, <1>3, EmptySeq
  <2>2. m[1] \in Nat /\ m[Len(m)] \in Nat /\ Lower(m) = m[1] /\ Upper(m) = m[Len(m)]
    BY <1>1, <1>3, <2>1, ElementOfSeq DEF Lower, Upper
  <2>3. Lower(m) \in Nat /\ Upper(m) \in Nat
    BY <2>2
  <2>4. Lower(m) >= 1 /\ Len(m) = Upper(m) - Lower(m) + 1
    BY DEF IsRun
  <2>5. \A k \in 1..Len(m) : m[k] = Lower(m) + k - 1
    BY DEF IsRun
  <2>6. \A k \in 1..Len(m) : m[k] \in Lower(m)..Upper(m)
    BY <1>1, <2>3, <2>4, <2>5
  <2>7. \A x \in Lower(m)..Upper(m) : x - Lower(m) + 1 \in 1..Len(m)
    BY <1>1, <2>3, <2>4
  <2>8. \A x \in Lower(m)..Upper(m) : m[x - Lower(m) + 1] = x
    <3>1. \A x \in Lower(m)..Upper(m) : Lower(m) + (x - Lower(m) + 1) - 1 = x
      BY <2>3
    <3> QED
      BY <2>5, <2>7, <3>1
  <2> QED
    BY <1>1, <1>3, <2>1, <2>3, <2>4, <2>6, <2>7, <2>8
<1> QED
  BY <1>2, <1>3

\* What a sequence of n numbers that counts from a is as a message.
LEMMA CountIsRun ==
  ASSUME NEW a \in Nat, a >= 1, NEW n \in Nat, n = 0 => a = 1,
         NEW m \in Seq(Nat), Len(m) = n, \A k \in 1..n : m[k] = a + k - 1
  PROVE  IsRun(m) /\ Lower(m) = a /\ Upper(m) = a + n - 1
<1>1. CASE n = 0
  <2>1. m = << >>
    BY <1>1, EmptySeq
  <2>2. Lower(m) = 1 /\ Upper(m) = 0
    BY <2>1 DEF Lower, Upper
  <2> QED
    BY <1>1, <2>2 DEF IsRun
<1>2. CASE n # 0
  <2>1. 1 \in 1..n /\ n \in 1..n /\ m # << >>
    BY <1>2, EmptySeq
  <2>2. m[1] = a /\ m[n] = a + n - 1
    BY <2>1
  <2>3. Lower(m) = a /\ Upper(m) = a + n - 1
    BY <2>1, <2>2 DEF Lower, Upper
  <2> QED
    BY <2>3 DEF IsRun
<1> QED
  BY <1>1, <1>2

LEMMA BaseSeqFacts ==
  ASSUME NEW n \in Nat
  PROVE  /\ BaseSeq(n) \in Nat /\ BaseSeq(n) >= 1 /\ BaseSeq(n) <= n + 1
         /\ \A k \in Nat : n <= k => BaseSeq(n) <= BaseSeq(k)
BY SlateAssumption DEF BaseSeq

LEMMA TailRowsFacts ==
  ASSUME rows \in Seq(Nat)
  PROVE  IsRun(TailRows) /\ Lower(TailRows) = BaseSeq(Len(rows)) /\ Upper(TailRows) = Len(rows)
<1> DEFINE n == Len(rows)
           s == [seq \in 1..n |-> seq]
<1>1. n \in Nat /\ TAIL \in Nat /\ TAIL >= 1
  BY SlateAssumption
<1>2. s \in Seq(Nat) /\ Len(s) = n /\ \A i \in 1..n : s[i] = i
  <2> HIDE DEF n
  <2> QED
    BY <1>1
<1>3. TailRows = IF Len(s) > TAIL THEN After(s, Len(s) - TAIL) ELSE s
  BY DEF TailRows, LastOf
<1> HIDE DEF n, s
<1>4. CASE n > TAIL
  <2>1. n - TAIL \in 0..Len(s)
    BY <1>1, <1>2, <1>4
  <2>2. /\ After(s, n - TAIL) \in Seq(Nat) /\ Len(After(s, n - TAIL)) = Len(s) - (n - TAIL)
        /\ \A i \in 1..(Len(s) - (n - TAIL)) : After(s, n - TAIL)[i] = s[(n - TAIL) + i]
    BY <1>2, <2>1, AfterFacts
  <2>3. Len(s) - (n - TAIL) = TAIL
    BY <1>1, <1>2
  <2>4. \A i \in 1..TAIL : (n - TAIL) + i \in 1..n /\ (n - TAIL) + i = (n - TAIL + 1) + i - 1
    BY <1>1, <1>4
  <2>5. TailRows \in Seq(Nat) /\ Len(TailRows) = TAIL
        /\ \A i \in 1..TAIL : TailRows[i] = (n - TAIL + 1) + i - 1
    BY <1>2, <1>3, <1>4, <2>2, <2>3, <2>4
  <2>6. n - TAIL + 1 \in Nat /\ n - TAIL + 1 >= 1 /\ TAIL # 0 /\ (n - TAIL + 1) + TAIL - 1 = n
    BY <1>1, <1>4
  <2>7. IsRun(TailRows) /\ Lower(TailRows) = n - TAIL + 1 /\ Upper(TailRows) = n
    BY <1>1, <2>5, <2>6, CountIsRun
  <2> QED
    BY <1>4, <2>7 DEF BaseSeq, n
<1>5. CASE ~(n > TAIL)
  <2>1. TailRows = s
    BY <1>2, <1>3, <1>5
  <2>2. \A i \in 1..n : TailRows[i] = 1 + i - 1
    BY <1>2, <2>1
  <2>3. IsRun(TailRows) /\ Lower(TailRows) = 1 /\ Upper(TailRows) = 1 + n - 1
    BY <1>1, <1>2, <2>1, <2>2, CountIsRun
  <2>4. 1 + n - 1 = n
    BY <1>1
  <2> QED
    BY <1>5, <2>3, <2>4 DEF BaseSeq, n
<1> QED
  BY <1>4, <1>5

LEMMA OneIsRun ==
  ASSUME NEW x \in Nat, x >= 1
  PROVE  IsRun(<<x>>) /\ Lower(<<x>>) = x /\ Upper(<<x>>) = x
<1>1. <<x>> \in Seq(Nat) /\ Len(<<x>>) = 1 /\ <<x>>[1] = x
  OBVIOUS
<1>2. PICK m : m = <<x>>
  OBVIOUS
<1>3. m \in Seq(Nat) /\ Len(m) = 1 /\ \A k \in 1..1 : m[k] = x + k - 1
  BY <1>1, <1>2
<1>4. m # << >> /\ m[1] = x
  BY <1>1, <1>2
<1>5. Lower(m) = x /\ Upper(m) = x
  BY <1>3, <1>4 DEF Lower, Upper
<1>6. IsRun(m)
  BY <1>3, <1>5 DEF IsRun
<1> QED
  BY <1>2, <1>5, <1>6

LEMMA PageRun ==
  ASSUME rows \in Seq(Nat), viewer.next \in Nat, viewer.next > 0, viewer.next <= Len(rows),
         Page # << >>
  PROVE  IsRun(Page) /\ Lower(Page) = viewer.next + 1 /\ Upper(Page) <= Len(rows)
<1> DEFINE v == viewer.next
           d == IF Len(rows) > v + TAIL THEN TAIL ELSE Len(rows) - v
<1>1. TAIL \in Nat /\ Len(rows) \in Nat
  BY SlateAssumption
<1>2. d \in Nat /\ v + d <= Len(rows) /\ v \in Nat
  BY <1>1
<1>3. Page = [k \in 1..d |-> v + k]
  BY DEF Page
<1> HIDE DEF d, v
<1>4. Page \in Seq(Nat) /\ Len(Page) = d /\ \A k \in 1..d : Page[k] = (v + 1) + k - 1
  BY <1>2, <1>3
<1>5. d # 0
  BY <1>4, EmptySeq
<1>6. IsRun(Page) /\ Lower(Page) = v + 1 /\ Upper(Page) = (v + 1) + d - 1
  <2>1. v + 1 \in Nat /\ v + 1 >= 1
    BY <1>2
  <2> QED
    BY <1>2, <1>4, <1>5, <2>1, CountIsRun
<1>7. Upper(Page) <= Len(rows)
  BY <1>1, <1>2, <1>6
<1> QED
  BY <1>6, <1>7 DEF v

-----------------------------------------------------------------------------
(* The page: what it shows after it was given a message *)

Shown(shown, next, n) ==
  /\ shown \in Seq(Nat) /\ next \in Nat /\ next <= n /\ Ascends(shown)
  /\ \A k \in 1..Len(shown) : shown[k] \in 1..next
  /\ shown = << >> => next = 0

Covers(shown, lo, next) == \A seq \in lo..next : \E k \in 1..Len(shown) : shown[k] = seq

Unseen(m, shown) == {i \in 1..Len(m) : \A k \in 1..Len(shown) : shown[k] # m[i]}
NextAfter(m, next) == IF m # << >> /\ m[Len(m)] > next THEN m[Len(m)] ELSE next

\* What the page shows after it was given m.
GoesOn(shown, next, lo, m, shown2, next2, n) ==
  /\ next2 \in Nat /\ next <= next2 /\ Upper(m) <= next2
  /\ Shown(shown2, next2, n)
  /\ Lower(m) <= next + 1 => Covers(shown2, lo, next2)
  /\ Lower(m) > next + 1 \/ shown = << >> => Covers(shown2, Lower(m), next2)
  /\ shown # << >> => shown2 # << >> /\ shown2[1] = shown[1]
  /\ shown = << >> /\ shown2 # << >> => shown2[1] = Lower(m)

\* The rows that a message adds are those after the last one the page saw: the others
\* lie between lo and next, which it shows already.
LEMMA AcceptFacts ==
  ASSUME NEW n \in Nat, NEW shown, NEW next, Shown(shown, next, n),
         NEW lo \in Nat, lo >= 1, Covers(shown, lo, next),
         NEW m, IsRun(m), Upper(m) <= n, lo <= Lower(m),
         NEW shown2, shown2 = shown \o Picked(m, Unseen(m, shown)),
         NEW next2, next2 = NextAfter(m, next)
  PROVE  GoesOn(shown, next, lo, m, shown2, next2, n)
<1> DEFINE P == Unseen(m, shown)
           q == Picked(m, P)
<1>1. /\ Lower(m) \in Nat /\ Upper(m) \in Nat /\ Len(m) \in Nat /\ Lower(m) >= 1
      /\ Lower(m) <= Upper(m) + 1 /\ m \in Seq(Nat)
      /\ m = << >> => Lower(m) = 1 /\ Upper(m) = 0
      /\ \A k \in 1..Len(m) : m[k] \in Lower(m)..Upper(m)
      /\ \A x \in Lower(m)..Upper(m) : x - Lower(m) + 1 \in 1..Len(m) /\ m[x - Lower(m) + 1] = x
  BY RunFacts DEF IsRun
<1>2. /\ shown \in Seq(Nat) /\ next \in Nat /\ next <= n /\ Len(shown) \in Nat /\ Ascends(shown)
      /\ \A k \in 1..Len(shown) : shown[k] \in 1..next
      /\ shown = << >> => next = 0
  BY DEF Shown
<1>3. P \in SUBSET (1..Len(m))
  BY DEF Unseen
<1>4. \A i \in 1..Len(m) : i \in P <=> m[i] > next
  <2> TAKE i \in 1..Len(m)
  <2>1. m[i] \in Nat /\ lo <= m[i]
    BY <1>1, SMTT(30)
  <2>2. CASE m[i] > next
    <3>1. \A k \in 1..Len(shown) : shown[k] # m[i]
      BY <1>2, <2>1, <2>2
    <3> QED
      BY <2>2, <3>1 DEF Unseen
  <2>3. CASE ~(m[i] > next)
    <3>1. m[i] \in lo..next
      BY <1>2, <2>1, <2>3
    <3>2. \E k \in 1..Len(shown) : shown[k] = m[i]
      BY <3>1 DEF Covers
    <3> QED
      BY <2>3, <3>2 DEF Unseen
  <2> QED
    BY <2>2, <2>3
<1> HIDE DEF P
<1>5. q \in Seq(Nat) /\ \E p : PicksAt(p, q, m, P, Len(m))
  BY <1>1, <1>3, PickedFacts
<1>6. shown2 = shown \o q
  BY DEF P
<1> HIDE DEF q
<1>7. PICK p : PicksAt(p, q, m, P, Len(m))
  BY <1>5
<1>8. /\ p \in Seq(Nat) /\ Len(p) = Len(q) /\ Ascends(p) /\ Len(q) \in Nat
      /\ \A k \in 1..Len(q) : p[k] \in P /\ q[k] = m[p[k]]
      /\ \A i \in P : \E k \in 1..Len(q) : p[k] = i
  <2>1. \A i \in P : i <= Len(m)
    BY <1>1, <1>3
  <2> QED
    BY <1>5, <1>7, <2>1 DEF PicksAt
<1>9. ASSUME NEW k \in 1..Len(q) PROVE q[k] > next /\ q[k] \in Lower(m)..Upper(m) /\ q[k] \in Nat
  <2>1. p[k] \in 1..Len(m) /\ p[k] \in P /\ q[k] = m[p[k]]
    BY <1>3, <1>8
  <2> QED
    BY <1>1, <1>4, <2>1
\* It goes up as the message does.
<1>10. Ascends(q)
  <2> SUFFICES ASSUME NEW i \in 1..Len(q), NEW j \in 1..Len(q), i < j PROVE q[i] < q[j]
    BY DEF Ascends
  <2>1. p[i] \in 1..Len(m) /\ p[j] \in 1..Len(m) /\ q[i] = m[p[i]] /\ q[j] = m[p[j]]
    BY <1>3, <1>8
  <2>2. p[i] < p[j]
    BY <1>8 DEF Ascends
  <2>3. m[p[i]] = Lower(m) + p[i] - 1 /\ m[p[j]] = Lower(m) + p[j] - 1
    BY <2>1 DEF IsRun
  <2>4. \A a, b \in 1..Len(m) : a < b => Lower(m) + a - 1 < Lower(m) + b - 1
    BY <1>1
  <2>5. Lower(m) + p[i] - 1 < Lower(m) + p[j] - 1
    BY <2>1, <2>2, <2>4
  <2> QED
    BY <2>1, <2>3, <2>5
<1>11. ASSUME NEW x \in Lower(m)..Upper(m), x > next
       PROVE  \E k \in 1..Len(q) : q[k] = x
  <2>1. x - Lower(m) + 1 \in 1..Len(m) /\ m[x - Lower(m) + 1] = x
    BY <1>1
  <2>2. x - Lower(m) + 1 \in P
    BY <1>4, <1>11, <2>1
  <2>3. PICK k \in 1..Len(q) : p[k] = x - Lower(m) + 1
    BY <1>8, <2>2
  <2> QED
    BY <1>8, <2>1, <2>3
<1>12. /\ next2 \in Nat /\ next <= next2 /\ Upper(m) <= next2 /\ next2 <= n
       /\ next2 = IF Upper(m) > next THEN Upper(m) ELSE next
  <2>1. next2 = IF Upper(m) > next THEN Upper(m) ELSE next
    <3>1. CASE m = << >>
      BY <1>1, <1>2, <3>1 DEF NextAfter
    <3>2. CASE m # << >>
      BY <3>2 DEF NextAfter, Upper
    <3> QED
      BY <3>1, <3>2
  <2> QED
    BY <1>1, <1>2, <2>1
<1>13. /\ shown2 \in Seq(Nat) /\ Len(shown2) = Len(shown) + Len(q)
       /\ \A k \in 1..(Len(shown) + Len(q)) :
            shown2[k] = IF k <= Len(shown) THEN shown[k] ELSE q[k - Len(shown)]
  BY <1>2, <1>5, <1>6, ConcatProperties
<1>14. \A k \in 1..Len(shown) : k \in 1..Len(shown2) /\ shown2[k] = shown[k]
  BY <1>2, <1>8, <1>13
<1>15. \A k \in 1..Len(q) : Len(shown) + k \in 1..Len(shown2) /\ shown2[Len(shown) + k] = q[k]
  <2> TAKE k \in 1..Len(q)
  <2>1. /\ Len(shown) + k \in 1..(Len(shown) + Len(q)) /\ ~(Len(shown) + k <= Len(shown))
        /\ (Len(shown) + k) - Len(shown) = k
    BY <1>2, <1>8
  <2> QED
    BY <1>13, <2>1
<1>16. \A k \in 1..Len(shown2) : k \in 1..Len(shown) \/ \E j \in 1..Len(q) : k = Len(shown) + j
  <2> TAKE k \in 1..Len(shown2)
  <2>1. k \in 1..Len(shown) \/ (k - Len(shown) \in 1..Len(q) /\ k = Len(shown) + (k - Len(shown)))
    BY <1>2, <1>8, <1>13
  <2> QED
    BY <2>1
<1>17. ASSUME NEW k \in 1..Len(shown2) PROVE shown2[k] \in 1..next2
  <2>1. CASE k \in 1..Len(shown)
    <3>1. shown2[k] = shown[k] /\ shown[k] \in 1..next
      BY <1>2, <1>14, <2>1
    <3> QED
      BY <1>2, <1>12, <3>1
  <2>2. ASSUME NEW j \in 1..Len(q), k = Len(shown) + j PROVE shown2[k] \in 1..next2
    <3>1. shown2[k] = q[j] /\ q[j] \in Lower(m)..Upper(m)
      BY <1>9, <1>15, <2>2
    <3>2. \A x \in Lower(m)..Upper(m) : x \in 1..next2
      BY <1>1, <1>12, SMTT(30)
    <3> QED
      BY <3>1, <3>2
  <2> QED
    BY <1>16, <2>1, <2>2
<1>18. Ascends(shown2)
  <2> SUFFICES ASSUME NEW i \in 1..Len(shown2), NEW j \in 1..Len(shown2), i < j
               PROVE  shown2[i] < shown2[j]
    BY DEF Ascends
  <2>1. CASE i \in 1..Len(shown) /\ j \in 1..Len(shown)
    BY <1>2, <1>14, <2>1 DEF Ascends
  <2>2. ASSUME i \in 1..Len(shown), NEW b \in 1..Len(q), j = Len(shown) + b
        PROVE  shown2[i] < shown2[j]
    <3>1. shown2[i] \in 1..next /\ shown2[j] = q[b]
      BY <1>2, <1>14, <1>15, <2>2
    <3>2. q[b] > next /\ q[b] \in Nat
      BY <1>9
    <3>3. \A x \in 1..next : \A y \in Nat : y > next => x < y
      BY <1>2
    <3>4. shown2[i] < q[b]
      BY <3>1, <3>2, <3>3
    <3> QED
      BY <3>1, <3>4
  <2>3. ASSUME NEW a \in 1..Len(q), i = Len(shown) + a, NEW b \in 1..Len(q), j = Len(shown) + b
        PROVE  shown2[i] < shown2[j]
    <3>1. a < b
      BY <1>2, <1>8, <2>3
    <3> QED
      BY <1>10, <1>15, <2>3, <3>1 DEF Ascends
  <2>4. ASSUME NEW a \in 1..Len(q), i = Len(shown) + a PROVE ~(j \in 1..Len(shown))
    BY <1>2, <1>8, <2>4
  <2> QED
    BY <1>16, <2>1, <2>2, <2>3, <2>4
<1>19. ASSUME shown2 = << >> PROVE next2 = 0
  <2>1. Len(shown2) = 0
    BY <1>19
  <2>2. Len(shown) = 0 /\ Len(q) = 0
    BY <1>2, <1>8, <1>13, <2>1
  <2>3. shown = << >> /\ next = 0
    BY <1>2, <2>2, EmptySeq
  <2>4. ~(Upper(m) > next)
    <3> SUFFICES ASSUME Upper(m) > next PROVE FALSE
      OBVIOUS
    <3>1. Upper(m) \in Lower(m)..Upper(m)
      BY <1>1, <2>3
    <3>2. \E k \in 1..Len(q) : q[k] = Upper(m)
      BY <1>11, <3>1
    <3> QED
      BY <2>2, <3>2
  <2> QED
    BY <1>12, <2>3, <2>4
<1>20. Shown(shown2, next2, n)
  BY <1>12, <1>13, <1>17, <1>18, <1>19 DEF Shown
<1>21. \A x : (\E k \in 1..Len(shown) : shown[k] = x) => \E k \in 1..Len(shown2) : shown2[k] = x
  BY <1>14
<1>22. ASSUME NEW x \in Lower(m)..Upper(m), x > next
       PROVE  \E k \in 1..Len(shown2) : shown2[k] = x
  <2>1. PICK k \in 1..Len(q) : q[k] = x
    BY <1>11, <1>22
  <2> QED
    BY <1>15, <2>1
<1>23. ASSUME Lower(m) <= next + 1, NEW x \in lo..next2
       PROVE  \E k \in 1..Len(shown2) : shown2[k] = x
  <2>1. CASE x <= next
    <3>1. x \in lo..next
      BY <1>2, <2>1
    <3> QED
      BY <1>21, <3>1 DEF Covers
  <2>2. CASE ~(x <= next)
    <3>1. x \in Lower(m)..Upper(m) /\ x > next
      BY <1>1, <1>2, <1>12, <1>23, <2>2
    <3> QED
      BY <1>22, <3>1
  <2> QED
    BY <2>1, <2>2
<1>24. ASSUME Lower(m) > next + 1 \/ shown = << >>, NEW x \in Lower(m)..next2
       PROVE  \E k \in 1..Len(shown2) : shown2[k] = x
  <2>1. x > next
    BY <1>1, <1>2, <1>24
  <2>2. x \in Lower(m)..Upper(m)
    BY <1>1, <1>2, <1>12, <2>1
  <2> QED
    BY <1>22, <2>1, <2>2
<1>25. ASSUME shown # << >> PROVE shown2 # << >> /\ shown2[1] = shown[1]
  <2>1. Len(shown) >= 1 /\ 1 \in 1..Len(shown)
    BY <1>2, <1>25, EmptySeq
  <2>2. 1 \in 1..Len(shown2)
    BY <1>14, <2>1
  <2>3. shown2 # << >>
    BY <1>13, <2>2, EmptySeq
  <2> QED
    BY <1>14, <2>1, <2>3
<1>26. ASSUME shown = << >>, shown2 # << >> PROVE shown2[1] = Lower(m)
  <2>1. next = 0 /\ Len(shown) = 0
    BY <1>2, <1>26, EmptySeq
  <2>2. Len(shown2) >= 1 /\ Len(q) >= 1 /\ 1 \in 1..Len(q)
    BY <1>8, <1>13, <1>26, <2>1, EmptySeq
  <2>3. shown2[1] = q[1]
    <3>1. Len(shown) + 1 = 1
      BY <2>1
    <3> QED
      BY <1>15, <2>2, <3>1
  <2>4. q[1] \in Lower(m)..Upper(m)
    BY <1>9, <2>2
  <2>5. Lower(m) \in Lower(m)..Upper(m) /\ Lower(m) > next
    BY <1>1, <2>1, <2>4, SMTT(30)
  <2>6. PICK k \in 1..Len(q) : q[k] = Lower(m)
    BY <1>11, <2>5
  <2>7. k = 1
    <3> SUFFICES ASSUME k # 1 PROVE FALSE
      OBVIOUS
    <3>1. 1 < k
      BY <1>8
    <3>2. q[1] < q[k]
      BY <1>10, <2>2, <3>1 DEF Ascends
    <3> QED
      BY <1>1, <2>4, <2>6, <3>2
  <2> QED
    BY <2>3, <2>6, <2>7
<1> QED
  BY <1>12, <1>20, <1>23, <1>24, <1>25, <1>26 DEF Covers, GoesOn

-----------------------------------------------------------------------------
(* The page: what is in its socket *)

Chained(s, n) ==
  /\ s \in Seq(Seq(Nat))
  /\ \A i \in 1..Len(s) : IsRun(s[i]) /\ Upper(s[i]) <= n
  /\ \A i \in 1..Len(s) : i + 1 <= Len(s) => Lower(s[i + 1]) <= Upper(s[i]) + 1

\* With all that is in the socket the page has the last row.
Reaches(s, next, n) == IF s = << >> THEN next = n ELSE Upper(s[Len(s)]) = n

\* The next message leaves a gap only after the page was overrun, or is its first.
Jumps(s, next, overrun, n) ==
  s # << >> /\ Lower(s[1]) > next + 1 =>
    /\ next = 0 \/ overrun
    /\ Lower(s[1]) <= BaseSeq(n)
    /\ \A i \in 1..Len(s) : Lower(s[1]) <= Lower(s[i])

Floor(lo, s) == \A i \in 1..Len(s) : lo <= Lower(s[i])

LEMMA ChainedRuns ==
  ASSUME NEW n \in Nat, NEW s, Chained(s, n), NEW i \in 1..Len(s)
  PROVE  /\ IsRun(s[i]) /\ Upper(s[i]) <= n
         /\ Lower(s[i]) \in Nat /\ Upper(s[i]) \in Nat /\ Lower(s[i]) <= n + 1
         /\ i + 1 <= Len(s) => Lower(s[i + 1]) <= Upper(s[i]) + 1
<1>1. IsRun(s[i]) /\ Upper(s[i]) <= n
  BY DEF Chained
<1>2. Lower(s[i]) \in Nat /\ Upper(s[i]) \in Nat /\ Lower(s[i]) <= Upper(s[i]) + 1
  BY <1>1, RunFacts
<1>3. i + 1 <= Len(s) => Lower(s[i + 1]) <= Upper(s[i]) + 1
  BY DEF Chained
<1> QED
  BY <1>1, <1>2, <1>3

\* More messages, which go on from the last row that the socket has, are appended.
LEMMA PushFacts ==
  ASSUME NEW n \in Nat, NEW n2 \in Nat, n <= n2, NEW s, Chained(s, n),
         NEW next \in Nat, next <= n, Reaches(s, next, n),
         NEW overrun \in BOOLEAN, Jumps(s, next, overrun, n),
         NEW t, Chained(t, n2), t # << >>, Lower(t[1]) <= n + 1, Upper(t[Len(t)]) = n2,
         Floor(BaseSeq(n), t)
  PROVE  /\ Chained(s \o t, n2) /\ Reaches(s \o t, next, n2) /\ Jumps(s \o t, next, overrun, n2)
         /\ \A lo \in Nat : lo <= BaseSeq(n) /\ Floor(lo, s) => Floor(lo, s \o t)
<1> DEFINE u == s \o t
<1>1. s \in Seq(Seq(Nat)) /\ t \in Seq(Seq(Nat)) /\ Len(s) \in Nat /\ Len(t) \in Nat
  BY DEF Chained
<1>2. Len(t) >= 1 /\ 1 \in 1..Len(t) /\ Len(t) \in 1..Len(t)
  BY <1>1, EmptySeq
<1>3. /\ u \in Seq(Seq(Nat)) /\ Len(u) = Len(s) + Len(t)
      /\ \A i \in 1..(Len(s) + Len(t)) : u[i] = IF i <= Len(s) THEN s[i] ELSE t[i - Len(s)]
  BY <1>1, ConcatProperties
<1> HIDE DEF u
<1>4. \A i \in 1..Len(s) : i \in 1..Len(u) /\ u[i] = s[i]
  <2> TAKE i \in 1..Len(s)
  <2>1. i \in 1..(Len(s) + Len(t)) /\ i <= Len(s)
    BY <1>1
  <2> QED
    BY <1>3, <2>1
<1>5. \A i \in 1..Len(t) : Len(s) + i \in 1..Len(u) /\ u[Len(s) + i] = t[i]
  <2> TAKE i \in 1..Len(t)
  <2>1. /\ Len(s) + i \in 1..(Len(s) + Len(t)) /\ ~(Len(s) + i <= Len(s))
        /\ (Len(s) + i) - Len(s) = i
    BY <1>1
  <2> QED
    BY <1>3, <2>1
<1>6. \A i \in 1..Len(u) : i \in 1..Len(s) \/ \E j \in 1..Len(t) : i = Len(s) + j
  <2> TAKE i \in 1..Len(u)
  <2>1. i \in 1..Len(s) \/ (i - Len(s) \in 1..Len(t) /\ i = Len(s) + (i - Len(s)))
    BY <1>1, <1>3
  <2> QED
    BY <2>1
<1>7. \A i \in 1..Len(s) : /\ IsRun(s[i]) /\ Upper(s[i]) <= n /\ Upper(s[i]) <= n2
                           /\ Lower(s[i]) \in Nat /\ Upper(s[i]) \in Nat /\ Lower(s[i]) <= n + 1
  <2>1. \A i \in 1..Len(s) : /\ IsRun(s[i]) /\ Upper(s[i]) <= n
                             /\ Lower(s[i]) \in Nat /\ Upper(s[i]) \in Nat /\ Lower(s[i]) <= n + 1
    BY ChainedRuns
  <2> QED
    BY <2>1
<1>8. \A i \in 1..Len(t) : /\ IsRun(t[i]) /\ Upper(t[i]) <= n2
                           /\ Lower(t[i]) \in Nat /\ Upper(t[i]) \in Nat
  BY ChainedRuns
<1>9. \A i \in 1..Len(u) : IsRun(u[i]) /\ Upper(u[i]) <= n2
  BY <1>4, <1>5, <1>6, <1>7, <1>8
<1>10. u[Len(u)] = t[Len(t)] /\ u # << >>
  <2>1. Len(u) = Len(s) + Len(t) /\ Len(u) # 0
    BY <1>1, <1>2, <1>3
  <2>2. u # << >>
    BY <2>1
  <2> QED
    BY <1>2, <1>5, <2>1, <2>2
<1>11. s # << >> => Upper(s[Len(s)]) = n
  BY DEF Reaches
<1>12. ASSUME NEW i \in 1..Len(u), i + 1 <= Len(u)
       PROVE  Lower(u[i + 1]) <= Upper(u[i]) + 1
  <2>1. CASE i + 1 <= Len(s)
    <3>1. i \in 1..Len(s) /\ i + 1 \in 1..Len(s)
      BY <1>1, <1>3, <2>1
    <3>2. Lower(s[i + 1]) <= Upper(s[i]) + 1
      BY <2>1, <3>1 DEF Chained
    <3> QED
      BY <1>4, <3>1, <3>2
  <2>2. CASE i = Len(s)
    <3>1. i \in 1..Len(s) /\ s # << >> /\ i + 1 = Len(s) + 1
      BY <1>1, <2>2, EmptySeq
    <3>2. u[i] = s[Len(s)] /\ u[i + 1] = t[1]
      BY <1>2, <1>4, <1>5, <2>2, <3>1
    <3>3. Upper(u[i]) = n
      BY <1>11, <3>1, <3>2
    <3> QED
      BY <3>2, <3>3
  <2>3. CASE i > Len(s)
    <3>1. PICK j \in 1..Len(t) : i = Len(s) + j
      <4>1. i - Len(s) \in 1..Len(t) /\ i = Len(s) + (i - Len(s))
        BY <1>1, <1>3, <2>3
      <4> QED
        BY <4>1
    <3>2. j + 1 \in 1..Len(t) /\ j + 1 <= Len(t) /\ i + 1 = Len(s) + (j + 1)
      BY <1>1, <1>3, <1>12, <3>1
    <3>3. u[i] = t[j] /\ u[i + 1] = t[j + 1]
      BY <1>5, <3>1, <3>2
    <3>4. Lower(t[j + 1]) <= Upper(t[j]) + 1
      BY <3>2 DEF Chained
    <3> QED
      BY <3>3, <3>4
  <2> QED
    BY <1>1, <2>1, <2>2, <2>3
<1>13. Chained(u, n2)
  BY <1>3, <1>9, <1>12 DEF Chained
<1>14. Reaches(u, next, n2)
  BY <1>10 DEF Reaches
<1>15. ASSUME NEW lo \in Nat, lo <= BaseSeq(n), Floor(lo, s)
       PROVE  Floor(lo, u)
  <2> SUFFICES ASSUME NEW i \in 1..Len(u) PROVE lo <= Lower(u[i])
    BY DEF Floor
  <2>1. CASE i \in 1..Len(s)
    BY <1>4, <1>15, <2>1 DEF Floor
  <2>2. ASSUME NEW j \in 1..Len(t), i = Len(s) + j PROVE lo <= Lower(u[i])
    <3>1. u[i] = t[j] /\ BaseSeq(n) <= Lower(t[j]) /\ Lower(t[j]) \in Nat /\ BaseSeq(n) \in Nat
      BY <1>5, <1>8, <2>2, BaseSeqFacts DEF Floor
    <3> QED
      BY <1>15, <3>1
  <2> QED
    BY <1>6, <2>1, <2>2
<1>16. Jumps(u, next, overrun, n2)
  <2> SUFFICES ASSUME Lower(u[1]) > next + 1
               PROVE  /\ next = 0 \/ overrun
                      /\ Lower(u[1]) <= BaseSeq(n2)
                      /\ Floor(Lower(u[1]), u)
    BY DEF Jumps, Floor
  <2>1. CASE s = << >>
    <3>1. next = n /\ Len(s) = 0
      BY <2>1 DEF Reaches
    <3>2. u[1] = t[1]
      <4>1. Len(s) + 1 = 1
        BY <3>1
      <4> QED
        BY <1>2, <1>5, <4>1
    <3>3. Lower(t[1]) \in Nat
      BY <1>2, <1>8
    <3> QED
      BY <3>1, <3>2, <3>3
  <2>2. CASE s # << >>
    <3>1. 1 \in 1..Len(s) /\ u[1] = s[1]
      BY <1>1, <1>4, <2>2, EmptySeq
    <3>2. /\ next = 0 \/ overrun
          /\ Lower(s[1]) <= BaseSeq(n)
          /\ Floor(Lower(s[1]), s)
      BY <2>2, <3>1 DEF Jumps, Floor
    <3>3. Lower(s[1]) \in Nat
      BY <1>7, <3>1
    <3>4. BaseSeq(n) <= BaseSeq(n2) /\ BaseSeq(n) \in Nat /\ BaseSeq(n2) \in Nat
      BY BaseSeqFacts
    <3>5. Floor(Lower(s[1]), u)
      BY <1>15, <3>2, <3>3
    <3> QED
      BY <3>1, <3>2, <3>3, <3>4, <3>5
  <2> QED
    BY <2>1, <2>2
<1> QED
  BY <1>13, <1>14, <1>15, <1>16 DEF u

\* The first message is taken out and given to the page.
LEMMA PopFacts ==
  ASSUME NEW n \in Nat, NEW s, Chained(s, n), s # << >>, NEW next, Reaches(s, next, n),
         NEW next2 \in Nat, next2 <= n, Upper(s[1]) <= next2, NEW overrun
  PROVE  /\ Chained(Tail(s), n) /\ Reaches(Tail(s), next2, n)
         /\ Jumps(Tail(s), next2, overrun, n)
         /\ \A lo : Floor(lo, s) => Floor(lo, Tail(s))
<1> DEFINE u == Tail(s)
<1>1. s \in Seq(Seq(Nat)) /\ Len(s) \in Nat /\ Len(s) >= 1
  BY EmptySeq DEF Chained
<1>2. u \in Seq(Seq(Nat)) /\ Len(u) = Len(s) - 1 /\ \A i \in 1..Len(u) : u[i] = s[i + 1]
  BY <1>1
<1> HIDE DEF u
<1>3. \A i \in 1..Len(u) : i + 1 \in 1..Len(s) /\ u[i] = s[i + 1]
  BY <1>1, <1>2
<1>4. \A i \in 1..Len(s) : IsRun(s[i]) /\ Upper(s[i]) <= n /\ Lower(s[i]) \in Nat /\ Upper(s[i]) \in Nat
  BY ChainedRuns
<1>5. \A i \in 1..Len(u) : i + 1 <= Len(u) => Lower(u[i + 1]) <= Upper(u[i]) + 1
  <2> SUFFICES ASSUME NEW i \in 1..Len(u), i + 1 <= Len(u) PROVE Lower(u[i + 1]) <= Upper(u[i]) + 1
    OBVIOUS
  <2>1. i + 1 \in 1..Len(u) /\ i + 1 \in 1..Len(s) /\ (i + 1) + 1 <= Len(s)
    BY <1>1, <1>2
  <2>2. Lower(s[(i + 1) + 1]) <= Upper(s[i + 1]) + 1
    BY <2>1 DEF Chained
  <2> QED
    BY <1>3, <2>1, <2>2
<1>6. Chained(u, n)
  BY <1>2, <1>3, <1>4, <1>5 DEF Chained
<1>7. Upper(s[Len(s)]) = n
  BY DEF Reaches
<1>8. Reaches(u, next2, n)
  <2>1. CASE u = << >>
    <3>1. Len(s) = 1
      <4>1. Len(u) = 0
        BY <2>1
      <4> QED
        BY <1>1, <1>2, <4>1
    <3>2. next2 = n
      BY <1>7, <3>1
    <3> QED
      BY <2>1, <3>2 DEF Reaches
  <2>2. CASE u # << >>
    <3>1. Len(u) \in 1..Len(u) /\ Len(u) + 1 = Len(s)
      BY <1>1, <1>2, <2>2, EmptySeq
    <3>2. u[Len(u)] = s[Len(s)]
      BY <1>3, <3>1
    <3> QED
      BY <1>7, <2>2, <3>2 DEF Reaches
  <2> QED
    BY <2>1, <2>2
<1>9. Jumps(u, next2, overrun, n)
  <2> SUFFICES ASSUME u # << >>, Lower(u[1]) > next2 + 1 PROVE FALSE
    BY DEF Jumps
  <2>1. 1 \in 1..Len(u) /\ 1 \in 1..Len(s) /\ 1 + 1 <= Len(s) /\ 1 + 1 \in 1..Len(s)
    BY <1>1, <1>2, EmptySeq
  <2>2. Lower(s[1 + 1]) <= Upper(s[1]) + 1 /\ u[1] = s[1 + 1]
    BY <1>3, <2>1 DEF Chained
  <2>3. Lower(s[1 + 1]) \in Nat /\ Upper(s[1]) \in Nat
    BY <1>4, <2>1
  <2> QED
    BY <2>2, <2>3
<1>10. \A lo : Floor(lo, s) => Floor(lo, u)
  BY <1>3 DEF Floor
<1> QED
  BY <1>6, <1>8, <1>9, <1>10 DEF u

-----------------------------------------------------------------------------
(* The page: its steps *)

Viewer == [mode : {"off", "open", "poll"}, failures : Nat, next : Nat, shown : Seq(Nat),
           hello : BOOLEAN, overrun : BOOLEAN, unsent : BOOLEAN]

\* From lo on the page shows every row up to next, and it needs nothing before lo any more.
Follows(lo, v, s, n) ==
  /\ lo \in Nat /\ lo >= 1 /\ lo <= v.next + 1 /\ lo <= BaseSeq(n)
  /\ Covers(v.shown, lo, v.next)
  /\ ~v.overrun /\ v.shown # << >> => lo = v.shown[1]
  /\ Floor(lo, s)

PageAt(v, s, n) ==
  /\ v \in Viewer /\ Shown(v.shown, v.next, n) /\ Chained(s, n)
  /\ v.mode # "open" => s = << >>
  /\ v.mode = "open" => Reaches(s, v.next, n)
  /\ Jumps(s, v.next, v.overrun, n)
  /\ \E lo : Follows(lo, v, s, n)

PageOK == PageAt(viewer, sock, Len(rows))

LEMMA NoMessages ==
  ASSUME NEW n \in Nat
  PROVE  Chained(<< >>, n) /\ \A lo : Floor(lo, << >>)
                           /\ \A next, overrun : Jumps(<< >>, next, overrun, n)
<1>1. << >> \in Seq(Seq(Nat)) /\ Len(<< >>) = 0
  OBVIOUS
<1> QED
  BY <1>1 DEF Chained, Floor, Jumps

LEMMA PageInitOK == SlateInit => PageOK
<1> SUFFICES ASSUME SlateInit PROVE PageOK
  OBVIOUS
<1>1. /\ rows = << >> /\ sock = << >>
      /\ viewer \in [mode : {"off", "poll"}, failures : {0}, next : {0}, shown : {<< >>},
                     hello : {FALSE}, overrun : {FALSE}, unsent : {FALSE}]
  BY DEF SlateInit
<1>2. /\ viewer \in Viewer /\ viewer.mode # "open" /\ viewer.next = 0 /\ viewer.shown = << >>
      /\ Len(rows) = 0 /\ viewer.overrun = FALSE
  <2>1. /\ viewer.mode \in {"off", "poll"} /\ viewer.next = 0 /\ viewer.shown = << >>
        /\ viewer.overrun = FALSE /\ viewer.failures = 0 /\ viewer.hello = FALSE
        /\ viewer.unsent = FALSE
    BY <1>1
  <2>2. viewer = [mode |-> viewer.mode, failures |-> viewer.failures, next |-> viewer.next,
                  shown |-> viewer.shown, hello |-> viewer.hello, overrun |-> viewer.overrun,
                  unsent |-> viewer.unsent]
    BY <1>1
  <2>3. viewer \in Viewer
    <3>1. << >> \in Seq(Nat)
      OBVIOUS
    <3>2. viewer.mode \in {"off", "open", "poll"}
      BY <2>1
    <3>3. viewer.failures \in Nat /\ viewer.next \in Nat
      BY <2>1
    <3>4. viewer.shown \in Seq(Nat)
      BY <2>1, <3>1
    <3>5. viewer.hello \in BOOLEAN /\ viewer.overrun \in BOOLEAN /\ viewer.unsent \in BOOLEAN
      BY <2>1, Zenon
    <3> QED
      BY <2>2, <3>2, <3>3, <3>4, <3>5 DEF Viewer
  <2>4. Len(rows) = 0
    BY <1>1
  <2> QED
    BY <2>1, <2>3, <2>4
<1>3. Len(<< >>) = 0 /\ << >> \in Seq(Nat)
  OBVIOUS
<1>4. Shown(viewer.shown, viewer.next, 0)
  BY <1>2, <1>3 DEF Shown, Ascends
<1>5. Covers(viewer.shown, 1, viewer.next)
  BY <1>2 DEF Covers
<1>6. BaseSeq(0) >= 1
  BY BaseSeqFacts
<1>7. Follows(1, viewer, sock, 0)
  BY <1>1, <1>2, <1>5, <1>6, NoMessages DEF Follows
<1> QED
  BY <1>1, <1>2, <1>4, <1>7, NoMessages DEF PageOK, PageAt

LEMMA ShownGrows ==
  ASSUME NEW n \in Nat, NEW n2 \in Nat, n <= n2, NEW shown, NEW next, Shown(shown, next, n)
  PROVE  Shown(shown, next, n2)
BY DEF Shown

\* The rows of a post, one message each.
Pushed(n, n2) == [k \in 1..(n2 - n) |-> <<n + k>>]

LEMMA ArrivalFacts ==
  ASSUME NEW n \in Nat, NEW n2 \in Nat, n < n2,
         NEW t, t = Pushed(n, n2)
  PROVE  /\ Chained(t, n2) /\ t # << >> /\ Lower(t[1]) <= n + 1 /\ Upper(t[Len(t)]) = n2
         /\ Floor(BaseSeq(n), t)
<1> DEFINE d == n2 - n
<1>1. d \in Nat /\ d >= 1 /\ n + d = n2
  OBVIOUS
<1>2. \A k \in 1..d : n + k \in Nat /\ n + k >= 1 /\ n + k <= n2
  OBVIOUS
<1>3. \A k \in 1..d : IsRun(<<n + k>>) /\ Lower(<<n + k>>) = n + k /\ Upper(<<n + k>>) = n + k
  BY <1>2, OneIsRun
<1>4. \A k \in 1..d : <<n + k>> \in Seq(Nat)
  BY <1>2
<1>5. t \in Seq(Seq(Nat)) /\ Len(t) = d /\ \A k \in 1..d : t[k] = <<n + k>>
  <2> HIDE DEF d
  <2>1. t = [k \in 1..d |-> <<n + k>>]
    BY DEF d, Pushed
  <2> QED
    BY <1>1, <1>4, <2>1
<1> HIDE DEF d
<1>6. \A k \in 1..d : IsRun(t[k]) /\ Lower(t[k]) = n + k /\ Upper(t[k]) = n + k
  BY <1>3, <1>5
<1>7. \A k \in 1..d : k + 1 <= d => Lower(t[k + 1]) <= Upper(t[k]) + 1
  <2> TAKE k \in 1..d
  <2> HAVE k + 1 <= d
  <2>1. k + 1 \in 1..d
    BY <1>1
  <2>2. Lower(t[k + 1]) = n + (k + 1) /\ Upper(t[k]) = n + k
    BY <1>6, <2>1
  <2> QED
    BY <2>2
<1>8. Chained(t, n2)
  BY <1>2, <1>5, <1>6, <1>7 DEF Chained
<1>9. 1 \in 1..d /\ d \in 1..d
  BY <1>1
<1>10. t # << >>
  <2>1. Len(t) # 0
    BY <1>1, <1>5
  <2> QED
    BY <2>1
<1>11. Lower(t[1]) <= n + 1 /\ Upper(t[Len(t)]) = n2
  <2>1. Lower(t[1]) = n + 1 /\ Upper(t[d]) = n + d
    BY <1>6, <1>9
  <2> QED
    BY <1>1, <1>5, <2>1
<1>12. Floor(BaseSeq(n), t)
  <2>1. BaseSeq(n) \in Nat /\ BaseSeq(n) <= n + 1
    BY BaseSeqFacts
  <2>2. \A k \in 1..d : BaseSeq(n) <= n + k
    BY <2>1
  <2> QED
    BY <1>5, <1>6, <2>2 DEF Floor
<1> QED
  BY <1>8, <1>10, <1>11, <1>12

\* Rows are stored; an open socket gets a message for each.
LEMMA PageArrival ==
  ASSUME NEW n \in Nat, NEW n2 \in Nat, n <= n2, NEW v, NEW s, PageAt(v, s, n),
         NEW s2, s2 = IF v.mode = "open" THEN s \o Pushed(n, n2) ELSE s
  PROVE  PageAt(v, s2, n2)
<1>1. v \in Viewer /\ Shown(v.shown, v.next, n) /\ Chained(s, n) /\ Jumps(s, v.next, v.overrun, n)
  BY DEF PageAt
<1>2. Shown(v.shown, v.next, n2) /\ v.next \in Nat /\ v.next <= n /\ v.overrun \in BOOLEAN
  BY <1>1, ShownGrows DEF Shown, Viewer
<1>3. PICK lo : Follows(lo, v, s, n)
  BY DEF PageAt
<1>4. BaseSeq(n) <= BaseSeq(n2) /\ BaseSeq(n) \in Nat /\ BaseSeq(n2) \in Nat
  BY BaseSeqFacts
<1>5. lo \in Nat /\ lo <= BaseSeq(n2) /\ lo <= BaseSeq(n) /\ Floor(lo, s)
  BY <1>3, <1>4 DEF Follows
<1>6. \A s3 : Floor(lo, s3) => Follows(lo, v, s3, n2)
  BY <1>3, <1>5 DEF Follows
<1>7. CASE v.mode # "open"
  <2>1. s = << >> /\ s2 = << >>
    BY <1>7 DEF PageAt
  <2> QED
    BY <1>1, <1>2, <1>6, <1>7, <2>1, NoMessages DEF PageAt
<1>8. CASE v.mode = "open" /\ n = n2
  <2>1. Pushed(n, n2) = << >>
    BY <1>8 DEF Pushed
  <2>2. s \in Seq(Seq(Nat))
    BY <1>1 DEF Chained
  <2>3. s2 = s
    BY <1>8, <2>1, <2>2, ConcatEmptySeq
  <2> QED
    BY <1>8, <2>3
<1>9. CASE v.mode = "open" /\ n < n2
  <2>1. PICK t : t = Pushed(n, n2)
    OBVIOUS
  <2>2. /\ Chained(t, n2) /\ t # << >> /\ Lower(t[1]) <= n + 1 /\ Upper(t[Len(t)]) = n2
        /\ Floor(BaseSeq(n), t)
    BY <1>9, <2>1, ArrivalFacts
  <2>3. Reaches(s, v.next, n)
    BY <1>9 DEF PageAt
  <2>4. /\ Chained(s \o t, n2) /\ Reaches(s \o t, v.next, n2) /\ Jumps(s \o t, v.next, v.overrun, n2)
        /\ Floor(lo, s \o t)
    BY <1>1, <1>2, <1>5, <2>2, <2>3, PushFacts
  <2>5. s2 = s \o t
    BY <1>9, <2>1
  <2> QED
    BY <1>1, <1>2, <1>6, <1>9, <2>4, <2>5 DEF PageAt
<1> QED
  BY <1>7, <1>8, <1>9

Given(v, m) == [v EXCEPT !.shown = @ \o Picked(m, Unseen(m, v.shown)), !.next = NextAfter(m, @)]

Leaps(v, m, s, n) ==
  Lower(m) > v.next + 1 =>
    (v.next = 0 \/ v.overrun) /\ Lower(m) <= BaseSeq(n) /\ Floor(Lower(m), s)

StillFollows(v, m, v2, s, n) ==
  /\ v2 \in Viewer /\ v2.mode = v.mode /\ v2.overrun = v.overrun
  /\ Shown(v2.shown, v2.next, n)
  /\ v2.next \in Nat /\ v2.next <= n /\ Upper(m) <= v2.next
  /\ \E lo : Follows(lo, v2, s, n)

\* The page is given a message that begins no later than what the socket has after it.
LEMMA PageAccepts ==
  ASSUME NEW n \in Nat, NEW v \in Viewer, Shown(v.shown, v.next, n), NEW s, NEW lo,
         Follows(lo, v, s, n), NEW m, IsRun(m), Upper(m) <= n, lo <= Lower(m),
         Leaps(v, m, s, n), NEW v2, v2 = Given(v, m)
  PROVE  StillFollows(v, m, v2, s, n)
<1> DEFINE shown2 == v.shown \o Picked(m, Unseen(m, v.shown))
           next2 == NextAfter(m, v.next)
<1>1. lo \in Nat /\ lo >= 1 /\ lo <= v.next + 1 /\ lo <= BaseSeq(n) /\ Covers(v.shown, lo, v.next)
      /\ (~v.overrun /\ v.shown # << >> => lo = v.shown[1]) /\ Floor(lo, s)
  BY DEF Follows
<1>2. /\ next2 \in Nat /\ v.next <= next2 /\ Upper(m) <= next2
      /\ Shown(shown2, next2, n)
      /\ Lower(m) <= v.next + 1 => Covers(shown2, lo, next2)
      /\ Lower(m) > v.next + 1 \/ v.shown = << >> => Covers(shown2, Lower(m), next2)
      /\ v.shown # << >> => shown2 # << >> /\ shown2[1] = v.shown[1]
      /\ v.shown = << >> /\ shown2 # << >> => shown2[1] = Lower(m)
  <2>1. shown2 = v.shown \o Picked(m, Unseen(m, v.shown)) /\ next2 = NextAfter(m, v.next)
    OBVIOUS
  <2> HIDE DEF shown2, next2
  <2>2. lo \in Nat /\ lo >= 1 /\ Covers(v.shown, lo, v.next)
    BY <1>1
  <2> QED
    <3>1. GoesOn(v.shown, v.next, lo, m, shown2, next2, n)
      BY <2>1, <2>2, AcceptFacts
    <3> QED
      BY <3>1 DEF GoesOn
<1> HIDE DEF shown2, next2
<1>3. v2 = [v EXCEPT !.shown = shown2, !.next = next2]
  BY DEF shown2, next2, Given
<1>4. /\ v2.mode = v.mode /\ v2.overrun = v.overrun /\ v2.shown = shown2 /\ v2.next = next2
  BY <1>3 DEF Viewer
<1>5. shown2 \in Seq(Nat) /\ next2 <= n
  BY <1>2 DEF Shown
<1>6. v2 \in Viewer
  BY <1>2, <1>3, <1>5 DEF Viewer
<1>7. v.next \in Nat /\ Lower(m) \in Nat /\ Upper(m) \in Nat /\ Lower(m) >= 1
      /\ Lower(m) <= Upper(m) + 1 /\ BaseSeq(n) \in Nat /\ BaseSeq(n) >= 1
  BY RunFacts, BaseSeqFacts DEF Viewer
<1>8. Lower(m) <= next2 + 1 /\ lo <= next2 + 1
  BY <1>1, <1>2, <1>7
<1>9. CASE v.shown = << >>
  <2>1. v.next = 0
    BY <1>9 DEF Shown
  <2>2. Lower(m) <= BaseSeq(n) /\ Floor(Lower(m), s)
    <3>1. CASE Lower(m) > v.next + 1
      BY <3>1 DEF Leaps
    <3>2. CASE ~(Lower(m) > v.next + 1)
      <4>1. Lower(m) = 1 /\ lo = 1
        BY <1>1, <1>7, <2>1, <3>2
      <4> QED
        BY <1>1, <1>7, <4>1
    <3> QED
      BY <3>1, <3>2
  <2>3. Follows(Lower(m), v2, s, n)
    BY <1>2, <1>4, <1>7, <1>8, <1>9, <2>2 DEF Follows
  <2> QED
    BY <1>2, <1>4, <1>5, <1>6, <2>3 DEF StillFollows
<1>10. CASE v.shown # << >> /\ Lower(m) <= v.next + 1
  <2>1. Follows(lo, v2, s, n)
    BY <1>1, <1>2, <1>4, <1>8, <1>10 DEF Follows
  <2> QED
    BY <1>2, <1>4, <1>5, <1>6, <2>1 DEF StillFollows
<1>11. CASE v.shown # << >> /\ Lower(m) > v.next + 1
  <2>1. v.next # 0
    <3>1. Len(v.shown) >= 1 /\ 1 \in 1..Len(v.shown)
      BY <1>11, EmptySeq DEF Shown
    <3>2. v.shown[1] \in 1..v.next
      BY <3>1 DEF Shown
    <3> QED
      BY <3>2
  <2>2. v.overrun /\ Lower(m) <= BaseSeq(n) /\ Floor(Lower(m), s)
    BY <1>11, <2>1 DEF Leaps
  <2>3. Follows(Lower(m), v2, s, n)
    BY <1>2, <1>4, <1>7, <1>8, <1>11, <2>2 DEF Follows
  <2> QED
    BY <1>2, <1>4, <1>5, <1>6, <2>3 DEF StillFollows
<1> QED
  BY <1>7, <1>9, <1>10, <1>11

LEMMA AcceptedIs ==
  ASSUME NEW m
  PROVE  Accepted(m) = Given(viewer, m)
BY DEF Accepted, Given, Unseen, NextAfter

\* A page that is not open and opens a socket gets the last rows.
LEMMA OpenOK ==
  ASSUME rows \in Seq(Nat), PageOK, Open
  PROVE  PageOK'
<1> DEFINE n == Len(rows)
           m == TailRows
           over == viewer.overrun \/ (viewer.next > 0 /\ Len(rows) > viewer.next + TAIL)
<1>1. /\ viewer.mode = "off" /\ sock' = <<m>> /\ rows' = rows
      /\ viewer' = [viewer EXCEPT !.mode = "open", !.hello = FALSE, !.overrun = over]
  BY DEF Open
<1>2. n \in Nat /\ TAIL \in Nat
  BY SlateAssumption
<1>3. IsRun(m) /\ Lower(m) = BaseSeq(n) /\ Upper(m) = n
  BY TailRowsFacts
<1>4. viewer \in Viewer /\ Shown(viewer.shown, viewer.next, n) /\ viewer.next \in Nat /\ viewer.next <= n
  BY DEF PageOK, PageAt, Shown
<1>5. PICK lo : Follows(lo, viewer, sock, n)
  BY DEF PageOK, PageAt
<1>6. over \in BOOLEAN /\ (viewer.overrun => over)
       /\ (viewer.next > 0 /\ n > viewer.next + TAIL => over)
  OBVIOUS
<1> HIDE DEF over, m
<1>7. /\ viewer' \in Viewer /\ viewer'.mode = "open" /\ viewer'.overrun = over
      /\ viewer'.next = viewer.next /\ viewer'.shown = viewer.shown
  BY <1>1, <1>4, <1>6 DEF Viewer
<1>8. Len(<<m>>) = 1 /\ <<m>>[1] = m /\ <<m>> # << >> /\ <<m>> \in Seq(Seq(Nat))
  BY <1>3 DEF IsRun
<1> HIDE DEF n
<1>9. PICK s : s = <<m>>
  OBVIOUS
<1>10. Len(s) = 1 /\ s[1] = m /\ s # << >> /\ s \in Seq(Seq(Nat))
  BY <1>8, <1>9
<1>11. Chained(s, n)
  <2>1. \A i \in 1..Len(s) : IsRun(s[i]) /\ Upper(s[i]) <= n
    BY <1>2, <1>3, <1>10
  <2>2. \A i \in 1..Len(s) : ~(i + 1 <= Len(s))
    BY <1>10
  <2> QED
    BY <1>10, <2>1, <2>2 DEF Chained
<1>12. Reaches(s, viewer.next, n)
  BY <1>3, <1>10 DEF Reaches
<1>13. \A x \in Nat : x <= Lower(m) => Floor(x, s)
  BY <1>10 DEF Floor
<1>14. BaseSeq(n) \in Nat
  BY <1>2, BaseSeqFacts
<1>15. Jumps(s, viewer.next, over, n)
  <2> SUFFICES ASSUME Lower(m) > viewer.next + 1
               PROVE  (viewer.next = 0 \/ over) /\ Lower(m) <= BaseSeq(n) /\ Floor(Lower(m), s)
    BY <1>10 DEF Jumps, Floor
  <2>1. Lower(m) <= BaseSeq(n) /\ Floor(Lower(m), s)
    BY <1>3, <1>13, <1>14
  <2>2. n > viewer.next + TAIL
    <3>1. BaseSeq(n) > viewer.next + 1
      BY <1>3
    <3>2. n > TAIL /\ n - TAIL + 1 > viewer.next + 1
      BY <1>2, <1>4, <3>1 DEF BaseSeq
    <3> QED
      BY <1>2, <1>4, <3>2
  <2>3. viewer.next = 0 \/ viewer.next > 0
    BY <1>4
  <2>4. viewer.next = 0 \/ over
    BY <1>6, <2>2, <2>3, Zenon
  <2> QED
    BY <2>1, <2>4
<1>16. Follows(lo, viewer', s, n)
  <2>1. lo \in Nat /\ lo <= BaseSeq(n)
    BY <1>5 DEF Follows
  <2>2. Floor(lo, s)
    BY <1>3, <1>13, <2>1
  <2>3. /\ lo >= 1 /\ lo <= viewer'.next + 1 /\ Covers(viewer'.shown, lo, viewer'.next)
        /\ (~viewer.overrun /\ viewer'.shown # << >> => lo = viewer'.shown[1])
    BY <1>5, <1>7 DEF Follows
  <2>4. ~viewer'.overrun => ~viewer.overrun
    BY <1>6, <1>7
  <2> QED
    BY <2>1, <2>2, <2>3, <2>4 DEF Follows
<1>17. PageAt(viewer', s, n)
  BY <1>4, <1>7, <1>11, <1>12, <1>15, <1>16 DEF PageAt
<1>18. Len(rows') = n /\ sock' = s
  BY <1>1, <1>9 DEF n
<1> QED
  BY <1>17, <1>18 DEF PageOK

\* The room answers the hello with the last rows once more.
LEMMA HelloOK ==
  ASSUME rows \in Seq(Nat), PageOK, Hello
  PROVE  PageOK'
<1> DEFINE n == Len(rows)
           m == TailRows
<1>1. /\ viewer.mode = "open" /\ sock' = Append(sock, m) /\ rows' = rows
      /\ viewer' = [viewer EXCEPT !.hello = TRUE]
  BY DEF Hello
<1>2. n \in Nat
  OBVIOUS
<1>3. IsRun(m) /\ Lower(m) = BaseSeq(n) /\ Upper(m) = n
  BY TailRowsFacts
<1> HIDE DEF m
<1>4. /\ viewer \in Viewer /\ Shown(viewer.shown, viewer.next, n) /\ viewer.next \in Nat
      /\ viewer.next <= n /\ viewer.overrun \in BOOLEAN
  BY DEF PageOK, PageAt, Shown, Viewer
<1>5. /\ Chained(sock, n) /\ Reaches(sock, viewer.next, n)
      /\ Jumps(sock, viewer.next, viewer.overrun, n)
  BY <1>1 DEF PageOK, PageAt
<1>6. PICK lo : Follows(lo, viewer, sock, n)
  BY DEF PageOK, PageAt
<1>7. /\ viewer' \in Viewer /\ viewer'.mode = "open" /\ viewer'.overrun = viewer.overrun
      /\ viewer'.next = viewer.next /\ viewer'.shown = viewer.shown
  BY <1>1, <1>4 DEF Viewer
<1> HIDE DEF n
<1>8. PICK t : t = <<m>>
  OBVIOUS
<1>9. Len(t) = 1 /\ t[1] = m /\ t # << >> /\ t \in Seq(Seq(Nat))
  BY <1>3, <1>8 DEF IsRun
<1>10. Chained(t, n)
  <2>1. \A i \in 1..Len(t) : IsRun(t[i]) /\ Upper(t[i]) <= n
    BY <1>2, <1>3, <1>9
  <2>2. \A i \in 1..Len(t) : ~(i + 1 <= Len(t))
    BY <1>9
  <2> QED
    BY <1>9, <2>1, <2>2 DEF Chained
<1>11. BaseSeq(n) \in Nat /\ BaseSeq(n) <= n + 1
  BY <1>2, BaseSeqFacts
<1>12. Lower(t[1]) <= n + 1 /\ Upper(t[Len(t)]) = n /\ Floor(BaseSeq(n), t)
  BY <1>3, <1>9, <1>11 DEF Floor
<1>13. n <= n
  BY <1>2
<1>14. /\ Chained(sock \o t, n) /\ Reaches(sock \o t, viewer.next, n)
       /\ Jumps(sock \o t, viewer.next, viewer.overrun, n)
       /\ \A x \in Nat : x <= BaseSeq(n) /\ Floor(x, sock) => Floor(x, sock \o t)
  BY <1>2, <1>4, <1>5, <1>9, <1>10, <1>12, <1>13, PushFacts
<1>15. Follows(lo, viewer', sock \o t, n)
  BY <1>6, <1>7, <1>14 DEF Follows
<1>16. PageAt(viewer', sock \o t, n)
  BY <1>4, <1>7, <1>14, <1>15 DEF PageAt
<1>17. sock' = sock \o t
  <2>1. sock \in Seq(Seq(Nat)) /\ m \in Seq(Nat)
    BY <1>3, <1>5 DEF Chained, IsRun
  <2>2. Append(sock, m) = sock \o <<m>>
    BY <2>1
  <2> QED
    BY <1>1, <1>8, <2>2
<1>18. Len(rows') = n
  BY <1>1 DEF n
<1> QED
  BY <1>16, <1>17, <1>18 DEF PageOK

LEMMA ReceiveOK ==
  ASSUME rows \in Seq(Nat), PageOK, Receive
  PROVE  PageOK'
<1> DEFINE n == Len(rows)
<1>1. sock # << >> /\ viewer' = Accepted(Head(sock)) /\ sock' = Tail(sock) /\ rows' = rows
  BY DEF Receive
<1>2. n \in Nat
  OBVIOUS
<1>3. /\ viewer \in Viewer /\ Shown(viewer.shown, viewer.next, n) /\ viewer.next \in Nat
      /\ viewer.next <= n /\ viewer.mode = "open"
  BY <1>1 DEF PageOK, PageAt, Shown
<1>4. /\ Chained(sock, n) /\ Reaches(sock, viewer.next, n)
      /\ Jumps(sock, viewer.next, viewer.overrun, n)
  BY <1>3 DEF PageOK, PageAt
<1>5. PICK lo : Follows(lo, viewer, sock, n)
  BY DEF PageOK, PageAt
<1> HIDE DEF n
<1>6. PICK m : m = sock[1]
  OBVIOUS
<1>7. sock \in Seq(Seq(Nat)) /\ 1 \in 1..Len(sock) /\ Head(sock) = m
  BY <1>1, <1>4, <1>6, EmptySeq DEF Chained
<1>8. IsRun(m) /\ Upper(m) <= n
  BY <1>2, <1>4, <1>6, <1>7, ChainedRuns
<1>9. lo <= Lower(m)
  BY <1>5, <1>6, <1>7 DEF Follows, Floor
<1>10. Leaps(viewer, m, sock, n)
  BY <1>1, <1>4, <1>6 DEF Jumps, Floor, Leaps
<1>11. viewer' = Given(viewer, m)
  BY <1>1, <1>7, AcceptedIs
<1>12. StillFollows(viewer, m, viewer', sock, n)
  BY <1>2, <1>3, <1>5, <1>8, <1>9, <1>10, <1>11, PageAccepts
<1>13. /\ viewer' \in Viewer /\ viewer'.mode = viewer.mode /\ viewer'.overrun = viewer.overrun
       /\ Shown(viewer'.shown, viewer'.next, n)
       /\ viewer'.next \in Nat /\ viewer'.next <= n /\ Upper(m) <= viewer'.next
       /\ \E lo2 : Follows(lo2, viewer', sock, n)
  BY <1>12 DEF StillFollows
<1>14. PICK lo2 : Follows(lo2, viewer', sock, n)
  BY <1>13
<1>15. /\ Chained(Tail(sock), n) /\ Reaches(Tail(sock), viewer'.next, n)
       /\ Jumps(Tail(sock), viewer'.next, viewer'.overrun, n)
       /\ \A x : Floor(x, sock) => Floor(x, Tail(sock))
  BY <1>1, <1>2, <1>4, <1>6, <1>13, PopFacts
<1>16. Follows(lo2, viewer', Tail(sock), n)
  BY <1>14, <1>15 DEF Follows
<1>17. PageAt(viewer', Tail(sock), n)
  BY <1>3, <1>13, <1>15, <1>16 DEF PageAt
<1>18. Len(rows') = n
  BY <1>1 DEF n
<1> QED
  BY <1>1, <1>17, <1>18 DEF PageOK

LEMMA CloseOK ==
  ASSUME rows \in Seq(Nat), PageOK, Close
  PROVE  PageOK'
<1> DEFINE n == Len(rows)
           mode == IF viewer.failures + 1 >= 2 THEN "poll" ELSE "off"
<1>1. /\ sock' = << >> /\ rows' = rows
      /\ viewer' = [viewer EXCEPT !.failures = @ + 1, !.mode = mode]
  BY DEF Close
<1>2. n \in Nat /\ mode \in {"off", "poll"}
  OBVIOUS
<1> HIDE DEF mode
<1>3. viewer \in Viewer /\ Shown(viewer.shown, viewer.next, n)
  BY DEF PageOK, PageAt
<1>4. PICK lo : Follows(lo, viewer, sock, n)
  BY DEF PageOK, PageAt
<1> HIDE DEF n
<1>5. /\ viewer' \in Viewer /\ viewer'.mode = mode /\ viewer'.overrun = viewer.overrun
      /\ viewer'.next = viewer.next /\ viewer'.shown = viewer.shown
  <2>1. viewer.failures + 1 \in Nat
    BY <1>3 DEF Viewer
  <2> QED
    BY <1>1, <1>2, <1>3, <2>1 DEF Viewer
<1>6. Follows(lo, viewer', << >>, n)
  BY <1>2, <1>4, <1>5, NoMessages DEF Follows
<1>7. PageAt(viewer', << >>, n)
  BY <1>2, <1>3, <1>5, <1>6, NoMessages DEF PageAt
<1>8. Len(rows') = n
  BY <1>1 DEF n
<1> QED
  BY <1>1, <1>7, <1>8 DEF PageOK

LEMMA PollOK ==
  ASSUME rows \in Seq(Nat), PageOK, Poll
  PROVE  PageOK'
<1> DEFINE n == Len(rows)
<1>1. viewer.mode = "poll" /\ Page # << >> /\ viewer' = Accepted(Page) /\ sock' = sock /\ rows' = rows
  BY DEF Poll
<1>2. n \in Nat
  OBVIOUS
<1>3. /\ viewer \in Viewer /\ Shown(viewer.shown, viewer.next, n) /\ viewer.next \in Nat
      /\ viewer.next <= n /\ sock = << >>
  BY <1>1 DEF PageOK, PageAt, Shown
<1>4. PICK lo : Follows(lo, viewer, sock, n)
  BY DEF PageOK, PageAt
<1>5. /\ IsRun(Page) /\ Upper(Page) <= n /\ lo <= Lower(Page)
      /\ Lower(Page) > viewer.next + 1 => viewer.next = 0 /\ Lower(Page) <= BaseSeq(n)
  <2>1. lo \in Nat /\ lo <= viewer.next + 1 /\ lo <= BaseSeq(n)
    BY <1>4 DEF Follows
  <2>2. CASE viewer.next = 0
    <3>1. Page = TailRows
      BY <2>2 DEF Page
    <3>2. IsRun(Page) /\ Lower(Page) = BaseSeq(n) /\ Upper(Page) = n
      BY <3>1, TailRowsFacts
    <3>3. BaseSeq(n) \in Nat
      BY <1>2, BaseSeqFacts
    <3> HIDE DEF n
    <3> QED
      BY <1>2, <2>1, <2>2, <3>2, <3>3
  <2>3. CASE viewer.next # 0
    <3>1. viewer.next > 0
      BY <1>3, <2>3
    <3>2. IsRun(Page) /\ Lower(Page) = viewer.next + 1 /\ Upper(Page) <= n
      BY <1>1, <1>3, <3>1, PageRun
    <3> HIDE DEF n
    <3> QED
      BY <1>3, <2>1, <3>2
  <2> QED
    BY <2>2, <2>3
<1> HIDE DEF n
<1>6. PICK m : m = Page
  OBVIOUS
<1>7. viewer' = Given(viewer, m)
  BY <1>1, <1>6, AcceptedIs
<1>8. IsRun(m) /\ Upper(m) <= n /\ lo <= Lower(m) /\ Leaps(viewer, m, sock, n)
  BY <1>2, <1>3, <1>5, <1>6, NoMessages DEF Leaps
<1>9. StillFollows(viewer, m, viewer', sock, n)
  BY <1>2, <1>3, <1>4, <1>7, <1>8, PageAccepts
<1>10. /\ viewer' \in Viewer /\ viewer'.mode = viewer.mode /\ viewer'.overrun = viewer.overrun
       /\ Shown(viewer'.shown, viewer'.next, n)
       /\ \E lo2 : Follows(lo2, viewer', sock, n)
  BY <1>9 DEF StillFollows
<1>11. PageAt(viewer', sock, n)
  BY <1>1, <1>2, <1>3, <1>10, NoMessages DEF PageAt
<1>12. Len(rows') = n
  BY <1>1 DEF n
<1> QED
  BY <1>1, <1>11, <1>12 DEF PageOK

LEMMA PagePostArrivesOK ==
  ASSUME BridgeTyped, PageOK, NEW p \in posts, PostArrives(p)
  PROVE  PageOK'
<1> DEFINE n == Len(rows)
           n2 == Len(rows')
<1>1. /\ rows' = Stored(p.events) /\ viewer' = viewer
      /\ sock' = IF viewer.mode = "open"
                   THEN sock \o [k \in 1..(Len(rows') - Len(rows)) |-> <<Len(rows) + k>>]
                   ELSE sock
  BY DEF PostArrives
<1>2. rows \in Seq(Nat) /\ p.events \in Seq(Nat)
  BY DEF BridgeTyped, APost
<1>3. rows' \in Seq(Nat) /\ Len(rows) <= Len(rows')
  BY <1>1, <1>2, StoredFacts
<1>4. n \in Nat /\ n2 \in Nat /\ n <= n2
  BY <1>2, <1>3
<1>5. sock' = IF viewer.mode = "open" THEN sock \o Pushed(n, n2) ELSE sock
  BY <1>1 DEF Pushed
<1>6. PageAt(viewer, sock, n)
  BY DEF PageOK
<1> HIDE DEF n, n2
<1>7. PageAt(viewer, sock', n2)
  BY <1>4, <1>5, <1>6, PageArrival
<1> QED
  BY <1>1, <1>7 DEF PageOK, n2

\* A post that fails: a page with no open socket misses nothing by it.
LEMMA PagePostFailsOK ==
  ASSUME BridgeTyped, PageOK, NEW p \in posts, PostFails(p), ~viewer'.unsent
  PROVE  PageOK'
<1> DEFINE n == Len(rows)
           n2 == Len(rows')
<1>1. /\ \E k \in 0..(Len(p.events) - 1) : rows' = Stored(Before(p.events, k))
      /\ viewer' = [viewer EXCEPT !.unsent = @ \/ viewer.mode = "open"] /\ sock' = sock
  BY DEF PostFails
<1>2. rows' \in Seq(Nat) /\ Len(rows) <= Len(rows') /\ rows \in Seq(Nat)
  BY <1>1, FailedStoredFacts DEF BridgeTyped
<1>3. n \in Nat /\ n2 \in Nat /\ n <= n2
  BY <1>2
<1>4. PageAt(viewer, sock, n) /\ viewer \in Viewer
  BY DEF PageOK, PageAt
<1>5. PICK u \in BOOLEAN : u = (viewer.unsent \/ viewer.mode = "open")
  OBVIOUS
<1>6. viewer' = [viewer EXCEPT !.unsent = u] /\ viewer'.unsent = u
  BY <1>1, <1>4, <1>5 DEF Viewer
<1>7. viewer.unsent \in BOOLEAN
  BY <1>4 DEF Viewer
<1>8. ~u /\ viewer.unsent = u /\ viewer.mode # "open"
  BY <1>5, <1>6, <1>7, Zenon
<1>9. viewer' = viewer
  BY <1>4, <1>6, <1>8 DEF Viewer
<1>10. sock' = IF viewer.mode = "open" THEN sock \o Pushed(n, n2) ELSE sock
  BY <1>1, <1>8
<1> HIDE DEF n, n2
<1>11. PageAt(viewer, sock', n2)
  BY <1>3, <1>4, <1>10, PageArrival
<1> QED
  BY <1>9, <1>11 DEF PageOK, n2

LEMMA PageStep ==
  ASSUME BridgeTyped, PageOK, [SlateNext]_slateVars, ~viewer'.unsent
  PROVE  PageOK'
<1>1. rows \in Seq(Nat)
  BY DEF BridgeTyped
<1>2. CASE UNCHANGED <<rows, viewer, sock>>
  BY <1>2 DEF PageOK
<1>3. CASE Open \/ Hello \/ Receive \/ Close \/ Poll
  BY <1>1, <1>3, OpenOK, HelloOK, ReceiveOK, CloseOK, PollOK
<1>4. ASSUME NEW p \in posts, PostArrives(p) \/ PostFails(p) PROVE PageOK'
  BY <1>4, PagePostArrivesOK, PagePostFailsOK
<1>5. BridgeStart \/ Replay \/ Tick \/ BridgeDies \/ (\E p \in posts : PostLost(p))
        => UNCHANGED <<rows, viewer, sock>>
  BY DEF BridgeStart, Replay, Tick, BridgeDies, PostLost
<1> QED
  BY <1>2, <1>3, <1>4, <1>5 DEF SlateNext, slateVars

-----------------------------------------------------------------------------
(* The page: each row once, whatever the room did not send *)

Messages(s, n) ==
  /\ s \in Seq(Seq(Nat))
  /\ \A i \in 1..Len(s) : IsRun(s[i]) /\ Upper(s[i]) <= n

Once(shown, n) ==
  /\ shown \in Seq(Nat)
  /\ \A k \in 1..Len(shown) : shown[k] \in 1..n
  /\ \A i, j \in 1..Len(shown) : i < j => shown[i] # shown[j]

OnceAt(v, s, n) ==
  v \in Viewer /\ Once(v.shown, n) /\ v.next <= n /\ Messages(s, n)

OnceOK == OnceAt(viewer, sock, Len(rows))

LEMMA NoMessage == ASSUME NEW n PROVE Messages(<< >>, n)
<1>1. << >> \in Seq(Seq(Nat)) /\ Len(<< >>) = 0
  OBVIOUS
<1> QED
  BY <1>1 DEF Messages

LEMMA OneMessage ==
  ASSUME NEW n, NEW m, IsRun(m), Upper(m) <= n
  PROVE  Messages(<<m>>, n)
<1>1. m \in Seq(Nat)
  BY DEF IsRun
<1>2. <<m>> \in Seq(Seq(Nat)) /\ Len(<<m>>) = 1 /\ <<m>>[1] = m
  BY <1>1
<1>3. PICK s : s = <<m>>
  OBVIOUS
<1>4. s \in Seq(Seq(Nat)) /\ \A i \in 1..Len(s) : s[i] = m
  <2>1. Len(s) = 1 /\ s[1] = m
    BY <1>2, <1>3
  <2>2. \A i \in 1..Len(s) : i = 1
    BY <2>1
  <2> QED
    BY <1>2, <1>3, <2>1, <2>2
<1>5. Messages(s, n)
  BY <1>4 DEF Messages
<1> QED
  BY <1>3, <1>5

LEMMA MoreMessages ==
  ASSUME NEW n, NEW s, NEW t, Messages(s, n), Messages(t, n)
  PROVE  Messages(s \o t, n)
<1> DEFINE u == s \o t
<1>1. s \in Seq(Seq(Nat)) /\ t \in Seq(Seq(Nat)) /\ Len(s) \in Nat /\ Len(t) \in Nat
  BY DEF Messages
<1>2. /\ u \in Seq(Seq(Nat)) /\ Len(u) = Len(s) + Len(t)
      /\ \A i \in 1..(Len(s) + Len(t)) : u[i] = IF i <= Len(s) THEN s[i] ELSE t[i - Len(s)]
  BY <1>1, ConcatProperties
<1> HIDE DEF u
<1>3. ASSUME NEW i \in 1..Len(u) PROVE IsRun(u[i]) /\ Upper(u[i]) <= n
  <2>1. CASE i <= Len(s)
    <3>1. i \in 1..Len(s) /\ u[i] = s[i]
      BY <1>1, <1>2, <2>1
    <3> QED
      BY <3>1 DEF Messages
  <2>2. CASE ~(i <= Len(s))
    <3>1. i - Len(s) \in 1..Len(t) /\ u[i] = t[i - Len(s)]
      BY <1>1, <1>2, <2>2
    <3> QED
      BY <3>1 DEF Messages
  <2> QED
    BY <2>1, <2>2
<1>4. Messages(u, n)
  BY <1>2, <1>3 DEF Messages
<1> QED
  BY <1>4 DEF u

\* The page takes of a message what it does not show yet: it shows no row twice.
LEMMA OnceAccepts ==
  ASSUME NEW n \in Nat, NEW v \in Viewer, Once(v.shown, n), v.next <= n,
         NEW m, IsRun(m), Upper(m) <= n, NEW v2, v2 = Given(v, m)
  PROVE  v2 \in Viewer /\ Once(v2.shown, n) /\ v2.next <= n /\ v2.unsent = v.unsent
<1> DEFINE shown == v.shown
           P == Unseen(m, shown)
           q == Picked(m, P)
           next2 == NextAfter(m, v.next)
<1>1. /\ Lower(m) \in Nat /\ Upper(m) \in Nat /\ Len(m) \in Nat /\ Lower(m) >= 1 /\ m \in Seq(Nat)
      /\ \A k \in 1..Len(m) : m[k] \in Lower(m)..Upper(m)
  BY RunFacts DEF IsRun
<1>2. /\ shown \in Seq(Nat) /\ Len(shown) \in Nat
      /\ \A k \in 1..Len(shown) : shown[k] \in 1..n
      /\ \A i, j \in 1..Len(shown) : i < j => shown[i] # shown[j]
  BY DEF Once
<1>3. v2 = [v EXCEPT !.shown = shown \o q, !.next = next2]
  BY DEF Given
<1> HIDE DEF shown
<1>4. /\ P \in SUBSET (1..Len(m))
      /\ \A i \in P : \A k \in 1..Len(shown) : shown[k] # m[i]
  BY DEF Unseen
<1> HIDE DEF P
<1>5. q \in Seq(Nat) /\ \E p : PicksAt(p, q, m, P, Len(m))
  BY <1>1, <1>4, PickedFacts
<1> HIDE DEF q
<1>6. PICK p : PicksAt(p, q, m, P, Len(m))
  BY <1>5
<1>7. /\ p \in Seq(Nat) /\ Len(p) = Len(q) /\ Ascends(p) /\ Len(q) \in Nat
      /\ \A k \in 1..Len(q) : p[k] \in P /\ q[k] = m[p[k]]
  BY <1>5, <1>6 DEF PicksAt
<1>8. ASSUME NEW k \in 1..Len(q)
      PROVE  q[k] \in 1..n /\ \A i \in 1..Len(shown) : shown[i] # q[k]
  <2>1. p[k] \in 1..Len(m) /\ p[k] \in P /\ q[k] = m[p[k]]
    BY <1>4, <1>7
  <2>2. q[k] \in Lower(m)..Upper(m)
    BY <1>1, <2>1
  <2> QED
    BY <1>1, <1>4, <2>1, <2>2
<1>9. ASSUME NEW i \in 1..Len(q), NEW j \in 1..Len(q), i < j PROVE q[i] # q[j]
  <2>1. p[i] \in 1..Len(m) /\ p[j] \in 1..Len(m) /\ q[i] = m[p[i]] /\ q[j] = m[p[j]]
    BY <1>4, <1>7
  <2>2. p[i] < p[j]
    BY <1>7, <1>9 DEF Ascends
  <2>3. m[p[i]] = Lower(m) + p[i] - 1 /\ m[p[j]] = Lower(m) + p[j] - 1
    BY <2>1 DEF IsRun
  <2>4. \A a, b \in 1..Len(m) : a < b => Lower(m) + a - 1 # Lower(m) + b - 1
    BY <1>1
  <2>5. Lower(m) + p[i] - 1 # Lower(m) + p[j] - 1
    BY <2>1, <2>2, <2>4
  <2> QED
    BY <2>1, <2>3, <2>5
<1> DEFINE u == shown \o q
<1>10. /\ u \in Seq(Nat) /\ Len(u) = Len(shown) + Len(q)
       /\ \A k \in 1..(Len(shown) + Len(q)) :
            u[k] = IF k <= Len(shown) THEN shown[k] ELSE q[k - Len(shown)]
  BY <1>2, <1>5, ConcatProperties
<1> HIDE DEF u
<1>11. ASSUME NEW k \in 1..Len(u)
       PROVE  \/ k \in 1..Len(shown) /\ u[k] = shown[k]
              \/ k > Len(shown) /\ k - Len(shown) \in 1..Len(q) /\ u[k] = q[k - Len(shown)]
  BY <1>2, <1>7, <1>10
<1>12. \A k \in 1..Len(u) : u[k] \in 1..n
  BY <1>2, <1>8, <1>11
<1>13. ASSUME NEW i \in 1..Len(u), NEW j \in 1..Len(u), i < j PROVE u[i] # u[j]
  <2>1. CASE j \in 1..Len(shown)
    <3>1. i \in 1..Len(shown) /\ u[i] = shown[i] /\ u[j] = shown[j]
      BY <1>2, <1>11, <1>13, <2>1
    <3> QED
      BY <1>2, <1>13, <2>1, <3>1
  <2>2. CASE i \in 1..Len(shown) /\ j > Len(shown)
    <3>1. u[i] = shown[i] /\ j - Len(shown) \in 1..Len(q) /\ u[j] = q[j - Len(shown)]
      BY <1>2, <1>11, <2>2
    <3> QED
      BY <1>8, <2>2, <3>1
  <2>3. CASE i > Len(shown)
    <3>1. j > Len(shown) /\ i - Len(shown) < j - Len(shown)
      BY <1>2, <1>10, <1>13, <2>3
    <3>2. /\ i - Len(shown) \in 1..Len(q) /\ u[i] = q[i - Len(shown)]
          /\ j - Len(shown) \in 1..Len(q) /\ u[j] = q[j - Len(shown)]
      BY <1>2, <1>11, <2>3, <3>1
    <3> QED
      BY <1>9, <3>1, <3>2
  <2> QED
    BY <1>11, <2>1, <2>2, <2>3
<1>14. next2 \in Nat /\ next2 <= n
  <2>1. v.next \in Nat
    BY DEF Viewer
  <2>2. CASE m # << >> /\ m[Len(m)] > v.next
    <3>1. next2 = Upper(m)
      BY <2>2 DEF NextAfter, Upper
    <3> QED
      BY <1>1, <3>1
  <2>3. CASE ~(m # << >> /\ m[Len(m)] > v.next)
    <3>1. next2 = v.next
      BY <2>3 DEF NextAfter
    <3> QED
      BY <2>1, <3>1
  <2> QED
    BY <2>2, <2>3
<1> HIDE DEF next2
<1>15. v2 = [v EXCEPT !.shown = u, !.next = next2]
  BY <1>3 DEF u
<1>16. /\ v2 \in Viewer /\ v2.shown = u /\ v2.next = next2 /\ v2.unsent = v.unsent
  BY <1>10, <1>14, <1>15 DEF Viewer
<1> QED
  BY <1>10, <1>12, <1>13, <1>14, <1>16 DEF Once

LEMMA OnceInitOK == SlateInit => OnceOK
<1> SUFFICES ASSUME SlateInit PROVE OnceOK
  OBVIOUS
<1>1. viewer \in Viewer /\ Shown(viewer.shown, viewer.next, Len(rows)) /\ Chained(sock, Len(rows))
  BY PageInitOK DEF PageOK, PageAt
<1>2. rows = << >> /\ viewer.next = 0 /\ viewer.shown = << >> /\ sock = << >>
  BY DEF SlateInit
<1>3. << >> \in Seq(Nat) /\ Len(<< >>) = 0
  OBVIOUS
<1>4. Once(viewer.shown, Len(rows))
  BY <1>2, <1>3 DEF Once
<1> QED
  BY <1>1, <1>2, <1>3, <1>4, NoMessage DEF OnceOK, OnceAt

\* Rows are stored, and the socket gets nothing that is not among them.
LEMMA OnceArrival ==
  ASSUME NEW n \in Nat, NEW n2 \in Nat, n <= n2, NEW v, NEW s, OnceAt(v, s, n),
         NEW v2 \in Viewer, v2.shown = v.shown, v2.next = v.next,
         NEW s2, s2 = s \/ s2 = s \o Pushed(n, n2)
  PROVE  OnceAt(v2, s2, n2)
<1>1. Once(v2.shown, n2)
  <2>1. \A k \in 1..n : k \in 1..n2
    OBVIOUS
  <2> QED
    BY <2>1 DEF OnceAt, Once
<1>2. v2.next <= n2
  BY DEF OnceAt, Viewer
<1>3. Messages(s, n2)
  <2> SUFFICES ASSUME NEW i \in 1..Len(s) PROVE IsRun(s[i]) /\ Upper(s[i]) <= n2
    BY DEF OnceAt, Messages
  <2>1. IsRun(s[i]) /\ Upper(s[i]) <= n
    BY DEF OnceAt, Messages
  <2>2. Upper(s[i]) \in Nat
    BY <2>1, RunFacts
  <2> QED
    BY <2>1, <2>2
<1>4. Messages(Pushed(n, n2), n2)
  <2>1. CASE n = n2
    <3>1. Pushed(n, n2) = << >>
      BY <2>1 DEF Pushed
    <3> QED
      BY <3>1, NoMessage
  <2>2. CASE n < n2
    <3>1. PICK t : t = Pushed(n, n2)
      OBVIOUS
    <3>2. Chained(t, n2)
      BY <2>2, <3>1, ArrivalFacts
    <3> QED
      BY <3>1, <3>2 DEF Chained, Messages
  <2> QED
    BY <2>1, <2>2
<1>5. Messages(s \o Pushed(n, n2), n2)
  BY <1>3, <1>4, MoreMessages
<1> QED
  BY <1>1, <1>2, <1>3, <1>5 DEF OnceAt

LEMMA OncePostOK ==
  ASSUME BridgeTyped, OnceOK, NEW p \in posts, PostArrives(p) \/ PostFails(p)
  PROVE  OnceOK'
<1> DEFINE n == Len(rows)
           n2 == Len(rows')
<1>1. rows \in Seq(Nat) /\ rows' \in Seq(Nat) /\ Len(rows) <= Len(rows')
  <2>1. rows \in Seq(Nat) /\ p.events \in Seq(Nat)
    BY DEF BridgeTyped, APost
  <2>2. CASE PostArrives(p)
    <3>1. rows' = Stored(p.events)
      BY <2>2 DEF PostArrives
    <3> QED
      BY <2>1, <3>1, StoredFacts
  <2>3. CASE PostFails(p)
    <3>1. \E k \in 0..(Len(p.events) - 1) : rows' = Stored(Before(p.events, k))
      BY <2>3 DEF PostFails
    <3> QED
      BY <2>1, <3>1, FailedStoredFacts
  <2> QED
    BY <2>2, <2>3
<1>2. n \in Nat /\ n2 \in Nat /\ n <= n2
  BY <1>1
<1>3. sock' = sock \/ sock' = sock \o Pushed(n, n2)
  BY DEF PostArrives, PostFails, Pushed
<1>4. OnceAt(viewer, sock, n) /\ viewer \in Viewer
  BY DEF OnceOK, OnceAt
<1>5. viewer' \in Viewer /\ viewer'.shown = viewer.shown /\ viewer'.next = viewer.next
  <2>1. CASE PostArrives(p)
    BY <1>4, <2>1 DEF PostArrives
  <2>2. CASE PostFails(p)
    <3>1. PICK u \in BOOLEAN : u = (viewer.unsent \/ viewer.mode = "open")
      OBVIOUS
    <3>2. viewer' = [viewer EXCEPT !.unsent = u]
      BY <2>2, <3>1 DEF PostFails
    <3> QED
      BY <1>4, <3>2 DEF Viewer
  <2> QED
    BY <2>1, <2>2
<1> HIDE DEF n, n2
<1>6. OnceAt(viewer', sock', n2)
  BY <1>2, <1>3, <1>4, <1>5, OnceArrival
<1> QED
  BY <1>6 DEF OnceOK, n2

\* The steps of the viewer.
LEMMA OnceViewerOK ==
  ASSUME rows \in Seq(Nat), OnceOK, Open \/ Hello \/ Receive \/ Close \/ Poll
  PROVE  OnceOK' /\ viewer'.unsent = viewer.unsent
<1> DEFINE n == Len(rows)
<1>1. n \in Nat /\ rows' = rows
  BY DEF Open, Hello, Receive, Close, Poll
<1>2. /\ viewer \in Viewer /\ Once(viewer.shown, n) /\ viewer.next <= n /\ viewer.next \in Nat
      /\ Messages(sock, n)
  BY DEF OnceOK, OnceAt, Viewer
<1>3. IsRun(TailRows) /\ Upper(TailRows) <= n
  BY <1>1, TailRowsFacts
<1> SUFFICES /\ viewer' \in Viewer /\ Once(viewer'.shown, n) /\ viewer'.next <= n
             /\ viewer'.unsent = viewer.unsent /\ Messages(sock', n)
  BY <1>1 DEF OnceOK, OnceAt
<1> HIDE DEF n
<1>4. CASE Open
  <2>1. PICK over \in BOOLEAN :
          over = (viewer.overrun \/ (viewer.next > 0 /\ Len(rows) > viewer.next + TAIL))
    OBVIOUS
  <2>2. /\ viewer' = [viewer EXCEPT !.mode = "open", !.hello = FALSE, !.overrun = over]
        /\ sock' = <<TailRows>>
    BY <1>4, <2>1 DEF Open
  <2>3. Messages(<<TailRows>>, n)
    BY <1>3, OneMessage
  <2> QED
    BY <1>2, <2>2, <2>3 DEF Viewer
<1>5. CASE Hello
  <2>1. viewer' = [viewer EXCEPT !.hello = TRUE] /\ sock' = Append(sock, TailRows)
    BY <1>5 DEF Hello
  <2>2. sock' = sock \o <<TailRows>>
    <3>1. sock \in Seq(Seq(Nat)) /\ TailRows \in Seq(Nat)
      BY <1>2, <1>3 DEF Messages, IsRun
    <3> QED
      BY <2>1, <3>1
  <2>3. Messages(<<TailRows>>, n)
    BY <1>3, OneMessage
  <2>4. Messages(sock \o <<TailRows>>, n)
    BY <1>2, <2>3, MoreMessages
  <2> QED
    BY <1>2, <2>1, <2>2, <2>4 DEF Viewer
<1>6. CASE Receive
  <2>1. sock # << >> /\ viewer' = Accepted(Head(sock)) /\ sock' = Tail(sock)
    BY <1>6 DEF Receive
  <2>2. sock \in Seq(Seq(Nat)) /\ \A i \in 1..Len(sock) : IsRun(sock[i]) /\ Upper(sock[i]) <= n
    BY <1>2 DEF Messages
  <2>3. PICK m : m = Head(sock)
    OBVIOUS
  <2>4. IsRun(m) /\ Upper(m) <= n
    <3>1. 1 \in 1..Len(sock) /\ m = sock[1]
      BY <2>1, <2>2, <2>3, EmptySeq
    <3> QED
      BY <2>2, <3>1
  <2>5. viewer' = Given(viewer, m)
    BY <2>1, <2>3, AcceptedIs
  <2>6. Messages(Tail(sock), n)
    <3>1. Tail(sock) \in Seq(Seq(Nat)) /\ Len(Tail(sock)) = Len(sock) - 1
          /\ \A i \in 1..Len(Tail(sock)) : Tail(sock)[i] = sock[i + 1]
      BY <2>1, <2>2
    <3>2. \A i \in 1..Len(Tail(sock)) : i + 1 \in 1..Len(sock)
      BY <2>2, <3>1
    <3> QED
      BY <2>2, <3>1, <3>2 DEF Messages
  <2>7. /\ viewer' \in Viewer /\ Once(viewer'.shown, n) /\ viewer'.next <= n
        /\ viewer'.unsent = viewer.unsent
    BY <1>1, <1>2, <2>4, <2>5, OnceAccepts
  <2> QED
    BY <2>1, <2>6, <2>7
<1>7. CASE Close
  <2>1. PICK mode \in {"off", "poll"} : mode = IF viewer.failures + 1 >= 2 THEN "poll" ELSE "off"
    OBVIOUS
  <2>2. viewer' = [viewer EXCEPT !.failures = @ + 1, !.mode = mode] /\ sock' = << >>
    BY <1>7, <2>1 DEF Close
  <2>3. viewer.failures + 1 \in Nat
    BY <1>2 DEF Viewer
  <2> QED
    BY <1>2, <2>2, <2>3, NoMessage DEF Viewer
<1>8. CASE Poll
  <2>1. Page # << >> /\ viewer' = Accepted(Page) /\ sock' = sock
    BY <1>8 DEF Poll
  <2>2. IsRun(Page) /\ Upper(Page) <= n
    <3>1. CASE viewer.next = 0
      BY <1>3, <3>1 DEF Page
    <3>2. CASE viewer.next # 0
      <4>1. viewer.next > 0 /\ viewer.next <= Len(rows)
        BY <1>2, <3>2 DEF n
      <4> QED
        BY <1>2, <2>1, <4>1, PageRun DEF n
    <3> QED
      BY <3>1, <3>2
  <2>3. PICK m : m = Page
    OBVIOUS
  <2>4. viewer' = Given(viewer, m)
    BY <2>1, <2>3, AcceptedIs
  <2>5. IsRun(m) /\ Upper(m) <= n
    BY <2>2, <2>3
  <2>6. /\ viewer' \in Viewer /\ Once(viewer'.shown, n) /\ viewer'.next <= n
        /\ viewer'.unsent = viewer.unsent
    BY <1>1, <1>2, <2>4, <2>5, OnceAccepts
  <2> QED
    BY <1>2, <2>1, <2>6
<1> QED
  BY <1>4, <1>5, <1>6, <1>7, <1>8

\* The page shows each row once; and as long as the room sent what it stored, it is in
\* order and without a gap.
PageInv == OnceOK /\ (~viewer.unsent => PageOK)

LEMMA PageInvStep ==
  ASSUME BridgeTyped, PageInv, [SlateNext]_slateVars
  PROVE  PageInv'
<1>1. rows \in Seq(Nat) /\ OnceOK /\ viewer.unsent \in BOOLEAN
  BY DEF BridgeTyped, PageInv, OnceOK, OnceAt, Viewer
<1>2. OnceOK' /\ (viewer.unsent => viewer'.unsent)
  <2>1. CASE UNCHANGED <<rows, viewer, sock>>
    BY <1>1, <2>1 DEF OnceOK
  <2>2. CASE Open \/ Hello \/ Receive \/ Close \/ Poll
    BY <1>1, <2>2, OnceViewerOK
  <2>3. ASSUME NEW p \in posts, PostArrives(p) \/ PostFails(p)
        PROVE  OnceOK' /\ (viewer.unsent => viewer'.unsent)
    <3>1. OnceOK'
      BY <1>1, <2>3, OncePostOK
    <3>2. CASE PostArrives(p)
      BY <3>1, <3>2 DEF PostArrives
    <3>3. CASE PostFails(p)
      <4>1. viewer \in Viewer
        BY <1>1 DEF OnceOK, OnceAt
      <4>2. viewer.unsent => viewer'.unsent
        BY <3>3, <4>1 DEF PostFails, Viewer
      <4> QED
        BY <3>1, <4>2
    <3> QED
      BY <2>3, <3>2, <3>3
  <2>4. BridgeStart \/ Replay \/ Tick \/ BridgeDies \/ (\E p \in posts : PostLost(p))
          => UNCHANGED <<rows, viewer, sock>>
    BY DEF BridgeStart, Replay, Tick, BridgeDies, PostLost
  <2> QED
    BY <2>1, <2>2, <2>3, <2>4 DEF SlateNext, slateVars
<1>3. ASSUME ~viewer'.unsent PROVE PageOK'
  BY <1>2, <1>3, PageStep DEF PageInv
<1> QED
  BY <1>2, <1>3 DEF PageInv

LEMMA PageShows == PageInv => ViewerInOrder /\ ViewerSkipsNothing
<1> SUFFICES ASSUME PageInv PROVE ViewerInOrder /\ ViewerSkipsNothing
  OBVIOUS
<1>1. Once(viewer.shown, Len(rows)) /\ viewer.unsent \in BOOLEAN
  BY DEF PageInv, OnceOK, OnceAt, Viewer
<1>2. CASE viewer.unsent
  BY <1>1, <1>2 DEF ViewerInOrder, ViewerSkipsNothing, Once
<1>3. CASE ~viewer.unsent
  <2>1. Shown(viewer.shown, viewer.next, Len(rows))
    BY <1>3 DEF PageInv, PageOK, PageAt
  <2>2. ViewerInOrder
    BY <1>1, <2>1 DEF ViewerInOrder, Shown, Ascends, Once
  <2>3. PICK lo : Follows(lo, viewer, sock, Len(rows))
    BY <1>3 DEF PageInv, PageOK, PageAt
  <2>4. ViewerSkipsNothing
    BY <2>3 DEF ViewerSkipsNothing, Follows, Covers
  <2> QED
    BY <2>2, <2>4
<1> QED
  BY <1>2, <1>3

\* A board shows the rows of the room each once, over every change of its source, with the
\* tails and the rows that a socket carries twice; and in the room's order, unless the
\* room stored a row and failed before it sent it (connectBus).
THEOREM BoardIsInOrder == SlateSpec => []ViewerInOrder
<1>1. SlateInit => BusOK /\ BridgeOK /\ PageInv
  BY BusInitOK, BridgeInitOK, PageInitOK, OnceInitOK DEF SlateInit, BridgeOK, PageInv
<1>2. BusOK /\ BridgeOK /\ PageInv /\ [SlateNext]_slateVars => BusOK' /\ BridgeOK' /\ PageInv'
  BY SlateMovesBus, BusStep, BridgeStep, PageInvStep DEF BridgeOK
<1> QED
  BY <1>1, <1>2, PageShows, PTL DEF SlateSpec

\* From the first row that a board shows it skips none, unless more rows than a tail were
\* stored while its socket was down, or the room stored a row that it did not send
\* (bus.tail, the cursor).
THEOREM BoardSkipsNothing == SlateSpec => []ViewerSkipsNothing
<1>1. SlateInit => BusOK /\ BridgeOK /\ PageInv
  BY BusInitOK, BridgeInitOK, PageInitOK, OnceInitOK DEF SlateInit, BridgeOK, PageInv
<1>2. BusOK /\ BridgeOK /\ PageInv /\ [SlateNext]_slateVars => BusOK' /\ BridgeOK' /\ PageInv'
  BY SlateMovesBus, BusStep, BridgeStep, PageInvStep DEF BridgeOK
<1> QED
  BY <1>1, <1>2, PageShows, PTL DEF SlateSpec
================================================================================
