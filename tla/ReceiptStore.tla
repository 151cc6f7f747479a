---------------------------- MODULE ReceiptStore ----------------------------
(***************************************************************************)
(* The root receipt store: processes seal receipts into one file of lines, *)
(* runs.jsonl, under the directory lock of LockDir; the event bus appends  *)
(* to the same file without the lock; an operator rotates the release      *)
(* epoch in EPOCH.json, without the lock too.                              *)
(*                                                                         *)
(* The file is modelled by what readChain makes of it: the receipts it can *)
(* parse, in order, and what the last line lacks: nothing, a part of it    *)
(* ("cut": it does not parse), or its newline alone ("bare": a receipt     *)
(* that parses).  A line appended behind a cut or a bare one is glued to   *)
(* it: neither parses, and a bare receipt is taken back.                   *)
(*                                                                         *)
(* Appends go through O_APPEND, so a line lands whole or is cut off.  A    *)
(* hash is a number nobody drew before; genesisOf an epoch is a negative   *)
(* one.  Streams other than runs have files of their own and the same lock.*)
(***************************************************************************)
EXTENDS Integers, Sequences, FiniteSets

CONSTANTS Procs, Nobody,
          Unprobed,    \* LockDir: the pairs of processes of different users
          Rotators,    \* `timmy epoch' processes
          Epochs       \* the numbers operators rotate to
ASSUME StoreAssumption ==
  Nobody \notin Procs /\ Epochs \subseteq Nat \ {0} /\ Unprobed \subseteq Procs \X Procs

VARIABLES
  lock, at, dead,  \* LockDir: the lock directory .lock of the store
  work,      \* where in appendReceipt's critical section each process is
  chain,     \* the receipts readChain finds in runs.jsonl
  tail,      \* what the last line of runs.jsonl lacks
  epochFile, \* what EPOCH.json holds
  tmp,       \* what EPOCH.json.tmp holds
  rot,       \* the rotations under way
  hashes,    \* hashes drawn so far
  answered,  \* hashes of the receipts appendReceipt has returned
  tears,     \* auxiliary: lines that were cut off so far
  overlap,   \* auxiliary: two processes were in the critical section at once
  misread,   \* auxiliary: a bare receipt was taken back after lastReceipt found it
  turnedBack \* auxiliary: the epoch read from EPOCH.json has gone down

lockVars == <<lock, at, dead>>
fileVars == <<chain, tail, hashes, answered, tears, misread>>
epochVars == <<epochFile, tmp, rot, turnedBack>>
vars == <<lockVars, work, fileVars, epochVars, overlap>>

Lock == INSTANCE LockDir

Genesis(e) == -e
Receipt == [epoch : Nat \ {0}, prev_hash : Int, hash : Nat \ {0}]

NoWork == [step |-> "none", epoch |-> 1, prev |-> 0, hash |-> 0]
Work == [step : {"none", "epoch", "tail", "sealed", "done"},
         epoch : Nat \ {0}, prev : Int, hash : Nat]

\* What a file that is absent or half written holds, and what is read from it.
NoEpoch == 0
CurrentEpoch == IF epochFile = NoEpoch THEN 1 ELSE epochFile

NoRotation == [step |-> "none", n |-> 1, fd |-> "none"]
Rotation == [step : {"none", "opened", "written"}, n : Nat \ {0},
             fd : {"none", "tmp", "epoch", "gone"}]
NoTmp == -1

TypeOK ==
  /\ Lock!LockTypeOK
  /\ work \in [Procs -> Work]
  /\ chain \in Seq(Receipt)
  /\ tail \in {"whole", "cut", "bare"}
  /\ epochFile \in Nat
  /\ tmp \in Nat \cup {NoTmp}
  /\ rot \in [Rotators -> Rotation]
  /\ hashes \in Nat
  /\ answered \in SUBSET (1..hashes)
  /\ tears \in Nat
  /\ overlap \in BOOLEAN
  /\ misread \in BOOLEAN
  /\ turnedBack \in BOOLEAN
  \* Whoever is not inside the critical section has no work in it.
  /\ \A p \in Procs : work[p].step # "none" => at[p] = "in"
  \* Receipts carry hashes drawn before, each of them once.
  /\ \A i \in 1..Len(chain) : chain[i].hash <= hashes
  /\ \A i, j \in 1..Len(chain) : i < j => chain[i].hash < chain[j].hash
  \* A bare receipt is one whose caller was told that it failed.
  /\ tail = "bare" => chain # << >> /\ chain[Len(chain)].hash \notin answered

Init ==
  /\ Lock!LockInit
  /\ work = [p \in Procs |-> NoWork]
  /\ chain = << >>
  /\ tail = "whole"
  /\ epochFile = NoEpoch
  /\ tmp = NoTmp
  /\ rot = [r \in Rotators |-> NoRotation]
  /\ hashes = 0
  /\ answered = {}
  /\ tears = 0
  /\ overlap = FALSE
  /\ misread = FALSE
  /\ turnedBack = FALSE

-----------------------------------------------------------------------------
(* The lock *)

LockWaiting(p) ==
  /\ Lock!Waiting(p) \/ Lock!RmDir(p)
  /\ UNCHANGED <<work, fileVars, epochVars, overlap>>

Enter(p) ==
  /\ Lock!WritePid(p)
  /\ overlap' = (overlap \/ \E q \in Procs : at[q] = "in")
  /\ UNCHANGED <<work, fileVars, epochVars>>

Age == Lock!Age /\ UNCHANGED <<work, fileVars, epochVars, overlap>>

\* The process is killed wherever it is; what it wrote stays.
Die(p) ==
  /\ Lock!Die(p)
  /\ work' = [work EXCEPT ![p] = NoWork]
  /\ UNCHANGED <<fileVars, epochVars, overlap>>

\* fn() has returned or thrown: the lock is given back.
Leave(p) ==
  /\ work[p].step = "done"
  /\ Lock!Unlink(p)
  /\ work' = [work EXCEPT ![p] = NoWork]
  /\ UNCHANGED <<fileVars, epochVars, overlap>>

-----------------------------------------------------------------------------
(* appendReceipt, inside the lock *)

\* Process p is in the critical section, at this step of it.
Inside(p, step) == at[p] = "in" /\ work[p].step = step

ReadEpoch(p) ==
  /\ Inside(p, "none")
  /\ work' = [work EXCEPT ![p] = [NoWork EXCEPT !.step = "epoch", !.epoch = CurrentEpoch]]
  /\ UNCHANGED <<lockVars, fileVars, epochVars, overlap>>

\* (A bug: the last receipt is cited, of whatever epoch it is.)
PrevHash_AnyEpoch(c, e) == IF c # << >> THEN c[Len(c)].hash ELSE Genesis(e)

\* The hash a receipt of epoch e has to cite behind chain c: the last receipt's,
\* when it is of the same epoch.
PrevHash(c, e) ==
  IF c # << >> /\ c[Len(c)].epoch = e THEN c[Len(c)].hash ELSE Genesis(e)

\* lastReceipt reads and parses the file.
ReadTail(p) ==
  /\ Inside(p, "epoch")
  /\ work' = [work EXCEPT ![p].step = "tail", ![p].prev = PrevHash(chain, work[p].epoch)]
  /\ UNCHANGED <<lockVars, fileVars, epochVars, overlap>>

\* (A bug: the hash is taken before the random id is drawn.)
NewReceipt_OldHash(p) == [epoch |-> work[p].epoch, prev_hash |-> work[p].prev, hash |-> hashes]

NewReceipt(p) == [epoch |-> work[p].epoch, prev_hash |-> work[p].prev, hash |-> hashes + 1]

\* The receipts that can still be read once something more is written.
Kept == IF tail = "bare" THEN SubSeq(chain, 1, Len(chain) - 1) ELSE chain

\* The signed receipt is appended; behind a cut or a bare line it cannot be parsed.
AppendLine(p) ==
  /\ Inside(p, "tail")
  /\ chain' = IF tail = "whole" THEN Append(chain, NewReceipt(p)) ELSE Kept
  /\ tail' = "whole"
  /\ hashes' = hashes + 1
  /\ work' = [work EXCEPT ![p].step = "sealed", ![p].hash = hashes + 1]
  /\ UNCHANGED <<lockVars, answered, tears, misread, epochVars, overlap>>

\* A line that is no receipt is appended whole.
WriteLine == chain' = Kept /\ tail' = "whole" /\ UNCHANGED tears

\* appendFileSync throws, with a part of the line written or with nothing.
CutOff ==
  \/ (chain' = Kept /\ tail' = "cut" /\ tears' = tears + 1)
  \/ UNCHANGED <<chain, tail, tears>>

\* The newline alone is not written: the receipt is there, and read.
CutBare(p) ==
  /\ tail = "whole"
  /\ chain' = Append(chain, NewReceipt(p))
  /\ tail' = "bare"
  /\ tears' = tears + 1
  /\ hashes' = hashes + 1

\* (A bug: the error is caught and the receipt returned all the same.)
AppendFails_Caught(p) ==
  /\ Inside(p, "tail")
  /\ CutBare(p) \/ (CutOff /\ hashes' = hashes + 1)
  /\ work' = [work EXCEPT ![p].step = "sealed", ![p].hash = hashes + 1]
  /\ UNCHANGED <<lockVars, answered, misread, epochVars, overlap>>

AppendFails(p) ==
  /\ Inside(p, "tail")
  /\ CutBare(p) \/ (CutOff /\ UNCHANGED hashes)
  /\ work' = [work EXCEPT ![p].step = "done"]
  /\ UNCHANGED <<lockVars, answered, misread, epochVars, overlap>>

\* receipt.sealed is published on the bus, in the same file, and the receipt is
\* returned; when publishing throws, so does appendReceipt.
PublishSealed(p) ==
  /\ Inside(p, "sealed")
  /\ \/ (WriteLine /\ answered' = answered \cup {work[p].hash})
     \/ (CutOff /\ UNCHANGED answered)
  /\ work' = [work EXCEPT ![p].step = "done"]
  /\ UNCHANGED <<lockVars, hashes, misread, epochVars, overlap>>

\* Any other event published on the bus, by whoever, without the lock.
Publish ==
  /\ WriteLine \/ CutOff
  /\ misread' = (misread \/ (chain' # chain /\ \E p \in Procs : work[p].step = "tail"))
  /\ UNCHANGED <<lockVars, work, hashes, answered, epochVars, overlap>>

-----------------------------------------------------------------------------
(* rotateEpoch *)

\* The epoch anybody reads from now on, against the one they read before.
SetEpoch(e) ==
  /\ epochFile' = e
  /\ turnedBack' = (turnedBack \/ CurrentEpoch' < CurrentEpoch)

\* writeFileSync opens EPOCH.json.tmp, one name for every rotation, and empties it.
OpenTmp(r) ==
  /\ rot[r].step = "none"
  /\ \E n \in Epochs : rot' = [rot EXCEPT ![r] = [step |-> "opened", n |-> n, fd |-> "tmp"]]
  /\ tmp' = NoEpoch
  /\ UNCHANGED <<lockVars, work, fileVars, overlap, epochFile, turnedBack>>

\* The content goes to the file that was opened, wherever a rename put it.
WriteTmp(r) ==
  /\ rot[r].step = "opened"
  /\ rot' = [rot EXCEPT ![r].step = "written"]
  /\ IF rot[r].fd = "epoch" THEN SetEpoch(rot[r].n) ELSE UNCHANGED <<epochFile, turnedBack>>
  /\ tmp' = IF rot[r].fd = "tmp" THEN rot[r].n ELSE tmp
  /\ UNCHANGED <<lockVars, work, fileVars, overlap>>

\* Where an opened file is once EPOCH.json.tmp was renamed to EPOCH.json.
Renamed(fd) == CASE fd = "tmp" -> "epoch" [] fd = "epoch" -> "gone" [] OTHER -> fd

\* renameSync; it throws when another rotation renamed the file already.
Rename(r) ==
  /\ rot[r].step = "written"
  /\ IF tmp = NoTmp
       THEN rot' = [rot EXCEPT ![r] = NoRotation] /\ UNCHANGED <<epochFile, tmp, turnedBack>>
       ELSE /\ SetEpoch(tmp)
            /\ tmp' = NoTmp
            /\ rot' = [q \in Rotators |->
                         IF q = r THEN NoRotation ELSE [rot[q] EXCEPT !.fd = Renamed(@)]]
  /\ UNCHANGED <<lockVars, work, fileVars, overlap>>

\* A rotation is killed; its tmp file stays.
RotatorDies(r) ==
  /\ rot[r].step # "none"
  /\ rot' = [rot EXCEPT ![r] = NoRotation]
  /\ UNCHANGED <<lockVars, work, fileVars, overlap, epochFile, tmp, turnedBack>>

-----------------------------------------------------------------------------
Seal(p) ==
  \/ LockWaiting(p) \/ Enter(p) \/ Leave(p) \/ Die(p)
  \/ ReadEpoch(p) \/ ReadTail(p) \/ AppendLine(p) \/ AppendFails(p) \/ PublishSealed(p)

Rotate(r) == OpenTmp(r) \/ WriteTmp(r) \/ Rename(r) \/ RotatorDies(r)

Next ==
  \/ \E p \in Procs : Seal(p)
  \/ \E r \in Rotators : Rotate(r)
  \/ Age
  \/ Publish

Spec == Init /\ [][Next]_vars

-----------------------------------------------------------------------------
(* Properties *)

\* Receipt i cites the receipt of its epoch before it, or the epoch's genesis
\* when there is none: what verifySegment tests.
CitesPrevious(i) ==
  LET e == chain[i].epoch IN
  \/ /\ chain[i].prev_hash = Genesis(e)
     /\ \A k \in 1..(i - 1) : chain[k].epoch # e
  \/ \E k \in 1..(i - 1) :
       /\ chain[k].epoch = e
       /\ chain[i].prev_hash = chain[k].hash
       /\ \A j \in (k + 1)..(i - 1) : chain[j].epoch # e

\* Every epoch's segment verifies, whatever lines were cut off, seals failed,
\* processes died and rotations fell between two steps of a seal, unless the
\* lock let two writers in, the epoch was set back, or a receipt without its
\* newline was read as the last one and spoilt by an event before it was cited
\* (verifyChain).
SegmentsVerify ==
  ~overlap /\ ~turnedBack /\ ~misread => \A i \in 1..Len(chain) : CitesPrevious(i)

\* "a stale lock is only stolen when its holder PID is DEAD": as long as no
\* process died and every process may probe every other one, two writers never
\* overlap, however long they stall.
LiveWritersNeverOverlap == dead = {} /\ Unprobed = {} => ~overlap

\* A cut off line costs at most one receipt whose caller was told it is sealed,
\* even when writers overlap or the epoch is set back (appendFileSync).
LostAtMostTears ==
  Cardinality({h \in answered : \A i \in 1..Len(chain) : chain[i].hash # h}) <= tears

\* A receipt that can be read stays where it is, unless it is the last one and
\* its caller was not told that it is sealed (appendFileSync, busPublish).
AppendOnly ==
  [][\A i \in 1..Len(chain) : i < Len(chain) \/ chain[i].hash \in answered' =>
       i <= Len(chain') /\ chain'[i] = chain[i]]_vars
=============================================================================
