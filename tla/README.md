# Verification of the Timmy control plane

TLA+ models of the parts of this repository that keep state other parties rely
on: on the edge the Commander room, the Timmy object, their receipt chains, the
swarm runner, the KV store of custody and the Slate room; on disk the root
receipt store, the event bus, approvals and dispatch, recipe jobs, escrows and
the forge ledger. TLC checks them on small instances, TLAPS proves the theorems
of section 4 for every value of the constants.

    tlc -workers 2 -config Custody.cfg MCCustody.tla
    tlapm Records_proofs.tla

`PROJECT.json` lists every run, the source lines of every definition, a mutant
for every property and the hazards of the code.

## 1. Inventory

### Edge (`workers/ai-proxy/src`)

| Component | State | Operations | What is hard | What makes it correct |
|---|---|---|---|---|
| Commander room (`commander.ts`, `commander-core.ts`) | synced room state (mode, holder, kill switch, ledger, head), SQL tables, schedules, `inflight` aborts | think, turn, handoff, release, kill, revive, mode, cap, schedule, cancel, remember, swarm, fired schedules | one actor whose handlers interleave at every await; most capture the state before their seal and commit it after; eviction at any await | a held room is paused, a killed one stays so, the ledger bills what receipts bill, the head never moves back |
| Edge receipt chain (`chain.ts`, `seal()` in `commander.ts`) | SQL table `receipts`, promise `sealChain`, KV mirror | seal, chain, verify | seals queue behind failing seals; KV put after the INSERT; eviction between | the chain is linked, the mirror is a beginning of it, every seal settles |
| Swarm runner (`swarm-core.ts`) | `Governor` (spent, calls), the run under way | eight topologies of waves of calls, allow, record | a whole wave passes the gate before any of it is recorded; member receipts of two runs interleave; blank and failed replies | the run's receipt cites exactly its members, it overspends by a wave at most, loses no good answer, ends |
| Timmy object (`timmy.ts`) | spend, budget, notes, head; its chain | think, profile, remember | second client of the seal queue; a think commits what it captured, the others spread what they find | between seals the state says what the chain says |
| Daily head (`head.ts`) | `head:<day>`, `head:latest` in KV | cron roll-up | two puts, not atomic; two runs at once; chains grow meanwhile | a head lists what is on the chains, days are linked |
| Slate room (`room.ts`, `lanes/slate/bus-bridge.mjs`, `companion/slate3d/src/bus.js`) | the bridge's offsets, the room's rows, the page's cursor | replay, forward; store, push, page; socket, then poll | overlapping, lost and repeated posts; a bridge that restarts; a page that changes its source | what the code promises to carry arrives, each row once, in order |

### Local store (`src`, `lanes`)

| Component | State | Operations | What is hard | What makes it correct |
|---|---|---|---|---|
| Root receipt store (`utils/receipts.ts`) | `runs.jsonl` and other streams, `.lock/`, `EPOCH.json` | append, verify, rotate the epoch | several processes; a directory as a lock; stale locks; cut off lines; rotation outside the lock | every epoch's segment verifies, nothing sealed is taken back |
| Event bus (`bus/index.ts`) | the same `runs.jsonl` | publish, subscribe | writes without the lock; an append cut short; backfill and offset are two reads | nothing but the gap between them is missed |
| Approvals (`utils/approvals.ts`) | `approvals.json`, `approvals.lock/` | issue, consume | the same lock; the file is written in place | a token is granted once |
| Dispatch (`utils/dispatch.ts`) | one JSON file per plan, tmux sessions | create, arm, launch, container, tail, hold, cancel, collect | unlocked read-modify-write; late container results | nothing unapproved runs; one launch per approval but for lost updates and crashes |
| Recipe jobs (`lanes/recipes/jobs.ts`) | a directory of hard-linked markers per job | start, supervise, execute, cancel, recover | crashes between any two markers; a cancel racing the result; entries run by hand | the native build starts at most once, a verdict stays, a cancelled job stops |
| Escrow engine (`utils/escrow-engine.ts`) | one JSON file per escrow | arm, lock, draw, judge, settle, cancel, slash | unlocked read-modify-write; the file is emptied before it is written | the file verifies; draws exceed the ceiling only by what was overwritten |
| Custody tap (`vault-custody`) | counter and chain in KV | tap | read-modify-write of KV | a counter is accepted once |
| Forge pipeline (`forge/pipeline/`) | `ledger.jsonl`: submissions, stage and toxic records; each rehearsal | submit, transition, spend gate, reap | two processes over one ledger; a crash between the records of one transition | one submission in flight, a toxic prompt never again, a paid run has its submission |

The remaining parts (front ends, adapters, the terminal UI, lanes that drive
external programs, vision) keep no state of their own beyond the stores above;
`PROJECT.json` lists each with the reason it is not modelled.

### How they interact

An HTTP request or a fired schedule becomes a handler of the room's actor. The
handler asks `seal()` for a receipt; seals run one after the other on a promise
chain, insert into SQL and mirror the chain to KV, where the daily head and the
custody pages read it. Locally every command of the CLI, the companion server,
the MCP server and dispatch appends to the root store through `appendReceipt`;
the bus publishes unsealed events into the same file, without the lock, and a
bridge forwards them to a Slate room that pages follow. Approvals use the same
directory lock with a directory of its own; dispatch consumes them; dispatch,
recipe jobs and escrows seal into the root store.

## 2. Modules

| Module | Models | State |
|---|---|---|
| `EdgeChain` | what an edge chain promises: an append-only, linked log | `log` |
| `SealQueue` | `seal()` of `commander.ts` | `sealChain`, `seal` (where each call is), `receipts` (SQL), `mirror` (KV), `hashes` |
| `Commander` | every command of the room, its swarms and restarts, on a `SealQueue` | `state` (the synced state), `req` (handlers under way and what they captured), `calls` (member calls), `schedules`, `memory`, `rows`, `issued`, `runs`, and the queue's |
| `LockDir` | `withLockDir`, one action per system call | `lock` (the directory, its PID, its age), `at`, `dead` |
| `ReceiptStore` | `appendReceipt`, `publish`, `rotateEpoch`, the reader of `verifyChain`, on a `LockDir` | `work` (inside the lock), `chain` and `torn` (`runs.jsonl`), `epochFile`, `tmp`, `rot`, `answered` |
| `Timmy` | the verbs of `timmy.ts`, on a `SealQueue` | `state`, `req`, `memory`, and the queue's |
| `Custody` | the KV store: taps, the mirror of a `SealQueue`, runs of the daily head | `tap`, `head` (requests under way), `last`, `unit`, `days`, `latest`, `today`, and the queue's |
| `SwarmRun` | `runSwarm` and its `Governor` | `phase`, `round`, `pending`, `reply` (the wave), `seats`, `candidates`, `winner`, `answer`, `calls`, `spent`, `exhausted`, the room around it |
| `Dispatch` | `approvals.ts` and `dispatch.ts` | `holder`, `store` (approvals), `plan` (files), `session`, `boxes` (containers), `op` |
| `RecipeJobs` | `jobs.ts`, `job-worker.ts` | `job` (the markers), `proc`, `lateBeat`, `intact`, `changed` |
| `Escrow` | `escrow-engine.ts` | `file`, `op`, `drawn` (receipts) |
| `Forge` | `forge/pipeline` | the ledger (`opens`, `nsfw`, `toxic`, `torn`, `opened`), `plock`, `run`, `script` |
| `EventBus` | `publish`, `subscribe` | `file` in half lines, `published`, `halves`, `sub` |
| `SlateRoom` | bridge, room and page, on an `EventBus` | `bridge`, `posts`, `rows`, `viewer`, `sock` |
| `MC*` | bounds and symmetry for TLC | |
| `*_proofs` | inductive invariants and theorems | |

`SealQueue` implements `EdgeChain` (`ImplementsEdgeChain`, a theorem); `Commander`
implements `SealQueue` and through it `EdgeChain`; `ReceiptStore` runs on the actions of
`LockDir`, and its proofs show that each of its steps is a step of the lock; `Custody`
implements `SealQueue` (`CustodyImplementsSeal`), so the mirror it shares has the
queue's theorems. `Timmy` and `SlateRoom` extend the modules they run on.

### Commander

A handler is a member of `Requests`. `Think(r)` .. `StartSwarm(r)` are handlers up to
their first await; `req[r].pc` says what it awaits: `mind` (OpenRouter), `swarm`
(members), `failed` (a swarm one of whose members failed) or `seal`. `req[r].next` is
the state it captured before the await. `Commit(r)` is what follows the seal:
`Committed(r)` distinguishes the handlers that commit what they captured (think, run a
swarm, handoff, release, kill, revive, mode, cap) from the ones that spread the state
they find (turn, record, schedule, cancel, remember, a skipped schedule), and writes the
rows of SQL. `SealFailed(r)` is an INSERT that threw, `RowFails(r)` the INSERT of a
turn's or swarm's row that throws after the seal: a 500, with the receipt on the chain
and nothing committed. `Restart` evicts the object: handlers and calls are gone, state,
SQL, KV and schedules stay.

What is abstracted. Scheduling points are the mind's and members' calls, the queue,
the hash inside a seal and the KV put; the digests a handler takes before `seal()`
run in the actor turn that read the state. A hash is a number nobody drew before.
`MindRefused` stands for the 400, 403 and unreadable answers that stop a turn
before its seal. The rounding of `applySpend`, token counts and the text of a turn
are left out. The schedule SDK is external: a schedule fires and, when it is a
one-shot, is gone. A swarm's topology is left open: any free slot may be called
while the governor allows it, and the run may end with slots unused, which covers
every topology's `Promise.all`. `billed` is auxiliary. A KV put that lands after
the object has restarted and sealed again is not modelled (one that lands at the
restart is).

### ReceiptStore

A sealing process walks `out`, `trying`, `stale`, `steal`, `made`, `in`, `unlinked`
through `LockDir`; inside, `work[p]` walks `epoch`, `tail`, `sealed`, `done` as
`appendReceipt` reads the epoch, reads the tail, appends, publishes. The file is what
`readChain` makes of it: the receipts it can parse, and what the last line lacks:
nothing, a part (`cut`), or its newline alone (`bare`: a receipt that parses). The next
line is glued to a cut or a bare one and neither parses, so an event can take back a
receipt that `lastReceipt` has read (`misread`). Anybody may die between any two system
calls; `Publish` writes without the lock; `Rotate` opens, writes and renames
`EPOCH.json.tmp` without the lock.

A lock's PID counts as dead when `kill` throws for whatever reason: `Unprobed` is the set of
pairs of processes of which the first may not signal the second (EPERM).

What is abstracted. A PID that is used again, and a `rmSync` interleaved with other
processes between its two unlinks, are left out (it may fail half way). A PID file that
is still empty reads as 0 and counts as alive, as `kill(0, 0)` says; one that does not
parse would count as dead, and nothing in the code writes one. There is one stream;
others have files of their own under the same lock. Signatures, the environment lock and
wall clock are data. `tears`, `overlap`, `misread` and `turnedBack` are auxiliary: cut
off lines so far, whether two processes were ever inside at once, whether a receipt was
taken back between being read and cited, whether the epoch anybody reads went down.

### Timmy and Custody

Both run on `SealQueue` unchanged. In `Timmy` a request is a verb: `Think` and the
mind's answer, `Profile` and `Remember` end in `AskSeal`, and `Sealed` is the commit
in the same turn as the KV put's return. `lost` is auxiliary: a commit wrote over
another's or was never made. In `Custody` every KV get and put of a tap
(`TapRead`, `TapSet`, `TapGet`, `TapPut`) and of a head run (`HeadStart`, `ReadUnit`,
`ReadMirror`, `MakeHead`, `PutDay`, `PutLatest`) is a step, and a request may die
between any two. One unit with one production tag; receipts are told apart by their
counters. `overlapped`, `crossed` and `torn` are auxiliary: two taps of the unit were
under way at once, a head run met midnight, one died between its two puts. KV is
taken as linearizable; Workers KV is only eventually consistent.

### SwarmRun

A run is a series of waves: all members, one link of a relay, or the judge. `Call` sends
a wave out after asking the governor for every call in it, `Return` is one answer (text,
blank, failure), and a step of the topology takes the wave that is back. What texts say
is a choice where the code parses it: votes and picks. The room's hold, the kill signal
and the time limit may come at any moment. A call may never come back: it has no time
limit of its own, and the governor's `max_ms` is only looked at before a call.
`Commander` seals what a run's calls answer; `SwarmRun` is the inside of the call that
`Commander` leaves open.

### Dispatch, RecipeJobs, Escrow, Forge

`Dispatch`: one operation per process, with the copy of the plan it read; `stale` says
that the file was written since. The approvals' lock is exclusive until somebody dies in
it (`orphaned`); from then on a process may steal it, and find in it another one who
stole it first (`Enter`, `overlap`). What else the lock may do wrong, its age and a PID
that may not be probed, is in `LockDir`. The file under it is emptied and then written.
A tail's look at tmux may fail for a session that is there. Whoever edits a plan file,
and tmux sessions that end, are external.

`RecipeJobs`: `Once` writes a marker that is never replaced (a hard link). A process is
a client, a supervisor or a worker; entries may be run by hand (`stray`), and `Crash` ends
any process at any step: it is killed, or throws where nothing catches it, as on a
`worker.log` that is there, a job `loadJob` refuses, a workspace that is no directory or a
later heartbeat. The first heartbeat's failure is caught: its worker is not waited for
(`stray`). A result is one bit of evidence: whether `completion` verifies it.

`Escrow`: `Prepare` reads and changes a copy, `Cut` empties the file, `Write` fills it,
`Receipt` appends. Money is in the smallest unit, and draws are positive: `drawEscrow` itself
takes any number, its callers pass positive ones.

`Forge`: `Transition` is the pure stage machine; a rehearsal asks the gate, submits,
starts, steps through the script's outcome, and records each transition in up to three
appends, each a step (`RecordStage`, `RecordToxic`, `RecordClose`). A torn ledger makes
every reader throw (`Throw`). The pipeline's lock is as the approvals': exclusive until
somebody dies in it, then stolen, if need be by two (`Entered`). After a death two that
append at once may give two records one number, which every reader refuses (`Clash`).

### EventBus and SlateRoom

The bus file is a sequence of half lines: an append that is cut short leaves the first
half and may end it after others wrote. `Backfill`, `TakeOffset` and `Drain` are
`subscribe`. A bridge takes its offset, replays, and posts what each tick finds without
waiting for earlier posts; `posts` arrive in any order or not at all, their answer may
be lost, and a bridge may die with posts under way. `Id` is the id the bridge makes of
an event, `Refused` what `normalizeEvent` does not let through. The room stores a post
and then pushes its rows in one turn; when an INSERT throws in the middle, the rows
before it stay and are not pushed (`PostFails`). The page takes the tail and pushes of
its socket, and after two failures pages by its cursor. Auxiliary: `read`, `start`
(where the backfill ended and the offset began), `lost` (a post of this bridge did not
reach the room whole), `overrun` (more rows than a tail came while the socket was down),
`unsent` (an open socket was not sent a row that was stored). Left out: a second bus
file, the order of events by time, a truncated bus file, a callback that throws, the
filter, multi-byte characters cut by a read, and the page's other sources.

## 3. Runs

| Run | Instance | Shows |
|---|---|---|
| `commander_hold` | 2 handlers, 2 members, 1 token, 4 seals; think, turn, handoff, release, kill, revive, swarm | held means paused, ledger, head, a run cites exactly its members, implements `EdgeChain` |
| `commander_room` | 2 handlers, 2 modes, 2 caps, 3 seals; think, mode, cap, schedule, cancel, remember, record, kill, fired schedules | handlers are answered |
| `commander_kill` | violated: `OnlyReviveUnkills` | a think that was waiting for its receipt un-kills the room |
| `timmy` | 3 verbs at a time, 4 seals, 2 budgets | the state follows the chain unless a commit was overwritten or lost |
| `custody` | 2 taps, 2 head runs, 1 sealing object, 2 days | mirror, heads, linked days, counters |
| `swarm_run` | 3 members, 8 topologies, 3 call caps, a budget of 2, 2 council rounds | overspend of one wave, no good answer lost, a run whose calls come back ends |
| `receipt_store` | 2 processes, 2 rotators, 2 receipts, 1 cut off line | segments verify, writers never overlap before a death, lost at most what was cut off, what can be read stays |
| `dispatch` | 2 processes (3 around the approvals' lock), 1 plan, 2 contents (one in a container), 2 tokens, 1 lost update, 1 death | a token is spent once unless the lock was stolen twice, nothing unapproved runs, launches are paid for |
| `recipe_jobs` | 3 processes, unbounded | one native build, cancelled means stopped, a claimed job has an owner until its owner is lost, a verdict stays |
| `escrow` | 3 processes, ceiling 2, 1 lost update | the file verifies, draws bounded, final states stay |
| `forge` | 2 rehearsals under 4 plans, 3 under a plan of one generation, 1 death | one submission, never again after nsfw (both unless the lock was stolen twice), paid is open |
| `slate_room` | 4 events (two with one id, one of them refused, one in halves), 2 starts of the bridge, 2 posts at once, tails of 1 row | only the gaps the code leaves are missed, rows once and in order |

`commander_kill` is a disagreement between the code and a comment of the
repository; `PROJECT.json` quotes the line.

Bounds. `MaxSeals` bounds the receipts computed or due to handlers under way, `MaxRuns`
the swarms, `MaxHashes` the receipts signed, `MaxTears` the cut off lines, `MaxLost` the
copies written over a newer file, `MaxDead` the deaths, `MaxBoxes` the containers of a
process, `MaxUnit` the receipts of a unit, `MaxEvents`, `MaxShort`, `MaxBoots` and
`MaxPosts` what their names say. Two overlapping handlers or verbs are what a stale
commit needs: one that captures and one that commits between; a third verb lets a queue
form behind them. Two member slots and two runs interleave member receipts. Two
processes are what a lost update needs, a third (jobs, escrows) is the supervisor's
worker, or whoever reads what was overwritten; for a lock (dispatch, forge) it is the
one that dies in it, so that the other two may steal it in turn; `Third` is the process
that works only while tokens are minted and a plan is armed, `Crew` the number of
rehearsals that have begun under any plan but that of one generation. One lost update,
or one death, is what each excuse of a property costs; the bounds that the properties
state grow with their number. In `custody` a behaviour has one of its three excuses at
most. In `slate_room` three rows and tails of one make the page truncate, the cursor
matter and the overrun happen; the subscriber runs in behaviours without a bridge only,
as two readers of a file cannot meet. What the bounds leave out for the properties that
are proved is what the theorems cover. Runs set `CHECK_DEADLOCK FALSE` because an
instance that has used up its bound, a job with a verdict, a run with its answer or a
settled escrow stops.

Symmetry is used in runs without liveness, over sets whose members only the model
distinguishes.

Fairness. `HandlersAnswered` assumes weak fairness of the steps of a pending seal
alone: a digest, an INSERT and a KV put answer or throw; nothing is assumed of the
mind, of members, of clients or of schedules. `RunEnds` assumes that a run goes on
when its wave is back, and speaks of the behaviours whose calls come back
(`[]<>(pending = {})` is its premise): nothing in the code makes a call come back. Nothing
is assumed of the room around the run. All others are safety
properties: a waiter for a lock may wait until it times out, a bus may stay silent.

## 4. Proofs

| Module | Theorems | Say |
|---|---|---|
| `SealQueue_proofs` | `SealTypeCorrect`, `SealChainLinked`, `SealMirrorIsPrefix`, `SealImplementsEdgeChain` | the queue, for any jobs and bodies |
| `Commander_proofs` | `RoomTypeCorrect`, `RoomHeldMeansPaused`, `RoomLedgerNeverOverBills`, `RoomHeadNeverRegresses`, `RoomImplementsSealQueue`, `RoomImplementsEdgeChain`, `SwarmsCiteAll` | the room, for any number of handlers, members, tokens, schedules |
| `Records_proofs` | `CustodyImplementsSeal`, `CustodyMirror`, `CountersAlwaysIncrease`, `HeadsAlwaysList`, `DaysAlwaysLinked` | the KV store, for any number of taps, head runs, seals and days |
| | `TimmyImplementsSeal`, `TimmyTypeCorrect`, `TimmyFollowsChain` | a Timmy, for any verbs, costs and budgets |
| | `FileAlwaysVerifies`, `DrawsAlwaysBounded`, `FinalStaysFinal` | an escrow, for any processes, ceiling and draws |
| `SwarmRun_proofs` | `RunTypeCorrect`, `RunOverspendBounded`, `RunLosesNothing` | a run in each topology, for any members, weights, budget, caps, prices |
| `Logs_proofs` | `LockTypeCorrect`, `LockLiveExclusive` | the lock, for any processes |
| | `StoreImplementsLock`, `StoreTypeCorrect`, `StoreSegmentsVerify`, `StoreLiveWritersNeverOverlap`, `StoreLostAtMostTears`, `StoreAppendOnly` | the store, for any processes, rotators and epochs |
| | `SubscriberMissesOnlyTheGap`, `BridgeLosesNothingOfItsOwn`, `BoardIsInOrder`, `BoardSkipsNothing` | the bus and the room it feeds, for any events, ids, posts, restarts, sizes of a tail and of a post |
| `Dispatch_proofs` | `DispatchTypeCorrect`, `TokensSpentOnce`, `OnlyApprovedRuns`, `PaidInvariant`, `LaunchesArePaidFor` | approvals and dispatch, for any processes, plans, tokens, contents, lost updates and deaths |
| `RecipeJobs_proofs` | `JobTypeCorrect`, `BuildsOnce`, `VerdictFinal`, `CancelledStopped`, `JobHasOwner` | a job, for any processes |
| `Forge_proofs` | `ForgeTypeCorrect`, `OneSubmissionAlways`, `NeverRerunAlways`, `PaidAlwaysOpen`, `SpendsWithinPlan` | the forge, for any rehearsals, plans and caps |

Assumptions are the modules' named ones: caps, costs, prices and budgets are numbers,
nobody is not a token or process, the set of notes is finite, epochs, days and sizes
are positive.

*The queue* (`SealInv`). The chain is linked because an insert extends the chain it
read, which holds because only the head of `sealChain` works (`OnlyHeadWorks`). A
new hash is above all on the chain (`HashesDrawn`).

*The room* (`RoomInv`). The properties say something of `state`; handlers commit
what they captured earlier, so the invariant says the same of every captured state:
it is paused if held (`NextIsPaused`), and it owes at most what its pending receipt
bills (`NextIsBilled`, which knows whether the receipt has been inserted, hence is
part of `billed`). Heads only move forward because the receipt a handler commits
is the last of the chain when it commits (`HeadOnChain`, `PuttingSealed`). A row that fails
only ends its handler, and what it did not commit is billed all the same.

*What a run cites* (`CiteInv`). Runs under way have different numbers (`RunsApart`), and
member receipts carry the one of their swarm (`MemberBodies`), so no two swarms add to
one list. A swarm has counted every member receipt of its run on the chain but those
its calls have not returned yet (`SwarmCounts`); the body it asks a receipt for, and
the receipt, keep what the list was when its run was over (`RunBodies`, `RunReceipts`).

*The KV store.* Its steps leave the queue's variables alone or are the queue's, so it
implements `SealSpec` and `MirrorIsPrefix` follows. For the taps (`TapInv`) a counter
under way is above the chain while taps do not overlap. For the heads (`HeadInv`) what
a run has read is a beginning of a chain, because chains only grow; for the days
(`DayInv`) the head a run links to is one of an earlier day, unless it met midnight or one died
between its two puts.

*A Timmy* (`TimmyInv`). What a verb captured fits what it will bill (`Asked`). The state
says what the chain says of spend and budget whenever no receipt waits for its commit;
while one does, what the chain without it says (`Follow`). The sum of a chain is a
recursive function; that it exists and grows with an `Append` is shown by induction
over the set of lengths (lemma `Induction`, from the well-foundedness of `<`).

*An escrow* (`EscrowInv`). The file and every copy satisfy what `verifyEscrow` asks
(`Copies`). Draws that still owe their receipt are counted as a set of units (`Due`);
together with the receipts they exceed what the last copy written counts by one
ceiling at most for each copy written over a newer one (`Accounted`). After a verdict
only stale copies are left (`Ended`).

*The swarm* (`SwarmInv`). The property is inductive with types: a wave goes out while
the ledger is below the budget, and the calls of it that are still out are exactly
those that may still cost.

*No answer lost* (`RunInv`). The theorem excuses the judge's, a member's and a seat's
blank alike, and a council none of whose most voted seats has a position. A text on
record makes the swarm ok and a blank one is remembered (`Spoken`); the links of a relay
before the one asked have answered, and a text among them is kept (`Links`); the judge
is only asked when there is a choice (`Choices`). So a run that ends without a blank has
its answer unless nothing was good or the council voted for nobody seated (`Ended`).

*The lock* (`LiveExclusive`). While nobody died and everybody may be probed nobody reaches
`steal`, so a directory is removed by its maker only, so it is there while somebody holds it.

*The store* (`Inv`). Unless writers overlapped, the epoch was set back or a receipt was
taken back after it was read: whoever is inside is alone; epochs go up along the file
and up to the one in `EPOCH.json`; so what the process inside has read, the epoch and
the tail, still says at the append what its receipt has to cite, although rotations and
bus lines fall in between (`WorkIsFresh`). Without any proviso: each receipt that cannot
be read back is paid for by a cut off line (`TearsPay`), and a receipt without its
newline, the only one a later line can take back, is the last and was answered to nobody
(`StoreAppendOnly`). Each step of the store is a step of `LockDir` or leaves its
variables alone.

*Approvals and dispatch*, in layers. Until the lock is orphaned and two came to be in it
(`Shape` says when that may be), the list of tokens is written by whoever holds it, who is
alone (`Exclusive`), so each token is granted once (`TokenInv`). A plan,
or a copy of it, whose approved hash is a content was granted a token for it
(`ApprovalInv`). For the count, a copy differs from its file only if the file was
written since it was read (`Copies`); then, for each content, launches, armed plans and
answers under way are as many at most as its grants, the lost updates and the deaths
(`Paid`), by cardinalities of the three sets.

*Jobs* (`JobInv`). A process relies on markers that are never taken back (`Sound`): who
is about to claim the native build saw the execution claimed and the job not cancelled
early; a verdict for `recovered.json` refines an interrupted one. A build needs the
native marker, which is written once. For cancellation and owners (`LineInv`): unless
an entry was run by hand or a worker is not waited for (`stray`), one process leads the job
at most and only its child works, and nobody does once the job is cancelled without a result
(`OneLine`); and a job that is claimed and has no verdict (`Unjudged`) has a process that
will give it one, before its execution is claimed and after, unless a process that owned it
crashed (`Attended`). What becomes of clients, workers and losing supervisors is no excuse.

*The forge* (`ForgeInv`). Per rehearsal: the stage and counters fit what is left to
record (`Staged`), what was spent and what the gate allowed fit the plan (`Afford`),
and a generation in flight has its submission open (`Funded`). Each step of a rehearsal
keeps its own part, and `DriveKeeps` the others'. All of this holds whoever is in the lock;
until two are in it at once (`Exclusive`) one submission is open at most, and whoever is
between two records holds the lock, so that nobody submits between a nsfw record and its
toxic mark.

*The bus* (`BusOK`, `SubOK`). A first half is written once, so an event has one place
in the file (`BusOK`). What the subscriber was given it was given at places that go up
and lie before what it has read (`GivenAt`); of the whole lines in what it has read,
the ones it was not given touch the gap (`Got`); `Base`, its offset less what its buffer
holds, is where the next `Drain` parses from. What `Parse` selects is described by one
predicate (`PicksAt`: the chosen places, in order, all of them), shown by induction over
the length for the recursive function behind it (`Picked`), so that the steps argue about
places and never about how the function computes.

*The bridge* (`BridgeOK`). `Mine` is what is in the rows or in a post of this start of the
bridge, less what the room refuses. Rows are never taken away and a post that arrives whole
leaves its ids among them, so what is `Mine` stays so until a post is lost, cut or fails.
Until then `Mine` has what the bridge replayed and every whole line it passed
(`BridgeKeeps`, `Carried`). Posts of
an earlier start only add to it.

*The page* (`PageInv`). Each message is a run of rows that are stored, and the page takes no
row twice (`OnceOK`). The rest holds until the room stores a row that it does not send an open
socket (`unsent`, `PageOK`). The messages on a socket are runs of consecutive rows, none of which
starts beyond the row after the last one's end (`Chained`), and the last of them ends with
the last row (`Reaches`). What is shown goes up and does not pass the cursor (`Shown`);
from some row `lo` on, the first one shown unless there was an overrun, it is every row
up to the cursor (`Follows`). A message that starts beyond the cursor's next row comes
first of all or after an overrun (`Jumps`). So a row that comes again is shown already and
a new one belongs at the end.

Model-checked only: liveness (`HandlersAnswered`, `RunEnds`), which is out of the
prover's reach, as is ENABLED. Every invariant and action property of a passing run is
the property of a theorem.
`ImplementsSealQueue` is proved and not run: TLC
cannot enumerate the bodies of a room.

## 5. Observations

What the models reach and the code promises nothing else of, or left to whoever
operates it. None is stated as a property.

- Commander: a think that starts while a kill waits for its receipt runs on in the
  killed room (`commander.ts:179`); a running swarm's gate tests killed and not held
  (`:334`); `cmdMode` writes the ledger it read back (`:199`); `applyKill` pauses a room
  nobody holds; `chatOnce` says it cost nothing when it is aborted after a paid round.
- Timmy: a think commits its captured state over a budget set meanwhile (`timmy.ts:146`).
- Commander: a row that cannot be inserted after its seal leaves a receipt whose spend and
  count the state never shows (`commander.ts:142`).
- Swarm: a call has no time limit of its own, so one that never comes back holds its run;
  `exhausted` stays set after a hold was lifted; a council whose most voted
  seat did not answer has no winner; a judge that answers blank wipes good answers; a
  member named `judge` does not count for `ok`. `NothingLost` states when.
- Custody: overlapping taps lose a receipt or repeat a counter; a head run that
  crosses midnight may link a day to a later one.
- Locks: two waiters that steal a dead lock one after the other are both in it
  (`receipts.ts:200`), after which the tail of a store forks, a token may be granted twice, two
  submissions may be open; a live process of another user counts as dead (`:184`).
- Root store: a receipt without its newline may be cited and then spoilt by a bus line;
  two rotations share `EPOCH.json.tmp` (`:223`); an operator may set the epoch back
  (`cli.ts:824`).
- Dispatch: `tailLane` takes a running container plan, or a capture that times out, for
  failed; hold and cancel do
  not stop a container; a container that ends late moves an archived plan to judging.
- Recipe jobs: a supervisor or worker run by hand can record `cancelled` while another
  builds, and so can a supervisor whose first heartbeat cannot be written, before its
  worker is killed (`jobs.ts:229`); a client or supervisor that throws between the claim
  and the verdict (`:126`, `:216`, `:222`) leaves a claimed job to nobody until it is
  recovered; a job claimed after its cancellation says cancelled, then running; a worker
  killed at 150 s after it recorded its result leaves `failed`.
- Escrow: two draws at once may each pass the ceiling; a draw that read the file before it
  was settled brings it back.
- Forge: a rehearsal that finds its mission in flight goes on with that submission, and
  the other one's exit closes it under this one.
- Event bus: lines appended between `subscribe`'s backfill and its offset are not
  delivered; an offset taken in the middle of a line loses that line, in the bridge too.
- Slate: an id is the first 60 characters of a base64 text (`bus-bridge.mjs:39`), so events
  of one kind and one millisecond whose payloads begin alike share it, and the first is
  kept; a post that fails after the replay is logged and not sent again; overlapping posts
  may change the order of rows; a post over 500 events is cut; an INSERT that throws in the
  middle of a post leaves rows that no socket is sent (`room.ts:89`); what `normalizeEvent`
  refuses the bridge only sees counted; more rows than a tail, stored while a socket is down,
  are skipped for good; `wsFailures` is never reset, so the second
  disconnection of a page's life ends its socket.

## 6. Not modelled, and what is left

The edge worker's front, the companion server's routes, the MCP server, the terminal UI
and the command line translate requests into the operations above or draw state: they
keep none that others rely on. The agent runtime, harness policy, warroom and
the lanes that drive external programs call models and processes whose answers are data.
Vision and spatial evidence, privacy and NFC messages are pure computations over bytes.
`PROJECT.json` says so of each.

Parts of modelled components that are left: demo tags of the tap, the companion server's
own tail of the bus, several segments and a measured balance in the forge. Worth
stating next: that an event published while nothing is lost reaches the page; that a
swarm's ledger and a room's agree.
