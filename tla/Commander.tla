----------------------------- MODULE Commander -----------------------------
(***************************************************************************)
(* The Commander durable object: one actor per room.  Handlers interleave  *)
(* at their awaits.  Every command reads this.state, computes what it will *)
(* write, asks seal() for a receipt and, when the receipt is sealed,       *)
(* commits.  Some handlers commit the state they computed BEFORE the seal  *)
(* (think, swarm, handoff, release, kill, revive, mode, cap), some spread  *)
(* the state they find AFTER it (turn, record, schedule, cancel, remember, *)
(* a skipped schedule); field `next' of a request is what it captured.     *)
(*                                                                         *)
(* Awaits modelled as scheduling points: the mind's and the swarm members' *)
(* calls, the queue of seals, the hash inside a seal and the KV put.  The  *)
(* digests a handler takes before it calls seal() run in the same turn of  *)
(* the actor as the read of this.state and are part of the first step.     *)
(***************************************************************************)
EXTENDS Naturals, Sequences, FiniteSets

CONSTANTS Requests,    \* handler invocations that can be under way together
          Members,     \* call slots of one swarm run (members and judge)
          Tokens,      \* hold tokens newHoldToken can mint
          Modes,       \* generate, bodybuilder, fusion
          Caps,        \* values POST /cap may set
          Costs,       \* what one mind turn or one member call may cost
          SwarmBudget, \* spec.budget.usd of the swarms asked for; 0 is no limit
          Schedules,   \* schedule ids
          Notes,       \* memory keys
          Commands,    \* commands this room receives
          FirstMode, FirstCap, Nobody

ASSUME CommanderAssumption ==
  /\ Caps \subseteq Nat /\ Costs \subseteq Nat /\ SwarmBudget \in Nat
  /\ FirstMode \in Modes /\ FirstCap \in Nat
  /\ Nobody \notin Tokens
  /\ IsFiniteSet(Notes)

Own == "own"
ASSUME OwnAssumption == Own \notin Members

VARIABLES
  state,      \* the synced CommanderState
  req,        \* the handler invocations
  calls,      \* the member calls of each swarm under way
  schedules,  \* schedules the SDK still has to fire
  memory,     \* keys in SQL table memory
  rows,       \* SQL tables turns and swarms, by receipt
  issued,     \* hold tokens minted so far
  runs,       \* swarm run ids drawn so far
  billed,     \* auxiliary: usd of the turns and swarm runs sealed so far
  sealChain, seal, receipts, mirror, hashes

roomVars == <<state, req, calls, schedules, memory, rows, issued, runs, billed>>
sealVars == <<sealChain, seal, receipts, mirror, hashes>>
vars == <<roomVars, sealVars>>

Kinds == {"turn", "handoff", "release", "kill", "revive", "mode", "cap", "schedule",
          "cancel", "remember", "member", "run"}

\* What a receipt says: its kind, the usd it reports, the swarm run it is of
\* (0 for none) and the member receipts it cites.
Body == [kind : Kinds, usd : Nat, run : Nat, cites : SUBSET Nat]
Plain(k) == [kind |-> k, usd |-> 0, run |-> 0, cites |-> {}]

Jobs == Requests \X (Members \cup {Own})
Seal == INSTANCE SealQueue WITH Jobs <- Jobs, Bodies <- Body

State == [mode : Modes, held_by : Tokens \cup {Nobody}, openrouter_paused : BOOLEAN,
          killed : BOOLEAN, usd : Nat, cap_usd : Nat, turns : Nat, swarms : Nat,
          memory_notes : Nat, head : Nat]

InitialState ==
  [mode |-> FirstMode, held_by |-> Nobody, openrouter_paused |-> FALSE,
   killed |-> FALSE, usd |-> 0, cap_usd |-> FirstCap, turns |-> 0, swarms |-> 0,
   memory_notes |-> 0, head |-> 0]

AllCommands == {"think", "turn", "handoff", "release", "kill", "revive", "mode", "cap",
                "schedule", "cancel", "remember", "record", "swarm", "skip"}

Request == [pc : {"idle", "mind", "swarm", "failed", "seal"}, cmd : AllCommands,
            next : State, aborted : BOOLEAN, spent : Nat, run : Nat, cites : SUBSET Nat]

NoRequest == [pc |-> "idle", cmd |-> "skip", next |-> InitialState, aborted |-> FALSE,
              spent |-> 0, run |-> 0, cites |-> {}]

NoCalls == [m \in Members |-> "free"]

TypeOK ==
  /\ state \in State
  /\ req \in [Requests -> Request]
  /\ calls \in [Requests -> [Members -> {"free", "calling", "sealing", "sealed"}]]
  /\ schedules \in SUBSET Schedules
  /\ memory \in SUBSET Notes
  /\ rows \in SUBSET [table : {"turns", "swarms"}, receipt : Nat]
  /\ issued \in SUBSET Tokens
  /\ runs \in Nat
  /\ billed \in Nat
  \* Whoever waits for a seal has one pending, and nobody else.
  /\ \A r \in Requests : req[r].pc = "seal" <=> seal[<<r, Own>>].at # "idle"
  /\ \A r \in Requests, m \in Members :
       calls[r][m] = "sealing" <=> seal[<<r, m>>].at # "idle"

Init ==
  /\ state = InitialState
  /\ req = [r \in Requests |-> NoRequest]
  /\ calls = [r \in Requests |-> NoCalls]
  /\ schedules = {}
  /\ memory = {}
  /\ rows = {}
  /\ issued = {}
  /\ runs = 0
  /\ billed = 0
  /\ Seal!SealInit

-----------------------------------------------------------------------------
(* Pure transitions of commander-core.ts *)

\* canThink: not killed, not held, below the cap.
CanThink(s) == ~s.killed /\ s.held_by = Nobody /\ s.usd < s.cap_usd

\* (A bug: a call is added when it answers and again when it is counted.)
ApplySpend_Twice(s, u) == [s EXCEPT !.usd = @ + u + u]
ApplySpend(s, u) == [s EXCEPT !.usd = @ + u]
ApplyHandoff(s, t) == [s EXCEPT !.held_by = t, !.openrouter_paused = TRUE]
ApplyRelease(s) == [s EXCEPT !.held_by = Nobody, !.openrouter_paused = FALSE]
ApplyKill(s) == [s EXCEPT !.killed = TRUE, !.openrouter_paused = TRUE]
\* (A bug: reviving un-pauses the mind although a harness holds the role.)
ApplyRevive_Unpaused(s) == [s EXCEPT !.killed = FALSE, !.openrouter_paused = FALSE]
ApplyRevive(s) == [s EXCEPT !.killed = FALSE, !.openrouter_paused = (s.held_by # Nobody)]
ApplyMode(s, m) == [s EXCEPT !.mode = m]
ApplyCap(s, c) == [s EXCEPT !.cap_usd = c]

-----------------------------------------------------------------------------
(* Handlers, up to their first await *)

Free(r, c) == req[r].pc = "idle" /\ c \in Commands

\* A request that has asked for its own receipt and captured state s.
Sealing(c, s) == [NoRequest EXCEPT !.pc = "seal", !.cmd = c, !.next = s]

AskSeal(r, c, body, s) ==
  /\ Seal!Enqueue(<<r, Own>>, body)
  /\ req' = [req EXCEPT ![r] = Sealing(c, s)]

\* cmdThink up to the mind's call.
StartMind(r) == req' = [req EXCEPT ![r] = [NoRequest EXCEPT !.pc = "mind", !.cmd = "think"]]

Think(r) ==
  /\ Free(r, "think")
  /\ CanThink(state)
  /\ StartMind(r)
  /\ UNCHANGED <<state, calls, schedules, memory, rows, issued, runs, billed, sealVars>>

\* executeTurn has answered (or was aborted, and may have spent before that):
\* the spend is applied to the state of this moment.
MindAnswered(r) ==
  /\ req[r].pc = "mind"
  /\ \E u \in Costs : AskSeal(r, "think", [Plain("turn") EXCEPT !.usd = u], ApplySpend(state, u))
  /\ UNCHANGED <<state, calls, schedules, memory, rows, issued, runs, billed>>

\* executeTurn threw (a 400 or 403, or an answer it cannot read): the handler
\* ends without a receipt.
MindRefused(r) ==
  /\ req[r].pc = "mind"
  /\ req' = [req EXCEPT ![r] = NoRequest]
  /\ UNCHANGED <<state, calls, schedules, memory, rows, issued, runs, billed, sealVars>>

\* cmdTurn: the holder, showing the token of the hold in force.
HolderTurn(r) ==
  /\ Free(r, "turn")
  /\ state.held_by # Nobody
  /\ AskSeal(r, "turn", Plain("turn"), state)
  /\ UNCHANGED <<state, calls, schedules, memory, rows, issued, runs, billed>>

Handoff(r) ==
  /\ Free(r, "handoff")
  /\ ~state.killed
  /\ state.held_by = Nobody
  /\ \E t \in Tokens \ issued :
       /\ issued' = issued \cup {t}
       /\ AskSeal(r, "handoff", Plain("handoff"), ApplyHandoff(state, t))
  /\ UNCHANGED <<state, calls, schedules, memory, rows, runs, billed>>

\* cmdRelease, by the holder's token or forced by the operator.
Release(r) ==
  /\ Free(r, "release")
  /\ state.held_by # Nobody
  /\ AskSeal(r, "release", Plain("release"), ApplyRelease(state))
  /\ UNCHANGED <<state, calls, schedules, memory, rows, issued, runs, billed>>

\* cmdKill: the state is captured first, then every call in flight is aborted
\* and every schedule cancelled; killed is set only when the receipt is sealed.
Kill(r) ==
  /\ Free(r, "kill")
  /\ Seal!Enqueue(<<r, Own>>, Plain("kill"))
  /\ req' = [q \in Requests |->
               IF q = r THEN Sealing("kill", ApplyKill(state))
               ELSE [req[q] EXCEPT !.aborted = @ \/ req[q].pc \in {"mind", "swarm"}]]
  /\ schedules' = {}
  /\ UNCHANGED <<state, calls, memory, rows, issued, runs, billed>>

Revive(r) ==
  /\ Free(r, "revive")
  /\ state.killed
  /\ AskSeal(r, "revive", Plain("revive"), ApplyRevive(state))
  /\ UNCHANGED <<state, calls, schedules, memory, rows, issued, runs, billed>>

SetMode(r) ==
  /\ Free(r, "mode")
  /\ \E m \in Modes : AskSeal(r, "mode", Plain("mode"), ApplyMode(state, m))
  /\ UNCHANGED <<state, calls, schedules, memory, rows, issued, runs, billed>>

SetCap(r) ==
  /\ Free(r, "cap")
  /\ \E c \in Caps : AskSeal(r, "cap", Plain("cap"), ApplyCap(state, c))
  /\ UNCHANGED <<state, calls, schedules, memory, rows, issued, runs, billed>>

Schedule(r) ==
  /\ Free(r, "schedule")
  /\ ~state.killed
  /\ \E s \in Schedules \ schedules : schedules' = schedules \cup {s}
  /\ AskSeal(r, "schedule", Plain("schedule"), state)
  /\ UNCHANGED <<state, calls, memory, rows, issued, runs, billed>>

Cancel(r) ==
  /\ Free(r, "cancel")
  /\ \E s \in Schedules : schedules' = schedules \ {s}
  /\ AskSeal(r, "cancel", Plain("cancel"), state)
  /\ UNCHANGED <<state, calls, memory, rows, issued, runs, billed>>

\* cmdRemember writes or forgets one key in SQL and counts the keys before it
\* asks for the receipt.
Remember(r) ==
  /\ Free(r, "remember")
  /\ \E k \in Notes : memory' \in {memory \cup {k}, memory \ {k}}
  /\ AskSeal(r, "remember", Plain("remember"),
             [state EXCEPT !.memory_notes = Cardinality(memory')])
  /\ UNCHANGED <<state, calls, schedules, rows, issued, runs, billed>>

\* cmdSwarm with body.record: a swarm run elsewhere is recorded here.
RecordSwarm(r) ==
  /\ Free(r, "record")
  /\ \E u \in Costs : AskSeal(r, "record", [Plain("run") EXCEPT !.usd = u], state)
  /\ UNCHANGED <<state, calls, schedules, memory, rows, issued, runs, billed>>

\* scheduledThink: a schedule fires (a cron one stays); the mind runs, or the
\* skip is sealed as a turn that did not run.
Fire(r) ==
  /\ req[r].pc = "idle"
  /\ \E s \in schedules : schedules' \in {schedules, schedules \ {s}}
  /\ \/ CanThink(state) /\ StartMind(r) /\ UNCHANGED sealVars
     \/ ~CanThink(state) /\ AskSeal(r, "skip", Plain("turn"), state)
  /\ UNCHANGED <<state, calls, memory, rows, issued, runs, billed>>

-----------------------------------------------------------------------------
(* A swarm on this room *)

StartSwarm(r) ==
  /\ Free(r, "swarm")
  /\ CanThink(state)
  /\ SwarmBudget + state.usd <= state.cap_usd
  /\ runs' = runs + 1
  /\ req' = [req EXCEPT ![r] = [NoRequest EXCEPT !.pc = "swarm", !.cmd = "swarm",
                                                 !.run = runs + 1]]
  /\ UNCHANGED <<state, calls, schedules, memory, rows, issued, billed, sealVars>>

\* Governor.allow: not aborted, the room is not killed, budget left.
GovernorAllows(r) ==
  /\ ~req[r].aborted
  /\ ~state.killed
  /\ SwarmBudget = 0 \/ req[r].spent < SwarmBudget

MemberCall(r, m) ==
  /\ req[r].pc = "swarm"
  /\ calls[r][m] = "free"
  /\ GovernorAllows(r)
  /\ calls' = [calls EXCEPT ![r][m] = "calling"]
  /\ UNCHANGED <<state, req, schedules, memory, rows, issued, runs, billed, sealVars>>

\* exec: the member answered; its call is sealed as swarm.member.
MemberAnswered(r, m) ==
  /\ calls[r][m] = "calling"
  /\ calls' = [calls EXCEPT ![r][m] = "sealing"]
  /\ \E u \in Costs :
       Seal!Enqueue(<<r, m>>, [kind |-> "member", usd |-> u, run |-> req[r].run, cites |-> {}])
  /\ UNCHANGED <<state, req, schedules, memory, rows, issued, runs, billed>>

Busy(r) == \E m \in Members : calls[r][m] \in {"calling", "sealing"}

RunBody(r) ==
  [kind |-> "run", usd |-> req[r].spent, run |-> req[r].run, cites |-> req[r].cites]

\* (A bug: the run is summed up without awaiting every member.)
SwarmDone_NoAwait(r) ==
  /\ req[r].pc = "swarm"
  /\ AskSeal(r, "swarm", RunBody(r), ApplySpend(state, req[r].spent))
  /\ calls' = [calls EXCEPT ![r] = NoCalls]
  /\ UNCHANGED <<state, schedules, memory, rows, issued, runs, billed>>

\* (A bug: the run's usd is added once for the run and once for its calls.)
SwarmDone_Twice(r) ==
  /\ req[r].pc = "swarm"
  /\ ~Busy(r)
  /\ AskSeal(r, "swarm", RunBody(r), ApplySpend(ApplySpend(state, req[r].spent), req[r].spent))
  /\ calls' = [calls EXCEPT ![r] = NoCalls]
  /\ UNCHANGED <<state, schedules, memory, rows, issued, runs, billed>>

\* runSwarm returned: what its calls cost is applied to the state of this
\* moment and swarm.run is sealed, citing the receipts of every member call.
\* Which slots a topology calls is left open: a slot may stay free.
SwarmDone(r) ==
  /\ req[r].pc = "swarm"
  /\ ~Busy(r)
  /\ AskSeal(r, "swarm", RunBody(r), ApplySpend(state, req[r].spent))
  /\ calls' = [calls EXCEPT ![r] = NoCalls]
  /\ UNCHANGED <<state, schedules, memory, rows, issued, runs, billed>>

\* A swarm whose member could not be sealed has thrown; its slot is free again
\* when the calls it left behind are over.
SwarmOver(r) ==
  /\ req[r].pc = "failed"
  /\ ~Busy(r)
  /\ req' = [req EXCEPT ![r] = NoRequest]
  /\ calls' = [calls EXCEPT ![r] = NoCalls]
  /\ UNCHANGED <<state, schedules, memory, rows, issued, runs, billed, sealVars>>

-----------------------------------------------------------------------------
(* Seals, and what a handler does when its receipt is sealed *)

ReadChain(j) == Seal!ReadChain(j) /\ UNCHANGED roomVars

InsertReceipt(j) ==
  /\ Seal!InsertReceipt(j)
  /\ billed' = billed + IF seal[j].body.kind = "member" THEN 0 ELSE seal[j].body.usd
  /\ UNCHANGED <<state, req, calls, schedules, memory, rows, issued, runs>>

\* The receipt job j has just sealed.
Sealed(j) == seal[j].chain[Len(seal[j].chain)]

\* What setState is given, but for head: the captured state, or the state of
\* this moment with the one field the command owns.
Committed(r) ==
  LET s == req[r].next IN
  CASE req[r].cmd = "think"    -> [s EXCEPT !.turns = @ + 1]
    [] req[r].cmd = "swarm"    -> [s EXCEPT !.swarms = state.swarms + 1]
    [] req[r].cmd = "turn"     -> [state EXCEPT !.turns = @ + 1]
    [] req[r].cmd = "record"   -> [state EXCEPT !.swarms = @ + 1]
    [] req[r].cmd = "remember" -> [state EXCEPT !.memory_notes = s.memory_notes]
    [] req[r].cmd \in {"schedule", "cancel", "skip"} -> state
    [] OTHER -> s

\* The SQL row a handler inserts between its seal and its commit.
NewRows(r, h) ==
  CASE req[r].cmd \in {"think", "turn"}   -> {[table |-> "turns", receipt |-> h]}
    [] req[r].cmd \in {"swarm", "record"} -> {[table |-> "swarms", receipt |-> h]}
    [] OTHER -> {}

Commit(r) ==
  /\ Seal!Settle(<<r, Own>>)
  /\ state' = [Committed(r) EXCEPT !.head = Sealed(<<r, Own>>).hash]
  /\ rows' = rows \cup NewRows(r, Sealed(<<r, Own>>).hash)
  /\ req' = [req EXCEPT ![r] = NoRequest]
  /\ UNCHANGED <<calls, schedules, memory, issued, runs, billed>>

\* The INSERT of that row throws (a recorded run that is recorded again has the
\* primary key of the first): a 500, the receipt stays, nothing is committed.
RowFails(r) ==
  /\ Seal!Settle(<<r, Own>>)
  /\ NewRows(r, Sealed(<<r, Own>>).hash) # {}
  /\ req' = [req EXCEPT ![r] = NoRequest]
  /\ UNCHANGED <<state, calls, schedules, memory, rows, issued, runs, billed>>

\* A member call is sealed: exec returns and the governor records it.
MemberSealed(r, m) ==
  /\ Seal!Settle(<<r, m>>)
  /\ calls' = [calls EXCEPT ![r][m] = "sealed"]
  /\ req' = [req EXCEPT ![r].spent = @ + Sealed(<<r, m>>).body.usd,
                        ![r].cites = @ \cup {Sealed(<<r, m>>).hash}]
  /\ UNCHANGED <<state, schedules, memory, rows, issued, runs, billed>>

\* (A bug: the caller gets the swallowed promise and never hears of it.)
SealFailed_Stuck(r) ==
  /\ Seal!FailSeal(<<r, Own>>)
  /\ UNCHANGED <<state, req, calls, schedules, memory, rows, issued, runs, billed>>

\* The INSERT of a handler's own receipt throws: a 500, nothing is committed.
SealFailed(r) ==
  /\ Seal!FailSeal(<<r, Own>>)
  /\ req' = [req EXCEPT ![r] = NoRequest]
  /\ UNCHANGED <<state, calls, schedules, memory, rows, issued, runs, billed>>

\* The INSERT of a member's receipt throws: runSwarm rejects, cmdSwarm with it,
\* while the other calls of the run go on.
MemberSealFailed(r, m) ==
  /\ Seal!FailSeal(<<r, m>>)
  /\ calls' = [calls EXCEPT ![r][m] = "sealed"]
  /\ req' = [req EXCEPT ![r].pc = "failed"]
  /\ UNCHANGED <<state, schedules, memory, rows, issued, runs, billed>>

\* The object is evicted: handlers are gone, SQL and the synced state stay.
Restart ==
  /\ Seal!SealRestart
  /\ req' = [r \in Requests |-> NoRequest]
  /\ calls' = [r \in Requests |-> NoCalls]
  /\ UNCHANGED <<state, schedules, memory, rows, issued, runs, billed>>

-----------------------------------------------------------------------------
\* A handler starts.
Receive(r) ==
  \/ Think(r) \/ HolderTurn(r) \/ Handoff(r) \/ Release(r) \/ Kill(r) \/ Revive(r)
  \/ SetMode(r) \/ SetCap(r) \/ Schedule(r) \/ Cancel(r) \/ Remember(r)
  \/ RecordSwarm(r) \/ StartSwarm(r) \/ Fire(r)

\* A handler under way takes its next step.
Proceed(r) ==
  \/ MindAnswered(r) \/ MindRefused(r) \/ SwarmDone(r) \/ SwarmOver(r)
  \/ Commit(r) \/ RowFails(r) \/ SealFailed(r)
  \/ \E m \in Members : \/ MemberCall(r, m) \/ MemberAnswered(r, m)
                        \/ MemberSealed(r, m) \/ MemberSealFailed(r, m)

Next ==
  \/ \E r \in Requests : Receive(r) \/ Proceed(r)
  \/ \E j \in Jobs : ReadChain(j) \/ InsertReceipt(j)
  \/ Restart

Spec == Init /\ [][Next]_vars

\* The queue's own steps and the commit behind them are local computation,
\* SQL and one KV put: they answer or throw.  Nothing is fair about the mind,
\* the members or the viewers: no timeout bounds their calls.
SealSteps(r) ==
  \/ Commit(r) \/ RowFails(r) \/ SealFailed(r)
  \/ ReadChain(<<r, Own>>) \/ InsertReceipt(<<r, Own>>)
  \/ \E m \in Members : \/ MemberSealed(r, m) \/ MemberSealFailed(r, m)
                        \/ ReadChain(<<r, m>>) \/ InsertReceipt(<<r, m>>)

-----------------------------------------------------------------------------
(* Properties that hold *)

\* Whoever holds the role, the mind is paused, however handoffs, kills,
\* revives and releases overlap (applyHandoff, applyRevive).
HeldMeansPaused == state.held_by # Nobody => state.openrouter_paused

\* The ledger never shows more than the receipts bill: overlapping commits may
\* lose a turn's cost, they never count one twice (applySpend then commit).
LedgerNeverOverBills == state.usd <= billed

\* The head shown to viewers moves along the chain and never back, although
\* most commits write a state captured earlier (commit: head after the spread).
HeadNeverRegresses == [][state'.head >= state.head]_vars

\* A swarm run's receipt cites exactly the member receipts of its run, those
\* sealed while other handlers were sealing too ("swarm.run cites them all").
SwarmCitesAll ==
  \A i \in 1..Len(receipts) :
    receipts[i].body.kind = "run" /\ receipts[i].body.run # 0 =>
      receipts[i].body.cites =
        {receipts[k].hash : k \in {l \in 1..Len(receipts) :
           receipts[l].body.kind = "member" /\ receipts[l].body.run = receipts[i].body.run}}

\* The room's seals are those of a seal queue.
ImplementsSealQueue == Seal!SealSpec

\* ... and so its chain is an append-only edge chain.
ImplementsEdgeChain == Seal!Chain!Spec

\* A handler that asked for a receipt commits or fails, or the object
\* restarts: no failed seal of another handler or member wedges it.
HandlersAnswered == \A r \in Requests : req[r].pc = "seal" ~> req[r].pc # "seal"

-----------------------------------------------------------------------------
(* What the documentation says and overlapping handlers break *)

\* "A kill switch stops everything", and only POST /revive resumes.
OnlyReviveUnkills ==
  [][state.killed /\ ~state'.killed =>
       \E r \in Requests : req[r].cmd = "revive" /\ req[r].pc = "seal"]_vars
=============================================================================
