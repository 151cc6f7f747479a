------------------------------- MODULE Dispatch -------------------------------
(***************************************************************************)
(* Approvals and dispatch: an operator mints a single-use token for the    *)
(* hash of a plan; a process arms the plan with it, launches it in a tmux  *)
(* session or in a container, looks at it, holds, cancels or collects it.  *)
(*                                                                         *)
(* Tokens are kept in approvals.json under the directory lock of LockDir.  *)
(* The lock is exclusive until a process dies in it: two that wait may     *)
(* both take the dead one's lock for theirs to steal, one after the other, *)
(* and the second then removes the lock that the first has made.  So once  *)
(* the lock is orphaned, a process may enter while another is inside; that *)
(* it may also do so late errs on the side of more behaviours.  What else  *)
(* the lock may do wrong (its age, a PID that cannot be probed) is in      *)
(* LockDir and ReceiptStore.                                               *)
(*                                                                         *)
(* A plan is a file of its own, read, changed and written back whole by    *)
(* every operation and without any lock: what the operation holds between  *)
(* its read and its write is a copy that others may have overwritten.      *)
(*                                                                         *)
(* The hash of a plan is its content.  Receipts, events, schema checks and *)
(* dry runs are left out.                                                  *)
(***************************************************************************)
EXTENDS Integers, FiniteSets

CONSTANTS Procs, Nobody,
          Plans,       \* plan files
          Contents,    \* what a plan may say
          Containers,  \* the contents that run in a container
          Edited,      \* the contents somebody may edit a plan file into
          Tokens, None
ASSUME DispatchAssumption ==
  /\ Nobody \notin Procs
  /\ Containers \subseteq Contents /\ Edited \subseteq Contents
  /\ None \notin Contents \cup Plans \cup Tokens

VARIABLES
  holder,    \* who made approvals.lock
  dead,      \* processes that died
  orphaned,  \* one of them had made the lock: it is there for others to steal
  store,     \* the approvals in approvals.json, less those that expired unused
  plan,      \* the plan files
  session,   \* plans whose tmux session is there
  boxes,     \* containers whose end each process waits for, per plan
  op,        \* the operation each process is in
  bound,     \* auxiliary: the hash each token was minted for
  overlap,   \* auxiliary: somebody entered the lock while another was inside
  grants,    \* auxiliary: how often each token was accepted
  accepted,  \* auxiliary: how often a token for each content was accepted
  launches,  \* auxiliary: how often each content was launched
  lost       \* auxiliary: writes over a plan written since it was read

procVars == <<holder, dead, orphaned>>
auxVars == <<overlap, bound, grants, accepted, launches, lost>>
vars == <<procVars, store, plan, session, boxes, op, auxVars>>

\* No operation tells ready from needs_approval, nor judging, failed and archived
\* from each other: they are "ready" and "over" here.
Lifecycle == {"none", "ready", "armed", "running", "over"}

\* A plan file; one that is not there has the lifecycle "none".
StoredPlan == [plan : Contents \cup {None}, plan_hash : Contents \cup {None},
               approved_hash : Contents \cup {None}, lifecycle : Lifecycle,
               session : {"none", "tmux", "container"}]
NoPlan == [plan |-> None, plan_hash |-> None, approved_hash |-> None,
           lifecycle |-> "none", session |-> "none"]

Approval == [token : Tokens, planHash : Contents, used : BOOLEAN]

\* An operation: the plan it is about, if any, the copy s it read, whether that copy
\* was overwritten since, and for approvals the token, the list read and the answer.
Operation ==
  [cmd : {"none", "issue", "arm", "launch", "tail", "end", "late"},
   step : {"none", "lock", "decide", "cut", "store", "leave", "answer", "read",
           "killed", "spawned", "write"},
   id : Plans \cup {None}, s : StoredPlan, stale : BOOLEAN,
   token : Tokens \cup {None}, list : SUBSET Approval,
   ok : BOOLEAN]
NoOp == [cmd |-> "none", step |-> "none", id |-> None, s |-> NoPlan, stale |-> FALSE,
         token |-> None, list |-> {}, ok |-> FALSE]

TypeOK ==
  /\ holder \in Procs \cup {Nobody}
  /\ dead \in SUBSET Procs
  /\ orphaned \in BOOLEAN /\ overlap \in BOOLEAN
  /\ store \in SUBSET Approval
  /\ plan \in [Plans -> StoredPlan]
  /\ session \in SUBSET Plans
  /\ boxes \in [Procs -> [Plans -> Nat]]
  /\ op \in [Procs -> Operation]
  /\ bound \in [Tokens -> Contents \cup {None}]
  /\ grants \in [Tokens -> Nat]
  /\ accepted \in [Contents -> Nat]
  /\ launches \in [Contents -> Nat]
  /\ lost \in Nat
  \* An approval is one that was minted, and a token has one approval.
  /\ \A a \in store : a.planHash = bound[a.token]
  /\ \A a, b \in store : a.token = b.token => a = b
  \* The list is read, decided on and written inside the lock, and by one process at
  \* a time unless the lock was stolen twice.
  /\ ~overlap => \A p \in Procs : op[p].step \in {"decide", "cut", "store", "leave"} => holder = p

Init ==
  /\ holder = Nobody
  /\ dead = {}
  /\ orphaned = FALSE
  /\ overlap = FALSE
  /\ store = {}
  /\ plan = [i \in Plans |-> NoPlan]
  /\ session = {}
  /\ boxes = [p \in Procs |-> [i \in Plans |-> 0]]
  /\ op = [p \in Procs |-> NoOp]
  /\ bound = [t \in Tokens |-> None]
  /\ grants = [t \in Tokens |-> 0]
  /\ accepted = [c \in Contents |-> 0]
  /\ launches = [c \in Contents |-> 0]
  /\ lost = 0

-----------------------------------------------------------------------------
Idle(p) == p \notin dead /\ op[p] = NoOp

Doing(p, cmd, step) == p \notin dead /\ op[p].cmd = cmd /\ op[p].step = step

SetOp(p, o) == op' = [op EXCEPT ![p] = o]

\* writeStored by process p: everybody else's copy of that plan is stale now.
WritePlan(p, s) ==
  LET i == op[p].id IN
  /\ plan' = [plan EXCEPT ![i] = s]
  /\ op' = [q \in Procs |->
              IF q = p THEN NoOp
              ELSE [op[q] EXCEPT !.stale = @ \/ (op[q].id = i /\ op[q].s # NoPlan)]]
  /\ lost' = IF op[p].stale THEN lost + 1 ELSE lost

-----------------------------------------------------------------------------
(* createPlan, and somebody who edits a plan file *)

\* The id is new: nobody has read the file yet.
Create(p) ==
  /\ Idle(p)
  /\ \E i \in Plans, c \in Contents :
       /\ plan[i] = NoPlan
       /\ plan' = [plan EXCEPT ![i] = [NoPlan EXCEPT !.plan = c, !.plan_hash = c, !.lifecycle = "ready"]]
  /\ UNCHANGED <<procVars, store, session, boxes, op, auxVars>>

Edit ==
  /\ \E i \in Plans, c \in Edited :
       /\ plan[i] # NoPlan
       /\ plan' = [plan EXCEPT ![i].plan = c]
  /\ UNCHANGED <<procVars, store, session, boxes, op, auxVars>>

-----------------------------------------------------------------------------
(* issueApproval and consumeApproval, inside the lock *)

\* Nobody who is alive made the lock: it is not there, or its maker is dead.
LockFree == holder \in dead \cup {Nobody}

At(p, step) == p \notin dead /\ op[p].step = step

\* `timmy approve <planHash>'
Ask(p) ==
  /\ Idle(p)
  /\ SetOp(p, [NoOp EXCEPT !.cmd = "issue", !.step = "lock"])
  /\ UNCHANGED <<procVars, store, plan, session, boxes, auxVars>>

\* armPlan reads the plan; docker may be found down, which ends it.
Arm(p) ==
  /\ Idle(p)
  /\ \E i \in Plans, t \in Tokens :
       /\ plan[i] # NoPlan
       /\ SetOp(p, [NoOp EXCEPT !.cmd = "arm", !.step = "lock", !.id = i, !.s = plan[i],
                                !.token = t])
  /\ UNCHANGED <<procVars, store, plan, session, boxes, auxVars>>

\* (A bug: there is no lock.)
Enter_NoLock(p) ==
  /\ At(p, "lock")
  /\ holder' = p
  /\ op' = [op EXCEPT ![p].step = "decide"]
  /\ UNCHANGED <<dead, orphaned, store, plan, session, boxes, auxVars>>

\* The lock is made, or an orphaned one is stolen; by then it may be another's, who
\* stole it first and is inside.
Enter(p) ==
  /\ At(p, "lock")
  /\ LockFree \/ orphaned
  /\ holder' = p
  /\ overlap' = (overlap \/ ~LockFree)
  /\ op' = [op EXCEPT ![p].step = "decide"]
  /\ UNCHANGED <<dead, orphaned, store, plan, session, boxes, bound, grants, accepted, launches, lost>>

\* Somebody held it for too long: withLockDir throws, and so does the operation.
GiveUp(p) ==
  /\ At(p, "lock")
  /\ SetOp(p, NoOp)
  /\ UNCHANGED <<procVars, store, plan, session, boxes, auxVars>>

\* consumeApproval accepts: known, not used, not expired, bound to this hash.
Valid(list, t, c) == \E a \in list : a.token = t /\ ~a.used /\ a.planHash = c

\* (A bug: the used approval is added and the unused one kept.)
Consumed_Kept(list, t) == list \cup {[a EXCEPT !.used = TRUE] : a \in {b \in list : b.token = t}}

Consumed(list, t) == {IF a.token = t THEN [a EXCEPT !.used = TRUE] ELSE a : a \in list}

\* issueApproval reads the list and adds a token that nobody had before.
Mint(p) ==
  /\ Doing(p, "issue", "decide")
  /\ \E t \in Tokens, c \in Contents :
       /\ bound[t] = None
       /\ bound' = [bound EXCEPT ![t] = c]
       /\ SetOp(p, [op[p] EXCEPT !.step = "cut",
                      !.list = store \cup {[token |-> t, planHash |-> c, used |-> FALSE]}])
  /\ UNCHANGED <<procVars, store, plan, session, boxes, overlap, grants, accepted, launches, lost>>

\* consumeApproval reads the list and decides.
Decide(p) ==
  /\ Doing(p, "arm", "decide")
  /\ LET o == op[p] IN
     IF Valid(store, o.token, o.s.plan_hash)
       THEN SetOp(p, [o EXCEPT !.step = "cut", !.list = Consumed(store, o.token), !.ok = TRUE])
       ELSE SetOp(p, [o EXCEPT !.step = "leave"])
  /\ UNCHANGED <<procVars, store, plan, session, boxes, auxVars>>

\* writeFileSync empties approvals.json: it reads as no approvals at all.
CutStore(p) ==
  /\ At(p, "cut")
  /\ store' = {}
  /\ op' = [op EXCEPT ![p].step = "store"]
  /\ UNCHANGED <<procVars, plan, session, boxes, auxVars>>

\* ... and writes the list.
WriteStore(p) ==
  /\ At(p, "store")
  /\ store' = op[p].list
  /\ op' = [op EXCEPT ![p].step = "leave", ![p].list = {}]
  /\ \/ op[p].cmd = "issue" /\ UNCHANGED <<grants, accepted>>
     \/ /\ op[p].cmd = "arm"
        /\ grants' = [grants EXCEPT ![op[p].token] = @ + 1]
        /\ accepted' = [accepted EXCEPT ![bound[op[p].token]] = @ + 1]
  /\ UNCHANGED <<procVars, plan, session, boxes, overlap, bound, launches, lost>>

\* fn() is over: whatever lock is there is removed.
Release(p) ==
  /\ At(p, "leave")
  /\ holder' = Nobody
  /\ SetOp(p, IF op[p].cmd = "issue" THEN NoOp ELSE [op[p] EXCEPT !.step = "answer"])
  /\ UNCHANGED <<dead, orphaned, store, plan, session, boxes, auxVars>>

\* An approval expires unused: consumeApproval refuses it and issueApproval drops
\* it, as if it were not there.  A list read before may still bring it back.
Expire ==
  /\ \E a \in store : ~a.used /\ store' = store \ {a}
  /\ UNCHANGED <<procVars, plan, session, boxes, op, auxVars>>

\* armPlan writes the plan it read before the lock.
WriteArmed(p) ==
  /\ At(p, "answer")
  /\ LET s == op[p].s IN
     WritePlan(p, IF op[p].ok THEN [s EXCEPT !.approved_hash = s.plan_hash, !.lifecycle = "armed"]
                              ELSE [s EXCEPT !.lifecycle = "ready"])
  /\ UNCHANGED <<procVars, store, session, boxes, overlap, bound, grants, accepted, launches>>

-----------------------------------------------------------------------------
(* dispatchPlan and dispatchContainerized *)

\* The plan is read; only one that is armed goes on.
Launch(p) ==
  /\ Idle(p)
  /\ \E i \in Plans :
       /\ plan[i].lifecycle = "armed"
       /\ SetOp(p, [NoOp EXCEPT !.cmd = "launch", !.step = "read", !.id = i, !.s = plan[i]])
  /\ UNCHANGED <<procVars, store, plan, session, boxes, auxVars>>

\* (A bug: the content is not hashed again.)
Unchanged_PlanHashOnly(s) == s.approved_hash = s.plan_hash

\* The plan in the file is the one that was approved.
Unchanged(s) == s.approved_hash = s.plan /\ s.plan = s.plan_hash

\* The plan was edited since: its approval is void.  No isolation, no docker and
\* no tmux end it too.
LaunchRefused(p) ==
  /\ \/ Doing(p, "launch", "read") \/ Doing(p, "launch", "killed")
  /\ LET s == op[p].s IN
     WritePlan(p, IF Unchanged(s) THEN [s EXCEPT !.lifecycle = "over"]
                  ELSE [s EXCEPT !.plan_hash = s.plan, !.lifecycle = "ready"])
  /\ UNCHANGED <<procVars, store, session, boxes, overlap, bound, grants, accepted, launches>>

\* tmux kill-session: whatever session of that name is there.
KillSession(p) ==
  /\ Doing(p, "launch", "read")
  /\ Unchanged(op[p].s) /\ op[p].s.plan \notin Containers
  /\ session' = session \ {op[p].id}
  /\ op' = [op EXCEPT ![p].step = "killed"]
  /\ UNCHANGED <<procVars, store, plan, boxes, auxVars>>

\* tmux new-session, which fails (LaunchRefused) when one of that name is there.
NewSession(p) ==
  /\ Doing(p, "launch", "killed")
  /\ op[p].id \notin session
  /\ session' = session \cup {op[p].id}
  /\ op' = [op EXCEPT ![p].step = "spawned"]
  /\ UNCHANGED <<procVars, store, plan, boxes, auxVars>>

\* tmux send-keys starts the harness in the session, if it is still there.
SendKeys(p) ==
  /\ Doing(p, "launch", "spawned")
  /\ launches' = IF op[p].id \in session THEN [launches EXCEPT ![op[p].s.plan] = @ + 1] ELSE launches
  /\ op' = [op EXCEPT ![p].step = "write"]
  /\ UNCHANGED <<procVars, store, plan, session, boxes, overlap, bound, grants, accepted, lost>>

\* (A bug: a launched plan stays armed.)
WriteRunning_Armed(p) ==
  /\ Doing(p, "launch", "write")
  /\ WritePlan(p, [op[p].s EXCEPT !.session = "tmux"])
  /\ UNCHANGED <<procVars, store, session, boxes, overlap, bound, grants, accepted, launches>>

WriteRunning(p) ==
  /\ Doing(p, "launch", "write")
  /\ WritePlan(p, [op[p].s EXCEPT !.session = "tmux", !.lifecycle = "running"])
  /\ UNCHANGED <<procVars, store, session, boxes, overlap, bound, grants, accepted, launches>>

\* dispatchContainerized writes first and then starts the container, whose end it
\* does not wait for.
LaunchContainer(p) ==
  /\ Doing(p, "launch", "read")
  /\ Unchanged(op[p].s) /\ op[p].s.plan \in Containers
  /\ WritePlan(p, [op[p].s EXCEPT !.session = "container", !.lifecycle = "running"])
  /\ launches' = [launches EXCEPT ![op[p].s.plan] = @ + 1]
  /\ boxes' = [boxes EXCEPT ![p][op[p].id] = @ + 1]
  /\ UNCHANGED <<procVars, store, session, overlap, bound, grants, accepted>>

\* The container ended: the plan is read again, whatever became of it, ...
ContainerEnds(p) ==
  /\ Idle(p)
  /\ \E i \in Plans :
       /\ boxes[p][i] > 0
       /\ boxes' = [boxes EXCEPT ![p][i] = @ - 1]
       /\ SetOp(p, [NoOp EXCEPT !.cmd = "late", !.step = "read", !.id = i, !.s = plan[i]])
  /\ UNCHANGED <<procVars, store, plan, session, auxVars>>

\* ... and written, as judging or failed.
WriteContainerEnd(p) ==
  /\ Doing(p, "late", "read")
  /\ WritePlan(p, [op[p].s EXCEPT !.lifecycle = "over"])
  /\ UNCHANGED <<procVars, store, session, boxes, overlap, bound, grants, accepted, launches>>

-----------------------------------------------------------------------------
(* tailLane, pauseOrCancelLane, collectRun *)

Tail(p) ==
  /\ Idle(p)
  /\ \E i \in Plans :
       /\ plan[i].session # "none"
       /\ SetOp(p, [NoOp EXCEPT !.cmd = "tail", !.step = "read", !.id = i, !.s = plan[i]])
  /\ UNCHANGED <<procVars, store, plan, session, boxes, auxVars>>

\* capture-pane answers for a session that is there, and that is all; or it fails: a
\* container has no session, and it may time out on one that is there.
Capture(p) ==
  /\ Doing(p, "tail", "read")
  /\ \/ op[p].id \in session /\ op[p].s.session = "tmux" /\ SetOp(p, NoOp)
     \/ op' = [op EXCEPT ![p].step = "write"]
  /\ UNCHANGED <<procVars, store, plan, session, boxes, auxVars>>

\* Then the copy is written back: failed when it was running, else as it was.
WriteTail(p) ==
  /\ Doing(p, "tail", "write")
  /\ WritePlan(p, [op[p].s EXCEPT !.lifecycle = IF @ = "running" THEN "over" ELSE @])
  /\ UNCHANGED <<procVars, store, session, boxes, overlap, bound, grants, accepted, launches>>

\* hold, cancel and collect read the plan; cancel kills the session it names.
End(p) ==
  /\ Idle(p)
  /\ \E i \in Plans :
       /\ plan[i] # NoPlan
       /\ SetOp(p, [NoOp EXCEPT !.cmd = "end", !.step = "read", !.id = i, !.s = plan[i]])
       /\ \/ UNCHANGED session
          \/ plan[i].session = "tmux" /\ session' = session \ {i}
  /\ UNCHANGED <<procVars, store, plan, boxes, auxVars>>

\* Archived by hold and cancel, judging or failed by collect, from any lifecycle.
WriteEnd(p) ==
  /\ Doing(p, "end", "read")
  /\ WritePlan(p, [op[p].s EXCEPT !.lifecycle = "over"])
  /\ UNCHANGED <<procVars, store, session, boxes, overlap, bound, grants, accepted, launches>>

\* The harness exits, or tmux does.
SessionEnds ==
  /\ \E i \in session : session' = session \ {i}
  /\ UNCHANGED <<procVars, store, plan, boxes, op, auxVars>>

-----------------------------------------------------------------------------
\* A process is killed; its containers are nobody's from then on.
Die(p) ==
  /\ p \notin dead
  /\ dead' = dead \cup {p}
  /\ orphaned' = (orphaned \/ holder = p)
  /\ SetOp(p, NoOp)
  /\ boxes' = [boxes EXCEPT ![p] = [i \in Plans |-> 0]]
  /\ UNCHANGED <<holder, store, plan, session, auxVars>>

Approving(p) ==
  \/ Ask(p) \/ Arm(p) \/ Enter(p) \/ GiveUp(p) \/ Mint(p) \/ Decide(p)
  \/ CutStore(p) \/ WriteStore(p) \/ Release(p) \/ WriteArmed(p)

Launching(p) ==
  \/ Launch(p) \/ LaunchRefused(p) \/ KillSession(p) \/ NewSession(p) \/ SendKeys(p)
  \/ WriteRunning(p) \/ LaunchContainer(p) \/ ContainerEnds(p) \/ WriteContainerEnd(p)

Watching(p) == Tail(p) \/ Capture(p) \/ WriteTail(p) \/ End(p) \/ WriteEnd(p)

Next ==
  \/ \E p \in Procs : Create(p) \/ Approving(p) \/ Launching(p) \/ Watching(p) \/ Die(p)
  \/ Expire
  \/ Edit
  \/ SessionEnds

Spec == Init /\ [][Next]_vars

-----------------------------------------------------------------------------
(* Properties *)

\* "token mint/consume is atomic across processes ... so two callers cannot
\* replay one token": a token is accepted at most once, whatever is minted, expires
\* or dies meanwhile, also between emptying the file and writing it.  The exception
\* is the lock's: somebody died inside it and then two were inside together
\* (withApprovalLock, withLockDir).
TokenSpentOnce == (\E t \in Tokens : grants[t] > 1) => orphaned /\ overlap

\* The tokens for content c that were accepted.
Approved(c) == {t \in Tokens : bound[t] = c /\ grants[t] > 0}

\* "Approval binds the COMPLETE immutable plan hash; any mutation invalidates":
\* nothing is launched that no accepted token was minted for, whatever is edited
\* or written back from an old copy meanwhile (dispatchPlan).
NothingUnapprovedRuns == \A c \in Contents : launches[c] > 0 => Approved(c) # {}

\* One approval is one launch: once every operation is over, each further launch
\* of a content than tokens were accepted for it is owed to a copy written over a
\* newer plan or to a process that died between launching and writing (dispatchPlan,
\* tailLane).
LaunchesPaidFor ==
  (\A p \in Procs : op[p] = NoOp) =>
    \A c \in Contents : launches[c] <= accepted[c] + lost + Cardinality(dead)
=============================================================================
