--------------------------- MODULE Dispatch_proofs ---------------------------
(***************************************************************************)
(* Proofs about Dispatch, for any number of processes, plans, contents and *)
(* tokens: its types, that a token is accepted once while the lock is      *)
(* exclusive, that nothing runs that was not approved, and that each       *)
(* accepted token pays for one launch.                                     *)
(***************************************************************************)
EXTENDS Dispatch, FiniteSetTheorems, TLAPS

-----------------------------------------------------------------------------
(* The types *)

\* An operation under way is about a plan, except minting a token.
About(o) ==
  /\ o.step # "none" /\ o.cmd # "issue" => o.id \in Plans
  /\ o.cmd = "issue" => o.step \in {"lock", "decide", "cut", "store", "leave"} /\ ~o.ok

Typed ==
  /\ holder \in Procs \cup {Nobody} /\ dead \in SUBSET Procs
  /\ orphaned \in BOOLEAN /\ overlap \in BOOLEAN /\ store \in SUBSET Approval
  /\ plan \in [Plans -> StoredPlan] /\ session \in SUBSET Plans
  /\ boxes \in [Procs -> [Plans -> Nat]] /\ op \in [Procs -> Operation]
  /\ bound \in [Tokens -> Contents \cup {None}] /\ grants \in [Tokens -> Nat]
  /\ accepted \in [Contents -> Nat]
  /\ launches \in [Contents -> Nat] /\ lost \in Nat
  /\ \A p \in Procs : About(op[p])

\* Two operations that differ in whether their copy is stale, if at all.
Alike(o, u) ==
  /\ o.cmd = u.cmd /\ o.step = u.step /\ o.id = u.id /\ o.s = u.s
  /\ o.token = u.token /\ o.list = u.list /\ o.ok = u.ok

Only(p) == \A q \in Procs : q # p => Alike(op'[q], op[q])

\* The next operations have their types.
OpsTyped ==
  op' \in [Procs -> Operation] /\ \A p \in Procs : About(op'[p])

LEMMA NoOpType ==
  /\ NoPlan \in StoredPlan /\ NoOp \in Operation
  /\ NoOp.step = "none" /\ NoOp.cmd = "none" /\ NoOp.s = NoPlan /\ ~NoOp.stale /\ ~NoOp.ok
  /\ NoOp.id = None /\ NoOp.list = {} /\ NoPlan.lifecycle = "none" /\ About(NoOp)
BY DEF NoPlan, StoredPlan, Lifecycle, NoOp, Operation, About

LEMMA SetOpFacts ==
  ASSUME Typed, NEW p \in Procs, NEW o \in Operation, op' = [op EXCEPT ![p] = o],
         About(o)
  PROVE  /\ op'[p] = o /\ OpsTyped
         /\ \A q \in Procs : q # p => op'[q] = op[q]
         /\ Only(p)
BY DEF Typed, Only, Alike, OpsTyped

\* The process goes to another step of its operation.
LEMMA StepFacts ==
  ASSUME Typed, NEW p \in Procs,
         NEW k \in {"decide", "cut", "store", "leave", "answer", "killed", "spawned", "write"},
         op' = [op EXCEPT ![p].step = k], op[p].step # "none",
         op[p].cmd = "issue" => k \in {"decide", "cut", "store", "leave"}
  PROVE  /\ OpsTyped /\ op'[p].step = k
         /\ op'[p].cmd = op[p].cmd /\ op'[p].id = op[p].id /\ op'[p].s = op[p].s
         /\ op'[p].token = op[p].token /\ op'[p].list = op[p].list /\ op'[p].ok = op[p].ok
         /\ op'[p].stale = op[p].stale
         /\ \A q \in Procs : q # p => op'[q] = op[q]
         /\ Only(p)
<1>1. op[p] \in Operation /\ op \in [Procs -> Operation]
  BY DEF Typed
<1>2. op'[p] = [op[p] EXCEPT !.step = k] /\ \A q \in Procs : q # p => op'[q] = op[q]
  BY <1>1
<1>3. op'[p] \in Operation /\ op' \in [Procs -> Operation]
  BY <1>1, <1>2 DEF Operation
<1>4. op'[p].step = k /\ op'[p].id = op[p].id /\ op'[p].cmd = op[p].cmd /\ op'[p].ok = op[p].ok
  BY <1>1, <1>2 DEF Operation
<1>6. About(op'[p])
  BY <1>4 DEF About, Typed
<1>5. OpsTyped
  BY <1>2, <1>3, <1>6 DEF OpsTyped, Typed
<1> QED
  BY <1>1, <1>2, <1>3, <1>5 DEF Operation, Only, Alike

\* The operation ends with a write of its plan.
LEMMA WriteFacts ==
  ASSUME Typed, NEW p \in Procs, NEW s \in StoredPlan, WritePlan(p, s)
  PROVE  /\ plan' \in [Plans -> StoredPlan] /\ OpsTyped /\ lost' \in Nat
         /\ plan' = [plan EXCEPT ![op[p].id] = s]
         /\ op'[p] = NoOp /\ Only(p)
         /\ \A q \in Procs : q # p /\ op[q] = NoOp => op'[q] = NoOp
         /\ \A q \in Procs : q # p /\ ~op'[q].stale =>
              ~op[q].stale /\ (op[q].id # op[p].id \/ op[q].s = NoPlan)
         /\ lost' = IF op[p].stale THEN lost + 1 ELSE lost
<1>1. /\ op \in [Procs -> Operation] /\ plan \in [Plans -> StoredPlan] /\ lost \in Nat
      /\ plan' = [plan EXCEPT ![op[p].id] = s]
      /\ lost' = IF op[p].stale THEN lost + 1 ELSE lost
      /\ op'[p] = NoOp
      /\ op' = [q \in Procs |->
              IF q = p THEN NoOp
              ELSE [op[q] EXCEPT !.stale = @ \/ (op[q].id = op[p].id /\ op[q].s # NoPlan)]]
  BY DEF Typed, WritePlan
<1>2. \A q \in Procs : q # p =>
        op'[q] = [op[q] EXCEPT !.stale = @ \/ (op[q].id = op[p].id /\ op[q].s # NoPlan)]
  BY <1>1
<1>3. ASSUME NEW q \in Procs, q # p
      PROVE  /\ op'[q] \in Operation /\ Alike(op'[q], op[q])
             /\ (op'[q].stale <=> op[q].stale \/ (op[q].id = op[p].id /\ op[q].s # NoPlan))
  <2>1. op[q] \in Operation
    BY <1>1
  <2> DEFINE z == (op[q].stale \/ (op[q].id = op[p].id /\ op[q].s # NoPlan))
  <2>2. op'[q] = [op[q] EXCEPT !.stale = z]
    BY <1>2, <1>3
  <2>3. z \in BOOLEAN
    OBVIOUS
  <2>4. op'[q].stale = z
    <3> HIDE DEF z
    <3> QED
      BY <2>1, <2>2 DEF Operation
  <2>5. op'[q] \in Operation /\ Alike(op'[q], op[q])
    <3> HIDE DEF z
    <3> QED
      BY <2>1, <2>2, <2>3 DEF Operation, Alike
  <2> QED
    BY <2>4, <2>5, Zenon DEF z
<1>4. op' \in [Procs -> Operation]
  BY <1>1, <1>3, NoOpType
<1>5. ASSUME NEW q \in Procs, q # p, op[q] = NoOp
      PROVE  op'[q] = NoOp
  <2>1. op'[q] = [NoOp EXCEPT !.stale = @ \/ (NoOp.id = op[p].id /\ NoOp.s # NoPlan)]
    BY <1>2, <1>5
  <2>2. (NoOp.stale \/ (NoOp.id = op[p].id /\ NoOp.s # NoPlan)) = FALSE
    BY NoOpType
  <2>3. op'[q] = [NoOp EXCEPT !.stale = FALSE]
    BY <2>1, <2>2
  <2> QED
    BY <2>3 DEF NoOp
<1>6. ASSUME NEW q \in Procs, q # p, ~op'[q].stale
      PROVE  ~op[q].stale /\ (op[q].id # op[p].id \/ op[q].s = NoPlan)
  <2>1. ~(op[q].stale \/ (op[q].id = op[p].id /\ op[q].s # NoPlan))
    BY <1>3, <1>6, Zenon
  <2> QED
    BY <2>1, Zenon
<1>7. Only(p)
  BY <1>3 DEF Only
<1>12. OpsTyped
  <2>1. ASSUME NEW q \in Procs PROVE About(op'[q])
    BY <1>1, <1>3, NoOpType DEF Typed, Alike, About
  <2> QED
    BY <1>4, <2>1 DEF OpsTyped
<1>8. lost' \in Nat
  <2>1. lost \in Nat /\ (lost' = lost \/ lost' = lost + 1)
    BY <1>1, Zenon
  <2> QED
    BY <2>1
<1>11. plan' \in [Plans -> StoredPlan]
  BY <1>1
<1>9. \A q \in Procs : q # p /\ op[q] = NoOp => op'[q] = NoOp
  BY <1>5, Zenon
<1>10. \A q \in Procs : q # p /\ ~op'[q].stale =>
         ~op[q].stale /\ (op[q].id # op[p].id \/ op[q].s = NoPlan)
  BY <1>6, Zenon
<1> QED
  BY <1>1, <1>7, <1>8, <1>9, <1>10, <1>11, <1>12, Zenon

\* The plans the operations write.
LEMMA PlanTypes ==
  ASSUME NEW s \in StoredPlan
  PROVE  /\ \A l \in Lifecycle : [s EXCEPT !.lifecycle = l] \in StoredPlan
         /\ [s EXCEPT !.approved_hash = s.plan_hash, !.lifecycle = "armed"] \in StoredPlan
         /\ [s EXCEPT !.plan_hash = s.plan, !.lifecycle = "ready"] \in StoredPlan
         /\ [s EXCEPT !.session = "tmux", !.lifecycle = "running"] \in StoredPlan
         /\ [s EXCEPT !.session = "container", !.lifecycle = "running"] \in StoredPlan
         /\ [s EXCEPT !.lifecycle = IF @ = "running" THEN "over" ELSE @] \in StoredPlan
         /\ \A c \in Contents : [s EXCEPT !.plan = c] \in StoredPlan
BY DEF StoredPlan, Lifecycle

\* The approvals that an operation writes.
LEMMA ConsumedType ==
  ASSUME NEW t, store \in SUBSET Approval
  PROVE  Consumed(store, t) \in SUBSET Approval
BY DEF Consumed, Approval

\* A count goes up by one, or the thing is not counted.
LEMMA BumpType ==
  ASSUME NEW S, NEW f \in [S -> Nat], NEW x
  PROVE  [f EXCEPT ![x] = f[x] + 1] \in [S -> Nat]
<1>1. CASE x \in S
  <2>1. f[x] + 1 \in Nat
    BY <1>1
  <2> QED
    BY <2>1
<1>2. CASE x \notin S
  BY <1>2
<1> QED
  BY <1>1, <1>2

\* An operation begins: p reads plan i.
Reads(p, i) ==
  /\ p \notin dead /\ op[p] = NoOp
  /\ OpsTyped /\ Only(p)
  /\ op'[p].id = i /\ op'[p].s = plan[i] /\ ~op'[p].stale /\ ~op'[p].ok
  /\ op'[p].cmd \notin {"none", "issue"} /\ op'[p].step \in {"lock", "read"}
  /\ op'[p].cmd = "launch" => plan[i].lifecycle = "armed"
  /\ plan[i] # NoPlan \/ boxes[p][i] > 0
  /\ \A q \in Procs : q # p => op'[q] = op[q]
  /\ UNCHANGED <<procVars, store, plan, auxVars>>

LEMMA ReadSteps ==
  ASSUME Typed, NEW p \in Procs,
         Arm(p) \/ Launch(p) \/ ContainerEnds(p) \/ Tail(p) \/ End(p)
  PROVE  \E i \in Plans : Reads(p, i)
<1>0. \A i \in Plans : plan[i] \in StoredPlan
  BY DEF Typed
<1>1. CASE Arm(p)
  <2>1. PICK i \in Plans, t \in Tokens : plan[i] # NoPlan /\ SetOp(p,
          [NoOp EXCEPT !.cmd = "arm", !.step = "lock", !.id = i, !.s = plan[i], !.token = t])
    BY <1>1 DEF Arm
  <2> DEFINE o == [NoOp EXCEPT !.cmd = "arm", !.step = "lock", !.id = i, !.s = plan[i], !.token = t]
  <2>2. /\ o \in Operation /\ o.cmd = "arm" /\ o.step = "lock" /\ o.id = i /\ o.s = plan[i]
        /\ ~o.stale /\ ~o.ok
    BY <1>0, NoOpType DEF NoOp, Operation
  <2>3. op' = [op EXCEPT ![p] = o]
    BY <2>1 DEF SetOp
  <2> HIDE DEF o
  <2>5. OpsTyped /\ Only(p) /\ op'[p] = o /\ \A q \in Procs : q # p => op'[q] = op[q]
    BY <2>2, <2>3, SetOpFacts DEF About
  <2> QED
    BY <1>1, <2>1, <2>2, <2>5 DEF Arm, Idle, Reads
<1>2. CASE Launch(p)
  <2>1. PICK i \in Plans : plan[i].lifecycle = "armed" /\ SetOp(p,
          [NoOp EXCEPT !.cmd = "launch", !.step = "read", !.id = i, !.s = plan[i]])
    BY <1>2 DEF Launch
  <2> DEFINE o == [NoOp EXCEPT !.cmd = "launch", !.step = "read", !.id = i, !.s = plan[i]]
  <2>2. /\ o \in Operation /\ o.cmd = "launch" /\ o.step = "read" /\ o.id = i /\ o.s = plan[i]
        /\ ~o.stale /\ ~o.ok
    BY <1>0, NoOpType DEF NoOp, Operation
  <2>3. op' = [op EXCEPT ![p] = o]
    BY <2>1 DEF SetOp
  <2> HIDE DEF o
  <2>5. OpsTyped /\ Only(p) /\ op'[p] = o /\ \A q \in Procs : q # p => op'[q] = op[q]
    BY <2>2, <2>3, SetOpFacts DEF About
  <2> QED
    BY <1>2, <2>1, <2>2, <2>5, NoOpType DEF Launch, Idle, Reads
<1>3. CASE ContainerEnds(p)
  <2>1. PICK i \in Plans : boxes[p][i] > 0 /\ SetOp(p,
          [NoOp EXCEPT !.cmd = "late", !.step = "read", !.id = i, !.s = plan[i]])
    BY <1>3 DEF ContainerEnds
  <2> DEFINE o == [NoOp EXCEPT !.cmd = "late", !.step = "read", !.id = i, !.s = plan[i]]
  <2>2. /\ o \in Operation /\ o.cmd = "late" /\ o.step = "read" /\ o.id = i /\ o.s = plan[i]
        /\ ~o.stale /\ ~o.ok
    BY <1>0, NoOpType DEF NoOp, Operation
  <2>3. op' = [op EXCEPT ![p] = o]
    BY <2>1 DEF SetOp
  <2> HIDE DEF o
  <2>5. OpsTyped /\ Only(p) /\ op'[p] = o /\ \A q \in Procs : q # p => op'[q] = op[q]
    BY <2>2, <2>3, SetOpFacts DEF About
  <2> QED
    BY <1>3, <2>1, <2>2, <2>5 DEF ContainerEnds, Idle, Reads
<1>4. CASE Tail(p)
  <2>1. PICK i \in Plans : plan[i].session # "none" /\ SetOp(p,
          [NoOp EXCEPT !.cmd = "tail", !.step = "read", !.id = i, !.s = plan[i]])
    BY <1>4 DEF Tail
  <2> DEFINE o == [NoOp EXCEPT !.cmd = "tail", !.step = "read", !.id = i, !.s = plan[i]]
  <2>2. /\ o \in Operation /\ o.cmd = "tail" /\ o.step = "read" /\ o.id = i /\ o.s = plan[i]
        /\ ~o.stale /\ ~o.ok
    BY <1>0, NoOpType DEF NoOp, Operation
  <2>3. op' = [op EXCEPT ![p] = o]
    BY <2>1 DEF SetOp
  <2>4. plan[i] # NoPlan
    BY <2>1 DEF NoPlan
  <2> HIDE DEF o
  <2>5. OpsTyped /\ Only(p) /\ op'[p] = o /\ \A q \in Procs : q # p => op'[q] = op[q]
    BY <2>2, <2>3, SetOpFacts DEF About
  <2> QED
    BY <1>4, <2>1, <2>2, <2>4, <2>5 DEF Tail, Idle, Reads
<1>5. CASE End(p)
  <2>1. PICK i \in Plans : plan[i] # NoPlan /\ SetOp(p,
          [NoOp EXCEPT !.cmd = "end", !.step = "read", !.id = i, !.s = plan[i]])
    BY <1>5 DEF End
  <2> DEFINE o == [NoOp EXCEPT !.cmd = "end", !.step = "read", !.id = i, !.s = plan[i]]
  <2>2. /\ o \in Operation /\ o.cmd = "end" /\ o.step = "read" /\ o.id = i /\ o.s = plan[i]
        /\ ~o.stale /\ ~o.ok
    BY <1>0, NoOpType DEF NoOp, Operation
  <2>3. op' = [op EXCEPT ![p] = o]
    BY <2>1 DEF SetOp
  <2> HIDE DEF o
  <2>5. OpsTyped /\ Only(p) /\ op'[p] = o /\ \A q \in Procs : q # p => op'[q] = op[q]
    BY <2>2, <2>3, SetOpFacts DEF About
  <2> QED
    BY <1>5, <2>1, <2>2, <2>5 DEF End, Idle, Reads
<1> QED
  BY <1>1, <1>2, <1>3, <1>4, <1>5

\* An operation ends with a write: it leaves the plan as s.
Writes(p, s) ==
  /\ p \notin dead /\ op[p].step # "none" /\ op[p].cmd # "issue"
  /\ s \in StoredPlan /\ WritePlan(p, s)
  /\ UNCHANGED <<procVars, store, session, overlap, bound, grants, accepted>>

\* What becomes of the lifecycle and of the approval in the plan that is written.
LEMMA WriteSteps ==
  ASSUME Typed, NEW p \in Procs
  PROVE  /\ WriteArmed(p) => \E s \in StoredPlan :
              /\ Writes(p, s)
              /\ op[p].ok => s.approved_hash = op[p].s.plan_hash /\ s.lifecycle = "armed"
              /\ ~op[p].ok => s.approved_hash = op[p].s.approved_hash /\ s.lifecycle = "ready"
         /\ \/ LaunchRefused(p) \/ WriteRunning(p) \/ LaunchContainer(p)
            \/ WriteContainerEnd(p) \/ WriteEnd(p)
            => \E s \in StoredPlan :
                 /\ Writes(p, s) /\ s.approved_hash = op[p].s.approved_hash
                 /\ s.lifecycle \in {"ready", "running", "over"}
         /\ WriteTail(p) => \E s \in StoredPlan :
              /\ Writes(p, s) /\ s.approved_hash = op[p].s.approved_hash
              /\ s.lifecycle = IF op[p].s.lifecycle = "running" THEN "over" ELSE op[p].s.lifecycle
<1>1. op[p].s \in StoredPlan
  BY DEF Typed, Operation
<1>2. ASSUME NEW s, WritePlan(p, s), s \in StoredPlan,
             WriteArmed(p) \/ LaunchRefused(p) \/ WriteRunning(p) \/ LaunchContainer(p)
             \/ WriteContainerEnd(p) \/ WriteEnd(p) \/ WriteTail(p)
      PROVE  Writes(p, s)
  BY <1>2 DEF Writes, WriteArmed, LaunchRefused, WriteRunning, LaunchContainer, WriteContainerEnd,
              WriteEnd, WriteTail, At, Doing, procVars, Typed, About
<1>3. ASSUME WriteArmed(p)
      PROVE  \E s \in StoredPlan :
              /\ Writes(p, s)
              /\ op[p].ok => s.approved_hash = op[p].s.plan_hash /\ s.lifecycle = "armed"
              /\ ~op[p].ok => s.approved_hash = op[p].s.approved_hash /\ s.lifecycle = "ready"
  <2> DEFINE s == IF op[p].ok THEN [op[p].s EXCEPT !.approved_hash = op[p].s.plan_hash, !.lifecycle = "armed"]
                              ELSE [op[p].s EXCEPT !.lifecycle = "ready"]
  <2>1. /\ s \in StoredPlan
        /\ op[p].ok => s.approved_hash = op[p].s.plan_hash /\ s.lifecycle = "armed"
        /\ ~op[p].ok => s.approved_hash = op[p].s.approved_hash /\ s.lifecycle = "ready"
    BY <1>1 DEF StoredPlan, Lifecycle
  <2>2. WritePlan(p, s)
    BY <1>3 DEF WriteArmed
  <2> HIDE DEF s
  <2> QED
    BY <1>2, <1>3, <2>1, <2>2
<1>4. ASSUME LaunchRefused(p)
      PROVE  \E s \in StoredPlan : /\ Writes(p, s) /\ s.approved_hash = op[p].s.approved_hash
                                   /\ s.lifecycle \in {"ready", "running", "over"}
  <2> DEFINE s == IF Unchanged(op[p].s) THEN [op[p].s EXCEPT !.lifecycle = "over"]
                  ELSE [op[p].s EXCEPT !.plan_hash = op[p].s.plan, !.lifecycle = "ready"]
  <2>1. s \in StoredPlan /\ s.approved_hash = op[p].s.approved_hash /\ s.lifecycle \in {"ready", "over"}
    BY <1>1 DEF StoredPlan, Lifecycle
  <2>2. WritePlan(p, s)
    BY <1>4 DEF LaunchRefused
  <2> HIDE DEF s
  <2> QED
    BY <1>2, <1>4, <2>1, <2>2
<1>5. ASSUME NEW w \in {"tmux", "container"}, NEW l \in {"running", "over"}, NEW s,
             s = [op[p].s EXCEPT !.session = w, !.lifecycle = l] \/ s = [op[p].s EXCEPT !.lifecycle = l]
      PROVE  s \in StoredPlan /\ s.approved_hash = op[p].s.approved_hash /\ s.lifecycle = l
  BY <1>1, <1>5 DEF StoredPlan, Lifecycle
<1>6. ASSUME WriteRunning(p) \/ LaunchContainer(p) \/ WriteContainerEnd(p) \/ WriteEnd(p)
      PROVE  \E s \in StoredPlan : /\ Writes(p, s) /\ s.approved_hash = op[p].s.approved_hash
                                   /\ s.lifecycle \in {"ready", "running", "over"}
  <2>1. PICK s \in {[op[p].s EXCEPT !.session = "tmux", !.lifecycle = "running"],
                    [op[p].s EXCEPT !.session = "container", !.lifecycle = "running"],
                    [op[p].s EXCEPT !.lifecycle = "over"]} : WritePlan(p, s)
    BY <1>6 DEF WriteRunning, LaunchContainer, WriteContainerEnd, WriteEnd
  <2>2. s \in StoredPlan /\ s.approved_hash = op[p].s.approved_hash /\ s.lifecycle \in {"running", "over"}
    BY <1>5, <2>1
  <2> QED
    BY <1>2, <1>6, <2>1, <2>2
<1>7. ASSUME WriteTail(p)
      PROVE  \E s \in StoredPlan :
               /\ Writes(p, s) /\ s.approved_hash = op[p].s.approved_hash
               /\ s.lifecycle = IF op[p].s.lifecycle = "running" THEN "over" ELSE op[p].s.lifecycle
  <2> DEFINE s == [op[p].s EXCEPT !.lifecycle = IF @ = "running" THEN "over" ELSE @]
  <2>1. /\ s \in StoredPlan /\ s.approved_hash = op[p].s.approved_hash
        /\ s.lifecycle = IF op[p].s.lifecycle = "running" THEN "over" ELSE op[p].s.lifecycle
    BY <1>1 DEF StoredPlan, Lifecycle
  <2>2. WritePlan(p, s)
    BY <1>7 DEF WriteTail
  <2> HIDE DEF s
  <2> QED
    BY <1>2, <1>7, <2>1, <2>2
<1> QED
  BY <1>3, <1>4, <1>6, <1>7

LEMMA TypedNext == Typed /\ [Next]_vars => Typed'
<1> SUFFICES ASSUME Typed, Next PROVE Typed'
  BY DEF vars, procVars, auxVars, Typed
<1> USE DEF procVars, auxVars
<1>0. ASSUME OpsTyped,
             plan' \in [Plans -> StoredPlan], holder' \in Procs \cup {Nobody}, dead' \in SUBSET Procs,
             orphaned' \in BOOLEAN, overlap' \in BOOLEAN, accepted' \in [Contents -> Nat],
             store' \in SUBSET Approval, session' \in SUBSET Plans,
             boxes' \in [Procs -> [Plans -> Nat]], bound' \in [Tokens -> Contents \cup {None}],
             grants' \in [Tokens -> Nat], launches' \in [Contents -> Nat], lost' \in Nat
      PROVE  Typed'
  BY <1>0 DEF OpsTyped, Typed
<1>32. UNCHANGED op => OpsTyped
  BY DEF OpsTyped, Typed
<1>33. \A p \in Procs : op[p] \in Operation /\ op[p].s \in StoredPlan /\ op[p].list \in SUBSET Approval
  BY DEF Typed, Operation
<1>1. ASSUME NEW p \in Procs, Create(p) PROVE Typed'
  <2>1. PICK i \in Plans, c \in Contents :
          plan' = [plan EXCEPT ![i] = [NoPlan EXCEPT !.plan = c, !.plan_hash = c, !.lifecycle = "ready"]]
    BY <1>1 DEF Create
  <2>2. [NoPlan EXCEPT !.plan = c, !.plan_hash = c, !.lifecycle = "ready"] \in StoredPlan
    BY DEF NoPlan, StoredPlan, Lifecycle
  <2> QED
    BY <1>1, <1>0, <1>32, <2>1, <2>2 DEF Create, Typed
<1>9. ASSUME NEW p \in Procs, NEW i \in Plans, Reads(p, i),
             session' \in SUBSET Plans, boxes' \in [Procs -> [Plans -> Nat]]
      PROVE  Typed'
  BY <1>0, <1>9 DEF Reads, Typed
<1>10. ASSUME NEW p \in Procs, NEW s \in StoredPlan, Writes(p, s),
              boxes' \in [Procs -> [Plans -> Nat]], launches' \in [Contents -> Nat]
       PROVE  Typed'
  BY <1>0, <1>10, WriteFacts DEF Writes, Typed
<1>11. boxes \in [Procs -> [Plans -> Nat]] /\ launches \in [Contents -> Nat]
  BY DEF Typed
<1>2. ASSUME NEW p \in Procs, Arm(p) \/ Launch(p) \/ Tail(p) PROVE Typed'
  <2>1. UNCHANGED <<session, boxes>>
    BY <1>2 DEF Arm, Launch, Tail
  <2> QED
    BY <1>2, <1>9, <1>11, <2>1, ReadSteps DEF Typed
<1>12. ASSUME NEW p \in Procs, ContainerEnds(p) PROVE Typed'
  <2>1. PICK i \in Plans : boxes[p][i] > 0 /\ boxes' = [boxes EXCEPT ![p][i] = @ - 1]
    BY <1>12 DEF ContainerEnds
  <2>2. boxes' \in [Procs -> [Plans -> Nat]]
    BY <1>11, <2>1
  <2>3. session' \in SUBSET Plans
    BY <1>12 DEF ContainerEnds, Typed
  <2> QED
    BY <1>9, <1>12, <2>2, <2>3, ReadSteps
<1>13. ASSUME NEW p \in Procs, End(p) PROVE Typed'
  <2>1. session' \in SUBSET Plans /\ UNCHANGED boxes
    BY <1>13 DEF End, Typed
  <2> QED
    BY <1>9, <1>11, <1>13, <2>1, ReadSteps
<1>14. ASSUME NEW p \in Procs,
              WriteArmed(p) \/ LaunchRefused(p) \/ WriteRunning(p) \/ WriteContainerEnd(p)
              \/ WriteTail(p) \/ WriteEnd(p)
       PROVE  Typed'
  <2>1. UNCHANGED <<boxes, launches>>
    BY <1>14 DEF WriteArmed, LaunchRefused, WriteRunning, WriteContainerEnd, WriteTail, WriteEnd
  <2>2. PICK s \in StoredPlan : Writes(p, s)
    BY <1>14, WriteSteps
  <2> QED
    BY <1>10, <1>11, <2>1, <2>2
<1>18. ASSUME NEW p \in Procs, LaunchContainer(p) PROVE Typed'
  <2>1. launches' \in [Contents -> Nat]
    BY <1>11, <1>18, BumpType DEF LaunchContainer
  <2>2. op[p].id \in Plans /\ boxes[p] \in [Plans -> Nat]
    BY <1>11, <1>18 DEF LaunchContainer, Doing, Typed, About
  <2>3. boxes' = [boxes EXCEPT ![p] = [boxes[p] EXCEPT ![op[p].id] = boxes[p][op[p].id] + 1]]
    BY <1>18 DEF LaunchContainer
  <2>4. [boxes[p] EXCEPT ![op[p].id] = boxes[p][op[p].id] + 1] \in [Plans -> Nat]
    BY <2>2, BumpType
  <2>5. boxes' \in [Procs -> [Plans -> Nat]]
    BY <1>11, <2>3, <2>4
  <2>6. PICK s \in StoredPlan : Writes(p, s)
    BY <1>18, WriteSteps
  <2> QED
    BY <1>10, <2>1, <2>5, <2>6
<1>19. ASSUME NEW p \in Procs, Ask(p) PROVE Typed'
  <2> DEFINE o == [NoOp EXCEPT !.cmd = "issue", !.step = "lock"]
  <2>1. o \in Operation /\ About(o)
    BY NoOpType DEF NoOp, Operation, About
  <2>2. op' = [op EXCEPT ![p] = o]
    BY <1>19 DEF Ask, SetOp
  <2> HIDE DEF o
  <2>3. OpsTyped
    BY <2>1, <2>2, SetOpFacts
  <2> QED
    BY <1>19, <1>0, <2>3 DEF Ask, Typed
<1>3. ASSUME NEW p \in Procs, Enter(p) PROVE Typed'
  <2>1. OpsTyped
    BY <1>3, StepFacts DEF Enter, At
  <2>2. overlap' \in BOOLEAN
    BY <1>3, Zenon DEF Enter
  <2> QED
    BY <1>3, <1>0, <2>1, <2>2 DEF Enter, Typed
<1>20. ASSUME NEW p \in Procs, Mint(p) PROVE Typed'
  <2>1. PICK t \in Tokens, c \in Contents :
          /\ bound' = [bound EXCEPT ![t] = c]
          /\ SetOp(p, [op[p] EXCEPT !.step = "cut",
                         !.list = store \cup {[token |-> t, planHash |-> c, used |-> FALSE]}])
    BY <1>20 DEF Mint
  <2> DEFINE l == store \cup {[token |-> t, planHash |-> c, used |-> FALSE]}
             o == [op[p] EXCEPT !.step = "cut", !.list = l]
  <2>2. l \in SUBSET Approval
    <3>1. [token |-> t, planHash |-> c, used |-> FALSE] \in Approval /\ store \in SUBSET Approval
      BY DEF Approval, Typed
    <3> QED
      BY <3>1
  <2>3. op' = [op EXCEPT ![p] = o] /\ op[p].cmd = "issue"
    BY <1>20, <2>1 DEF SetOp, Mint, Doing
  <2>4. o \in Operation /\ o.step = "cut" /\ o.cmd = op[p].cmd /\ o.ok = op[p].ok
    <3> HIDE DEF l
    <3> QED
      BY <1>33, <2>2 DEF Operation
  <2> HIDE DEF o
  <2>5. About(o)
    BY <2>3, <2>4 DEF About, Typed
  <2>6. OpsTyped
    BY <2>3, <2>4, <2>5, SetOpFacts
  <2>7. bound' \in [Tokens -> Contents \cup {None}]
    BY <2>1 DEF Typed
  <2> QED
    BY <1>20, <1>0, <2>6, <2>7 DEF Mint, Typed
<1>4. ASSUME NEW p \in Procs, GiveUp(p) PROVE Typed'
  BY <1>4, <1>0, SetOpFacts, NoOpType DEF GiveUp, SetOp, Typed
<1>5. ASSUME NEW p \in Procs, Decide(p) PROVE Typed'
  <2>1. op[p] \in Operation /\ store \in SUBSET Approval
    BY DEF Typed
  <2>2. Consumed(store, op[p].token) \in SUBSET Approval
    BY <2>1, ConsumedType
  <2>3. /\ [op[p] EXCEPT !.step = "cut", !.list = Consumed(store, op[p].token), !.ok = TRUE] \in Operation
        /\ [op[p] EXCEPT !.step = "leave"] \in Operation
    BY <2>1, <2>2 DEF Operation
  <2>5. /\ About([op[p] EXCEPT !.step = "cut", !.list = Consumed(store, op[p].token), !.ok = TRUE])
        /\ About([op[p] EXCEPT !.step = "leave"])
    <3> DEFINE list == Consumed(store, op[p].token)
    <3>1. op[p].cmd = "arm" /\ op[p].id \in Plans
      BY <1>5 DEF Decide, Doing, Typed, About
    <3>2. ASSUME NEW o \in {[op[p] EXCEPT !.step = "cut", !.list = list, !.ok = TRUE],
                            [op[p] EXCEPT !.step = "leave"]}
          PROVE  o.cmd = "arm" /\ o.id \in Plans
      <4> HIDE DEF list
      <4> QED
        BY <2>1, <3>1 DEF Operation
    <3> QED
      BY <3>2 DEF About
  <2>4. OpsTyped
    BY <1>5, <2>3, <2>5, SetOpFacts DEF Decide, SetOp
  <2> QED
    BY <1>5, <1>0, <2>4 DEF Decide, Typed
<1>6. ASSUME NEW p \in Procs, CutStore(p) PROVE Typed'
  BY <1>6, <1>0, StepFacts DEF CutStore, At, Typed
<1>7. ASSUME NEW p \in Procs, WriteStore(p) PROVE Typed'
  <2>1. op[p] \in Operation /\ op \in [Procs -> Operation] /\ grants \in [Tokens -> Nat]
    BY DEF Typed
  <2>2. op' = [op EXCEPT ![p] = [op[p] EXCEPT !.step = "leave", !.list = {}]]
    BY <1>7, <2>1 DEF WriteStore
  <2> DEFINE o == [op[p] EXCEPT !.step = "leave", !.list = {}]
  <2>7. o \in Operation /\ o.cmd = op[p].cmd /\ o.id = op[p].id /\ o.ok = op[p].ok /\ o.step = "leave"
    BY <2>1 DEF Operation
  <2> HIDE DEF o
  <2>3. About(o)
    BY <1>7, <2>7 DEF About, WriteStore, At, Typed
  <2>4. OpsTyped
    BY <2>2, <2>3, <2>7, SetOpFacts DEF o
  <2>5. op[p].list \in SUBSET Approval
    BY <2>1 DEF Operation
  <2>6. grants' \in [Tokens -> Nat] /\ accepted' \in [Contents -> Nat]
    <3>1. accepted \in [Contents -> Nat]
      BY DEF Typed
    <3> QED
      BY <1>7, <2>1, <3>1, BumpType DEF WriteStore
  <2> QED
    BY <1>7, <1>0, <2>4, <2>5, <2>6 DEF WriteStore, Typed
<1>8. ASSUME NEW p \in Procs, Release(p) PROVE Typed'
  <2>1. CASE op[p].cmd = "issue"
    <3>1. op' = [op EXCEPT ![p] = NoOp]
      BY <1>8, <2>1 DEF Release, SetOp
    <3> QED
      BY <1>8, <1>0, <3>1, SetOpFacts, NoOpType DEF Release, Typed
  <2>2. CASE op[p].cmd # "issue"
    <3>1. op' = [op EXCEPT ![p].step = "answer"]
      BY <1>8, <2>2 DEF Release, SetOp
    <3> QED
      BY <1>8, <1>0, <2>2, <3>1, StepFacts DEF Release, At, Typed
  <2> QED
    BY <2>1, <2>2
<1>15. ASSUME NEW p \in Procs, KillSession(p) PROVE Typed'
  BY <1>15, <1>0, StepFacts DEF KillSession, Doing, Typed
<1>16. ASSUME NEW p \in Procs, NewSession(p) PROVE Typed'
  <2>1. op[p].id \in Plans /\ session' = session \cup {op[p].id}
    BY <1>16 DEF NewSession, Doing, Typed, About
  <2> QED
    BY <1>16, <1>0, <2>1, StepFacts DEF NewSession, Doing, Typed
<1>17. ASSUME NEW p \in Procs, SendKeys(p) PROVE Typed'
  <2>1. launches' \in [Contents -> Nat]
    BY <1>11, <1>17, BumpType DEF SendKeys
  <2> QED
    BY <1>17, <1>0, <2>1, StepFacts DEF SendKeys, Doing, Typed
<1>23. ASSUME NEW p \in Procs, Capture(p) PROVE Typed'
  <2>1. CASE SetOp(p, NoOp)
    BY <1>23, <1>0, <2>1, SetOpFacts, NoOpType DEF Capture, SetOp, Typed
  <2>2. CASE op' = [op EXCEPT ![p].step = "write"]
    BY <1>23, <1>0, <2>2, StepFacts DEF Capture, Doing, Typed
  <2> QED
    BY <1>23, <2>1, <2>2 DEF Capture
<1>27. ASSUME NEW p \in Procs, Die(p) PROVE Typed'
  <2>1. boxes' \in [Procs -> [Plans -> Nat]]
    BY <1>11, <1>27 DEF Die
  <2>2. OpsTyped
    BY <1>27, SetOpFacts, NoOpType DEF Die, SetOp
  <2> QED
    BY <1>27, <1>0, <2>1, <2>2 DEF Die, Typed
<1>28. CASE Expire
  BY <1>28, <1>0, <1>32 DEF Expire, Typed
<1>30. CASE Edit
  <2>1. PICK i \in Plans, c \in Edited : plan' = [plan EXCEPT ![i].plan = c]
    BY <1>30 DEF Edit
  <2>2. plan[i] \in StoredPlan /\ plan' = [plan EXCEPT ![i] = [plan[i] EXCEPT !.plan = c]] /\ c \in Contents
    BY <2>1, DispatchAssumption DEF Typed
  <2>3. plan' \in [Plans -> StoredPlan]
    BY <2>2, PlanTypes DEF Typed
  <2> QED
    BY <1>30, <1>0, <1>32, <2>3 DEF Edit, Typed
<1>31. CASE SessionEnds
  BY <1>31, <1>0, <1>32 DEF SessionEnds, Typed
<1> QED
  BY <1>1, <1>2, <1>3, <1>4, <1>5, <1>6, <1>7, <1>8, <1>12, <1>13, <1>14, <1>15, <1>16, <1>17, <1>18,
     <1>19, <1>20, <1>23, <1>27, <1>28, <1>30, <1>31
     DEF Next, Approving, Launching, Watching

-----------------------------------------------------------------------------
(* The steps inside the lock *)

Inside(p) == Enter(p) \/ Mint(p) \/ Decide(p) \/ CutStore(p) \/ WriteStore(p) \/ Release(p)

\* What such a step leaves alone.
Within(p) ==
  /\ p \notin dead /\ dead' = dead /\ orphaned' = orphaned /\ Only(p)
  /\ \A q \in Procs : q # p => op'[q] = op[q]
  /\ op[p].step \in {"lock", "decide", "cut", "store", "leave"}
  /\ \/ op'[p] = NoOp
     \/ /\ op'[p].s = op[p].s /\ op'[p].cmd = op[p].cmd /\ op'[p].token = op[p].token
        /\ op'[p].id = op[p].id /\ op'[p].stale = op[p].stale
  /\ UNCHANGED <<plan, session, boxes, launches, lost>>

\* Two operations that differ in their step, their list and their answer, if at all.
Moved(r, o) ==
  o.s = r.s /\ o.cmd = r.cmd /\ o.token = r.token /\ o.id = r.id /\ o.stale = r.stale

LEMMA ExceptFacts ==
  ASSUME NEW r \in Operation, NEW k, NEW l, NEW b
  PROVE  /\ Moved(r, [r EXCEPT !.step = k, !.list = l, !.ok = b])
         /\ [r EXCEPT !.step = k, !.list = l, !.ok = b].step = k
         /\ [r EXCEPT !.step = k, !.list = l, !.ok = b].list = l
         /\ Moved(r, [r EXCEPT !.step = k, !.list = l])
         /\ [r EXCEPT !.step = k, !.list = l].step = k
         /\ [r EXCEPT !.step = k, !.list = l].list = l
         /\ [r EXCEPT !.step = k, !.list = l].ok = r.ok
         /\ Moved(r, [r EXCEPT !.step = k])
         /\ [r EXCEPT !.step = k].step = k
         /\ [r EXCEPT !.step = k].list = r.list
         /\ [r EXCEPT !.step = k].ok = r.ok
BY DEF Operation, Moved

LEMMA InsideSteps ==
  ASSUME Typed, NEW p \in Procs, Inside(p)
  PROVE  /\ Within(p)
         /\ Enter(p) => op'[p].step = "decide" /\ op'[p].ok = op[p].ok /\ op[p].step = "lock"
         /\ Mint(p) => /\ op[p].step = "decide" /\ op[p].cmd = "issue" /\ op'[p].step = "cut"
                       /\ op'[p].ok = op[p].ok /\ op'[p].cmd = "issue"
                       /\ \E t \in Tokens, c \in Contents :
                            /\ bound[t] = None /\ bound' = [bound EXCEPT ![t] = c]
                            /\ op'[p].list = store \cup {[token |-> t, planHash |-> c, used |-> FALSE]}
         /\ Decide(p) => /\ op[p].step = "decide" /\ op[p].cmd = "arm"
                         /\ \/ /\ Valid(store, op[p].token, op[p].s.plan_hash) /\ op'[p].step = "cut"
                               /\ op'[p].list = Consumed(store, op[p].token) /\ op'[p].token = op[p].token
                               /\ op'[p].s = op[p].s
                            \/ op'[p].step = "leave" /\ op'[p].ok = op[p].ok
         /\ CutStore(p) => /\ op[p].step = "cut" /\ op'[p].step = "store" /\ op'[p].ok = op[p].ok
                           /\ op'[p].list = op[p].list /\ op'[p].s = op[p].s
                           /\ op'[p].cmd = op[p].cmd /\ op'[p].token = op[p].token
         /\ WriteStore(p) => /\ op[p].step = "store" /\ op'[p].step = "leave" /\ op'[p].ok = op[p].ok
                             /\ op'[p].s = op[p].s /\ op'[p].cmd = op[p].cmd
         /\ Release(p) => /\ op[p].step = "leave"
                          /\ \/ op'[p] = NoOp /\ op[p].cmd = "issue"
                             \/ /\ op'[p].step = "answer" /\ op'[p].ok = op[p].ok /\ op'[p].s = op[p].s
                                /\ op[p].cmd # "issue"
<1> USE DEF procVars, auxVars
<1>1. op \in [Procs -> Operation] /\ op[p] \in Operation
  BY DEF Typed
<1>2. ASSUME NEW o, op' = [op EXCEPT ![p] = o]
      PROVE  op'[p] = o /\ (\A q \in Procs : q # p => op'[q] = op[q]) /\ Only(p)
  BY <1>1, <1>2 DEF Only, Alike
<1>3. ASSUME NEW k, op' = [op EXCEPT ![p].step = k]
      PROVE  op' = [op EXCEPT ![p] = [op[p] EXCEPT !.step = k]]
  BY <1>1, <1>3
\* Every step gives p another operation
<1>4. ASSUME NEW o, op' = [op EXCEPT ![p] = o], Moved(op[p], o), p \notin dead,
             op[p].step \in {"lock", "decide", "cut", "store", "leave"},
             UNCHANGED <<dead, orphaned, plan, session, boxes, launches, lost>>
      PROVE  Within(p) /\ op'[p] = o /\ Moved(op[p], op'[p])
  BY <1>2, <1>4 DEF Within, Moved
<1>5. CASE Enter(p)
  <2> DEFINE o == [op[p] EXCEPT !.step = "decide"]
  <2>1. op' = [op EXCEPT ![p] = o]
    BY <1>3, <1>5 DEF Enter
  <2>2. Moved(op[p], o) /\ o.step = "decide" /\ o.ok = op[p].ok
    BY <1>1, ExceptFacts
  <2> HIDE DEF o
  <2>3. Within(p) /\ op'[p] = o /\ op[p].step = "lock"
    BY <1>4, <1>5, <2>1, <2>2 DEF Enter, At
  <2> QED
    BY <2>2, <2>3 DEF Mint, Decide, CutStore, WriteStore, Release, At, Doing
<1>6. CASE Mint(p)
  <2>1. PICK t \in Tokens, c \in Contents :
          /\ bound[t] = None /\ bound' = [bound EXCEPT ![t] = c]
          /\ op' = [op EXCEPT ![p] = [op[p] EXCEPT !.step = "cut",
                      !.list = store \cup {[token |-> t, planHash |-> c, used |-> FALSE]}]]
    BY <1>6 DEF Mint, SetOp
  <2> DEFINE l == store \cup {[token |-> t, planHash |-> c, used |-> FALSE]}
             o == [op[p] EXCEPT !.step = "cut", !.list = l]
  <2>2. op' = [op EXCEPT ![p] = o]
    BY <2>1
  <2>3. Moved(op[p], o) /\ o.step = "cut" /\ o.ok = op[p].ok /\ o.list = l
    <3> HIDE DEF l
    <3>1. op[p] \in Operation
      BY <1>1
    <3> QED
      BY <3>1 DEF Operation, Moved
  <2>4. op[p].step = "decide" /\ op[p].cmd = "issue"
    BY <1>6 DEF Mint, Doing
  <2> HIDE DEF o
  <2>5. Within(p) /\ op'[p] = o /\ Moved(op[p], op'[p])
    BY <1>4, <1>6, <2>2, <2>3, <2>4 DEF Mint, Doing
  <2> QED
    BY <2>1, <2>3, <2>4, <2>5 DEF Moved, Enter, Decide, CutStore, WriteStore, Release, At, Doing
<1>7. CASE Decide(p)
  <2>1. op[p].step = "decide" /\ op[p].cmd = "arm"
    BY <1>7 DEF Decide, Doing
  <2>2. CASE Valid(store, op[p].token, op[p].s.plan_hash)
    <3> DEFINE l == Consumed(store, op[p].token)
               o == [op[p] EXCEPT !.step = "cut", !.list = l, !.ok = TRUE]
    <3>1. op' = [op EXCEPT ![p] = o]
      BY <1>7, <2>2 DEF Decide, SetOp
    <3>2. Moved(op[p], o) /\ o.step = "cut" /\ o.list = l
      <4> HIDE DEF l
      <4>1. op[p] \in Operation
        BY <1>1
      <4> QED
        BY <4>1 DEF Operation, Moved
    <3> HIDE DEF o
    <3>3. Within(p) /\ op'[p] = o /\ Moved(op[p], op'[p])
      BY <1>4, <1>7, <2>1, <3>1, <3>2 DEF Decide, Doing
    <3> QED
      BY <2>1, <2>2, <3>2, <3>3 DEF Moved, Enter, Mint, CutStore, WriteStore, Release, At, Doing
  <2>3. CASE ~Valid(store, op[p].token, op[p].s.plan_hash)
    <3> DEFINE o == [op[p] EXCEPT !.step = "leave"]
    <3>1. op' = [op EXCEPT ![p] = o]
      BY <1>7, <2>3 DEF Decide, SetOp
    <3>2. Moved(op[p], o) /\ o.step = "leave" /\ o.ok = op[p].ok
      BY <1>1, ExceptFacts
    <3> HIDE DEF o
    <3>3. Within(p) /\ op'[p] = o
      BY <1>4, <1>7, <2>1, <3>1, <3>2 DEF Decide, Doing
    <3> QED
      BY <2>1, <3>2, <3>3 DEF Enter, Mint, CutStore, WriteStore, Release, At, Doing
  <2> QED
    BY <2>2, <2>3
<1>8. CASE CutStore(p)
  <2> DEFINE o == [op[p] EXCEPT !.step = "store"]
  <2>1. op' = [op EXCEPT ![p] = o] /\ op[p].step = "cut"
    BY <1>3, <1>8 DEF CutStore, At
  <2>2. Moved(op[p], o) /\ o.step = "store" /\ o.ok = op[p].ok /\ o.list = op[p].list
    BY <1>1, ExceptFacts
  <2> HIDE DEF o
  <2>3. Within(p) /\ op'[p] = o /\ Moved(op[p], op'[p])
    BY <1>4, <1>8, <2>1, <2>2 DEF CutStore, At
  <2> QED
    BY <2>1, <2>2, <2>3 DEF Moved, Enter, Mint, Decide, WriteStore, Release, At, Doing
<1>9. CASE WriteStore(p)
  <2> DEFINE o == [op[p] EXCEPT !.step = "leave", !.list = {}]
  <2>1. op' = [op EXCEPT ![p] = o] /\ op[p].step = "store"
    BY <1>1, <1>9 DEF WriteStore, At
  <2>2. Moved(op[p], o) /\ o.step = "leave" /\ o.ok = op[p].ok
    <3>1. op[p] \in Operation
      BY <1>1
    <3> QED
      BY <3>1 DEF Operation, Moved
  <2> HIDE DEF o
  <2>3. Within(p) /\ op'[p] = o /\ Moved(op[p], op'[p])
    BY <1>4, <1>9, <2>1, <2>2 DEF WriteStore, At
  <2> QED
    BY <2>1, <2>2, <2>3 DEF Moved, Enter, Mint, Decide, CutStore, Release, At, Doing
<1>10. CASE Release(p)
  <2>1. op[p].step = "leave" /\ p \notin dead
    BY <1>10 DEF Release, At
  <2>2. CASE op[p].cmd = "issue"
    <3>1. op' = [op EXCEPT ![p] = NoOp]
      BY <1>10, <2>2 DEF Release, SetOp
    <3>2. Within(p) /\ op'[p] = NoOp
      BY <1>2, <1>10, <2>1, <3>1 DEF Release, Within
    <3> QED
      BY <2>1, <2>2, <3>2 DEF Enter, Mint, Decide, CutStore, WriteStore, At, Doing
  <2>3. CASE op[p].cmd # "issue"
    <3> DEFINE o == [op[p] EXCEPT !.step = "answer"]
    <3>1. op' = [op EXCEPT ![p] = o]
      BY <1>10, <2>3 DEF Release, SetOp
    <3>2. Moved(op[p], o) /\ o.step = "answer" /\ o.ok = op[p].ok
      BY <1>1, ExceptFacts
    <3> HIDE DEF o
    <3>3. Within(p) /\ op'[p] = o /\ Moved(op[p], op'[p])
      BY <1>4, <1>10, <2>1, <3>1, <3>2 DEF Release
    <3> QED
      BY <2>1, <2>3, <3>2, <3>3 DEF Moved, Enter, Mint, Decide, CutStore, WriteStore, At, Doing
  <2> QED
    BY <2>2, <2>3
<1> QED
  BY <1>5, <1>6, <1>7, <1>8, <1>9, <1>10 DEF Inside

-----------------------------------------------------------------------------
(* The tokens *)

Holding == {"decide", "cut", "store", "leave"}

\* Each token of a list is there once, for the hash it was minted for.
WellFormed(list) ==
  /\ \A a \in list : a.planHash = bound[a.token]
  /\ \A a, b \in list : a.token = b.token => a = b

\* What is unused was never accepted.
Fresh(list) == \A a \in list : ~a.used => grants[a.token] = 0

DeadIdle == \A p \in dead : op[p] = NoOp

\* A token that was never minted was never accepted.
Minted == \A t \in Tokens : bound[t] = None => grants[t] = 0

\* Whoever writes the approvals writes minted tokens, and accepts one that was minted for
\* its plan's hash: so it is also when several are at work.
Entry(o) ==
  o.step \in {"cut", "store"} =>
    /\ WellFormed(o.list)
    /\ o.cmd = "arm" => /\ o.token \in Tokens /\ o.s.plan_hash \in Contents
                        /\ bound[o.token] = o.s.plan_hash

Shape ==
  /\ Typed /\ DeadIdle /\ Minted /\ WellFormed(store)
  /\ \A p \in Procs : Entry(op[p])
  /\ overlap => orphaned

\* As long as one at a time is inside the lock, whoever has decided to accept a token
\* holds a list in which it is used, and nobody has accepted it yet.
Locked == \A p \in Procs : op[p].step \in Holding => holder = p

Clean(o) ==
  o.step \in {"cut", "store"} =>
    /\ Fresh(o.list)
    /\ o.cmd = "arm" => /\ grants[o.token] = 0
                        /\ \A a \in o.list : a.token = o.token => a.used

Exclusive ==
  /\ Locked /\ Fresh(store)
  /\ \A p \in Procs : Clean(op[p])
  /\ \A t \in Tokens : grants[t] <= 1

TokenInv == Shape /\ (~overlap => Exclusive)

\* Consuming a token leaves a list that may be written.
LEMMA ConsumedSound ==
  ASSUME NEW t, NEW list \in SUBSET Approval
  PROVE  /\ WellFormed(list) => WellFormed(Consumed(list, t))
         /\ Fresh(list) => Fresh(Consumed(list, t))
         /\ \A a \in Consumed(list, t) : a.token = t => a.used
<1>1. ASSUME NEW a \in Consumed(list, t)
      PROVE  \E b \in list : /\ a.token = b.token /\ a.planHash = b.planHash
                             /\ a = IF b.token = t THEN [b EXCEPT !.used = TRUE] ELSE b
                             /\ (~a.used => ~b.used) /\ (a.token = t => a.used)
  <2>1. PICK b \in list : a = IF b.token = t THEN [b EXCEPT !.used = TRUE] ELSE b
    BY DEF Consumed
  <2>2. b \in Approval
    OBVIOUS
  <2> QED
    BY <2>1, <2>2 DEF Approval
<1>2. ASSUME WellFormed(list), NEW a \in Consumed(list, t) PROVE a.planHash = bound[a.token]
  BY <1>1, <1>2 DEF WellFormed
<1>4. ASSUME Fresh(list) PROVE Fresh(Consumed(list, t))
  BY <1>1, <1>4 DEF Fresh
<1>3. ASSUME WellFormed(list), NEW a \in Consumed(list, t), NEW b \in Consumed(list, t), a.token = b.token
      PROVE  a = b
  <2>1. PICK x \in list : a.token = x.token /\ a = IF x.token = t THEN [x EXCEPT !.used = TRUE] ELSE x
    BY <1>1
  <2>2. PICK y \in list : b.token = y.token /\ b = IF y.token = t THEN [y EXCEPT !.used = TRUE] ELSE y
    BY <1>1
  <2>3. x = y
    BY <1>3, <2>1, <2>2 DEF WellFormed
  <2> QED
    BY <2>1, <2>2, <2>3
<1> QED
  BY <1>1, <1>2, <1>3, <1>4 DEF WellFormed

\* A minted token keeps its hash.
Keeps == \A t \in Tokens : bound[t] # None => bound'[t] = bound[t]

LEMMA WellFormedStays ==
  ASSUME NEW list \in SUBSET Approval, WellFormed(list), Keeps
  PROVE  \A a \in list : a.planHash = bound'[a.token]
<1> SUFFICES ASSUME NEW a \in list PROVE a.planHash = bound'[a.token]
  OBVIOUS
<1>1. a.planHash = bound[a.token] /\ a.token \in Tokens /\ a.planHash # None
  BY DispatchAssumption DEF WellFormed, Approval
<1> QED
  BY <1>1 DEF Keeps

\* What minting t for c makes of a list.
\* A new token t, minted for c and added to the list.
Mints(t, c, list, more) ==
  /\ bound[t] = None /\ bound' = [bound EXCEPT ![t] = c]
  /\ more = list \cup {[token |-> t, planHash |-> c, used |-> FALSE]}

LEMMA MintSound ==
  ASSUME NEW list \in SUBSET Approval, NEW t \in Tokens, NEW c \in Contents, Typed, WellFormed(list),
         NEW more, Mints(t, c, list, more)
  PROVE  /\ Keeps
         /\ \A a \in more : a.planHash = bound'[a.token]
         /\ \A a, b \in more : a.token = b.token => a = b
         /\ Fresh(list) /\ grants[t] = 0 => Fresh(more)
<1> USE DEF Mints
<1> DEFINE n == [token |-> t, planHash |-> c, used |-> FALSE]
<1>1. n.token = t /\ n.planHash = c /\ ~n.used /\ more = list \cup {n}
  OBVIOUS
<1>2. bound'[t] = c /\ Keeps
  BY DEF Typed, Keeps
<1>3. \A a \in list : a.token # t
  BY DispatchAssumption DEF WellFormed, Approval
<1>4. \A a \in list : a.planHash = bound'[a.token]
  BY <1>2, WellFormedStays
<1> HIDE DEF n
<1>5. \A a \in more : a.planHash = bound'[a.token]
  BY <1>1, <1>2, <1>4
<1>7. \A a, b \in more : a.token = b.token => a = b
  BY <1>1, <1>3 DEF WellFormed
<1>6. Fresh(list) /\ grants[t] = 0 => Fresh(more)
  BY <1>1 DEF Fresh
<1> QED
  BY <1>2, <1>5, <1>6, <1>7

\* A step of p outside the lock, which leaves the tokens alone.
Outside(p) ==
  /\ p \notin dead /\ Only(p) /\ op'[p].step \notin Holding
  /\ UNCHANGED <<holder, store, overlap, bound, grants, accepted>>
  /\ orphaned => orphaned'
  /\ dead' = dead \/ (dead' = dead \cup {p} /\ op'[p] = NoOp)
  /\ \A q \in Procs : q # p /\ op[q] = NoOp => op'[q] = NoOp

LEMMA OutsideSteps ==
  ASSUME Typed, NEW p \in Procs,
         Create(p) \/ Ask(p) \/ Arm(p) \/ GiveUp(p) \/ WriteArmed(p) \/ Launching(p) \/ Watching(p)
         \/ Die(p)
  PROVE  Outside(p)
<1> USE DEF procVars, auxVars, Holding
<1>1. CASE Create(p)
  BY <1>1, NoOpType DEF Create, Idle, Outside, Only, Alike
<1>2. CASE Arm(p) \/ Launch(p) \/ ContainerEnds(p) \/ Tail(p) \/ End(p)
  <2>1. PICK i \in Plans : Reads(p, i)
    BY <1>2, ReadSteps
  <2> QED
    BY <2>1 DEF Reads, Outside
<1>3. CASE WriteArmed(p) \/ LaunchRefused(p) \/ WriteRunning(p) \/ LaunchContainer(p)
           \/ WriteContainerEnd(p) \/ WriteTail(p) \/ WriteEnd(p)
  <2>1. PICK s \in StoredPlan : Writes(p, s)
    BY <1>3, WriteSteps
  <2>2. op'[p] = NoOp /\ Only(p) /\ \A q \in Procs : q # p /\ op[q] = NoOp => op'[q] = NoOp
    BY <2>1, WriteFacts DEF Writes
  <2> QED
    BY <2>1, <2>2, NoOpType DEF Writes, Outside
<1>4. ASSUME SetOp(p, NoOp), p \notin dead, UNCHANGED <<holder, store, overlap, bound, grants, accepted>>,
             orphaned => orphaned', dead' = dead \/ dead' = dead \cup {p}
      PROVE  Outside(p)
  <2>1. op' = [op EXCEPT ![p] = NoOp]
    BY <1>4 DEF SetOp
  <2>2. op'[p] = NoOp /\ Only(p) /\ \A q \in Procs : q # p => op'[q] = op[q]
    BY <2>1, SetOpFacts, NoOpType
  <2> QED
    BY <1>4, <2>2, NoOpType DEF Outside
<1>5. CASE GiveUp(p) \/ Die(p)
  BY <1>4, <1>5 DEF GiveUp, Die, At
<1>6. ASSUME NEW k \in {"killed", "spawned", "write"}, op' = [op EXCEPT ![p].step = k],
             op[p].step # "none", op[p].cmd # "issue", p \notin dead,
             UNCHANGED <<procVars, store, overlap, bound, grants, accepted>>
      PROVE  Outside(p)
  BY <1>6, StepFacts DEF Outside
<1>7. CASE KillSession(p) \/ NewSession(p) \/ SendKeys(p)
  BY <1>6, <1>7 DEF KillSession, NewSession, SendKeys, Doing
<1>8. CASE Capture(p)
  BY <1>4, <1>6, <1>8 DEF Capture, Doing
<1>9. CASE Ask(p)
  <2> DEFINE o == [NoOp EXCEPT !.cmd = "issue", !.step = "lock"]
  <2>1. o \in Operation /\ About(o) /\ o.step = "lock"
    BY NoOpType DEF NoOp, Operation, About
  <2>2. op' = [op EXCEPT ![p] = o]
    BY <1>9 DEF Ask, SetOp
  <2> HIDE DEF o
  <2>3. Only(p) /\ op'[p].step = "lock" /\ \A q \in Procs : q # p => op'[q] = op[q]
    BY <2>1, <2>2, SetOpFacts
  <2> QED
    BY <1>9, <2>3 DEF Ask, Idle, Outside
<1> QED
  BY <1>1, <1>2, <1>3, <1>5, <1>7, <1>8, <1>9 DEF Launching, Watching

\* A step is of one process, outside the lock or inside it, or of none.
LEMMA StepKinds ==
  ASSUME Typed, [Next]_vars
  PROVE  \/ \E p \in Procs : Outside(p)
         \/ \E p \in Procs : Inside(p)
         \/ Expire
         \/ UNCHANGED <<holder, dead, orphaned, store, op, overlap, bound, grants, accepted>>
<1>1. ASSUME NEW p \in Procs, Create(p) \/ Approving(p) \/ Launching(p) \/ Watching(p) \/ Die(p)
      PROVE  Outside(p) \/ Inside(p)
  BY <1>1, OutsideSteps DEF Approving, Inside
<1>2. CASE Edit \/ SessionEnds \/ UNCHANGED vars
  BY <1>2 DEF Edit, SessionEnds, vars, procVars, auxVars
<1> QED
  BY <1>1, <1>2 DEF Next

\* What holds of the approvals however many are inside.
LEMMA ShapeNext == Shape /\ [Next]_vars => Shape'
<1> SUFFICES ASSUME Shape, [Next]_vars PROVE Shape'
  OBVIOUS
<1> USE DEF procVars, auxVars
<1>1. Typed /\ Typed'
  BY TypedNext DEF Shape
<1>2. /\ op \in [Procs -> Operation] /\ op' \in [Procs -> Operation] /\ store \in SUBSET Approval
      /\ \A p \in Procs : op[p].list \in SUBSET Approval
  BY <1>1 DEF Typed, Operation
<1>3. ASSUME Keeps, NEW q \in Procs, Alike(op'[q], op[q]) PROVE Entry(op[q])'
  <2> SUFFICES ASSUME op'[q].step \in {"cut", "store"}
               PROVE  /\ WellFormed(op[q].list)'
                      /\ op'[q].cmd = "arm" => /\ op'[q].token \in Tokens /\ op'[q].s.plan_hash \in Contents
                                               /\ bound'[op'[q].token] = op'[q].s.plan_hash
    BY DEF Entry
  <2>1. /\ op[q].step \in {"cut", "store"} /\ op'[q].list = op[q].list
        /\ WellFormed(op[q].list)
        /\ op[q].cmd = "arm" => /\ op[q].token \in Tokens /\ op[q].s.plan_hash \in Contents
                                /\ bound[op[q].token] = op[q].s.plan_hash
    BY <1>3 DEF Alike, Shape, Entry
  <2>2. WellFormed(op[q].list)'
    <3>1. PICK l \in SUBSET Approval : l = op[q].list
      BY <1>2
    <3>2. \A a \in l : a.planHash = bound'[a.token]
      BY <1>3, <2>1, <3>1, WellFormedStays
    <3> QED
      BY <2>1, <3>1, <3>2 DEF WellFormed
  <2>3. op[q].cmd = "arm" => bound'[op[q].token] = op[q].s.plan_hash
    BY <1>3, <2>1, DispatchAssumption DEF Keeps
  <2> QED
    BY <1>3, <2>1, <2>2, <2>3 DEF Alike
<1>4. UNCHANGED bound => Keeps
  BY DEF Keeps
<1>5. WellFormed(store) /\ Minted /\ DeadIdle /\ (overlap => orphaned)
  BY DEF Shape
\* Outside the lock
<1>6. ASSUME NEW p \in Procs, Outside(p) PROVE Shape'
  <2>1. Only(p) /\ op'[p].step \notin Holding /\ Keeps
    BY <1>4, <1>6 DEF Outside
  <2>2. DeadIdle'
    BY <1>1, <1>5, <1>6 DEF Outside, DeadIdle, Typed
  <2>3. Minted' /\ WellFormed(store)' /\ (overlap' => orphaned')
    BY <1>5, <1>6 DEF Outside, Minted, WellFormed
  <2>4. ASSUME NEW q \in Procs PROVE Entry(op[q])'
    <3>1. CASE q = p
      BY <2>1, <3>1 DEF Entry, Holding
    <3>2. CASE q # p
      BY <1>3, <2>1, <3>2 DEF Only
    <3> QED
      BY <3>1, <3>2
  <2> QED
    BY <1>1, <2>2, <2>3, <2>4 DEF Shape
\* Inside it
<1>7. ASSUME NEW p \in Procs, Within(p), Keeps, Minted', WellFormed(store)', overlap' => orphaned',
             Entry(op[p])'
      PROVE  Shape'
  <2>1. DeadIdle'
    BY <1>1, <1>5, <1>7 DEF Within, DeadIdle, Typed
  <2>2. ASSUME NEW q \in Procs PROVE Entry(op[q])'
    BY <1>3, <1>7 DEF Within, Only
  <2> QED
    BY <1>1, <1>7, <2>1, <2>2 DEF Shape
<1>8. UNCHANGED <<store, bound, grants>> => Keeps /\ Minted' /\ WellFormed(store)'
  BY <1>4, <1>5 DEF Minted, WellFormed
<1>9. ASSUME NEW p \in Procs, Enter(p) PROVE Shape'
  <2>1. Within(p) /\ op'[p].step = "decide"
    BY <1>1, <1>9, InsideSteps DEF Inside
  <2>2. overlap' => orphaned'
    BY <1>5, <1>9 DEF Enter
  <2>3. UNCHANGED <<store, bound, grants>> /\ Entry(op[p])'
    BY <1>9, <2>1 DEF Enter, Entry
  <2> QED
    BY <1>7, <1>8, <2>1, <2>2, <2>3
<1>10. ASSUME NEW p \in Procs, Mint(p) PROVE Shape'
  <2>1. Within(p) /\ op'[p].cmd = "issue"
    BY <1>1, <1>10, InsideSteps DEF Inside
  <2>2. PICK t \in Tokens, c \in Contents :
          /\ bound[t] = None /\ bound' = [bound EXCEPT ![t] = c]
          /\ op'[p].list = store \cup {[token |-> t, planHash |-> c, used |-> FALSE]}
    BY <1>1, <1>10, InsideSteps DEF Inside
  <2>3. UNCHANGED <<overlap, orphaned, store, grants>>
    BY <1>10 DEF Mint
  <2>9. PICK s \in SUBSET Approval : s = store
    BY <1>2
  <2>5. PICK l : l = op'[p].list
    OBVIOUS
  <2>4. /\ Keeps /\ \A a \in l : a.planHash = bound'[a.token]
        /\ \A a, b \in l : a.token = b.token => a = b
    <3>1. Typed /\ WellFormed(s)
      BY <1>1, <1>5, <2>9
    <3>2. Mints(t, c, s, l)
      BY <2>2, <2>5, <2>9 DEF Mints
    <3> QED
      BY <3>1, <3>2, MintSound
  <2>6. Entry(op[p])'
    <3>1. WellFormed(op[p].list)'
      BY <2>4, <2>5 DEF WellFormed
    <3> QED
      BY <2>1, <3>1 DEF Entry
  <2>7. WellFormed(store)'
    <3>1. \A a \in s : a.planHash = bound'[a.token]
      BY <1>5, <2>4, <2>9, WellFormedStays
    <3> QED
      BY <1>5, <2>3, <2>9, <3>1 DEF WellFormed
  <2>8. Minted'
    BY <1>5, <2>3, <2>4 DEF Minted, Keeps
  <2> QED
    BY <1>5, <1>7, <2>1, <2>3, <2>4, <2>6, <2>7, <2>8
<1>11. ASSUME NEW p \in Procs, Decide(p) PROVE Shape'
  <2>1. /\ Within(p) /\ op[p].step = "decide"
        /\ \/ /\ Valid(store, op[p].token, op[p].s.plan_hash) /\ op'[p].step = "cut"
              /\ op'[p].list = Consumed(store, op[p].token) /\ op'[p].token = op[p].token
              /\ op'[p].s = op[p].s
           \/ op'[p].step = "leave"
    BY <1>1, <1>11, InsideSteps DEF Inside
  <2>2. UNCHANGED <<overlap, orphaned, store, bound, grants>>
    BY <1>11 DEF Decide
  <2>3. Entry(op[p])'
    <3>1. CASE op'[p].step = "leave"
      BY <3>1 DEF Entry
    <3>2. CASE op'[p].step = "cut"
      <4>1. PICK a \in store : a.token = op[p].token /\ ~a.used /\ a.planHash = op[p].s.plan_hash
        BY <2>1, <3>2 DEF Valid
      <4>2. /\ op[p].token \in Tokens /\ op[p].s.plan_hash \in Contents
            /\ bound[op[p].token] = op[p].s.plan_hash
        BY <1>2, <1>5, <4>1 DEF WellFormed, Approval
      <4>3. WellFormed(Consumed(store, op[p].token))
        BY <1>2, <1>5, ConsumedSound
      <4>4. WellFormed(op[p].list)'
        BY <2>1, <2>2, <3>2, <4>3 DEF WellFormed
      <4> QED
        BY <2>1, <2>2, <3>2, <4>2, <4>4 DEF Entry
    <3> QED
      BY <2>1, <3>1, <3>2
  <2> QED
    BY <1>5, <1>7, <1>8, <2>1, <2>2, <2>3
<1>12. ASSUME NEW p \in Procs, CutStore(p) PROVE Shape'
  <2>1. /\ Within(p) /\ op[p].step = "cut" /\ op'[p].list = op[p].list /\ op'[p].s = op[p].s
        /\ op'[p].cmd = op[p].cmd /\ op'[p].token = op[p].token
    BY <1>1, <1>12, InsideSteps DEF Inside
  <2>2. store' = {} /\ UNCHANGED <<overlap, orphaned, bound, grants>>
    BY <1>12 DEF CutStore
  <2>3. Entry(op[p])'
    BY <2>1, <2>2 DEF Shape, Entry, WellFormed
  <2>4. Minted' /\ WellFormed(store)'
    BY <1>5, <2>2 DEF Minted, WellFormed
  <2> QED
    BY <1>4, <1>5, <1>7, <2>1, <2>2, <2>3, <2>4
<1>13. ASSUME NEW p \in Procs, WriteStore(p) PROVE Shape'
  <2>1. Within(p) /\ op[p].step = "store" /\ op'[p].step = "leave"
    BY <1>1, <1>13, InsideSteps DEF Inside
  <2>2. /\ store' = op[p].list /\ UNCHANGED <<overlap, orphaned, bound>>
        /\ \/ grants' = grants
           \/ /\ op[p].cmd = "arm"
              /\ grants' = [grants EXCEPT ![op[p].token] = grants[op[p].token] + 1]
    BY <1>13 DEF WriteStore
  <2>3. Entry(op[p]) /\ Entry(op[p])'
    BY <2>1 DEF Shape, Entry
  <2>4. WellFormed(store)'
    BY <2>1, <2>2, <2>3 DEF Entry, WellFormed
  <2>5. Minted'
    <3> SUFFICES ASSUME NEW t \in Tokens, bound'[t] = None PROVE grants'[t] = 0
      BY DEF Minted
    <3>1. grants[t] = 0 /\ bound[t] = None /\ grants \in [Tokens -> Nat]
      BY <1>1, <1>5, <2>2 DEF Minted, Typed
    <3>2. op[p].cmd = "arm" => op[p].token # t
      BY <2>1, <2>3, <3>1, DispatchAssumption DEF Entry
    <3> QED
      BY <2>2, <3>1, <3>2
  <2> QED
    BY <1>4, <1>5, <1>7, <2>1, <2>2, <2>3, <2>4, <2>5
<1>14. ASSUME NEW p \in Procs, Release(p) PROVE Shape'
  <2>1. Within(p) /\ op'[p].step \notin {"cut", "store"}
    BY <1>1, <1>14, InsideSteps, NoOpType DEF Inside
  <2>2. UNCHANGED <<overlap, orphaned, store, bound, grants>> /\ Entry(op[p])'
    BY <1>14, <2>1 DEF Release, Entry
  <2> QED
    BY <1>5, <1>7, <1>8, <2>1, <2>2
<1>15. CASE Expire
  <2>1. UNCHANGED <<dead, orphaned, op, overlap, bound, grants>> /\ store' \subseteq store
    BY <1>15 DEF Expire
  <2>2. Minted' /\ WellFormed(store)' /\ DeadIdle' /\ \A p \in Procs : Entry(op[p])'
    BY <1>5, <2>1 DEF Shape, Minted, WellFormed, DeadIdle, Entry
  <2> QED
    BY <1>1, <1>5, <2>1, <2>2 DEF Shape
<1>16. CASE UNCHANGED <<holder, dead, orphaned, store, op, overlap, bound, grants, accepted>>
  <2>1. Minted' /\ WellFormed(store)' /\ DeadIdle' /\ \A p \in Procs : Entry(op[p])'
    BY <1>5, <1>16 DEF Shape, Minted, WellFormed, DeadIdle, Entry
  <2> QED
    BY <1>1, <1>5, <1>16, <2>1 DEF Shape
<1> QED
  BY <1>1, <1>6, <1>9, <1>10, <1>11, <1>12, <1>13, <1>14, <1>15, <1>16, StepKinds DEF Inside

\* What holds of them while nobody entered beside another.
LEMMA ExclusiveNext == Shape /\ Exclusive /\ [Next]_vars /\ ~overlap' => Exclusive'
<1> SUFFICES ASSUME Shape, Exclusive, [Next]_vars, ~overlap' PROVE Exclusive'
  OBVIOUS
<1> USE DEF procVars, auxVars
<1>1. Typed /\ Typed'
  BY TypedNext DEF Shape
<1>2. /\ store \in SUBSET Approval /\ grants \in [Tokens -> Nat]
      /\ \A p \in Procs : op[p].list \in SUBSET Approval
  BY <1>1 DEF Typed, Operation
<1>3. Locked /\ Fresh(store) /\ (\A p \in Procs : Clean(op[p])) /\ \A t \in Tokens : grants[t] <= 1
  BY DEF Exclusive
<1>4. ASSUME UNCHANGED grants, NEW q \in Procs, Alike(op'[q], op[q]) PROVE Clean(op[q])'
  BY <1>3, <1>4 DEF Clean, Fresh, Alike
<1>5. ASSUME NEW p \in Procs, Outside(p) PROVE Exclusive'
  <2>1. /\ Only(p) /\ op'[p].step \notin Holding /\ UNCHANGED <<holder, store, grants>>
    BY <1>5 DEF Outside
  <2>2. Locked' /\ Fresh(store)'
    BY <1>3, <2>1 DEF Locked, Only, Alike, Fresh
  <2>3. ASSUME NEW q \in Procs PROVE Clean(op[q])'
    <3>1. CASE q = p
      BY <2>1, <3>1 DEF Clean, Holding
    <3>2. CASE q # p
      BY <1>4, <2>1, <3>2 DEF Only
    <3> QED
      BY <3>1, <3>2
  <2> QED
    BY <1>3, <2>1, <2>2, <2>3 DEF Exclusive
\* Inside the lock one process is at work.
<1>6. ASSUME NEW p \in Procs, op[p].step \in Holding
      PROVE  holder = p /\ \A q \in Procs : q # p => op[q].step \notin Holding
  BY <1>3, <1>6 DEF Locked
<1>7. ASSUME NEW p \in Procs, Within(p),
             \A q \in Procs : q # p => op[q].step \notin Holding,
             op'[p].step \in Holding => holder' = p,
             Fresh(store)', Clean(op[p])', \A t \in Tokens : grants'[t] <= 1
      PROVE  Exclusive'
  <2>1. \A q \in Procs : q # p => op'[q].step \notin Holding
    BY <1>7 DEF Within
  <2>2. Locked'
    BY <1>7, <2>1 DEF Locked
  <2>3. ASSUME NEW q \in Procs PROVE Clean(op[q])'
    BY <1>7, <2>1 DEF Clean, Holding
  <2> QED
    BY <1>7, <2>2, <2>3 DEF Exclusive
<1>8. UNCHANGED <<store, grants>> => Fresh(store)' /\ \A t \in Tokens : grants'[t] <= 1
  BY <1>3 DEF Fresh
<1>9. ASSUME NEW p \in Procs, Enter(p) PROVE Exclusive'
  <2>1. Within(p) /\ op'[p].step = "decide"
    BY <1>1, <1>9, InsideSteps DEF Inside
  <2>2. LockFree /\ holder' = p /\ UNCHANGED <<store, grants>>
    BY <1>9 DEF Enter
  <2>3. \A q \in Procs : op[q].step \notin Holding
    BY <1>3, <2>2, NoOpType, DispatchAssumption DEF Shape, DeadIdle, Locked, LockFree, Holding
  <2>4. Clean(op[p])'
    BY <2>1 DEF Clean
  <2> QED
    BY <1>7, <1>8, <2>1, <2>2, <2>3, <2>4
<1>10. ASSUME NEW p \in Procs, Mint(p) PROVE Exclusive'
  <2>1. Within(p) /\ op[p].step = "decide" /\ op'[p].cmd = "issue"
    BY <1>1, <1>10, InsideSteps DEF Inside
  <2>2. PICK t \in Tokens, c \in Contents :
          /\ bound[t] = None /\ bound' = [bound EXCEPT ![t] = c]
          /\ op'[p].list = store \cup {[token |-> t, planHash |-> c, used |-> FALSE]}
    BY <1>1, <1>10, InsideSteps DEF Inside
  <2>3. UNCHANGED <<holder, store, grants>>
    BY <1>10 DEF Mint
  <2>4. holder = p /\ \A q \in Procs : q # p => op[q].step \notin Holding
    BY <1>6, <2>1 DEF Holding
  <2>5. Fresh(store \cup {[token |-> t, planHash |-> c, used |-> FALSE]})
    <3>1. PICK s \in SUBSET Approval : s = store
      BY <1>2
    <3>2. PICK more : more = s \cup {[token |-> t, planHash |-> c, used |-> FALSE]}
      OBVIOUS
    <3>3. Typed /\ WellFormed(s) /\ Fresh(s) /\ grants[t] = 0
      BY <1>1, <1>2, <1>3, <2>2, <3>1 DEF Shape, Minted
    <3>4. Mints(t, c, s, more)
      BY <2>2, <3>2 DEF Mints
    <3>5. Fresh(more)
      BY <3>3, <3>4, MintSound
    <3> QED
      BY <3>1, <3>2, <3>5
  <2>6. Fresh(op[p].list)'
    BY <2>2, <2>3, <2>5 DEF Fresh
  <2>7. Clean(op[p])'
    BY <2>1, <2>6 DEF Clean
  <2> QED
    BY <1>7, <1>8, <2>1, <2>3, <2>4, <2>7
<1>11. ASSUME NEW p \in Procs, Decide(p) PROVE Exclusive'
  <2>1. /\ Within(p) /\ op[p].step = "decide"
        /\ \/ /\ Valid(store, op[p].token, op[p].s.plan_hash) /\ op'[p].step = "cut"
              /\ op'[p].list = Consumed(store, op[p].token) /\ op'[p].token = op[p].token
           \/ op'[p].step = "leave"
    BY <1>1, <1>11, InsideSteps DEF Inside
  <2>2. UNCHANGED <<holder, store, grants>>
    BY <1>11 DEF Decide
  <2>3. holder = p /\ \A q \in Procs : q # p => op[q].step \notin Holding
    BY <1>6, <2>1 DEF Holding
  <2>4. Clean(op[p])'
    <3>1. CASE op'[p].step = "leave"
      BY <3>1 DEF Clean
    <3>2. CASE op'[p].step = "cut"
      <4>1. PICK a \in store : a.token = op[p].token /\ ~a.used
        BY <2>1, <3>2 DEF Valid
      <4>2. grants[op[p].token] = 0
        BY <1>3, <4>1 DEF Fresh
      <4>3. /\ Fresh(Consumed(store, op[p].token))
            /\ \A b \in Consumed(store, op[p].token) : b.token = op[p].token => b.used
        BY <1>2, <1>3, ConsumedSound
      <4>4. Fresh(op[p].list)'
        BY <2>1, <2>2, <3>2, <4>3 DEF Fresh
      <4> QED
        BY <2>1, <2>2, <3>2, <4>2, <4>3, <4>4 DEF Clean
    <3> QED
      BY <2>1, <3>1, <3>2
  <2> QED
    BY <1>7, <1>8, <2>1, <2>2, <2>3, <2>4
<1>12. ASSUME NEW p \in Procs, CutStore(p) PROVE Exclusive'
  <2>1. /\ Within(p) /\ op[p].step = "cut" /\ op'[p].list = op[p].list
        /\ op'[p].cmd = op[p].cmd /\ op'[p].token = op[p].token
    BY <1>1, <1>12, InsideSteps DEF Inside
  <2>2. store' = {} /\ UNCHANGED <<holder, grants>>
    BY <1>12 DEF CutStore
  <2>3. holder = p /\ \A q \in Procs : q # p => op[q].step \notin Holding
    BY <1>6, <2>1 DEF Holding
  <2>4. Clean(op[p])'
    BY <1>3, <2>1, <2>2 DEF Clean, Fresh
  <2>5. Fresh(store)'
    BY <2>2 DEF Fresh
  <2> QED
    BY <1>3, <1>7, <2>1, <2>2, <2>3, <2>4, <2>5
<1>13. ASSUME NEW p \in Procs, WriteStore(p) PROVE Exclusive'
  <2>1. Within(p) /\ op[p].step = "store" /\ op'[p].step = "leave"
    BY <1>1, <1>13, InsideSteps DEF Inside
  <2>2. /\ store' = op[p].list /\ holder' = holder
        /\ \/ grants' = grants /\ op[p].cmd = "issue"
           \/ /\ op[p].cmd = "arm"
              /\ grants' = [grants EXCEPT ![op[p].token] = grants[op[p].token] + 1]
    BY <1>13 DEF WriteStore
  <2>3. holder = p /\ \A q \in Procs : q # p => op[q].step \notin Holding
    BY <1>6, <2>1 DEF Holding
  <2>4. /\ Fresh(op[p].list)
        /\ op[p].cmd = "arm" => /\ grants[op[p].token] = 0
                                /\ \A a \in op[p].list : a.token = op[p].token => a.used
    BY <1>3, <2>1 DEF Clean
  <2>5. \A t \in Tokens :
          \/ /\ grants'[t] = grants[t]
             /\ (op[p].cmd # "arm" \/ t # op[p].token)
          \/ /\ grants'[t] = 1
             /\ t = op[p].token
             /\ op[p].cmd = "arm"
    BY <1>2, <2>2, <2>4
  <2>6. \A t \in Tokens : grants'[t] <= 1
    BY <1>3, <2>5
  <2>7. ASSUME NEW a \in op[p].list, ~a.used PROVE grants'[a.token] = 0
    <3>1. a.token \in Tokens /\ grants[a.token] = 0 /\ (op[p].cmd = "arm" => a.token # op[p].token)
      BY <1>2, <2>4, <2>7 DEF Fresh, Approval
    <3> QED
      BY <2>5, <3>1
  <2>8. Fresh(store)'
    BY <2>2, <2>7 DEF Fresh
  <2>9. Clean(op[p])'
    BY <2>1 DEF Clean
  <2> QED
    BY <1>7, <2>1, <2>2, <2>3, <2>6, <2>8, <2>9
<1>14. ASSUME NEW p \in Procs, Release(p) PROVE Exclusive'
  <2>1. Within(p) /\ op[p].step = "leave" /\ op'[p].step \notin Holding
    BY <1>1, <1>14, InsideSteps, NoOpType DEF Inside, Holding
  <2>2. UNCHANGED <<store, grants>>
    BY <1>14 DEF Release
  <2>3. \A q \in Procs : q # p => op[q].step \notin Holding
    BY <1>6, <2>1 DEF Holding
  <2>4. Clean(op[p])'
    BY <2>1 DEF Clean, Holding
  <2> QED
    BY <1>7, <1>8, <2>1, <2>2, <2>3, <2>4
<1>15. CASE Expire
  <2>1. UNCHANGED <<holder, op, grants>> /\ store' \subseteq store
    BY <1>15 DEF Expire
  <2> QED
    BY <1>3, <2>1 DEF Exclusive, Locked, Fresh, Clean
<1>16. CASE UNCHANGED <<holder, dead, orphaned, store, op, overlap, bound, grants, accepted>>
  BY <1>3, <1>16 DEF Exclusive, Locked, Fresh, Clean
<1> QED
  BY <1>1, <1>5, <1>9, <1>10, <1>11, <1>12, <1>13, <1>14, <1>15, <1>16, StepKinds DEF Inside

\* The lemma that carries the tokens through one step.
LEMMA TokenNext == TokenInv /\ [Next]_vars => TokenInv'
<1> SUFFICES ASSUME TokenInv, [Next]_vars PROVE TokenInv'
  OBVIOUS
<1>1. Shape /\ Shape'
  BY ShapeNext DEF TokenInv
<1>2. overlap => overlap'
  <2>1. ASSUME NEW p \in Procs, Inside(p), overlap PROVE overlap'
    BY <2>1 DEF Inside, Enter, Mint, Decide, CutStore, WriteStore, Release, auxVars
  <2>2. ASSUME NEW p \in Procs, Outside(p), overlap PROVE overlap'
    BY <2>2 DEF Outside
  <2>3. ASSUME Expire, overlap PROVE overlap'
    BY <2>3 DEF Expire, auxVars
  <2> QED
    BY <1>1, <2>1, <2>2, <2>3, StepKinds DEF Shape
<1> QED
  BY <1>1, <1>2, ExclusiveNext DEF TokenInv

LEMMA InitTokens == Init => TokenInv
<1> SUFFICES ASSUME Init PROVE TokenInv
  OBVIOUS
<1>1. Typed
  BY NoOpType DEF Init, Typed
<1>2. \A p \in Procs : op[p] = NoOp
  BY DEF Init
<1>3. DeadIdle /\ Locked /\ \A p \in Procs : Entry(op[p]) /\ Clean(op[p])
  BY <1>2, NoOpType DEF Init, DeadIdle, Locked, Entry, Clean, Holding
<1>4. Minted /\ WellFormed(store) /\ Fresh(store) /\ ~overlap /\ \A t \in Tokens : grants[t] <= 1
  BY DEF Init, Minted, WellFormed, Fresh
<1> QED
  BY <1>1, <1>3, <1>4 DEF TokenInv, Shape, Exclusive

\* Every state of the approvals satisfies the invariant of the tokens.
THEOREM TokenInvariant == Spec => []TokenInv
BY InitTokens, TokenNext, PTL DEF Spec

\* Types, and what every reader of approvals.json relies on: an approval is one that was
\* minted, a token has one, and the file is read, decided on and written inside the lock,
\* by one process at a time unless the lock was stolen twice (withApprovalLock,
\* issueApproval, consumeApproval).
THEOREM DispatchTypeCorrect == Spec => []TypeOK
<1>1. TokenInv => TypeOK
  BY DEF TokenInv, Shape, Exclusive, Typed, WellFormed, Locked, Holding, TypeOK
<1> QED
  BY <1>1, TokenInvariant, PTL

\* A token is accepted at most once, whatever is minted or dies meanwhile, unless somebody
\* died inside the lock and two processes were inside it together after that
\* (consumeApproval inside withApprovalLock).
THEOREM TokensSpentOnce == Spec => []TokenSpentOnce
<1>1. TokenInv => TokenSpentOnce
  <2> SUFFICES ASSUME TokenInv, NEW t \in Tokens, grants[t] > 1 PROVE orphaned /\ overlap
    BY DEF TokenSpentOnce
  <2>1. ~(grants[t] <= 1)
    BY DEF TokenInv, Shape, Typed
  <2> QED
    BY <2>1 DEF TokenInv, Shape, Exclusive
<1> QED
  BY <1>1, TokenInvariant, PTL

-----------------------------------------------------------------------------
(* What is approved *)

\* Content c was approved: an accepted token was minted for it.
Granted(c) == \E t \in Tokens : bound[t] = c /\ grants[t] > 0

\* The approval that a plan carries was given.
Backed(s) == s.approved_hash \in Contents => Granted(s.approved_hash)

\* Only an accepted token answers ok, its plan's hash was approved, and a launch
\* goes on only with the plan that was approved.
Earned(o) ==
  /\ Backed(o.s)
  /\ o.ok => o.step \in {"cut", "store", "leave", "answer"}
  /\ o.ok /\ o.step \in {"leave", "answer"} => o.s.plan_hash \in Contents /\ Granted(o.s.plan_hash)
  /\ o.cmd = "launch" /\ o.step \in {"killed", "spawned", "write"} => Unchanged(o.s)

ApprovalInv ==
  /\ \A i \in Plans : Backed(plan[i])
  /\ \A p \in Procs : Earned(op[p])
  /\ NothingUnapprovedRuns

LEMMA ApprovedGranted == ASSUME NEW c PROVE Approved(c) # {} <=> Granted(c)
BY DEF Approved, Granted

\* An approval is never taken back.
LEMMA ApprovedGrows ==
  ASSUME TokenInv, [Next]_vars, NEW c \in Contents
  PROVE  Approved(c) \subseteq Approved(c)'
<1> SUFFICES ASSUME NEW t \in Tokens, bound[t] = c, grants[t] > 0
             PROVE  bound'[t] = c /\ grants'[t] > 0
  BY DEF Approved
<1>1. bound[t] = c /\ grants[t] > 0
  OBVIOUS
<1>2. /\ grants \in [Tokens -> Nat] /\ grants' \in [Tokens -> Nat]
      /\ bound \in [Tokens -> Contents \cup {None}]
  BY TypedNext DEF TokenInv, Shape, Typed
<1>3. ASSUME NEW p \in Procs, Inside(p) PROVE bound'[t] = c /\ grants'[t] > 0
  <2>1. CASE Mint(p)
    <3>1. PICK u \in Tokens, d \in Contents : bound[u] = None /\ bound' = [bound EXCEPT ![u] = d]
      BY <2>1 DEF Mint
    <3>2. u # t /\ bound'[t] = bound[t]
      BY <1>1, <1>2, <3>1, DispatchAssumption
    <3> QED
      BY <1>1, <2>1, <3>2 DEF Mint
  <2>2. CASE WriteStore(p)
    <3>1. grants'[t] = grants[t] \/ grants'[t] = grants[t] + 1
      BY <1>2, <2>2 DEF WriteStore
    <3>2. grants'[t] > 0 /\ bound' = bound
      BY <1>1, <1>2, <2>2, <3>1 DEF WriteStore
    <3> QED
      BY <1>1, <3>2
  <2>3. CASE Enter(p) \/ Decide(p) \/ CutStore(p) \/ Release(p)
    BY <1>1, <2>3 DEF Enter, Decide, CutStore, Release, auxVars
  <2> QED
    BY <1>3, <2>1, <2>2, <2>3 DEF Inside
<1>4. CASE UNCHANGED <<bound, grants>>
  BY <1>1, <1>4
<1> QED
  BY <1>3, <1>4, StepKinds DEF TokenInv, Shape, Outside, Expire, auxVars

LEMMA GrantedStays ==
  ASSUME TokenInv, [Next]_vars, NEW c \in Contents, Granted(c)
  PROVE  Granted(c)'
BY ApprovedGrows DEF Approved, Granted

LEMMA ApprovalNext == TokenInv /\ ApprovalInv /\ [Next]_vars => ApprovalInv'
<1> SUFFICES ASSUME TokenInv, ApprovalInv, [Next]_vars PROVE ApprovalInv'
  OBVIOUS
<1> USE DEF procVars, auxVars
<1>1. Typed /\ Typed'
  BY TypedNext DEF TokenInv, Shape
<1>2. \A c \in Contents : Granted(c) => Granted(c)'
  BY GrantedStays
<1>3. /\ \A p \in Procs : op[p] \in Operation /\ op[p].s \in StoredPlan
      /\ launches \in [Contents -> Nat] /\ plan \in [Plans -> StoredPlan]
  BY <1>1 DEF Typed, Operation
<1>4. ASSUME NEW p \in Procs, Alike(op'[p], op[p])
      PROVE  Earned(op[p])'
  BY <1>2, <1>4 DEF ApprovalInv, Earned, Backed, Granted, Alike, Unchanged
\* What is left to show of a step of p
<1>5. ASSUME NEW p \in Procs, Only(p), Earned(op[p])',
             \A i \in Plans : Backed(plan[i])', NothingUnapprovedRuns'
      PROVE  ApprovalInv'
  BY <1>4, <1>5 DEF Only, ApprovalInv
<1>6. ASSUME UNCHANGED plan PROVE \A i \in Plans : Backed(plan[i])'
  BY <1>2, <1>6 DEF ApprovalInv, Backed, Granted
<1>7. ASSUME UNCHANGED launches PROVE NothingUnapprovedRuns'
  BY <1>2, <1>7 DEF ApprovalInv, NothingUnapprovedRuns, Approved, Granted
<1>8. ASSUME NEW p \in Procs, op'[p] = NoOp PROVE Earned(op[p])'
  <2>1. NoOp.s.approved_hash = None
    BY NoOpType DEF NoPlan
  <2> QED
    BY <1>8, <2>1, NoOpType, DispatchAssumption DEF Earned, Backed
\* An operation begins
<1>9. ASSUME NEW p \in Procs, Arm(p) \/ Launch(p) \/ ContainerEnds(p) \/ Tail(p) \/ End(p)
      PROVE  ApprovalInv'
  <2>1. PICK i \in Plans : Reads(p, i)
    BY <1>1, <1>9, ReadSteps
  <2>2. Earned(op[p])'
    BY <1>2, <2>1 DEF Reads, ApprovalInv, Earned, Backed, Granted
  <2> QED
    BY <1>5, <1>6, <1>7, <2>1, <2>2 DEF Reads
\* It ends
<1>10. ASSUME NEW p \in Procs, NEW s \in StoredPlan, Writes(p, s),
              s.approved_hash \in Contents => Granted(s.approved_hash), NothingUnapprovedRuns'
       PROVE  ApprovalInv'
  <2>1. plan' = [plan EXCEPT ![op[p].id] = s] /\ op'[p] = NoOp /\ Only(p)
    BY <1>1, <1>10, WriteFacts DEF Writes
  <2>2. ASSUME NEW i \in Plans PROVE plan'[i] = s \/ plan'[i] = plan[i]
    BY <1>3, <2>1
  <2>3. \A i \in Plans : Backed(plan[i])'
    BY <1>2, <1>10, <2>2 DEF ApprovalInv, Backed, Granted
  <2> QED
    BY <1>5, <1>8, <1>10, <2>1, <2>3
<1>11. ASSUME NEW p \in Procs, WriteArmed(p) PROVE ApprovalInv'
  <2>1. PICK s \in StoredPlan :
          /\ Writes(p, s)
          /\ op[p].ok => s.approved_hash = op[p].s.plan_hash
          /\ ~op[p].ok => s.approved_hash = op[p].s.approved_hash
    BY <1>1, <1>11, WriteSteps
  <2>2. op[p].step = "answer" /\ UNCHANGED launches
    BY <1>11 DEF WriteArmed, At
  <2>3. s.approved_hash \in Contents => Granted(s.approved_hash)
    BY <2>1, <2>2 DEF ApprovalInv, Earned, Backed
  <2> QED
    BY <1>7, <1>10, <2>1, <2>2, <2>3
<1>12. ASSUME NEW p \in Procs,
              LaunchRefused(p) \/ WriteRunning(p) \/ LaunchContainer(p) \/ WriteContainerEnd(p)
              \/ WriteTail(p) \/ WriteEnd(p),
              NothingUnapprovedRuns'
       PROVE  ApprovalInv'
  <2>1. PICK s \in StoredPlan : Writes(p, s) /\ s.approved_hash = op[p].s.approved_hash
    BY <1>1, <1>12, WriteSteps
  <2>2. s.approved_hash \in Contents => Granted(s.approved_hash)
    BY <2>1 DEF ApprovalInv, Earned, Backed
  <2> QED
    BY <1>10, <1>12, <2>1, <2>2
<1>13. ASSUME NEW p \in Procs,
              LaunchRefused(p) \/ WriteRunning(p) \/ WriteContainerEnd(p) \/ WriteTail(p) \/ WriteEnd(p)
       PROVE  ApprovalInv'
  <2>1. UNCHANGED launches
    BY <1>13 DEF LaunchRefused, WriteRunning, WriteContainerEnd, WriteTail, WriteEnd
  <2> QED
    BY <1>7, <1>12, <1>13, <2>1
\* A launch counts, and the plan launched is the one that was approved.
<1>14. ASSUME NEW s \in StoredPlan, Backed(s), Unchanged(s),
              launches' = [launches EXCEPT ![s.plan] = launches[s.plan] + 1]
       PROVE  NothingUnapprovedRuns'
  <2> SUFFICES ASSUME NEW c \in Contents, launches'[c] > 0 PROVE Granted(c)'
    BY ApprovedGranted DEF NothingUnapprovedRuns, Approved, Granted
  <2>1. CASE c = s.plan
    BY <1>2, <1>14, <2>1 DEF Backed, Unchanged
  <2>2. CASE c # s.plan
    <3>1. launches[c] > 0
      BY <1>3, <1>14, <2>2
    <3> QED
      BY <1>2, <3>1, ApprovedGranted DEF ApprovalInv, NothingUnapprovedRuns
  <2> QED
    BY <2>1, <2>2
<1>15. ASSUME NEW p \in Procs, LaunchContainer(p) PROVE ApprovalInv'
  <2>1. /\ Unchanged(op[p].s) /\ op[p].s \in StoredPlan /\ Backed(op[p].s)
        /\ launches' = [launches EXCEPT ![op[p].s.plan] = launches[op[p].s.plan] + 1]
    BY <1>3, <1>15 DEF LaunchContainer, ApprovalInv, Earned
  <2> QED
    BY <1>12, <1>14, <1>15, <2>1
\* A step within an operation
<1>16. ASSUME NEW p \in Procs,
              NEW k \in {"killed", "spawned", "write"},
              op' = [op EXCEPT ![p].step = k], op[p].step # "none", op[p].cmd # "issue", UNCHANGED plan,
              NothingUnapprovedRuns', Earned(op[p])'
       PROVE  ApprovalInv'
  BY <1>1, <1>5, <1>6, <1>16, StepFacts
<1>17. ASSUME NEW p \in Procs, KillSession(p) \/ NewSession(p) PROVE ApprovalInv'
  <2>1. PICK k \in {"killed", "spawned"} : op' = [op EXCEPT ![p].step = k]
    BY <1>17 DEF KillSession, NewSession
  <2>2. op[p].step \in {"read", "killed"} /\ op[p].cmd = "launch" /\ UNCHANGED <<plan, launches>>
        /\ Unchanged(op[p].s)
    BY <1>17 DEF KillSession, NewSession, Doing, ApprovalInv, Earned
  <2>3. op'[p].s = op[p].s /\ op'[p].step = k /\ op'[p].ok = op[p].ok
    BY <1>1, <2>1, <2>2, StepFacts
  <2>4. Earned(op[p])'
    BY <1>2, <2>2, <2>3 DEF ApprovalInv, Earned, Backed, Granted, Unchanged
  <2> QED
    BY <1>7, <1>16, <2>1, <2>2, <2>4
<1>18. ASSUME NEW p \in Procs, SendKeys(p) PROVE ApprovalInv'
  <2>1. op' = [op EXCEPT ![p].step = "write"] /\ op[p].step = "spawned" /\ op[p].cmd = "launch" /\ UNCHANGED plan
    BY <1>18 DEF SendKeys, Doing
  <2>2. op'[p].s = op[p].s /\ op'[p].step = "write" /\ op'[p].ok = op[p].ok
    BY <1>1, <2>1, StepFacts
  <2>3. Unchanged(op[p].s) /\ Backed(op[p].s) /\ ~op[p].ok
    BY <2>1 DEF ApprovalInv, Earned
  <2>4. Earned(op[p])'
    BY <1>2, <2>2, <2>3 DEF ApprovalInv, Earned, Backed, Granted, Unchanged
  <2>5. NothingUnapprovedRuns'
    BY <1>3, <1>7, <1>14, <1>18, <2>3 DEF SendKeys
  <2> QED
    BY <1>16, <2>1, <2>4, <2>5
\* The steps inside the lock
<1>19. ASSUME NEW p \in Procs, Within(p), Earned(op[p])' PROVE ApprovalInv'
  BY <1>5, <1>6, <1>7, <1>19 DEF Within
<1>20. ASSUME NEW p \in Procs, Within(p), op'[p] # NoOp,
              op'[p].step \in {"decide", "cut", "store", "leave", "answer"},
              op'[p].ok => op'[p].step # "decide",
              op'[p].ok /\ op'[p].step \in {"leave", "answer"} =>
                op[p].s.plan_hash \in Contents /\ Granted(op[p].s.plan_hash)'
       PROVE  ApprovalInv'
  <2>1. op'[p].s = op[p].s
    BY <1>20 DEF Within
  <2>2. Backed(op[p].s)'
    BY <1>2, <2>1 DEF ApprovalInv, Earned, Backed, Granted
  <2>3. Earned(op[p])'
    BY <1>20, <2>1, <2>2 DEF Earned, Granted
  <2> QED
    BY <1>19, <1>20, <2>3
<1>21. ASSUME NEW p \in Procs, Inside(p) PROVE ApprovalInv'
  <2>1. Within(p) /\ Earned(op[p]) /\ op[p].ok \in BOOLEAN
    BY <1>1, <1>3, <1>21, InsideSteps DEF ApprovalInv, Operation
  <2>2. CASE Enter(p)
    <3>1. op'[p].step = "decide" /\ ~op'[p].ok
      BY <1>1, <2>1, <2>2, InsideSteps DEF Inside, Earned
    <3> QED
      BY <1>20, <2>1, <3>1, NoOpType
  <2>3. CASE Mint(p) \/ CutStore(p)
    <3>1. op'[p].step \in {"cut", "store"}
      BY <1>1, <2>3, InsideSteps DEF Inside
    <3> QED
      BY <1>20, <2>1, <3>1, NoOpType
  <2>4. CASE Decide(p)
    <3>1. op'[p].step = "cut" \/ (op'[p].step = "leave" /\ ~op'[p].ok)
      BY <1>1, <2>1, <2>4, InsideSteps DEF Inside, Earned
    <3> QED
      BY <1>20, <2>1, <3>1, NoOpType
  <2>5. CASE WriteStore(p)
    <3>1. op[p].step = "store" /\ op'[p].step = "leave" /\ op'[p].ok = op[p].ok
      BY <1>1, <2>5, InsideSteps DEF Inside
    <3>2. ASSUME op[p].ok PROVE op[p].s.plan_hash \in Contents /\ Granted(op[p].s.plan_hash)'
      <4>1. /\ op[p].cmd = "arm" /\ bound' = bound
            /\ grants' = [grants EXCEPT ![op[p].token] = grants[op[p].token] + 1]
        BY <1>1, <2>5, <3>2 DEF WriteStore, Typed, About
      <4>2. /\ op[p].token \in Tokens /\ op[p].s.plan_hash \in Contents
            /\ bound[op[p].token] = op[p].s.plan_hash
        BY <3>1, <4>1 DEF TokenInv, Shape, Entry
      <4>3. grants'[op[p].token] = grants[op[p].token] + 1 /\ grants[op[p].token] \in Nat
        BY <1>1, <4>1, <4>2 DEF Typed
      <4>4. op'[p].s = op[p].s
        BY <1>1, <2>5, InsideSteps DEF Inside
      <4>5. grants'[op[p].token] > 0
        BY <4>3
      <4> QED
        BY <4>1, <4>2, <4>4, <4>5 DEF Granted
    <3> QED
      BY <1>20, <2>1, <3>1, <3>2, NoOpType
  <2>6. CASE Release(p)
    <3>1. /\ op[p].step = "leave"
          /\ \/ op'[p] = NoOp
             \/ op'[p].step = "answer" /\ op'[p].ok = op[p].ok /\ op'[p].s = op[p].s
      BY <1>1, <2>6, InsideSteps DEF Inside
    <3>2. CASE op'[p] = NoOp
      BY <1>8, <1>19, <2>1, <3>2
    <3>3. CASE op'[p].step = "answer" /\ op'[p].ok = op[p].ok /\ op'[p].s = op[p].s
      <4>1. op[p].ok => op[p].s.plan_hash \in Contents /\ Granted(op[p].s.plan_hash)'
        BY <1>2, <2>1, <3>1, <3>3 DEF Earned, Granted
      <4> QED
        BY <1>20, <2>1, <3>3, <4>1, NoOpType
    <3> QED
      BY <3>1, <3>2, <3>3
  <2> QED
    BY <1>21, <2>2, <2>3, <2>4, <2>5, <2>6 DEF Inside
<1>28. ASSUME NEW p \in Procs, Ask(p) PROVE ApprovalInv'
  <2> DEFINE o == [NoOp EXCEPT !.cmd = "issue", !.step = "lock"]
  <2>1. /\ o \in Operation /\ About(o) /\ o.s = NoPlan /\ o.cmd = "issue" /\ ~o.ok
        /\ NoPlan.approved_hash = None
    BY NoOpType DEF NoOp, NoPlan, Operation, About
  <2>2. op' = [op EXCEPT ![p] = o]
    BY <1>28 DEF Ask, SetOp
  <2> HIDE DEF o
  <2>3. Only(p) /\ op'[p] = o
    BY <1>1, <2>1, <2>2, SetOpFacts
  <2>4. Earned(op[p])'
    BY <2>1, <2>3, DispatchAssumption DEF Earned, Backed
  <2> QED
    BY <1>5, <1>6, <1>7, <1>28, <2>3, <2>4 DEF Ask
<1>22. ASSUME NEW p \in Procs, Capture(p) PROVE ApprovalInv'
  <2>1. op[p].step = "read" /\ op[p].cmd = "tail" /\ UNCHANGED <<plan, launches>>
    BY <1>22 DEF Capture, Doing
  <2>2. CASE SetOp(p, NoOp)
    <3>1. op'[p] = NoOp /\ Only(p)
      BY <1>1, <2>2, SetOpFacts, NoOpType DEF SetOp
    <3> QED
      BY <1>5, <1>6, <1>7, <1>8, <2>1, <3>1
  <2>3. CASE op' = [op EXCEPT ![p].step = "write"]
    <3>1. op'[p].s = op[p].s /\ op'[p].step = "write" /\ op'[p].ok = op[p].ok /\ op'[p].cmd = op[p].cmd
      BY <1>1, <2>1, <2>3, StepFacts
    <3>2. Earned(op[p])'
      BY <1>2, <2>1, <3>1 DEF ApprovalInv, Earned, Backed, Granted
    <3> QED
      BY <1>7, <1>16, <2>1, <2>3, <3>2
  <2> QED
    BY <1>22, <2>2, <2>3 DEF Capture
<1>23. ASSUME NEW p \in Procs, GiveUp(p) \/ Die(p) PROVE ApprovalInv'
  BY <1>1, <1>5, <1>6, <1>7, <1>8, <1>23, SetOpFacts, NoOpType DEF GiveUp, Die, SetOp
<1>24. ASSUME NEW p \in Procs, Create(p) PROVE ApprovalInv'
  <2>1. PICK i \in Plans, c \in Contents :
          plan' = [plan EXCEPT ![i] = [NoPlan EXCEPT !.plan = c, !.plan_hash = c, !.lifecycle = "ready"]]
    BY <1>24 DEF Create
  <2>2. plan'[i].approved_hash = None /\ \A j \in Plans : j # i => plan'[j] = plan[j]
    BY <1>3, <2>1 DEF NoPlan
  <2>3. \A j \in Plans : Backed(plan[j])'
    BY <1>2, <2>2, DispatchAssumption DEF ApprovalInv, Backed, Granted
  <2>4. UNCHANGED <<op, launches>> /\ Only(p)
    BY <1>24 DEF Create, Only, Alike
  <2> QED
    BY <1>4, <1>5, <1>7, <2>3, <2>4 DEF Alike
<1>25. ASSUME UNCHANGED <<op, launches>>, \A j \in Plans : plan'[j].approved_hash = plan[j].approved_hash
       PROVE  ApprovalInv'
  <2>1. \A j \in Plans : Backed(plan[j])'
    BY <1>2, <1>25 DEF ApprovalInv, Backed, Granted
  <2>2. \A p \in Procs : Earned(op[p])'
    BY <1>4, <1>25 DEF Alike
  <2> QED
    BY <1>7, <1>25, <2>1, <2>2 DEF ApprovalInv
<1>26. CASE Edit
  <2>1. PICK i \in Plans, c \in Edited : plan' = [plan EXCEPT ![i].plan = c]
    BY <1>26 DEF Edit
  <2>2. plan' = [plan EXCEPT ![i] = [plan[i] EXCEPT !.plan = c]] /\ plan[i] \in StoredPlan
    BY <1>3, <2>1
  <2>3. \A j \in Plans : plan'[j].approved_hash = plan[j].approved_hash
    BY <1>3, <2>2 DEF StoredPlan
  <2> QED
    BY <1>25, <1>26, <2>3 DEF Edit
<1>27. CASE Expire \/ SessionEnds \/ UNCHANGED vars
  BY <1>25, <1>27 DEF Expire, SessionEnds, vars
<1> QED
  BY <1>9, <1>11, <1>13, <1>15, <1>17, <1>18, <1>21, <1>22, <1>23, <1>24, <1>26, <1>27,
     <1>28
     DEF Next, Approving, Inside, Launching, Watching

LEMMA InitApprovals == Init => ApprovalInv
BY NoOpType, DispatchAssumption
   DEF Init, ApprovalInv, Earned, Backed, NoPlan, NothingUnapprovedRuns

\* Every plan's approval, in its file and in every copy of it, was given.
THEOREM ApprovalInvariant == Spec => [](TokenInv /\ ApprovalInv)
BY InitApprovals, TokenInvariant, ApprovalNext, PTL DEF Spec

\* Nothing is launched that no accepted token was minted for, whatever is edited or
\* written back from an old copy meanwhile (dispatchPlan, armPlan).
THEOREM OnlyApprovedRuns == Spec => []NothingUnapprovedRuns
<1>1. ApprovalInv => NothingUnapprovedRuns
  BY DEF ApprovalInv
<1> QED
  BY <1>1, ApprovalInvariant, PTL

-----------------------------------------------------------------------------
(* The copies that the operations hold *)

There(i) == plan[i].lifecycle # "none"

Same(s, x) == s.lifecycle = x.lifecycle /\ s.approved_hash = x.approved_hash

\* An operation is about a plan that is there, and a copy that was not overwritten
\* says what the file says of its lifecycle and its approval.
Fits(o) ==
  /\ o.id \in Plans /\ There(o.id) /\ o.s.lifecycle # "none"
  /\ ~o.stale => Same(o.s, plan[o.id])
  /\ o.cmd = "launch" => o.s.lifecycle = "armed"

Copies ==
  /\ \A i \in Plans : plan[i] = NoPlan \/ There(i)
  /\ \A p \in Procs : op[p] = NoOp \/ op[p].cmd = "issue" \/ Fits(op[p])
  /\ \A p \in Procs, i \in Plans : boxes[p][i] > 0 => There(i)

LEMMA CopiesNext == Typed /\ Copies /\ [Next]_vars => Copies'
<1> SUFFICES ASSUME Typed, Copies, [Next]_vars PROVE Copies'
  OBVIOUS
<1> USE DEF procVars, auxVars
<1>1. /\ \A p \in Procs : op[p] \in Operation /\ op[p].s \in StoredPlan
      /\ plan \in [Plans -> StoredPlan] /\ op \in [Procs -> Operation]
      /\ boxes \in [Procs -> [Plans -> Nat]]
  BY DEF Typed, Operation
<1>2. ASSUME NEW p \in Procs, op[p].step # "none", op[p].cmd # "issue" PROVE Fits(op[p])
  BY <1>2, NoOpType DEF Copies
\* No plan is written
<1>3. ASSUME NEW p \in Procs, UNCHANGED plan,
             \A q \in Procs : q # p => op'[q] = op[q],
             op'[p] = NoOp \/ op'[p].cmd = "issue" \/ Fits(op[p])',
             \A q \in Procs, i \in Plans : boxes'[q][i] > 0 => boxes[q][i] > 0
      PROVE  Copies'
  <2>1. \A i \in Plans : There(i)' <=> There(i)
    BY <1>3 DEF There
  <2>2. ASSUME NEW q \in Procs PROVE (op[q] = NoOp \/ op[q].cmd = "issue" \/ Fits(op[q]))'
    BY <1>3 DEF Copies, Fits, There
  <2> QED
    BY <1>3, <2>1, <2>2 DEF Copies
\* A plan is written
<1>4. ASSUME NEW p \in Procs, NEW s \in StoredPlan, Writes(p, s), s.lifecycle # "none",
             \A q \in Procs, i \in Plans : boxes'[q][i] > 0 => boxes[q][i] > 0 \/ i = op[p].id
      PROVE  Copies'
  <2>1. /\ op'[p] = NoOp /\ Only(p) /\ plan' = [plan EXCEPT ![op[p].id] = s]
        /\ \A q \in Procs : q # p /\ op[q] = NoOp => op'[q] = NoOp
        /\ \A q \in Procs : q # p /\ ~op'[q].stale =>
             ~op[q].stale /\ (op[q].id # op[p].id \/ op[q].s = NoPlan)
    BY <1>4, WriteFacts DEF Writes
  <2>2. op[p].id \in Plans /\ There(op[p].id)
    BY <1>2, <1>4 DEF Writes, Fits
  <2>3. plan'[op[p].id] = s /\ \A i \in Plans : i # op[p].id => plan'[i] = plan[i]
    BY <1>1, <2>1, <2>2
  <2>4. \A i \in Plans : There(i) => There(i)'
    BY <1>4, <2>3 DEF There
  <2>5. \A i \in Plans : (plan[i] = NoPlan \/ There(i))'
    BY <1>4, <2>3 DEF There, Copies
  <2>6. ASSUME NEW q \in Procs, q # p, op'[q] # NoOp, op'[q].cmd # "issue" PROVE Fits(op[q])'
    <3>1. Fits(op[q]) /\ Alike(op'[q], op[q])
      BY <2>1, <2>6 DEF Copies, Only, Alike
    <3>2. op'[q].id \in Plans /\ plan'[op'[q].id].lifecycle # "none" /\ op'[q].s.lifecycle # "none"
      BY <2>4, <3>1 DEF Fits, There, Alike
    <3>3. ~op'[q].stale => Same(op'[q].s, plan'[op'[q].id])
      <4> SUFFICES ASSUME ~op'[q].stale PROVE Same(op'[q].s, plan'[op'[q].id])
        OBVIOUS
      <4>1. op[q].s # NoPlan
        BY <3>1, NoOpType DEF Fits
      <4>2. ~op[q].stale /\ op[q].id # op[p].id
        BY <2>1, <2>6, <4>1
      <4> QED
        BY <2>3, <3>1, <4>2 DEF Fits, Alike
    <3> QED
      BY <3>1, <3>2, <3>3 DEF Fits, There, Alike
  <2>7. ASSUME NEW q \in Procs, NEW i \in Plans, boxes'[q][i] > 0 PROVE There(i)'
    BY <1>4, <2>2, <2>4, <2>7 DEF Copies
  <2> QED
    BY <2>1, <2>5, <2>6, <2>7 DEF Copies
\* An operation begins
<1>5. ASSUME NEW p \in Procs, NEW i \in Plans, Reads(p, i),
             \A q \in Procs, j \in Plans : boxes'[q][j] > 0 => boxes[q][j] > 0
      PROVE  Copies'
  <2>1. There(i)
    BY <1>5 DEF Reads, Copies
  <2>2. Fits(op[p])'
    BY <1>5, <2>1 DEF Reads, Fits, There, Same
  <2> QED
    BY <1>3, <1>5, <2>2 DEF Reads
<1>6. ASSUME NEW p \in Procs, Arm(p) \/ Launch(p) \/ Tail(p) \/ End(p) PROVE Copies'
  <2>1. UNCHANGED boxes
    BY <1>6 DEF Arm, Launch, Tail, End
  <2> QED
    BY <1>5, <1>6, <2>1, ReadSteps
<1>7. ASSUME NEW p \in Procs, ContainerEnds(p) PROVE Copies'
  <2>1. PICK i \in Plans : boxes[p][i] > 0 /\ boxes' = [boxes EXCEPT ![p][i] = @ - 1]
    BY <1>7 DEF ContainerEnds
  <2>2. ASSUME NEW q \in Procs, NEW j \in Plans, boxes'[q][j] > 0 PROVE boxes[q][j] > 0
    BY <1>1, <2>1, <2>2
  <2> QED
    BY <1>5, <1>7, <2>2, ReadSteps
\* It goes on
<1>8. ASSUME NEW p \in Procs, op[p].step # "none", UNCHANGED <<plan, boxes>>,
             \A q \in Procs : q # p => op'[q] = op[q],
             /\ op'[p].id = op[p].id /\ op'[p].s = op[p].s /\ op'[p].cmd = op[p].cmd
             /\ op'[p].stale = op[p].stale
      PROVE  Copies'
  <2>1. op'[p].cmd = "issue" \/ Fits(op[p])'
    BY <1>2, <1>8 DEF Fits, There
  <2> QED
    BY <1>3, <1>8, <2>1
<1>9. ASSUME NEW p \in Procs, NEW k \in {"killed", "spawned", "write"},
             op' = [op EXCEPT ![p].step = k], op[p].step # "none", op[p].cmd # "issue",
             UNCHANGED <<plan, boxes>>
      PROVE  Copies'
  BY <1>8, <1>9, StepFacts
<1>10. ASSUME NEW p \in Procs, KillSession(p) \/ NewSession(p) \/ SendKeys(p)
       PROVE  Copies'
  <2>1. PICK k \in {"killed", "spawned", "write"} : op' = [op EXCEPT ![p].step = k]
    BY <1>10 DEF KillSession, NewSession, SendKeys
  <2>2. op[p].step # "none" /\ op[p].cmd # "issue" /\ UNCHANGED <<plan, boxes>>
    BY <1>10 DEF KillSession, NewSession, SendKeys, Doing
  <2> QED
    BY <1>9, <2>1, <2>2
<1>11. ASSUME NEW p \in Procs, Inside(p) PROVE Copies'
  <2>1. Within(p) /\ op[p].step # "none"
    BY <1>11, InsideSteps DEF Within
  <2>2. CASE op'[p] = NoOp
    BY <1>3, <2>1, <2>2 DEF Within
  <2>3. CASE op'[p] # NoOp
    BY <1>8, <2>1, <2>3 DEF Within
  <2> QED
    BY <2>2, <2>3
<1>23. ASSUME NEW p \in Procs, Ask(p) PROVE Copies'
  <2>1. op' = [op EXCEPT ![p] = [NoOp EXCEPT !.cmd = "issue", !.step = "lock"]] /\ UNCHANGED <<plan, boxes>>
    BY <1>23 DEF Ask, SetOp
  <2>2. op'[p].cmd = "issue" /\ \A q \in Procs : q # p => op'[q] = op[q]
    BY <1>1, <2>1 DEF NoOp
  <2> QED
    BY <1>3, <2>1, <2>2
<1>12. ASSUME NEW p \in Procs, SetOp(p, NoOp), UNCHANGED plan,
              \A q \in Procs, i \in Plans : boxes'[q][i] > 0 => boxes[q][i] > 0
       PROVE  Copies'
  BY <1>1, <1>3, <1>12 DEF SetOp
<1>13. ASSUME NEW p \in Procs, GiveUp(p) PROVE Copies'
  BY <1>12, <1>13 DEF GiveUp
<1>14. ASSUME NEW p \in Procs, Capture(p) PROVE Copies'
  BY <1>9, <1>12, <1>14 DEF Capture, Doing
<1>15. ASSUME NEW p \in Procs, Die(p) PROVE Copies'
  <2>1. boxes' = [boxes EXCEPT ![p] = [i \in Plans |-> 0]]
    BY <1>15 DEF Die
  <2>2. ASSUME NEW q \in Procs, NEW i \in Plans, boxes'[q][i] > 0 PROVE boxes[q][i] > 0
    BY <1>1, <2>1, <2>2
  <2> QED
    BY <1>12, <1>15, <2>2 DEF Die
\* It ends
<1>16. ASSUME NEW p \in Procs,
              WriteArmed(p) \/ LaunchRefused(p) \/ WriteRunning(p) \/ LaunchContainer(p)
              \/ WriteContainerEnd(p) \/ WriteTail(p) \/ WriteEnd(p)
       PROVE  \E s \in StoredPlan : Writes(p, s) /\ s.lifecycle # "none"
  <2>1. ASSUME op[p].step # "none", op[p].cmd # "issue" PROVE op[p].s.lifecycle # "none"
    BY <1>2, <2>1 DEF Fits
  <2>2. CASE WriteArmed(p)
    <3>1. op[p].ok \in BOOLEAN
      BY <1>1 DEF Operation
    <3> QED
      BY <2>2, <3>1, WriteSteps
  <2>3. CASE LaunchRefused(p) \/ WriteRunning(p) \/ LaunchContainer(p) \/ WriteContainerEnd(p) \/ WriteEnd(p)
    BY <2>3, WriteSteps
  <2>4. CASE WriteTail(p)
    BY <2>1, <2>4, WriteSteps DEF Writes
  <2> QED
    BY <1>16, <2>2, <2>3, <2>4
<1>17. ASSUME NEW p \in Procs,
              WriteArmed(p) \/ LaunchRefused(p) \/ WriteRunning(p)
              \/ WriteContainerEnd(p) \/ WriteTail(p) \/ WriteEnd(p)
       PROVE  Copies'
  <2>1. UNCHANGED boxes
    BY <1>17 DEF WriteArmed, LaunchRefused, WriteRunning, WriteContainerEnd, WriteTail, WriteEnd
  <2> QED
    BY <1>4, <1>16, <1>17, <2>1
<1>18. ASSUME NEW p \in Procs, LaunchContainer(p) PROVE Copies'
  <2>1. boxes' = [boxes EXCEPT ![p] = [boxes[p] EXCEPT ![op[p].id] = boxes[p][op[p].id] + 1]]
    BY <1>18 DEF LaunchContainer
  <2>2. ASSUME NEW q \in Procs, NEW i \in Plans, boxes'[q][i] > 0
        PROVE  boxes[q][i] > 0 \/ i = op[p].id
    BY <1>1, <2>1, <2>2
  <2> QED
    BY <1>4, <1>16, <1>18, <2>2
\* The files change otherwise
<1>19. ASSUME UNCHANGED <<op, boxes>>,
              \A i \in Plans : \/ plan'[i] = plan[i]
                               \/ plan[i] = NoPlan /\ There(i)'
                               \/ plan[i] # NoPlan /\ Same(plan'[i], plan[i])
       PROVE  Copies'
  <2>1. \A i \in Plans : (plan[i] = NoPlan \/ There(i))'
    BY <1>19 DEF Copies, There, Same
  <2>2. \A i \in Plans : There(i) => There(i)' /\ Same(plan'[i], plan[i])
    BY <1>19, NoOpType DEF There, Same
  <2>3. ASSUME NEW p \in Procs PROVE (op[p] = NoOp \/ op[p].cmd = "issue" \/ Fits(op[p]))'
    BY <1>19, <2>2 DEF Copies, Fits, There, Same
  <2> QED
    BY <1>19, <2>1, <2>2, <2>3 DEF Copies
<1>20. ASSUME NEW p \in Procs, Create(p) PROVE Copies'
  <2>1. PICK i \in Plans, c \in Contents :
          /\ plan[i] = NoPlan
          /\ plan' = [plan EXCEPT ![i] = [NoPlan EXCEPT !.plan = c, !.plan_hash = c, !.lifecycle = "ready"]]
    BY <1>20 DEF Create
  <2>2. plan'[i].lifecycle = "ready" /\ \A j \in Plans : j # i => plan'[j] = plan[j]
    BY <1>1, <2>1 DEF NoPlan
  <2> QED
    BY <1>19, <1>20, <2>1, <2>2 DEF Create, There
<1>21. CASE Edit
  <2>1. PICK i \in Plans, c \in Edited : plan[i] # NoPlan /\ plan' = [plan EXCEPT ![i].plan = c]
    BY <1>21 DEF Edit
  <2>2. plan' = [plan EXCEPT ![i] = [plan[i] EXCEPT !.plan = c]] /\ plan[i] \in StoredPlan
    BY <1>1, <2>1
  <2>3. Same(plan'[i], plan[i]) /\ \A j \in Plans : j # i => plan'[j] = plan[j]
    BY <1>1, <2>2 DEF StoredPlan, Same
  <2> QED
    BY <1>19, <1>21, <2>1, <2>3 DEF Edit
<1>22. CASE Expire \/ SessionEnds \/ UNCHANGED vars
  BY <1>19, <1>22 DEF Expire, SessionEnds, vars
<1> QED
  BY <1>6, <1>7, <1>10, <1>11, <1>13, <1>14, <1>15, <1>17, <1>18, <1>20, <1>21, <1>22,
     <1>23
     DEF Next, Approving, Inside, Launching, Watching

-----------------------------------------------------------------------------
(* What is counted is finite *)

LEMMA CardSub ==
  ASSUME NEW S, IsFiniteSet(S), NEW T \in SUBSET S
  PROVE  /\ IsFiniteSet(T) /\ Cardinality(S) \in Nat /\ Cardinality(T) \in Nat
         /\ Cardinality(T) <= Cardinality(S)
BY FS_Subset, FS_CardinalityType

LEMMA CardMore ==
  ASSUME NEW S, IsFiniteSet(S), NEW x, NEW T \in SUBSET (S \cup {x})
  PROVE  /\ IsFiniteSet(T) /\ Cardinality(S) \in Nat /\ Cardinality(T) \in Nat
         /\ Cardinality(T) <= Cardinality(S) + 1
<1>1. /\ IsFiniteSet(S \cup {x}) /\ Cardinality(S) \in Nat
      /\ Cardinality(S \cup {x}) \in {Cardinality(S), Cardinality(S) + 1}
  BY FS_AddElement, FS_CardinalityType
<1>2. IsFiniteSet(T) /\ Cardinality(T) \in Nat /\ Cardinality(T) <= Cardinality(S \cup {x})
  BY <1>1, CardSub
<1> QED
  BY <1>1, <1>2

\* One that was counted is gone.
LEMMA CardLess ==
  ASSUME NEW S, IsFiniteSet(S), NEW x \in S, NEW T \in SUBSET (S \ {x})
  PROVE  /\ IsFiniteSet(T) /\ Cardinality(S) \in Nat /\ Cardinality(T) \in Nat
         /\ Cardinality(T) + 1 <= Cardinality(S)
<1>1. /\ IsFiniteSet(S \ {x}) /\ Cardinality(S) \in Nat
      /\ Cardinality(S \ {x}) = Cardinality(S) - 1
  BY FS_RemoveElement, FS_CardinalityType
<1>2. IsFiniteSet(T) /\ Cardinality(T) \in Nat /\ Cardinality(T) <= Cardinality(S \ {x})
  BY <1>1, CardSub
<1> QED
  BY <1>1, <1>2

Finite ==
  /\ IsFiniteSet({i \in Plans : There(i)}) /\ IsFiniteSet(dead)
  /\ IsFiniteSet({p \in Procs : op[p] # NoOp})

\* A step is of one process, and is about one plan.
LEMMA OneAtATime ==
  ASSUME Typed, [Next]_vars
  PROVE  /\ \E x : \A i \in Plans : i # x => plan'[i] = plan[i]
         /\ \E x : /\ \A q \in Procs : q # x /\ op[q] = NoOp => op'[q] = NoOp
                   /\ dead' \subseteq dead \cup {x}
<1> USE DEF procVars, auxVars
<1> DEFINE OnePlan == \E x : \A i \in Plans : i # x => plan'[i] = plan[i]
           OneProc == \E x : /\ \A q \in Procs : q # x /\ op[q] = NoOp => op'[q] = NoOp
                             /\ dead' \subseteq dead \cup {x}
<1>1. /\ plan \in [Plans -> StoredPlan] /\ op \in [Procs -> Operation]
  BY DEF Typed
<1>2. ASSUME NEW p \in Procs, Outside(p) PROVE OneProc
  BY <1>2 DEF Outside
<1>3. UNCHANGED plan => OnePlan
  OBVIOUS
<1>5. ASSUME NEW p \in Procs,
             WriteArmed(p) \/ LaunchRefused(p) \/ WriteRunning(p) \/ LaunchContainer(p)
             \/ WriteContainerEnd(p) \/ WriteTail(p) \/ WriteEnd(p)
      PROVE  OnePlan
  <2>1. PICK s \in StoredPlan : Writes(p, s)
    BY <1>5, WriteSteps
  <2>2. plan' = [plan EXCEPT ![op[p].id] = s]
    BY <2>1, WriteFacts DEF Writes
  <2>3. \A i \in Plans : i # op[p].id => plan'[i] = plan[i]
    BY <1>1, <2>2
  <2> QED
    BY <2>3
<1>6. ASSUME NEW p \in Procs, Create(p) PROVE OnePlan
  BY <1>1, <1>6 DEF Create
<1>7. ASSUME NEW p \in Procs, Ask(p) \/ Arm(p) \/ GiveUp(p) \/ WriteArmed(p) PROVE OnePlan
  BY <1>3, <1>5, <1>7 DEF Ask, Arm, GiveUp
<1>8. ASSUME NEW p \in Procs, Launching(p) PROVE OnePlan
  BY <1>3, <1>5, <1>8 DEF Launching, Launch, KillSession, NewSession, SendKeys, ContainerEnds
<1>9. ASSUME NEW p \in Procs, Watching(p) \/ Die(p) PROVE OnePlan
  BY <1>3, <1>5, <1>9 DEF Watching, Tail, Capture, End, Die
<1>10. ASSUME NEW p \in Procs,
              Create(p) \/ Ask(p) \/ Arm(p) \/ GiveUp(p) \/ WriteArmed(p) \/ Launching(p) \/ Watching(p) \/ Die(p)
       PROVE  OnePlan /\ OneProc
  BY <1>2, <1>6, <1>7, <1>8, <1>9, <1>10, OutsideSteps
<1>11. ASSUME NEW p \in Procs, Inside(p) PROVE OnePlan /\ OneProc
  <2>1. Within(p)
    BY <1>11, InsideSteps
  <2> QED
    BY <1>3, <2>1 DEF Within
<1>12. ASSUME Edit PROVE OnePlan /\ OneProc
  <2>1. UNCHANGED <<op, dead>> /\ OnePlan
    BY <1>1, <1>12 DEF Edit
  <2> QED
    BY <2>1
<1>13. ASSUME Expire \/ SessionEnds \/ UNCHANGED vars
       PROVE  OnePlan /\ OneProc
  <2>1. UNCHANGED <<plan, op, dead>>
    BY <1>13 DEF Expire, SessionEnds, vars
  <2> QED
    BY <1>3, <2>1
<1> HIDE DEF OnePlan, OneProc
<1>14. OnePlan /\ OneProc
  <2>1. CASE \E p \in Procs : Create(p) \/ Approving(p) \/ Launching(p) \/ Watching(p) \/ Die(p)
    <3>1. PICK p \in Procs : Create(p) \/ Approving(p) \/ Launching(p) \/ Watching(p) \/ Die(p)
      BY <2>1, Zenon
    <3>2. CASE Approving(p)
      BY <1>10, <1>11, <3>2, Zenon DEF Approving, Inside
    <3> QED
      BY <1>10, <3>1, <3>2, Zenon
  <2>2. CASE Edit
    BY <1>12, <2>2
  <2>3. CASE Expire \/ SessionEnds \/ UNCHANGED vars
    BY <1>13, <2>3
  <2> QED
    BY <2>1, <2>2, <2>3 DEF Next
<1> QED
  BY <1>14 DEF OnePlan, OneProc

LEMMA FiniteNext == Typed /\ Finite /\ [Next]_vars => Finite'
<1> SUFFICES ASSUME Typed, Finite, [Next]_vars PROVE Finite'
  OBVIOUS
<1>1. IsFiniteSet({i \in Plans : There(i)})'
  <2>1. PICK x : \A i \in Plans : i # x => plan'[i] = plan[i]
    BY OneAtATime
  <2>2. {i \in Plans : There(i)}' \in SUBSET ({i \in Plans : There(i)} \cup {x})
    BY <2>1 DEF There
  <2> QED
    BY <2>2, CardMore DEF Finite
<1>3. IsFiniteSet({p \in Procs : op[p] # NoOp})' /\ IsFiniteSet(dead)'
  <2>1. PICK x : /\ \A q \in Procs : q # x /\ op[q] = NoOp => op'[q] = NoOp
                 /\ dead' \subseteq dead \cup {x}
    BY OneAtATime
  <2>2. {p \in Procs : op[p] # NoOp}' \in SUBSET ({p \in Procs : op[p] # NoOp} \cup {x})
    BY <2>1
  <2> QED
    BY <2>1, <2>2, CardMore DEF Finite
<1> QED
  BY <1>1, <1>3 DEF Finite

-----------------------------------------------------------------------------
(* What an approval pays for *)

\* The plans that are armed for content c, the processes that were answered ok for c
\* and have not armed the plan yet, and those that launched c and have not written it.
ArmedFor(c) == {i \in Plans : plan[i].lifecycle = "armed" /\ plan[i].approved_hash = c}
Granting(c) == {p \in Procs : op[p].step \in {"leave", "answer"} /\ op[p].ok /\ op[p].s.plan_hash = c}
Launched(c) == {p \in Procs : op[p].cmd = "launch" /\ op[p].step = "write" /\ op[p].s.plan = c}

\* Launches done and launches still to come are covered by approvals, by copies
\* written over newer plans, and by processes that died or still owe their write.
Paid(c) ==
  launches[c] + Cardinality(ArmedFor(c)) + Cardinality(Granting(c))
    <= accepted[c] + lost + Cardinality(dead) + Cardinality(Launched(c))

LEMMA CountsFinite ==
  ASSUME NEW c
  PROVE  /\ Finite => /\ IsFiniteSet(ArmedFor(c)) /\ IsFiniteSet(Granting(c))
                      /\ IsFiniteSet(Launched(c)) /\ IsFiniteSet(dead)
         /\ Finite' => /\ IsFiniteSet(ArmedFor(c)') /\ IsFiniteSet(Granting(c)')
                       /\ IsFiniteSet(Launched(c)') /\ IsFiniteSet(dead')
<1>1. /\ ArmedFor(c) \in SUBSET {i \in Plans : There(i)}
      /\ Granting(c) \in SUBSET {p \in Procs : op[p] # NoOp}
      /\ Launched(c) \in SUBSET {p \in Procs : op[p] # NoOp}
  BY NoOpType DEF ArmedFor, Granting, Launched, There
<1>2. /\ ArmedFor(c)' \in SUBSET {i \in Plans : There(i)}'
      /\ Granting(c)' \in SUBSET {p \in Procs : op[p] # NoOp}'
      /\ Launched(c)' \in SUBSET {p \in Procs : op[p] # NoOp}'
  BY NoOpType DEF ArmedFor, Granting, Launched, There
<1>3. ASSUME Finite
      PROVE  /\ IsFiniteSet(ArmedFor(c)) /\ IsFiniteSet(Granting(c))
             /\ IsFiniteSet(Launched(c)) /\ IsFiniteSet(dead)
  BY <1>1, <1>3, FS_Subset DEF Finite
<1>4. ASSUME Finite'
      PROVE  /\ IsFiniteSet(ArmedFor(c)') /\ IsFiniteSet(Granting(c)')
             /\ IsFiniteSet(Launched(c)') /\ IsFiniteSet(dead')
  BY <1>2, <1>4, FS_Subset DEF Finite
<1> QED
  BY <1>3, <1>4

LEMMA PaidNext ==
  ASSUME TokenInv, ApprovalInv, Copies, Finite, [Next]_vars, NEW c \in Contents, Paid(c)
  PROVE  Paid(c)'
<1> USE DEF procVars, auxVars
<1>1. Typed /\ Typed' /\ Finite'
  BY TypedNext, FiniteNext DEF TokenInv, Shape
<1>2. /\ \A p \in Procs : op[p] \in Operation /\ op[p].s \in StoredPlan
      /\ plan \in [Plans -> StoredPlan] /\ op \in [Procs -> Operation]
      /\ launches \in [Contents -> Nat] /\ launches' \in [Contents -> Nat]
      /\ lost \in Nat /\ lost' \in Nat
      /\ accepted \in [Contents -> Nat] /\ accepted' \in [Contents -> Nat]
  BY <1>1 DEF Typed, Operation
<1>3. /\ IsFiniteSet(ArmedFor(c)) /\ IsFiniteSet(Granting(c))
      /\ IsFiniteSet(Launched(c)) /\ IsFiniteSet(dead)
      /\ IsFiniteSet(ArmedFor(c)') /\ IsFiniteSet(Granting(c)')
      /\ IsFiniteSet(Launched(c)') /\ IsFiniteSet(dead')
  BY <1>1, CountsFinite
<1>4. /\ launches[c] \in Nat /\ launches'[c] \in Nat
      /\ Cardinality(ArmedFor(c)) \in Nat /\ Cardinality(Granting(c)) \in Nat
      /\ accepted[c] \in Nat /\ Cardinality(Launched(c)) \in Nat /\ Cardinality(dead) \in Nat
      /\ Cardinality(ArmedFor(c)') \in Nat /\ Cardinality(Granting(c)') \in Nat
      /\ accepted'[c] \in Nat /\ Cardinality(Launched(c)') \in Nat /\ Cardinality(dead') \in Nat
  BY <1>2, <1>3, FS_CardinalityType
<1>5. accepted[c] <= accepted'[c]
  <2>1. ASSUME NEW p \in Procs, Inside(p) PROVE accepted'[c] = accepted[c] \/ accepted'[c] = accepted[c] + 1
    BY <1>2, <2>1 DEF Inside, Enter, Mint, Decide, CutStore, WriteStore, Release
  <2>2. accepted'[c] = accepted[c] \/ accepted'[c] = accepted[c] + 1
    BY <1>1, <2>1, StepKinds DEF Outside, Expire
  <2> QED
    BY <1>4, <2>2
\* Nothing that is owed was added and nothing that pays was taken away
<1>6. ASSUME ArmedFor(c)' \subseteq ArmedFor(c), Granting(c)' \subseteq Granting(c),
             Launched(c) \subseteq Launched(c)', dead \subseteq dead',
             lost' >= lost, launches'[c] = launches[c]
      PROVE  Paid(c)'
  <2>1. /\ Cardinality(ArmedFor(c)') <= Cardinality(ArmedFor(c))
        /\ Cardinality(Granting(c)') <= Cardinality(Granting(c))
        /\ Cardinality(Launched(c)) <= Cardinality(Launched(c)')
        /\ Cardinality(dead) <= Cardinality(dead')
    BY <1>3, <1>6, CardSub
  <2> QED
    BY <1>2, <1>4, <1>5, <1>6, <2>1 DEF Paid
\* What a step of p does to each count
<1>7. ASSUME NEW p \in Procs, Only(p)
      PROVE  /\ Granting(c)' \subseteq Granting(c) \cup {p}
             /\ p \notin Granting(c)' => Granting(c)' \subseteq Granting(c) \ {p}
             /\ Launched(c) \subseteq Launched(c)' \cup {p}
             /\ p \notin Launched(c) => Launched(c) \subseteq Launched(c)' \ {p}
  BY <1>7 DEF Only, Alike, Granting, Launched
<1>8. ASSUME NEW p \in Procs, op'[p].step \notin {"leave", "answer"} \/ ~op'[p].ok PROVE p \notin Granting(c)'
  BY <1>8 DEF Granting
<1>9. ASSUME NEW p \in Procs, op[p].cmd # "launch" \/ op[p].step # "write" PROVE p \notin Launched(c)
  BY <1>9 DEF Launched
<1>10. ASSUME NEW x, NEW s, plan' = [plan EXCEPT ![x] = s]
       PROVE  /\ ArmedFor(c)' \subseteq ArmedFor(c) \cup {x}
              /\ s.lifecycle # "armed" \/ s.approved_hash # c => ArmedFor(c)' \subseteq ArmedFor(c) \ {x}
              /\ x \in ArmedFor(c) => ArmedFor(c)' \subseteq ArmedFor(c)
  <2>1. \A i \in Plans : plan'[i] = IF i = x THEN s ELSE plan[i]
    BY <1>2, <1>10
  <2> QED
    BY <2>1 DEF ArmedFor
<1>11. UNCHANGED plan => ArmedFor(c)' = ArmedFor(c)
  BY DEF ArmedFor
\* Most steps of an operation
<1>12. ASSUME NEW p \in Procs, Only(p), p \notin Granting(c)', p \notin Launched(c),
              ArmedFor(c)' \subseteq ArmedFor(c), dead' = dead, lost' >= lost, launches'[c] = launches[c]
       PROVE  Paid(c)'
  BY <1>6, <1>7, <1>12
<1>13. ASSUME NEW p \in Procs, Arm(p) \/ Launch(p) \/ ContainerEnds(p) \/ Tail(p) \/ End(p)
       PROVE  Paid(c)'
  <2>1. PICK i \in Plans : Reads(p, i)
    BY <1>1, <1>13, ReadSteps
  <2>2. /\ Only(p) /\ p \notin Granting(c)' /\ p \notin Launched(c)
        /\ UNCHANGED <<plan, dead, lost, launches>>
    BY <1>8, <1>9, <2>1, NoOpType DEF Reads
  <2> QED
    BY <1>2, <1>11, <1>12, <2>2
<1>14. ASSUME NEW p \in Procs, NEW k \in {"killed", "spawned", "write"},
              op' = [op EXCEPT ![p].step = k], op[p].step \notin {"none", "write"}, op[p].cmd # "issue",
              UNCHANGED <<plan, dead, lost, launches>>
       PROVE  Paid(c)'
  <2>1. Only(p) /\ op'[p].step = k
    BY <1>1, <1>14, StepFacts
  <2> QED
    BY <1>2, <1>8, <1>9, <1>11, <1>12, <1>14, <2>1
<1>15. ASSUME NEW p \in Procs, KillSession(p) \/ NewSession(p) PROVE Paid(c)'
  <2>1. PICK k \in {"killed", "spawned"} : op' = [op EXCEPT ![p].step = k]
    BY <1>15 DEF KillSession, NewSession
  <2>2. /\ op[p].step \notin {"none", "write"} /\ op[p].cmd # "issue"
        /\ UNCHANGED <<plan, dead, lost, launches>>
    BY <1>15 DEF KillSession, NewSession, Doing
  <2> QED
    BY <1>14, <2>1, <2>2
<1>16. ASSUME NEW p \in Procs, op' = [op EXCEPT ![p] = NoOp], op[p].step # "write",
              UNCHANGED <<plan, dead, lost, launches>>
       PROVE  Paid(c)'
  <2>1. op'[p] = NoOp /\ Only(p)
    BY <1>1, <1>16, SetOpFacts, NoOpType
  <2> QED
    BY <1>2, <1>8, <1>9, <1>11, <1>12, <1>16, <2>1, NoOpType
<1>17. ASSUME NEW p \in Procs, GiveUp(p) PROVE Paid(c)'
  BY <1>16, <1>17 DEF GiveUp, SetOp, At
<1>18. ASSUME NEW p \in Procs, Capture(p) PROVE Paid(c)'
  <2>1. op[p].step = "read" /\ op[p].cmd # "issue" /\ UNCHANGED <<plan, dead, lost, launches>>
    BY <1>18 DEF Capture, Doing
  <2>2. op' = [op EXCEPT ![p] = NoOp] \/ op' = [op EXCEPT ![p].step = "write"]
    BY <1>18 DEF Capture, SetOp
  <2> QED
    BY <1>14, <1>16, <2>1, <2>2
<1>19. ASSUME NEW p \in Procs, Enter(p) \/ Mint(p) \/ Decide(p) \/ CutStore(p) PROVE Paid(c)'
  <2>1. /\ Within(p) /\ op[p].step \in {"lock", "decide", "cut"}
        /\ op'[p].step \in {"decide", "cut", "store"} \/ op'[p].ok = op[p].ok
    BY <1>1, <1>19, InsideSteps DEF Inside
  <2>2. op'[p].ok = op[p].ok /\ op[p].step = "decide" => ~op'[p].ok
    BY DEF ApprovalInv, Earned
  <2>3. p \notin Granting(c)'
    <3>1. op'[p].step \in {"decide", "cut", "store"} \/ (op[p].step = "decide" /\ op'[p].ok = op[p].ok)
      BY <1>1, <1>19, InsideSteps DEF Inside
    <3> QED
      BY <1>8, <2>2, <3>1
  <2> QED
    BY <1>2, <1>9, <1>11, <1>12, <2>1, <2>3 DEF Within
<1>20. ASSUME NEW p \in Procs, Release(p) PROVE Paid(c)'
  <2>1. /\ Within(p) /\ op[p].step = "leave"
        /\ \/ op'[p] = NoOp
           \/ op'[p].step = "answer" /\ op'[p].ok = op[p].ok /\ op'[p].s = op[p].s
    BY <1>1, <1>20, InsideSteps DEF Inside
  <2>2. Only(p) /\ UNCHANGED <<plan, dead, lost, launches>>
    BY <2>1 DEF Within
  <2>3. Granting(c)' \subseteq Granting(c)
    BY <1>7, <2>1, <2>2, NoOpType DEF Granting
  <2>4. Launched(c) \subseteq Launched(c)'
    BY <1>7, <1>9, <2>1, <2>2
  <2> QED
    BY <1>2, <1>6, <1>11, <2>2, <2>3, <2>4
\* The token is accepted: p may arm one plan.
<1>21. ASSUME NEW p \in Procs, WriteStore(p) PROVE Paid(c)'
  <2>1. /\ Within(p) /\ op[p].step = "store" /\ op'[p].step = "leave" /\ op'[p].ok = op[p].ok
        /\ op'[p].s = op[p].s /\ op'[p].cmd = op[p].cmd
    BY <1>1, <1>21, InsideSteps DEF Inside
  <2>2. Only(p) /\ UNCHANGED <<plan, dead, lost, launches>>
    BY <2>1 DEF Within
  <2>3. p \notin Launched(c)
    BY <1>9, <2>1
  <2>4. CASE op[p].cmd = "arm" /\ op[p].s.plan_hash = c
    <3>1. bound[op[p].token] = c
      BY <2>1, <2>4 DEF TokenInv, Shape, Entry
    <3>2. accepted'[c] = accepted[c] + 1
      BY <1>2, <1>21, <2>4, <3>1 DEF WriteStore
    <3>5. Cardinality(Granting(c)') <= Cardinality(Granting(c)) + 1
      BY <1>3, <1>7, <2>2, CardMore
    <3>6. Cardinality(Launched(c)) <= Cardinality(Launched(c)')
      BY <1>3, <1>7, <2>2, <2>3, CardSub
    <3> QED
      BY <1>2, <1>4, <1>11, <2>2, <3>2, <3>5, <3>6 DEF Paid
  <2>5. CASE ~(op[p].cmd = "arm" /\ op[p].s.plan_hash = c)
    <3>1. op[p].cmd = "issue" => ~op[p].ok
      BY <1>1 DEF Typed, About
    <3>2. op[p].cmd \in {"issue", "arm"}
      BY <1>21 DEF WriteStore
    <3>3. p \notin Granting(c)'
      BY <2>1, <2>5, <3>1, <3>2 DEF Granting
    <3> QED
      BY <1>2, <1>11, <1>12, <2>2, <2>3, <3>3
  <2> QED
    BY <2>4, <2>5
<1>35. ASSUME NEW p \in Procs, Ask(p) PROVE Paid(c)'
  <2>1. op' = [op EXCEPT ![p] = [NoOp EXCEPT !.cmd = "issue", !.step = "lock"]] /\ op[p] = NoOp
        /\ UNCHANGED <<plan, dead, lost, launches>>
    BY <1>35 DEF Ask, SetOp, Idle
  <2>2. Outside(p)
    BY <1>1, <1>35, OutsideSteps
  <2>3. op'[p].step = "lock"
    BY <1>2, <2>1 DEF NoOp
  <2>4. Only(p) /\ p \notin Granting(c)' /\ p \notin Launched(c)
    BY <1>8, <1>9, <2>1, <2>2, <2>3, NoOpType DEF Outside
  <2> QED
    BY <1>2, <1>11, <1>12, <2>1, <2>4
\* The operation ends with a write
<1>22. ASSUME NEW p \in Procs, NEW s \in StoredPlan, Writes(p, s)
       PROVE  /\ plan' = [plan EXCEPT ![op[p].id] = s] /\ Only(p) /\ p \notin Granting(c)'
              /\ lost' = (IF op[p].stale THEN lost + 1 ELSE lost) /\ lost' >= lost /\ dead' = dead
              /\ Granting(c)' \subseteq Granting(c) \ {p}
              /\ Fits(op[p])
  <2>1. /\ plan' = [plan EXCEPT ![op[p].id] = s] /\ op'[p] = NoOp /\ Only(p)
        /\ lost' = (IF op[p].stale THEN lost + 1 ELSE lost)
    BY <1>1, <1>22, WriteFacts DEF Writes
  <2>2. p \notin Granting(c)' /\ Granting(c)' \subseteq Granting(c) \ {p}
    BY <1>7, <1>8, <2>1, NoOpType
  <2>3. lost' >= lost
    BY <1>2, <2>1
  <2>4. Fits(op[p])
    BY <1>22, NoOpType DEF Writes, Copies
  <2> QED
    BY <1>22, <2>1, <2>2, <2>3, <2>4 DEF Writes
<1>23. ASSUME NEW p \in Procs, LaunchRefused(p) \/ WriteContainerEnd(p) \/ WriteEnd(p) PROVE Paid(c)'
  <2>1. PICK s \in StoredPlan : Writes(p, s) /\ s.lifecycle \in {"ready", "running", "over"}
    BY <1>1, <1>23, WriteSteps
  <2>2. p \notin Launched(c) /\ UNCHANGED launches
    BY <1>9, <1>23 DEF LaunchRefused, WriteContainerEnd, WriteEnd, Doing
  <2>3. ArmedFor(c)' \subseteq ArmedFor(c)
    BY <1>10, <1>22, <2>1
  <2> QED
    BY <1>12, <1>22, <2>1, <2>2, <2>3
\* The plan is armed: what p was answered is spent on it.
<1>24. ASSUME NEW p \in Procs, WriteArmed(p) PROVE Paid(c)'
  <2>1. PICK s \in StoredPlan :
          /\ Writes(p, s)
          /\ op[p].ok => s.approved_hash = op[p].s.plan_hash
          /\ ~op[p].ok => s.lifecycle = "ready"
    BY <1>1, <1>24, WriteSteps
  <2>2. op[p].step = "answer" /\ UNCHANGED launches /\ p \notin Launched(c)
    BY <1>9, <1>24 DEF WriteArmed, At
  <2>3. CASE op[p].ok /\ op[p].s.plan_hash = c
    <3>1. p \in Granting(c)
      BY <2>2, <2>3 DEF Granting
    <3>2. Cardinality(Granting(c)') + 1 <= Cardinality(Granting(c))
      BY <1>3, <1>22, <2>1, <3>1, CardLess
    <3>3. ArmedFor(c)' \subseteq ArmedFor(c) \cup {op[p].id}
      BY <1>10, <1>22, <2>1
    <3>4. Cardinality(ArmedFor(c)') <= Cardinality(ArmedFor(c)) + 1
      BY <1>3, <3>3, CardMore
    <3>5. Cardinality(Launched(c)) <= Cardinality(Launched(c)')
      BY <1>3, <1>7, <1>22, <2>1, <2>2, CardSub
    <3>6. lost' >= lost /\ dead' = dead
      BY <1>22, <2>1
    <3> QED
      BY <1>2, <1>4, <1>5, <2>2, <3>2, <3>4, <3>5, <3>6 DEF Paid
  <2>4. CASE ~(op[p].ok /\ op[p].s.plan_hash = c)
    <3>1. s.lifecycle # "armed" \/ s.approved_hash # c
      BY <2>1, <2>4
    <3>2. ArmedFor(c)' \subseteq ArmedFor(c)
      BY <1>10, <1>22, <2>1, <3>1
    <3> QED
      BY <1>12, <1>22, <2>1, <2>2, <3>2
  <2> QED
    BY <2>3, <2>4
\* A launched plan stops being armed, or the copy it was launched from was stale.
<1>25. ASSUME NEW p \in Procs, op[p].cmd = "launch", op[p].s.plan = c, Unchanged(op[p].s),
              NEW s \in StoredPlan, Writes(p, s), s.lifecycle # "armed"
       PROVE  Cardinality(ArmedFor(c)') + lost + 1 <= Cardinality(ArmedFor(c)) + lost'
  <2>1. /\ ArmedFor(c)' \subseteq ArmedFor(c) \ {op[p].id} /\ Fits(op[p])
        /\ lost' = IF op[p].stale THEN lost + 1 ELSE lost
    BY <1>10, <1>22, <1>25
  <2>2. CASE op[p].stale
    <3>1. Cardinality(ArmedFor(c)') <= Cardinality(ArmedFor(c))
      BY <1>3, <2>1, CardSub
    <3> QED
      BY <1>2, <1>4, <2>1, <2>2, <3>1
  <2>3. CASE ~op[p].stale
    <3>1. op[p].id \in ArmedFor(c)
      BY <1>25, <2>1, <2>3 DEF Fits, Same, Unchanged, ArmedFor
    <3>2. Cardinality(ArmedFor(c)') + 1 <= Cardinality(ArmedFor(c))
      BY <1>3, <2>1, <3>1, CardLess
    <3> QED
      BY <1>2, <1>4, <2>1, <2>3, <3>2
  <2> QED
    BY <2>2, <2>3
<1>26. ASSUME NEW p \in Procs, WriteRunning(p) PROVE Paid(c)'
  <2>1. PICK s \in StoredPlan : Writes(p, s) /\ s.lifecycle \in {"ready", "running", "over"}
    BY <1>1, <1>26, WriteSteps
  <2>2. op[p].cmd = "launch" /\ op[p].step = "write" /\ UNCHANGED launches /\ Unchanged(op[p].s)
    BY <1>26 DEF WriteRunning, Doing, ApprovalInv, Earned
  <2>3. CASE op[p].s.plan = c
    <3>1. Cardinality(ArmedFor(c)') + lost + 1 <= Cardinality(ArmedFor(c)) + lost'
      BY <1>25, <2>1, <2>2, <2>3
    <3>2. Only(p) /\ dead' = dead /\ Granting(c)' \subseteq Granting(c) \ {p}
      BY <1>22, <2>1
    <3>3. Cardinality(Launched(c)) <= Cardinality(Launched(c)') + 1
      BY <1>3, <1>7, <3>2, CardMore
    <3>4. Cardinality(Granting(c)') <= Cardinality(Granting(c))
      BY <1>3, <3>2, CardSub
    <3> QED
      BY <1>2, <1>4, <1>5, <2>2, <3>1, <3>2, <3>3, <3>4 DEF Paid
  <2>4. CASE op[p].s.plan # c
    <3>1. p \notin Launched(c)
      BY <2>4 DEF Launched
    <3>2. ArmedFor(c)' \subseteq ArmedFor(c)
      BY <1>10, <1>22, <2>1
    <3> QED
      BY <1>12, <1>22, <2>1, <2>2, <3>1, <3>2
  <2> QED
    BY <2>3, <2>4
<1>27. ASSUME NEW p \in Procs, LaunchContainer(p) PROVE Paid(c)'
  <2>1. PICK s \in StoredPlan : Writes(p, s) /\ s.lifecycle \in {"ready", "running", "over"}
    BY <1>1, <1>27, WriteSteps
  <2>2. /\ op[p].cmd = "launch" /\ op[p].step = "read" /\ Unchanged(op[p].s)
        /\ launches' = [launches EXCEPT ![op[p].s.plan] = launches[op[p].s.plan] + 1]
        /\ p \notin Launched(c)
    BY <1>9, <1>27 DEF LaunchContainer, Doing
  <2>3. CASE op[p].s.plan = c
    <3>1. Cardinality(ArmedFor(c)') + lost + 1 <= Cardinality(ArmedFor(c)) + lost'
      BY <1>25, <2>1, <2>2, <2>3
    <3>2. Only(p) /\ dead' = dead /\ Granting(c)' \subseteq Granting(c) \ {p}
      BY <1>22, <2>1
    <3>3. Cardinality(Launched(c)) <= Cardinality(Launched(c)')
      BY <1>3, <1>7, <2>2, <3>2, CardSub
    <3>4. Cardinality(Granting(c)') <= Cardinality(Granting(c))
      BY <1>3, <3>2, CardSub
    <3>5. launches'[c] = launches[c] + 1
      BY <1>2, <2>2, <2>3
    <3> QED
      BY <1>2, <1>4, <1>5, <3>1, <3>2, <3>3, <3>4, <3>5 DEF Paid
  <2>4. CASE op[p].s.plan # c
    <3>1. launches'[c] = launches[c]
      BY <1>2, <2>2, <2>4
    <3>2. ArmedFor(c)' \subseteq ArmedFor(c)
      BY <1>10, <1>22, <2>1
    <3> QED
      BY <1>12, <1>22, <2>1, <2>2, <3>1, <3>2
  <2> QED
    BY <2>3, <2>4
\* tailLane writes an armed plan back: over a newer one it is armed again.
<1>28. ASSUME NEW p \in Procs, WriteTail(p) PROVE Paid(c)'
  <2>1. PICK s \in StoredPlan :
          /\ Writes(p, s) /\ s.approved_hash = op[p].s.approved_hash
          /\ s.lifecycle = IF op[p].s.lifecycle = "running" THEN "over" ELSE op[p].s.lifecycle
    BY <1>1, <1>28, WriteSteps
  <2>2. UNCHANGED launches /\ p \notin Launched(c)
    BY <1>9, <1>28 DEF WriteTail, Doing
  <2>3. /\ plan' = [plan EXCEPT ![op[p].id] = s] /\ Only(p) /\ Fits(op[p]) /\ p \notin Granting(c)'
        /\ lost' = (IF op[p].stale THEN lost + 1 ELSE lost) /\ lost' >= lost /\ dead' = dead
        /\ Granting(c)' \subseteq Granting(c) \ {p}
    BY <1>22, <2>1
  <2>4. CASE op[p].stale
    <3>1. Cardinality(ArmedFor(c)') <= Cardinality(ArmedFor(c)) + 1
      BY <1>3, <1>10, <2>3, CardMore
    <3>2. Cardinality(Granting(c)') <= Cardinality(Granting(c))
      BY <1>3, <2>3, CardSub
    <3>3. Cardinality(Launched(c)) <= Cardinality(Launched(c)')
      BY <1>3, <1>7, <2>2, <2>3, CardSub
    <3> QED
      BY <1>2, <1>4, <1>5, <2>2, <2>3, <2>4, <3>1, <3>2, <3>3 DEF Paid
  <2>5. CASE ~op[p].stale
    <3>1. s.lifecycle = "armed" /\ s.approved_hash = c => op[p].id \in ArmedFor(c)
      BY <2>1, <2>3, <2>5 DEF Fits, Same, ArmedFor
    <3>2. ArmedFor(c)' \subseteq ArmedFor(c)
      BY <1>10, <2>3, <3>1
    <3> QED
      BY <1>12, <2>2, <2>3, <3>2
  <2> QED
    BY <2>4, <2>5
\* The harness is started: p owes the write.
<1>29. ASSUME NEW p \in Procs, SendKeys(p) PROVE Paid(c)'
  <2>1. /\ op' = [op EXCEPT ![p].step = "write"] /\ op[p].step = "spawned" /\ op[p].cmd = "launch"
        /\ UNCHANGED <<plan, dead, lost>>
        /\ \/ launches' = [launches EXCEPT ![op[p].s.plan] = launches[op[p].s.plan] + 1]
           \/ launches' = launches
    BY <1>29 DEF SendKeys, Doing
  <2>2. Only(p) /\ op'[p].step = "write" /\ op'[p].cmd = "launch" /\ op'[p].s = op[p].s
    BY <1>1, <2>1, StepFacts
  <2>3. p \notin Launched(c) /\ p \notin Granting(c)'
    BY <1>8, <1>9, <2>1, <2>2
  <2>4. CASE op[p].s.plan = c
    <3>1. p \in Launched(c)'
      BY <2>2, <2>4 DEF Launched
    <3>2. Cardinality(Launched(c)) + 1 <= Cardinality(Launched(c)')
      BY <1>3, <1>7, <2>2, <2>3, <3>1, CardLess
    <3>3. Cardinality(Granting(c)') <= Cardinality(Granting(c))
      BY <1>3, <1>7, <2>2, <2>3, CardSub
    <3>4. launches'[c] <= launches[c] + 1
      BY <1>2, <2>1, <2>4
    <3> QED
      BY <1>2, <1>4, <1>5, <1>11, <2>1, <3>2, <3>3, <3>4 DEF Paid
  <2>5. CASE op[p].s.plan # c
    <3>1. launches'[c] = launches[c]
      BY <1>2, <2>1, <2>5
    <3> QED
      BY <1>2, <1>11, <1>12, <2>1, <2>2, <2>3, <3>1
  <2> QED
    BY <2>4, <2>5
<1>30. ASSUME NEW p \in Procs, Die(p) PROVE Paid(c)'
  <2>1. /\ p \notin dead /\ dead' = dead \cup {p} /\ op' = [op EXCEPT ![p] = NoOp]
        /\ UNCHANGED <<plan, lost, launches>>
    BY <1>30 DEF Die, SetOp
  <2>2. op'[p] = NoOp /\ Only(p)
    BY <1>1, <2>1, SetOpFacts, NoOpType
  <2>3. p \notin Granting(c)'
    BY <1>8, <2>2, NoOpType
  <2>4. Cardinality(dead') = Cardinality(dead) + 1
    BY <1>3, <2>1, FS_AddElement
  <2>5. Cardinality(Granting(c)') <= Cardinality(Granting(c))
    BY <1>3, <1>7, <2>2, <2>3, CardSub
  <2>6. Cardinality(Launched(c)) <= Cardinality(Launched(c)') + 1
    BY <1>3, <1>7, <2>2, CardMore
  <2> QED
    BY <1>2, <1>4, <1>5, <1>11, <2>1, <2>4, <2>5, <2>6 DEF Paid
\* No operation is at work
<1>31. ASSUME UNCHANGED <<op, dead, lost, launches>>, ArmedFor(c)' \subseteq ArmedFor(c) PROVE Paid(c)'
  <2>1. Granting(c)' = Granting(c) /\ Launched(c)' = Launched(c)
    BY <1>31 DEF Granting, Launched
  <2> QED
    BY <1>2, <1>6, <1>31, <2>1
<1>32. ASSUME NEW p \in Procs, Create(p) PROVE Paid(c)'
  <2>1. PICK i \in Plans, d \in Contents :
          plan' = [plan EXCEPT ![i] = [NoPlan EXCEPT !.plan = d, !.plan_hash = d, !.lifecycle = "ready"]]
    BY <1>32 DEF Create
  <2>2. [NoPlan EXCEPT !.plan = d, !.plan_hash = d, !.lifecycle = "ready"].lifecycle # "armed"
    BY DEF NoPlan
  <2>3. ArmedFor(c)' \subseteq ArmedFor(c)
    BY <1>10, <2>1, <2>2
  <2> QED
    BY <1>31, <1>32, <2>3 DEF Create
<1>33. CASE Edit
  <2>1. PICK i \in Plans, d \in Edited : plan' = [plan EXCEPT ![i].plan = d]
    BY <1>33 DEF Edit
  <2>2. plan' = [plan EXCEPT ![i] = [plan[i] EXCEPT !.plan = d]] /\ plan[i] \in StoredPlan
    BY <1>2, <2>1
  <2>3. /\ [plan[i] EXCEPT !.plan = d].lifecycle = plan[i].lifecycle
        /\ [plan[i] EXCEPT !.plan = d].approved_hash = plan[i].approved_hash
    BY <2>2 DEF StoredPlan
  <2>4. ArmedFor(c)' \subseteq ArmedFor(c)
    BY <1>2, <2>2, <2>3 DEF ArmedFor
  <2> QED
    BY <1>31, <1>33, <2>4 DEF Edit
<1>34. CASE Expire \/ SessionEnds \/ UNCHANGED vars
  BY <1>11, <1>31, <1>34 DEF Expire, SessionEnds, vars
<1> QED
  BY <1>13, <1>15, <1>17, <1>18, <1>19, <1>20, <1>21, <1>23, <1>24, <1>26, <1>27, <1>28, <1>29, <1>30,
     <1>32, <1>33, <1>34, <1>35
     DEF Next, Approving, Launching, Watching

PaidInv == TokenInv /\ ApprovalInv /\ Copies /\ Finite /\ \A c \in Contents : Paid(c)

\* Every state pays for its launches, also while operations are under way.
THEOREM PaidInvariant == Spec => []PaidInv
<1>1. Init => PaidInv
  <2> SUFFICES ASSUME Init PROVE Copies /\ Finite /\ \A c \in Contents : Paid(c)
    BY InitTokens, InitApprovals DEF PaidInv
  <2>1. Copies
    BY DEF Init, Copies
  <2>2. /\ {i \in Plans : There(i)} = {} /\ dead = {}
        /\ {p \in Procs : op[p] # NoOp} = {}
    BY NoOpType DEF Init, There
  <2>3. Finite
    BY <2>2, FS_EmptySet DEF Finite
  <2>4. ASSUME NEW c \in Contents PROVE Paid(c)
    <3>1. ArmedFor(c) = {} /\ Granting(c) = {} /\ Launched(c) = {} /\ dead = {}
      BY NoOpType DEF Init, ArmedFor, Granting, Launched
    <3>2. launches[c] = 0 /\ lost = 0 /\ accepted[c] = 0
      BY DEF Init
    <3> QED
      BY <3>1, <3>2, FS_EmptySet DEF Paid
  <2> QED
    BY <2>1, <2>3, <2>4
<1>2. PaidInv /\ [Next]_vars => PaidInv'
  <2> SUFFICES ASSUME PaidInv, [Next]_vars PROVE PaidInv'
    OBVIOUS
  <2>1. TokenInv' /\ ApprovalInv' /\ Copies' /\ Finite'
    BY TokenNext, ApprovalNext, CopiesNext, FiniteNext DEF PaidInv, TokenInv, Shape
  <2>2. \A c \in Contents : Paid(c)'
    BY PaidNext DEF PaidInv
  <2> QED
    BY <2>1, <2>2 DEF PaidInv
<1> QED
  BY <1>1, <1>2, PTL DEF Spec

\* One approval is one launch: with no operation under way, each further launch of a
\* content than tokens were accepted for it is owed to a copy written over a newer plan or
\* to a process that died between launching and writing (dispatchPlan, dispatchContainerized, tailLane).
THEOREM LaunchesArePaidFor == Spec => []LaunchesPaidFor
<1>1. PaidInv => LaunchesPaidFor
  <2> SUFFICES ASSUME PaidInv, \A p \in Procs : op[p] = NoOp, NEW c \in Contents
               PROVE  launches[c] <= accepted[c] + lost + Cardinality(dead)
    BY DEF LaunchesPaidFor
  <2>1. Launched(c) = {} /\ Cardinality({}) = 0
    BY NoOpType, FS_EmptySet DEF Launched
  <2>2. /\ Cardinality(ArmedFor(c)) \in Nat /\ Cardinality(Granting(c)) \in Nat
        /\ Cardinality(dead) \in Nat
    BY CountsFinite, FS_CardinalityType DEF PaidInv
  <2>3. launches[c] \in Nat /\ lost \in Nat /\ accepted[c] \in Nat
    BY DEF PaidInv, TokenInv, Shape, Typed
  <2>4. Paid(c)
    BY DEF PaidInv
  <2> QED
    BY <2>1, <2>2, <2>3, <2>4 DEF Paid
<1> QED
  BY <1>1, PaidInvariant, PTL
=============================================================================
