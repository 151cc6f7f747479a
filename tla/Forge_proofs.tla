----------------------------- MODULE Forge_proofs -----------------------------
(***************************************************************************)
(* Proofs about Forge, for any number of rehearsals, any scripts and any   *)
(* caps: the types with the counters of the stage machine, one submission  *)
(* in flight, none opened after a nsfw outcome, a paid generation keeps    *)
(* its submission open, and the spend stays within the plan.  ForgeInv is  *)
(* what holds whoever is in the lock; Exclusive is what holds until two    *)
(* are in it at once.                                                      *)
(***************************************************************************)
EXTENDS Forge, TLAPS, SequenceTheorems, FiniteSetTheorems

-----------------------------------------------------------------------------
(* The stage machine on what the rehearsals step through *)

\* Where a rehearsal is when it steps, and what it still has to step through.
Plans == {
  <<"intake", <<"submitted", "passed">> >>, <<"pre_vetting", <<"passed">> >>,
  <<"probe", <<"completed", "passed">> >>, <<"probe", <<"failed">> >>, <<"probe", <<"nsfw">> >>,
  <<"probe_judging", <<"passed">> >>, <<"iterate", <<"revised">> >>,
  <<"full_render", <<"completed", "completed">> >>, <<"full_render", <<"failed">> >>,
  <<"full_render", <<"nsfw">> >>, <<"chain", <<"completed">> >>}

\* A stage and an event have one move.
LEMMA OneMove ==
  ASSUME NEW move \in Moves, NEW other \in Moves, move[1] = other[1], move[2] = other[2]
  PROVE  move = other
BY DEF Moves

LEMMA MoveTo ==
  ASSUME NEW move \in Moves
  PROVE  (CHOOSE m \in Moves : m[1] = move[1] /\ m[2] = move[2])[3] = move[3]
<1> DEFINE c == CHOOSE m \in Moves : m[1] = move[1] /\ m[2] = move[2]
<1>1. c \in Moves /\ c[1] = move[1] /\ c[2] = move[2]
  OBVIOUS
<1> HIDE DEF c
<1>2. c = move
  BY <1>1, OneMove
<1> QED
  BY <1>2 DEF c

\* Where the moves of the plans lead.
LEMMA Leads ==
  \A s, e : LET to == LeadsTo(s, e) IN
    /\ s = "intake" /\ e = "submitted" => to = "pre_vetting"
    /\ s = "pre_vetting" /\ e = "passed" => to = "probe"
    /\ s = "probe" /\ e = "completed" => to = "probe_judging"
    /\ s = "probe" /\ e = "failed" => to = "iterate"
    /\ s = "probe" /\ e = "nsfw" => to = "quarantined"
    /\ s = "probe_judging" /\ e = "passed" => to = "full_render"
    /\ s = "iterate" /\ e = "revised" => to = "probe"
    /\ s = "full_render" /\ e = "completed" => to = "chain"
    /\ s = "full_render" /\ e = "failed" => to = "iterate"
    /\ s = "full_render" /\ e = "nsfw" => to = "quarantined"
    /\ s = "chain" /\ e = "completed" => to = "done"
<1> SUFFICES ASSUME NEW s, NEW e, NEW to, <<s, e, to>> \in Moves
             PROVE  LeadsTo(s, e) = to
  BY DEF Moves
<1> DEFINE m == <<s, e, to>>
<1>1. m[1] = s /\ m[2] = e /\ m[3] = to
  OBVIOUS
<1> QED
  BY <1>1, MoveTo DEF LeadsTo

\* What is left of a plan after its first event.
Rest(stage, event) ==
  IF stage = "intake" \/ (stage = "probe" /\ event = "completed") THEN <<"passed">>
  ELSE IF stage = "full_render" /\ event = "completed" THEN <<"completed">>
  ELSE << >>

\* The events a rehearsal steps through at a stage.
Stepping(stage, event) ==
  \/ stage = "intake" /\ event = "submitted"
  \/ stage = "pre_vetting" /\ event = "passed"
  \/ stage = "probe" /\ event \in {"completed", "failed", "nsfw"}
  \/ stage = "probe_judging" /\ event = "passed"
  \/ stage = "iterate" /\ event = "revised"
  \/ stage = "full_render" /\ event \in {"completed", "failed", "nsfw"}
  \/ stage = "chain" /\ event = "completed"

LEMMA Rests ==
  ASSUME NEW plan \in Plans
  PROVE  /\ plan[2] \in Seq(Events) /\ plan[2] # << >>
         /\ plan = <<plan[1], plan[2]>>
         /\ Stepping(plan[1], Head(plan[2]))
         /\ Tail(plan[2]) = Rest(plan[1], Head(plan[2]))
<1>1. {"submitted", "passed", "completed", "failed", "nsfw", "revised"} \subseteq Events
  <2>1. /\ <<"intake", "submitted", "pre_vetting">> \in Moves
        /\ <<"pre_vetting", "passed", "probe">> \in Moves
        /\ <<"probe", "completed", "probe_judging">> \in Moves
        /\ <<"probe", "failed", "iterate">> \in Moves /\ <<"probe", "nsfw", "quarantined">> \in Moves
        /\ <<"iterate", "revised", "probe">> \in Moves
    BY DEF Moves
  <2>2. \A a, e, c : <<a, e, c>> \in Moves => e \in Events
    BY DEF Events
  <2> QED
    BY <2>1, <2>2
<1>2. ASSUME NEW e \in Events
      PROVE  <<e>> \in Seq(Events) /\ <<e>> # << >> /\ Head(<<e>>) = e /\ Tail(<<e>>) = << >>
  OBVIOUS
<1>3. ASSUME NEW e \in Events, NEW f \in Events
      PROVE  /\ <<e, f>> \in Seq(Events) /\ <<e, f>> # << >>
             /\ Head(<<e, f>>) = e /\ Tail(<<e, f>>) = <<f>>
  OBVIOUS
<1>4. plan = <<plan[1], plan[2]>>
  BY DEF Plans
<1>5. CASE plan = <<"intake", <<"submitted", "passed">> >>
  <2>1. plan[1] = "intake" /\ plan[2] = <<"submitted", "passed">>
    BY <1>5
  <2>2. /\ plan[2] \in Seq(Events) /\ plan[2] # << >>
        /\ Head(plan[2]) = "submitted" /\ Tail(plan[2]) = <<"passed">>
    BY <1>1, <1>3, <2>1
  <2>3. Stepping("intake", "submitted") /\ Rest("intake", "submitted") = <<"passed">>
    BY DEF Rest, Stepping
  <2> QED
    BY <1>4, <2>1, <2>2, <2>3
<1>6. CASE plan = <<"probe", <<"completed", "passed">> >>
  <2>1. plan[1] = "probe" /\ plan[2] = <<"completed", "passed">>
    BY <1>6
  <2>2. /\ plan[2] \in Seq(Events) /\ plan[2] # << >>
        /\ Head(plan[2]) = "completed" /\ Tail(plan[2]) = <<"passed">>
    BY <1>1, <1>3, <2>1
  <2>3. Stepping("probe", "completed") /\ Rest("probe", "completed") = <<"passed">>
    BY DEF Rest, Stepping
  <2> QED
    BY <1>4, <2>1, <2>2, <2>3
<1>7. CASE plan = <<"full_render", <<"completed", "completed">> >>
  <2>1. plan[1] = "full_render" /\ plan[2] = <<"completed", "completed">>
    BY <1>7
  <2>2. /\ plan[2] \in Seq(Events) /\ plan[2] # << >>
        /\ Head(plan[2]) = "completed" /\ Tail(plan[2]) = <<"completed">>
    BY <1>1, <1>3, <2>1
  <2>3. Stepping("full_render", "completed") /\ Rest("full_render", "completed") = <<"completed">>
    BY DEF Rest, Stepping
  <2> QED
    BY <1>4, <2>1, <2>2, <2>3
<1>8. CASE plan = <<"pre_vetting", <<"passed">> >>
  <2>1. plan[1] = "pre_vetting" /\ plan[2] = <<"passed">>
    BY <1>8
  <2>2. /\ plan[2] \in Seq(Events) /\ plan[2] # << >>
        /\ Head(plan[2]) = "passed" /\ Tail(plan[2]) = << >>
    BY <1>1, <1>2, <2>1
  <2>3. Stepping("pre_vetting", "passed") /\ Rest("pre_vetting", "passed") = << >>
    BY DEF Rest, Stepping
  <2> QED
    BY <1>4, <2>1, <2>2, <2>3
<1>9. CASE plan = <<"probe", <<"failed">> >>
  <2>1. plan[1] = "probe" /\ plan[2] = <<"failed">>
    BY <1>9
  <2>2. /\ plan[2] \in Seq(Events) /\ plan[2] # << >>
        /\ Head(plan[2]) = "failed" /\ Tail(plan[2]) = << >>
    BY <1>1, <1>2, <2>1
  <2>3. Stepping("probe", "failed") /\ Rest("probe", "failed") = << >>
    BY DEF Rest, Stepping
  <2> QED
    BY <1>4, <2>1, <2>2, <2>3
<1>10. CASE plan = <<"probe", <<"nsfw">> >>
  <2>1. plan[1] = "probe" /\ plan[2] = <<"nsfw">>
    BY <1>10
  <2>2. /\ plan[2] \in Seq(Events) /\ plan[2] # << >>
        /\ Head(plan[2]) = "nsfw" /\ Tail(plan[2]) = << >>
    BY <1>1, <1>2, <2>1
  <2>3. Stepping("probe", "nsfw") /\ Rest("probe", "nsfw") = << >>
    BY DEF Rest, Stepping
  <2> QED
    BY <1>4, <2>1, <2>2, <2>3
<1>11. CASE plan = <<"probe_judging", <<"passed">> >>
  <2>1. plan[1] = "probe_judging" /\ plan[2] = <<"passed">>
    BY <1>11
  <2>2. /\ plan[2] \in Seq(Events) /\ plan[2] # << >>
        /\ Head(plan[2]) = "passed" /\ Tail(plan[2]) = << >>
    BY <1>1, <1>2, <2>1
  <2>3. Stepping("probe_judging", "passed") /\ Rest("probe_judging", "passed") = << >>
    BY DEF Rest, Stepping
  <2> QED
    BY <1>4, <2>1, <2>2, <2>3
<1>12. CASE plan = <<"iterate", <<"revised">> >>
  <2>1. plan[1] = "iterate" /\ plan[2] = <<"revised">>
    BY <1>12
  <2>2. /\ plan[2] \in Seq(Events) /\ plan[2] # << >>
        /\ Head(plan[2]) = "revised" /\ Tail(plan[2]) = << >>
    BY <1>1, <1>2, <2>1
  <2>3. Stepping("iterate", "revised") /\ Rest("iterate", "revised") = << >>
    BY DEF Rest, Stepping
  <2> QED
    BY <1>4, <2>1, <2>2, <2>3
<1>13. CASE plan = <<"full_render", <<"failed">> >>
  <2>1. plan[1] = "full_render" /\ plan[2] = <<"failed">>
    BY <1>13
  <2>2. /\ plan[2] \in Seq(Events) /\ plan[2] # << >>
        /\ Head(plan[2]) = "failed" /\ Tail(plan[2]) = << >>
    BY <1>1, <1>2, <2>1
  <2>3. Stepping("full_render", "failed") /\ Rest("full_render", "failed") = << >>
    BY DEF Rest, Stepping
  <2> QED
    BY <1>4, <2>1, <2>2, <2>3
<1>14. CASE plan = <<"full_render", <<"nsfw">> >>
  <2>1. plan[1] = "full_render" /\ plan[2] = <<"nsfw">>
    BY <1>14
  <2>2. /\ plan[2] \in Seq(Events) /\ plan[2] # << >>
        /\ Head(plan[2]) = "nsfw" /\ Tail(plan[2]) = << >>
    BY <1>1, <1>2, <2>1
  <2>3. Stepping("full_render", "nsfw") /\ Rest("full_render", "nsfw") = << >>
    BY DEF Rest, Stepping
  <2> QED
    BY <1>4, <2>1, <2>2, <2>3
<1>15. CASE plan = <<"chain", <<"completed">> >>
  <2>1. plan[1] = "chain" /\ plan[2] = <<"completed">>
    BY <1>15
  <2>2. /\ plan[2] \in Seq(Events) /\ plan[2] # << >>
        /\ Head(plan[2]) = "completed" /\ Tail(plan[2]) = << >>
    BY <1>1, <1>2, <2>1
  <2>3. Stepping("chain", "completed") /\ Rest("chain", "completed") = << >>
    BY DEF Rest, Stepping
  <2> QED
    BY <1>4, <2>1, <2>2, <2>3
<1> QED
  BY <1>5, <1>6, <1>7, <1>8, <1>9, <1>10, <1>11, <1>12, <1>13, <1>14, <1>15 DEF Plans

LEMMA EnterFacts ==
  ASSUME NEW s \in PipelineState, s.iterations <= MaxIterations
  PROVE  LET t == EnterIterate(s) IN
         /\ t \in PipelineState /\ t.iterations <= MaxIterations
         /\ t.probe_attempts = s.probe_attempts
         /\ \/ t.stage = "escalate" /\ t.iterations = s.iterations
            \/ t.stage = "iterate" /\ t.iterations = s.iterations + 1
<1>1. s.iterations \in Nat /\ MaxIterations \in Nat
  BY ForgeAssumption DEF PipelineState
<1>2. CASE s.iterations >= MaxIterations
  <2>1. EnterIterate(s) = [s EXCEPT !.stage = "escalate"]
    BY <1>2 DEF EnterIterate
  <2> QED
    BY <2>1 DEF PipelineState, Stages
<1>3. CASE ~(s.iterations >= MaxIterations)
  <2>1. EnterIterate(s) = [s EXCEPT !.stage = "iterate", !.iterations = s.iterations + 1]
    BY <1>3 DEF EnterIterate
  <2>2. s.iterations + 1 \in Nat /\ s.iterations + 1 <= MaxIterations
    BY <1>1, <1>3
  <2> QED
    BY <2>1, <2>2 DEF PipelineState, Stages
<1> QED
  BY <1>2, <1>3

\* What a step of a plan makes of the state and of the plan.
LEMMA TransitionFacts ==
  ASSUME NEW s \in PipelineState, NEW todo, <<s.stage, todo>> \in Plans,
         s.iterations <= MaxIterations, s.probe_attempts <= MaxAttempts
  PROVE  LET t == Transition(s, Head(todo))
             rest == IF t.stage = "iterate" THEN <<"revised">> ELSE Tail(todo)
         IN
         /\ t \in PipelineState /\ t.iterations <= MaxIterations
         /\ t.probe_attempts <= MaxAttempts + 1
         /\ t.stage # "quarantined" => t.probe_attempts <= MaxAttempts
         /\ t.iterations \in {s.iterations, s.iterations + 1}
         /\ t.stage = "iterate" => t.iterations = s.iterations + 1
         /\ t.stage = "probe" => s.stage \in {"pre_vetting", "iterate"}
         /\ t.stage \in {"intake", "pre_vetting"} => s.stage = "intake"
         /\ rest \in Seq(Events)
         /\ rest # << >> => <<t.stage, rest>> \in Plans
         /\ rest # << >> /\ InFlight(t.stage) => InFlight(s.stage)
<1> DEFINE e == Head(todo)
           to == LeadsTo(s.stage, e)
           t == Transition(s, e)
           rest == IF t.stage = "iterate" THEN <<"revised">> ELSE Tail(todo)
           failed == [s EXCEPT !.probe_attempts = @ + 1]
<1>1. <<s.stage, todo>>[1] = s.stage /\ <<s.stage, todo>>[2] = todo
  OBVIOUS
<1>2. /\ Stepping(s.stage, e)
      /\ todo \in Seq(Events) /\ todo # << >>
      /\ Tail(todo) = Rest(s.stage, e)
  <2> DEFINE plan == <<s.stage, todo>>
  <2>1. plan \in Plans /\ plan[1] = s.stage /\ plan[2] = todo
    BY <1>1
  <2> HIDE DEF plan
  <2> QED
    BY <2>1, Rests
<1> HIDE DEF e
<1>3. /\ to \in Stages
      /\ to = "iterate" <=> s.stage \in {"probe", "full_render"} /\ e = "failed"
      /\ s.stage = "intake" => to = "pre_vetting"
      /\ s.stage = "pre_vetting" => to = "probe"
      /\ s.stage = "probe" /\ e = "completed" => to = "probe_judging"
      /\ s.stage = "probe" /\ e = "nsfw" => to = "quarantined"
      /\ s.stage = "probe_judging" => to = "full_render"
      /\ s.stage = "iterate" => to = "probe"
      /\ s.stage = "full_render" /\ e = "completed" => to = "chain"
      /\ s.stage = "full_render" /\ e = "nsfw" => to = "quarantined"
      /\ s.stage = "chain" => to = "done"
  <2>1. /\ s.stage = "intake" /\ e = "submitted" => to = "pre_vetting"
        /\ s.stage = "pre_vetting" /\ e = "passed" => to = "probe"
        /\ s.stage = "probe" /\ e = "completed" => to = "probe_judging"
        /\ s.stage = "probe" /\ e = "failed" => to = "iterate"
        /\ s.stage = "probe" /\ e = "nsfw" => to = "quarantined"
        /\ s.stage = "probe_judging" /\ e = "passed" => to = "full_render"
        /\ s.stage = "iterate" /\ e = "revised" => to = "probe"
        /\ s.stage = "full_render" /\ e = "completed" => to = "chain"
        /\ s.stage = "full_render" /\ e = "failed" => to = "iterate"
        /\ s.stage = "full_render" /\ e = "nsfw" => to = "quarantined"
        /\ s.stage = "chain" /\ e = "completed" => to = "done"
    BY Leads
  <2> HIDE DEF to
  <2> QED
    BY <1>2, <2>1 DEF Stages, Stepping
<1>4. t = IF to # "iterate" THEN [s EXCEPT !.stage = to]
          ELSE IF s.stage # "probe" THEN EnterIterate(s)
          ELSE IF s.probe_attempts >= MaxAttempts THEN [failed EXCEPT !.stage = "quarantined"]
          ELSE EnterIterate(failed)
  BY DEF Transition
<1>5. Tail(todo) \in Seq(Events) /\ <<"revised">> \in Seq(Events)
  <2>1. <<"iterate", <<"revised">> >> \in Plans /\ <<"iterate", <<"revised">> >>[2] = <<"revised">>
    BY DEF Plans
  <2> QED
    BY <1>2, <2>1, Rests, HeadTailProperties
<1> HIDE DEF to
<1>6. s.iterations \in Nat /\ s.probe_attempts \in Nat /\ MaxAttempts \in Nat /\ s.stage \in Stages
  BY ForgeAssumption DEF PipelineState
<1>7. CASE to # "iterate"
  <2>1. t = [s EXCEPT !.stage = to]
    BY <1>4, <1>7
  <2>2. /\ t \in PipelineState /\ t.stage = to
        /\ t.iterations = s.iterations /\ t.probe_attempts = s.probe_attempts
    BY <1>3, <2>1 DEF PipelineState
  <2>3. rest = Tail(todo)
    BY <1>7, <2>2
  <2> HIDE DEF rest, t
  <2>9. \/ rest = << >>
        \/ t.stage = "pre_vetting" /\ rest = <<"passed">>
        \/ t.stage = "probe_judging" /\ rest = <<"passed">> /\ s.stage = "probe"
        \/ t.stage = "chain" /\ rest = <<"completed">>
    BY <1>2, <1>3, <2>2, <2>3 DEF Rest, Stepping
  <2>4. rest # << >> => <<t.stage, rest>> \in Plans
    BY <2>9 DEF Plans
  <2>5. rest # << >> /\ InFlight(t.stage) => InFlight(s.stage)
    BY <2>9 DEF InFlight
  <2>6. t.stage = "probe" => s.stage \in {"pre_vetting", "iterate"}
    BY <1>2, <1>3, <2>2 DEF Stepping
  <2>7. t.stage \in {"intake", "pre_vetting"} => s.stage = "intake"
    BY <1>2, <1>3, <2>2 DEF Stepping
  <2> QED
    BY <1>5, <1>6, <1>7, <2>2, <2>3, <2>4, <2>5, <2>6, <2>7 DEF e, t, rest
<1>8. CASE to = "iterate"
  <2>1. s.stage \in {"probe", "full_render"} /\ e = "failed"
    BY <1>3, <1>8
  <2>2. /\ t \in PipelineState /\ t.iterations <= MaxIterations
        /\ t.probe_attempts <= MaxAttempts + 1
        /\ t.stage # "quarantined" => t.probe_attempts <= MaxAttempts
        /\ t.iterations \in {s.iterations, s.iterations + 1}
        /\ t.stage = "iterate" => t.iterations = s.iterations + 1
        /\ t.stage \in {"iterate", "escalate", "quarantined"}
    <3>4. /\ failed \in PipelineState /\ failed.iterations = s.iterations
          /\ failed.probe_attempts = s.probe_attempts + 1
      BY <1>6 DEF PipelineState
    <3> HIDE DEF failed
    <3>1. CASE s.stage # "probe"
      BY <1>4, <1>6, <1>8, <3>1, EnterFacts
    <3>2. CASE s.stage = "probe" /\ s.probe_attempts >= MaxAttempts
      <4>1. t = [failed EXCEPT !.stage = "quarantined"]
        BY <1>4, <1>8, <3>2
      <4> QED
        BY <1>6, <3>2, <3>4, <4>1 DEF PipelineState, Stages
    <3>3. CASE s.stage = "probe" /\ ~(s.probe_attempts >= MaxAttempts)
      <4>1. t = EnterIterate(failed)
        BY <1>4, <1>8, <3>3
      <4> QED
        BY <1>6, <3>3, <3>4, <4>1, EnterFacts
    <3> QED
      BY <3>1, <3>2, <3>3
  <2> HIDE DEF t
  <2>3. rest = IF t.stage = "iterate" THEN <<"revised">> ELSE << >>
    BY <1>2, <2>1 DEF Rest, Stepping
  <2>4. rest # << >> => <<t.stage, rest>> \in Plans
    BY <2>3 DEF Plans
  <2>5. ~InFlight(t.stage)
    BY <2>2 DEF InFlight
  <2>6. rest \in Seq(Events)
    BY <1>5
  <2> HIDE DEF rest
  <2> QED
    BY <2>2, <2>4, <2>5, <2>6 DEF e, t, rest
<1> QED
  BY <1>7, <1>8

-----------------------------------------------------------------------------
(* The inductive invariant *)

Rehearsal == [pc : PCs, st : PipelineState, todo : Seq(Events), closing : Nat, mine : Nat,
              paid : BOOLEAN, spent : Nat, probes : Nat, renders : Nat, hard_stopped : BOOLEAN]

Working(r) == r.pc \in {"step", "stage", "toxic", "close"}
Asking(r) == r.pc \in {"loop", "submit", "open", "start"}

\* Where rehearsal r is in the stage machine, with its counters: it has probed once
\* more than it has revised, or not yet.
Staged(r) ==
  /\ Working(r) => <<r.st.stage, r.todo>> \in Plans
  /\ Asking(r) => r.st.stage \in {"probe", "full_render"}
  /\ r.st.iterations <= MaxIterations
  /\ r.st.probe_attempts <= MaxAttempts + 1
  /\ r.st.stage # "quarantined" => r.st.probe_attempts <= MaxAttempts
  /\ r.probes <= r.st.iterations + 1
  /\ r.st.stage \in {"intake", "pre_vetting"} => r.probes = 0
  /\ r.st.stage = "iterate" => r.probes <= r.st.iterations
  /\ r.st.stage = "probe" /\ Asking(r) => r.probes <= r.st.iterations

\* It has spent within the plan, and what it is about to spend the gate allowed.
Afford(r) ==
  /\ r.spent <= script.max_spend
  /\ r.spent > 0 => r.spent <= script.balance
  /\ r.probes <= script.max_probe /\ r.renders <= script.max_render
  /\ r.pc \in {"submit", "open", "start"} => CanSpend(r)

\* Its submission: a generation in flight is paid, and closes only on its way out.
Funded(r) ==
  /\ r.mine \in 0..opened /\ r.closing \in 0..opened
  /\ ~shared /\ (r.paid \/ r.pc = "start") => r.mine \in opens
  /\ Working(r) /\ InFlight(r.st.stage) => r.paid
  /\ r.pc \in {"stage", "toxic", "close"} /\ r.closing # 0 =>
       /\ ~InFlight(Transition(r.st, Head(r.todo)).stage)
       /\ ~shared => r.closing = r.mine
  /\ r.pc = "close" => r.closing # 0

Numbered == opens \subseteq 1..opened

\* Two in the lock at once are of an orphaned one.
LockTyped ==
  /\ plock \in Drivers \cup {Nobody}
  /\ orphaned \in BOOLEAN /\ overlap \in BOOLEAN
  /\ overlap => orphaned

ForgeInv ==
  /\ run \in [Drivers -> Rehearsal]
  /\ opened \in Nat /\ script \in Scripts
  /\ nsfw \in BOOLEAN /\ toxic \in BOOLEAN /\ torn \in BOOLEAN /\ shared \in BOOLEAN
  /\ LockTyped
  /\ Numbered
  /\ \A d \in Drivers : Staged(run[d]) /\ Afford(run[d]) /\ Funded(run[d])
  /\ \A d, e \in Drivers : run[d].mine = run[e].mine /\ run[d].mine # 0 => d = e

LEMMA FreshFacts ==
  /\ Fresh \in Rehearsal /\ Fresh.pc = "out" /\ Fresh.st = Intake
  /\ Fresh.mine = 0 /\ Fresh.closing = 0 /\ Fresh.paid = FALSE
  /\ Fresh.spent = 0 /\ Fresh.probes = 0 /\ Fresh.renders = 0
  /\ Intake \in PipelineState /\ Intake.stage = "intake"
  /\ Intake.iterations = 0 /\ Intake.probe_attempts = 0
<1>1. << >> \in Seq(Events)
  BY EmptySeq
<1> QED
  BY <1>1 DEF Fresh, Rehearsal, Intake, PipelineState, Stages, PCs

LEMMA ScriptTypes ==
  ASSUME ForgeInv
  PROVE  /\ script.max_spend \in Nat /\ script.max_probe \in Nat /\ script.max_render \in Nat
         /\ script.balance \in Nat \cup {-1} /\ script.cost \in Nat
BY ForgeAssumption DEF ForgeInv

LEMMA InitForge == Init => ForgeInv
<1> SUFFICES ASSUME Init PROVE ForgeInv
  OBVIOUS
<1>1. \A d \in Drivers : run[d] = Fresh
  BY DEF Init
<1>2. run \in [Drivers -> Rehearsal]
  BY FreshFacts DEF Init
<1>3. script \in Scripts /\ script.max_spend \in Nat /\ script.max_probe \in Nat
      /\ script.max_render \in Nat
  BY ForgeAssumption DEF Init
<1>4. Staged(Fresh)
  BY FreshFacts, ForgeAssumption DEF Staged, Working, Asking
<1>5. Afford(Fresh)
  BY <1>3, FreshFacts DEF Afford
<1>6. opens = {} /\ opened = 0
  BY DEF Init
<1>7. Funded(Fresh)
  BY <1>6, FreshFacts DEF Funded, Working
<1>8. LockTyped
  BY Zenon DEF Init, LockTyped
<1>9. Numbered /\ opened \in Nat
  BY <1>6 DEF Numbered
<1>13. nsfw \in BOOLEAN /\ toxic \in BOOLEAN /\ torn \in BOOLEAN /\ shared \in BOOLEAN
  BY Zenon DEF Init
<1>10. \A d \in Drivers : Staged(run[d]) /\ Afford(run[d]) /\ Funded(run[d])
  BY <1>1, <1>4, <1>5, <1>7
<1>11. \A d, e \in Drivers : ~(run[d].mine = run[e].mine /\ run[d].mine # 0)
  BY <1>1, FreshFacts
<1> QED
  BY <1>2, <1>3, <1>8, <1>9, <1>10, <1>11, <1>13 DEF ForgeInv

\* Only rehearsal d moves, to s; what the others rely on stays.
LEMMA DriveKeeps ==
  ASSUME ForgeInv, NEW d \in Drivers, NEW s \in Rehearsal, run' = [run EXCEPT ![d] = s],
         UNCHANGED script,
         opened' \in Nat, opened <= opened',
         nsfw' \in BOOLEAN, toxic' \in BOOLEAN, torn' \in BOOLEAN, shared' \in BOOLEAN,
         shared => shared',
         Numbered', LockTyped',
         shared' \/ \A e \in Drivers \ {d} : run[e].mine \in opens => run[e].mine \in opens',
         s.mine \in {0, run[d].mine} \/ s.mine > opened,
         Staged(s), Afford(s), Funded(s)'
  PROVE  ForgeInv'
<1>1. \A e \in Drivers : run'[e] = IF e = d THEN s ELSE run[e]
  BY DEF ForgeInv
<1>2. run' \in [Drivers -> Rehearsal]
  BY DEF ForgeInv
<1>5. \A e \in Drivers : run[e].mine \in 0..opened
  BY DEF ForgeInv, Funded
<1>6. \A e, f \in Drivers : run'[e].mine = run'[f].mine /\ run'[e].mine # 0 => e = f
  BY <1>1, <1>5 DEF ForgeInv
<1>7. \A e \in Drivers : (Staged(run[e]))'
  BY <1>1 DEF ForgeInv, Staged, Working, Asking
<1>8. ASSUME NEW e \in Drivers PROVE (Afford(run[e]))'
  <2>1. PICK x : x = run'[e] /\ Afford(x)
    BY <1>1 DEF ForgeInv
  <2>2. CanSpend(x)' = CanSpend(x)
    BY DEF CanSpend, Affordable, BalanceShort, Unavailable
  <2>3. Afford(x)'
    BY <2>1, <2>2 DEF Afford
  <2> QED
    BY <2>1, <2>3 DEF Afford, CanSpend, Affordable, BalanceShort, Unavailable
<1>9. ASSUME NEW e \in Drivers PROVE (Funded(run[e]))'
  <2>1. CASE e = d
    BY <1>1, <2>1 DEF Funded
  <2>2. CASE e # d
    <3>1. Funded(run[e]) /\ run'[e] = run[e]
      BY <1>1, <2>2 DEF ForgeInv
    <3>2. opened \in Nat /\ shared \in BOOLEAN
      BY DEF ForgeInv
    <3> QED
      BY <2>2, <3>1, <3>2 DEF Funded, Working
  <2> QED
    BY <2>1, <2>2
<1> QED
  BY <1>2, <1>6, <1>7, <1>8, <1>9 DEF ForgeInv

\* Who enters a lock that is held enters one that is orphaned.
LEMMA EnterTyped ==
  ASSUME ForgeInv, MayEnter, Entered, plock' \in Drivers \cup {Nobody}
  PROVE  LockTyped'
<1>1. overlap \in BOOLEAN /\ orphaned \in BOOLEAN /\ (overlap => orphaned)
  BY DEF ForgeInv, LockTyped
<1>2. orphaned' = orphaned /\ overlap' = (overlap \/ plock # Nobody)
  BY DEF Entered
<1>3. overlap' \in BOOLEAN
  BY <1>2, Zenon
<1> QED
  BY <1>1, <1>2, <1>3 DEF MayEnter, LockTyped

\* What the invariant says of one rehearsal.
LEMMA OfOne ==
  ASSUME ForgeInv, NEW d \in Drivers
  PROVE  /\ run[d] \in Rehearsal /\ Staged(run[d]) /\ Afford(run[d]) /\ Funded(run[d])
         /\ opened \in Nat /\ Numbered /\ LockTyped /\ plock \in Drivers \cup {Nobody}
         /\ nsfw \in BOOLEAN /\ toxic \in BOOLEAN /\ torn \in BOOLEAN /\ shared \in BOOLEAN
BY DEF ForgeInv, LockTyped

\* A rehearsal that ends or dies.
LEMMA Halt ==
  ASSUME ForgeInv, NEW d \in Drivers, NEW s \in Rehearsal, run' = [run EXCEPT ![d] = s],
         s.pc \in {"ended", "dead"}, s.st = run[d].st, s.closing = run[d].closing,
         s.mine = run[d].mine, s.paid = run[d].paid, s.spent = run[d].spent,
         s.probes = run[d].probes, s.renders = run[d].renders,
         UNCHANGED <<opens, nsfw, toxic, opened, script, shared>>,
         torn' \in BOOLEAN, LockTyped'
  PROVE  ForgeInv'
<1>1. ~Working(s) /\ ~Asking(s)
  BY DEF Working, Asking
<1>2. Staged(s)
  BY <1>1, OfOne DEF Staged
<1>3. Afford(s)
  BY OfOne DEF Afford
<1>4. Funded(s)'
  BY <1>1, OfOne DEF Funded, Working
<1>5. /\ opened' \in Nat /\ opened <= opened'
      /\ nsfw' \in BOOLEAN /\ toxic' \in BOOLEAN /\ shared' \in BOOLEAN
      /\ Numbered'
  BY OfOne DEF Numbered
<1> QED
  BY <1>2, <1>3, <1>4, <1>5, DriveKeeps

\* A rehearsal whose pc alone changes.
LEMMA PcMoved ==
  ASSUME ForgeInv, NEW d \in Drivers, NEW q \in PCs, run' = [run EXCEPT ![d].pc = q]
  PROVE  \E s \in Rehearsal :
           /\ run' = [run EXCEPT ![d] = s] /\ s.pc = q
           /\ s.st = run[d].st /\ s.todo = run[d].todo /\ s.closing = run[d].closing
           /\ s.mine = run[d].mine /\ s.paid = run[d].paid /\ s.spent = run[d].spent
           /\ s.probes = run[d].probes /\ s.renders = run[d].renders
<1> DEFINE s == [run[d] EXCEPT !.pc = q]
<1>1. run' = [run EXCEPT ![d] = s]
  OBVIOUS
<1>2. /\ s \in Rehearsal /\ s.pc = q
      /\ s.st = run[d].st /\ s.todo = run[d].todo /\ s.closing = run[d].closing
      /\ s.mine = run[d].mine /\ s.paid = run[d].paid /\ s.spent = run[d].spent
      /\ s.probes = run[d].probes /\ s.renders = run[d].renders
  BY OfOne DEF Rehearsal
<1> HIDE DEF s
<1> QED
  BY <1>1, <1>2

LEMMA EndKeeps ==
  ASSUME ForgeInv, NEW d \in Drivers, NEW q \in {"ended", "dead"},
         run' = [run EXCEPT ![d].pc = q],
         UNCHANGED <<opens, nsfw, toxic, opened, script, shared>>,
         torn' \in BOOLEAN, LockTyped'
  PROVE  ForgeInv'
<1>1. q \in PCs
  BY DEF PCs
<1>2. PICK s \in Rehearsal :
        /\ run' = [run EXCEPT ![d] = s] /\ s.pc = q
        /\ s.st = run[d].st /\ s.todo = run[d].todo /\ s.closing = run[d].closing
        /\ s.mine = run[d].mine /\ s.paid = run[d].paid /\ s.spent = run[d].spent
        /\ s.probes = run[d].probes /\ s.renders = run[d].renders
  BY <1>1, PcMoved
<1> QED
  BY <1>2, Halt

-----------------------------------------------------------------------------
(* The steps *)

\* A rehearsal that goes on with the ledger as it is.
LEMMA GoesOn ==
  ASSUME ForgeInv, NEW d \in Drivers, NEW s \in Rehearsal, run' = [run EXCEPT ![d] = s],
         s.mine \in {0, run[d].mine},
         UNCHANGED ledger, LockTyped', shared' \in BOOLEAN, shared => shared',
         Staged(s), Afford(s), Funded(s)'
  PROVE  ForgeInv'
<1>1. /\ opened' \in Nat /\ opened <= opened' /\ UNCHANGED script
      /\ nsfw' \in BOOLEAN /\ toxic' \in BOOLEAN /\ torn' \in BOOLEAN
      /\ Numbered' /\ UNCHANGED <<opens, nsfw, toxic>>
  BY OfOne DEF Numbered, ledger
<1> QED
  BY <1>1, DriveKeeps

LEMMA LockStays == ASSUME ForgeInv, UNCHANGED lock PROVE LockTyped'
BY DEF ForgeInv, LockTyped, lock

LEMMA BeginKeeps == ASSUME ForgeInv, NEW d \in Drivers, Begin(d) PROVE ForgeInv'
<1> DEFINE todo == <<"submitted", "passed">>
           new == [Fresh EXCEPT !.pc = "step", !.todo = todo]
<1>1. <<"intake", todo>> \in Plans /\ <<"intake", todo>>[2] = todo
  BY DEF Plans
<1>2. todo \in Seq(Events)
  BY <1>1, Rests
<1> HIDE DEF todo
<1>3. /\ new \in Rehearsal /\ new.pc = "step" /\ new.todo = todo /\ new.st = Intake
      /\ new.mine = 0 /\ new.closing = 0 /\ new.paid = FALSE
      /\ new.spent = 0 /\ new.probes = 0 /\ new.renders = 0
  BY <1>2, FreshFacts DEF Rehearsal, PCs
<1>4. run' = [run EXCEPT ![d] = new]
  BY DEF Begin, todo
<1> HIDE DEF new
<1>5. PICK s \in Rehearsal :
        /\ run' = [run EXCEPT ![d] = s] /\ s.pc = "step" /\ s.todo = todo /\ s.st = Intake
        /\ s.mine = 0 /\ s.closing = 0 /\ s.paid = FALSE
        /\ s.spent = 0 /\ s.probes = 0 /\ s.renders = 0
  BY <1>3, <1>4
<1>6. run[d].pc = "out" /\ UNCHANGED <<ledger, shared>> /\ LockTyped'
  BY LockStays DEF Begin
<1>7. Staged(s)
  BY <1>1, <1>5, FreshFacts, ForgeAssumption DEF Staged, Working, Asking
<1>8. Afford(s)
  BY <1>5, ScriptTypes DEF Afford
<1>9. Funded(s)'
  BY <1>5, <1>6, FreshFacts, OfOne DEF Funded, Working, InFlight, ledger
<1>10. shared' \in BOOLEAN
  BY <1>6, OfOne
<1> QED
  BY <1>5, <1>6, <1>7, <1>8, <1>9, <1>10, GoesOn

LEMMA ScriptEndsKeeps == ASSUME ForgeInv, NEW d \in Drivers, ScriptEnds(d) PROVE ForgeInv'
<1>1. LockTyped'
  BY LockStays DEF ScriptEnds
<1>2. torn' \in BOOLEAN /\ UNCHANGED <<opens, nsfw, toxic, opened, script, shared>>
  BY OfOne DEF ScriptEnds, ledger
<1> QED
  BY <1>1, <1>2, EndKeeps DEF ScriptEnds, End, ledger

LEMMA RefusedKeeps == ASSUME ForgeInv, NEW d \in Drivers, Refused(d) PROVE ForgeInv'
<1> DEFINE s == [run[d] EXCEPT !.pc = "ended", !.hard_stopped = Affordable(run[d])]
<1>1. Affordable(run[d]) \in BOOLEAN
  BY Zenon DEF Affordable
<1>2. /\ s \in Rehearsal /\ s.pc = "ended"
      /\ s.st = run[d].st /\ s.closing = run[d].closing /\ s.mine = run[d].mine
      /\ s.paid = run[d].paid /\ s.spent = run[d].spent /\ s.probes = run[d].probes
      /\ s.renders = run[d].renders
  BY <1>1, OfOne DEF Rehearsal, PCs
<1>3. run' = [run EXCEPT ![d] = s]
  BY DEF Refused
<1> HIDE DEF s
<1>4. LockTyped'
  BY LockStays DEF Refused
<1>5. torn' \in BOOLEAN /\ UNCHANGED <<opens, nsfw, toxic, opened, script, shared>>
  BY OfOne DEF Refused, ledger
<1> QED
  BY <1>2, <1>3, <1>4, <1>5, Halt

LEMMA GateKeeps == ASSUME ForgeInv, NEW d \in Drivers, Gate(d) PROVE ForgeInv'
<1>1. "submit" \in PCs /\ run' = [run EXCEPT ![d].pc = "submit"]
  BY DEF Gate, PCs
<1>2. PICK s \in Rehearsal :
        /\ run' = [run EXCEPT ![d] = s] /\ s.pc = "submit"
        /\ s.st = run[d].st /\ s.todo = run[d].todo /\ s.closing = run[d].closing
        /\ s.mine = run[d].mine /\ s.paid = run[d].paid /\ s.spent = run[d].spent
        /\ s.probes = run[d].probes /\ s.renders = run[d].renders
  BY <1>1, PcMoved
<1>3. /\ run[d].pc = "loop" /\ CanSpend(run[d])
      /\ UNCHANGED ledger /\ shared' = shared /\ LockTyped'
  BY LockStays DEF Gate
<1>4. Staged(s)
  BY <1>2, <1>3, OfOne DEF Staged, Working, Asking
<1>5. Afford(s)
  BY <1>2, <1>3, OfOne DEF Afford, CanSpend, Affordable, BalanceShort
<1>6. Funded(s)'
  BY <1>2, <1>3, OfOne DEF Funded, Working, ledger
<1>7. shared' \in BOOLEAN
  BY <1>3, OfOne
<1> QED
  BY <1>1, <1>2, <1>3, <1>4, <1>5, <1>6, <1>7, GoesOn

LEMMA SubmitKeeps == ASSUME ForgeInv, NEW d \in Drivers, Submit(d) PROVE ForgeInv'
<1>1. run[d].pc = "submit" /\ UNCHANGED ledger
  BY DEF Submit
<1>2. plock' \in Drivers \cup {Nobody} /\ LockTyped'
  <2>1. plock' = Nobody \/ plock' = d
    BY DEF Submit
  <2> QED
    BY <2>1, EnterTyped DEF Submit
<1>3. CASE Toxic /\ End(d) /\ plock' = Nobody /\ UNCHANGED shared
  <2>1. UNCHANGED <<opens, nsfw, toxic, opened, script, shared>> /\ torn' \in BOOLEAN
    BY <1>1, <1>3, OfOne DEF ledger
  <2> QED
    BY <1>2, <1>3, <2>1, EndKeeps DEF End
<1>4. ASSUME NEW q \in {"open", "start"}, run' = [run EXCEPT ![d].pc = q],
             q = "open" => UNCHANGED shared,
             q = "start" => shared' = (shared \/ run[d].mine \notin opens)
      PROVE  ForgeInv'
  <2>1. q \in PCs
    BY DEF PCs
  <2>2. PICK s \in Rehearsal :
          /\ run' = [run EXCEPT ![d] = s] /\ s.pc = q
          /\ s.st = run[d].st /\ s.todo = run[d].todo /\ s.closing = run[d].closing
          /\ s.mine = run[d].mine /\ s.paid = run[d].paid /\ s.spent = run[d].spent
          /\ s.probes = run[d].probes /\ s.renders = run[d].renders
    BY <1>4, <2>1, PcMoved
  <2>3. Staged(s)
    BY <1>1, <2>2, OfOne DEF Staged, Working, Asking
  <2>4. Afford(s)
    BY <1>1, <2>2, OfOne DEF Afford, CanSpend, Affordable, BalanceShort
  <2>6. shared' \in BOOLEAN /\ (shared => shared')
    <3>1. CASE q = "open"
      BY <1>4, <3>1, OfOne
    <3>2. CASE q = "start"
      BY <1>4, <3>2, Zenon
    <3> QED
      BY <3>1, <3>2
  <2>5. Funded(s)'
    <3>1. ~shared' /\ (s.paid \/ s.pc = "start") => s.mine \in opens'
      BY <1>1, <1>4, <2>2, <2>6, OfOne DEF Funded, ledger
    <3> QED
      BY <1>1, <2>2, <3>1, OfOne DEF Funded, Working, ledger
  <2> QED
    BY <1>1, <1>2, <2>2, <2>3, <2>4, <2>5, <2>6, GoesOn
<1> QED
  BY <1>3, <1>4 DEF Submit

LEMMA OpenKeeps == ASSUME ForgeInv, NEW d \in Drivers, Open(d) PROVE ForgeInv'
<1> DEFINE new == [run[d] EXCEPT !.pc = "start", !.mine = opened + 1]
<1>0. /\ new \in Rehearsal /\ new.pc = "start"
      /\ new.st = run[d].st /\ new.todo = run[d].todo /\ new.closing = run[d].closing
      /\ new.mine = opened + 1
      /\ new.paid = run[d].paid /\ new.spent = run[d].spent
      /\ new.probes = run[d].probes /\ new.renders = run[d].renders
  <2>1. run[d] \in Rehearsal /\ opened + 1 \in Nat
    BY OfOne
  <2> QED
    BY <2>1 DEF Rehearsal, PCs
<1>1. run' = [run EXCEPT ![d] = new]
  BY DEF Open
<1> HIDE DEF new
<1>2. PICK s \in Rehearsal :
        /\ run' = [run EXCEPT ![d] = s] /\ s.pc = "start"
        /\ s.st = run[d].st /\ s.todo = run[d].todo /\ s.closing = run[d].closing
        /\ s.mine = opened + 1 /\ s.paid = run[d].paid /\ s.spent = run[d].spent
        /\ s.probes = run[d].probes /\ s.renders = run[d].renders
  BY <1>0, <1>1
<1>3. /\ run[d].pc = "open" /\ opened' = opened + 1 /\ opens' = opens \cup {opened + 1}
      /\ UNCHANGED <<nsfw, toxic, torn, script, shared>>
  BY DEF Open
<1>4. LockTyped'
  BY OfOne DEF Open, LockTyped
<1>5. opens \subseteq 1..opened /\ opened \in Nat
  BY OfOne DEF Numbered
<1>6. Staged(s)
  BY <1>2, <1>3, OfOne DEF Staged, Working, Asking
<1>7. Afford(s)
  BY <1>2, <1>3, OfOne DEF Afford, CanSpend, Affordable, BalanceShort
<1>8. Funded(s)'
  BY <1>2, <1>3, <1>5, OfOne DEF Funded, Working
<1>9. /\ Numbered' /\ opened' \in Nat /\ opened <= opened'
      /\ shared' \in BOOLEAN /\ (shared => shared')
      /\ nsfw' \in BOOLEAN /\ toxic' \in BOOLEAN /\ torn' \in BOOLEAN
      /\ s.mine > opened
  BY <1>2, <1>3, <1>5, OfOne DEF Numbered
<1> QED
  BY <1>2, <1>3, <1>4, <1>6, <1>7, <1>8, <1>9, DriveKeeps

LEMMA Pair == ASSUME NEW a, NEW b PROVE <<a>> \o <<b>> = <<a, b>>
<1> DEFINE S == {a, b}
           s == <<a>> \o <<b>>
           t == <<a, b>>
<1>1. <<a>> \in Seq(S) /\ <<b>> \in Seq(S) /\ t \in Seq(S) /\ Len(t) = 2
  OBVIOUS
<1>2. s \in Seq(S) /\ Len(s) = 2 /\ s[1] = a /\ s[2] = b
  BY <1>1, ConcatProperties
<1> HIDE DEF s
<1>3. Len(s) = Len(t) /\ \A i \in 1..Len(s) : s[i] = t[i]
  BY <1>1, <1>2
<1>4. s = t
  BY <1>1, <1>2, <1>3, SeqEqual
<1> QED
  BY <1>4 DEF s

\* What a generation may come to, as events to step through.
LEMMA Outcomes ==
  ASSUME NEW stage \in {"probe", "full_render"}, NEW outcome \in {"completed", "failed", "nsfw"}
  PROVE  LET then == IF outcome # "completed" THEN << >>
                     ELSE IF stage = "probe" THEN <<"passed">>
                     ELSE <<"completed">>
             todo == <<outcome>> \o then
         IN <<stage, todo>> \in Plans /\ todo \in Seq(Events)
<1> DEFINE then == IF outcome # "completed" THEN << >>
                   ELSE IF stage = "probe" THEN <<"passed">>
                   ELSE <<"completed">>
           todo == <<outcome>> \o then
<1>4. <<stage, todo>> \in Plans
  <2>1. CASE outcome # "completed"
    <3>1. todo = <<outcome>>
      BY <2>1
    <3> HIDE DEF todo, then
    <3> QED
      BY <2>1, <3>1 DEF Plans
  <2>2. CASE outcome = "completed" /\ stage = "probe"
    <3>0. then = <<"passed">>
      BY <2>2
    <3>1. todo = <<"completed">> \o <<"passed">>
      BY <2>2, <3>0
    <3>2. todo = <<"completed", "passed">>
      BY <3>1, Pair
    <3> HIDE DEF todo, then
    <3> QED
      BY <2>2, <3>2 DEF Plans
  <2>3. CASE outcome = "completed" /\ stage = "full_render"
    <3>0. then = <<"completed">>
      BY <2>3
    <3>1. todo = <<"completed">> \o <<"completed">>
      BY <2>3, <3>0
    <3>2. todo = <<"completed", "completed">>
      BY <3>1, Pair
    <3> HIDE DEF todo, then
    <3> QED
      BY <2>3, <3>2 DEF Plans
  <2> QED
    BY <2>1, <2>2, <2>3
<1> HIDE DEF todo
<1>5. PICK plan : plan = <<stage, todo>> /\ plan \in Plans /\ plan[2] = todo
  BY <1>4
<1>6. todo \in Seq(Events)
  BY <1>5, Rests
<1> QED
  BY <1>4, <1>6 DEF todo

\* What the spend of a generation leaves.
LEMMA Spends ==
  ASSUME ForgeInv, NEW d \in Drivers, CanSpend(run[d]), run[d].pc = "start"
  PROVE  LET r == ApplySpend(run[d]) IN
         /\ r \in Rehearsal /\ r.st = run[d].st /\ r.mine = run[d].mine
         /\ r.closing = run[d].closing
         /\ r.spent = run[d].spent + script.cost
         /\ r.probes = IF run[d].st.stage = "probe" THEN run[d].probes + 1 ELSE run[d].probes
         /\ r.renders = IF run[d].st.stage = "full_render" THEN run[d].renders + 1
                                                           ELSE run[d].renders
<1>1. run[d] \in Rehearsal /\ script.cost \in Nat
  BY OfOne, ScriptTypes
<1>2. /\ run[d].spent + script.cost \in Nat
      /\ (IF run[d].st.stage = "probe" THEN run[d].probes + 1 ELSE run[d].probes) \in Nat
      /\ (IF run[d].st.stage = "full_render" THEN run[d].renders + 1
                                             ELSE run[d].renders) \in Nat
  <2>1. run[d].spent \in Nat /\ run[d].probes \in Nat /\ run[d].renders \in Nat
    BY <1>1 DEF Rehearsal
  <2> QED
    BY <1>1, <2>1
<1> QED
  BY <1>1, <1>2 DEF Rehearsal, ApplySpend

LEMMA StartKeeps == ASSUME ForgeInv, NEW d \in Drivers, Start(d) PROVE ForgeInv'
<1>1. run[d].pc = "start" /\ UNCHANGED <<ledger, shared>> /\ LockTyped'
  BY LockStays DEF Start
<1>2. CanSpend(run[d]) /\ run[d].st.stage \in {"probe", "full_render"}
  BY <1>1, OfOne DEF Afford, Staged, Asking
<1>3. PICK outcome \in {"completed", "failed", "nsfw"} :
        LET then == IF outcome # "completed" THEN << >>
                    ELSE IF run[d].st.stage = "probe" THEN <<"passed">>
                    ELSE <<"completed">>
        IN run' = [run EXCEPT ![d] = [ApplySpend(run[d]) EXCEPT
                     !.pc = "step", !.paid = TRUE, !.todo = <<outcome>> \o then]]
  BY DEF Start
<1>4. PICK todo \in Seq(Events) :
        /\ <<run[d].st.stage, todo>> \in Plans
        /\ run' = [run EXCEPT ![d] = [ApplySpend(run[d]) EXCEPT
                     !.pc = "step", !.paid = TRUE, !.todo = todo]]
  <2> DEFINE then == IF outcome # "completed" THEN << >>
                     ELSE IF run[d].st.stage = "probe" THEN <<"passed">>
                     ELSE <<"completed">>
             todo == <<outcome>> \o then
  <2>1. <<run[d].st.stage, todo>> \in Plans /\ todo \in Seq(Events)
    BY <1>2, Outcomes
  <2>2. run' = [run EXCEPT ![d] = [ApplySpend(run[d]) EXCEPT
                  !.pc = "step", !.paid = TRUE, !.todo = todo]]
    BY <1>3
  <2> HIDE DEF todo
  <2> QED
    BY <2>1, <2>2
<1> DEFINE new == [ApplySpend(run[d]) EXCEPT !.pc = "step", !.paid = TRUE, !.todo = todo]
           probed == run[d].st.stage = "probe"
           rendered == run[d].st.stage = "full_render"
<1>5. /\ new \in Rehearsal /\ new.pc = "step" /\ new.paid = TRUE /\ new.todo = todo
      /\ new.st = run[d].st /\ new.mine = run[d].mine /\ new.closing = run[d].closing
      /\ new.spent = run[d].spent + script.cost
      /\ new.probes = IF probed THEN run[d].probes + 1 ELSE run[d].probes
      /\ new.renders = IF rendered THEN run[d].renders + 1 ELSE run[d].renders
  <2> DEFINE r == ApplySpend(run[d])
  <2>1. /\ r \in Rehearsal /\ r.st = run[d].st /\ r.mine = run[d].mine
        /\ r.closing = run[d].closing
        /\ r.spent = run[d].spent + script.cost
        /\ r.probes = IF probed THEN run[d].probes + 1 ELSE run[d].probes
        /\ r.renders = IF rendered THEN run[d].renders + 1 ELSE run[d].renders
    BY <1>1, <1>2, Spends
  <2> HIDE DEF r
  <2>2. new = [r EXCEPT !.pc = "step", !.paid = TRUE, !.todo = todo]
    BY DEF r
  <2> HIDE DEF new, probed, rendered
  <2> QED
    BY <2>1, <2>2 DEF Rehearsal, PCs
<1> HIDE DEF new
<1>6. PICK s \in Rehearsal :
        /\ run' = [run EXCEPT ![d] = s] /\ s.pc = "step" /\ s.paid = TRUE /\ s.todo = todo
        /\ s.st = run[d].st /\ s.mine = run[d].mine /\ s.closing = run[d].closing
        /\ s.spent = run[d].spent + script.cost
        /\ s.probes = IF probed THEN run[d].probes + 1 ELSE run[d].probes
        /\ s.renders = IF rendered THEN run[d].renders + 1 ELSE run[d].renders
  BY <1>4, <1>5 DEF new
<1>7. /\ run[d].spent \in Nat /\ run[d].probes \in Nat /\ run[d].renders \in Nat
      /\ run[d].st.iterations \in Nat
  <2>1. run[d] \in Rehearsal
    BY OfOne
  <2> QED
    BY <2>1 DEF Rehearsal, PipelineState
<1>8. Staged(s)
  <2>1. Working(s) /\ ~Asking(s) /\ Asking(run[d])
    BY <1>1, <1>6 DEF Working, Asking
  <2>2. s.probes <= s.st.iterations + 1
    <3>1. /\ run[d].probes <= run[d].st.iterations + 1
          /\ probed => run[d].probes <= run[d].st.iterations
      BY <2>1, OfOne DEF Staged
    <3> HIDE DEF probed
    <3> QED
      BY <1>6, <1>7, <3>1
  <2>3. /\ <<s.st.stage, s.todo>> \in Plans
        /\ s.st.iterations <= MaxIterations
        /\ s.st.probe_attempts <= MaxAttempts + 1
        /\ s.st.stage # "quarantined" => s.st.probe_attempts <= MaxAttempts
    <3>1. /\ run[d].st.iterations <= MaxIterations
          /\ run[d].st.probe_attempts <= MaxAttempts + 1
          /\ run[d].st.stage # "quarantined" => run[d].st.probe_attempts <= MaxAttempts
      BY OfOne DEF Staged
    <3>2. s.st = run[d].st /\ s.todo = todo
      BY <1>6
    <3> QED
      BY <1>4, <3>1, <3>2
  <2>4. s.st.stage \notin {"intake", "pre_vetting", "iterate"}
    BY <1>2, <1>6
  <2> QED
    BY <2>1, <2>2, <2>3, <2>4 DEF Staged
<1>9. Afford(s)
  <2>1. /\ run[d].spent + script.cost <= script.max_spend
        /\ probed => run[d].probes < script.max_probe
        /\ rendered => run[d].renders < script.max_render
        /\ script.balance # -1 /\ ~(script.balance < script.cost + run[d].spent)
    BY <1>2 DEF CanSpend, Affordable, BalanceShort, Unavailable
  <2>2. /\ run[d].probes <= script.max_probe /\ run[d].renders <= script.max_render
    BY OfOne DEF Afford
  <2> HIDE DEF probed, rendered
  <2>3. /\ s.spent <= script.max_spend /\ s.spent <= script.balance
        /\ s.probes <= script.max_probe /\ s.renders <= script.max_render
    <3>1. /\ script.max_spend \in Nat /\ script.max_probe \in Nat
          /\ script.max_render \in Nat /\ script.cost \in Nat
      BY ScriptTypes
    <3>2. script.balance \in Nat
      BY <2>1, ScriptTypes
    <3>3. s.spent <= script.max_spend /\ s.spent <= script.balance
      BY <1>6, <1>7, <2>1, <3>1, <3>2
    <3>4. s.probes <= script.max_probe
      BY <1>6, <1>7, <2>1, <2>2, <3>1
    <3>5. s.renders <= script.max_render
      BY <1>6, <1>7, <2>1, <2>2, <3>1
    <3> QED
      BY <3>3, <3>4, <3>5
  <2> QED
    BY <1>6, <2>3 DEF Afford
<1>10. Funded(s)'
  BY <1>1, <1>6, OfOne DEF Funded, Working, ledger
<1>11. shared' \in BOOLEAN
  BY <1>1, OfOne
<1> QED
  BY <1>1, <1>6, <1>8, <1>9, <1>10, <1>11, GoesOn

LEMMA StepKeeps == ASSUME ForgeInv, NEW d \in Drivers, Step(d) PROVE ForgeInv'
<1> DEFINE exits == InFlight(run[d].st.stage) /\ ~InFlight(Target(d).stage)
           closes == IF exits /\ opens # {} THEN CHOOSE o \in opens : TRUE ELSE 0
           new == [run[d] EXCEPT !.pc = "stage", !.closing = closes]
<1>0. run[d].pc = "step" /\ UNCHANGED <<ledger, shared>> /\ LockTyped'
  <2>1. plock' = Nobody \/ plock' = d
    BY DEF Step
  <2> QED
    BY <2>1, EnterTyped DEF Step
<1>14. CASE exits /\ Several /\ End(d) /\ plock' = Nobody
  <2>1. torn' \in BOOLEAN /\ UNCHANGED <<opens, nsfw, toxic, opened, script, shared>>
    BY <1>0, OfOne DEF ledger
  <2>2. run' = [run EXCEPT ![d].pc = "ended"]
    BY <1>14 DEF End
  <2> QED
    BY <1>0, <2>1, <2>2, EndKeeps
<1>15. SUFFICES ASSUME ~(exits /\ Several), run' = [run EXCEPT ![d].pc = "stage", ![d].closing = closes]
               PROVE  ForgeInv'
  BY <1>14 DEF Step
<1>1. run' = [run EXCEPT ![d] = new]
  <2> HIDE DEF closes
  <2> QED
    BY <1>15 DEF new
<1>2. /\ closes # 0 => closes \in opens
      /\ closes # 0 => InFlight(run[d].st.stage) /\ ~InFlight(Target(d).stage)
  OBVIOUS
<1>3. opens \subseteq 1..opened /\ opened \in Nat
  BY OfOne DEF Numbered
<1>16. closes # 0 => \A o \in opens : o = closes
  BY <1>2, <1>15 DEF Several
<1> HIDE DEF closes, exits
<1>4. closes \in 0..opened /\ closes \in Nat
  <2>1. CASE closes = 0
    BY <1>3, <2>1
  <2>2. CASE closes # 0
    <3>1. closes \in 1..opened
      BY <1>2, <1>3, <2>2
    <3> QED
      BY <1>3, <3>1
  <2> QED
    BY <2>1, <2>2
<1>5. /\ new \in Rehearsal /\ new.pc = "stage" /\ new.closing = closes
      /\ new.st = run[d].st /\ new.todo = run[d].todo
      /\ new.mine = run[d].mine /\ new.paid = run[d].paid /\ new.spent = run[d].spent
      /\ new.probes = run[d].probes /\ new.renders = run[d].renders
  BY <1>4, OfOne DEF Rehearsal, PCs
<1> HIDE DEF new
<1>6. PICK s \in Rehearsal :
        /\ run' = [run EXCEPT ![d] = s] /\ s.pc = "stage" /\ s.closing = closes
        /\ s.st = run[d].st /\ s.todo = run[d].todo
        /\ s.mine = run[d].mine /\ s.paid = run[d].paid /\ s.spent = run[d].spent
        /\ s.probes = run[d].probes /\ s.renders = run[d].renders
  BY <1>1, <1>5
<1>7. Staged(s)
  BY <1>0, <1>6, OfOne DEF Staged, Working, Asking
<1>8. Afford(s)
  BY <1>0, <1>6, OfOne DEF Afford
<1>9. closes # 0 => /\ ~InFlight(Transition(run[d].st, Head(run[d].todo)).stage)
                    /\ ~shared => closes = run[d].mine
  <2>1. SUFFICES ASSUME closes # 0
                 PROVE  /\ ~InFlight(Transition(run[d].st, Head(run[d].todo)).stage)
                        /\ ~shared => closes = run[d].mine
    OBVIOUS
  <2>2. closes \in opens /\ InFlight(run[d].st.stage) /\ ~InFlight(Target(d).stage)
    BY <1>2, <2>1
  <2>3. run[d].paid
    BY <1>0, <2>2, OfOne DEF Funded, Working
  <2>4. ~shared => run[d].mine \in opens
    BY <2>3, OfOne DEF Funded
  <2> QED
    BY <1>16, <2>1, <2>2, <2>4 DEF Target
<1>10. Funded(s)
  BY <1>0, <1>4, <1>6, <1>9, OfOne DEF Funded, Working
<1>11. Funded(s)'
  BY <1>0, <1>10 DEF Funded, ledger
<1>12. shared' \in BOOLEAN /\ (shared => shared')
  BY <1>0, OfOne
<1> QED
  BY <1>0, <1>6, <1>7, <1>8, <1>11, <1>12, GoesOn

-----------------------------------------------------------------------------
(* The records of a step *)

\* The rehearsal once its step is recorded.
LEMMA Landing ==
  ASSUME ForgeInv, NEW d \in Drivers, Working(run[d])
  PROVE  LET s == Landed(run[d], Target(d)) IN
         /\ s \in Rehearsal /\ s.pc \in {"step", "loop", "ended"}
         /\ s.mine = run[d].mine /\ s.closing = 0
         /\ s.paid => run[d].paid /\ InFlight(Target(d).stage)
         /\ Working(s) /\ InFlight(s.st.stage) => s.paid
         /\ Staged(s) /\ Afford(s)
<1> DEFINE r == run[d]
           t == Target(d)
           rest == IF t.stage = "iterate" THEN <<"revised">> ELSE Tail(r.todo)
           paid == r.paid /\ t.stage \in {"probe", "probe_judging", "full_render"}
           pc == IF rest # << >> THEN "step"
                 ELSE IF t.stage \in {"probe", "full_render"} THEN "loop"
                 ELSE "ended"
           s == Landed(r, t)
<1>1. /\ r \in Rehearsal /\ <<r.st.stage, r.todo>> \in Plans /\ r.st \in PipelineState
      /\ r.st.iterations <= MaxIterations /\ r.st.probe_attempts <= MaxAttempts
      /\ r.probes \in Nat /\ r.st.iterations \in Nat
  <2>1. /\ r \in Rehearsal /\ <<r.st.stage, r.todo>> \in Plans /\ r.st \in PipelineState
        /\ r.st.iterations <= MaxIterations /\ r.probes \in Nat
        /\ r.st.stage # "quarantined" => r.st.probe_attempts <= MaxAttempts
    BY OfOne DEF Staged, Rehearsal
  <2>2. r.st.stage # "quarantined"
    BY <2>1 DEF Plans
  <2> QED
    BY <2>1, <2>2 DEF PipelineState
<1>2. t = Transition(r.st, Head(r.todo))
  BY DEF Target
<1> HIDE DEF t
<1>3. /\ t \in PipelineState /\ t.iterations <= MaxIterations
      /\ t.probe_attempts <= MaxAttempts + 1
      /\ t.stage # "quarantined" => t.probe_attempts <= MaxAttempts
      /\ t.iterations \in {r.st.iterations, r.st.iterations + 1}
      /\ t.stage = "iterate" => t.iterations = r.st.iterations + 1
      /\ t.stage = "probe" => r.st.stage \in {"pre_vetting", "iterate"}
      /\ t.stage \in {"intake", "pre_vetting"} => r.st.stage = "intake"
      /\ rest \in Seq(Events)
      /\ rest # << >> => <<t.stage, rest>> \in Plans
      /\ rest # << >> /\ InFlight(t.stage) => InFlight(r.st.stage)
  <2> HIDE DEF r
  <2> QED
    BY <1>1, <1>2, TransitionFacts
<1>4. s = [r EXCEPT !.st = t, !.todo = rest, !.closing = 0, !.paid = paid, !.pc = pc]
  BY DEF Landed
<1>5. pc \in {"step", "loop", "ended"} /\ paid \in BOOLEAN
  <2>1. r.paid \in BOOLEAN
    BY <1>1 DEF Rehearsal
  <2> QED
    BY <2>1
<1> HIDE DEF r, rest, pc, paid, s
<1>6. /\ s \in Rehearsal /\ s.st = t /\ s.todo = rest /\ s.closing = 0 /\ s.paid = paid
      /\ s.pc = pc /\ s.mine = r.mine /\ s.spent = r.spent /\ s.probes = r.probes
      /\ s.renders = r.renders
  BY <1>1, <1>3, <1>4, <1>5 DEF Rehearsal, PCs
<1>7. /\ Working(s) => rest # << >>
      /\ Asking(s) => t.stage \in {"probe", "full_render"}
  BY <1>6 DEF pc, Working, Asking
<1>8. /\ r.probes <= r.st.iterations + 1
      /\ r.st.stage \in {"intake", "pre_vetting"} => r.probes = 0
      /\ r.st.stage = "iterate" => r.probes <= r.st.iterations
  BY OfOne DEF r, Staged
<1>9. Staged(s)
  <2>1. r.probes \in Nat /\ r.st.iterations \in Nat /\ t.iterations \in Nat
    BY <1>1, <1>3 DEF PipelineState
  <2>2. r.probes <= t.iterations + 1
    BY <1>3, <1>8, <2>1
  <2>3. t.stage = "iterate" => r.probes <= t.iterations
    BY <1>3, <1>8, <2>1
  <2>4. t.stage \in {"intake", "pre_vetting"} => r.probes = 0
    BY <1>3, <1>8
  <2>5. t.stage = "probe" => r.probes <= t.iterations
    BY <1>3, <1>8, <2>1
  <2> QED
    BY <1>3, <1>6, <1>7, <2>2, <2>3, <2>4, <2>5 DEF Staged
<1>10. Afford(s)
  BY <1>5, <1>6, OfOne DEF Afford, r
<1>11. s.paid => r.paid /\ InFlight(t.stage)
  BY <1>6 DEF paid, InFlight
<1>12. Working(s) /\ InFlight(s.st.stage) => s.paid
  <2>1. InFlight(r.st.stage) => r.paid
    BY OfOne DEF r, Funded
  <2> QED
    BY <1>3, <1>6, <1>7, <2>1 DEF paid, InFlight
<1> QED
  BY <1>5, <1>6, <1>9, <1>10, <1>11, <1>12 DEF r, s, t

\* The step is over: the rehearsal lands, with its submission as Funded says.
LEMMA LandKeeps ==
  ASSUME ForgeInv, NEW d \in Drivers, run[d].pc \in {"stage", "toxic", "close"},
         run' = [run EXCEPT ![d] = Landed(run[d], Target(d))], LockTyped',
         UNCHANGED <<torn, opened, script, shared>>, nsfw' \in BOOLEAN, toxic' \in BOOLEAN,
         \/ run[d].closing # 0 /\ opens' = opens \ {run[d].closing}
         \/ run[d].closing = 0 /\ opens' = opens
  PROVE  ForgeInv'
<1>1. Working(run[d])
  BY DEF Working
<1>2. PICK s \in Rehearsal :
        /\ run' = [run EXCEPT ![d] = s] /\ s.pc \in {"step", "loop", "ended"}
        /\ s.mine = run[d].mine /\ s.closing = 0
        /\ s.paid => run[d].paid /\ InFlight(Target(d).stage)
        /\ Working(s) /\ InFlight(s.st.stage) => s.paid
        /\ Staged(s) /\ Afford(s)
  <2>1. PICK s : s = Landed(run[d], Target(d))
    OBVIOUS
  <2>2. /\ s \in Rehearsal /\ s.pc \in {"step", "loop", "ended"}
        /\ s.mine = run[d].mine /\ s.closing = 0
        /\ s.paid => run[d].paid /\ InFlight(Target(d).stage)
        /\ Working(s) /\ InFlight(s.st.stage) => s.paid
        /\ Staged(s) /\ Afford(s)
    BY <1>1, <2>1, Landing
  <2> QED
    BY <2>1, <2>2
<1>4. /\ run[d].closing # 0 => /\ ~InFlight(Target(d).stage)
                               /\ ~shared => run[d].closing = run[d].mine
      /\ run[d].mine \in 0..opened
      /\ ~shared /\ run[d].paid => run[d].mine \in opens
  BY OfOne DEF Funded, Target
<1>5. Funded(s)'
  <2>1. s.mine \in 0..opened' /\ s.closing \in 0..opened'
    BY <1>2, <1>4, OfOne
  <2>2. ~shared' /\ s.paid => s.mine \in opens'
    BY <1>2, <1>4
  <2>3. s.pc \notin {"start", "stage", "toxic", "close", "open"}
    BY <1>2
  <2>4. Working(s) /\ InFlight(s.st.stage) => s.paid
    BY <1>2
  <2> QED
    BY <2>1, <2>2, <2>3, <2>4 DEF Funded, Working
<1>6. shared' \/ \A e \in Drivers \ {d} : run[e].mine \in opens => run[e].mine \in opens'
  <2>1. SUFFICES ASSUME ~shared, NEW e \in Drivers \ {d}, run[e].mine \in opens
                 PROVE  run[e].mine \in opens'
    OBVIOUS
  <2>2. run[d].mine = run[e].mine /\ run[d].mine # 0 => d = e
    BY DEF ForgeInv
  <2> QED
    BY <1>4, <2>1, <2>2
<1>7. Numbered'
  BY OfOne DEF Numbered
<1>8. /\ opened' \in Nat /\ opened <= opened' /\ torn' \in BOOLEAN /\ shared' \in BOOLEAN
      /\ (shared => shared')
  BY OfOne
<1> QED
  BY <1>2, <1>5, <1>6, <1>7, <1>8, DriveKeeps

\* A further record of the step is to come.
LEMMA RecordsOn ==
  ASSUME ForgeInv, NEW d \in Drivers, run[d].pc \in {"stage", "toxic"},
         NEW q \in {"toxic", "close"}, run' = [run EXCEPT ![d].pc = q],
         q = "close" => run[d].closing # 0,
         UNCHANGED <<opens, torn, opened, script, shared>>, LockTyped',
         nsfw' \in BOOLEAN, toxic' \in BOOLEAN
  PROVE  ForgeInv'
<1>1. q \in PCs
  BY DEF PCs
<1>2. PICK s \in Rehearsal :
        /\ run' = [run EXCEPT ![d] = s] /\ s.pc = q
        /\ s.st = run[d].st /\ s.todo = run[d].todo /\ s.closing = run[d].closing
        /\ s.mine = run[d].mine /\ s.paid = run[d].paid /\ s.spent = run[d].spent
        /\ s.probes = run[d].probes /\ s.renders = run[d].renders
  BY <1>1, PcMoved
<1>4. Staged(s)
  BY <1>2, OfOne DEF Staged, Working, Asking
<1>5. Afford(s)
  BY <1>2, OfOne DEF Afford
<1>6. Funded(s)'
  BY <1>2, OfOne DEF Funded, Working
<1>7. /\ Numbered' /\ opened' \in Nat /\ opened <= opened' /\ torn' \in BOOLEAN
      /\ shared' \in BOOLEAN /\ (shared => shared')
  BY OfOne DEF Numbered
<1> QED
  BY <1>2, <1>4, <1>5, <1>6, <1>7, DriveKeeps

LEMMA AfterKeeps ==
  ASSUME ForgeInv, NEW d \in Drivers, run[d].pc \in {"stage", "toxic"}, After(d),
         UNCHANGED <<opens, torn, opened, script, shared, orphaned, overlap>>,
         nsfw' \in BOOLEAN, toxic' \in BOOLEAN
  PROVE  ForgeInv'
<1>1. CASE run[d].closing # 0
  <2>1. run' = [run EXCEPT ![d].pc = "close"] /\ LockTyped'
    BY <1>1, OfOne DEF After, LockTyped
  <2> QED
    BY <1>1, <2>1, RecordsOn
<1>2. CASE run[d].closing = 0
  <2>1. run' = [run EXCEPT ![d] = Landed(run[d], Target(d))] /\ LockTyped'
    BY <1>2, OfOne DEF After, LockTyped
  <2> QED
    BY <1>2, <2>1, LandKeeps
<1> QED
  BY <1>1, <1>2

LEMMA RecordStageKeeps == ASSUME ForgeInv, NEW d \in Drivers, RecordStage(d) PROVE ForgeInv'
<1>1. /\ run[d].pc = "stage"
      /\ UNCHANGED <<opens, toxic, torn, opened, script, shared, orphaned, overlap>>
  BY DEF RecordStage
<1>2. nsfw' \in BOOLEAN /\ toxic' \in BOOLEAN
  <2>1. nsfw' = TRUE \/ nsfw' = nsfw
    BY DEF RecordStage
  <2> QED
    BY <1>1, <2>1, OfOne
<1>3. CASE Head(run[d].todo) = "nsfw"
  <2>1. run' = [run EXCEPT ![d].pc = "toxic"] /\ LockTyped'
    BY <1>3, OfOne DEF RecordStage, LockTyped
  <2> QED
    BY <1>1, <1>2, <2>1, RecordsOn
<1>4. CASE Head(run[d].todo) # "nsfw"
  BY <1>1, <1>2, <1>4, AfterKeeps DEF RecordStage
<1> QED
  BY <1>3, <1>4

LEMMA RecordToxicKeeps == ASSUME ForgeInv, NEW d \in Drivers, RecordToxic(d) PROVE ForgeInv'
<1>1. /\ run[d].pc = "toxic" /\ After(d)
      /\ UNCHANGED <<opens, torn, opened, script, shared, orphaned, overlap>>
      /\ toxic' = TRUE /\ nsfw' = nsfw
  BY DEF RecordToxic
<1>2. nsfw' \in BOOLEAN /\ toxic' \in BOOLEAN
  BY <1>1, OfOne
<1> QED
  BY <1>1, <1>2, AfterKeeps

LEMMA RecordCloseKeeps == ASSUME ForgeInv, NEW d \in Drivers, RecordClose(d) PROVE ForgeInv'
<1>1. /\ run[d].pc = "close" /\ opens' = opens \ {run[d].closing}
      /\ run' = [run EXCEPT ![d] = Landed(run[d], Target(d))] /\ plock' = Nobody
      /\ UNCHANGED <<torn, opened, script, shared>>
      /\ toxic' = toxic /\ nsfw' = nsfw
  BY DEF RecordClose
<1>2. nsfw' \in BOOLEAN /\ toxic' \in BOOLEAN
  BY <1>1, OfOne
<1>3. run[d].pc \in {"stage", "toxic", "close"}
  BY <1>1
<1>4. run[d].closing # 0 /\ opens' = opens \ {run[d].closing}
  BY <1>1, OfOne DEF Funded
<1>5. UNCHANGED <<torn, opened, script, shared>>
  BY <1>1
<1>6. run' = [run EXCEPT ![d] = Landed(run[d], Target(d))] /\ LockTyped'
  BY <1>1, OfOne DEF RecordClose, LockTyped
<1> QED
  BY <1>2, <1>3, <1>4, <1>5, <1>6, LandKeeps

LEMMA ThrowKeeps == ASSUME ForgeInv, NEW d \in Drivers, Throw(d) PROVE ForgeInv'
<1>1. /\ run' = [run EXCEPT ![d].pc = "ended"]
      /\ UNCHANGED <<opens, nsfw, toxic, torn, opened, script, shared>>
  BY DEF Throw, End, ledger
<1>2. LockTyped'
  BY OfOne DEF Throw, LockTyped
<1>3. torn' \in BOOLEAN
  BY <1>1, OfOne
<1> QED
  BY <1>1, <1>2, <1>3, EndKeeps

LEMMA DieKeeps == ASSUME ForgeInv, NEW d \in Drivers, Die(d) PROVE ForgeInv'
<1>1. /\ run' = [run EXCEPT ![d].pc = "dead"]
      /\ UNCHANGED <<opens, nsfw, toxic, opened, script, shared>>
      /\ torn' = torn \/ torn' = TRUE
  BY DEF Die
<1>2. torn' \in BOOLEAN
  BY <1>1, OfOne
<1>3. LockTyped'
  <2>1. orphaned' \in BOOLEAN
    BY Zenon DEF Die
  <2> QED
    BY <2>1, OfOne DEF Die, LockTyped
<1> QED
  BY <1>1, <1>2, <1>3, EndKeeps

\* Nobody moves and no submission is opened.
LEMMA LedgerKeeps ==
  ASSUME ForgeInv, UNCHANGED <<nsfw, toxic, opened, run, script>>,
         torn' \in BOOLEAN, shared' \in BOOLEAN, LockTyped',
         opens' \subseteq opens, shared' \/ UNCHANGED <<opens, shared>>
  PROVE  ForgeInv'
<1>1. Numbered'
  BY OfOne DEF ForgeInv, Numbered
<1>2. ASSUME NEW d \in Drivers PROVE Funded(run[d])'
  <2>1. Funded(run[d]) /\ shared \in BOOLEAN
    BY <1>2, OfOne
  <2> QED
    BY <2>1 DEF Funded, Working
<1>3. ASSUME NEW d \in Drivers PROVE Staged(run[d])' /\ Afford(run[d])'
  <2>1. Staged(run[d]) /\ Afford(run[d])
    BY <1>3, OfOne
  <2>2. Staged(run[d])'
    BY <2>1 DEF Staged, Working, Asking
  <2>3. Afford(run[d])'
    BY <2>1 DEF Afford, CanSpend, Affordable, BalanceShort, Unavailable
  <2> QED
    BY <2>2, <2>3
<1> QED
  BY <1>1, <1>2, <1>3 DEF ForgeInv

LEMMA CloseStaleKeeps == ASSUME ForgeInv, CloseStale PROVE ForgeInv'
<1>1. /\ shared' = TRUE /\ opens' \subseteq opens
      /\ UNCHANGED <<nsfw, toxic, torn, opened, run, script>>
  BY DEF CloseStale
<1>2. LockTyped'
  BY EnterTyped DEF CloseStale
<1>3. torn' \in BOOLEAN
  BY <1>1 DEF ForgeInv
<1> QED
  BY <1>1, <1>2, <1>3, LedgerKeeps

LEMMA ClashKeeps == ASSUME ForgeInv, Clash PROVE ForgeInv'
<1>1. torn' = TRUE /\ UNCHANGED <<opens, nsfw, toxic, opened, run, script, shared>>
  BY DEF Clash
<1>2. LockTyped'
  BY LockStays DEF Clash
<1>3. shared' \in BOOLEAN
  BY <1>1 DEF ForgeInv
<1> QED
  BY <1>1, <1>2, <1>3, LedgerKeeps

LEMMA NextForge == ForgeInv /\ [Next]_vars => ForgeInv'
<1> SUFFICES ASSUME ForgeInv, [Next]_vars PROVE ForgeInv'
  OBVIOUS
<1>1. CASE CloseStale
  BY <1>1, CloseStaleKeeps
<1>4. CASE Clash
  BY <1>4, ClashKeeps
<1>2. ASSUME NEW d \in Drivers, Drive(d) PROVE ForgeInv'
  BY <1>2, BeginKeeps, ScriptEndsKeeps, RefusedKeeps, GateKeeps, SubmitKeeps, OpenKeeps,
     StartKeeps, StepKeeps, RecordStageKeeps, RecordToxicKeeps, RecordCloseKeeps,
     ThrowKeeps, DieKeeps
     DEF Drive
<1>3. CASE UNCHANGED vars
  <2>1. LockTyped'
    BY <1>3, LockStays DEF vars
  <2>2. UNCHANGED <<opens, nsfw, toxic, torn, opened, run, script, shared>>
    BY <1>3 DEF vars, ledger
  <2>3. torn' \in BOOLEAN /\ shared' \in BOOLEAN
    BY <2>2 DEF ForgeInv
  <2> QED
    BY <2>1, <2>2, <2>3, LedgerKeeps
<1> QED
  BY <1>1, <1>2, <1>3, <1>4 DEF Next

LEMMA ForgeInvariant == Spec => []ForgeInv
<1>1. Init => ForgeInv
  BY InitForge
<1>2. ForgeInv /\ [Next]_vars => ForgeInv'
  BY NextForge
<1> QED
  BY <1>1, <1>2, PTL DEF Spec

-----------------------------------------------------------------------------
(* The lock *)

OneOpen == opens = {} \/ \E o \in 1..opened : opens = {o}

\* Who is at work under the lock holds it, so nothing changes between the look of one
\* that is about to open a submission and its record.
Exclusive ==
  /\ OneOpen
  /\ \A d \in Drivers : run[d].pc \in Locked <=> plock = d
  /\ \A d \in Drivers : run[d].pc = "open" => opens = {} /\ ~nsfw /\ ~toxic

\* A step of d that does not touch the lock of another or what it protects.
Outside(d) ==
  /\ run[d].pc \notin Locked /\ run'[d].pc \notin Locked
  /\ plock' = plock \/ plock = d
  /\ UNCHANGED <<opens, opened, nsfw, toxic, overlap>>

\* d enters the lock, and may leave it at once.
Entering(d) ==
  /\ overlap' = (overlap \/ plock # Nobody)
  /\ UNCHANGED <<opens, opened, nsfw, toxic>>
  /\ \/ run'[d].pc \in Locked /\ plock' = d
     \/ run'[d].pc \notin Locked /\ plock' = Nobody
  /\ run'[d].pc = "open" => opens = {} /\ ~nsfw /\ ~toxic

\* d is inside, and may leave it.
Inside(d) ==
  /\ run[d].pc \in Locked /\ overlap' = overlap
  /\ \/ run'[d].pc \in Locked /\ plock' = plock
     \/ run'[d].pc \notin Locked /\ plock' = IF plock = d THEN Nobody ELSE plock
     \/ run'[d].pc \notin Locked /\ plock' = Nobody
  /\ run'[d].pc # "open"
  /\ \/ opens' \subseteq opens /\ opened' = opened
     \/ run[d].pc = "open" /\ opened' = opened + 1 /\ opens' = opens \cup {opened + 1}

Alone(d) == \A e \in Drivers \ {d} : run'[e] = run[e]

LEMMA LandedPc ==
  ASSUME ForgeInv, NEW d \in Drivers, Working(run[d]),
         run' = [run EXCEPT ![d] = Landed(run[d], Target(d))]
  PROVE  run'[d].pc \notin Locked
<1>1. Landed(run[d], Target(d)).pc \in {"step", "loop", "ended"}
  BY Landing
<1>2. run'[d] = Landed(run[d], Target(d))
  BY DEF ForgeInv
<1> QED
  BY <1>1, <1>2 DEF Locked

LEMMA AfterInside ==
  ASSUME ForgeInv, NEW d \in Drivers, After(d), Working(run[d])
  PROVE  /\ Alone(d) /\ run'[d].pc # "open"
         /\ \/ run'[d].pc \in Locked /\ plock' = plock
            \/ run'[d].pc \notin Locked /\ plock' = Nobody
<1>1. CASE run[d].closing # 0
  <2>1. run' = [run EXCEPT ![d].pc = "close"] /\ plock' = plock
    BY <1>1 DEF After
  <2>2. run'[d].pc = "close" /\ Alone(d)
    BY <2>1, OfOne DEF ForgeInv, Rehearsal, Alone
  <2> QED
    BY <2>1, <2>2 DEF Locked
<1>2. CASE run[d].closing = 0
  <2>1. run' = [run EXCEPT ![d] = Landed(run[d], Target(d))] /\ plock' = Nobody
    BY <1>2 DEF After
  <2>2. run'[d].pc \notin Locked
    BY <2>1, LandedPc
  <2>3. Alone(d)
    BY <2>1 DEF ForgeInv, Alone
  <2> QED
    BY <2>1, <2>2, <2>3 DEF Locked
<1> QED
  BY <1>1, <1>2

LEMMA PcSet ==
  ASSUME ForgeInv, NEW d \in Drivers, NEW q, run' = [run EXCEPT ![d].pc = q]
  PROVE  run'[d].pc = q /\ Alone(d)
BY OfOne DEF ForgeInv, Rehearsal, Alone

\* What every step of a rehearsal is to the lock.
LEMMA Kinds ==
  ASSUME ForgeInv, NEW d \in Drivers, Drive(d)
  PROVE  Alone(d) /\ (Outside(d) \/ Entering(d) \/ Inside(d))
<1> USE DEF ledger, lock
<1>1. CASE Begin(d)
  <2>1. run' = [run EXCEPT ![d] = [Fresh EXCEPT !.pc = "step", !.todo = <<"submitted", "passed">>]]
    BY <1>1 DEF Begin
  <2>2. run'[d].pc = "step" /\ Alone(d)
    BY <2>1 DEF ForgeInv, Alone, Fresh
  <2> QED
    BY <1>1, <2>2 DEF Begin, Outside, Locked
<1>2. CASE ScriptEnds(d)
  <2>1. run'[d].pc = "ended" /\ Alone(d)
    BY <1>2, PcSet DEF ScriptEnds, End
  <2> QED
    BY <1>2, <2>1 DEF ScriptEnds, Outside, Locked
<1>3. CASE Refused(d)
  <2>1. run'[d].pc = "ended" /\ Alone(d)
    BY <1>3, OfOne DEF Refused, ForgeInv, Rehearsal, Alone
  <2> QED
    BY <1>3, <2>1 DEF Refused, Outside, Locked
<1>4. CASE Gate(d)
  <2>1. run'[d].pc = "submit" /\ Alone(d)
    BY <1>4, PcSet DEF Gate
  <2> QED
    BY <1>4, <2>1 DEF Gate, Outside, Locked
<1>5. CASE Submit(d)
  <2>1. PICK q \in {"ended", "open", "start"} :
          /\ run' = [run EXCEPT ![d].pc = q]
          /\ plock' = IF q = "open" THEN d ELSE Nobody
          /\ q = "open" => ~Toxic /\ opens = {}
    BY <1>5 DEF Submit, End
  <2>2. run'[d].pc = q /\ Alone(d)
    BY <2>1, PcSet
  <2> QED
    BY <1>5, <2>1, <2>2 DEF Submit, Entered, Entering, Locked, Toxic
<1>6. CASE Open(d)
  <2>1. run'[d].pc = "start" /\ Alone(d)
    BY <1>6, OfOne DEF Open, ForgeInv, Rehearsal, Alone
  <2> QED
    BY <1>6, <2>1 DEF Open, Inside, Locked
<1>7. CASE Start(d)
  <2>1. CanSpend(run[d]) /\ run[d].pc = "start"
    BY <1>7, OfOne DEF Start, Afford
  <2>2. PICK r \in Rehearsal : r = ApplySpend(run[d])
    BY <2>1, Spends
  <2>3. PICK todo : run' = [run EXCEPT ![d] = [r EXCEPT !.pc = "step", !.paid = TRUE, !.todo = todo]]
    BY <1>7, <2>2 DEF Start
  <2>4. run'[d].pc = "step" /\ Alone(d)
    BY <2>3 DEF ForgeInv, Rehearsal, Alone
  <2> QED
    BY <1>7, <2>1, <2>4 DEF Start, Outside, Locked
<1>8. CASE Step(d)
  <2>1. CASE End(d) /\ plock' = Nobody
    <3>1. run'[d].pc = "ended" /\ Alone(d)
      BY <2>1, PcSet DEF End
    <3> QED
      BY <1>8, <2>1, <3>1 DEF Step, Entered, Entering, Locked
  <2>2. ASSUME NEW c, run' = [run EXCEPT ![d].pc = "stage", ![d].closing = c], plock' = d
        PROVE  Alone(d) /\ Entering(d)
    <3>1. run'[d].pc = "stage" /\ Alone(d)
      BY <2>2, OfOne DEF ForgeInv, Rehearsal, Alone
    <3> QED
      BY <1>8, <2>2, <3>1 DEF Step, Entered, Entering, Locked
  <2> QED
    BY <1>8, <2>1, <2>2 DEF Step
<1>9. CASE RecordStage(d)
  <2>1. CASE Head(run[d].todo) = "nsfw"
    <3>1. run'[d].pc = "toxic" /\ Alone(d) /\ plock' = plock
      BY <1>9, <2>1, PcSet DEF RecordStage
    <3> QED
      BY <1>9, <3>1 DEF RecordStage, Inside, Locked
  <2>2. CASE Head(run[d].todo) # "nsfw"
    <3>1. After(d) /\ Working(run[d]) /\ run[d].pc = "stage"
      BY <1>9, <2>2 DEF RecordStage, Working
    <3> QED
      BY <1>9, <3>1, AfterInside DEF RecordStage, Inside, Locked
  <2> QED
    BY <2>1, <2>2
<1>10. CASE RecordToxic(d)
  <2>1. After(d) /\ Working(run[d]) /\ run[d].pc = "toxic"
    BY <1>10 DEF RecordToxic, Working
  <2> QED
    BY <1>10, <2>1, AfterInside DEF RecordToxic, Inside, Locked
<1>11. CASE RecordClose(d)
  <2>1. Working(run[d]) /\ run' = [run EXCEPT ![d] = Landed(run[d], Target(d))]
    BY <1>11 DEF RecordClose, Working
  <2>2. run'[d].pc \notin Locked
    BY <2>1, LandedPc
  <2>3. Alone(d)
    BY <2>1 DEF ForgeInv, Alone
  <2> QED
    BY <1>11, <2>2, <2>3 DEF RecordClose, Inside, Locked
<1>12. CASE Throw(d)
  <2>1. run'[d].pc = "ended" /\ Alone(d)
    BY <1>12, PcSet DEF Throw, End
  <2> QED
    BY <1>12, <2>1 DEF Throw, Inside, Outside, Locked
<1>13. CASE Die(d)
  <2>1. run'[d].pc = "dead" /\ Alone(d)
    BY <1>13, PcSet DEF Die
  <2> QED
    BY <1>13, <2>1 DEF Die, Inside, Outside, Locked
<1> QED
  BY <1>1, <1>2, <1>3, <1>4, <1>5, <1>6, <1>7, <1>8, <1>9, <1>10, <1>11, <1>12, <1>13 DEF Drive

LEMMA InitExclusive == Init => Exclusive
<1> SUFFICES ASSUME Init PROVE Exclusive
  OBVIOUS
<1>1. \A d \in Drivers : run[d].pc = "out" /\ plock # d
  BY FreshFacts, ForgeAssumption DEF Init
<1> QED
  BY <1>1 DEF Init, Exclusive, OneOpen, Locked

LEMMA OutsideKeeps ==
  ASSUME ForgeInv, Exclusive, NEW d \in Drivers, Alone(d), Outside(d) PROVE Exclusive'
<1>1. OneOpen' /\ plock' = plock
  BY DEF Exclusive, Outside, OneOpen
<1>2. \A e \in Drivers : run'[e].pc \in Locked <=> run[e].pc \in Locked
  BY DEF Outside, Alone
<1>3. \A e \in Drivers : run'[e].pc = "open" => run[e].pc = "open"
  BY DEF Outside, Alone, Locked
<1> QED
  BY <1>1, <1>2, <1>3 DEF Exclusive, Outside

LEMMA EnteringKeeps ==
  ASSUME ForgeInv, Exclusive, NEW d \in Drivers, Alone(d), Entering(d), ~overlap'
  PROVE  Exclusive'
<1>1. OneOpen' /\ plock = Nobody
  BY DEF Exclusive, Entering, OneOpen
<1>2. \A e \in Drivers : run[e].pc \notin Locked /\ run[e].pc # "open"
  BY <1>1, ForgeAssumption DEF Exclusive, Locked
<1>3. \A e \in Drivers : run'[e].pc \in Locked <=> plock' = e
  BY <1>2, ForgeAssumption DEF Entering, Alone
<1>4. \A e \in Drivers : run'[e].pc = "open" => (opens = {} /\ ~nsfw /\ ~toxic)'
  BY <1>2 DEF Entering, Alone
<1> QED
  BY <1>1, <1>3, <1>4 DEF Exclusive

LEMMA InsideKeeps ==
  ASSUME ForgeInv, Exclusive, NEW d \in Drivers, Alone(d), Inside(d) PROVE Exclusive'
<1>1. plock = d /\ \A e \in Drivers \ {d} : run[e].pc \notin Locked
  BY DEF Exclusive, Inside
<1>2. \A e \in Drivers : run'[e].pc # "open"
  BY <1>1 DEF Alone, Inside, Locked
<1>3. \A e \in Drivers : run'[e].pc \in Locked <=> plock' = e
  BY <1>1, ForgeAssumption DEF Alone, Inside
<1>4. OneOpen'
  <2>1. opened \in Nat /\ (run[d].pc = "open" => opens = {})
    BY DEF ForgeInv, Exclusive
  <2> QED
    BY <2>1 DEF Inside, OneOpen, Exclusive
<1> QED
  BY <1>2, <1>3, <1>4 DEF Exclusive

LEMMA NextExclusive == ForgeInv /\ Exclusive /\ [Next]_vars /\ ~overlap' => Exclusive'
<1> SUFFICES ASSUME ForgeInv, Exclusive, [Next]_vars, ~overlap' PROVE Exclusive'
  OBVIOUS
<1>1. CASE CloseStale
  <2>1. /\ opens' \subseteq opens /\ UNCHANGED <<nsfw, toxic, opened, run>> /\ plock' = Nobody
        /\ plock = Nobody
    BY <1>1 DEF CloseStale, Entered
  <2>2. OneOpen'
    BY <2>1 DEF Exclusive, OneOpen
  <2> QED
    BY <2>1, <2>2 DEF Exclusive
<1>2. ASSUME NEW d \in Drivers, Drive(d) PROVE Exclusive'
  BY <1>2, Kinds, OutsideKeeps, EnteringKeeps, InsideKeeps
<1>3. CASE UNCHANGED <<opens, nsfw, toxic, opened, run, plock>>
  BY <1>3 DEF Exclusive, OneOpen
<1> QED
  BY <1>1, <1>2, <1>3 DEF Next, Clash, vars, ledger, lock

LEMMA OverlapStays == ForgeInv /\ [Next]_vars /\ overlap => overlap'
<1> SUFFICES ASSUME ForgeInv, [Next]_vars, overlap PROVE overlap'
  OBVIOUS
<1>1. ASSUME NEW d \in Drivers, Drive(d) PROVE overlap'
  BY <1>1, Kinds DEF Outside, Entering, Inside
<1> QED
  BY <1>1 DEF Next, CloseStale, Entered, Clash, vars, lock

LEMMA ExclusiveUntil == Spec => [](ForgeInv /\ (~overlap => Exclusive))
<1>1. Init => ForgeInv /\ Exclusive
  BY InitForge, InitExclusive
<1>2. ForgeInv /\ (~overlap => Exclusive) /\ [Next]_vars => ForgeInv' /\ (~overlap' => Exclusive')
  BY NextForge, NextExclusive, OverlapStays
<1> QED
  BY <1>1, <1>2, PTL DEF Spec

-----------------------------------------------------------------------------
(* What follows *)

\* The types, with the caps of the stage machine, for any number of rehearsals.
THEOREM ForgeTypeCorrect == Spec => []TypeOK
<1>1. ForgeInv /\ (~overlap => Exclusive) => TypeOK
  <2> SUFFICES ASSUME ForgeInv, ~overlap => Exclusive PROVE TypeOK
    OBVIOUS
  <2>1. opens \subseteq 1..opened /\ opened \in Nat
    BY DEF ForgeInv, Numbered
  <2>2. ASSUME NEW d \in Drivers
        PROVE  /\ run[d] \in [pc : PCs, st : PipelineState, todo : Seq(Events),
                              closing : 0..opened, mine : 0..opened, paid : BOOLEAN,
                              spent : Nat, probes : Nat, renders : Nat, hard_stopped : BOOLEAN]
               /\ run[d].st.iterations <= MaxIterations
               /\ run[d].st.probe_attempts <= MaxAttempts + 1
               /\ run[d].probes <= 1 + MaxIterations
    <3>1. run[d] \in Rehearsal /\ run[d].mine \in 0..opened /\ run[d].closing \in 0..opened
      BY <2>2, OfOne DEF Funded
    <3>2. /\ run[d].st.iterations <= MaxIterations
          /\ run[d].st.probe_attempts <= MaxAttempts + 1
          /\ run[d].probes <= run[d].st.iterations + 1
      BY <2>2, OfOne DEF Staged
    <3>3. run[d].probes \in Nat /\ run[d].st.iterations \in Nat /\ MaxIterations \in Nat
      BY <3>1, ForgeAssumption DEF Rehearsal, PipelineState
    <3>4. run[d].probes <= 1 + MaxIterations
      BY <3>2, <3>3
    <3> QED
      BY <3>1, <3>2, <3>4 DEF Rehearsal
  <2>3. run = [d \in Drivers |-> run[d]]
    BY DEF ForgeInv
  <2> QED
    BY <2>1, <2>2, <2>3 DEF TypeOK, ForgeInv, LockTyped, Exclusive
<1> QED
  BY <1>1, ExclusiveUntil, PTL

\* One mission has at most one submission in flight, unless one died in the lock and two
\* came to be in it after that (submitMission).
THEOREM OneSubmissionAlways == Spec => []OneSubmission
<1>1. ForgeInv /\ (~overlap => Exclusive) => OneSubmission
  BY DEF ForgeInv, LockTyped, Exclusive, OneOpen, Several, OneSubmission
<1> QED
  BY <1>1, ExclusiveUntil, PTL

\* No submission is opened once a nsfw outcome is on record (submitMission): the
\* rehearsal that opens one looked under the lock, which no record slips past unless
\* one died in it and two came to be in it after that.
THEOREM NeverRerunAlways == Spec => NeverRerun
<1>1. ForgeInv /\ (~overlap => Exclusive) /\ [Next]_vars
      => [(nsfw \/ toxic) /\ ~(orphaned /\ overlap) => opens' \subseteq opens]_vars
  <2> SUFFICES ASSUME ForgeInv, ~overlap => Exclusive, [Next]_vars, nsfw \/ toxic,
                      ~(orphaned /\ overlap)
               PROVE  opens' \subseteq opens
    OBVIOUS
  <2>1. Exclusive
    BY DEF ForgeInv, LockTyped
  <2>2. ASSUME NEW d \in Drivers, Drive(d) PROVE opens' \subseteq opens
    <3>1. run[d].pc # "open"
      BY <2>1 DEF Exclusive
    <3> QED
      BY <2>2, <3>1, Kinds DEF Outside, Entering, Inside
  <2> QED
    BY <2>2 DEF Next, CloseStale, Clash, vars, ledger
<1> QED
  BY <1>1, ExclusiveUntil, PTL DEF Spec, NeverRerun

\* A generation in flight has its submission open (rehearse, recordTransition).
THEOREM PaidAlwaysOpen == Spec => []PaidIsOpen
<1>1. ForgeInv => PaidIsOpen
  BY OfOne DEF PaidIsOpen, Funded
<1> QED
  BY <1>1, ForgeInvariant, PTL

\* A rehearsal spends within its plan, however often it iterates (canSpend).
THEOREM SpendsWithinPlan == Spec => []SpendWithinPlan
<1>1. ForgeInv => SpendWithinPlan
  BY OfOne DEF SpendWithinPlan, Afford
<1> QED
  BY <1>1, ForgeInvariant, PTL
=============================================================================
