-------------------------- MODULE TranspiledEngine --------------------------
(***************************************************************************)
(* The pipeline engine of the transpiled edition (rust/src/pipeline.rs,    *)
(* generated from the Auto sources), on the engine record of               *)
(* PipelineEngine.  Its loop counters are a map filled on first use: a step *)
(* that is not in it counts 0.  Kept apart from PipelineEngine because it   *)
(* is other code with another call structure; TranspiledDriver compares    *)
(* the two.                                                                *)
(***************************************************************************)
EXTENDS Naturals, Sequences

CONSTANT Missing   \* a loop target that is not a step; also "no step"

\* with_budget.
New(flow) ==
  [flow |-> flow, step |-> 1, status |-> "idle", pending |-> Missing, resolved |-> Missing,
   loops |-> [s \in DOMAIN flow |-> 0], history |-> <<>>]

\* fail.
Fail(e) == [e EXCEPT !.status = "failed"]

\* advance.
Advance(e) ==
  LET past  == e.step > Len(e.flow)
      gated == ~past /\ e.flow[e.step].gate = "human" /\ e.resolved # e.step
  IN  CASE e.status \in {"completed", "failed", "waiting", "paused"} -> e
        [] e.status \in {"idle", "running"} /\ past  -> [e EXCEPT !.status = "completed"]
        [] e.status \in {"idle", "running"} /\ gated -> [e EXCEPT !.status = "waiting", !.pending = e.step]
        [] OTHER -> [e EXCEPT !.status = "running"]

\* bump_loop_counter, loop_count, set_loop_counter.
SetLoopCounter(e, s, n) == [e EXCEPT !.loops[s] = n]
BumpLoopCounter(e) == SetLoopCounter(e, e.step, e.loops[e.step] + 1)

\* get_step_index.
Indexes(e, s) == IF s \in DOMAIN e.flow THEN {s} ELSE {}

\* resolve_next_step: NextStep, with the engine's counter already bumped.
ResolveNextStep(e) ==
  LET x == e.flow[e.step]  b == BumpLoopCounter(e) IN
  IF x.exit = "next"
  THEN [eng |-> e, to |-> e.step + 1, kind |-> IF e.step = Len(e.flow) THEN "complete" ELSE "index"]
  ELSE [eng  |-> b,
        to   |-> x.target,
        kind |-> IF b.loops[e.step] >= x.max THEN "pause"
                 ELSE IF Indexes(e, x.target) = {} THEN "error" ELSE "index"]

\* advance_after_step.
AdvanceAfterStep(next) ==
  LET e == next.eng IN
  CASE next.kind = "index"    -> Advance([e EXCEPT !.step = next.to])
    [] next.kind = "complete" -> [e EXCEPT !.step = Len(e.flow) + 1, !.status = "completed"]
    [] next.kind = "error"    -> Fail(e)
    [] next.kind = "pause"    ->
         [e EXCEPT !.status = "paused",
                   !.step = IF Indexes(e, next.to) = {} THEN @ ELSE next.to]

\* submit_handoff, with running_context as its guard.
SubmitHandoff(e) ==
  IF e.status # "running" THEN Advance(Fail(e))
  ELSE AdvanceAfterStep(ResolveNextStep(
         [e EXCEPT !.resolved = Missing, !.history = Append(@, e.step)]))

\* resolve_gate, either decision.
ResolveGate(e) ==
  IF e.pending = Missing THEN e
  ELSE Advance([e EXCEPT !.pending = Missing, !.resolved = e.pending, !.status = "idle"])

Pause(e) == IF e.status = "running" THEN [e EXCEPT !.status = "paused"] ELSE e

\* Faulty variant: only the counter of the step that paused is reset.
ResumeCurrentOnly(e) ==
  IF e.status # "paused" THEN e
  ELSE Advance([SetLoopCounter(e, e.step, 0) EXCEPT !.status = "idle"])

\* resume, is_paused.
Resume(e) ==
  IF e.status # "paused" THEN e
  ELSE Advance([e EXCEPT !.loops = [s \in DOMAIN e.flow |-> 0], !.status = "idle"])

\* rerun, is_failed.
Rerun(e) ==
  IF e.status # "failed" \/ e.step > Len(e.flow) THEN e
  ELSE Advance([SetLoopCounter(e, e.step, 0) EXCEPT !.resolved = Missing, !.status = "idle"])

=============================================================================
