--------------------------- MODULE PipelineEngine ---------------------------
(***************************************************************************)
(* The pipeline engine (orchestration/pipeline.rs) as functions on its     *)
(* state: advance, submit_handoff, resolve_gate, pause, resume, rerun and  *)
(* fail.  Each returns the engine after the call; what the call answers    *)
(* (ExecuteStep, WaitForHuman, Completed, Failed, Paused) is the status it *)
(* leaves, so there is no separate result.                                 *)
(*                                                                         *)
(* A flow is a sequence of steps [gate, exit, target, max]: exit "next", or *)
(* "loop" to the step number target (Missing: an id no step has) at most   *)
(* max times.  Steps are identified by their position: step ids are unique. *)
(* Budgets are PipelineLedger's subject; gate feedback texts are left out. *)
(***************************************************************************)
EXTENDS Naturals, Sequences

CONSTANT Missing   \* a loop target that is not a step; also "no step"

ASSUME MissingAssumption == Missing \notin Nat

\* flow.rs: gates, exits, steps, and a flow as a sequence of steps.
GateTypes == {"auto", "human"}
Exits == {"next", "loop"}
FlowSteps == [gate : GateTypes, exit : Exits, target : {Missing} \cup Nat, max : Nat]
IsFlow(f) == f \in Seq(FlowSteps)

Statuses == {"idle", "running", "waiting", "completed", "failed", "paused"}

\* PipelineEngine::new.
New(flow) ==
  [flow     |-> flow,
   step     |-> 1,                             \* current_step
   status   |-> "idle",
   pending  |-> Missing,                       \* pending_gate
   resolved |-> Missing,                       \* gate_resolved_for_step
   loops    |-> [s \in DOMAIN flow |-> 0],     \* loop_counters
   history  |-> <<>>]                          \* step_history

\* advance: terminal, waiting and paused engines answer without changing.
Advance(e) ==
  IF e.status \notin {"idle", "running"} THEN e
  ELSE IF e.step > Len(e.flow) THEN [e EXCEPT !.status = "completed"]
  ELSE IF e.flow[e.step].gate = "human" /\ e.resolved # e.step
  THEN [e EXCEPT !.status = "waiting", !.pending = e.step]
  ELSE [e EXCEPT !.status = "running"]

\* Faulty variant: the iteration bound is off by one.
RouteOneMore(e) ==
  LET s == e.step  x == e.flow[s]  n == e.loops[s] + 1 IN
  IF x.exit = "next" \/ x.target \notin DOMAIN e.flow
  THEN Advance([e EXCEPT !.step = s + 1])
  ELSE IF n > x.max
  THEN [e EXCEPT !.loops[s] = n, !.status = "paused", !.step = x.target]
  ELSE Advance([e EXCEPT !.loops[s] = n, !.step = x.target])

\* resolve_next_step and what submit_handoff does with its answer.
Route(e) ==
  LET s == e.step  x == e.flow[s]  n == e.loops[s] + 1
      counted == [e EXCEPT !.loops[s] = n]
      found   == x.target \in DOMAIN e.flow
  IN  CASE x.exit = "next" /\ s < Len(e.flow) -> Advance([e EXCEPT !.step = s + 1])
        [] x.exit = "next" /\ s = Len(e.flow) ->
             [e EXCEPT !.step = s + 1, !.status = "completed"]
        [] x.exit = "loop" /\ n >= x.max ->
             [counted EXCEPT !.status = "paused", !.step = IF found THEN x.target ELSE s]
        [] x.exit = "loop" /\ n < x.max /\ found -> Advance([counted EXCEPT !.step = x.target])
        [] OTHER -> [counted EXCEPT !.status = "failed"]

\* submit_handoff: without a running step the engine fails; otherwise the gate
\* decision is spent, the step recorded and the next one routed to.
SubmitHandoff(e) ==
  IF e.status # "running" THEN [e EXCEPT !.status = "failed"]
  ELSE Route([e EXCEPT !.resolved = Missing, !.history = Append(@, e.step)])

\* resolve_gate: Approve and Reject differ in the feedback they leave, both let
\* the step run.  Without a pending gate nothing changes.
ResolveGate(e) ==
  IF e.pending = Missing THEN e
  ELSE Advance([e EXCEPT !.resolved = e.pending, !.pending = Missing, !.status = "idle"])

Pause(e) == IF e.status = "running" THEN [e EXCEPT !.status = "paused"] ELSE e

\* resume: every loop counter starts again.
Resume(e) ==
  IF e.status # "paused" THEN e
  ELSE Advance([e EXCEPT !.loops = [s \in DOMAIN e.flow |-> 0], !.status = "idle"])

\* Faulty variant: rerun starts the flow again but keeps its history.
RerunFromStart(e) ==
  IF e.status # "failed" THEN e
  ELSE Advance([e EXCEPT !.step = 1, !.resolved = Missing, !.status = "idle"])

\* rerun answers None, and changes nothing, unless the engine has failed at a
\* step of its flow.
CanRerun(e) == e.status = "failed" /\ e.step <= Len(e.flow)

\* Faulty variant: the failed step runs again on the decision it had.
RerunKeepsGate(e) ==
  IF ~CanRerun(e) THEN e
  ELSE Advance([e EXCEPT !.loops[e.step] = 0, !.status = "idle"])

\* rerun: the failed step again, its own loop counter and gate reset.
Rerun(e) ==
  IF ~CanRerun(e) THEN e
  ELSE Advance([e EXCEPT !.loops[e.step] = 0, !.resolved = Missing, !.status = "idle"])

Fail(e) == [e EXCEPT !.status = "failed"]

=============================================================================
