--------------------------- MODULE PipelineDriver ---------------------------
(***************************************************************************)
(* PipelineDriver::drive (orchestration/driver.rs) over the engine: it     *)
(* advances the engine, runs an agent for the step, submits its handoff    *)
(* and decides gates, until the engine completes, fails or pauses or an    *)
(* agent fails.  Between two calls of drive the application may operate    *)
(* the engine (engine_mut): pause, resume, rerun, fail.  drive holds the   *)
(* engine exclusively, so these never interleave with it.                  *)
(***************************************************************************)
EXTENDS PipelineEngine, Integers

CONSTANTS
  Flows,    \* the flows considered
  MaxOps    \* bound on the application's calls: drive, pause, resume, rerun, fail

ASSUME FlowsAssumption == MaxOps \in Nat /\ \A f \in Flows : IsFlow(f)

VARIABLES
  eng,       \* the engine
  drv,       \* where drive() stands; "idle" when it is not running
  outcome,   \* what the last drive() returned: "none", "ok" or "err"
  input,     \* step whose handoff the next agent is given, Missing: the bare task
  ops,       \* calls the application has made
  credit,    \* step -> gate decisions made for the visit that is under way
  runs,      \* step -> records of it since the flow was last resumed or rerun
  owing      \* the step whose agent failed and has not answered since, or Missing

\* credit, runs and owing are history: nothing the program does depends on them.
vars == <<eng, drv, outcome, input, ops, credit, runs, owing>>

Zero(flow) == [s \in DOMAIN flow |-> 0]

Init ==
  /\ \E flow \in Flows : eng = New(flow) /\ credit = Zero(flow) /\ runs = Zero(flow)
  /\ drv = "idle"
  /\ outcome = "none"
  /\ input = Missing
  /\ ops = 0
  /\ owing = Missing

-----------------------------------------------------------------------------
Return(how) == drv' = "idle" /\ outcome' = how

\* Faulty variant: a paused engine is waited for inside drive().
FollowWaitsForResume(e, running) ==
  \/ e.status = "running" /\ drv' = running /\ UNCHANGED outcome
  \/ e.status = "waiting" /\ drv' = "gate" /\ UNCHANGED outcome
  \/ e.status = "paused" /\ drv' = "top" /\ UNCHANGED outcome
  \/ e.status = "completed" /\ Return("ok")
  \/ e.status = "failed" /\ Return("err")

\* What drive() does with an AdvanceResult.
Follow(e, running) ==
  \/ e.status = "running" /\ drv' = running /\ UNCHANGED outcome
  \/ e.status = "waiting" /\ drv' = "gate" /\ UNCHANGED outcome
  \/ e.status \in {"completed", "paused"} /\ Return("ok")
  \/ e.status = "failed" /\ Return("err")

\* The application calls drive(): last_handoff starts empty.
Drive ==
  /\ drv = "idle"
  /\ ops < MaxOps
  /\ ops' = ops + 1
  /\ drv' = "top"
  /\ outcome' = "none"
  /\ input' = Missing
  /\ UNCHANGED <<eng, credit, runs, owing>>

\* The top of the loop.
TopOfLoop ==
  /\ drv = "top"
  /\ eng' = Advance(eng)
  /\ Follow(eng', "agent")
  /\ UNCHANGED <<input, ops, credit, runs, owing>>

\* A handoff of the current step is submitted: its visit is over.
Submit ==
  /\ eng' = SubmitHandoff(eng)
  /\ input' = eng.step
  /\ credit' = [credit EXCEPT ![eng.step] = IF eng.flow[eng.step].gate = "human" THEN @ - 1 ELSE @]
  /\ runs' = [runs EXCEPT ![eng.step] = @ + 1]
  /\ Follow(eng', "top")
  /\ UNCHANGED ops

\* The agent of the step answers and its handoff is submitted.
AgentAnswers == drv = "agent" /\ Submit /\ owing' = Missing

\* Faulty variant: the error is wrapped as a handoff and submitted, the flow
\* goes on without the step's work.
AgentFailsSubmits == drv = "agent" /\ Submit /\ owing' = eng.step

\* build_agent or run_stream fails: `?` leaves drive() at once, the engine as
\* it was, which is running: fail() is not called.
AgentFails ==
  /\ drv = "agent"
  /\ Return("err")
  /\ owing' = eng.step
  /\ UNCHANGED <<eng, input, ops, credit, runs>>

\* The gate handler decides (or auto-approves).
Decide ==
  /\ drv = "gate"
  /\ eng' = ResolveGate(eng)
  /\ credit' = [credit EXCEPT ![eng.pending] = @ + 1]
  /\ IF eng'.status = "failed" THEN Return("err") ELSE drv' = "top" /\ UNCHANGED outcome
  /\ UNCHANGED <<input, ops, runs, owing>>

\* The application operates the engine between two drives.
Operate(after) ==
  /\ drv = "idle"
  /\ ops < MaxOps
  /\ ops' = ops + 1
  /\ eng' = after
  /\ outcome' = "none"
  /\ UNCHANGED <<drv, input, owing>>

AppPauses == Operate(Pause(eng)) /\ UNCHANGED <<credit, runs>>
AppFails  == Operate(Fail(eng)) /\ UNCHANGED <<credit, runs>>
AppResumes ==
  /\ Operate(Resume(eng))
  /\ runs' = IF eng.status = "paused" THEN Zero(eng.flow) ELSE runs
  /\ UNCHANGED credit

\* A rerun begins a new visit; one that answers None begins nothing.
AppReruns ==
  /\ Operate(Rerun(eng))
  /\ IF CanRerun(eng) THEN credit' = Zero(eng.flow) /\ runs' = Zero(eng.flow)
     ELSE UNCHANGED <<credit, runs>>

Next ==
  \/ Drive \/ TopOfLoop \/ AgentAnswers \/ AgentFails \/ Decide
  \/ AppPauses \/ AppFails \/ AppResumes \/ AppReruns

Spec == Init /\ [][Next]_vars

\* drive() is polled to its end and every agent run returns (the client bounds
\* each call with timeouts and the agent bounds its turns).
Fairness == WF_vars(TopOfLoop) /\ WF_vars(AgentAnswers \/ AgentFails) /\ WF_vars(Decide)

FairSpec == Spec /\ Fairness

-----------------------------------------------------------------------------
\* The steps recorded are a walk through the flow, whatever fails, pauses, is
\* resumed or run again in between; only a loop whose target is missing comes
\* round to itself.
Successor(s) ==
  LET x == eng.flow[s] IN
  IF x.exit = "next" THEN s + 1 ELSE IF x.target \in DOMAIN eng.flow THEN x.target ELSE s
HistoryIsWalk ==
  LET h == eng.history IN
  /\ h # <<>> => h[1] = 1
  /\ \A i \in 1..Len(h) - 1 : h[i + 1] = Successor(h[i])
  /\ eng.step = IF h = <<>> THEN 1 ELSE Successor(h[Len(h)])

\* Every visit of a step behind a human gate has one decision, made during the
\* visit before the step runs, and none is left for a later visit.  A loop's
\* next round and a rerun are new visits; a visit goes on over a pause, and over
\* an agent that failed without the flow being failed and rerun.
GateBeforeWork ==
  \A s \in DOMAIN eng.flow : eng.flow[s].gate = "human" =>
    /\ credit[s] \in {0, 1}
    /\ credit[s] = 1 => eng.step = s
    /\ (eng.status = "running" /\ eng.step = s) => credit[s] = 1

\* A loop step is recorded at most max_iterations times (once when it is 0)
\* before somebody resumes or reruns the flow.
LoopBounded ==
  \A s \in DOMAIN eng.flow : eng.flow[s].exit = "loop" =>
    runs[s] <= IF eng.flow[s].max = 0 THEN 1 ELSE eng.flow[s].max

\* What drive() returned and what the engine says, exactly.  Ok is a flow that
\* completed or paused.  An error is a failed engine, or the agent of the step
\* the engine still calls running: pipeline.rs:166-168 says that the driver
\* calls fail() then, which it never does, so that such a flow goes on by
\* another drive() and rerun() answers None.  What that comment is after does
\* hold: no flow gets past a step whose agent failed before it has answered.
OutcomeMatchesEngine ==
  /\ outcome = "ok" => eng.status \in {"completed", "paused"}
  /\ outcome = "err" => \/ eng.status = "failed"
                        \/ eng.status = "running" /\ owing = eng.step
  /\ owing # Missing => eng.step = owing /\ eng.status # "completed"

\* drive() ends: no flow, however it loops, keeps it going without help.
DriveReturns == (drv # "idle") ~> (drv = "idle")

=============================================================================
