-------------------------- MODULE TranspiledDriver --------------------------
(***************************************************************************)
(* The two editions of the pipeline.  A run belongs to one edition: the    *)
(* hand-written reference (rust-ref, PipelineDriver's actions) or the code  *)
(* transpiled from the Auto sources (rust/src/driver.rs), whose drive(),   *)
(* dispatch, drive_step, resolve_gate_auto and handle_after_submit are the *)
(* actions below.  The transpiled drive() goes round once more after a     *)
(* submit that completed or paused the flow, because handle_after_submit   *)
(* answers Ok for both and drive_step's Ok means "continue".               *)
(*                                                                         *)
(* engine_mut() of this edition hands out a clone, so an application can    *)
(* operate the engine only through the public field; that is what it does  *)
(* here.                                                                   *)
(***************************************************************************)
EXTENDS PipelineDriver

VARIABLES
  edition,   \* "rust-ref" or "a2r"
  again      \* a2r: the engine has finished, drive() is yet to notice

tvars == <<vars, edition, again>>

T == INSTANCE TranspiledEngine

TInit ==
  /\ Init
  /\ edition \in {"rust-ref", "a2r"}
  /\ edition = "a2r" => eng = T!New(eng.flow)
  /\ again = FALSE

-----------------------------------------------------------------------------
\* drive: last_handoff starts empty.
TDrive ==
  /\ edition = "a2r"
  /\ Drive
  /\ UNCHANGED <<edition, again>>

\* drive: advance, and what dispatch does with the answer.
Dispatch(running) ==
  \/ eng'.status = "running" /\ drv' = running /\ UNCHANGED outcome
  \/ eng'.status = "waiting" /\ drv' = "gate" /\ UNCHANGED outcome
  \/ eng'.status \in {"completed", "paused"} /\ drv' = "idle" /\ outcome' = "ok"
  \/ eng'.status = "failed" /\ drv' = "idle" /\ outcome' = "err"

TTopOfLoop ==
  /\ edition = "a2r"
  /\ drv = "top"
  /\ eng' = T!Advance(eng)
  /\ Dispatch("agent")
  /\ again' = FALSE
  /\ UNCHANGED <<input, ops, credit, runs, owing, edition>>

\* handle_after_submit: everything but a gate and a failure is Ok, and the loop
\* goes on.
HandleAfterSubmit ==
  \/ /\ eng'.status \in {"running", "completed", "paused"}
     /\ drv' = "top"
     /\ again' = (eng'.status # "running")
     /\ UNCHANGED outcome
  \/ eng'.status = "waiting" /\ drv' = "gate" /\ again' = FALSE /\ UNCHANGED outcome
  \/ eng'.status = "failed" /\ drv' = "idle" /\ outcome' = "err" /\ again' = FALSE

\* drive_step: the agent answers, build_handoff, submit.
TAgentAnswers ==
  /\ edition = "a2r"
  /\ drv = "agent"
  /\ eng' = T!SubmitHandoff(eng)
  /\ input' = eng.step
  /\ credit' = [credit EXCEPT ![eng.step] = IF eng.flow[eng.step].gate = "human" THEN @ - 1 ELSE @]
  /\ runs' = [runs EXCEPT ![eng.step] = @ + 1]
  /\ owing' = Missing
  /\ HandleAfterSubmit
  /\ UNCHANGED <<ops, edition>>

\* drive_step: build_agent or run_stream fails.
TAgentFails ==
  /\ edition = "a2r"
  /\ drv = "agent"
  /\ drv' = "idle"
  /\ outcome' = "err"
  /\ owing' = eng.step
  /\ UNCHANGED <<eng, input, ops, credit, runs, edition, again>>

\* resolve_gate_auto, from dispatch and from handle_after_submit.
TDecide ==
  /\ edition = "a2r"
  /\ drv = "gate"
  /\ eng' = T!ResolveGate(eng)
  /\ credit' = [credit EXCEPT ![eng.pending] = @ + 1]
  /\ IF eng'.status = "failed" THEN drv' = "idle" /\ outcome' = "err"
     ELSE drv' = "top" /\ UNCHANGED outcome
  /\ UNCHANGED <<input, ops, runs, owing, edition, again>>

TOperates ==
  /\ edition = "a2r"
  /\ \/ Operate(T!Pause(eng)) /\ UNCHANGED <<credit, runs>>
     \/ Operate(T!Fail(eng)) /\ UNCHANGED <<credit, runs>>
     \/ /\ Operate(T!Resume(eng))
        /\ runs' = IF eng.status = "paused" THEN Zero(eng.flow) ELSE runs
        /\ UNCHANGED credit
     \/ /\ Operate(T!Rerun(eng))
        /\ IF CanRerun(eng) THEN credit' = Zero(eng.flow) /\ runs' = Zero(eng.flow)
           ELSE UNCHANGED <<credit, runs>>
  /\ UNCHANGED <<edition, again>>

\* The hand-written edition.
Reference == edition = "rust-ref" /\ Next /\ UNCHANGED <<edition, again>>

TNext ==
  \/ Reference
  \/ TDrive \/ TTopOfLoop \/ TAgentAnswers \/ TAgentFails \/ TDecide \/ TOperates

\* As in PipelineDriver.
TFairness ==
  /\ WF_tvars(Reference /\ (TopOfLoop \/ AgentAnswers \/ AgentFails \/ Decide))
  /\ WF_tvars(TTopOfLoop) /\ WF_tvars(TAgentAnswers \/ TAgentFails) /\ WF_tvars(TDecide)

TSpec == TInit /\ [][TNext]_tvars /\ TFairness

-----------------------------------------------------------------------------
\* The transpiled edition does what the reference does, step for step, apart
\* from the extra round: while drive() is yet to notice that the flow has
\* finished, the reference has already returned Ok.
Ref == INSTANCE PipelineDriver WITH
  drv     <- IF again THEN "idle" ELSE drv,
  outcome <- IF again THEN "ok" ELSE outcome
ImplementsReference == Ref!Spec

=============================================================================
