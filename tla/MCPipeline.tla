----------------------------- MODULE MCPipeline -----------------------------
(***************************************************************************)
(* Seven flows: plain, gated first and later, a loop around a gate, a loop *)
(* that follows on another, a loop of one round, and loops to nowhere.     *)
(***************************************************************************)
EXTENDS PipelineLedger, TLC

Plain == [gate |-> "auto", exit |-> "next", target |-> Missing, max |-> 0]
Gated == [Plain EXCEPT !.gate = "human"]
Loop(to, n) == [gate |-> "auto", exit |-> "loop", target |-> to, max |-> n]

MCFlows ==
  {<<Plain, Plain, Plain>>,
   <<Gated, Plain, Gated>>,
   <<Plain, Gated, Loop(2, 3), Plain>>,
   <<Gated, Plain, [Loop(1, 2) EXCEPT !.gate = "human"]>>,
   <<Plain, Loop(2, 1), Plain>>,
   <<Plain, Loop(Missing, 2)>>,
   <<Loop(Missing, 1)>>}

\* The third step is done by the role of the first.
MCRoleOf(s) == IF s = 3 THEN 1 ELSE s
MCCosts == {[s \in 1..4 |-> n] : n \in {1, 3}} \cup {[s \in 1..4 |-> s]}
MCStepLimits == {<< >>, 1 :> 3}

=============================================================================
