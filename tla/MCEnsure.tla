------------------------------ MODULE MCEnsure ------------------------------
(***************************************************************************)
(* Model-checking instance of EnsureRunning: the functions that wait for   *)
(* the daemon differ in their deadlines.                                   *)
(***************************************************************************)
EXTENDS EnsureRunning

MCDeadline ==
  [f \in ClientCalls \cup ServiceCalls |-> IF f \in PollsFirst THEN 3 ELSE 2]

=============================================================================
