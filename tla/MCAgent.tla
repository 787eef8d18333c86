------------------------------- MODULE MCAgent -------------------------------
(* An ordinary tool and a canvas tool; responses of two calls, which let     *)
(* either tool reach its threshold within one run.                          *)
EXTENDS TranspiledAgent, TLC

read   == [tool |-> "read", args |-> "a"]
canvas == [tool |-> "canvas", args |-> "a"]
MCKeys == {read, canvas}
MCBatches == {<<read, canvas>>, <<canvas, canvas>>}
MCCallIds == 1..9
MCLimits == {3}

\* The memory of this instance holds every turn.
ASSUME RoomyAssumption == Roomy

=============================================================================
