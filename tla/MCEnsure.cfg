SPECIFICATION Spec
CONSTANTS
  Callers = {c1, c2}
  MaxCalls = 2
  Used = {"ensure_daemon", "a2r_async", "service"}
  StartTicks = 1
  Deadline <- MCDeadline
INVARIANT RacersServed
PROPERTY EnsureReturns
CHECK_DEADLOCK FALSE
