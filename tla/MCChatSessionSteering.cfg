SPECIFICATION Spec
CONSTANTS
  MaxInputs = 2
  MaxTurns = 3
  MaxStarts = 1
INVARIANTS
  SteeringReachesRun
CHECK_DEADLOCK FALSE
