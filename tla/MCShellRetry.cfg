SPECIFICATION Spec
CONSTANTS
  MaxParts = 2
  MaxCalls = 1
  Timeout = 2
INVARIANT EffectsOnce
CHECK_DEADLOCK FALSE
