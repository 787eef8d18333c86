SPECIFICATION FSpec
CONSTANTS
  MaxInputs = 3
  ScreenInputs = 2
  MaxTurns = 2
  MaxStarts = 2
INVARIANTS
  OneRunShown
  MessagesConserved
  ClearedStaysCleared
PROPERTIES
  RunsServed
CHECK_DEADLOCK FALSE
