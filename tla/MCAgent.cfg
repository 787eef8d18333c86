SPECIFICATION TSpec
CONSTANTS
  NoCall = NoCall
  NoLimit = NoLimit
  Keys <- MCKeys
  CallIds <- MCCallIds
  Batches <- MCBatches
  Limits <- MCLimits
  SoftLimit = 1
  MaxRuns = 2
  MaxPushes = 2
INVARIANTS
  ProvidersAccept
  HumanHeard
  CycleBounded
  RestAnswered
  MemoryKept
PROPERTIES
  CancelQuiet
  RunEnds
CHECK_DEADLOCK FALSE
