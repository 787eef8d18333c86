SPECIFICATION Spec
CONSTANTS
  MaxParts = 2
  MaxCalls = 2
  Timeout = 2
INVARIANTS
  SandboxDecides
PROPERTY ToolReturns
CHECK_DEADLOCK FALSE
