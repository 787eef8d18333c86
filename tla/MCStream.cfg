SPECIFICATION TSpec
CONSTANTS
  ChanCap = 2
  WireCap = 1
  MaxEvents = 3
  Candidates = 3
  PermitWait = 1
  UpIdle = 1
  TailWait = 1
  SendWindow = 2
  ClientIdle = 3
INVARIANTS InOrder TailBeforeEof NothingElseVanishes ToolCallNeverMistaken
PROPERTY CallReturns
CHECK_DEADLOCK FALSE
