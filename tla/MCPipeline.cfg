SPECIFICATION LSpec
CONSTANTS
  Missing = Missing
  Flows <- MCFlows
  MaxOps = 5
  RoleOf <- MCRoleOf
  Costs <- MCCosts
  Limit = 8
  StepLimits <- MCStepLimits
  Unnamed = Unnamed
INVARIANTS
  HistoryIsWalk
  GateBeforeWork
  LoopBounded
  OutcomeMatchesEngine
  LedgerBalanced
PROPERTIES
  DriveReturns
  ImplementsReference
CHECK_DEADLOCK FALSE
