SPECIFICATION TSpec
CONSTANTS
  Requests = {r1, r2}
  None = None
  NoTier = NoTier
  NoModel = NoModel
  Providers <- MCProviders
  Names <- MCNames
  Models <- MCModels
  Limit <- MCLimit
  Forms <- MCForms
  Resolve <- MCResolve
  TResolve <- MCTResolve
  Replies <- MCReplies
INVARIANTS
  TypeOK
  PermitConservation
  AnswerExplained
  AccountedOnce
PROPERTIES
  ImplementsPool
  WaitEnds
  CancelReleases
CHECK_DEADLOCK FALSE
