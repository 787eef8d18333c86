SPECIFICATION TSpec
CONSTANTS
  Requests = {r1, r2}
  None = None
  NoTier = NoTier
  NoModel = NoModel
  Providers <- MCProviders
  Names <- MCNames
  Models <- MCModels
  Limit <- MCLimit
  Forms <- MCForms
  Resolve <- MCResolve
  TResolve <- MCTResolve
  Replies <- MCReplies
PROPERTIES
  DisconnectReleases
CHECK_DEADLOCK FALSE
