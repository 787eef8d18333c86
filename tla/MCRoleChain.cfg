SPECIFICATION RSpec
CONSTANTS
  NoTier = NoTier
  NoModel = NoModel
  Untold = Untold
  NoQuery = NoQuery
  NoFile = NoFile
  Broken = Broken
  NoRole = NoRole
  Files <- MCFiles
  Queries <- MCQueries
  RoleFiles <- MCRoleFiles
  Builtins <- MCBuiltins
  Stems = {"coder", "mine"}
  HandFiles <- MCHandFiles
  Edits <- MCEdits
  Texts = {"soul"}
INVARIANT ChainWins
