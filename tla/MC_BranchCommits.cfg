SPECIFICATION SceneSpec
CONSTANTS
  None = None
  Page = {t1, t2}
  Task = {c1, c2}
  User = {"u1", "u2"}
  Holder = "u1"
  MaxAccounts = 1
  MaxLogouts = 1
  MaxMounts = 1
  Window = {t1, t2}
  Call = {c1, c2}
  MaxSeals = 3
  MaxCalls = 3
  MaxReloads = 1
  Calls = {c1, c2}
  Commands <- MCCommands
  Seeds <- MCSeeds
  MaxAttempts = 2
  MaxSafe = 3
  Patch <- MCPatch
SYMMETRY Symmetry
CHECK_DEADLOCK FALSE
INVARIANTS
  NoLostUpdate
  OneOwner
  PublicationsAreWhole
  AnswersAreTrue
  SignOutIsFinal
PROPERTIES
  ReplayPrecedesPredecessor
  ImplementsLog
  ReplacesWhatWasShown
