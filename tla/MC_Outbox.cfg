SPECIFICATION SceneSpec
CONSTANTS
  None = None
  Tasks = {j1, j2, j3}
  Poll = 2
  PollLimit = 3
  Ceiling = 2
  Batch = 2
  MaxAge = 1
  MaxReplays = 1
  MaxSweeps = 1
  Jobs = 1
  Legacy = 0
  Imported <- MCNoJobs
  Limit = 1
  Page = 1
  MaxAttempts = 3
  MaxMoves = 1
  Clocks = "skewed"
  Dispatchers = {d1}
  Consumers = {c1, c2}
  Keys = 2
SYMMETRY Symmetry
CHECK_DEADLOCK FALSE
INVARIANTS
  WorkIsArmed
  CompletedIsPersisted
PROPERTY
  NewestClaimDecides
