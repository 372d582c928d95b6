SPECIFICATION SceneSpec
CONSTANTS
  None = None
  Scenes = {"log", "memory", "heap", "prims", "replaced", "order", "bootstrap"}
  Calls = {c1, c2}
  Commands <- Sent
  MaxPreparations = 2
  MaxRevision = 2
  Proc = {p1, p2}
  Content <- Restoring
  Replacement = "c"
  Primitive = {x}
  Interval = 3
  MaxFacts = 2
  MaxRequests = 4
  Jobs = 4
  Legacy = 3
  Imported <- First
  Limit = 2
  Page = 1
  MaxAttempts = 2
  MaxMoves = 1
  Clocks = "skewed"
  Keys = 1
  Dispatchers = {d1}
  Consumers = {k1, k2}
SYMMETRY Symmetry
CHECK_DEADLOCK FALSE
INVARIANTS
  MemoryIsKept
  AnswerIsCurrent
  OutboxIsExact
PROPERTY
  ReferenceImplementsLog
