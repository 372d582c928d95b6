SPECIFICATION SceneSpec
CONSTANTS
  Scenes = {"history"}
  None = None
  Callers = {c1}
  RequestIds = {r1, r2}
  Migrations = {m1, m2}
  NoMigration = NoMigration
  MaxGeneration = 2
  MaxTasks = 0
  MaxWrites = 1
  Parts = 2
  MaxAccepted = 1
CHECK_DEADLOCK FALSE
INVARIANT ImportedMemoryIsRead
