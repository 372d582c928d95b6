SPECIFICATION SceneSpec
CONSTANTS
  Scenes = {"move", "writers", "memory", "facts", "history"}
  None = None
  Callers = {c1, c2}
  RequestIds = {r1, r2}
  Migrations = {m1, m2}
  NoMigration = NoMigration
  MaxGeneration = 2
  MaxTasks = 0
  MaxWrites = 1
  Parts = 2
  MaxAccepted = 1
SYMMETRY Symmetry
CHECK_DEADLOCK FALSE
INVARIANTS
  NoWriterBehindTheFence
  ActivatedHoldsTheSource
  MigrationIsRecoverable
  PlaneNeverCorrupt
  AnswersAreTheHistory
PROPERTY
  ImplementsHandover
