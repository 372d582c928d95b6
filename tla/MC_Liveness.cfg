SPECIFICATION SceneSpec
CONSTANTS
  Scenes = {"move", "drain", "outbox", "wake", "sync", "lossy", "poll"}
  None = None
  RequestIds = {r1}
  Migrations = {m1}
  Dispatchers = {d1}
  Consumers = {c1, c2}
  Tasks = {j1, j2}
  Tabs = {t1, t2}
  Edits = {e1}
  Foreign = {}
  Me = me
  Other = other
CHECK_DEADLOCK FALSE
PROPERTIES
  MigrationEnds
  EveryCommitIsSettled
  RetriedByTheAlarm
  QueueDrains
  EverythingArrives
