SPECIFICATION SceneSpec
CONSTANTS
  None = None
  Scenes = {"page"}
  Attempt = {a1, a2}
  Earlier = a0
  Users = {"u1", "u2"}
  MaxRevision = 2
  MaxRepeats = 1
  Requests <- Promoting
  Key <- PromotionKeys
  DropIds = {"d1", "d2", "d3"}
  NoToken = None
  MaxHead = 1
  MaxStalls = 1
  MaxFaults = 1
CHECK_DEADLOCK FALSE
INVARIANT PollSkipsNothing
