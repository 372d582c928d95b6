SPECIFICATION SceneSpec
CONSTANTS
  None = None
  Scenes = {"batch"}
  Tabs = {t1}
  Edits = {e1, e2}
  Foreign = {f1, f2}
  MaxOpens = 1
  MaxMoves = 0
  MaxStalls = 0
  MaxFaults = 1
  Runs = {r1, r2}
  Me = me
  Other = other
  Accounts = {"a1", "a2"}
  Browser = {"b1", "b2"}
  Polls = {"p1", "p2"}
  Caller = {e1, e2}
  MaxTokens = 3
CHECK_DEADLOCK FALSE
INVARIANT LandOnTheirText
