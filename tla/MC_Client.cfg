SPECIFICATION SceneSpec
CONSTANTS
  None = None
  Scenes = {"tabs", "foreign", "poll", "login", "refresh"}
  Tabs = {t1, t2}
  Edits = {e1, e2}
  Foreign = {f1}
  MaxOpens = 2
  MaxMoves = 1
  MaxStalls = 0
  MaxFaults = 1
  Runs = {r1, r2}
  Me = me
  Other = other
  Accounts = {"a1", "a2"}
  Browser = {"b1", "b2"}
  Polls = {"p1", "p2"}
  Caller = {e1, e2}
  MaxTokens = 3
SYMMETRY Symmetry
CHECK_DEADLOCK FALSE
INVARIANTS
  NoEditLost
  DeliveredOnceInOrder
  OneLoginPerTicket
  RotationKeepsTheSession
