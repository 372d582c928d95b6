SPECIFICATION SceneSpec
CONSTANTS
  Scenes = {"stranded"}
  Requests = {r1, r2, r3}
  NoToken = NoToken
  MaxStalls = 0
  MaxFaults = 2
  Events <- MCEvents
  IdOf <- MCIdOf
  Source <- MCSource
  Follows <- MCFollows
  Batches <- MCSingles
  Interval = 2
SYMMETRY Symmetry
CHECK_DEADLOCK FALSE
INVARIANT UnknownCanBeRetried
