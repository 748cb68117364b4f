SPECIFICATION FairSpec
CONSTANTS
  N = 1
  Handlers = {h1}
  Spawners = {}
  EarlyGiveUp = FALSE
  MaxFaults = 1
  MaxDups = 0
PROPERTIES RunningEnds
CHECK_DEADLOCK FALSE
