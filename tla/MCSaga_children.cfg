SPECIFICATION FairSpec
CONSTANTS
  N = 2
  Handlers = {h1}
  Spawners = {1}
  EarlyGiveUp = FALSE
  MaxFaults = 1
  MaxDups = 0
  
PROPERTIES HangsOnlyOnOrphan
CHECK_DEADLOCK FALSE
