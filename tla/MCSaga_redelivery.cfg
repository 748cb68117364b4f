SPECIFICATION Spec
CONSTANTS
  N = 2
  Handlers = {h1}
  Spawners = {}
  EarlyGiveUp = FALSE
  MaxFaults = 0
  MaxDups = 1
INVARIANTS CommittedMeansApplied
 
CHECK_DEADLOCK FALSE
