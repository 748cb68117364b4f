SPECIFICATION ClientSpec
CONSTANTS
  N = 2
  Handlers = {h1}
  Spawners = {}
  EarlyGiveUp = FALSE
  MaxFaults = 1
  MaxDups = 0
INVARIANTS
  OutcomeIsWhole
CHECK_DEADLOCK FALSE
