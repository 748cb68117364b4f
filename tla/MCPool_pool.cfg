SPECIFICATION PoolSpec
CONSTANTS
  p1 = p1
  p2 = p2
  Publishers = {p1, p2}
  Consumers = {}
  NumChannels = 3
  MaxChannels = 2
  MaxTags = 2
  MaxStops = 1
  MaxFaults = 1
SYMMETRY Symmetry
INVARIANTS
  ExclusiveHolders
  SlotsAccounted
  ConfirmIsOwn
CHECK_DEADLOCK FALSE
