SPECIFICATION FairSpec
CONSTANTS
  Clients = {c1, c2}
  NKeys = 2
  TTL = 4
  Timeout = 2
  Work = 1
  MaxFaults = 2
  NoOne = NoOne
INVARIANTS MutualExclusion HoldsAll NoCircularWait
PROPERTIES  LockFreed
