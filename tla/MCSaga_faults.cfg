SPECIFICATION Spec
CONSTANTS
  N = 3
  Handlers = {h1}
  Spawners = {}
  EarlyGiveUp = FALSE
  MaxFaults = 1
  MaxDups = 0
INVARIANTS UndoneInReverse CompensatedMeansUndone RequestedAtMostOnce BlockedIsReported
PROPERTIES FinalStaysFinal InvalidOnlyByLateTrigger ContractSpec
CHECK_DEADLOCK FALSE
