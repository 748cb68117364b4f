SPECIFICATION FairSpec
CONSTANTS
  g1 = g1
  g2 = g2
  Goroutines = {g1, g2}
  Configs <- AllConfigs
  Children = 2
  MaxPollErrors = 2
  MaxFaults = 2
INVARIANTS
  OneAtATime
  WorkOncePerLife
  AnswersAgree
  SuccessIsTrue
  CompensationIsLast
PROPERTIES
  Answered
CHECK_DEADLOCK FALSE
