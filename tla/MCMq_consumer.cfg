SPECIFICATION FairSpec
CONSTANTS
  c1 = c1
  m1 = m1
  Publishers = {}
  Consumers = {c1}
  NumChannels = 3
  MaxChannels = 2
  MaxTags = 0
  MaxStops = 1
  MaxFaults = 2
  Messages = {m1}
  NumReaders = 2
  MaxRetries = 1
  Modes = {"requeue", "republish", "drop"}

  
PROPERTIES
  CancelEnds
  Redelivered
CHECK_DEADLOCK FALSE
