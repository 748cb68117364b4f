SPECIFICATION FairSpec
CONSTANTS
  Sagas = {s1}
  Workers = {w1, w2}
  Clusters = {TRUE, FALSE}
  MaxStarts = 2
  MaxFaults = 1
INVARIANTS StoredOnce RepliesTellTruth DeafOnlyByWindow
PROPERTIES SubmissionEnds ReadyWithCluster BreakerCloses
CHECK_DEADLOCK FALSE
