CONSTANTS
  NClusters = 2
  NSteps = 2
  NotifBuffer = 1
  MaxChanges = 3
  MaxFaults = 1
SPECIFICATION FairSpec
INVARIANTS InstanceKeepsTemplates
PROPERTIES QueuesFollowTemplates
