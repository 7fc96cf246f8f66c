SPECIFICATION FairSpec
CONSTANTS
  MaxGen = 1
  MaxRevision = 2
  MaxFailures = 1
  Restarts = FALSE
PROPERTIES
  NeverSilentlyStale
  BusyEnds
  EndIsDelivered
CHECK_DEADLOCK FALSE
