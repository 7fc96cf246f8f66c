SPECIFICATION Spec
CONSTANTS
  MaxGen = 2
  MaxRevision = 2
  MaxFailures = 1
  Restarts = TRUE
INVARIANTS
  QueueBelongsToMembership
  EndedNeverReturns
PROPERTY
  ViewNeverGoesBack
CHECK_DEADLOCK FALSE
