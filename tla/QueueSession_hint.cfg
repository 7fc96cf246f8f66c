SPECIFICATION Spec
CONSTANTS
  MaxGen = 1
  MaxRevision = 2
  MaxFailures = 1
  Restarts = FALSE
INVARIANT
  HintsAlwaysGetRead
CHECK_DEADLOCK FALSE
