SPECIFICATION Spec
CONSTANTS
  N = 2
  MaxRetries = 2
  MaxCrashes = 1
INVARIANT
  RollbackIsClean
CHECK_DEADLOCK FALSE
