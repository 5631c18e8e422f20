CONSTANTS
  MaxWorkers = 1
  MaxRequests = 2
SPECIFICATION Spec
INVARIANT ExitIsClean
CHECK_DEADLOCK FALSE
