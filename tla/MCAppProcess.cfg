CONSTANTS
  MaxWorkers = 1
  MaxRequests = 2
  Handlers = {h1, h2}
  Hanging = {h2}
  Priorities <- MCPriorities
  Executors = {e1, e2}
SPECIFICATION ProcessSpec
INVARIANTS
  ClosedAtExit
PROPERTIES
  RequestsKeepDb
  SignalEnds
  CalledInOrder
  AcceptedIsCalled
  ExecuteReturns
CHECK_DEADLOCK FALSE
