CONSTANTS
  NoTask = NoTask
  None = None
  a = a
  b = b
  s1 = s1
  s2 = s2
  s3 = s3
  Tasks <- MCTasks
  Executors = {1}
  MaxRetries <- MCMaxRetries
  MaxWorkers = 1
  MaxQueue = 1
  Submissions <- MCSubmissions
  TaskOf <- MCTaskOf
  Priority <- MCPriority
  Stoppers = {c1}
SPECIFICATION FairSpec
INVARIANTS
  QueueBound
  NothingLost
  StopQuiesces
  DeliveredOnce
PROPERTIES
  TasksAsSpecified
  AcceptedIsDecided
  StopReturns
CHECK_DEADLOCK FALSE
