CONSTANTS
  NoTask = NoTask
  never = never
  once = once
  retried = retried
  Tasks <- MCTasks
  Executors = {w1, w2}
  MaxRetries <- MCMaxRetries
SPECIFICATION TaskFairSpec
INVARIANTS
  SingleExecution
  CrashOnlyAfterCancel
  WaitersSeeResult
  OutcomeMatchesRetries
PROPERTIES
  LateCallIsCancelled
  StartedIsDecided
  KeepsPromise
CHECK_DEADLOCK FALSE
