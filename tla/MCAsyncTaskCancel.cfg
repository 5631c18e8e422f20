CONSTANTS
  NoTask = NoTask
  never = never
  once = once
  retried = retried
  Tasks <- MCTasks
  Executors = {w1, w2}
  MaxRetries <- MCMaxRetries
SPECIFICATION TaskSpec
INVARIANTS
  CancelIsSafe
CHECK_DEADLOCK FALSE
