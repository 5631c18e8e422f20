CONSTANTS
  None = None
  Closers = {c1}
  Publishers = {}
  Consumers = {}
  MaxRetries = 2
  MaxConns = 2
SPECIFICATION Spec
INVARIANTS
  LossIsSurvived
CHECK_DEADLOCK FALSE
