CONSTANTS
  Absent = Absent
  Keys = {k1, k2}
  LimitArg = 2
  WindowArg = 1
  MaxTime = 5
SPECIFICATION Spec
INVARIANTS
  AtMostTwice
PROPERTIES
  IsFixedWindow
CHECK_DEADLOCK FALSE
