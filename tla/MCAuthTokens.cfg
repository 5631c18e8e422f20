CONSTANTS
  Absent = Absent
  NoToken = NoToken
  NoId = NoId
  Resources = {resource}
  Lockers = {l1, l2, l3}
  Users = {u1}
  Values = {u1}
  Ids = {i1, i2}
  Callers = {c1}
  Keys = {resource, i1, i2}
SPECIFICATION Spec
INVARIANTS
  LockIsExclusive
PROPERTIES
  LockIsLease
  RevokedIsFinal
SYMMETRY MCSymmetry
CHECK_DEADLOCK FALSE
