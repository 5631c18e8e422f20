CONSTANTS
  None = None
  k1 = k1
  k2 = k2
  text = text
  Keys = {k1, k2}
  Clients = {c1}
  Ids = {1, 2, 3, 4}
  Numbers <- MCNumbers
  Texts = {text}
  KeySize <- MCKeySize
  ValueSize <- MCValueSize
  MaxBytes = 4
  DefaultTTL = 1
  TTLs = {0, 2}
  MaxTime = 3
SPECIFICATION Spec
PROPERTIES
  ReadsDropOnlyExpired
CHECK_DEADLOCK FALSE
