CONSTANTS
  None = None
  Closers = {c1}
  Publishers = {m1}
  Consumers = {d1, d2}
  MaxRetries = 2
  MaxConns = 2
SPECIFICATION FairSpec
INVARIANTS
  OneOpenChannel
  UnackedIsHeld
  ClosedForGood
PROPERTIES
  DeliversAtLeastOnce
  NoPublishAfterClose
  LostIsReplaced
  CloseEnds
CHECK_DEADLOCK FALSE
