SPECIFICATION Spec
CONSTANTS
  w1 = w1  w2 = w2
  Workers = {w1, w2}
  Length = 2
  Deferred <- NoneDeferred
  Ops <- Tombstones
  Gone = Gone
  MaxEvent = 3
INVARIANT RedactedKeepsCode
CHECK_DEADLOCK FALSE
