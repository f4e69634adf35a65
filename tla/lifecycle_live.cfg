SPECIFICATION FairSpec
CONSTANTS
  w1 = w1  w2 = w2
  Workers = {w1, w2}
  Length = 2
  Deferred <- NoneDeferred
  Ops <- Locking
  Gone = Gone
  MaxEvent = 2
PROPERTIES AlarmHasCause 
