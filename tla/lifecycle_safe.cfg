SPECIFICATION Spec
CONSTANTS
  w1 = w1  w2 = w2
  Workers = {w1, w2}
  Length = 2
  Deferred <- OneDeferred
  Ops <- Writers
  Gone = Gone
  MaxEvent = 3
SYMMETRY Symmetry
INVARIANTS TypeOK LatestEventMatches ShreddedForGood
 
CHECK_DEADLOCK FALSE
