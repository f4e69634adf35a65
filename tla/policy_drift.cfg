SPECIFICATION Spec
CONSTANTS
  Workers = {w1, w2}
  Values = {1, 2}
  MaxVersion = 3
  NoTx = none
  Recallable = {1, 2, 3}
  Campaigns = {c1, c2}
  Parent <- ParentOf
  Cap = 1
  Limit = 1
  Events <- OutcomeEvents
  Window = 1
  MinDecided = 2
  MaxReports = 2
  Sessions = {"s"}
  Actions = {"a"}
  Malformed = {"m"}
  MaxBatches = 3
  MaxBatch = 2
  Requests = {1}
  Scope = {1, 2}
  MaxReviews = 2
  MaxChanges = 3
  Hashes = {1, 2, 3, 4}
  Rounds = {1, 2}
  Backends <- BackendsInOrder
  Configured = {"tsa"}
  Builds = {1}
  Scopes <- CapsuleScopes
  MaxNow = 4
  Commands = {c1, c2}
  Gates = {1}
  Claims <- ReviewClaims
  Typed = {2}
  Unit = 3
  MaxMinutes = 2
  Jobs = {1, 2}
  MaxAge = 1
  Ttl = 2
  MaxHours = 2
  Hooks = {1, 2}
  Threshold <- Thresholds
  Notified = {1}
  Scores = {60, 80}
INVARIANT PolicyNoDrift
CHECK_DEADLOCK FALSE
