SPECIFICATION Spec
CONSTANTS
  Indexes = {1, 2, 3}
  Tools <- OneOfEach
  Parts = 2
  Files = {"p", "q"}
  Texts = {"x", "-- y"}
  Alike = {"-- y"}
  MaxLines = 3
  Own = {"openai"}
  Generic = "unknown"
  MaxChunks = 2
  Collectable = 1
  MaxRequests = 2
  StoreIds = 3
  StoreLimit = 2
  StoreReviews = {"reviewed", "accepted"}
  StoreChanges = 2
  MaxBlocks = 2
  MaxReads = 2
  Pairs = {1, 2}
  Retention = 2
  MaxTime = 3
  Insertions = {1, 2}
  DocOf <- OneDoc
  Window = 1
  Near = 0
  ClaimRetention = 2
  MaxClaims = 2
  LegacyUuids = {1, 2, 3}
  LegacyLimit = 2
  LegacyOps = 4
  Calls = {1, 2}
  MaxGen = 3
  Records = {1, 2, 3}
  Cap = 1
  Pending = 2
  Attempts = 2
  MaxSockets = 2
  Alone = w1
  Payloads <- Captures
  MaxId = 5
  Neo4jEnabled = TRUE
  StrictLineage = FALSE
  none = none
  q1 = q1
  q2 = q2
INVARIANTS
  TypeOK
  
  GatewayHonestRelay
  StoreVerdictExact
  FileComplete
  MatchClaimedOnce
  StoresKeep
  
  SerialIngest
CHECK_DEADLOCK FALSE
