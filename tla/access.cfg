SPECIFICATION Spec
CONSTANTS
  Workers = {w1, w2}
  Alone = w1
  Replicas = {w1, w2, w3}
  Users = {ann, bob}
  Admins = {ann}
  MaxVersion = 2
  MaxPairs = 2
  MaxTeamPairs = 3
  Codes = {c1}
  MaxUses = 1
  MaxAttempts = 2
  MaxKeys = 5
  SeedName = root
  Tokens = {t1}
  LimitedKeys = {"http", "auth"}
  Limits <- TwoKeys
  Windows <- SameWindow
  MaxTracked = 1
  MaxTime = 2
  MaxGen = 2
  Sockets = {s1, s2}
  Interval = 2
  MaxMessages = 3
INVARIANTS
  TypeOK
  
  LimiterHonest
PROPERTIES
  AccountsSafe
  PairingLimits
  CaptureSafe
CHECK_DEADLOCK FALSE
