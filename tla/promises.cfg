SPECIFICATION Spec
CONSTANTS
  w1 = w1  v1 = v1  v2 = v2  k1 = k1  k2 = k2  k3 = k3
  Handlers = {w1, w2}
  Chats = {v1}
  ChatSession <- OneSession
  HeldCalls = {k1, k2, k3}
  ChatOf <- OneChat
  ToolOf <- OneTool
  HeldEdits = {k1, k2, k3}
  HeldByName = FALSE
  HeldIds = TRUE
  HeldCap = 1
  HeldBatch = 2
  HeldRequests = 3
  Mails = {"r1", "r2"}
  MailPeriods = 2
  MailChanges = 2
INVARIANTS
  TypeOK
  HeldRecordedOnce
PROPERTIES
  HeldProposals
  RoutingConverges
  
  MailHonest
CHECK_DEADLOCK FALSE
