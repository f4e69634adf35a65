SPECIFICATION FairSpec
CONSTANTS
  w1 = w1  w2 = w2  acme = acme  beta = beta
  u1 = u1  u2 = u2  u3 = u3  q1 = q1  q2 = q2
  NoReq = NoReq  NoPayload = NoPayload
  Workers = {w1, w2}
  Payloads <- OneSpace
  Imports <- NoImports
  Neo4jEnabled = TRUE
  StrictLineage = TRUE
  MaxId = 3
PROPERTY EveryRequestEnds
