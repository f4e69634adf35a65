------------------------ MODULE ProvenanceIngest_proofs ------------------------
(* Proofs about ProvenanceIngest, for every number of requests, payloads and  *)
(* imports.                                                                   *)
EXTENDS ProvenanceIngest, FiniteSetTheorems, TLAPS

\* a request that is being served has a payload
PayloadKnown == \A w \in Workers : tx[w].pc # "idle" => tx[w].pay \in Payload

\* ids in use were drawn from the sequence
IdsDrawn == /\ \A r \in rows : r.id < nextId
            /\ \A w \in Workers : Inserted(w) => tx[w].id < nextId

\* an undisturbed workspace has one open insert at most ...
OneOpen ==
  \A v, w \in Workers :
    (Inserted(v) /\ Inserted(w) /\ SpaceOf(v) = SpaceOf(w) /\ SpaceOf(w) \notin disturbed) => v = w

\* ... whose id is behind every committed row ...
OpenBehind ==
  \A w \in Workers : (Inserted(w) /\ SpaceOf(w) \notin disturbed) =>
    \A r \in InSpace(SpaceOf(w)) : r.id < tx[w].id

\* ... and which, once it has read its predecessor, has read the last row
IsLast(r, ws) == r \in InSpace(ws) /\ \A s \in InSpace(ws) : s.id <= r.id

TailRead ==
  \A w \in Workers :
    (tx[w].pc \in {"lock", "lineage", "commit"} /\ SpaceOf(w) \notin disturbed) =>
      \/ InSpace(SpaceOf(w)) = {} /\ tx[w].prev = <<>>
      \/ \E r \in rows : IsLast(r, SpaceOf(w)) /\ tx[w].prev = r.hash

\* the type invariant, made inductive
Typed == TypeOK /\ PayloadKnown

-------------------------------------------------------------------------------
(* Type correctness. *)

\* a hash extended by one link is a hash
LEMMA HashType ==
  ASSUME NEW uuid \in Uuids, NEW prompt \in Prompts, NEW prev \in Seq(Link)
  PROVE  RecordHash(uuid, prompt, prev) \in Seq(Link)
BY DEF RecordHash, Link

\* the hashes of an import are hashes
LEMMA ImportHashType ==
  ASSUME NEW docs \in Seq(Uuids), NEW k \in 0..Len(docs)
  PROVE  ImportHash(docs, k) \in Seq(Link)
<1> DEFINE h == ImportHash(docs, k)
<1>1. h = [j \in 1..k |-> [uuid |-> docs[j], prompt |-> "surrogate"]]
  BY DEF ImportHash
<1>2. \A j \in 1..k : [uuid |-> docs[j], prompt |-> "surrogate"] \in Link
  BY DEF Link, Prompts
<1>3. h \in [1..k -> Link]
  BY <1>1, <1>2
<1> QED
  BY <1>3

\* an empty database is well typed
LEMMA TypeInit == Init => Typed
BY DEF Init, Typed, TypeOK, PayloadKnown, Idle, Fresh, Session, Steps

\* a session replaced by a session
LEMMA SessionUpdate ==
  ASSUME Typed, NEW w \in Workers, NEW s \in Session, s.pc # "idle" => s.pay \in Payload,
         tx' = [tx EXCEPT ![w] = s]
  PROVE  tx' \in [Workers -> Session] /\ PayloadKnown'
BY DEF Typed, TypeOK, PayloadKnown

\* closing a session leaves every session well typed
LEMMA EndType ==
  ASSUME Typed, NEW w \in Workers, End(w)
  PROVE  tx' \in [Workers -> Session] /\ PayloadKnown'
<1>1. Idle \in Session /\ Idle.pc = "idle"
  BY DEF Idle, Fresh, Session, Steps
<1> QED
  BY <1>1, SessionUpdate DEF End

\* so does moving a request on to another step
LEMMA GotoType ==
  ASSUME Typed, NEW w \in Workers, tx[w].pc # "idle", NEW l \in Steps, Goto(w, l)
  PROVE  tx' \in [Workers -> Session] /\ PayloadKnown'
<1> DEFINE s == [tx[w] EXCEPT !.pc = l]
<1>1. tx[w] \in Session /\ tx[w].pay \in Payload
  BY DEF Typed, TypeOK, PayloadKnown
<1>2. s \in Session /\ s.pay \in Payload
  BY <1>1 DEF Session
<1>3. tx' = [tx EXCEPT ![w] = s]
  BY DEF Goto
<1> QED
  BY <1>2, <1>3, SessionUpdate

\* every handler step keeps the types
LEMMA TypeStep == Typed /\ [Next]_vars => Typed'
<1> SUFFICES ASSUME Typed, [Next]_vars PROVE Typed'
  OBVIOUS
<1> USE DEF Typed, TypeOK, PayloadKnown
<1>1. ASSUME NEW w \in Workers, NEW p \in Payloads, Receive(w, p)
      PROVE  Typed'
  BY <1>1, PayloadsAssumption DEF Receive, Fresh, Session, Steps, Payload
<1>2. ASSUME NEW w \in Workers, NEW p \in Payloads, ReceiveRetry(w, p)
      PROVE  Typed'
  BY <1>2 DEF ReceiveRetry, Answer, InSpace, Row
<1>3. ASSUME NEW w \in Workers, NEW m \in Imports, ImportLoad(w, m)
      PROVE  Typed'
  <2>0. PICK n \in 0..Len(m.docs) : \E docs \in [1..n -> Uuids] :
          tx' = [tx EXCEPT ![w] =
            Fresh("import", [ws |-> m.ws, uuid |-> m.docs[1], req |-> NoReq], docs)]
    BY <1>3 DEF ImportLoad
  <2>1. PICK docs \in [1..n -> Uuids] :
          tx' = [tx EXCEPT ![w] =
            Fresh("import", [ws |-> m.ws, uuid |-> m.docs[1], req |-> NoReq], docs)]
    BY <2>0
  <2>2. m.docs \in Seq(Uuids) /\ m.docs # <<>>
    BY ImportsAssumption
  <2>3. n \in Nat /\ docs \in Seq(Uuids)
    BY <2>0, <2>1, <2>2
  <2>4. [ws |-> m.ws, uuid |-> m.docs[1], req |-> NoReq] \in Payload
    BY <2>2 DEF Payload, Spaces, Reqs
  <2> QED
    BY <2>1, <2>3, <2>4, <1>3 DEF ImportLoad, Fresh, Session, Steps
<1>4. ASSUME NEW w \in Workers, FindWorkspace(w)
      PROVE  Typed'
  <2>1. tx' \in [Workers -> Session] /\ PayloadKnown'
    BY <1>4, GotoType DEF FindWorkspace, Steps
  <2>2. SpaceOf(w) \in Spaces
    BY <1>4 DEF FindWorkspace, SpaceOf, Payload
  <2> QED
    BY <1>4, <2>1, <2>2 DEF FindWorkspace
<1>5. ASSUME NEW w \in Workers, FlushWorkspace(w)
      PROVE  Typed'
  <2> DEFINE s == [tx[w] EXCEPT !.pc = "lookup", !.newWs = SpaceOf(w) \notin workspaces]
  <2>1. tx[w] \in Session /\ tx[w].pay \in Payload /\ SpaceOf(w) \in Spaces
    BY <1>5 DEF FlushWorkspace, SpaceOf, Payload
  <2>2. s \in Session /\ s.pay \in Payload
    BY <2>1 DEF Session, Steps
  <2>3. tx' = [tx EXCEPT ![w] = s]
    BY <1>5 DEF FlushWorkspace
  <2>4. tx' \in [Workers -> Session] /\ PayloadKnown'
    BY <2>2, <2>3, SessionUpdate
  <2> QED
    BY <1>5, <2>1, <2>4 DEF FlushWorkspace
<1>6. ASSUME NEW w \in Workers, LookupNone(w)
      PROVE  Typed'
  <2>1. tx' \in [Workers -> Session] /\ PayloadKnown'
    BY <1>6, GotoType DEF LookupNone, Steps
  <2> QED
    BY <1>6, <2>1 DEF LookupNone
<1>7. ASSUME NEW w \in Workers, LookupDuplicate(w)
      PROVE  Typed'
  BY <1>7 DEF LookupDuplicate, End, Idle, Fresh, Answer, Existing, InSpace, Row, Session, Steps
<1>8. ASSUME NEW w \in Workers, LookupFails(w)
      PROVE  Typed'
  BY <1>8 DEF LookupFails, End, Idle, Fresh, Session, Steps
<1>9. ASSUME NEW w \in Workers, InsertRow(w)
      PROVE  Typed'
  <2> DEFINE s == [tx[w] EXCEPT !.pc = "select", !.id = nextId]
  <2>1. tx[w] \in Session /\ tx[w].pay \in Payload /\ SpaceOf(w) \in Spaces
    BY <1>9 DEF InsertRow, SpaceOf, Payload
  <2>2. s \in Session /\ s.pay \in Payload
    BY <2>1 DEF Session, Steps
  <2>3. tx' = [tx EXCEPT ![w] = s]
    BY <1>9 DEF InsertRow
  <2>4. tx' \in [Workers -> Session] /\ PayloadKnown'
    BY <2>2, <2>3, SessionUpdate
  <2> QED
    BY <1>9, <2>1, <2>4 DEF InsertRow
<1>10. ASSUME NEW w \in Workers, InsertConflict(w)
      PROVE  Typed'
  BY <1>10 DEF InsertConflict, End, Idle, Fresh, Answer, Existing, InSpace, Row, Session, Steps
<1>11. ASSUME NEW w \in Workers, SelectTail(w)
      PROVE  Typed'
  <2>1. tx[w] \in Session /\ tx[w].pay \in Payload
    BY <1>11 DEF SelectTail
  <2>2. CASE tx' = [tx EXCEPT ![w].pc = "lineage", ![w].prev = <<>>]
    <3> DEFINE s == [tx[w] EXCEPT !.pc = "lineage", !.prev = <<>>]
    <3>0. <<>> \in Seq(Link)
      OBVIOUS
    <3>1. s \in Session /\ s.pay \in Payload
      BY <2>1, <3>0 DEF Session, Steps
    <3>2. tx' = [tx EXCEPT ![w] = s]
      BY <2>2
    <3>3. tx' \in [Workers -> Session] /\ PayloadKnown'
      BY <3>1, <3>2, SessionUpdate
    <3> QED
      BY <1>11, <3>3 DEF SelectTail
  <2>3. ASSUME NEW r \in rows,
               tx' = [tx EXCEPT ![w].pc = "lock", ![w].tail = r.id, ![w].prev = r.hash]
        PROVE  Typed'
    <3> DEFINE s == [tx[w] EXCEPT !.pc = "lock", !.tail = r.id, !.prev = r.hash]
    <3>1. r.id \in Nat /\ r.hash \in Seq(Link)
      BY DEF Row
    <3>2. s \in Session /\ s.pay \in Payload
      BY <2>1, <3>1 DEF Session, Steps
    <3>3. tx' = [tx EXCEPT ![w] = s]
      BY <2>3
    <3>4. tx' \in [Workers -> Session] /\ PayloadKnown'
      BY <3>2, <3>3, SessionUpdate
    <3> QED
      BY <1>11, <3>4 DEF SelectTail
  <2> QED
    BY <1>11, <2>2, <2>3 DEF SelectTail
<1>12. ASSUME NEW w \in Workers, LockTail(w)
      PROVE  Typed'
  <2>1. tx' \in [Workers -> Session] /\ PayloadKnown'
    BY <1>12, GotoType DEF LockTail, Steps
  <2> QED
    BY <1>12, <2>1 DEF LockTail
<1>13. ASSUME NEW w \in Workers, WriteLineage(w)
      PROVE  Typed'
  <2> DEFINE s == [tx[w] EXCEPT !.pc = "commit", !.node = TRUE]
  <2>1. tx[w] \in Session /\ tx[w].pay \in Payload
    BY <1>13 DEF WriteLineage
  <2>2. s \in Session /\ s.pay \in Payload
    BY <2>1 DEF Session, Steps
  <2>3. tx' = [tx EXCEPT ![w] = s]
    BY <1>13 DEF WriteLineage
  <2>4. tx' \in [Workers -> Session] /\ PayloadKnown'
    BY <2>2, <2>3, SessionUpdate
  <2> QED
    BY <1>13, <2>1, <2>4 DEF WriteLineage, Payload
<1>14. ASSUME NEW w \in Workers, SkipLineage(w)
      PROVE  Typed'
  <2>1. tx' \in [Workers -> Session] /\ PayloadKnown'
    BY <1>14, GotoType DEF SkipLineage, Steps
  <2> QED
    BY <1>14, <2>1 DEF SkipLineage
<1>15. ASSUME NEW w \in Workers, LineageFails(w)
      PROVE  Typed'
  <2>1. tx' \in [Workers -> Session] /\ PayloadKnown'
    BY <1>15, GotoType, EndType DEF LineageFails, Steps
  <2>2. tx[w].pay \in Payload
    BY <1>15 DEF LineageFails
  <2> QED
    BY <1>15, <2>1, <2>2 DEF LineageFails, Payload
<1>16. ASSUME NEW w \in Workers, Commit(w)
      PROVE  Typed'
  <2>1. tx[w].pay \in Payload /\ tx[w] \in Session
    BY <1>16 DEF Commit
  <2>2. RecordHash(tx[w].pay.uuid, "own", tx[w].prev) \in Seq(Link)
    BY <2>1, HashType DEF Session, Payload, Prompts
  <2>3. NewRow(w) \in Row
    BY <2>1, <2>2 DEF NewRow, Row, SpaceOf, Payload, Session, Prompts
  <2>4. <<NewRow(w).ws, NewRow(w).uuid>> \in Spaces \X Uuids
    BY <2>3 DEF Row
  <2>5. SpaceOf(w) \in Spaces
    BY <2>1 DEF SpaceOf, Payload
  <2> QED
    BY <1>16, <2>3, <2>4, <2>5 DEF Commit, Answer, End, Idle, Fresh, Session, Steps
<1>17. ASSUME NEW w \in Workers, CommitFails(w)
      PROVE  Typed'
  <2> DEFINE s == Fresh("cleanup", tx[w].pay, <<>>)
  <2>1. tx[w].pay \in Payload
    BY <1>17 DEF CommitFails
  <2>2. s \in Session /\ s.pay \in Payload
    BY <2>1 DEF Fresh, Session, Steps
  <2>3. tx' \in [Workers -> Session] /\ PayloadKnown'
    BY <1>17, <2>2, SessionUpdate, EndType DEF CommitFails
  <2> QED
    BY <1>17, <2>3 DEF CommitFails
<1>18. ASSUME NEW w \in Workers, CleanupLineage(w)
      PROVE  Typed'
  BY <1>18 DEF CleanupLineage, End, Idle, Fresh, Session, Steps, Payload
<1>19. ASSUME NEW w \in Workers, ImportCommit(w)
      PROVE  Typed'
  <2>1. tx[w].pay \in Payload /\ tx[w].docs \in Seq(Uuids)
    BY <1>19 DEF ImportCommit, Session
  <2>2. ASSUME NEW k \in DOMAIN tx[w].docs
        PROVE  ImportRow(w, k) \in Row
    <3>1. k \in 1..Len(tx[w].docs) /\ k - 1 \in 0..Len(tx[w].docs) /\ k \in 0..Len(tx[w].docs)
      BY <2>1, <2>2
    <3>2. ImportHash(tx[w].docs, k) \in Seq(Link) /\ ImportHash(tx[w].docs, k - 1) \in Seq(Link)
      BY <2>1, <3>1, ImportHashType
    <3>3. nextId + k - 1 \in Nat /\ tx[w].docs[k] \in Uuids
      BY <2>1, <3>1
    <3> QED
      BY <2>1, <3>2, <3>3 DEF ImportRow, Row, SpaceOf, Payload, Reqs, Prompts
  <2>3. nextId + Len(tx[w].docs) \in Nat \ {0}
    BY <2>1
  <2>4. rows' \subseteq Row
    BY <1>19, <2>2 DEF ImportCommit
  <2>5. disturbed' \subseteq Spaces
    BY <1>19, <2>1 DEF ImportCommit, SpaceOf, Payload
  <2> QED
    BY <1>19, <2>3, <2>4, <2>5 DEF ImportCommit, End, Idle, Fresh, Session, Steps
<1>20. CASE Restart
  BY <1>20 DEF Restart, Idle, Fresh, Session, Steps
<1>21. CASE UNCHANGED vars
  BY <1>21 DEF vars
<1> QED
  BY <1>1, <1>2, <1>3, <1>4, <1>5, <1>6, <1>7, <1>8, <1>9, <1>10, <1>11, <1>12, <1>13, <1>14, <1>15, <1>16, <1>17, <1>18, <1>19, <1>20, <1>21 DEF Next, Serve

\* The type invariant holds in every reachable state.
THEOREM TypeCorrect == Spec => []TypeOK
<1>1. Typed => TypeOK
  BY DEF Typed
<1> QED
  BY TypeInit, TypeStep, <1>1, PTL DEF Spec
-------------------------------------------------------------------------------
(* The chain.  Everything the next record will link to is fixed while its     *)
(* insert is the only open one: committed ids are behind it (OpenBehind), so  *)
(* the predecessor it read is the last row and stays so until it commits.     *)

Order == IdsDrawn /\ OneOpen /\ OpenBehind /\ TailRead

\* nothing is open or stored at the start
LEMMA OrderInit == Init => Order /\ ChainIntact
BY DEF Init, Order, IdsDrawn, OneOpen, OpenBehind, TailRead, ChainIntact,
       VerifyChain, InSpace, Inserted, Idle, Fresh

\* a step that leaves rows and history alone and opens no insert (it may use up ids).
LEMMA QuietStep ==
  ASSUME Typed, Order, ChainIntact,
         UNCHANGED <<rows, disturbed>>, nextId' \in Nat, nextId' >= nextId,
         \A v \in Workers : Inserted(v)' =>
           /\ Inserted(v) /\ SpaceOf(v)' = SpaceOf(v) /\ tx'[v].id = tx[v].id
           /\ tx'[v].pc \in {"lock", "lineage", "commit"} =>
                /\ tx[v].pc \in {"lock", "lineage", "commit"}
                /\ tx'[v].prev = tx[v].prev
  PROVE  Order' /\ ChainIntact'
<1> USE DEF Order
<1>1. \A ws : InSpace(ws)' = InSpace(ws)
  BY DEF InSpace
<1>2. \A r, ws : IsLast(r, ws)' <=> IsLast(r, ws)
  BY <1>1 DEF IsLast
<1>3. IdsDrawn'
  <2>1. \A r \in rows : r.id \in Nat
    BY DEF Typed, TypeOK, Row
  <2>2. \A v \in Workers : tx[v].id \in Nat
    BY DEF Typed, TypeOK, Session
  <2>3. nextId \in Nat
    BY DEF Typed, TypeOK
  <2> QED
    BY <2>1, <2>2, <2>3 DEF IdsDrawn
<1>4. OneOpen'
  BY DEF OneOpen
<1>5. OpenBehind'
  BY <1>1 DEF OpenBehind
<1>6. \A v \in Workers : tx'[v].pc \in {"lock", "lineage", "commit"} => Inserted(v)'
  BY DEF Inserted
<1>7. TailRead'
  BY <1>1, <1>2, <1>6 DEF TailRead
<1>8. ChainIntact'
  BY <1>1 DEF ChainIntact, VerifyChain, RowVerifies, NoPredecessor, IsPredecessor
<1> QED
  BY <1>3, <1>4, <1>5, <1>7, <1>8

\* A session that is idle again, or moves on before the insert, is quiet.
LEMMA OutsideStep ==
  ASSUME Typed, Order, ChainIntact, NEW w \in Workers, NEW s,
         tx' = [tx EXCEPT ![w] = s],
         s.pc \notin {"select", "lock", "lineage", "commit"},
         UNCHANGED <<rows, disturbed>>, nextId' \in Nat, nextId' >= nextId
  PROVE  Order' /\ ChainIntact'
<1>1. \A v \in Workers : Inserted(v)' => v # w /\ tx'[v] = tx[v]
  BY DEF Inserted, Typed, TypeOK
<1> QED
  BY <1>1, QuietStep DEF Inserted, SpaceOf

\* closing a session without a commit disturbs neither order nor chain
LEMMA EndStep ==
  ASSUME Typed, Order, ChainIntact, NEW w \in Workers, End(w),
         UNCHANGED <<rows, disturbed>>, nextId' \in Nat, nextId' >= nextId
  PROVE  Order' /\ ChainIntact'
<1>1. Idle.pc \notin {"select", "lock", "lineage", "commit"}
  BY DEF Idle, Fresh
<1>2. tx' = [tx EXCEPT ![w] = Idle]
  BY DEF End
<1> QED
  BY <1>1, <1>2, OutsideStep

\* the facts about types the steps below need
LEMMA Numbers ==
  ASSUME Typed
  PROVE  /\ nextId \in Nat
         /\ \A r \in rows : r.id \in Nat
         /\ \A v \in Workers : tx[v].id \in Nat
         /\ \A v \in Workers : tx[v].pc # "idle" => SpaceOf(v) \in Spaces
BY DEF Typed, TypeOK, PayloadKnown, Row, Session, Payload, SpaceOf

\* the flush draws the largest id so far, or marks the workspace disturbed
LEMMA InsertRowStep ==
  ASSUME Typed, Order, ChainIntact, NEW w \in Workers, InsertRow(w)
  PROVE  Order' /\ ChainIntact'
<1> USE Numbers DEF Order
<1>1. /\ tx[w].pc = "insert" /\ ~Inserted(w)
      /\ rows' = rows /\ nextId' = nextId + 1
      /\ \A v \in Workers : v # w => tx'[v] = tx[v]
      /\ tx'[w].pc = "select" /\ tx'[w].id = nextId /\ tx'[w].pay = tx[w].pay
  BY DEF InsertRow, Inserted, Typed, TypeOK, Session
<1>2. /\ \A v \in Workers : SpaceOf(v)' = SpaceOf(v)
      /\ \A v \in Workers : v # w => (Inserted(v)' <=> Inserted(v))
      /\ Inserted(w)'
  BY <1>1 DEF SpaceOf, Inserted
<1>3. /\ \A ws : ws \notin disturbed' => ws \notin disturbed
      /\ \A v \in Workers : (Inserted(v) /\ SpaceOf(v) = SpaceOf(w)) => SpaceOf(w) \in disturbed'
  BY DEF InsertRow
<1>4. \A ws : InSpace(ws)' = InSpace(ws)
  BY <1>1 DEF InSpace
<1>5. IdsDrawn'
  BY <1>1, <1>2 DEF IdsDrawn
<1>6. OneOpen'
  BY <1>2, <1>3 DEF OneOpen
<1>7. OpenBehind'
  <2> SUFFICES ASSUME NEW v \in Workers, Inserted(v)', SpaceOf(v)' \notin disturbed',
                      NEW r \in InSpace(SpaceOf(v))'
               PROVE  r.id < tx'[v].id
    BY DEF OpenBehind
  <2>1. r \in InSpace(SpaceOf(v)) /\ r \in rows
    BY <1>2, <1>4 DEF InSpace
  <2>2. CASE v = w
    BY <1>1, <2>1, <2>2 DEF IdsDrawn
  <2>3. CASE v # w
    BY <1>1, <1>2, <1>3, <2>1, <2>3 DEF OpenBehind
  <2> QED
    BY <2>2, <2>3
<1>8. TailRead'
  <2>1. \A r, ws : IsLast(r, ws)' <=> IsLast(r, ws)
    BY <1>4 DEF IsLast
  <2> QED
    BY <1>1, <1>2, <1>3, <1>4, <2>1 DEF TailRead
<1>9. ChainIntact'
  BY <1>1, <1>3, <1>4
     DEF ChainIntact, VerifyChain, RowVerifies, NoPredecessor, IsPredecessor
<1> QED
  BY <1>5, <1>6, <1>7, <1>8, <1>9

\* in an undisturbed workspace the predecessor query finds the last row
LEMMA SelectTailStep ==
  ASSUME Typed, Order, ChainIntact, NEW w \in Workers, SelectTail(w)
  PROVE  Order' /\ ChainIntact'
<1> USE Numbers DEF Order
<1>1. /\ Inserted(w) /\ Inserted(w)'
      /\ rows' = rows /\ nextId' = nextId /\ disturbed' = disturbed
      /\ \A v \in Workers : v # w => tx'[v] = tx[v]
      /\ tx'[w].id = tx[w].id /\ tx'[w].pay = tx[w].pay
  <2>1. tx \in [Workers -> Session] /\ tx[w].pc = "select"
    BY DEF SelectTail, Typed, TypeOK
  <2>2. CASE tx' = [tx EXCEPT ![w].pc = "lineage", ![w].prev = <<>>]
    <3>1. tx'[w] = [tx[w] EXCEPT !.pc = "lineage", !.prev = <<>>]
      BY <2>1, <2>2
    <3>2. tx'[w].pc = "lineage" /\ tx'[w].id = tx[w].id /\ tx'[w].pay = tx[w].pay
      BY <2>1, <3>1 DEF Session
    <3>3. \A v \in Workers : v # w => tx'[v] = tx[v]
      BY <2>1, <2>2
    <3> QED
      BY <2>1, <3>2, <3>3 DEF SelectTail, Inserted
  <2>3. ASSUME NEW r \in rows,
               tx' = [tx EXCEPT ![w].pc = "lock", ![w].tail = r.id, ![w].prev = r.hash]
        PROVE  /\ Inserted(w) /\ Inserted(w)'
               /\ rows' = rows /\ nextId' = nextId /\ disturbed' = disturbed
               /\ \A v \in Workers : v # w => tx'[v] = tx[v]
               /\ tx'[w].id = tx[w].id /\ tx'[w].pay = tx[w].pay
    <3>1. tx'[w] = [tx[w] EXCEPT !.pc = "lock", !.tail = r.id, !.prev = r.hash]
      BY <2>1, <2>3
    <3>2. tx'[w].pc = "lock" /\ tx'[w].id = tx[w].id /\ tx'[w].pay = tx[w].pay
      BY <2>1, <3>1 DEF Session
    <3>3. \A v \in Workers : v # w => tx'[v] = tx[v]
      BY <2>1, <2>3
    <3> QED
      BY <2>1, <3>2, <3>3 DEF SelectTail, Inserted
  <2> QED
    BY <2>2, <2>3 DEF SelectTail
<1>2. /\ \A v \in Workers : SpaceOf(v)' = SpaceOf(v)
      /\ \A v \in Workers : Inserted(v)' <=> Inserted(v)
      /\ \A v \in Workers : tx'[v].id = tx[v].id
  BY <1>1 DEF SpaceOf, Inserted
<1>3. \A ws : InSpace(ws)' = InSpace(ws)
  BY <1>1 DEF InSpace
<1>4. IdsDrawn' /\ OneOpen' /\ OpenBehind'
  BY <1>1, <1>2, <1>3 DEF IdsDrawn, OneOpen, OpenBehind
<1>5. TailRead'
  <2>1. \A r, ws : IsLast(r, ws)' <=> IsLast(r, ws)
    BY <1>3 DEF IsLast
  <2> SUFFICES ASSUME NEW v \in Workers, tx'[v].pc \in {"lock", "lineage", "commit"},
                      SpaceOf(v)' \notin disturbed'
               PROVE  \/ InSpace(SpaceOf(v))' = {} /\ tx'[v].prev = <<>>
                      \/ \E r \in rows' : IsLast(r, SpaceOf(v))' /\ tx'[v].prev = r.hash
    BY <1>2 DEF TailRead
  <2>2. CASE v # w
    BY <1>1, <1>2, <1>3, <2>1, <2>2 DEF TailRead
  <2>3. CASE v = w
    <3>1. \A r \in InSpace(SpaceOf(w)) : r.id < tx[w].id
      BY <1>1, <1>2, <2>3 DEF OpenBehind
    <3>2. CASE /\ NoPredecessor(SpaceOf(w), tx[w].id)
               /\ tx' = [tx EXCEPT ![w].pc = "lineage", ![w].prev = <<>>]
      <4>1. InSpace(SpaceOf(w)) = {}
        BY <3>1, <3>2 DEF NoPredecessor
      <4>2. tx'[w].prev = <<>>
        BY <3>2 DEF Typed, TypeOK, Session
      <4> QED
        BY <1>2, <1>3, <2>3, <4>1, <4>2
    <3>3. ASSUME NEW r \in rows, IsPredecessor(r, SpaceOf(w), tx[w].id),
                 tx' = [tx EXCEPT ![w].pc = "lock", ![w].tail = r.id, ![w].prev = r.hash]
          PROVE  \E s \in rows' : IsLast(s, SpaceOf(v))' /\ tx'[v].prev = s.hash
      <4>1. IsLast(r, SpaceOf(w))
        BY <3>1, <3>3 DEF IsPredecessor, IsLast
      <4>2. tx'[w].prev = r.hash
        BY <3>3 DEF Typed, TypeOK, Session
      <4> QED
        BY <1>1, <1>2, <2>1, <2>3, <4>1, <4>2
    <3> QED
      BY <2>3, <3>2, <3>3 DEF SelectTail
  <2> QED
    BY <2>2, <2>3
<1>6. ChainIntact'
  BY <1>1, <1>3 DEF ChainIntact, VerifyChain, RowVerifies, NoPredecessor, IsPredecessor
<1> QED
  BY <1>4, <1>5, <1>6

\* the lock, and the lineage node whatever comes of it, change nothing the chain rests on
LEMMA AfterReadStep ==
  ASSUME Typed, Order, ChainIntact, NEW w \in Workers,
         LockTail(w) \/ WriteLineage(w) \/ SkipLineage(w) \/ LineageFails(w)
  PROVE  Order' /\ ChainIntact'
<1> USE Numbers
<1>0. tx \in [Workers -> Session]
  BY DEF Typed, TypeOK
<1>1. CASE End(w)
  <2>1. UNCHANGED <<rows, disturbed>> /\ nextId' \in Nat /\ nextId' >= nextId
    BY DEF LockTail, WriteLineage, SkipLineage, LineageFails
  <2> QED
    BY <1>1, <2>1, EndStep
<1>2. CASE ~End(w)
  <2>1. /\ tx'[w].pc \in {"lineage", "commit"} /\ tx[w].pc \in {"lock", "lineage"}
        /\ tx'[w].id = tx[w].id /\ tx'[w].prev = tx[w].prev /\ tx'[w].pay = tx[w].pay
    <3>1. CASE Goto(w, "lineage") \/ Goto(w, "commit")
      BY <1>0, <1>2, <3>1 DEF Goto, LockTail, WriteLineage, SkipLineage, LineageFails, Session
    <3>2. CASE tx' = [tx EXCEPT ![w].pc = "commit", ![w].node = TRUE]
      <4>1. tx'[w] = [tx[w] EXCEPT !.pc = "commit", !.node = TRUE]
        BY <1>0, <3>2
      <4>2. tx[w].pc \in {"lock", "lineage"}
        BY DEF LockTail, WriteLineage, SkipLineage, LineageFails
      <4> QED
        BY <1>0, <4>1, <4>2 DEF Session
    <3> QED
      BY <1>2, <3>1, <3>2 DEF LockTail, WriteLineage, SkipLineage, LineageFails
  <2>2. /\ \A v \in Workers : v # w => tx'[v] = tx[v]
        /\ UNCHANGED <<rows, nextId, disturbed>>
    BY <1>0, <1>2 DEF Goto, LockTail, WriteLineage, SkipLineage, LineageFails
  <2>3. \A v \in Workers : Inserted(v)' =>
          /\ Inserted(v) /\ SpaceOf(v)' = SpaceOf(v) /\ tx'[v].id = tx[v].id
          /\ tx'[v].pc \in {"lock", "lineage", "commit"} =>
               /\ tx[v].pc \in {"lock", "lineage", "commit"}
               /\ tx'[v].prev = tx[v].prev
    BY <2>1, <2>2 DEF Inserted, SpaceOf
  <2>4. UNCHANGED <<rows, disturbed>> /\ nextId' \in Nat /\ nextId' >= nextId
    BY <2>2
  <2> QED
    BY <2>3, <2>4, QuietStep
<1> QED
  BY <1>1, <1>2

\* what a commit adds: one row, behind all others of an undisturbed workspace and linked to the last
LEMMA CommitStep ==
  ASSUME Typed, Order, ChainIntact, NEW w \in Workers, Commit(w)
  PROVE  Order' /\ ChainIntact'
<1> USE Numbers DEF Order
<1>0. PICK n : n = NewRow(w)
  OBVIOUS
<1>1. /\ Inserted(w) /\ tx[w].pc = "commit"
      /\ rows' = rows \cup {n} /\ nextId' = nextId /\ disturbed' = disturbed
      /\ \A v \in Workers : v # w => tx'[v] = tx[v]
      /\ ~Inserted(w)'
  BY <1>0 DEF Commit, End, Idle, Fresh, Inserted, Typed, TypeOK
<1>2. /\ n.id = tx[w].id /\ n.ws = SpaceOf(w) /\ n.prev = tx[w].prev
      /\ n.hash = RecordHash(n.uuid, n.prompt, n.prev)
  BY <1>0 DEF NewRow
<1>3. \A v \in Workers : Inserted(v)' => v # w /\ Inserted(v) /\ SpaceOf(v)' = SpaceOf(v)
  BY <1>1 DEF Inserted, SpaceOf
<1>4. \A v \in Workers : (Inserted(v)' /\ SpaceOf(v) \notin disturbed) => SpaceOf(v) # n.ws
  BY <1>1, <1>2, <1>3 DEF OneOpen
<1>5. \A ws : ws # n.ws => InSpace(ws)' = InSpace(ws)
  BY <1>1 DEF InSpace
<1>6. InSpace(n.ws)' = InSpace(n.ws) \cup {n}
  BY <1>1 DEF InSpace
<1>7. IdsDrawn'
  BY <1>1, <1>2, <1>3 DEF IdsDrawn
<1>8. OneOpen'
  BY <1>1, <1>3 DEF OneOpen
<1>9. OpenBehind'
  BY <1>1, <1>3, <1>4, <1>5 DEF OpenBehind
<1>10. TailRead'
  <2> SUFFICES ASSUME NEW v \in Workers, tx'[v].pc \in {"lock", "lineage", "commit"},
                      SpaceOf(v)' \notin disturbed'
               PROVE  \/ InSpace(SpaceOf(v))' = {} /\ tx'[v].prev = <<>>
                      \/ \E r \in rows' : IsLast(r, SpaceOf(v))' /\ tx'[v].prev = r.hash
    <3>1. \A v \in Workers : tx'[v].pc \in {"lock", "lineage", "commit"} => SpaceOf(v)' = SpaceOf(v)
      BY <1>3 DEF Inserted
    <3> QED
      BY <3>1 DEF TailRead
  <2>1. /\ v # w /\ tx'[v] = tx[v] /\ SpaceOf(v)' = SpaceOf(v)
        /\ SpaceOf(v) # n.ws /\ SpaceOf(v) \notin disturbed
    BY <1>1, <1>3, <1>4 DEF Inserted
  <2>2. InSpace(SpaceOf(v))' = InSpace(SpaceOf(v))
    BY <1>5, <2>1
  <2>3. \A r : IsLast(r, SpaceOf(v))' <=> IsLast(r, SpaceOf(v))
    BY <2>1, <2>2 DEF IsLast
  <2> QED
    BY <1>1, <2>1, <2>2, <2>3 DEF TailRead
<1>11. ChainIntact'
  <2> SUFFICES ASSUME NEW ws \in Spaces \ disturbed, NEW r \in InSpace(ws)'
               PROVE  RowVerifies(r)'
    BY <1>1 DEF ChainIntact, VerifyChain
  <2>1. \A s \in InSpace(ws) : RowVerifies(s)
    BY DEF ChainIntact, VerifyChain
  <2>2. CASE ws # n.ws
    <3>1. r \in InSpace(ws) /\ r.ws = ws /\ InSpace(ws)' = InSpace(ws)
      BY <1>5, <2>2 DEF InSpace
    <3> QED
      BY <1>1, <2>1, <3>1 DEF RowVerifies, NoPredecessor, IsPredecessor
  <2>3. CASE ws = n.ws
    <3>1. \A s \in InSpace(ws) : s.id < n.id
      BY <1>1, <1>2, <2>3 DEF OpenBehind
    <3>2. CASE r = n
      <4>1. n.ws = ws /\ n \in rows'
        BY <1>1, <2>3
      <4>2. /\ n.id \in Nat
            /\ \A s \in InSpace(ws)' : s.id < n.id => s \in InSpace(ws)
        BY <1>2, <1>6, <2>3
      <4>3. CASE InSpace(ws) = {} /\ n.prev = <<>>
        BY <1>2, <3>2, <4>1, <4>2, <4>3 DEF RowVerifies, NoPredecessor
      <4>4. ASSUME NEW s \in rows, IsLast(s, ws), n.prev = s.hash
            PROVE  RowVerifies(r)'
        <5>1. IsPredecessor(s, ws, n.id)'
          BY <1>6, <2>3, <3>1, <4>2, <4>4 DEF IsLast, IsPredecessor
        <5> QED
          BY <1>1, <1>2, <3>2, <4>1, <4>4, <5>1 DEF RowVerifies
      <4> QED
        BY <1>1, <1>2, <2>3, <4>3, <4>4 DEF TailRead
    <3>3. CASE r # n
      <4>1. r \in InSpace(ws) /\ r \in rows /\ r.ws = ws /\ r.id < n.id
        BY <1>6, <2>3, <3>1, <3>3 DEF InSpace
      <4>2. \A s \in InSpace(ws)' : s.id < r.id => s \in InSpace(ws)
        BY <1>2, <1>6, <2>3, <4>1
      <4>3. InSpace(ws) \subseteq InSpace(ws)'
        BY <1>6, <2>3
      <4>4. NoPredecessor(ws, r.id) => NoPredecessor(ws, r.id)'
        BY <4>2 DEF NoPredecessor
      <4>5. \A s : IsPredecessor(s, ws, r.id) => IsPredecessor(s, ws, r.id)'
        BY <4>2, <4>3 DEF IsPredecessor
      <4> QED
        BY <1>1, <2>1, <4>1, <4>4, <4>5 DEF RowVerifies
    <3> QED
      BY <3>2, <3>3
  <2> QED
    BY <2>2, <2>3
<1> QED
  BY <1>7, <1>8, <1>9, <1>10, <1>11

\* an import adds rows to a workspace it marks as disturbed, or nothing
LEMMA ImportCommitStep ==
  ASSUME Typed, Order, ChainIntact, NEW w \in Workers, ImportCommit(w)
  PROVE  Order' /\ ChainIntact'
<1> USE Numbers DEF Order
<1>1. /\ tx[w].docs \in Seq(Uuids)
      /\ nextId' = nextId + Len(tx[w].docs) /\ nextId' \in Nat /\ nextId' >= nextId
      /\ tx' = [tx EXCEPT ![w] = Idle]
      /\ Idle.pc \notin {"select", "lock", "lineage", "commit"}
  BY DEF ImportCommit, End, Idle, Fresh, Typed, TypeOK, Session
<1>2. CASE UNCHANGED <<rows, disturbed>>
  BY <1>1, <1>2, OutsideStep
<1>3. CASE /\ rows' = rows \cup {ImportRow(w, k) : k \in DOMAIN tx[w].docs}
           /\ disturbed' = IF tx[w].docs = <<>> THEN disturbed
                                                ELSE disturbed \cup {SpaceOf(w)}
  <2>1. CASE tx[w].docs = <<>>
    <3>1. DOMAIN tx[w].docs = {}
      BY <2>1
    <3>2. UNCHANGED <<rows, disturbed>>
      BY <1>3, <2>1, <3>1
    <3> QED
      BY <1>2, <3>2
  <2>2. CASE tx[w].docs # <<>>
    <3>1. /\ \A r \in rows' : r \in rows \/ (r.ws = SpaceOf(w) /\ r.id < nextId')
          /\ rows \subseteq rows'
          /\ disturbed' = disturbed \cup {SpaceOf(w)}
      <4>1. \A k \in DOMAIN tx[w].docs : k \in 1..Len(tx[w].docs)
        BY <1>1
      <4>2. \A k \in DOMAIN tx[w].docs : nextId + k - 1 < nextId + Len(tx[w].docs)
        BY <1>1, <4>1
      <4>3. \A k \in DOMAIN tx[w].docs : ImportRow(w, k).ws = SpaceOf(w) /\ ImportRow(w, k).id < nextId'
        BY <1>1, <4>2 DEF ImportRow
      <4> QED
        BY <1>3, <2>2, <4>3
    <3>2. \A ws : ws \notin disturbed' => InSpace(ws)' = InSpace(ws) /\ ws \notin disturbed
      BY <3>1 DEF InSpace
    <3>3. \A v \in Workers : Inserted(v)' => v # w /\ tx'[v] = tx[v] /\ Inserted(v) /\ SpaceOf(v)' = SpaceOf(v)
      BY <1>1 DEF Inserted, SpaceOf, Typed, TypeOK
    <3>4. IdsDrawn'
      BY <1>1, <3>1, <3>3 DEF IdsDrawn
    <3>5. OneOpen'
      BY <3>2, <3>3 DEF OneOpen
    <3>6. OpenBehind'
      BY <3>2, <3>3 DEF OpenBehind
    <3>7. TailRead'
      <4>1. \A ws, r : ws \notin disturbed' => (IsLast(r, ws)' <=> IsLast(r, ws))
        BY <3>2 DEF IsLast
      <4>2. \A v \in Workers : tx'[v].pc \in {"lock", "lineage", "commit"} => Inserted(v)'
        BY DEF Inserted
      <4> QED
        BY <3>1, <3>2, <3>3, <4>1, <4>2 DEF TailRead
    <3>8. ChainIntact'
      <4> SUFFICES ASSUME NEW ws \in Spaces \ disturbed', NEW r \in InSpace(ws)'
                   PROVE  RowVerifies(r)'
        BY DEF ChainIntact, VerifyChain
      <4>1. r \in InSpace(ws) /\ r.ws = ws /\ InSpace(ws)' = InSpace(ws) /\ ws \notin disturbed
        BY <3>2 DEF InSpace
      <4>2. RowVerifies(r)
        BY <4>1 DEF ChainIntact, VerifyChain
      <4> QED
        BY <3>1, <4>1, <4>2 DEF RowVerifies, NoPredecessor, IsPredecessor
    <3> QED
      BY <3>4, <3>5, <3>6, <3>7, <3>8
  <2> QED
    BY <2>1, <2>2
<1> QED
  BY <1>2, <1>3 DEF ImportCommit

\* every step keeps the order of ids and the chain
LEMMA OrderStep == Typed /\ Order /\ ChainIntact /\ [Next]_vars => Order' /\ ChainIntact'
<1> SUFFICES ASSUME Typed, Order, ChainIntact, [Next]_vars
             PROVE  Order' /\ ChainIntact'
  OBVIOUS
<1> DEFINE Calm == UNCHANGED <<rows, disturbed>> /\ nextId' \in Nat /\ nextId' >= nextId
<1>0. nextId \in Nat /\ nextId + 1 \in Nat /\ nextId + 1 >= nextId /\ tx \in [Workers -> Session]
  BY DEF Typed, TypeOK
<1>1. ASSUME NEW w \in Workers, NEW p \in Payloads, Receive(w, p)
      PROVE  Order' /\ ChainIntact'
  <2>1. Fresh("workspace", p, <<>>).pc \notin {"select", "lock", "lineage", "commit"}
    BY DEF Fresh
  <2>2. Calm /\ tx' = [tx EXCEPT ![w] = Fresh("workspace", p, <<>>)]
    BY <1>0, <1>1 DEF Receive
  <2> QED
    BY <2>1, <2>2, OutsideStep
<1>2. ASSUME UNCHANGED <<rows, nextId, disturbed, tx>>
      PROVE  Order' /\ ChainIntact'
  BY <1>0, <1>2, QuietStep DEF Inserted, SpaceOf
<1>3. ASSUME NEW w \in Workers, NEW p \in Payloads, ReceiveRetry(w, p)
      PROVE  Order' /\ ChainIntact'
  BY <1>2, <1>3 DEF ReceiveRetry
<1>4. ASSUME NEW w \in Workers, NEW m \in Imports, ImportLoad(w, m)
      PROVE  Order' /\ ChainIntact'
  <2>1. PICK n \in 0..Len(m.docs) : \E docs \in [1..n -> Uuids] :
          tx' = [tx EXCEPT ![w] =
            Fresh("import", [ws |-> m.ws, uuid |-> m.docs[1], req |-> NoReq], docs)]
    BY <1>4 DEF ImportLoad
  <2>2. PICK docs \in [1..n -> Uuids] :
          tx' = [tx EXCEPT ![w] =
            Fresh("import", [ws |-> m.ws, uuid |-> m.docs[1], req |-> NoReq], docs)]
    BY <2>1
  <2> DEFINE s == Fresh("import", [ws |-> m.ws, uuid |-> m.docs[1], req |-> NoReq], docs)
  <2>3. s.pc \notin {"select", "lock", "lineage", "commit"}
    BY DEF Fresh
  <2>4. tx' = [tx EXCEPT ![w] = s]
    BY <2>2
  <2>5. Calm
    BY <1>0, <1>4 DEF ImportLoad
  <2> HIDE DEF s
  <2> QED
    BY <2>3, <2>4, <2>5, OutsideStep
<1>5. ASSUME NEW w \in Workers, FindWorkspace(w) \/ FlushWorkspace(w) \/ LookupNone(w)
      PROVE  Order' /\ ChainIntact'
  <2>1. /\ \A v \in Workers : v # w => tx'[v] = tx[v]
        /\ tx'[w].pc \in {"lookup", "stub", "insert"}
    BY <1>0, <1>5 DEF FindWorkspace, FlushWorkspace, LookupNone, Goto, Session
  <2>2. Calm
    BY <1>0, <1>5 DEF FindWorkspace, FlushWorkspace, LookupNone
  <2> QED
    BY <2>1, <2>2, QuietStep DEF Inserted, SpaceOf
<1>6. ASSUME NEW w \in Workers,
             LookupDuplicate(w) \/ LookupFails(w) \/ InsertConflict(w) \/ CleanupLineage(w)
      PROVE  Order' /\ ChainIntact'
  <2>1. End(w)
    BY <1>6 DEF LookupDuplicate, LookupFails, InsertConflict, CleanupLineage
  <2>2. Calm
    BY <1>0, <1>6 DEF LookupDuplicate, LookupFails, InsertConflict, CleanupLineage
  <2> QED
    BY <2>1, <2>2, EndStep
<1>7. ASSUME NEW w \in Workers, CommitFails(w)
      PROVE  Order' /\ ChainIntact'
  <2>1. Calm
    BY <1>0, <1>7 DEF CommitFails
  <2>2. CASE End(w)
    BY <2>1, <2>2, EndStep
  <2>3. CASE tx' = [tx EXCEPT ![w] = Fresh("cleanup", tx[w].pay, <<>>)]
    <3>1. Fresh("cleanup", tx[w].pay, <<>>).pc \notin {"select", "lock", "lineage", "commit"}
      BY DEF Fresh
    <3> QED
      BY <2>1, <2>3, <3>1, OutsideStep
  <2> QED
    BY <1>7, <2>2, <2>3 DEF CommitFails
<1>8. CASE Restart
  <2>1. \A v \in Workers : ~Inserted(v)'
    BY <1>8 DEF Restart, Inserted, Idle, Fresh
  <2>2. Calm
    BY <1>0, <1>8 DEF Restart
  <2> QED
    BY <2>1, <2>2, QuietStep
<1>9. CASE UNCHANGED vars
  BY <1>2, <1>9 DEF vars
<1> QED
  BY <1>1, <1>3, <1>4, <1>5, <1>6, <1>7, <1>8, <1>9,
     InsertRowStep, SelectTailStep, AfterReadStep, CommitStep, ImportCommitStep
     DEF Next, Serve

\* Whatever is retried, rolled back, failed or cut off by a restart, the chain of a
\* workspace whose inserts never overlapped, and into which nothing was imported, verifies.
THEOREM ChainVerifies == Spec => []ChainIntact
<1> DEFINE I == Typed /\ Order /\ ChainIntact
<1>1. Init => I
  BY TypeInit, OrderInit
<1>2. I /\ [Next]_vars => I'
  BY TypeStep, OrderStep
<1>3. I => ChainIntact
  OBVIOUS
<1> QED
  BY <1>1, <1>2, <1>3, PTL DEF Spec

\* In such a workspace records are appended in the order of their ids.
THEOREM AppendsAtTail == Spec => TailAppend
<1> DEFINE I == Typed /\ Order /\ ChainIntact
<1> DEFINE Behind == \A ws \in Spaces \ disturbed' :
                       \A r \in rows' \ rows : r.ws = ws =>
                         \A s \in rows : s.ws = ws => s.id < r.id
<1>1. Init => I
  BY TypeInit, OrderInit
<1>2. I /\ [Next]_vars => I'
  BY TypeStep, OrderStep
<1>3. I /\ [Next]_vars => [Behind]_vars
  <2> SUFFICES ASSUME I, Next PROVE Behind
    OBVIOUS
  <2>1. ASSUME NEW w \in Workers, Commit(w) PROVE Behind
    <3>1. /\ rows' = rows \cup {NewRow(w)} /\ disturbed' = disturbed
          /\ NewRow(w).ws = SpaceOf(w) /\ NewRow(w).id = tx[w].id /\ Inserted(w)
      BY <2>1 DEF Commit, NewRow, Inserted
    <3> QED
      BY <3>1 DEF Order, OpenBehind, InSpace
  <2>2. ASSUME NEW w \in Workers, ImportCommit(w) PROVE Behind
    <3>1. \A k \in DOMAIN tx[w].docs : ImportRow(w, k).ws = SpaceOf(w)
      BY DEF ImportRow
    <3>2. CASE UNCHANGED rows
      BY <3>2
    <3>3. CASE tx[w].docs = <<>> /\ rows' = rows \cup {ImportRow(w, k) : k \in DOMAIN tx[w].docs}
      <4>1. DOMAIN tx[w].docs = {}
        BY <3>3
      <4> QED
        BY <3>3, <4>1
    <3>4. CASE /\ disturbed' = disturbed \cup {SpaceOf(w)}
               /\ rows' = rows \cup {ImportRow(w, k) : k \in DOMAIN tx[w].docs}
      BY <3>1, <3>4
    <3> QED
      BY <2>2, <3>2, <3>3, <3>4 DEF ImportCommit
  <2>3. CASE UNCHANGED rows
    BY <2>3
  <2>4. rows' = rows \/ (\E w \in Workers : Commit(w) \/ ImportCommit(w))
    BY DEF Next, Serve, Receive, ReceiveRetry, ImportLoad, FindWorkspace, FlushWorkspace,
           LookupNone, LookupDuplicate, LookupFails, InsertRow, InsertConflict, SelectTail,
           LockTail, WriteLineage, SkipLineage, LineageFails, CommitFails, CleanupLineage, Restart
  <2> QED
    BY <2>1, <2>2, <2>3, <2>4
<1> QED
  BY <1>1, <1>2, <1>3, PTL DEF Spec, TailAppend

-------------------------------------------------------------------------------
(* Overlap or not, a predecessor hash was read from a committed row.          *)

ReadCommitted ==
  \A w \in Workers : tx[w].pc \in {"lock", "lineage", "commit"} =>
    \/ tx[w].prev = <<>>
    \/ \E s \in InSpace(SpaceOf(w)) : s.id < tx[w].id /\ s.hash = tx[w].prev

\* no row, no link
LEMMA LinksInit == Init => ReadCommitted /\ LinksBackward
BY DEF Init, ReadCommitted, LinksBackward, Idle, Fresh

\* rows that stay keep what later rows read from them
LEMMA LinksKept ==
  ASSUME Typed, ReadCommitted, LinksBackward, rows \subseteq rows',
         \A r \in rows' \ rows : \/ r.prev = <<>>
                                 \/ \E s \in rows' : s.ws = r.ws /\ s.id < r.id /\ s.hash = r.prev,
         \A w \in Workers : tx'[w].pc \in {"lock", "lineage", "commit"} =>
           \/ /\ tx[w].pc \in {"lock", "lineage", "commit"}
              /\ tx'[w].prev = tx[w].prev /\ tx'[w].id = tx[w].id /\ tx'[w].pay = tx[w].pay
           \/ tx'[w].prev = <<>>
           \/ \E s \in InSpace(tx'[w].pay.ws) : s.id < tx'[w].id /\ s.hash = tx'[w].prev
  PROVE  ReadCommitted' /\ LinksBackward'
<1>1. \A ws : InSpace(ws) \subseteq InSpace(ws)'
  BY DEF InSpace
<1>2. ReadCommitted'
  BY <1>1 DEF ReadCommitted, SpaceOf
<1>3. LinksBackward'
  <2> SUFFICES ASSUME NEW r \in rows'
               PROVE  \/ r.prev = <<>>
                      \/ \E s \in rows' : s.ws = r.ws /\ s.id < r.id /\ s.hash = r.prev
    BY DEF LinksBackward, InSpace
  <2>1. CASE r \in rows
    BY <2>1 DEF LinksBackward, InSpace
  <2> QED
    BY <2>1
<1> QED
  BY <1>2, <1>3

\* every step keeps the links of stored and of open records pointing at committed rows
LEMMA LinksStep == Typed /\ ReadCommitted /\ LinksBackward /\ [Next]_vars
                     => ReadCommitted' /\ LinksBackward'
<1> SUFFICES ASSUME Typed, ReadCommitted, LinksBackward, [Next]_vars
             PROVE  ReadCommitted' /\ LinksBackward'
  OBVIOUS
<1> DEFINE Late == {"lock", "lineage", "commit"}
<1> DEFINE Kept(w) == /\ tx[w].pc \in Late /\ tx'[w].prev = tx[w].prev
                      /\ tx'[w].id = tx[w].id /\ tx'[w].pay = tx[w].pay
<1>0. tx \in [Workers -> Session]
  BY DEF Typed, TypeOK
<1>1. ASSUME NEW w \in Workers, Commit(w) PROVE ReadCommitted' /\ LinksBackward'
  <2>1. /\ rows' = rows \cup {NewRow(w)} /\ tx[w].pc = "commit"
        /\ NewRow(w).ws = SpaceOf(w) /\ NewRow(w).id = tx[w].id /\ NewRow(w).prev = tx[w].prev
    BY <1>1 DEF Commit, NewRow
  <2>2. \A v \in Workers : tx'[v].pc \in Late => Kept(v)
    BY <1>0, <1>1 DEF Commit, End, Idle, Fresh
  <2>3. \A r \in rows' \ rows :
          \/ r.prev = <<>>
          \/ \E s \in rows' : s.ws = r.ws /\ s.id < r.id /\ s.hash = r.prev
    BY <2>1 DEF ReadCommitted, InSpace
  <2> QED
    BY <2>1, <2>2, <2>3, LinksKept
<1>2. ASSUME NEW w \in Workers, ImportCommit(w) PROVE ReadCommitted' /\ LinksBackward'
  <2>1. \A v \in Workers : tx'[v].pc \in Late => Kept(v)
    BY <1>0, <1>2 DEF ImportCommit, End, Idle, Fresh
  <2>2. CASE UNCHANGED rows
    BY <2>1, <2>2, LinksKept
  <2>3. CASE rows' = rows \cup {ImportRow(w, k) : k \in DOMAIN tx[w].docs}
    <3> DEFINE docs == tx[w].docs
    <3>1. docs \in Seq(Uuids) /\ nextId \in Nat
      BY <1>0 DEF Session, Typed, TypeOK
    <3>2. ASSUME NEW k \in DOMAIN docs
          PROVE  \/ ImportRow(w, k).prev = <<>>
                 \/ \E s \in rows' : /\ s.ws = ImportRow(w, k).ws /\ s.id < ImportRow(w, k).id
                                     /\ s.hash = ImportRow(w, k).prev
      <4>1. k \in 1..Len(docs) /\ DOMAIN docs = 1..Len(docs)
        BY <3>1
      <4>2. ImportRow(w, k).prev = ImportHash(docs, k - 1)
        BY DEF ImportRow
      <4>3. CASE k = 1
        <5>1. ImportHash(docs, 0) = <<>>
          BY DEF ImportHash
        <5> QED
          BY <4>2, <4>3, <5>1
      <4>4. CASE k # 1
        <5>1. k - 1 \in DOMAIN docs
          BY <4>1, <4>4
        <5>2. /\ ImportRow(w, k - 1).ws = ImportRow(w, k).ws
              /\ ImportRow(w, k - 1).hash = ImportHash(docs, k - 1)
              /\ ImportRow(w, k - 1).id = nextId + (k - 1) - 1 /\ ImportRow(w, k).id = nextId + k - 1
          BY DEF ImportRow
        <5>3. ImportRow(w, k - 1).id < ImportRow(w, k).id
          BY <3>1, <4>1, <5>2
        <5>4. ImportRow(w, k - 1) \in rows'
          BY <2>3, <5>1
        <5> QED
          BY <4>2, <5>2, <5>3, <5>4
      <4> QED
        BY <4>3, <4>4
    <3>3. \A r \in rows' \ rows : \E k \in DOMAIN docs : r = ImportRow(w, k)
      BY <2>3
    <3>4. \A r \in rows' \ rows :
            \/ r.prev = <<>>
            \/ \E s \in rows' : s.ws = r.ws /\ s.id < r.id /\ s.hash = r.prev
      BY <3>2, <3>3
    <3> QED
      BY <2>1, <2>3, <3>4, LinksKept
  <2> QED
    BY <1>2, <2>2, <2>3 DEF ImportCommit
<1>3. ASSUME NEW w \in Workers, SelectTail(w) PROVE ReadCommitted' /\ LinksBackward'
  <2>1. rows' = rows /\ \A v \in Workers : v # w => tx'[v] = tx[v]
    BY <1>0, <1>3 DEF SelectTail
  <2>2. \/ tx'[w].prev = <<>>
        \/ \E s \in InSpace(tx'[w].pay.ws) : s.id < tx'[w].id /\ s.hash = tx'[w].prev
    <3>1. CASE tx' = [tx EXCEPT ![w].pc = "lineage", ![w].prev = <<>>]
      <4>1. tx'[w] = [tx[w] EXCEPT !.pc = "lineage", !.prev = <<>>]
        BY <1>0, <3>1
      <4> QED
        BY <1>0, <4>1 DEF Session
    <3>2. ASSUME NEW r \in rows, IsPredecessor(r, SpaceOf(w), tx[w].id),
                 tx' = [tx EXCEPT ![w].pc = "lock", ![w].tail = r.id, ![w].prev = r.hash]
          PROVE  \E s \in InSpace(tx'[w].pay.ws) : s.id < tx'[w].id /\ s.hash = tx'[w].prev
      <4>1. tx'[w] = [tx[w] EXCEPT !.pc = "lock", !.tail = r.id, !.prev = r.hash]
        BY <1>0, <3>2
      <4>2. tx'[w].pay = tx[w].pay /\ tx'[w].id = tx[w].id /\ tx'[w].prev = r.hash
        BY <1>0, <4>1 DEF Session
      <4> QED
        BY <3>2, <4>2 DEF IsPredecessor, InSpace, SpaceOf
    <3> QED
      BY <1>3, <3>1, <3>2 DEF SelectTail
  <2> QED
    BY <2>1, <2>2, LinksKept
<1>4. ASSUME NEW w \in Workers,
             LockTail(w) \/ WriteLineage(w) \/ SkipLineage(w) \/ LineageFails(w)
      PROVE  ReadCommitted' /\ LinksBackward'
  <2>1. rows' = rows /\ \A v \in Workers : v # w => tx'[v] = tx[v]
    BY <1>0, <1>4 DEF LockTail, WriteLineage, SkipLineage, LineageFails, Goto, End
  <2>2. tx'[w].pc \in Late => Kept(w)
    <3>1. tx[w].pc \in Late
      BY <1>4 DEF LockTail, WriteLineage, SkipLineage, LineageFails
    <3>2. CASE tx' = [tx EXCEPT ![w].pc = "commit", ![w].node = TRUE]
      <4>1. tx'[w] = [tx[w] EXCEPT !.pc = "commit", !.node = TRUE]
        BY <1>0, <3>2
      <4> QED
        BY <1>0, <3>1, <4>1 DEF Session
    <3>3. CASE Goto(w, "lineage") \/ Goto(w, "commit")
      BY <1>0, <3>1, <3>3 DEF Goto, Session
    <3>4. CASE End(w)
      BY <1>0, <3>4 DEF End, Idle, Fresh
    <3> QED
      BY <1>4, <3>2, <3>3, <3>4 DEF LockTail, WriteLineage, SkipLineage, LineageFails
  <2> QED
    BY <2>1, <2>2, LinksKept
<1>5. ASSUME rows' = rows, \A v \in Workers : tx'[v] = tx[v] \/ tx'[v].pc \notin Late
      PROVE  ReadCommitted' /\ LinksBackward'
  BY <1>5, LinksKept
<1>6. ASSUME NEW w \in Workers, NEW p \in Payloads, Receive(w, p) \/ ReceiveRetry(w, p)
      PROVE  ReadCommitted' /\ LinksBackward'
  BY <1>0, <1>5, <1>6 DEF Receive, ReceiveRetry, Fresh
<1>7. ASSUME NEW w \in Workers, NEW m \in Imports, ImportLoad(w, m)
      PROVE  ReadCommitted' /\ LinksBackward'
  BY <1>0, <1>5, <1>7 DEF ImportLoad, Fresh
<1>8. ASSUME NEW w \in Workers,
             \/ FindWorkspace(w) \/ FlushWorkspace(w) \/ LookupNone(w) \/ LookupDuplicate(w)
             \/ LookupFails(w) \/ InsertConflict(w) \/ CommitFails(w) \/ CleanupLineage(w)
      PROVE  ReadCommitted' /\ LinksBackward'
  <2>1. rows' = rows
    BY <1>8 DEF FindWorkspace, FlushWorkspace, LookupNone, LookupDuplicate, LookupFails,
                InsertConflict, CommitFails, CleanupLineage
  <2>2. /\ \A v \in Workers : v # w => tx'[v] = tx[v]
        /\ tx'[w].pc \notin Late
    BY <1>0, <1>8 DEF FindWorkspace, FlushWorkspace, LookupNone, LookupDuplicate, LookupFails,
                InsertConflict, CommitFails, CleanupLineage, Goto, End, Idle, Fresh, Session
  <2> QED
    BY <1>5, <2>1, <2>2
<1>9. ASSUME NEW w \in Workers, InsertRow(w) PROVE ReadCommitted' /\ LinksBackward'
  <2>1. tx'[w] = [tx[w] EXCEPT !.pc = "select", !.id = nextId]
    BY <1>0, <1>9 DEF InsertRow
  <2>2. tx'[w].pc = "select"
    BY <1>0, <2>1 DEF Session
  <2> QED
    BY <1>0, <1>5, <1>9, <2>2 DEF InsertRow
<1>10. CASE Restart
  BY <1>5, <1>10 DEF Restart, Idle, Fresh
<1>11. CASE UNCHANGED vars
  BY <1>5, <1>11 DEF vars
<1> QED
  BY <1>1, <1>2, <1>3, <1>4, <1>6, <1>7, <1>8, <1>9, <1>10, <1>11 DEF Next, Serve

\* However inserts overlap, no prev_hash names a record that was never committed.
THEOREM NoDanglingLink == Spec => []LinksBackward
<1>1. Init => Typed /\ ReadCommitted /\ LinksBackward
  BY TypeInit, LinksInit
<1>2. Typed /\ ReadCommitted /\ LinksBackward /\ [Next]_vars
        => (Typed /\ ReadCommitted /\ LinksBackward)'
  BY TypeStep, LinksStep
<1> QED
  BY <1>1, <1>2, PTL DEF Spec

-------------------------------------------------------------------------------
(* Answers.                                                                   *)

\* a step that removes no row and names, if any, a row that is stored afterwards
LEMMA AnswerKept ==
  ASSUME AnswersStored, rows \subseteq rows',
         \A a \in answered' \ answered : \E r \in rows' : <<r.ws, r.uuid>> = a
  PROVE  AnswersStored'
BY DEF AnswersStored

\* every step names only rows that are stored
LEMMA AnswersStep == AnswersStored /\ [Next]_vars => AnswersStored'
<1> SUFFICES ASSUME AnswersStored, [Next]_vars PROVE AnswersStored'
  OBVIOUS
<1>1. ASSUME NEW w \in Workers, Commit(w) PROVE AnswersStored'
  BY <1>1, AnswerKept DEF Commit, Answer
<1>2. ASSUME NEW w \in Workers, LookupDuplicate(w) \/ InsertConflict(w) PROVE AnswersStored'
  <2>1. Existing(tx[w].pay) \subseteq rows /\ rows' = rows
    BY <1>2 DEF Existing, InSpace, LookupDuplicate, InsertConflict
  <2>2. answered' = answered \/ \E r \in rows : Answer(r)
    BY <1>2, <2>1 DEF LookupDuplicate, InsertConflict
  <2> QED
    BY <2>1, <2>2, AnswerKept DEF Answer
<1>3. ASSUME NEW w \in Workers, NEW p \in Payloads, ReceiveRetry(w, p) PROVE AnswersStored'
  BY <1>3, AnswerKept DEF ReceiveRetry, Answer, InSpace
<1>4. ASSUME UNCHANGED answered, rows \subseteq rows' PROVE AnswersStored'
  BY <1>4, AnswerKept
<1>5. \/ \E w \in Workers : Commit(w) \/ LookupDuplicate(w) \/ InsertConflict(w)
      \/ \E w \in Workers, p \in Payloads : ReceiveRetry(w, p)
      \/ UNCHANGED answered /\ rows \subseteq rows'
  BY DEF Next, Serve, Receive, ImportLoad, FindWorkspace, FlushWorkspace, LookupNone,
         LookupFails, InsertRow, SelectTail, LockTail, WriteLineage, SkipLineage, LineageFails,
         CommitFails, CleanupLineage, ImportCommit, Restart, vars
<1> QED
  BY <1>1, <1>2, <1>3, <1>4, <1>5

\* Whatever fails, rolls back or is retried, an answer names a record that is stored.
THEOREM AnswersAreStored == Spec => []AnswersStored
<1>1. Init => AnswersStored
  BY DEF Init, AnswersStored
<1> QED
  BY <1>1, AnswersStep, PTL DEF Spec

-------------------------------------------------------------------------------
(* One request at a time, without imports: what the look-up saw stays so.      *)

\* a record is being stored: the workspace has no other with its uuid or request uuid
NothingFound == \A w \in Workers : tx[w].pc \in {"insert", "select", "lock", "lineage", "commit"} =>
                  Existing(tx[w].pay) = {}

\* it has its uuid for itself, also while its lineage node is cleaned up
KeyIsFree == \A w \in Workers : tx[w].pc \in {"select", "lock", "lineage", "commit", "cleanup"} =>
               ~KeyTaken(tx[w].pay.uuid)

\* a lineage node that is going to be referred to is in the graph
NodeWritten == \A w \in Workers : tx[w].node => tx[w].pc = "commit" /\ tx[w].pay.uuid \in graph

NoImport == \A w \in Workers : tx[w].pc # "import"

Serial == NothingFound /\ KeyIsFree /\ NodeWritten /\ NoImport /\ NodesExist /\ OneRecordPerRequest

LEMMA SerialInit == Init => Serial
BY DEF Init, Serial, NothingFound, KeyIsFree, NodeWritten, NoImport, NodesExist, OneRecordPerRequest, Idle, Fresh

\* a step of the request that stores nothing and keeps the nodes of what is stored
LEMMA AloneStep ==
  ASSUME Typed, Serial, NEW a, Workers = {a}, NEW s, tx' = [tx EXCEPT ![a] = s],
         rows' = rows, \A r \in rows : r.uuid \in graph => r.uuid \in graph',
         s.pc # "import", s.node => s.pc = "commit" /\ s.pay.uuid \in graph',
         s.pc \in {"insert", "select", "lock", "lineage", "commit"} => Existing(s.pay) = {},
         s.pc \in {"select", "lock", "lineage", "commit", "cleanup"} => ~KeyTaken(s.pay.uuid)
  PROVE  Serial'
<1>1. tx'[a] = s
  BY DEF Typed, TypeOK
<1>2. Existing(s.pay)' = Existing(s.pay) /\ KeyTaken(s.pay.uuid)' = KeyTaken(s.pay.uuid)
  BY DEF Existing, KeyTaken, InSpace
<1>3. NothingFound'
  BY <1>1 DEF NothingFound, Existing, InSpace
<1>4. KeyIsFree'
  BY <1>1 DEF KeyIsFree, KeyTaken
<1>5. NodeWritten' /\ NoImport'
  BY <1>1 DEF NodeWritten, NoImport
<1>6. NodesExist' /\ OneRecordPerRequest'
  BY DEF Serial, NodesExist, OneRecordPerRequest
<1> QED
  BY <1>3, <1>4, <1>5, <1>6 DEF Serial

LEMMA SerialStep ==
  ASSUME NEW a, Workers = {a}, Imports = {}
  PROVE  Typed /\ Serial /\ [Next]_vars => Serial'
<1> SUFFICES ASSUME Typed, Serial, [Next]_vars PROVE Serial'
  OBVIOUS
<1>1. tx[a] \in Session
  BY DEF Typed, TypeOK
<1>2. PICK old \in Session : old = tx[a]
  BY <1>1
<1>3. /\ old.pc \in {"insert", "select", "lock", "lineage", "commit"} => Existing(old.pay) = {}
      /\ old.pc \in {"select", "lock", "lineage", "commit", "cleanup"} => ~KeyTaken(old.pay.uuid)
      /\ old.node => old.pc = "commit" /\ old.pay.uuid \in graph
      /\ old.pc # "import"
  BY <1>2 DEF Serial, NothingFound, KeyIsFree, NodeWritten, NoImport
<1>4. ASSUME rows' = rows, graph' = graph, NEW p, tx' = [tx EXCEPT ![a] = Fresh("workspace", p, <<>>)] PROVE Serial'
  <2>1. PICK s : s = Fresh("workspace", p, <<>>)
    OBVIOUS
  <2>2. s.pc = "workspace" /\ s.node = FALSE
    BY <2>1 DEF Fresh
  <2> QED
    BY <1>4, <2>1, <2>2, AloneStep
<1>5. ASSUME rows' = rows, \A r \in rows : r.uuid \in graph => r.uuid \in graph', End(a) PROVE Serial'
  <2>1. PICK s : s = Idle
    OBVIOUS
  <2>2. s.pc = "idle" /\ s.node = FALSE
    BY <2>1 DEF Idle, Fresh
  <2> QED
    BY <1>5, <2>1, <2>2, AloneStep DEF End
<1>6. ASSUME rows' = rows, graph \subseteq graph', NEW l \in Steps \ {"import"}, Goto(a, l),
             l \in {"insert", "select", "lock", "lineage", "commit"} => Existing(old.pay) = {},
             l \in {"select", "lock", "lineage", "commit", "cleanup"} => ~KeyTaken(old.pay.uuid),
             ~old.node
      PROVE Serial'
  <2> DEFINE s == [old EXCEPT !.pc = l]
  <2>1. tx' = [tx EXCEPT ![a] = s]
    BY <1>2, <1>6 DEF Goto
  <2>2. s.pc = l /\ s.pay = old.pay /\ s.node = old.node
    BY DEF Session
  <2> HIDE DEF s
  <2> QED
    BY <1>6, <2>1, <2>2, AloneStep
<1>7. CASE \E p \in Payloads : Receive(a, p)
  BY <1>4, <1>7 DEF Receive
<1>8. CASE \E p \in Payloads : ReceiveRetry(a, p)
  BY <1>8 DEF ReceiveRetry, Serial, NothingFound, KeyIsFree, NodeWritten, NoImport, NodesExist, OneRecordPerRequest, Existing,
              InSpace, KeyTaken
<1>9. CASE FindWorkspace(a)
  BY <1>2, <1>3, <1>6, <1>9 DEF FindWorkspace, Steps
<1>10. CASE FlushWorkspace(a)
  <2> DEFINE s == [old EXCEPT !.pc = "lookup", !.newWs = SpaceOf(a) \notin workspaces]
  <2>1. tx' = [tx EXCEPT ![a] = s]
    BY <1>2, <1>10 DEF FlushWorkspace
  <2>2. s.pc = "lookup" /\ s.node = old.node
    BY DEF Session
  <2>3. ~s.node
    BY <1>2, <1>3, <1>10, <2>2 DEF FlushWorkspace
  <2> HIDE DEF s
  <2> QED
    BY <1>10, <2>1, <2>2, <2>3, AloneStep DEF FlushWorkspace
<1>11. CASE LookupNone(a)
  BY <1>2, <1>3, <1>6, <1>11 DEF LookupNone, Steps
<1>12. CASE LookupDuplicate(a) \/ LookupFails(a) \/ InsertConflict(a)
  BY <1>5, <1>12 DEF LookupDuplicate, LookupFails, InsertConflict
<1>13. CASE InsertRow(a)
  <2> DEFINE s == [old EXCEPT !.pc = "select", !.id = nextId]
  <2>1. tx' = [tx EXCEPT ![a] = s]
    BY <1>2, <1>13 DEF InsertRow
  <2>2. s.pc = "select" /\ s.node = old.node /\ s.pay = old.pay
    BY DEF Session
  <2>3. ~s.node /\ Existing(s.pay) = {} /\ ~KeyTaken(s.pay.uuid)
    BY <1>2, <1>3, <1>13, <2>2 DEF InsertRow
  <2> HIDE DEF s
  <2> QED
    BY <1>13, <2>1, <2>2, <2>3, AloneStep DEF InsertRow
<1>14. CASE SelectTail(a)
  <2>1. PICK s : /\ tx' = [tx EXCEPT ![a] = s]
                 /\ s.pc \in {"lineage", "lock"} /\ s.node = old.node /\ s.pay = old.pay
    <3>1. CASE tx' = [tx EXCEPT ![a].pc = "lineage", ![a].prev = <<>>]
      <4> DEFINE s == [old EXCEPT !.pc = "lineage", !.prev = <<>>]
      <4>1. tx' = [tx EXCEPT ![a] = s]
        BY <1>2, <3>1
      <4>2. s.pc = "lineage" /\ s.node = old.node /\ s.pay = old.pay
        BY DEF Session
      <4> HIDE DEF s
      <4> QED
        BY <4>1, <4>2
    <3>2. ASSUME NEW r \in rows, tx' = [tx EXCEPT ![a].pc = "lock", ![a].tail = r.id, ![a].prev = r.hash]
          PROVE  \E s : /\ tx' = [tx EXCEPT ![a] = s]
                        /\ s.pc \in {"lineage", "lock"} /\ s.node = old.node /\ s.pay = old.pay
      <4> DEFINE s == [old EXCEPT !.pc = "lock", !.tail = r.id, !.prev = r.hash]
      <4>1. tx' = [tx EXCEPT ![a] = s]
        BY <1>2, <3>2
      <4>2. s.pc = "lock" /\ s.node = old.node /\ s.pay = old.pay
        BY DEF Session
      <4> HIDE DEF s
      <4> QED
        BY <4>1, <4>2
    <3> QED
      BY <1>14, <3>1, <3>2 DEF SelectTail
  <2>2. ~s.node /\ Existing(s.pay) = {} /\ ~KeyTaken(s.pay.uuid)
    BY <1>2, <1>3, <1>14, <2>1 DEF SelectTail
  <2> QED
    BY <1>14, <2>1, <2>2, AloneStep DEF SelectTail
<1>15. CASE LockTail(a)
  BY <1>2, <1>3, <1>6, <1>15 DEF LockTail, Steps
<1>16. CASE WriteLineage(a)
  <2> DEFINE s == [old EXCEPT !.pc = "commit", !.node = TRUE]
  <2>1. tx' = [tx EXCEPT ![a] = s]
    BY <1>2, <1>16 DEF WriteLineage
  <2>2. s.pc = "commit" /\ s.pay = old.pay
    BY DEF Session
  <2>3. s.pay.uuid \in graph' /\ Existing(s.pay) = {} /\ ~KeyTaken(s.pay.uuid)
    BY <1>2, <1>3, <1>16, <2>2 DEF WriteLineage
  <2>4. graph \subseteq graph' /\ rows' = rows
    BY <1>16 DEF WriteLineage
  <2> HIDE DEF s
  <2> QED
    BY <2>1, <2>2, <2>3, <2>4, AloneStep
<1>17. CASE SkipLineage(a)
  BY <1>2, <1>3, <1>6, <1>17 DEF SkipLineage, Steps
<1>18. CASE LineageFails(a)
  <2>1. rows' = rows /\ graph \subseteq graph' /\ old.pc = "lineage" /\ (End(a) \/ Goto(a, "commit"))
    BY <1>2, <1>18 DEF LineageFails
  <2>2. CASE End(a)
    BY <1>5, <2>1, <2>2
  <2>3. CASE Goto(a, "commit")
    BY <1>3, <1>6, <2>1, <2>3 DEF Steps
  <2> QED
    BY <2>1, <2>2, <2>3
<1>19. CASE Commit(a)
  <2>1. tx'[a] = Idle /\ rows' = rows \cup {NewRow(a)} /\ graph' = graph /\ old.pc = "commit"
    BY <1>2, <1>19 DEF Commit, End, Typed, TypeOK
  <2>2. NewRow(a).ws = old.pay.ws /\ NewRow(a).req = old.pay.req /\ NewRow(a).uuid = old.pay.uuid /\ NewRow(a).node = old.node
    BY <1>2 DEF NewRow, SpaceOf
  <2>3. PICK n : n = NewRow(a)
    OBVIOUS
  <2>4. NodesExist'
    BY <1>3, <2>1, <2>2, <2>3 DEF Serial, NodesExist
  <2>5. ASSUME NEW r \in rows, r.ws = n.ws, r.req = n.req, r.req # NoReq PROVE FALSE
    <3>1. r \in Existing(old.pay)
      BY <2>2, <2>3, <2>5 DEF Existing, InSpace
    <3> QED
      BY <1>3, <2>1, <3>1
  <2>6. OneRecordPerRequest'
    BY <2>1, <2>3, <2>5 DEF Serial, OneRecordPerRequest
  <2> QED
    BY <2>1, <2>4, <2>6 DEF Serial, NothingFound, KeyIsFree, NodeWritten, NoImport, Idle, Fresh
<1>20. CASE CommitFails(a)
  <2>1. CASE tx[a].node
    <3> DEFINE s == Fresh("cleanup", old.pay, <<>>)
    <3>1. tx' = [tx EXCEPT ![a] = s] /\ rows' = rows /\ graph' = graph /\ old.pc = "commit"
      BY <1>2, <1>20, <2>1 DEF CommitFails
    <3>2. s.pc = "cleanup" /\ s.pay = old.pay /\ s.node = FALSE
      BY DEF Fresh
    <3> HIDE DEF s
    <3> QED
      BY <1>3, <3>1, <3>2, AloneStep
  <2>2. CASE ~tx[a].node
    BY <1>5, <1>20, <2>2 DEF CommitFails
  <2> QED
    BY <2>1, <2>2
<1>21. CASE CleanupLineage(a)
  <2>1. \A r \in rows : r.uuid # old.pay.uuid
    BY <1>2, <1>3, <1>21 DEF CleanupLineage, KeyTaken
  <2>2. rows' = rows /\ End(a) /\ \A r \in rows : r.uuid \in graph => r.uuid \in graph'
    BY <1>2, <1>21, <2>1 DEF CleanupLineage
  <2> QED
    BY <1>5, <2>2
<1>22. CASE Restart
  BY <1>22 DEF Restart, Serial, NothingFound, KeyIsFree, NodeWritten, NoImport, NodesExist, OneRecordPerRequest, Idle, Fresh
<1>23. CASE UNCHANGED vars
  BY <1>23 DEF vars, Serial, NothingFound, KeyIsFree, NodeWritten, NoImport, NodesExist, OneRecordPerRequest, Existing,
              InSpace, KeyTaken
<1>24. ~ImportCommit(a)
  BY <1>2, <1>3 DEF ImportCommit
<1> QED
  BY <1>7, <1>8, <1>9, <1>10, <1>11, <1>12, <1>13, <1>14, <1>15, <1>16, <1>17, <1>18, <1>19, <1>20, <1>21, <1>22, <1>23, <1>24
     DEF Next, Serve

-------------------------------------------------------------------------------
(* The ingest path implements ChainLog: its initial state is an empty log, and  *)
(* every step appends one linked entry, repeats an answer, gives a promise up,   *)
(* or changes nothing ChainLog can see.                                          *)

(* Rows by rank.  An undisturbed workspace grows by one row behind all others,  *)
(* so the rank of a row, the number of rows below it, is its place in the log.  *)

Rank(R, r) == Cardinality(Below(R, r))

\* finitely many rows, no id twice, every place taken
Numbered(R) ==
  /\ IsFiniteSet(R)
  /\ \A r \in R : r.id \in Nat
  /\ \A r, s \in R : r.id = s.id => r = s
  /\ \A i \in 1..Cardinality(R) : \E r \in R : Rank(R, r) = i - 1

\* no rows, no places
LEMMA NumberedEmpty == Numbered({})
<1>1. Cardinality({}) = 0 /\ IsFiniteSet({})
  BY FS_EmptySet
<1>2. 1..0 = {}
  OBVIOUS
<1> QED
  BY <1>1, <1>2 DEF Numbered

\* a rank is a place
LEMMA RankBound ==
  ASSUME NEW R, IsFiniteSet(R), NEW r \in R, r.id \in Nat
  PROVE  Rank(R, r) \in Nat /\ Rank(R, r) + 1 \in 1..Cardinality(R)
<1>1. Below(R, r) \in SUBSET (R \ {r})
  BY DEF Below
<1>2. IsFiniteSet(R \ {r}) /\ Cardinality(R \ {r}) = Cardinality(R) - 1
  BY FS_RemoveElement
<1>3. IsFiniteSet(Below(R, r)) /\ Cardinality(Below(R, r)) <= Cardinality(R \ {r})
  BY <1>1, <1>2, FS_Subset
<1>4. Cardinality(R) \in Nat /\ Cardinality(Below(R, r)) \in Nat
  BY <1>3, FS_CardinalityType
<1> QED
  BY <1>2, <1>3, <1>4 DEF Rank

\* a smaller id has a smaller rank
LEMMA RankOrder ==
  ASSUME NEW R, Numbered(R), NEW r \in R, NEW s \in R, r.id < s.id
  PROVE  Rank(R, r) < Rank(R, s)
<1>1. r.id \in Nat /\ s.id \in Nat /\ \A q \in R : q.id \in Nat
  BY DEF Numbered
<1>2. IsFiniteSet(Below(R, r)) /\ IsFiniteSet(Below(R, s))
  <2>1. Below(R, r) \in SUBSET R /\ Below(R, s) \in SUBSET R
    BY DEF Below
  <2> QED
    BY <2>1, FS_Subset DEF Numbered
<1>3. r \notin Below(R, r)
  BY <1>1 DEF Below
<1>4. /\ IsFiniteSet(Below(R, r) \cup {r})
      /\ Cardinality(Below(R, r) \cup {r}) = Cardinality(Below(R, r)) + 1
  BY <1>2, <1>3, FS_AddElement
<1>5. Below(R, r) \cup {r} \in SUBSET Below(R, s)
  BY <1>1 DEF Below
<1>6. Cardinality(Below(R, r) \cup {r}) <= Cardinality(Below(R, s))
  BY <1>2, <1>5, FS_Subset
<1>7. Cardinality(Below(R, r)) \in Nat /\ Cardinality(Below(R, s)) \in Nat
  BY <1>2, FS_CardinalityType
<1> QED
  BY <1>4, <1>6, <1>7 DEF Rank

\* no two rows share a rank
LEMMA RankUnique ==
  ASSUME NEW R, Numbered(R), NEW r \in R, NEW s \in R, Rank(R, r) = Rank(R, s)
  PROVE  r = s
<1>1. r.id \in Nat /\ s.id \in Nat /\ (r.id = s.id => r = s) /\ IsFiniteSet(R)
  BY DEF Numbered
<1>2. Rank(R, r) \in Nat /\ Rank(R, s) \in Nat
  BY <1>1, RankBound
<1>3. ~(r.id < s.id) /\ ~(s.id < r.id)
  BY <1>2, RankOrder
<1> QED
  BY <1>1, <1>3

\* the i-th row of the order is the row of rank i - 1
LEMMA OrderedAt ==
  ASSUME NEW R, Numbered(R), NEW i \in 1..Cardinality(R)
  PROVE  /\ Ordered(R)[i] \in R /\ Rank(R, Ordered(R)[i]) = i - 1
         /\ \A r \in R : Rank(R, r) = i - 1 => r = Ordered(R)[i]
<1>1. PICK r \in R : Rank(R, r) = i - 1
  BY DEF Numbered
<1>2. Ordered(R)[i] = CHOOSE q \in R : Rank(R, q) = i - 1
  BY DEF Ordered, Rank
<1>3. Ordered(R)[i] \in R /\ Rank(R, Ordered(R)[i]) = i - 1
  BY <1>1, <1>2
<1> QED
  BY <1>3, RankUnique

\* every row has its place
LEMMA OrderedHas ==
  ASSUME NEW R, Numbered(R), NEW r \in R
  PROVE  \E i \in 1..Cardinality(R) : Ordered(R)[i] = r
<1>1. Rank(R, r) \in Nat /\ Rank(R, r) + 1 \in 1..Cardinality(R)
  BY RankBound DEF Numbered
<1>2. Ordered(R)[Rank(R, r) + 1] = r
  <2>1. Rank(R, r) = (Rank(R, r) + 1) - 1
    BY <1>1
  <2> QED
    BY <1>1, <2>1, OrderedAt
<1> QED
  BY <1>1, <1>2

\* a row behind all others takes the next place and moves none
LEMMA AddBehind ==
  ASSUME NEW R, Numbered(R), NEW n, n.id \in Nat, \A r \in R : r.id < n.id
  PROVE  /\ Numbered(R \cup {n})
         /\ Cardinality(R) \in Nat
         /\ Cardinality(R \cup {n}) = Cardinality(R) + 1
         /\ \A i \in 1..Cardinality(R) : Ordered(R \cup {n})[i] = Ordered(R)[i]
         /\ Ordered(R \cup {n})[Cardinality(R) + 1] = n
<1> DEFINE S == R \cup {n}
<1>1. IsFiniteSet(R) /\ Cardinality(R) \in Nat /\ n \notin R
  BY FS_CardinalityType DEF Numbered
<1>2. IsFiniteSet(S) /\ Cardinality(S) = Cardinality(R) + 1
  BY <1>1, FS_AddElement
<1>3. /\ \A r \in R : Below(S, r) = Below(R, r)
      /\ Below(S, n) = R
  BY DEF Below, Numbered
<1>4. /\ \A r \in R : Rank(S, r) = Rank(R, r)
      /\ Rank(S, n) = Cardinality(R)
  BY <1>3 DEF Rank
<1>5. Numbered(S)
  <2>1. \A r \in S : r.id \in Nat
    BY DEF Numbered
  <2>2. \A r, s \in S : r.id = s.id => r = s
    BY DEF Numbered
  <2>3. ASSUME NEW i \in 1..Cardinality(S) PROVE \E r \in S : Rank(S, r) = i - 1
    <3>1. CASE i = Cardinality(R) + 1
      BY <1>1, <1>4, <3>1
    <3>2. CASE i \in 1..Cardinality(R)
      <4>1. PICK r \in R : Rank(R, r) = i - 1
        BY <3>2 DEF Numbered
      <4> QED
        BY <1>4, <4>1
    <3>3. i = Cardinality(R) + 1 \/ i \in 1..Cardinality(R)
      BY <1>1, <1>2
    <3> QED
      BY <3>1, <3>2, <3>3
  <2> QED
    BY <1>2, <2>1, <2>2, <2>3 DEF Numbered
<1>6. ASSUME NEW i \in 1..Cardinality(R) PROVE Ordered(S)[i] = Ordered(R)[i]
  <2>1. Ordered(R)[i] \in R /\ Rank(R, Ordered(R)[i]) = i - 1
    BY OrderedAt
  <2>2. Ordered(R)[i] \in S /\ Rank(S, Ordered(R)[i]) = i - 1
    BY <1>4, <2>1
  <2>3. i \in 1..Cardinality(S)
    BY <1>1, <1>2
  <2> QED
    BY <1>5, <2>2, <2>3, OrderedAt
<1>7. Ordered(S)[Cardinality(R) + 1] = n
  <2>1. Cardinality(R) + 1 \in 1..Cardinality(S) /\ Cardinality(R) = (Cardinality(R) + 1) - 1
    BY <1>1, <1>2
  <2> QED
    BY <1>4, <1>5, <2>1, OrderedAt
<1> QED
  BY <1>1, <1>2, <1>5, <1>6, <1>7

\* a sequence extended by one element, as a function
LEMMA AppendAs ==
  ASSUME NEW T, NEW s \in Seq(T), NEW e \in T
  PROVE  /\ Append(s, e) = [i \in 1..Len(s) + 1 |-> Append(s, e)[i]]
         /\ \A i \in 1..Len(s) : Append(s, e)[i] = s[i]
         /\ Append(s, e)[Len(s) + 1] = e
<1>1. Append(s, e) \in Seq(T) /\ Len(Append(s, e)) = Len(s) + 1 /\ Len(s) \in Nat
  OBVIOUS
<1>2. Append(s, e) = [i \in 1..Len(s) + 1 |-> Append(s, e)[i]]
  <2>1. \A q \in Seq(T) : q = [i \in 1..Len(q) |-> q[i]]
    OBVIOUS
  <2> QED
    BY <1>1, <2>1, Zenon
<1>3. \A i \in 1..Len(s) : Append(s, e)[i] = s[i]
  OBVIOUS
<1>4. Append(s, e)[Len(s) + 1] = e
  OBVIOUS
<1> QED
  BY <1>2, <1>3, <1>4

\* and so the log of the rows is extended by one entry
LEMMA EntriesGrow ==
  ASSUME NEW R, Numbered(R), NEW n, n.id \in Nat, \A r \in R : r.id < n.id,
         \A r \in R : r.prev # n.hash
  PROVE  EntriesOf(R \cup {n}) =
           Append(EntriesOf(R), [uuid |-> n.uuid, after |-> LinkedTo(R \cup {n}, n)])
<1> DEFINE S == R \cup {n}
<1> DEFINE e == [uuid |-> n.uuid, after |-> LinkedTo(S, n)]
<1> DEFINE c == Cardinality(R)
<1> DEFINE Entry(i) == [uuid |-> Ordered(R)[i].uuid, after |-> LinkedTo(R, Ordered(R)[i])]
<1>1. /\ c \in Nat /\ Cardinality(S) = c + 1
      /\ \A i \in 1..c : Ordered(S)[i] = Ordered(R)[i]
      /\ Ordered(S)[c + 1] = n
  BY AddBehind
<1>2. \A i \in 1..c : LinkedTo(S, Ordered(R)[i]) = LinkedTo(R, Ordered(R)[i])
  <2> TAKE i \in 1..c
  <2>1. Ordered(R)[i] \in R
    BY OrderedAt
  <2>2. {s \in S : s.hash = Ordered(R)[i].prev} = {s \in R : s.hash = Ordered(R)[i].prev}
    BY <2>1
  <2> QED
    BY <2>2 DEF LinkedTo
<1>3. EntriesOf(R) = [i \in 1..c |-> Entry(i)]
  BY DEF EntriesOf
<1>4. EntriesOf(S) = [i \in 1..c + 1 |-> IF i = c + 1 THEN e ELSE Entry(i)]
  <2>1. \A i \in 1..c + 1 :
          [uuid |-> Ordered(S)[i].uuid, after |-> LinkedTo(S, Ordered(S)[i])]
            = IF i = c + 1 THEN e ELSE Entry(i)
    <3> TAKE i \in 1..c + 1
    <3>1. CASE i = c + 1
      BY <1>1, <3>1
    <3>2. CASE i # c + 1
      <4>1. i \in 1..c
        BY <1>1, <3>2
      <4> QED
        BY <1>1, <1>2, <3>2, <4>1
    <3> QED
      BY <3>1, <3>2
  <2>2. EntriesOf(S) =
          [i \in 1..c + 1 |-> [uuid |-> Ordered(S)[i].uuid, after |-> LinkedTo(S, Ordered(S)[i])]]
    BY <1>1 DEF EntriesOf
  <2> QED
    BY <2>1, <2>2
<1> HIDE DEF Entry, e, c
<1>5. \A i \in 1..c : EntriesOf(R)[i] = Entry(i)
  BY <1>3
<1>6. EntriesOf(R) \in Seq({Entry(i) : i \in 1..c}) /\ Len(EntriesOf(R)) = c
  BY <1>1, <1>3
<1>7. /\ Append(EntriesOf(R), e) = [i \in 1..c + 1 |-> Append(EntriesOf(R), e)[i]]
      /\ \A i \in 1..c : Append(EntriesOf(R), e)[i] = EntriesOf(R)[i]
      /\ Append(EntriesOf(R), e)[c + 1] = e
  <2> DEFINE T == {Entry(i) : i \in 1..c} \cup {e}
  <2>1. EntriesOf(R) \in Seq(T) /\ e \in T
    BY <1>6
  <2> HIDE DEF T
  <2> QED
    BY <1>6, <2>1, AppendAs
<1>8. \A i \in 1..c + 1 : Append(EntriesOf(R), e)[i] = IF i = c + 1 THEN e ELSE Entry(i)
  <2> TAKE i \in 1..c + 1
  <2>1. i = c + 1 \/ (i # c + 1 /\ i \in 1..c)
    BY <1>1
  <2> QED
    BY <1>5, <1>7, <2>1
<1>9. Append(EntriesOf(R), e) = EntriesOf(S)
  BY <1>4, <1>7, <1>8
<1> QED
  BY <1>9 DEF e

-------------------------------------------------------------------------------
(* The invariant of the refinement: besides the order of the chain, no uuid is  *)
(* inserted twice, and the rows of an undisturbed workspace are numbered.       *)

\* the unique index: an open insert has its uuid to itself
UuidFree ==
  /\ \A w \in Workers : Inserted(w) => \A r \in rows : r.uuid # tx[w].pay.uuid
  /\ \A v, w \in Workers :
       (Inserted(v) /\ Inserted(w) /\ tx[v].pay.uuid = tx[w].pay.uuid) => v = w

AllNumbered == \A ws \in Spaces \ disturbed : Numbered(InSpace(ws))

Chained == Typed /\ Order /\ ChainIntact

\* the step neither stores nor inserts a record
Silent ==
  /\ rows' = rows /\ disturbed' = disturbed
  /\ \A v \in Workers : Inserted(v)' => Inserted(v) /\ tx'[v].pay = tx[v].pay

\* the steps that store or insert a record
LEMMA SilentSteps ==
  Typed /\ [Next]_vars =>
    Silent \/ \E w \in Workers : InsertRow(w) \/ Commit(w) \/ ImportCommit(w)
<1> SUFFICES ASSUME Typed, [Next]_vars,
                    \A w \in Workers : ~InsertRow(w) /\ ~Commit(w) /\ ~ImportCommit(w)
             PROVE  Silent
  OBVIOUS
<1>0. tx \in [Workers -> Session]
  BY DEF Typed, TypeOK
<1>1. ASSUME NEW w \in Workers, NEW p \in Payloads, Receive(w, p) \/ ReceiveRetry(w, p)
      PROVE  Silent
  BY <1>0, <1>1 DEF Silent, Receive, ReceiveRetry, Inserted, Fresh
<1>2. ASSUME NEW w \in Workers, NEW m \in Imports, ImportLoad(w, m) PROVE Silent
  BY <1>0, <1>2 DEF Silent, ImportLoad, Inserted, Fresh
<1>3. ASSUME NEW w \in Workers,
             \/ FindWorkspace(w) \/ FlushWorkspace(w) \/ LookupNone(w) \/ LookupDuplicate(w)
             \/ LookupFails(w) \/ InsertConflict(w) \/ CommitFails(w) \/ CleanupLineage(w)
      PROVE  Silent
  <2>1. rows' = rows /\ disturbed' = disturbed
    BY <1>3 DEF FindWorkspace, FlushWorkspace, LookupNone, LookupDuplicate, LookupFails,
                InsertConflict, CommitFails, CleanupLineage
  <2>2. /\ \A v \in Workers : v # w => tx'[v] = tx[v]
        /\ tx'[w].pc \notin {"select", "lock", "lineage", "commit"}
    BY <1>0, <1>3 DEF FindWorkspace, FlushWorkspace, LookupNone, LookupDuplicate, LookupFails,
                InsertConflict, CommitFails, CleanupLineage, Goto, End, Idle, Fresh, Session
  <2> QED
    BY <2>1, <2>2 DEF Silent, Inserted
<1>4. ASSUME NEW w \in Workers,
             SelectTail(w) \/ LockTail(w) \/ WriteLineage(w) \/ SkipLineage(w) \/ LineageFails(w)
      PROVE  Silent
  <2>1. rows' = rows /\ disturbed' = disturbed /\ Inserted(w)
    BY <1>4 DEF SelectTail, LockTail, WriteLineage, SkipLineage, LineageFails, Inserted
  <2>2. CASE End(w)
    <3>1. tx'[w].pc = "idle" /\ \A v \in Workers : v # w => tx'[v] = tx[v]
      BY <1>0, <2>2 DEF End, Idle, Fresh
    <3> QED
      BY <2>1, <3>1 DEF Silent, Inserted
  <2>3. CASE Goto(w, "lineage") \/ Goto(w, "commit")
    <3>1. tx'[w].pay = tx[w].pay /\ \A v \in Workers : v # w => tx'[v] = tx[v]
      BY <1>0, <2>3 DEF Goto, Session
    <3> QED
      BY <2>1, <3>1 DEF Silent, Inserted
  <2>4. ASSUME NEW f, NEW g, NEW h, NEW l \in Steps,
               \/ tx' = [tx EXCEPT ![w].pc = l, ![w].prev = f]
               \/ tx' = [tx EXCEPT ![w].pc = l, ![w].tail = g, ![w].prev = f]
               \/ tx' = [tx EXCEPT ![w].pc = l, ![w].node = h]
        PROVE  Silent
    <3>1. \A v \in Workers : v # w => tx'[v] = tx[v]
      BY <1>0, <2>4
    <3>2. \/ tx'[w] = [tx[w] EXCEPT !.pc = l, !.prev = f]
          \/ tx'[w] = [tx[w] EXCEPT !.pc = l, !.tail = g, !.prev = f]
          \/ tx'[w] = [tx[w] EXCEPT !.pc = l, !.node = h]
      BY <1>0, <2>4
    <3>3. tx'[w].pay = tx[w].pay
      BY <1>0, <3>2 DEF Session
    <3> QED
      BY <2>1, <3>1, <3>3 DEF Silent, Inserted
  <2> QED
    BY <1>4, <2>2, <2>3, <2>4
       DEF SelectTail, LockTail, WriteLineage, SkipLineage, LineageFails, Steps
<1>5. CASE Restart
  BY <1>5 DEF Silent, Restart, Inserted, Idle, Fresh
<1>6. CASE UNCHANGED vars
  BY <1>6 DEF Silent, Inserted, vars
<1> QED
  BY <1>1, <1>2, <1>3, <1>4, <1>5, <1>6 DEF Next, Serve

\* what the insert does to sessions and history
LEMMA InsertFacts ==
  ASSUME Typed, NEW w \in Workers, InsertRow(w)
  PROVE  /\ rows' = rows
         /\ disturbed' \in {disturbed, disturbed \cup {SpaceOf(w)}}
         /\ SpaceOf(w) \in Spaces
         /\ \A v \in Workers : v # w => tx'[v] = tx[v]
         /\ tx'[w].pay = tx[w].pay
         /\ KeyFree(w, tx[w].pay.uuid) /\ ~KeyTaken(tx[w].pay.uuid)
<1>1. tx \in [Workers -> Session] /\ tx[w].pc = "insert"
  BY DEF Typed, TypeOK, InsertRow
<1>2. tx'[w] = [tx[w] EXCEPT !.pc = "select", !.id = nextId]
  BY <1>1 DEF InsertRow
<1>3. tx'[w].pay = tx[w].pay
  BY <1>1, <1>2 DEF Session
<1>4. SpaceOf(w) \in Spaces
  BY <1>1, Numbers
<1> QED
  BY <1>1, <1>3, <1>4 DEF InsertRow

\* what an import does: nothing, or rows of one workspace, which is disturbed from then on
LEMMA ImportFacts ==
  ASSUME Typed, NEW w \in Workers, ImportCommit(w)
  PROVE  /\ \A v \in Workers : v # w => tx'[v] = tx[v]
         /\ ~Inserted(w)' /\ SpaceOf(w) \in Spaces /\ answered' = answered
         /\ \/ rows' = rows /\ disturbed' = disturbed
            \/ /\ disturbed' = disturbed \cup {SpaceOf(w)}
               /\ rows \subseteq rows'
               /\ \A r \in rows' \ rows : /\ r.ws = SpaceOf(w)
                                         /\ KeyFree(w, r.uuid)
<1> DEFINE docs == tx[w].docs
<1>1. tx \in [Workers -> Session] /\ tx[w].pc = "import"
  BY DEF Typed, TypeOK, ImportCommit
<1>2. \A k \in DOMAIN docs : ImportRow(w, k).ws = SpaceOf(w) /\ ImportRow(w, k).uuid = docs[k]
  BY DEF ImportRow
<1>3. SpaceOf(w) \in Spaces
  BY <1>1, Numbers
<1>4. (\A v \in Workers : v # w => tx'[v] = tx[v]) /\ ~Inserted(w)'
  BY <1>1 DEF ImportCommit, End, Idle, Fresh, Inserted
<1>5. CASE docs = <<>>
  <2>1. {ImportRow(w, k) : k \in DOMAIN docs} = {}
    BY <1>5
  <2> QED
    BY <1>3, <1>4, <1>5, <2>1 DEF ImportCommit
<1>6. CASE docs # <<>>
  BY <1>2, <1>3, <1>4, <1>6 DEF ImportCommit
<1> QED
  BY <1>5, <1>6

\* what a commit does to rows and sessions
LEMMA CommitFacts ==
  ASSUME Typed, NEW w \in Workers, Commit(w), NEW n, n = NewRow(w)
  PROVE  /\ rows' = rows \cup {n} /\ disturbed' = disturbed
         /\ answered' = answered \cup {<<n.ws, n.uuid>>}
         /\ n.ws \in Spaces /\ n.uuid \in Uuids /\ n.prev \in Seq(Link)
         /\ n.hash = RecordHash(n.uuid, n.prompt, n.prev)
         /\ n.ws = SpaceOf(w) /\ n.uuid = tx[w].pay.uuid /\ n.id = tx[w].id /\ n.prev = tx[w].prev
         /\ InSpace(n.ws)' = InSpace(n.ws) \cup {n}
         /\ \A ws : ws # n.ws => InSpace(ws)' = InSpace(ws)
         /\ tx[w].pc = "commit" /\ Inserted(w) /\ ~Inserted(w)'
         /\ \A v \in Workers : v # w => tx'[v] = tx[v]
<1>1. tx \in [Workers -> Session] /\ tx[w].pc = "commit" /\ tx[w].pay \in Payload
  BY DEF Typed, TypeOK, PayloadKnown, Commit
<1>2. /\ n.ws = SpaceOf(w) /\ n.uuid = tx[w].pay.uuid /\ n.id = tx[w].id /\ n.prev = tx[w].prev
      /\ n.hash = RecordHash(n.uuid, n.prompt, n.prev)
  BY NewRow(w) = n DEF NewRow
<1>3. n.ws \in Spaces /\ n.uuid \in Uuids /\ n.prev \in Seq(Link)
  BY <1>1, <1>2 DEF SpaceOf, Payload, Session
<1>4. rows' = rows \cup {n} /\ disturbed' = disturbed /\ answered' = answered \cup {<<n.ws, n.uuid>>}
  BY DEF Commit, Answer
<1>5. /\ InSpace(n.ws)' = InSpace(n.ws) \cup {n}
      /\ \A ws : ws # n.ws => InSpace(ws)' = InSpace(ws)
  BY <1>4 DEF InSpace
<1>6. /\ Inserted(w) /\ ~Inserted(w)' /\ \A v \in Workers : v # w => tx'[v] = tx[v]
  BY <1>1 DEF Commit, End, Idle, Fresh, Inserted
<1> QED
  BY <1>1, <1>2, <1>3, <1>4, <1>5, <1>6

\* nothing is stored or open at the start
LEMMA ChainedInit == Init => Chained /\ UuidFree /\ AllNumbered
<1> SUFFICES ASSUME Init PROVE Chained /\ UuidFree /\ AllNumbered
  OBVIOUS
<1>1. Chained
  BY TypeInit, OrderInit DEF Chained
<1>2. UuidFree
  BY DEF Init, UuidFree, Inserted, Idle, Fresh
<1>3. \A ws : InSpace(ws) = {}
  BY DEF Init, InSpace
<1>4. AllNumbered
  BY <1>3, NumberedEmpty DEF AllNumbered
<1> QED
  BY <1>1, <1>2, <1>4

\* no step inserts a uuid a second time, or takes a place in the order from a row
LEMMA ChainedStep ==
  Chained /\ UuidFree /\ AllNumbered /\ [Next]_vars => (Chained /\ UuidFree /\ AllNumbered)'
<1> SUFFICES ASSUME Chained, UuidFree, AllNumbered, [Next]_vars
             PROVE  Chained' /\ UuidFree' /\ AllNumbered'
  OBVIOUS
<1>0. Typed /\ Order /\ ChainIntact
  BY DEF Chained
<1>1. Chained'
  BY <1>0, TypeStep, OrderStep DEF Chained
<1>2. CASE Silent
  <2>1. \A ws : InSpace(ws)' = InSpace(ws)
    BY <1>2 DEF Silent, InSpace
  <2>2. UuidFree'
    BY <1>2 DEF Silent, UuidFree
  <2>3. AllNumbered'
    BY <1>2, <2>1 DEF Silent, AllNumbered
  <2> QED
    BY <1>1, <2>2, <2>3
<1>3. ASSUME NEW w \in Workers, InsertRow(w) PROVE UuidFree' /\ AllNumbered'
  <2>1. /\ rows' = rows /\ disturbed \subseteq disturbed'
        /\ \A v \in Workers : v # w => tx'[v] = tx[v]
        /\ tx'[w].pay = tx[w].pay
        /\ KeyFree(w, tx[w].pay.uuid) /\ ~KeyTaken(tx[w].pay.uuid)
    BY <1>0, <1>3, InsertFacts
  <2>2. \A ws : InSpace(ws)' = InSpace(ws)
    BY <2>1 DEF InSpace
  <2>3. \A v \in Workers : v # w => (Inserted(v)' <=> Inserted(v))
    BY <2>1 DEF Inserted
  <2>4. UuidFree'
    BY <2>1, <2>3 DEF UuidFree, KeyFree, KeyTaken
  <2>5. AllNumbered'
    BY <2>1, <2>2 DEF AllNumbered
  <2> QED
    BY <2>4, <2>5
<1>4. ASSUME NEW w \in Workers, Commit(w) PROVE UuidFree' /\ AllNumbered'
  <2>0. PICK n : n = NewRow(w)
    OBVIOUS
  <2>1. /\ rows' = rows \cup {n} /\ disturbed' = disturbed
        /\ n.uuid = tx[w].pay.uuid /\ n.ws = SpaceOf(w) /\ n.id = tx[w].id
        /\ InSpace(n.ws)' = InSpace(n.ws) \cup {n}
        /\ \A ws : ws # n.ws => InSpace(ws)' = InSpace(ws)
        /\ Inserted(w) /\ ~Inserted(w)'
        /\ \A v \in Workers : v # w => tx'[v] = tx[v]
    BY <1>0, <1>4, <2>0, CommitFacts
  <2>2. \A v \in Workers : v # w => (Inserted(v)' <=> Inserted(v))
    BY <2>1 DEF Inserted
  <2>3. UuidFree'
    BY <2>1, <2>2 DEF UuidFree
  <2>4. ASSUME NEW ws \in Spaces \ disturbed PROVE Numbered(InSpace(ws)')
    <3>1. CASE ws # n.ws
      BY <2>1, <3>1 DEF AllNumbered
    <3>2. CASE ws = n.ws
      <4>1. n.id \in Nat /\ \A r \in InSpace(ws) : r.id < n.id
        BY <1>0, <2>1, <3>2, Numbers DEF Order, OpenBehind
      <4>2. Numbered(InSpace(ws) \cup {n})
        BY <4>1, AddBehind DEF AllNumbered
      <4> QED
        BY <2>1, <3>2, <4>2
    <3> QED
      BY <3>1, <3>2
  <2>5. AllNumbered'
    BY <2>1, <2>4 DEF AllNumbered
  <2> QED
    BY <2>3, <2>5
<1>5. ASSUME NEW w \in Workers, ImportCommit(w) PROVE UuidFree' /\ AllNumbered'
  <2>1. /\ \A v \in Workers : v # w => tx'[v] = tx[v]
        /\ ~Inserted(w)'
        /\ \/ rows' = rows /\ disturbed' = disturbed
           \/ /\ disturbed' = disturbed \cup {SpaceOf(w)}
              /\ rows \subseteq rows'
              /\ \A r \in rows' \ rows : r.ws = SpaceOf(w) /\ KeyFree(w, r.uuid)
    BY <1>0, <1>5, ImportFacts
  <2>2. \A v \in Workers : Inserted(v)' => v # w /\ Inserted(v) /\ tx'[v] = tx[v]
    BY <2>1 DEF Inserted
  <2>3. UuidFree'
    BY <2>1, <2>2 DEF UuidFree, KeyFree
  <2>4. disturbed \subseteq disturbed' /\ \A ws \in Spaces \ disturbed' : InSpace(ws)' = InSpace(ws)
    BY <2>1 DEF InSpace
  <2>5. AllNumbered'
    BY <2>4 DEF AllNumbered
  <2> QED
    BY <2>3, <2>5
<1> QED
  BY <1>0, <1>1, <1>2, <1>3, <1>4, <1>5, SilentSteps

-------------------------------------------------------------------------------
(* The steps.                                                                   *)

\* equal record hashes end in the same uuid, and none is the empty one
LEMMA HashEnds ==
  ASSUME NEW u, NEW v, NEW p, NEW q, NEW T, NEW f \in Seq(T), NEW g \in Seq(T)
  PROVE  /\ RecordHash(u, p, f) # <<>>
         /\ RecordHash(u, p, f) = RecordHash(v, q, g) => u = v
<1> DEFINE a == [uuid |-> u, prompt |-> p]
<1> DEFINE b == [uuid |-> v, prompt |-> q]
<1> DEFINE S == T \cup {a, b}
<1> HIDE DEF S
<1>1. f \in Seq(S) /\ g \in Seq(S) /\ a \in S /\ b \in S
  BY DEF S
<1> HIDE DEF a, b
<1>2. /\ Append(f, a) \in Seq(S) /\ Len(Append(f, a)) = Len(f) + 1 /\ Append(f, a)[Len(f) + 1] = a
      /\ Append(g, b) \in Seq(S) /\ Len(Append(g, b)) = Len(g) + 1 /\ Append(g, b)[Len(g) + 1] = b
      /\ Len(f) \in Nat /\ Len(g) \in Nat
  <2>1. Append(f, a)[Len(f) + 1] = a /\ Append(g, b)[Len(g) + 1] = b
    BY <1>1, AppendAs
  <2> QED
    BY <1>1, <2>1
<1>3. Append(f, a) # <<>>
  BY <1>2
<1>4. Append(f, a) = Append(g, b) => a = b
  BY <1>2
<1>5. a = b => u = v
  BY DEF a, b
<1> QED
  BY <1>3, <1>4, <1>5 DEF RecordHash, a, b

\* the last row takes the last place
LEMMA LastPlace ==
  ASSUME NEW R, Numbered(R), NEW l \in R, \A s \in R : s.id <= l.id
  PROVE  Cardinality(R) \in Nat \ {0} /\ Ordered(R)[Cardinality(R)] = l
<1>1. IsFiniteSet(R) /\ Cardinality(R) \in Nat /\ Cardinality(R) # 0
  BY FS_CardinalityType, FS_EmptySet DEF Numbered
<1>2. Below(R, l) = R \ {l}
  <2>1. \A s \in R : s.id \in Nat /\ (s.id = l.id => s = l)
    BY DEF Numbered
  <2> QED
    BY <2>1 DEF Below
<1>3. Rank(R, l) = Cardinality(R) - 1
  BY <1>1, <1>2, FS_RemoveElement DEF Rank
<1> QED
  BY <1>1, <1>3, OrderedAt

\* the log has an entry for every row, with its uuid, and no other
LEMMA EntriesType ==
  ASSUME NEW R, Numbered(R)
  PROVE  /\ Cardinality(R) \in Nat
         /\ DOMAIN EntriesOf(R) = 1..Cardinality(R)
         /\ Len(EntriesOf(R)) = Cardinality(R)
         /\ EntriesOf(R) = <<>> <=> R = {}
         /\ \A i \in 1..Cardinality(R) : EntriesOf(R)[i].uuid = Ordered(R)[i].uuid
         /\ \A i \in 1..Cardinality(R) : Ordered(R)[i] \in R
         /\ \A r \in R : \E i \in 1..Cardinality(R) : EntriesOf(R)[i].uuid = r.uuid
<1> DEFINE c == Cardinality(R)
<1> DEFINE Entry(i) == [uuid |-> Ordered(R)[i].uuid, after |-> LinkedTo(R, Ordered(R)[i])]
<1>1. IsFiniteSet(R) /\ c \in Nat /\ (c = 0 <=> R = {})
  BY FS_CardinalityType, FS_EmptySet DEF Numbered
<1>2. EntriesOf(R) = [i \in 1..c |-> Entry(i)]
  BY DEF EntriesOf
<1>3. /\ DOMAIN EntriesOf(R) = 1..c
      /\ \A i \in 1..c : EntriesOf(R)[i].uuid = Ordered(R)[i].uuid
  BY <1>2
<1>4. EntriesOf(R) \in Seq({Entry(i) : i \in 1..c}) /\ Len(EntriesOf(R)) = c
  <2> HIDE DEF Entry, c
  <2> QED
    BY <1>1, <1>2
<1>5. EntriesOf(R) = <<>> <=> R = {}
  <2>1. c = 0 => EntriesOf(R) = <<>>
    BY <1>4
  <2>2. EntriesOf(R) = <<>> => c = 0
    BY <1>4
  <2> QED
    BY <1>1, <2>1, <2>2
<1>6. \A i \in 1..c : Ordered(R)[i] \in R
  BY OrderedAt
<1>7. \A r \in R : \E i \in 1..c : EntriesOf(R)[i].uuid = r.uuid
  BY <1>3, OrderedHas
<1> QED
  BY <1>1, <1>3, <1>4, <1>5, <1>6, <1>7

\* a record committed in a promised workspace is linked to its last record, and none to it
LEMMA CommitLinks ==
  ASSUME Chained, UuidFree, AllNumbered, NEW w \in Workers, Commit(w),
         NEW n, n = NewRow(w), NEW R, R = InSpace(n.ws), n.ws \notin disturbed
  PROVE  /\ n.id \in Nat
         /\ \A r \in R : r.id < n.id
         /\ \A r \in R : r.prev # n.hash
         /\ LinkedTo(R \cup {n}, n) =
              IF EntriesOf(R) = <<>> THEN {} ELSE {EntriesOf(R)[Len(EntriesOf(R))].uuid}
<1>0. Typed /\ Order /\ ChainIntact
  BY DEF Chained
<1>1. /\ n.ws \in Spaces /\ n.uuid \in Uuids /\ n.prev \in Seq(Link)
      /\ n.hash = RecordHash(n.uuid, n.prompt, n.prev)
      /\ n.ws = SpaceOf(w) /\ n.uuid = tx[w].pay.uuid /\ n.id = tx[w].id /\ n.prev = tx[w].prev
      /\ tx[w].pc = "commit" /\ Inserted(w)
  BY <1>0, CommitFacts
<1>2. Numbered(R)
  BY <1>1 DEF AllNumbered
<1>3. n.id \in Nat /\ \A r \in R : r.id < n.id
  BY <1>0, <1>1, Numbers DEF Order, OpenBehind
<1>4. \A r \in R : /\ r.hash = RecordHash(r.uuid, r.prompt, r.prev)
                   /\ r.prev \in Seq(Link) /\ r.uuid # n.uuid
                   /\ r.prev = <<>> \/ \E s \in R : r.prev = s.hash
  <2> TAKE r \in R
  <2>1. r \in rows /\ r.ws = n.ws
    BY DEF InSpace
  <2>2. RowVerifies(r)
    BY <1>0, <1>1 DEF ChainIntact, VerifyChain
  <2>3. r.prev \in Seq(Link) /\ r.uuid # n.uuid
    BY <1>0, <1>1, <2>1 DEF Typed, TypeOK, Row, UuidFree
  <2> QED
    BY <2>1, <2>2, <2>3 DEF RowVerifies, IsPredecessor
<1>5. n.hash # <<>>
  BY <1>1, HashEnds
<1>6. \A r \in R : r.hash # n.hash
  BY <1>1, <1>4, HashEnds
<1>7. \A r \in R : r.prev # n.hash
  BY <1>4, <1>5, <1>6
<1>8. CASE R = {} /\ n.prev = <<>>
  <2>1. {s \in R \cup {n} : s.hash = n.prev} = {}
    BY <1>5, <1>8
  <2>2. EntriesOf(R) = <<>>
    BY <1>2, <1>8, EntriesType
  <2> QED
    BY <1>3, <1>7, <2>1, <2>2 DEF LinkedTo
<1>9. ASSUME NEW l \in rows, IsLast(l, n.ws), n.prev = l.hash
      PROVE  LinkedTo(R \cup {n}, n) =
               IF EntriesOf(R) = <<>> THEN {} ELSE {EntriesOf(R)[Len(EntriesOf(R))].uuid}
  <2>1. l \in R /\ \A s \in R : s.id <= l.id
    BY <1>9 DEF IsLast
  <2>2. Cardinality(R) \in Nat \ {0} /\ Ordered(R)[Cardinality(R)] = l
    BY <1>2, <2>1, LastPlace
  <2>3. EntriesOf(R) # <<>> /\ EntriesOf(R)[Len(EntriesOf(R))].uuid = l.uuid
    BY <1>2, <2>1, <2>2, EntriesType
  <2>4. \A s \in R : s.hash = l.hash => s.uuid = l.uuid
    BY <1>4, <2>1, HashEnds
  <2>5. l.hash # n.hash
    BY <1>6, <2>1
  <2>6. LinkedTo(R \cup {n}, n) = {l.uuid}
    BY <1>9, <2>1, <2>4, <2>5 DEF LinkedTo
  <2> QED
    BY <2>3, <2>6
<1>10. \/ R = {} /\ n.prev = <<>>
       \/ \E l \in rows : IsLast(l, n.ws) /\ n.prev = l.hash
  BY <1>0, <1>1 DEF Order, TailRead
<1> QED
  BY <1>3, <1>7, <1>8, <1>9, <1>10

\* a commit in a promised workspace extends its log
LEMMA CommitExtends ==
  ASSUME Chained, UuidFree, AllNumbered, NEW w \in Workers, Commit(w),
         NEW n, n = NewRow(w), n.ws \notin disturbed
  PROVE  Log!Extend(n.ws, n.uuid)
<1>1. /\ rows' = rows \cup {n} /\ disturbed' = disturbed
      /\ answered' = answered \cup {<<n.ws, n.uuid>>}
      /\ n.ws \in Spaces /\ n.uuid = tx[w].pay.uuid /\ Inserted(w)
      /\ InSpace(n.ws)' = InSpace(n.ws) \cup {n}
      /\ \A ws : ws # n.ws => InSpace(ws)' = InSpace(ws)
  BY CommitFacts DEF Chained
<1>2. PICK R : R = InSpace(n.ws)
  OBVIOUS
<1>3. Numbered(R)
  BY <1>1, <1>2 DEF AllNumbered
<1>4. EntriesOf(R \cup {n}) =
        Append(EntriesOf(R), [uuid |-> n.uuid, after |-> LinkedTo(R \cup {n}, n)])
  BY <1>2, <1>3, CommitLinks, EntriesGrow
<1>5. Seen[n.ws] = EntriesOf(R)
  BY <1>1, <1>2 DEF Seen
<1>6. Seen' = [Seen EXCEPT ![n.ws] = EntriesOf(R \cup {n})]
  <2>1. Seen' = [ws \in Spaces |-> IF ws \in disturbed THEN <<>> ELSE EntriesOf(InSpace(ws)')]
    BY <1>1 DEF Seen
  <2>2. \A ws \in Spaces : EntriesOf(InSpace(ws)') =
          IF ws = n.ws THEN EntriesOf(R \cup {n}) ELSE EntriesOf(InSpace(ws))
    BY <1>1, <1>2
  <2> QED
    BY <2>1, <2>2 DEF Seen
<1>7. Seen' = [Seen EXCEPT ![n.ws] =
                 Append(Seen[n.ws],
                        [uuid |-> n.uuid,
                         after |-> IF Seen[n.ws] = <<>> THEN {} ELSE {Seen[n.ws][Len(Seen[n.ws])].uuid}])]
  <2>1. LinkedTo(R \cup {n}, n) =
          IF EntriesOf(R) = <<>> THEN {} ELSE {EntriesOf(R)[Len(EntriesOf(R))].uuid}
    BY <1>2, CommitLinks
  <2> QED
    BY <1>4, <1>5, <1>6, <2>1, Zenon
<1>8. \A ws \in Spaces : n.uuid \notin Log!UuidsOf(Seen[ws])
  <2> TAKE ws \in Spaces
  <2>1. CASE ws \in disturbed
    BY <2>1 DEF Seen, Log!UuidsOf
  <2>2. CASE ws \notin disturbed
    <3>1. Numbered(InSpace(ws))
      BY <2>2 DEF AllNumbered
    <3>2. \A r \in InSpace(ws) : r.uuid # n.uuid
      BY <1>1 DEF UuidFree, InSpace
    <3> QED
      BY <2>2, <3>1, <3>2, EntriesType DEF Seen, Log!UuidsOf
  <2> QED
    BY <2>1, <2>2
<1>9. n.ws \in Promised /\ Promised' = Promised
  BY <1>1 DEF Promised
<1> QED
  BY <1>1, <1>7, <1>8, <1>9 DEF Log!Extend

\* an answer from a stored row is an entry of the log, where there is one
LEMMA AnswerRepeats ==
  ASSUME Typed, AllNumbered, NEW r \in rows, Answer(r), rows' = rows, disturbed' = disturbed
  PROVE  Log!Repeat(r.ws, r.uuid) /\ r.ws \in Spaces /\ r.uuid \in Uuids
<1>1. r.ws \in Spaces /\ r.uuid \in Uuids
  BY DEF Typed, TypeOK, Row
<1>2. Seen' = Seen /\ Promised' = Promised
  BY DEF Seen, Promised, InSpace
<1>3. ASSUME r.ws \in Promised PROVE r.uuid \in Log!UuidsOf(Seen[r.ws])
  <2>1. Numbered(InSpace(r.ws)) /\ Seen[r.ws] = EntriesOf(InSpace(r.ws)) /\ r \in InSpace(r.ws)
    BY <1>1, <1>3 DEF AllNumbered, Seen, Promised, InSpace
  <2> QED
    BY <2>1, EntriesType DEF Log!UuidsOf
<1> QED
  BY <1>1, <1>2, <1>3 DEF Log!Repeat, Answer

\* a workspace disturbed by a step that stores nothing elsewhere loses its promise
LEMMA DisturbCloses ==
  ASSUME NEW ws \in Spaces, disturbed' = disturbed \cup {ws}, answered' = answered,
         \A v \in Spaces \ disturbed' : InSpace(v)' = InSpace(v)
  PROVE  Log!Close(ws)
<1>1. Promised' = Promised \ {ws}
  BY DEF Promised
<1>2. Seen' = [Seen EXCEPT ![ws] = <<>>]
  BY DEF Seen
<1> QED
  BY <1>1, <1>2 DEF Log!Close

\* the initial state is an empty log that is promised for every workspace
LEMMA LogInitially == Init => Log!LogInit
<1> SUFFICES ASSUME Init PROVE Log!LogInit
  OBVIOUS
<1>1. \A ws \in Spaces : EntriesOf(InSpace(ws)) = <<>>
  <2>1. \A ws : InSpace(ws) = {}
    BY DEF Init, InSpace
  <2> QED
    BY <2>1, NumberedEmpty, EntriesType
<1>2. Seen = [ws \in Spaces |-> <<>>] /\ Promised = Spaces /\ answered = {}
  BY <1>1 DEF Init, Seen, Promised
<1> QED
  BY <1>2 DEF Log!LogInit

\* which steps give an answer, and from which row
LEMMA AnswerSteps ==
  [Next]_vars => \/ answered' = answered
                 \/ \E r \in rows : Answer(r)
                 \/ \E w \in Workers : Commit(w)
<1> SUFFICES ASSUME [Next]_vars, answered' # answered, \A w \in Workers : ~Commit(w)
             PROVE  \E r \in rows : Answer(r)
  OBVIOUS
<1>1. \/ \E w \in Workers : LookupDuplicate(w) \/ InsertConflict(w)
      \/ \E w \in Workers, p \in Payloads : ReceiveRetry(w, p)
  BY DEF Next, Serve, Receive, ImportLoad, FindWorkspace, FlushWorkspace, LookupNone,
         LookupFails, InsertRow, SelectTail, LockTail, WriteLineage, SkipLineage, LineageFails,
         CommitFails, CleanupLineage, ImportCommit, Restart, vars
<1> QED
  BY <1>1 DEF LookupDuplicate, InsertConflict, ReceiveRetry, Existing, InSpace

\* every step is a step of the log
LEMMA LogStep ==
  Chained /\ UuidFree /\ AllNumbered /\ [Next]_vars => [Log!LogNext]_(Log!logVars)
<1> SUFFICES ASSUME Chained, UuidFree, AllNumbered, [Next]_vars
             PROVE  [Log!LogNext]_(Log!logVars)
  OBVIOUS
<1>0. Typed
  BY DEF Chained
<1>1. ASSUME NEW w \in Workers, Commit(w) PROVE Log!LogNext
  <2>0. PICK n : n = NewRow(w)
    OBVIOUS
  <2>1. /\ rows' = rows \cup {n} /\ disturbed' = disturbed
        /\ answered' = answered \cup {<<n.ws, n.uuid>>}
        /\ n.ws \in Spaces /\ n.uuid \in Uuids
        /\ \A ws : ws # n.ws => InSpace(ws)' = InSpace(ws)
    BY <1>0, <1>1, <2>0, CommitFacts
  <2>2. CASE n.ws \notin disturbed
    BY <1>1, <2>0, <2>1, <2>2, CommitExtends DEF Log!LogNext
  <2>3. CASE n.ws \in disturbed
    <3>1. Seen' = Seen /\ Promised' = Promised /\ n.ws \notin Promised
      BY <2>1, <2>3 DEF Seen, Promised
    <3> QED
      BY <2>1, <3>1 DEF Log!LogNext, Log!Repeat
  <2> QED
    BY <2>2, <2>3
<1>2. CASE Silent
  <2>1. CASE answered' = answered
    <3>1. Seen' = Seen /\ Promised' = Promised
      BY <1>2 DEF Silent, Seen, Promised, InSpace
    <3> QED
      BY <2>1, <3>1 DEF Log!logVars
  <2>2. ASSUME NEW r \in rows, Answer(r) PROVE Log!LogNext
    BY <1>0, <1>2, <2>2, AnswerRepeats DEF Silent, Log!LogNext
  <2> QED
    BY <1>1, <1>2, <2>1, <2>2, AnswerSteps
<1>3. ASSUME NEW w \in Workers, InsertRow(w) PROVE [Log!LogNext]_(Log!logVars)
  <2>1. /\ rows' = rows /\ disturbed' \in {disturbed, disturbed \cup {SpaceOf(w)}}
        /\ SpaceOf(w) \in Spaces /\ answered' = answered
    BY <1>0, <1>3, InsertFacts DEF InsertRow
  <2>2. \A ws : InSpace(ws)' = InSpace(ws)
    BY <2>1 DEF InSpace
  <2>3. CASE disturbed' = disturbed
    <3>1. Seen' = Seen /\ Promised' = Promised
      BY <2>2, <2>3 DEF Seen, Promised
    <3> QED
      BY <2>1, <3>1 DEF Log!logVars
  <2>4. CASE disturbed' = disturbed \cup {SpaceOf(w)}
    BY <2>1, <2>2, <2>4, DisturbCloses DEF Log!LogNext
  <2> QED
    BY <2>1, <2>3, <2>4
<1>4. ASSUME NEW w \in Workers, ImportCommit(w) PROVE [Log!LogNext]_(Log!logVars)
  <2>1. /\ SpaceOf(w) \in Spaces /\ answered' = answered
        /\ \/ rows' = rows /\ disturbed' = disturbed
           \/ /\ disturbed' = disturbed \cup {SpaceOf(w)}
              /\ rows \subseteq rows'
              /\ \A r \in rows' \ rows : r.ws = SpaceOf(w)
    BY <1>0, <1>4, ImportFacts
  <2>2. CASE rows' = rows /\ disturbed' = disturbed
    <3>1. Seen' = Seen /\ Promised' = Promised
      BY <2>2 DEF Seen, Promised, InSpace
    <3> QED
      BY <2>1, <3>1 DEF Log!logVars
  <2>3. CASE /\ disturbed' = disturbed \cup {SpaceOf(w)}
             /\ rows \subseteq rows' /\ \A r \in rows' \ rows : r.ws = SpaceOf(w)
    <3>1. \A v \in Spaces \ disturbed' : InSpace(v)' = InSpace(v)
      BY <2>3 DEF InSpace
    <3> QED
      BY <2>1, <2>3, <3>1, DisturbCloses DEF Log!LogNext
  <2> QED
    BY <2>1, <2>2, <2>3
<1> QED
  BY <1>0, <1>1, <1>2, <1>3, <1>4, SilentSteps

\* The ingest path, with its retries, failures, rollbacks and restarts, implements the log:
\* linked entries appended at its end, answers that name entries of it.
THEOREM IngestImplementsLog == Spec => ImplementsLog
<1>1. Init => Log!LogInit /\ Chained /\ UuidFree /\ AllNumbered
  BY LogInitially, ChainedInit
<1>2. Chained /\ UuidFree /\ AllNumbered /\ [Next]_vars
        => (Chained /\ UuidFree /\ AllNumbered)'
  BY ChainedStep
<1>3. Chained /\ UuidFree /\ AllNumbered /\ [Next]_vars => [Log!LogNext]_(Log!logVars)
  BY LogStep
<1> QED
  BY <1>1, <1>2, <1>3, PTL DEF Spec, ImplementsLog, Log!LogSpec
===============================================================================
