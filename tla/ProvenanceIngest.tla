--------------------------- MODULE ProvenanceIngest ---------------------------
(***************************************************************************)
(* Ingest of provenance records by the LineageLens backend (Plus/Max, on   *)
(* PostgreSQL at READ COMMITTED): workspace stub, duplicate detection, the *)
(* insert that draws an id, the hash chain (SELECT ... FOR UPDATE on the   *)
(* predecessor), the Neo4j lineage node, the commit, and the agent-trace   *)
(* import that writes chained rows on a path of its own.                   *)
(*                                                                         *)
(* One worker is one HTTP request at a time with its own database session; *)
(* an action is the code between two awaits that other requests can        *)
(* overtake.  The database is modelled by what a session can observe:      *)
(* committed rows only, a unique index that makes a second insert of an    *)
(* uncommitted key wait, row locks held to the end of the transaction, and *)
(* a sequence that is never rolled back.                                   *)
(***************************************************************************)
EXTENDS Naturals, Sequences, FiniteSets

CONSTANTS
  Workers,        \* requests in flight, each with its own session
  Payloads,       \* ingest bodies: [ws, uuid, req], req = NoReq when absent
  Imports,        \* agent-trace files: [ws, docs], docs a sequence of uuids
  NoReq,          \* "no requestUuid in the payload"
  NoPayload,      \* the payload field of a worker that has none
  Neo4jEnabled,   \* app.state.neo4j_service is not None
  StrictLineage,  \* settings.lineage_strict_mode
  MaxId           \* bound: no request is accepted once more ids are drawn

ASSUME FlagsAssumption == /\ Neo4jEnabled \in BOOLEAN
                          /\ StrictLineage \in BOOLEAN
ASSUME MaxIdAssumption == MaxId \in Nat

Spaces == {p.ws : p \in Payloads} \cup {m.ws : m \in Imports}
Uuids  == {p.uuid : p \in Payloads} \cup UNION {{m.docs[k] : k \in DOMAIN m.docs} : m \in Imports}
Reqs   == {p.req : p \in Payloads} \cup {NoReq}

ASSUME PayloadsAssumption == Payloads \subseteq [ws : Spaces, uuid : Uuids, req : Reqs]
ASSUME ImportsAssumption  == \A m \in Imports : m.docs \in Seq(Uuids) \ {<<>>}

VARIABLES
  rows,        \* committed provenance_records
  nextId,      \* next value of the id sequence
  workspaces,  \* committed workspaces rows
  known,       \* _known_workspace_ids, the process-local cache
  graph,       \* uuids that have a lineage node in Neo4j
  tx,          \* per worker: the request and its open transaction
  answered,    \* <<ws, uuid>> of every record an answer has named
  disturbed    \* history: workspaces that saw overlapping inserts or an import

vars == <<rows, nextId, workspaces, known, graph, tx, answered, disturbed>>

-------------------------------------------------------------------------------
(* Hashes.  SHA-256 is taken as injective: a record hash is the sequence   *)
(* of links it commits to, the empty sequence standing for "no prev_hash". *)

Prompts == {"own", "absent", "surrogate"}
Link    == [uuid : Uuids, prompt : Prompts]

RecordHash(uuid, prompt, prev) == Append(prev, [uuid |-> uuid, prompt |-> prompt])

Row == [id : Nat, ws : Spaces, uuid : Uuids, req : Reqs, prompt : Prompts,
        prev : Seq(Link), hash : Seq(Link), node : BOOLEAN]

InSpace(ws) == {r \in rows : r.ws = ws}

\* r is the chained row of ws with the largest id below i
IsPredecessor(r, ws, i) == /\ r \in InSpace(ws)
                           /\ r.id < i
                           /\ \A s \in InSpace(ws) : s.id < i => s.id <= r.id

NoPredecessor(ws, i) == \A s \in InSpace(ws) : ~(s.id < i)

\* what GET /integrity/verify tests of one active row while it walks by id
RowVerifies(r) ==
  /\ r.hash = RecordHash(r.uuid, r.prompt, r.prev)
  /\ \/ NoPredecessor(r.ws, r.id) /\ r.prev = <<>>
     \/ \E s \in rows : IsPredecessor(s, r.ws, r.id) /\ r.prev = s.hash

VerifyChain(ws) == \A r \in InSpace(ws) : RowVerifies(r)

-------------------------------------------------------------------------------
(* Sessions. *)

\* a session that has not written anything yet
Fresh(pc, pay, docs) ==
  [pc |-> pc, pay |-> pay, docs |-> docs,
   newWs |-> FALSE, id |-> 0, tail |-> 0, prev |-> <<>>, node |-> FALSE]

Idle == Fresh("idle", NoPayload, <<>>)

\* the record is inserted in the worker's open transaction
Inserted(w) == tx[w].pc \in {"select", "lock", "lineage", "commit"}

\* the worker holds FOR UPDATE on its predecessor row
Holds(w, id) == tx[w].pc \in {"lineage", "commit"} /\ tx[w].tail = id

SpaceOf(w) == tx[w].pay.ws

\* mutant: the requestUuid clause of the lookup dropped
ExistingByUuid(p) == {r \in InSpace(p.ws) : r.uuid = p.uuid}

\* find_existing_ingest_record: same uuid, or same request uuid, in the workspace
Existing(p) == {r \in InSpace(p.ws) : \/ r.uuid = p.uuid
                                      \/ p.req # NoReq /\ r.req = p.req}

End(w)    == tx' = [tx EXCEPT ![w] = Idle]
Goto(w,l) == tx' = [tx EXCEPT ![w].pc = l]

\* mutant: workspace and uuid swapped in the outcome
AnswerSwapped(r) == answered' = answered \cup {<<r.uuid, r.ws>>}

\* the outcome of a request names the stored record
Answer(r) == answered' = answered \cup {<<r.ws, r.uuid>>}

Init == /\ rows = {} /\ nextId = 1 /\ workspaces = {} /\ known = {}
        /\ graph = {} /\ tx = [w \in Workers |-> Idle]
        /\ answered = {} /\ disturbed = {}

-------------------------------------------------------------------------------
(* POST /ingest *)

\* the request arrives without X-Idempotency-Key, or with one that is not stored yet
Receive(w, p) ==
  /\ tx[w].pc = "idle"
  /\ nextId <= MaxId
  /\ tx' = [tx EXCEPT ![w] = Fresh("workspace", p, <<>>)]
  /\ UNCHANGED <<rows, nextId, workspaces, known, graph, answered, disturbed>>

\* fast path: the key names a stored record
ReceiveRetry(w, p) ==
  /\ tx[w].pc = "idle"
  /\ \E r \in InSpace(p.ws) : r.uuid = p.uuid /\ Answer(r)
  /\ UNCHANGED <<rows, nextId, workspaces, known, graph, tx, disturbed>>

\* _ensure_workspace_exists up to its SELECT
FindWorkspace(w) ==
  /\ tx[w].pc = "workspace"
  /\ IF SpaceOf(w) \in known \cup workspaces
       THEN Goto(w, "lookup") /\ known' = known \cup {SpaceOf(w)}
       ELSE Goto(w, "stub") /\ UNCHANGED known
  /\ UNCHANGED <<rows, nextId, workspaces, graph, answered, disturbed>>

\* its INSERT: waits for another session's uncommitted stub of the same id
FlushWorkspace(w) ==
  /\ tx[w].pc = "stub"
  /\ \A v \in Workers \ {w} : ~(tx[v].newWs /\ SpaceOf(v) = SpaceOf(w))
  /\ tx' = [tx EXCEPT ![w].pc = "lookup", ![w].newWs = SpaceOf(w) \notin workspaces]
  /\ known' = known \cup {SpaceOf(w)}
  /\ UNCHANGED <<rows, nextId, workspaces, graph, answered, disturbed>>

\* find_existing_ingest_record: none, one (duplicate), or MultipleResultsFound
LookupNone(w) ==
  /\ tx[w].pc = "lookup" /\ Existing(tx[w].pay) = {}
  /\ Goto(w, "insert")
  /\ UNCHANGED <<rows, nextId, workspaces, known, graph, answered, disturbed>>

LookupDuplicate(w) ==
  /\ tx[w].pc = "lookup"
  /\ \E r \in Existing(tx[w].pay) : Existing(tx[w].pay) = {r} /\ Answer(r)
  /\ End(w)
  /\ UNCHANGED <<rows, nextId, workspaces, known, graph, disturbed>>

LookupFails(w) ==
  /\ tx[w].pc = "lookup"
  /\ \E r, s \in Existing(tx[w].pay) : r # s
  /\ End(w)
  /\ UNCHANGED <<rows, nextId, workspaces, known, graph, answered, disturbed>>

\* session.flush(): waits for an uncommitted insert of the same uuid
KeyFree(w, uuid) == \A v \in Workers \ {w} : ~(Inserted(v) /\ tx[v].pay.uuid = uuid)
KeyTaken(uuid)   == \E r \in rows : r.uuid = uuid

\* mutant: the sequence does not advance
InsertRowSameId(w) ==
  /\ tx[w].pc = "insert"
  /\ KeyFree(w, tx[w].pay.uuid) /\ ~KeyTaken(tx[w].pay.uuid)
  /\ tx' = [tx EXCEPT ![w].pc = "select", ![w].id = nextId]
  /\ UNCHANGED <<rows, nextId, workspaces, known, graph, answered, disturbed>>

InsertRow(w) ==
  /\ tx[w].pc = "insert"
  /\ KeyFree(w, tx[w].pay.uuid) /\ ~KeyTaken(tx[w].pay.uuid)
  /\ tx' = [tx EXCEPT ![w].pc = "select", ![w].id = nextId]
  /\ nextId' = nextId + 1
  /\ disturbed' = IF \E v \in Workers : Inserted(v) /\ SpaceOf(v) = SpaceOf(w)
                    THEN disturbed \cup {SpaceOf(w)} ELSE disturbed
  /\ UNCHANGED <<rows, workspaces, known, graph, answered>>

\* IntegrityError: rollback, look up again, answer the duplicate or raise
InsertConflict(w) ==
  LET found == Existing(tx[w].pay) IN
  /\ tx[w].pc = "insert"
  /\ KeyFree(w, tx[w].pay.uuid) /\ KeyTaken(tx[w].pay.uuid)
  /\ \/ \E r \in found : found = {r} /\ Answer(r)
     \/ Cardinality(found) # 1 /\ UNCHANGED answered
  /\ nextId' = nextId + 1
  /\ End(w)
  /\ UNCHANGED <<rows, workspaces, known, graph, disturbed>>

\* mutant: the predecessor may be another session's uncommitted record
SelectTailDirty(w) ==
  /\ tx[w].pc = "select"
  /\ \/ /\ NoPredecessor(SpaceOf(w), tx[w].id)
        /\ tx' = [tx EXCEPT ![w].pc = "lineage", ![w].prev = <<>>]
     \/ \E v \in Workers \ {w} :
          /\ tx[v].pc \in {"lineage", "commit"} /\ SpaceOf(v) = SpaceOf(w) /\ tx[v].id < tx[w].id
          /\ tx' = [tx EXCEPT ![w].pc = "lock", ![w].tail = tx[v].id,
                              ![w].prev = RecordHash(tx[v].pay.uuid, "own", tx[v].prev)]
     \/ \E r \in rows :
          /\ IsPredecessor(r, SpaceOf(w), tx[w].id)
          /\ tx' = [tx EXCEPT ![w].pc = "lock", ![w].tail = r.id, ![w].prev = r.hash]
  /\ UNCHANGED <<rows, nextId, workspaces, known, graph, answered, disturbed>>

\* mutant: ORDER BY id DESC forgotten, any earlier row is the predecessor
SelectTailUnordered(w) ==
  /\ tx[w].pc = "select"
  /\ \/ /\ NoPredecessor(SpaceOf(w), tx[w].id)
        /\ tx' = [tx EXCEPT ![w].pc = "lineage", ![w].prev = <<>>]
     \/ \E r \in InSpace(SpaceOf(w)) :
          /\ r.id < tx[w].id
          /\ tx' = [tx EXCEPT ![w].pc = "lock", ![w].tail = r.id, ![w].prev = r.hash]
  /\ UNCHANGED <<rows, nextId, workspaces, known, graph, answered, disturbed>>

\* _attach_hash_chain: the statement's snapshot chooses the predecessor ...
SelectTail(w) ==
  /\ tx[w].pc = "select"
  /\ \/ /\ NoPredecessor(SpaceOf(w), tx[w].id)
        /\ tx' = [tx EXCEPT ![w].pc = "lineage", ![w].prev = <<>>]
     \/ \E r \in rows :
          /\ IsPredecessor(r, SpaceOf(w), tx[w].id)
          /\ tx' = [tx EXCEPT ![w].pc = "lock", ![w].tail = r.id, ![w].prev = r.hash]
  /\ UNCHANGED <<rows, nextId, workspaces, known, graph, answered, disturbed>>

\* ... and FOR UPDATE then waits for that row, which no ingest ever changes
LockTail(w) ==
  /\ tx[w].pc = "lock"
  /\ \A v \in Workers \ {w} : ~Holds(v, tx[w].tail)
  /\ Goto(w, "lineage")
  /\ UNCHANGED <<rows, nextId, workspaces, known, graph, answered, disturbed>>

\* _write_lineage_node
WriteLineage(w) ==
  /\ tx[w].pc = "lineage" /\ Neo4jEnabled
  /\ graph' = graph \cup {tx[w].pay.uuid}
  /\ tx' = [tx EXCEPT ![w].pc = "commit", ![w].node = TRUE]
  /\ UNCHANGED <<rows, nextId, workspaces, known, answered, disturbed>>

SkipLineage(w) ==
  /\ tx[w].pc = "lineage" /\ ~Neo4jEnabled
  /\ Goto(w, "commit")
  /\ UNCHANGED <<rows, nextId, workspaces, known, graph, answered, disturbed>>

\* mutant: lineage_node_id assigned before the Neo4j call that fails
LineageFailsAssigned(w) ==
  /\ tx[w].pc = "lineage" /\ Neo4jEnabled
  /\ tx' = [tx EXCEPT ![w].pc = "commit", ![w].node = TRUE]
  /\ UNCHANGED <<rows, nextId, workspaces, known, graph, answered, disturbed>>

\* Neo4j raises, before or after it wrote the node: strict mode rolls back,
\* otherwise the record is committed without a lineage_node_id
LineageFails(w) ==
  /\ tx[w].pc = "lineage" /\ Neo4jEnabled
  /\ graph' \in {graph, graph \cup {tx[w].pay.uuid}}
  /\ IF StrictLineage THEN End(w) ELSE Goto(w, "commit")
  /\ UNCHANGED <<rows, nextId, workspaces, known, answered, disturbed>>

\* mutant: the prev_hash column left empty, the hash computed as before
NewRowUnlinked(w) ==
  [id |-> tx[w].id, ws |-> SpaceOf(w), uuid |-> tx[w].pay.uuid, req |-> tx[w].pay.req,
   prompt |-> "own", prev |-> <<>>,
   hash |-> RecordHash(tx[w].pay.uuid, "own", tx[w].prev), node |-> tx[w].node]

NewRow(w) ==
  [id |-> tx[w].id, ws |-> SpaceOf(w), uuid |-> tx[w].pay.uuid, req |-> tx[w].pay.req,
   prompt |-> "own", prev |-> tx[w].prev,
   hash |-> RecordHash(tx[w].pay.uuid, "own", tx[w].prev), node |-> tx[w].node]

Commit(w) ==
  /\ tx[w].pc = "commit"
  /\ rows' = rows \cup {NewRow(w)}
  /\ workspaces' = IF tx[w].newWs THEN workspaces \cup {SpaceOf(w)} ELSE workspaces
  /\ Answer(NewRow(w))
  /\ End(w)
  /\ UNCHANGED <<nextId, known, graph, disturbed>>

\* mutant: the commit error swallowed, the outcome returned as stored
CommitFailsSilently(w) ==
  /\ tx[w].pc = "commit"
  /\ Answer(NewRow(w))
  /\ End(w)
  /\ UNCHANGED <<rows, nextId, workspaces, known, graph, disturbed>>

\* mutant: lineage write and commit retried without a limit
CommitFailsRetries(w) ==
  /\ tx[w].pc = "commit"
  /\ Goto(w, "lineage")
  /\ UNCHANGED <<rows, nextId, workspaces, known, graph, answered, disturbed>>

\* _commit_with_lineage_cleanup: the transaction is gone before the cleanup runs
CommitFails(w) ==
  /\ tx[w].pc = "commit"
  /\ IF tx[w].node
       THEN tx' = [tx EXCEPT ![w] = Fresh("cleanup", tx[w].pay, <<>>)]
       ELSE End(w)
  /\ UNCHANGED <<rows, nextId, workspaces, known, graph, answered, disturbed>>

\* delete_lineage_record, which may itself fail (logged, node stays)
CleanupLineage(w) ==
  /\ tx[w].pc = "cleanup"
  /\ graph' \in {graph, graph \ {tx[w].pay.uuid}}
  /\ End(w)
  /\ UNCHANGED <<rows, nextId, workspaces, known, answered, disturbed>>

-------------------------------------------------------------------------------
(* POST /import/agent-trace (admin): the existing uuids are read first, the *)
(* batch is inserted and committed at the end, each batch a sub-chain of    *)
(* its own whose hashes commit to a surrogate prompt that is not stored.    *)

\* the documents of m that are not stored in its workspace, in file order
FreshDocs(m, docs) ==
  \E pos \in [DOMAIN docs -> DOMAIN m.docs] :
    /\ \A j, k \in DOMAIN docs : j < k => pos[j] < pos[k]
    /\ \A k \in DOMAIN docs : docs[k] = m.docs[pos[k]]
    /\ \A i \in DOMAIN m.docs :
         (\E k \in DOMAIN docs : pos[k] = i) <=> (\A r \in InSpace(m.ws) : r.uuid # m.docs[i])

ImportLoad(w, m) ==
  /\ tx[w].pc = "idle"
  /\ nextId <= MaxId
  /\ \E n \in 0..Len(m.docs) : \E docs \in [1..n -> Uuids] :
       /\ FreshDocs(m, docs)
       /\ tx' = [tx EXCEPT ![w] =
                   Fresh("import", [ws |-> m.ws, uuid |-> m.docs[1], req |-> NoReq], docs)]
  /\ UNCHANGED <<rows, nextId, workspaces, known, graph, answered, disturbed>>

ImportHash(docs, k) == [j \in 1..k |-> [uuid |-> docs[j], prompt |-> "surrogate"]]

ImportRow(w, k) ==
  [id |-> nextId + k - 1, ws |-> SpaceOf(w), uuid |-> tx[w].docs[k], req |-> NoReq,
   prompt |-> "absent", prev |-> ImportHash(tx[w].docs, k - 1),
   hash |-> ImportHash(tx[w].docs, k), node |-> FALSE]

ImportCommit(w) ==
  /\ tx[w].pc = "import"
  /\ \A k \in DOMAIN tx[w].docs : KeyFree(w, tx[w].docs[k])
  /\ IF \E k \in DOMAIN tx[w].docs : KeyTaken(tx[w].docs[k])
       THEN UNCHANGED <<rows, disturbed>>
       ELSE /\ rows' = rows \cup {ImportRow(w, k) : k \in DOMAIN tx[w].docs}
            /\ disturbed' = IF tx[w].docs = <<>> THEN disturbed
                                                 ELSE disturbed \cup {SpaceOf(w)}
  /\ nextId' = nextId + Len(tx[w].docs)
  /\ End(w)
  /\ UNCHANGED <<workspaces, known, graph, answered>>

-------------------------------------------------------------------------------
\* the server process stops: open transactions roll back, the cache is empty again
Restart ==
  /\ tx' = [w \in Workers |-> Idle]
  /\ known' = {}
  /\ UNCHANGED <<rows, nextId, workspaces, graph, answered, disturbed>>

Serve(w) == \/ FindWorkspace(w) \/ FlushWorkspace(w)
            \/ LookupNone(w) \/ LookupDuplicate(w) \/ LookupFails(w)
            \/ InsertRow(w) \/ InsertConflict(w)
            \/ SelectTail(w) \/ LockTail(w)
            \/ WriteLineage(w) \/ SkipLineage(w) \/ LineageFails(w)
            \/ Commit(w) \/ CommitFails(w) \/ CleanupLineage(w)
            \/ ImportCommit(w)

Next == \/ \E w \in Workers : Serve(w)
        \/ \E w \in Workers, p \in Payloads : Receive(w, p) \/ ReceiveRetry(w, p)
        \/ \E w \in Workers, m \in Imports : ImportLoad(w, m)
        \/ Restart

Spec == Init /\ [][Next]_vars

\* a request once received keeps being scheduled by the event loop
FairSpec == Spec /\ \A w \in Workers : WF_vars(Serve(w))

-------------------------------------------------------------------------------
(* Properties. *)

Steps == {"idle", "workspace", "stub", "lookup", "insert", "select", "lock",
          "lineage", "commit", "cleanup", "import"}

Payload == [ws : Spaces, uuid : Uuids, req : Reqs]
Session == [pc : Steps, pay : Payload \cup {NoPayload},
            newWs : BOOLEAN, id : Nat, tail : Nat, prev : Seq(Link), node : BOOLEAN,
            docs : Seq(Uuids)]

\* Type invariant of the ingest path.
TypeOK == /\ rows \subseteq Row
          /\ nextId \in Nat \ {0}
          /\ workspaces \subseteq Spaces /\ known \subseteq Spaces
          /\ graph \subseteq Uuids
          /\ tx \in [Workers -> Session]
          /\ answered \subseteq Spaces \X Uuids
          /\ disturbed \subseteq Spaces

\* The chain a workspace's ingests build verifies at every moment, whatever is
\* retried, rolled back or cut off by a restart, as long as no two of its inserts
\* were open at once and nothing was imported into it (_attach_hash_chain).
ChainIntact == \A ws \in Spaces \ disturbed : VerifyChain(ws)

\* Whatever overlaps, no row's prev_hash dangles: it is empty or the hash of a
\* committed row of the same workspace with a smaller id, never of one that was
\* rolled back (_attach_hash_chain reads committed rows only).
LinksBackward ==
  \A r \in rows : \/ r.prev = <<>>
                   \/ \E s \in InSpace(r.ws) : s.id < r.id /\ s.hash = r.prev

\* An answer, to a first send or to a retry, names a record that is committed
\* (IngestResponse is built after the commit or from a committed duplicate).
AnswersStored == \A a \in answered : \E r \in rows : <<r.ws, r.uuid>> = a

\* Without overlap a record is only ever appended behind every committed record
\* of its workspace: ids follow the order of commits, so the verifier's walk by
\* id is the order in which the chain was built.
TailAppend ==
  [][\A ws \in Spaces \ disturbed' :
       \A r \in rows' \ rows : r.ws = ws =>
         \A s \in rows : s.ws = ws => s.id < r.id]_vars

\* A record that carries a lineage_node_id has its node in the graph: the cleanup
\* after a failed commit never removes the node of a stored record.
NodesExist == \A r \in rows : r.node => r.uuid \in graph

\* Duplicate detection stores one record per request uuid and workspace
\* (find_existing_ingest_record; the schema has no unique index on request_uuid).
OneRecordPerRequest ==
  \A r, s \in rows : (r.ws = s.ws /\ r.req = s.req /\ r.req # NoReq) => r = s

\* The verifier reports tampering only of what was tampered with: nothing here
\* alters a stored row, so every workspace verifies.
NoFalseTamper == \A ws \in Spaces : VerifyChain(ws)

\* Every request is answered: the waits for unique keys and row locks are never
\* circular, and whatever ends a transaction lets the next one go on.
EveryRequestEnds == \A w \in Workers : tx[w].pc # "idle" ~> tx[w].pc = "idle"

-------------------------------------------------------------------------------
(* The ingest path implements ChainLog: the log of a workspace is its committed *)
(* rows in the order of their ids, an entry following those rows whose hash it  *)
(* commits to.                                                                  *)

\* the rows of R in the order of their ids
Below(R, r) == {s \in R : s.id < r.id}

Ordered(R) ==
  [i \in 1..Cardinality(R) |-> CHOOSE r \in R : Cardinality(Below(R, r)) = i - 1]

\* the uuids of the rows of R that the row r is linked to
LinkedTo(R, r) == {q.uuid : q \in {s \in R : s.hash = r.prev}}

EntriesOf(R) ==
  [i \in 1..Cardinality(R) |->
     [uuid |-> Ordered(R)[i].uuid, after |-> LinkedTo(R, Ordered(R)[i])]]

\* the log a client and the verifier see, and the workspaces it is promised for
Seen     == [ws \in Spaces |-> IF ws \in disturbed THEN <<>> ELSE EntriesOf(InSpace(ws))]
Promised == Spaces \ disturbed

Log == INSTANCE ChainLog WITH log <- Seen, open <- Promised

\* Every step of the ingest path, with its retries, failures, rollbacks and restarts, appends
\* one linked entry, repeats an answer, gives the promise up, or changes nothing a client or
\* the verifier can see (_attach_hash_chain, IngestResponse).
ImplementsLog == Log!LogSpec
===============================================================================
