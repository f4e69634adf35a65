---------------------------- MODULE RecordLifecycle ----------------------------
(***************************************************************************)
(* The privacy life of stored provenance records and the verifier that     *)
(* watches it: redaction and deletion tombstones, the retention job, bulk  *)
(* delete, the license rescan, the deferred embedding backfill, and the    *)
(* walk of GET /integrity/verify.                                          *)
(*                                                                         *)
(* The records are the positions 1..Length of one workspace's hash chain,  *)
(* already ingested (ProvenanceIngest builds it); record i links to i - 1. *)
(* A worker is a request with its own PostgreSQL session at READ           *)
(* COMMITTED: it reads a snapshot of its rows into ORM objects, then       *)
(* flushes UPDATEs that wait for row locks and write only the columns that *)
(* differ from the snapshot.                                               *)
(***************************************************************************)
EXTENDS Naturals, Sequences, FiniteSets, Functions

CONSTANTS
  Workers,    \* requests in flight
  Length,     \* records in the chain
  Deferred,   \* records whose embedding is still being computed at the start
  Ops,        \* operations that clients of this instance call
  Gone,       \* a row that was physically removed
  MaxEvent    \* bound: no operation starts once more event ids are drawn

Records == 1..Length

ASSUME LengthAssumption   == Length \in Nat
ASSUME DeferredAssumption == Deferred \subseteq Records
ASSUME MaxEventAssumption == MaxEvent \in Nat

VARIABLES
  rows,       \* committed provenance_records, with their record_keys row
  events,     \* committed record_lifecycle_events
  nextEvent,  \* next value of the event id sequence
  embedding,  \* records with a _backfill_embedding task in flight
  tx,         \* per worker: request and open transaction
  check       \* one GET /integrity/verify

vars == <<rows, events, nextEvent, embedding, tx, check>>

-------------------------------------------------------------------------------
(* Rows.  Content is present or scrubbed: "prompt" stands for prompt,       *)
(* response, context and snapshot; "payload" for the copy of them in        *)
(* provenance_payload; "code" for inserted_code and ast_snapshot.           *)

Row == [life : {"active", "redacted", "deleted"}, is_redacted : BOOLEAN,
        prompt : BOOLEAN, payload : BOOLEAN, code : BOOLEAN, vector : BOOLEAN,
        key : BOOLEAN]

Ingested(r) == [life |-> "active", is_redacted |-> FALSE, prompt |-> TRUE, payload |-> TRUE,
                code |-> TRUE, vector |-> r \notin Deferred, key |-> TRUE]

Present(r) == rows[r] # Gone

\* mutant: the encryption key is kept by a redaction
ScrubKeepsKey(type, seen, row) ==
  [row EXCEPT !.life = IF type = "deletion" THEN "deleted" ELSE "redacted",
              !.is_redacted = TRUE, !.prompt = FALSE,
              !.payload = row.payload /\ ~seen.payload,
              !.code = row.code /\ ~(type = "deletion" /\ seen.code),
              !.vector = row.vector /\ ~(type = "deletion" /\ seen.vector),
              !.key = row.key /\ type = "redaction"]

\* mutant: the event type is stored as the lifecycle state
ScrubStoresType(type, seen, row) ==
  [row EXCEPT !.life = type, !.is_redacted = TRUE, !.prompt = FALSE, !.payload = FALSE, !.key = FALSE]

\* mutant: a state once set is kept, so deleting a redacted record leaves "redacted"
ScrubKeepsState(type, seen, row) ==
  [row EXCEPT !.life = IF seen.life # "active" THEN seen.life
                       ELSE IF type = "deletion" THEN "deleted" ELSE "redacted",
              !.is_redacted = TRUE, !.prompt = FALSE,
              !.payload = row.payload /\ ~seen.payload,
              !.code = row.code /\ ~(type = "deletion" /\ seen.code),
              !.vector = row.vector /\ ~(type = "deletion" /\ seen.vector),
              !.key = FALSE]

\* apply_lifecycle_event: the row after an UPDATE computed from the snapshot "seen";
\* a field that was already empty in the snapshot is not in the UPDATE
Scrub(type, seen, row) ==
  [row EXCEPT !.life = IF type = "deletion" THEN "deleted" ELSE "redacted",
              !.is_redacted = TRUE,
              !.prompt = row.prompt /\ ~seen.prompt,
              !.payload = row.payload /\ ~seen.payload,
              !.code = row.code /\ ~(type = "deletion" /\ seen.code),
              !.vector = row.vector /\ ~(type = "deletion" /\ seen.vector),
              !.key = FALSE]

\* mutant: the whole object is written back, not only the changed column
RescannedWhole(seen, row) == seen

\* scan_and_record: provenance_payload is rebuilt from the snapshot
Rescanned(seen, row) == [row EXCEPT !.payload = seen.payload]

After(type, seen, row) == CASE type \in {"deletion", "redaction"} -> Scrub(type, seen, row)
                            [] type = "rescan"  -> Rescanned(seen, row)
                            [] type = "removal" -> Gone

-------------------------------------------------------------------------------
(* Transactions. *)

Idle == [pc |-> "idle", type |-> "none", todo |-> <<>>, seen |-> <<>>,
         wrote |-> <<>>, drawn |-> {}, later |-> {}]

\* a session that has read the rows of R, will write them in this order, and then
\* (retention only) select and redact those of "later"
Opened(type, order, later) ==
  [pc |-> "open", type |-> type, todo |-> order,
   seen |-> [r \in Range(order) |-> rows[r]],
   wrote |-> <<>>, drawn |-> {}, later |-> later]

\* the orders in which a SELECT without ORDER BY may return R
Orders(R) == {s \in [1..Cardinality(R) -> R] : IsInjective(s)}

Selected(R) == {r \in R : Present(r)}

\* the row lock of r is held by another session
Locked(w, r) == \E v \in Workers \ {w} : r \in DOMAIN tx[v].wrote

Waits(w) == tx[w].todo # <<>> /\ Locked(w, Head(tx[w].todo))

\* w is in a cycle of sessions that each wait for a lock of the next
InDeadlock(w) ==
  \E S \in SUBSET Workers :
    w \in S /\ \A v \in S : Waits(v) /\ \E u \in S \ {v} : Head(tx[v].todo) \in DOMAIN tx[u].wrote

End(w) == tx' = [tx EXCEPT ![w] = Idle]

Begin(w, t) == /\ tx[w].pc = "idle" /\ nextEvent <= MaxEvent
               /\ tx' = [tx EXCEPT ![w] = t]

Init == /\ rows = [r \in Records |-> Ingested(r)]
        /\ events = {} /\ nextEvent = 1
        /\ embedding = Deferred
        /\ tx = [w \in Workers |-> Idle]
        /\ check = [pc |-> "idle", seen |-> <<>>, at |-> 0]

-------------------------------------------------------------------------------
(* Requests. *)

\* DELETE /provenance/{uuid} and PATCH .../redact up to their 404 and 409 checks
Delete(w, r) ==
  /\ "deletion" \in Ops /\ Present(r) /\ rows[r].life # "deleted"
  /\ Begin(w, Opened("deletion", <<r>>, {}))
  /\ UNCHANGED <<rows, events, nextEvent, embedding, check>>

Redact(w, r) ==
  /\ "redaction" \in Ops /\ Present(r) /\ ~rows[r].is_redacted
  /\ Begin(w, Opened("redaction", <<r>>, {}))
  /\ UNCHANGED <<rows, events, nextEvent, embedding, check>>

\* POST /license-scan/rescan/{uuid}
Rescan(w, r) ==
  /\ "rescan" \in Ops /\ Present(r)
  /\ Begin(w, Opened("rescan", <<r>>, {}))
  /\ UNCHANGED <<rows, events, nextEvent, embedding, check>>

\* POST /bulk/delete: rows are deleted in primary key order
BulkDelete(w, R) ==
  /\ "bulk" \in Ops /\ Selected(R) # {}
  /\ \E order \in Orders(Selected(R)) :
       /\ \A i, j \in DOMAIN order : i < j => order[i] < order[j]
       /\ Begin(w, Opened("removal", order, {}))
  /\ UNCHANGED <<rows, events, nextEvent, embedding, check>>

\* POST /retention/run: policy and clock choose the records past each cutoff
Retain(w, expired, stale) ==
  /\ "retention" \in Ops /\ expired \cap stale = {}
  /\ \E order \in Orders({r \in Selected(expired) : rows[r].life # "deleted"}) :
       Begin(w, Opened("deletion", order, stale))
  /\ UNCHANGED <<rows, events, nextEvent, embedding, check>>

\* flush of the next row: wait for its lock, UPDATE or DELETE it, add its event
\* (the unit of work writes provenance_records before record_lifecycle_events)
Apply(w) ==
  LET r == Head(tx[w].todo) IN
  /\ tx[w].todo # <<>> /\ ~Locked(w, r) /\ Present(r)
  /\ tx' = [tx EXCEPT ![w].todo = Tail(@),
                      ![w].seen = [x \in DOMAIN @ \ {r} |-> @[x]],
                      ![w].wrote = [x \in DOMAIN @ \cup {r} |->
                         IF x = r THEN After(tx[w].type, tx[w].seen[r], rows[r]) ELSE @[x]],
                      ![w].drawn = IF tx[w].type \in {"deletion", "redaction"}
                         THEN @ \cup {[id |-> nextEvent, rec |-> r, type |-> tx[w].type]} ELSE @]
  /\ nextEvent' = IF tx[w].type \in {"deletion", "redaction"} THEN nextEvent + 1 ELSE nextEvent
  /\ UNCHANGED <<rows, events, embedding, check>>

\* the row was removed meanwhile: an UPDATE of no row raises StaleDataError,
\* a DELETE of no row is only a warning
ApplyMissing(w) ==
  LET r == Head(tx[w].todo) IN
  /\ tx[w].todo # <<>> /\ ~Locked(w, r) /\ ~Present(r)
  /\ IF tx[w].type = "removal" THEN tx' = [tx EXCEPT ![w].todo = Tail(@)] ELSE End(w)
  /\ UNCHANGED <<rows, events, nextEvent, embedding, check>>

\* mutant: with nothing left to redact the job never reaches its commit
RetainRedactOnlyIfAny(w) ==
  LET R == {r \in Selected(tx[w].later) : ~rows[r].is_redacted} IN
  /\ tx[w].pc = "open" /\ tx[w].todo = <<>> /\ tx[w].later # {} /\ R # {}
  /\ \E order \in Orders(R) :
       tx' = [tx EXCEPT ![w].type = "redaction", ![w].later = {}, ![w].todo = order,
                        ![w].seen = [r \in R |-> rows[r]]]
  /\ UNCHANGED <<rows, events, nextEvent, embedding, check>>

\* run_retention_cleanup, second SELECT: the records to redact
RetainRedact(w) ==
  LET R == {r \in Selected(tx[w].later) : ~rows[r].is_redacted} IN
  /\ tx[w].pc = "open" /\ tx[w].todo = <<>> /\ tx[w].later # {}
  /\ \E order \in Orders(R) :
       tx' = [tx EXCEPT ![w].type = "redaction", ![w].later = {}, ![w].todo = order,
                        ![w].seen = [r \in R |-> rows[r]]]
  /\ UNCHANGED <<rows, events, nextEvent, embedding, check>>

\* session.commit(): rows, keys and events together
Commit(w) ==
  /\ tx[w].pc = "open" /\ tx[w].todo = <<>> /\ tx[w].later = {}
  /\ rows' = [r \in Records |-> IF r \in DOMAIN tx[w].wrote THEN tx[w].wrote[r] ELSE rows[r]]
  /\ events' = events \cup tx[w].drawn
  /\ End(w)
  /\ UNCHANGED <<nextEvent, embedding, check>>

\* the request is cut off (database error, client gone, process stopped): rollback
Abort(w) ==
  /\ tx[w].pc = "open"
  /\ End(w)
  /\ UNCHANGED <<rows, events, nextEvent, embedding, check>>

\* PostgreSQL aborts a session of a cycle of waits
DeadlockVictim(w) ==
  /\ InDeadlock(w)
  /\ End(w)
  /\ UNCHANGED <<rows, events, nextEvent, embedding, check>>

\* _backfill_embedding: one UPDATE by id, in a transaction of its own, when the
\* embedding arrives; or the call fails, and the task ends
Backfill(r) ==
  /\ r \in embedding
  /\ \A w \in Workers : r \notin DOMAIN tx[w].wrote
  /\ rows' = IF Present(r) THEN [rows EXCEPT ![r].vector = TRUE] ELSE rows
  /\ embedding' = embedding \ {r}
  /\ UNCHANGED <<events, nextEvent, tx, check>>

BackfillFails(r) ==
  /\ r \in embedding
  /\ embedding' = embedding \ {r}
  /\ UNCHANGED <<rows, events, nextEvent, tx, check>>

-------------------------------------------------------------------------------
(* GET /integrity/verify: the rows are read in one statement, the latest    *)
(* event of each scrubbed row in a statement of its own while walking.      *)

\* mutant: ORDER BY id ascending
LatestIsFirst(r) == {e \in events : e.rec = r /\ \A f \in events : f.rec = r => f.id >= e.id}

\* get_latest_event
Latest(r) == {e \in events : e.rec = r /\ \A f \in events : f.rec = r => f.id <= e.id}

ExpectedType(life) == IF life = "deleted" THEN "deletion" ELSE "redaction"

VerifyStart ==
  /\ "verify" \in Ops /\ check.pc = "idle"
  /\ check' = [pc |-> "walk", seen |-> rows, at |-> 1]
  /\ UNCHANGED <<rows, events, nextEvent, embedding, tx>>

\* the chain link is the position of the preceding record, if it was not removed
LinkHolds(r) == r = 1 \/ check.seen[r - 1] # Gone

EventHolds(r) == \/ check.seen[r].life = "active"
                 \/ \E e \in Latest(r) : e.type = ExpectedType(check.seen[r].life)

VerifyRow ==
  /\ check.pc = "walk" /\ check.at \in Records
  /\ check' = IF check.seen[check.at] = Gone \/ (LinkHolds(check.at) /\ EventHolds(check.at))
                THEN [check EXCEPT !.at = @ + 1]
                ELSE [check EXCEPT !.pc = "tampered"]
  /\ UNCHANGED <<rows, events, nextEvent, embedding, tx>>

VerifyEnd ==
  /\ check.pc = "tampered" \/ check.at = Length + 1
  /\ check' = [pc |-> "idle", seen |-> <<>>, at |-> 0]
  /\ UNCHANGED <<rows, events, nextEvent, embedding, tx>>

-------------------------------------------------------------------------------
Serve(w) == Apply(w) \/ ApplyMissing(w) \/ RetainRedact(w) \/ Commit(w) \/ DeadlockVictim(w)

Next == \/ \E w \in Workers : Serve(w) \/ Abort(w)
        \/ \E w \in Workers, r \in Records : Delete(w, r) \/ Redact(w, r) \/ Rescan(w, r)
        \/ \E w \in Workers, R \in SUBSET Records : BulkDelete(w, R)
        \/ \E w \in Workers, X, S \in SUBSET Records : Retain(w, X, S)
        \/ \E r \in Records : Backfill(r) \/ BackfillFails(r)
        \/ VerifyStart \/ VerifyRow \/ VerifyEnd

Spec == Init /\ [][Next]_vars

\* statements that are not blocked are executed, PostgreSQL resolves deadlocks, and
\* hands a released row lock to the sessions that wait for it in their order
FairSpec == Spec /\ \A w \in Workers : WF_vars(Serve(w)) /\ SF_vars(Apply(w))

-------------------------------------------------------------------------------
(* Properties. *)

Types == {"none", "deletion", "redaction", "rescan", "removal"}

Event == [id : Nat, rec : Records, type : {"deletion", "redaction"}]

MaybeRow == Row \cup {Gone}

\* f maps some of the records to elements of S
Partial(f, S) == DOMAIN f \subseteq Records /\ \A r \in DOMAIN f : f[r] \in S

\* Type invariant of the record lifecycle.
TypeOK == /\ rows \in [Records -> MaybeRow]
          /\ events \subseteq Event /\ nextEvent \in Nat
          /\ embedding \subseteq Records
          /\ \A w \in Workers :
               /\ tx[w].pc \in {"idle", "open"} /\ tx[w].type \in Types
               /\ tx[w].todo \in Seq(Records) /\ tx[w].later \subseteq Records
               /\ Partial(tx[w].seen, Row) /\ Partial(tx[w].wrote, MaybeRow)
               /\ tx[w].drawn \subseteq Event
          /\ check.pc \in {"idle", "walk", "tampered"} /\ check.at \in 0..(Length + 1)

\* A scrubbed row always has a lifecycle event, and its latest event is of the kind
\* its state names, however deletions, redactions and retention overlap: what the
\* verifier takes as the difference between a privacy operation and tampering
\* (models.py: "a redacted/deleted row MUST have a matching signed event").
LatestEventMatches ==
  \A r \in Records : (Present(r) /\ rows[r].life # "active") =>
    \E e \in Latest(r) : e.type = ExpectedType(rows[r].life)

\* Once is_redacted is set, the prompt and the key that opens its ciphertext are
\* gone, whichever of several overlapping operations came last (crypto-shredding).
ShreddedForGood ==
  \A r \in Records : (Present(r) /\ rows[r].is_redacted) => ~rows[r].prompt /\ ~rows[r].key

\* No step, of a rescan or a backfill working from an old snapshot either, takes a
\* scrubbed record back to "active" or gives it back its prompt, code or key.
NeverReactivated ==
  [][\A r \in Records : (Present(r) /\ Present(r)') =>
       /\ rows[r].life # "active" => rows'[r].life # "active"
       /\ rows'[r].prompt => rows[r].prompt
       /\ rows'[r].code => rows[r].code
       /\ rows'[r].key => rows[r].key]_vars

\* A "tampered" verdict has a cause when it is reached: the record before it was
\* physically removed when the walk began, or the record itself is no longer what the
\* walk reads (GET /integrity/verify; with three sessions the record may later come
\* to look as it did again).
AlarmHasCause ==
  [][(check.pc = "walk" /\ check'.pc = "tampered") =>
       \/ check.at > 1 /\ check.seen[check.at - 1] = Gone
       \/ rows[check.at] # check.seen[check.at]]_vars

\* Every request ends although retention and bulk delete lock rows in different orders.
EveryRequestEnds == \A w \in Workers : tx[w].pc = "open" ~> tx[w].pc = "idle"

\* A redacted record keeps its code (models.py: "redacted - sensitive
\* prompt/response/context scrubbed; inserted_code kept").
RedactedKeepsCode == \A r \in Records : (Present(r) /\ rows[r].life = "redacted") => rows[r].code

===============================================================================
