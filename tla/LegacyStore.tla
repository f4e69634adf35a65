----------------------------- MODULE LegacyStore ----------------------------
(* The local store of the full editor extension (LocalStorageService.ts): one  *)
(* JSON document, read as a whole and written as a whole.  Ingests do both in   *)
(* turn on a chain of promises (writeLock); the refresh of the lineage reads    *)
(* the document outside it and only writes in turn.  A document that cannot be  *)
(* read counts as an empty one.                                                *)
EXTENDS Naturals, Sequences, FiniteSets, Functions

CONSTANTS
  Uuids,       \* records; one may be stored again
  MaxRecords,  \* MAX_LOCAL_RECORDS
  MaxOps       \* bound on ingests, refreshes and crashes

VARIABLES
  file,      \* the document: it parses, and its entries
  chain,     \* writeLock: what waits for its turn
  rejected,  \* the promise at the end of the chain is rejected
  task,      \* the head of the chain once it runs: the document it will write
  readers,   \* documents that refreshes have read
  writing,   \* the head of the chain has truncated the file
  ops,
  answered,  \* records whose ingest was answered with success
  gone       \* records dropped by the cap, by a refresh that had read before, or unread

vars == <<file, chain, rejected, task, readers, writing, ops, answered, gone>>

IdsOf(s) == {e.uuid : e \in Range(s)}
NoTask == [on |-> FALSE, doc |-> <<>>, may |-> {}]

Init == /\ file = [good |-> TRUE, recs |-> <<>>] /\ chain = <<>> /\ rejected = FALSE
        /\ task = NoTask /\ readers = {} /\ writing = FALSE /\ ops = 0
        /\ answered = {} /\ gone = {}

(* what readStore makes of the file; the key of an encrypted one may be missing *)
Readings == {IF file.good THEN file.recs ELSE <<>>, <<>>}

(* sortEntriesByTime; no two records have the same time *)
ByTime(s) == CHOOSE t \in [DOMAIN s -> Range(s)] :
               Range(t) = Range(s) /\ \A i, j \in DOMAIN s : i < j => t[i].time < t[j].time
Capped(s) == IF Len(s) > MaxRecords THEN SubSeq(ByTime(s), Len(s) - MaxRecords + 1, Len(s)) ELSE s

(* inferLineageFromPrevious: the latest other record of the file *)
Parent(s, u) ==
  LET others == {e \in Range(s) : e.uuid # u}
  IN  {e.uuid : e \in {x \in others : \A y \in others : y.time <= x.time}}

Merged(s, r) ==
  IF r.uuid \in IdsOf(s)
  THEN [k \in DOMAIN s |-> IF s[k].uuid = r.uuid THEN [r EXCEPT !.parent = s[k].parent] ELSE s[k]]
  ELSE Append(s, [r EXCEPT !.parent = Parent(s, r.uuid)])

(* updateLineageFromLatestCommit: every record follows the one before it *)
Refreshed(s) ==
  LET t == ByTime(s)
  IN  [k \in DOMAIN s |-> LET p == CHOOSE j \in DOMAIN t : t[j].uuid = s[k].uuid
                          IN  IF p = 1 THEN s[k] ELSE [s[k] EXCEPT !.parent = {t[p - 1].uuid}]]

Ingest(u) ==
  /\ ops < MaxOps /\ ops' = ops + 1
  /\ chain' = Append(chain, [kind |-> "ingest", rec |-> [uuid |-> u, time |-> ops', parent |-> {}],
                             doc |-> <<>>, read |-> file.recs])
  /\ UNCHANGED <<file, rejected, task, readers, writing, answered, gone>>

(* The turn of an ingest comes.  After a rejected write it is refused unheard. *)
Refused ==
  /\ chain # <<>> /\ ~task.on /\ rejected
  /\ rejected' = (Head(chain).kind = "refresh")
  /\ chain' = Tail(chain)
  /\ UNCHANGED <<file, task, readers, writing, ops, answered, gone>>

Turn(r, s) ==
  LET doc == IF r.kind = "ingest" THEN Capped(Merged(s, r.rec)) ELSE r.doc
      may == IF r.kind = "refresh" \/ s # file.recs THEN Uuids ELSE IdsOf(Merged(s, r.rec)) \ IdsOf(doc)
  IN  /\ task' = [on |-> TRUE, doc |-> doc, may |-> may]
      /\ UNCHANGED <<file, chain, rejected, readers, writing, ops, answered, gone>>

(* mutant: an ingest that had read before its turn writes what it read then *)
BeginEarly ==
  /\ chain # <<>> /\ ~task.on /\ ~rejected
  /\ LET r == Head(chain)
         doc == IF r.kind = "ingest" THEN Capped(Merged(r.read, r.rec)) ELSE r.doc
     IN  task' = [on |-> TRUE, doc |-> doc,
                  may |-> IF r.kind = "ingest" THEN IdsOf(Merged(r.read, r.rec)) \ IdsOf(doc) ELSE Uuids]
  /\ UNCHANGED <<file, chain, rejected, readers, writing, ops, answered, gone>>

Begin == chain # <<>> /\ ~task.on /\ ~rejected /\ \E s \in Readings : Turn(Head(chain), s)

(* writeFile truncates, then writes *)
Truncate ==
  /\ task.on /\ ~writing
  /\ writing' = TRUE /\ file' = [file EXCEPT !.good = FALSE]
  /\ UNCHANGED <<chain, rejected, task, readers, ops, answered, gone>>

Written ==
  /\ task.on /\ writing
  /\ file' = [good |-> TRUE, recs |-> task.doc]
  /\ gone' = (gone \ IdsOf(task.doc)) \cup ((IdsOf(file.recs) \ IdsOf(task.doc)) \cap task.may)
  /\ answered' = IF Head(chain).kind = "ingest" THEN answered \cup {Head(chain).rec.uuid} ELSE answered
  /\ chain' = Tail(chain) /\ task' = NoTask /\ writing' = FALSE
  /\ UNCHANGED <<rejected, readers, ops>>

(* a write that fails before it touches the file; only ingests swallow it *)
WriteFails ==
  /\ task.on /\ ~writing
  /\ rejected' = (Head(chain).kind = "refresh")
  /\ chain' = Tail(chain) /\ task' = NoTask
  /\ UNCHANGED <<file, readers, writing, ops, answered, gone>>

RefreshReads ==
  /\ ops < MaxOps /\ ops' = ops + 1
  /\ \E s \in Readings : readers' = readers \cup {s}
  /\ UNCHANGED <<file, chain, rejected, task, writing, answered, gone>>

(* git has answered: records whose lineage changed are written back *)
RefreshWrites ==
  \E s \in readers :
    /\ readers' = readers \ {s}
    /\ chain' = IF Refreshed(s) = s THEN chain
                ELSE Append(chain, [kind |-> "refresh", doc |-> Refreshed(s), read |-> <<>>,
                                    rec |-> [uuid |-> s[1].uuid, time |-> 0, parent |-> {}]])
    /\ UNCHANGED <<file, rejected, task, writing, ops, answered, gone>>

(* the window is closed: a truncated file stays truncated *)
Crash ==
  /\ ops < MaxOps /\ ops' = ops + 1
  /\ chain' = <<>> /\ rejected' = FALSE /\ task' = NoTask /\ readers' = {} /\ writing' = FALSE
  /\ file' = IF writing THEN [good |-> FALSE, recs |-> <<>>] ELSE file
  /\ gone' = IF writing THEN gone \cup IdsOf(file.recs) ELSE gone
  /\ UNCHANGED answered

Next == \/ \E u \in Uuids : Ingest(u)
        \/ Refused \/ Begin \/ Truncate \/ Written \/ WriteFails
        \/ RefreshReads \/ RefreshWrites \/ Crash

Spec == Init /\ [][Next]_vars

-----------------------------------------------------------------------------
TypeOK == /\ Len(file.recs) <= MaxRecords /\ IsInjective([k \in DOMAIN file.recs |-> file.recs[k].uuid])
          /\ answered \cup gone \subseteq Uuids /\ rejected \in BOOLEAN
          /\ writing => task.on /\ ~file.good

\* Ingests never cost one another a record: what was answered is in the file,
\* unless the cap dropped it, a refresh of the lineage wrote back what it had
\* read before, or a file that could not be read was taken for an empty one.
StoredKept == answered \subseteq IdsOf(file.recs) \cup gone
=============================================================================
