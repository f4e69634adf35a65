------------------------------ MODULE PolicyVersions ------------------------------
(***************************************************************************)
(* A policy row and its append-only versions, written by overlapping        *)
(* transactions: POST, PATCH and DELETE /policies, or, where upserts says   *)
(* so, the PUT endpoints of routing and retention policies, which create    *)
(* the row or overwrite it.  A transaction loads the whole row, sends only  *)
(* the columns that changed, and takes the row lock with its first UPDATE.  *)
(***************************************************************************)
EXTENDS Naturals, FiniteSets, FiniteSetsExt

CONSTANTS
  Workers,     \* overlapping requests
  Values,      \* values of a column
  MaxVersion,  \* bound: versions of the policy
  NoTx         \* no transaction

VARIABLES
  upserts,   \* TRUE for PUT endpoints, FALSE for POST, PATCH and DELETE
  row,       \* the committed row: columns, enabled, archived, current_version
  versions,  \* the committed versions
  tx,        \* open transactions
  overlaps   \* an update committed while another one had the row loaded

vars == <<upserts, row, versions, tx, overlaps>>

Columns == {"config", "action", "enabled", "archived"}

\* a policy that is not there, and what a new one starts from
Absent == [config |-> 0, action |-> 0, enabled |-> FALSE, archived |-> FALSE, current |-> 0]

Init == /\ upserts \in BOOLEAN
        /\ row = Absent /\ versions = {} /\ overlaps = FALSE
        /\ tx = [w \in Workers |-> NoTx]

\* columns a transaction changes
Dirty(t) == {c \in Columns : t.new[c] # t.old[c]}

\* sent an UPDATE or INSERT of the row, and not ended
Locks(x) == tx[x] # NoTx /\ tx[x].lock

Free(w) == \A x \in Workers \ {w} : ~Locks(x)

\* what committed while the transaction ran becomes visible to it, except in its object
Settled(w) == {x \in Workers \ {w} : tx[x] # NoTx}

-------------------------------------------------------------------------------
\* the handler has the row, or knows that there is none
Begin(w, change) ==
  /\ tx[w] = NoTx /\ Cardinality(versions) < MaxVersion
  /\ tx' = [tx EXCEPT ![w] = [pc |-> "loaded", old |-> row,
                              new |-> [c \in DOMAIN row |-> IF c \in DOMAIN change THEN change[c] ELSE row[c]],
                              prev |-> 0, lock |-> FALSE]]
  /\ UNCHANGED <<upserts, row, versions, overlaps>>

\* create_policy: a row of its own
Create(w) ==
  /\ ~upserts /\ row = Absent /\ \A x \in Workers : tx[x] = NoTx
  /\ \E v \in Values, e \in BOOLEAN : Begin(w, [config |-> v, action |-> v, enabled |-> e])

\* update_policy: any of the columns, also of an archived policy
Update(w) ==
  /\ ~upserts /\ row # Absent
  /\ \E v \in Values, e \in BOOLEAN, C \in SUBSET {"config", "action", "enabled"} :
       Begin(w, [c \in C |-> IF c = "enabled" THEN e ELSE v])

\* delete_policy: the row stays, disabled
Archive(w) ==
  /\ ~upserts /\ row # Absent
  /\ Begin(w, [enabled |-> FALSE, archived |-> TRUE])

\* upsert_routing_policy, upsert_retention_policy: all columns; two of them may find no row
Upsert(w) ==
  /\ upserts
  /\ \E v \in Values, e \in BOOLEAN : Begin(w, [config |-> v, action |-> v, enabled |-> e])

\* the flush before the next SELECT sends what changed, behind the row lock; a second
\* row of the same key is refused
Flush(w) ==
  /\ tx[w] # NoTx /\ tx[w].pc = "loaded"
  /\ Dirty(tx[w]) # {} \/ tx[w].old = Absent => Free(w)
  /\ tx[w].old = Absent => row = Absent
  /\ tx' = [tx EXCEPT ![w].pc = "flushed",
                      ![w].lock = Dirty(tx[w]) # {} \/ tx[w].old = Absent]
  /\ UNCHANGED <<upserts, row, versions, overlaps>>

Open == {v \in versions : ~v.superseded}

\* append_version: the latest committed version that is not superseded
SelectPrev(w) ==
  /\ tx[w] # NoTx /\ tx[w].pc = "flushed"
  /\ tx' = [tx EXCEPT ![w].pc = "selected",
                      ![w].prev = IF Open = {} THEN 0 ELSE Max({v.version : v \in Open})]
  /\ UNCHANGED <<upserts, row, versions, overlaps>>

\* what the version keeps: the object of the transaction, not the row
Snapshot(t) == [version |-> t.prev + 1, config |-> t.new.config, action |-> t.new.action,
                enabled |-> t.new.enabled, superseded |-> FALSE]

\* mutant: the version before stays open
SupersedeNone(t) == versions

\* the version that was selected gets its superseded_at
Supersede(t) == {[v EXCEPT !.superseded = @ \/ v.version = t.prev] : v \in versions}

\* the flush of the commit: pointer, superseded_at and the new version together
Commit(w) ==
  /\ tx[w] # NoTx /\ tx[w].pc = "selected" /\ Free(w)
  /\ \A v \in versions : v.version # tx[w].prev + 1
  /\ versions' = Supersede(tx[w]) \cup {Snapshot(tx[w])}
  /\ row' = [c \in DOMAIN row |-> CASE c = "current" -> tx[w].prev + 1
                                     [] c \in Dirty(tx[w]) -> tx[w].new[c]
                                     [] c \notin Dirty(tx[w]) \cup {"current"} -> row[c]]
  /\ overlaps' = (overlaps \/ Settled(w) # {})
  /\ tx' = [tx EXCEPT ![w] = NoTx]
  /\ UNCHANGED upserts

\* IntegrityError of the key or of the version number, a refused value, a lost connection
Fail(w) ==
  /\ tx[w] # NoTx
  /\ tx' = [tx EXCEPT ![w] = NoTx]
  /\ UNCHANGED <<upserts, row, versions, overlaps>>

Next == \E w \in Workers : \/ Create(w) \/ Update(w) \/ Archive(w) \/ Upsert(w)
                           \/ Flush(w) \/ SelectPrev(w) \/ Commit(w) \/ Fail(w)

Spec == Init /\ [][Next]_vars

-------------------------------------------------------------------------------
\* Type invariant.
TypeOK ==
  /\ row.current \in 0..MaxVersion + Cardinality(Workers)
  /\ \A v \in versions : v.version \in 1..MaxVersion + Cardinality(Workers)
  /\ \A w \in Workers : tx[w] # NoTx => tx[w].prev \in 0..Cardinality(versions)

\* However updates overlap, the versions are numbered without gap or double, only the
\* last one is open, and the row points to it.
OneHistory ==
  /\ {v.version : v \in versions} = 1..Cardinality(versions)
  /\ row.current = Cardinality(versions)
  /\ \A v \in versions : v.superseded = (v.version < row.current)

SameText(v) == /\ v.config = row.config /\ v.action = row.action /\ v.enabled = row.enabled

\* As long as no two updates overlapped, the last version is the policy in force, also
\* after it was archived and enabled again.
VersionInForce == ~overlaps => \A v \in Open : SameText(v)

\* The last version is the policy in force.
NoDrift == \A v \in Open : SameText(v)
===============================================================================
