------------------------------ MODULE ActionLedger ------------------------------
(***************************************************************************)
(* The ledger of what agents did: a batch of actions reads the tail of the  *)
(* chain of its session, links each action to the one before, and commits   *)
(* once.  No lock is taken and no constraint forbids two links to one row.  *)
(* A hash covers the action and the hash before it, so it stands here for   *)
(* the actions from the start of the chain.                                 *)
(***************************************************************************)
EXTENDS Naturals, Sequences, FiniteSets, SequencesExt

CONSTANTS
  Workers,    \* requests served at the same time
  Sessions,   \* session keys
  Actions,    \* actions of agents
  Malformed,  \* actions the risk patterns cannot read (a command that is no string)
  MaxBatches, \* bound on the batches sent
  MaxBatch    \* bound on the length of a batch

VARIABLES
  rows,       \* rows by id: session, hash, hash before, transaction, and its state
  batch,      \* the request of each worker
  overlaps,   \* pairs of transactions that were open together
  begun       \* transactions so far

vars == <<rows, batch, overlaps, begun>>

Idle == [tx |-> 0, session |-> "", todo |-> <<>>, prev |-> <<>>, failed |-> FALSE]

Init == /\ rows = <<>>
        /\ batch = [w \in Workers |-> Idle]
        /\ overlaps = {} /\ begun = 0

Committed(s) == {i \in DOMAIN rows : rows[i].state = "committed" /\ rows[i].session = s}

\* the row of the session with the largest id among those another transaction can see
TailHash(s) == IF Committed(s) = {} THEN <<>>
               ELSE rows[CHOOSE i \in Committed(s) : \A j \in Committed(s) : j <= i].hash

\* record_actions_batch: the tail is read once, before the first action
Begin(w) == \E s \in Sessions, b \in UNION {[1..n -> Actions \cup Malformed] : n \in 1..MaxBatch} :
  /\ batch[w] = Idle /\ begun < MaxBatches
  /\ begun' = begun + 1
  /\ batch' = [batch EXCEPT ![w] = [tx |-> begun + 1, session |-> s, todo |-> b,
                                    prev |-> TailHash(s), failed |-> FALSE]]
  /\ overlaps' = overlaps \cup {{batch[v].tx, begun + 1} : v \in {u \in Workers : batch[u] # Idle}}
  /\ UNCHANGED rows

\* record_action: the row is flushed, which takes its id, with the audit row of a risk;
\* its hash is the link of the next one
Record(w) ==
  LET a == Head(batch[w].todo)
      h == Append(batch[w].prev, a) IN
  /\ batch[w].todo # <<>> /\ ~batch[w].failed /\ a \notin Malformed
  /\ rows' = Append(rows, [session |-> batch[w].session, hash |-> h, prev |-> batch[w].prev,
                           tx |-> batch[w].tx, state |-> "open"])
  /\ batch' = [batch EXCEPT ![w].todo = Tail(@), ![w].prev = h]
  /\ UNCHANGED <<overlaps, begun>>

\* flag_risky_action raises before anything is sent: the action is counted as skipped
Skip(w) == /\ batch[w].todo # <<>> /\ (Head(batch[w].todo) \in Malformed \/ batch[w].failed)
           /\ batch' = [batch EXCEPT ![w].todo = Tail(@)]
           /\ UNCHANGED <<rows, overlaps, begun>>

Resolve(w, s) == rows' = [i \in DOMAIN rows |->
  IF rows[i].tx = batch[w].tx THEN [rows[i] EXCEPT !.state = s] ELSE rows[i]]

\* a flush fails and takes the transaction with it: the loop goes on, every later action
\* is skipped as well, and the commit raises
FlushFails(w) == /\ batch[w].todo # <<>> /\ ~batch[w].failed /\ Head(batch[w].todo) \notin Malformed
                 /\ batch' = [batch EXCEPT ![w].failed = TRUE, ![w].todo = Tail(@)]
                 /\ Resolve(w, "rolled back")
                 /\ UNCHANGED <<overlaps, begun>>

\* the commit of the route
Commit(w) == /\ batch[w] # Idle /\ batch[w].todo = <<>> /\ ~batch[w].failed
             /\ Resolve(w, "committed")
             /\ batch' = [batch EXCEPT ![w] = Idle]
             /\ UNCHANGED <<overlaps, begun>>

\* the commit raises, the connection is lost, or the server stops
Rollback(w) == /\ batch[w] # Idle /\ (batch[w].failed => batch[w].todo = <<>>)
               /\ Resolve(w, "rolled back")
               /\ batch' = [batch EXCEPT ![w] = Idle]
               /\ UNCHANGED <<overlaps, begun>>

Next == \E w \in Workers : \/ Begin(w) \/ Record(w) \/ Skip(w) \/ FlushFails(w)
                           \/ Commit(w) \/ Rollback(w)

Spec == Init /\ [][Next]_vars

-------------------------------------------------------------------------------
TypeOK ==
  /\ \A i \in DOMAIN rows : /\ rows[i].session \in Sessions /\ rows[i].tx \in 1..begun
                            /\ rows[i].state \in {"open", "committed", "rolled back"}
                            /\ Front(rows[i].hash) = rows[i].prev
  /\ \A w \in Workers : batch[w] # Idle => batch[w].session \in Sessions

\* A committed action is linked to a committed action of its session, or starts the
\* chain: no failure between two actions of a batch leaves a link to a row that is gone
\* (agent_action_service.py:337-357).
LinksKept == \A s \in Sessions : \A i \in Committed(s) :
  rows[i].prev = <<>> \/ \E j \in Committed(s) : j < i /\ rows[j].hash = rows[i].prev

\* Two actions of a session follow one action only when their batches overlapped, or when
\* that action stands there twice for the same reason: "lock-free batch writes are fine
\* because the proxy ingest path processes one session at a time"
\* (agent_action_service.py:234) is as true as that is.
ForksOverlap == \A s \in Sessions : \A i, j \in Committed(s) :
  i # j /\ rows[i].prev = rows[j].prev =>
    \/ {rows[i].tx, rows[j].tx} \in overlaps
    \/ Cardinality({k \in Committed(s) : rows[k].hash = rows[i].prev}) > 1
===============================================================================
