-------------------------------- MODULE Outcomes --------------------------------
(***************************************************************************)
(* What became of AI code: CI, git and people report outcomes of records in *)
(* batches, record_outcome keeps one row per record, type and source within *)
(* a window, and the durability score weighs what was kept.  Nothing in the *)
(* database makes a row unique, reports are delivered late and again, and   *)
(* batches overlap.                                                         *)
(***************************************************************************)
EXTENDS Integers, Sequences, FiniteSets, SequencesExt

CONSTANTS
  Workers,    \* requests served at the same time
  Events,     \* reports: a record, a type, a source, and the time of the outcome
  Window,     \* _DEDUP_WINDOW_HOURS
  MinDecided, \* _MIN_DECIDED_OUTCOMES
  MaxBatches  \* bound on the batches delivered

VARIABLES
  rows,       \* committed outcomes, oldest first
  batch,      \* the request of each worker
  answered,   \* reports answered as created or as skipped
  aborted,    \* reports on which a request failed, with what it had found
  delivered   \* batches delivered so far

vars == <<rows, batch, answered, aborted, delivered>>

Idle == [todo |-> <<>>, insert |-> FALSE, seen |-> 0]

Init == /\ rows = <<>>
        /\ batch = [w \in Workers |-> Idle]
        /\ answered = {} /\ aborted = {}
        /\ delivered = 0

Key(e) == <<e.record, e.type, e.source>>

\* POST /trust/outcomes: CI, the extension or the git hook sends a batch; what fails is sent again
Deliver(w) == \E b \in UNION {[1..n -> Events] : n \in 1..2} :
  /\ batch[w] = Idle /\ delivered < MaxBatches
  /\ batch' = [batch EXCEPT ![w].todo = b]
  /\ delivered' = delivered + 1
  /\ UNCHANGED <<rows, answered, aborted>>

\* what record_outcome finds: rows of the key from the start of the window on, without an end
Duplicates(e) == {i \in DOMAIN rows : Key(rows[i]) = Key(e) /\ rows[i].at >= e.at - Window}

\* the SELECT: no row leaves an INSERT to commit, one row answers the report, and several
\* raise an error that is not a ValueError, so the rest of the batch is not looked at
Select(w) ==
  LET e == Head(batch[w].todo) IN
  /\ batch[w].todo # <<>> /\ ~batch[w].insert
  /\ \/ /\ Duplicates(e) = {}
        /\ batch' = [batch EXCEPT ![w].insert = TRUE, ![w].seen = Len(rows)]
        /\ UNCHANGED <<answered, aborted>>
     \/ /\ Cardinality(Duplicates(e)) = 1
        /\ answered' = answered \cup {e}
        /\ batch' = [batch EXCEPT ![w].todo = Tail(@)]
        /\ UNCHANGED aborted
     \/ /\ Cardinality(Duplicates(e)) > 1
        /\ aborted' = aborted \cup {e}
        /\ batch' = [batch EXCEPT ![w] = Idle]
        /\ UNCHANGED answered
  /\ UNCHANGED <<rows, delivered>>

\* flush, audit row and commit of one report: the reports before it stay whatever follows
Commit(w) ==
  LET e == Head(batch[w].todo) IN
  /\ batch[w].insert
  /\ rows' = Append(rows, [record |-> e.record, type |-> e.type, source |-> e.source,
                           at |-> e.at, seen |-> batch[w].seen])
  /\ answered' = answered \cup {e}
  /\ batch' = [batch EXCEPT ![w].todo = Tail(@), ![w].insert = FALSE, ![w].seen = 0]
  /\ UNCHANGED <<aborted, delivered>>

\* the commit fails, or the server stops: the request ends without an answer
Fails(w) == /\ batch[w].insert
            /\ batch' = [batch EXCEPT ![w] = Idle]
            /\ UNCHANGED <<rows, answered, aborted, delivered>>

Next == \E w \in Workers : Deliver(w) \/ Select(w) \/ Commit(w) \/ Fails(w)

Spec == Init /\ [][Next]_vars

-------------------------------------------------------------------------------
\* mutant: outcomes are counted, not the records that have them
CountRows(type) == Cardinality({i \in DOMAIN rows : rows[i].type = type})

\* compute_durability: records that have an outcome of the type, by any source
Count(type) == Cardinality({rows[i].record : i \in {j \in DOMAIN rows : rows[j].type = type}})

Decided == Count("survived") + Count("reverted") + Count("rewritten")

\* _compute_durability_score, rounded to the nearest integer; -1 for insufficient evidence
Score ==
  LET blocks == Cardinality({rows[i].record : i \in DOMAIN rows})
      gone == Count("reverted") + Count("rewritten")
      raw == 70 * Count("survived") * blocks
             + Decided * (15 * (blocks - Count("incident")) + 10 * (blocks - gone)
                          + 5 * (blocks - Count("test_failed")))
      all == Decided * blocks IN
  IF blocks = 0 \/ Decided < MinDecided THEN -1
  ELSE LET s == (2 * raw + all) \div (2 * all) IN CASE s < 0 -> 0 [] s > 100 -> 100 [] OTHER -> s

TypeOK ==
  /\ \A i \in DOMAIN rows : \E e \in Events : Key(rows[i]) = Key(e) /\ rows[i].at = e.at
  /\ \A w \in Workers : batch[w].insert => batch[w].todo # <<>>
  /\ Score \in -1..100
  /\ answered \subseteq Events /\ aborted \subseteq Events

\* A report that was answered, as created or as a duplicate, is kept by a row of its own
\* record, type and source that is not older than its window (outcome_service.py:89): no
\* answer lets CI forget a report that nothing stands for.
AnsweredKept == \A e \in answered :
  \E i \in DOMAIN rows : Key(rows[i]) = Key(e) /\ rows[i].at >= e.at - Window

\* Rows of one key that a request could see are older than the window of the row it
\* wrote: doubles come from overlapping requests alone.
DoublesOverlap == \A i, j \in DOMAIN rows :
  i <= rows[j].seen /\ Key(rows[i]) = Key(rows[j]) => rows[i].at < rows[j].at - Window

\* A row for an outcome that another source or another request has reported of the record
\* leaves the durability score where it was: doubles weigh nothing.
DoublesWeighNothing == [][
  (/\ Len(rows') > Len(rows)
   /\ \E i \in DOMAIN rows : /\ rows[i].record = Last(rows').record
                             /\ rows[i].type = Last(rows').type) => Score' = Score]_vars
===============================================================================
