------------------------------- MODULE Outbox -------------------------------
(* The retry queue of the editor extension (capture.ts, sync/outbox.ts).  A    *)
(* capture is posted once; if that fails it joins a queue kept in the editor's  *)
(* global state, and runs of retryOutbox send what is due.  A run works on the  *)
(* queue as it was when the run began and writes its remainder back after its   *)
(* awaits, so whatever was queued meanwhile is overwritten (lost).              *)
EXTENDS Naturals, Sequences, FiniteSets, SequencesExt

CONSTANTS
  Ids,          \* captures
  Runs,         \* runs of retryOutbox that may overlap
  Cap,          \* MAX_OUTBOX
  MaxRestarts   \* bound on reloads of the window

VARIABLES
  queue,       \* OutboxEntry: its id and whether nextRetryAt has passed
  first,       \* captures whose first attempt is under way
  run,         \* what each run holds
  timer,       \* _retryTimer is set
  configured,  \* backendUrl and ingestToken are set
  received,    \* captures the backend has stored
  lost,        \* evicted by the cap, overwritten, or in flight at a reload
  skipped,     \* a run found no configuration and returned without a timer
  used, restarts

vars == <<queue, first, run, timer, configured, received, lost, skipped, used, restarts>>

Entry == [id : Ids, due : BOOLEAN]
IdsOf(q) == {e.id : e \in ToSet(q)}
Idle == [on |-> FALSE, snap |-> <<>>, todo |-> {}, sent |-> {}, changed |-> FALSE]

TypeOK ==
  /\ queue \in Seq(Entry) /\ Len(queue) <= Cap
  /\ first \subseteq Ids /\ received \subseteq Ids /\ lost \subseteq Ids /\ used \subseteq Ids
  /\ timer \in BOOLEAN /\ configured \in BOOLEAN /\ skipped \in BOOLEAN
  /\ \A r \in Runs : run[r].todo \subseteq IdsOf(run[r].snap)

Init == /\ queue = <<>> /\ first = {} /\ run = [r \in Runs |-> Idle]
        /\ timer = FALSE /\ configured = TRUE /\ received = {} /\ lost = {}
        /\ skipped = FALSE /\ used = {} /\ restarts = 0

(* _postToBackend: nothing is kept for later when the backend is not configured *)
Post(i) ==
  /\ i \notin used /\ configured
  /\ used' = used \cup {i} /\ first' = first \cup {i}
  /\ UNCHANGED <<queue, run, timer, configured, received, lost, skipped, restarts>>

FirstStored(i) ==
  /\ i \in first
  /\ first' = first \ {i} /\ received' = received \cup {i}
  /\ UNCHANGED <<queue, run, timer, configured, lost, skipped, used, restarts>>

(* enqueueEntry: an entry of the same id is replaced, the oldest ones go *)
Enqueued(q, e) ==
  LET at == {k \in DOMAIN q : q[k].id = e.id}
      all == IF at = {} THEN Append(q, e) ELSE [k \in DOMAIN q |-> IF k \in at THEN e ELSE q[k]]
  IN  IF Len(all) > Cap THEN SubSeq(all, Len(all) - Cap + 1, Len(all)) ELSE all

(* the request failed, or only its answer did *)
FirstFails(i) ==
  /\ i \in first
  /\ first' = first \ {i}
  /\ received' \in {received, received \cup {i}}
  /\ queue' = Enqueued(queue, [id |-> i, due |-> FALSE])
  /\ lost' = lost \cup (IdsOf(queue) \ IdsOf(queue'))
  /\ timer' = TRUE
  /\ UNCHANGED <<run, configured, skipped, used, restarts>>

(* the clock reaches nextRetryAt of an entry, in every copy of the queue *)
Fallen(q, i) == [k \in DOMAIN q |-> [q[k] EXCEPT !.due = @ \/ q[k].id = i]]
FallDue(i) ==
  /\ \E e \in ToSet(queue) : e.id = i /\ ~e.due
  /\ queue' = Fallen(queue, i)
  /\ run' = [r \in Runs |-> [run[r] EXCEPT !.snap = Fallen(@, i)]]
  /\ UNCHANGED <<first, timer, configured, received, lost, skipped, used, restarts>>

(* the timer, or the activation of the extension: retryOutbox up to its loop *)
RunStarts(r) ==
  /\ timer /\ ~run[r].on
  /\ timer' = FALSE
  /\ skipped' = (skipped \/ ~configured)
  /\ run' = IF configured /\ queue # <<>>
            THEN [run EXCEPT ![r] = [Idle EXCEPT !.on = TRUE, !.snap = queue,
                                     !.todo = {e.id : e \in {x \in ToSet(queue) : x.due}}]]
            ELSE run
  /\ UNCHANGED <<queue, first, configured, received, lost, used, restarts>>

RunSends(r, i) ==
  /\ i \in run[r].todo
  /\ run' = [run EXCEPT ![r].todo = @ \ {i}, ![r].sent = @ \cup {i}, ![r].changed = TRUE]
  /\ received' = received \cup {i}
  /\ UNCHANGED <<queue, first, timer, configured, lost, skipped, used, restarts>>

RunSendFails(r) ==
  \E i \in run[r].todo :
    /\ run' = [run EXCEPT ![r].todo = @ \ {i}, ![r].changed = TRUE,
                          ![r].snap = [k \in DOMAIN @ |-> IF @[k].id = i THEN [@[k] EXCEPT !.due = FALSE] ELSE @[k]]]
    /\ UNCHANGED <<queue, first, timer, configured, received, lost, skipped, used, restarts>>

Remaining(r) == SelectSeq(run[r].snap, LAMBDA e : e.id \notin run[r].sent)

Written(r) ==
  /\ run[r].on /\ run[r].todo = {}
  /\ run' = [run EXCEPT ![r] = Idle]
  /\ queue' = IF run[r].changed THEN Remaining(r) ELSE queue
  /\ lost' = lost \cup (IdsOf(queue) \ (IdsOf(queue') \cup received))
  /\ UNCHANGED <<first, configured, received, skipped, used, restarts>>

(* the timer is set again only after a run that tried something *)
RunEndsUnarmed(r) == Written(r) /\ timer' = (timer \/ (run[r].changed /\ Remaining(r) # <<>>))
(* whatever the run found due, a timer is set while entries remain *)
RunEnds(r) == Written(r) /\ timer' = (timer \/ Remaining(r) # <<>>)

Configure ==
  /\ configured' = ~configured
  /\ UNCHANGED <<queue, first, run, timer, received, lost, skipped, used, restarts>>

(* Reload of the window: first attempts and runs go with the process, the queue
   stays; the activation starts a run, as a timer would. *)
Restart ==
  /\ restarts < MaxRestarts
  /\ restarts' = restarts + 1
  /\ first' = {} /\ run' = [r \in Runs |-> Idle] /\ timer' = TRUE
  /\ lost' = lost \cup (first \ received)
  /\ UNCHANGED <<queue, configured, received, skipped, used>>

Next == \/ \E i \in Ids : Post(i) \/ FirstStored(i) \/ FirstFails(i) \/ FallDue(i)
        \/ \E r \in Runs : RunStarts(r) \/ RunSendFails(r) \/ RunEnds(r) \/ \E i \in Ids : RunSends(r, i)
        \/ Configure \/ Restart

(* Timers fire, requests end, and a capture sent again and again is stored. *)
Delivers == /\ \A i \in Ids : WF_vars(FallDue(i))
            /\ \A r \in Runs : /\ WF_vars(RunStarts(r)) /\ WF_vars(RunEnds(r))
                               /\ WF_vars(RunSendFails(r))
                               /\ \A i \in Ids : SF_vars(RunSends(r, i))

Spec == Init /\ [][Next]_vars /\ Delivers

-----------------------------------------------------------------------------
\* A queued capture reaches the backend, unless the cap or an overlapping run
\* dropped it or a run found the backend not configured: a queue that is not
\* empty never stays without a timer or a run (capture.ts 570-581).
Drains == \A i \in Ids : i \in IdsOf(queue) ~> (i \in received \cup lost \/ skipped)
=============================================================================
