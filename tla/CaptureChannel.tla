--------------------------- MODULE CaptureChannel ---------------------------
(* How the full editor extension delivers a record (backend.ts): over a shared *)
(* WebSocket that answers by uuid, then by HTTP, and into a queue in memory     *)
(* when the backend cannot be reached.  Ingests overlap; any failed attempt     *)
(* resets the socket and rejects the waiting confirmations of all the others.   *)
(* The next ingest first takes the queue and sends it in order.                 *)
EXTENDS Naturals, Sequences, FiniteSets, Functions

CONSTANTS
  Records,
  Cap,         \* OFFLINE_QUEUE_MAX
  Pending,     \* MAX_PENDING_CONFIRMATIONS
  Attempts,    \* websocketRetryAttempts, httpRetryAttempts
  MaxSockets   \* bound on the connections and reloads

VARIABLES
  checked,     \* the health check was made
  ingest,      \* what each ingest does: its stage, attempt and the queue it holds
  socket,      \* the open connection, 0 when there is none
  opened,      \* connections and reloads so far
  confirming,  \* pendingConfirmations
  frames,      \* confirmations the backend has sent, by record and socket
  queue,       \* _offlineQueue
  received,    \* records the backend stored
  dropped      \* records the cap or a reload took out of the queue

vars == <<checked, ingest, socket, opened, confirming, frames, queue, received, dropped>>

Ended == {"stored", "queued", "failed"}
New == [stage |-> "new", try |-> 1, held |-> <<>>]
Moves(i, stage) == [ingest EXCEPT ![i].stage = stage]

Init == /\ checked = FALSE /\ ingest = [i \in Records |-> New]
        /\ socket = 0 /\ opened = 0 /\ confirming = {} /\ frames = {}
        /\ queue = <<>> /\ received = {} /\ dropped = {}

(* the attempts whose confirmation is rejected *)
Failing(ing, rejected) == [i \in Records |-> IF i \in rejected THEN [ing[i] EXCEPT !.stage = "reset"] ELSE ing[i]]

(* enqueueOffline *)
Enqueue(i) ==
  /\ queue' = Append(IF Len(queue) >= Cap THEN Tail(queue) ELSE queue, i)
  /\ dropped' = dropped \cup (IF Len(queue) >= Cap THEN {Head(queue)} ELSE {})

(* ingestProvenanceRecord: ingests that find no health check yet make their own *)
Begins(i) ==
  /\ ingest[i].stage = "new"
  /\ ingest' = Moves(i, IF checked THEN "ready" ELSE "checking")
  /\ UNCHANGED <<checked, socket, opened, confirming, frames, queue, received, dropped>>
Checked(i) ==
  /\ ingest[i].stage = "checking"
  /\ checked' = TRUE
  /\ \/ ingest' = Moves(i, "ready") /\ UNCHANGED <<queue, dropped>>
     \/ ingest' = Moves(i, "queued") /\ Enqueue(i)
  /\ UNCHANGED <<socket, opened, confirming, frames, received>>
(* flushOfflineQueue takes all that waits *)
Starts(i) ==
  /\ ingest[i].stage = "ready"
  /\ ingest' = [ingest EXCEPT ![i].stage = IF queue = <<>> THEN "send" ELSE "flush", ![i].held = queue]
  /\ queue' = <<>>
  /\ UNCHANGED <<checked, socket, opened, confirming, frames, received, dropped>>

FlushSends(i) ==
  /\ ingest[i].stage = "flush" /\ ingest[i].held # <<>>
  /\ received' = received \cup {Head(ingest[i].held)}
  /\ ingest' = [ingest EXCEPT ![i].held = Tail(@), ![i].stage = IF Len(ingest[i].held) = 1 THEN "send" ELSE "flush"]
  /\ UNCHANGED <<checked, socket, opened, confirming, frames, queue, dropped>>
(* the first failure puts the rest back in front of what was queued meanwhile *)
FlushFails(i) ==
  /\ ingest[i].stage = "flush" /\ ingest[i].held # <<>>
  /\ queue' = ingest[i].held \o queue
  /\ ingest' = [ingest EXCEPT ![i].held = <<>>, ![i].stage = "send"]
  /\ UNCHANGED <<checked, socket, opened, confirming, frames, received, dropped>>

(* openWebSocketConnection: closes what is open, then connects *)
Connect(i) ==
  /\ ingest[i].stage = "send" /\ socket = 0 /\ opened < MaxSockets
  /\ opened' = opened + 1
  /\ ingest' = Failing(ingest, confirming) /\ confirming' = {}
  /\ socket' = opened'
  /\ UNCHANGED <<checked, frames, queue, received, dropped>>
ConnectFails(i) ==
  /\ ingest[i].stage = "send" /\ socket = 0
  /\ ingest' = Moves(i, "reset")
  /\ UNCHANGED <<checked, socket, opened, confirming, frames, queue, received, dropped>>

(* waitForConfirmation and send; the backend stores and confirms what it gets *)
Send(i) ==
  /\ ingest[i].stage = "send" /\ socket # 0
  /\ IF Cardinality(confirming) >= Pending
     THEN ingest' = Moves(i, "reset") /\ UNCHANGED <<confirming, received, frames>>
     ELSE /\ ingest' = Moves(i, "waiting") /\ confirming' = confirming \cup {i}
          /\ \/ received' = received \cup {i} /\ frames' = frames \cup {<<i, socket>>}
             \/ UNCHANGED <<received, frames>>
  /\ UNCHANGED <<checked, socket, opened, queue, dropped>>

(* capture.confirmed resolves the confirmation of its uuid *)
Confirmed(f) ==
  /\ f \in frames /\ f[2] = socket
  /\ frames' = frames \ {f} /\ confirming' = confirming \ {f[1]}
  /\ ingest' = IF f[1] \in confirming THEN Moves(f[1], "stored") ELSE ingest
  /\ UNCHANGED <<checked, socket, opened, queue, received, dropped>>

(* capture.error: for one record, or for all that wait *)
Rejected ==
  /\ socket # 0 /\ confirming # {}
  /\ \E who \in {{i} : i \in confirming} \cup {confirming} :
       ingest' = Failing(ingest, who) /\ confirming' = confirming \ who
  /\ UNCHANGED <<checked, socket, opened, frames, queue, received, dropped>>

TimesOut(i) ==
  /\ i \in confirming
  /\ ingest' = Moves(i, "reset") /\ confirming' = confirming \ {i}
  /\ UNCHANGED <<checked, socket, opened, frames, queue, received, dropped>>

(* the close event of a connection, also of one that was replaced *)
Closed ==
  /\ opened > 0
  /\ socket' \in {socket, 0}
  /\ ingest' = Failing(ingest, confirming) /\ confirming' = {}
  /\ UNCHANGED <<checked, opened, frames, queue, received, dropped>>

(* an attempt failed: closeWebSocket, then the next attempt or HTTP *)
Reset(i) ==
  /\ ingest[i].stage = "reset"
  /\ socket' = 0 /\ confirming' = {}
  /\ ingest' = [Failing(ingest, confirming) EXCEPT
                  ![i] = IF ingest[i].try < Attempts
                         THEN [New EXCEPT !.stage = "send", !.try = ingest[i].try + 1]
                         ELSE [New EXCEPT !.stage = "http"]]
  /\ UNCHANGED <<checked, opened, frames, queue, received, dropped>>

(* tryHttpIngestWithRetry *)
HttpStores(i) ==
  /\ ingest[i].stage = "http"
  /\ received' = received \cup {i} /\ ingest' = Moves(i, "stored")
  /\ UNCHANGED <<checked, socket, opened, confirming, frames, queue, dropped>>
HttpRetries(i) ==
  /\ ingest[i].stage = "http" /\ ingest[i].try < Attempts
  /\ received' \in {received, received \cup {i}}
  /\ ingest' = [ingest EXCEPT ![i].try = @ + 1]
  /\ UNCHANGED <<checked, socket, opened, confirming, frames, queue, dropped>>
(* the last error decides: a network error queues the record, a refusal does not *)
HttpUnreachable(i) ==
  /\ ingest[i].stage = "http" /\ ingest[i].try = Attempts
  /\ received' \in {received, received \cup {i}}
  /\ ingest' = Moves(i, "queued") /\ Enqueue(i)
  /\ UNCHANGED <<checked, socket, opened, confirming, frames>>
HttpRefused(i) ==
  /\ ingest[i].stage = "http" /\ ingest[i].try = Attempts
  /\ ingest' = Moves(i, "failed")
  /\ UNCHANGED <<checked, socket, opened, confirming, frames, queue, received, dropped>>

(* The window reloads: the queue is in memory only *)
Reload ==
  /\ opened < MaxSockets
  /\ opened' = opened + 1 /\ checked' = FALSE /\ socket' = 0 /\ confirming' = {} /\ frames' = {}
  /\ dropped' = dropped \cup Range(queue) \cup UNION {Range(ingest[i].held) : i \in Records}
  /\ queue' = <<>>
  /\ ingest' = [i \in Records |-> IF ingest[i].stage \in Ended \cup {"new"} THEN ingest[i]
                                  ELSE [New EXCEPT !.stage = "failed"]]
  /\ UNCHANGED received

Next == \/ \E i \in Records : \/ Begins(i) \/ Checked(i) \/ Starts(i) \/ FlushSends(i) \/ FlushFails(i)
                              \/ Connect(i) \/ ConnectFails(i) \/ Send(i) \/ TimesOut(i) \/ Reset(i)
                              \/ HttpStores(i) \/ HttpRetries(i) \/ HttpUnreachable(i) \/ HttpRefused(i)
        \/ \E f \in frames : Confirmed(f)
        \/ Rejected \/ Closed \/ Reload

Spec == Init /\ [][Next]_vars

-----------------------------------------------------------------------------
Waiting == Range(queue) \cup UNION {Range(ingest[i].held) : i \in Records}

TypeOK == /\ socket \in 0..opened /\ opened <= MaxSockets /\ Cardinality(confirming) <= Pending
          /\ confirming = {i \in Records : ingest[i].stage = "waiting"}
          /\ \A i \in Records : ingest[i].try <= Attempts

\* What the extension told its caller is true: a record it called stored is in the
\* backend, and one it called queued is stored, waits in the queue or in the hands
\* of a flush, or was dropped by the cap or by a reload.
Accounted == /\ \A i \in Records : ingest[i].stage = "stored" => i \in received
             /\ \A i \in Records : ingest[i].stage = "queued" => i \in received \cup Waiting \cup dropped
=============================================================================
