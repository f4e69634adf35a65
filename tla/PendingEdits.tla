------------------------------ MODULE PendingEdits ------------------------------
(***************************************************************************)
(* The proxy's store of proposed edits.  A response that calls tools leaves *)
(* its edits pending; the client runs the calls and sends the results with  *)
(* its next request, which resolves the edits and posts them once to the    *)
(* backend.  ByName distinguishes the Gemini adapter (results of the last   *)
(* message, matched by id or else by tool name) from the others (results of *)
(* the whole history, matched by id).                                       *)
(***************************************************************************)
EXTENDS Naturals, Sequences, FiniteSets, Filters, SequencesExt

CONSTANTS
  Workers,    \* requests the proxy handles at a time
  Convs,      \* conversations of the clients
  SessionOf,  \* session key of a conversation: system prompt and credentials
  Calls,      \* tool calls, each with a unique id
  ConvOf,     \* conversation a call belongs to
  NameOf,     \* tool of a call
  Edits,      \* calls of tools that change files
  ByName,     \* TRUE for Gemini
  Ids,        \* the client repeats the id of a call in its response
  Cap,        \* _PENDING_EDITS_MAX
  MaxBatch,   \* bound: calls in a response
  MaxRequests \* bound: requests of a conversation

VARIABLES
  pending,   \* _pending_edits: keys in insertion order
  aged,      \* pending edits older than the TTL
  turn,      \* calls of the last response that the client has not decided
  history,   \* messages with results, by conversation
  asked,     \* calls that responses have made
  requests,  \* number of requests, by conversation
  tx,        \* requests in the proxy
  tasks,     \* deliveries in the background: the edit and the call whose result it got
  recorded   \* results the backend has of an edit

vars == <<pending, aged, turn, history, asked, requests, tx, tasks, recorded>>

Idle == [pc |-> "idle"]

SessionOfCall(c) == SessionOf[ConvOf[c]]

Drop(q, S) == Kept(q, Calls \ S)

Init == /\ pending = <<>> /\ aged = {} /\ asked = {} /\ tasks = {}
        /\ turn = [v \in Convs |-> {}]
        /\ history = [v \in Convs |-> <<>>]
        /\ requests = [v \in Convs |-> 0]
        /\ tx = [w \in Workers |-> Idle]
        /\ recorded = [c \in Calls |-> <<>>]

-------------------------------------------------------------------------------
\* the results of all messages
Joined(h) == LET J[i \in 0..Len(h)] == IF i = 0 THEN <<>> ELSE J[i - 1] \o h[i]
             IN J[Len(h)]

\* the results a request carries: Gemini reads the last message that has some
Results(v) == IF ~ByName THEN Joined(history[v])
              ELSE IF history[v] = <<>> THEN <<>> ELSE Last(history[v])

\* the pending edit that the result of c resolves; Gemini falls back to the oldest
\* edit of the session and tool, also when an id is there and is not pending
Match(q, c) ==
  LET named == Kept(q, {d \in Calls : SessionOfCall(d) = SessionOfCall(c) /\ NameOf[d] = NameOf[c]})
  IN IF (~ByName \/ Ids) /\ c \in Range(q) THEN {c}
     ELSE IF ByName /\ named # <<>> THEN {Head(named)}
     ELSE {}

Resolved(acc, c) ==
  LET k == Match(acc.left, c)
  IN [left |-> Drop(acc.left, k), found |-> acc.found \cup [call : k, of : {c}]]

\* one result after the other, under the lock
Resolve(q, results) ==
  LET R[i \in 0..Len(results)] == IF i = 0 THEN [left |-> q, found |-> {}]
                                  ELSE Resolved(R[i - 1], results[i])
  IN R[Len(results)]

\* mutant: the edit stays in the store
RequestKeeps(w, v) ==
  /\ tx[w] = Idle /\ requests[v] < MaxRequests /\ turn[v] = {}
  /\ \A x \in Workers : tx[x] # Idle /\ tx[x].conv = v => tx[x].pc = "store"
  /\ LET r == Resolve(pending, Results(v)) IN
       /\ tasks' = tasks \cup r.found
       /\ UNCHANGED <<pending, aged>>
  /\ requests' = [requests EXCEPT ![v] = @ + 1]
  /\ tx' = [tx EXCEPT ![w] = [pc |-> "forward", conv |-> v]]
  /\ UNCHANGED <<turn, history, asked, recorded>>

\* a client sends its history: results are resolved, then the request is forwarded.
\* The answer to its previous request may still be on its way into the store.
Request(w, v) ==
  /\ tx[w] = Idle /\ requests[v] < MaxRequests /\ turn[v] = {}
  /\ \A x \in Workers : tx[x] # Idle /\ tx[x].conv = v => tx[x].pc = "store"
  /\ LET r == Resolve(pending, Results(v)) IN
       /\ tasks' = tasks \cup r.found
       /\ pending' = r.left
       /\ aged' = aged \cap Range(r.left)
  /\ requests' = [requests EXCEPT ![v] = @ + 1]
  /\ tx' = [tx EXCEPT ![w] = [pc |-> "forward", conv |-> v]]
  /\ UNCHANGED <<turn, history, asked, recorded>>

\* a batch of new calls of the conversation, in the order of their ids
Batches(v) ==
  {SetToSeq(B) : B \in {C \in SUBSET {c \in Calls \ asked : ConvOf[c] = v} :
                          Cardinality(C) <= MaxBatch}}

\* the response is complete: the client has its last chunk before the proxy stores it
Respond(w) ==
  /\ tx[w].pc = "forward"
  /\ \E B \in Batches(tx[w].conv) :
       /\ asked' = asked \cup Range(B)
       /\ turn' = [turn EXCEPT ![tx[w].conv] = Range(B)]
       /\ tx' = [tx EXCEPT ![w] = [pc |-> "store", conv |-> tx[w].conv, batch |-> B]]
  /\ UNCHANGED <<pending, aged, history, requests, tasks, recorded>>

\* the client goes away at the end: the calls are stored, it never runs them
Cut(w) ==
  /\ tx[w].pc = "forward"
  /\ \E B \in Batches(tx[w].conv) :
       /\ asked' = asked \cup Range(B)
       /\ tx' = [tx EXCEPT ![w] = [pc |-> "store", conv |-> tx[w].conv, batch |-> B]]
  /\ UNCHANGED <<pending, aged, turn, history, requests, tasks, recorded>>

\* an error of the upstream, a response too large, a cancelled handler
NotStored(w) ==
  /\ tx[w] # Idle
  /\ tx' = [tx EXCEPT ![w] = Idle]
  /\ UNCHANGED <<pending, aged, turn, history, asked, requests, tasks, recorded>>

Oldest(q, n) == {q[i] : i \in (1..n) \cap DOMAIN q}

\* mutant: the cap is tested with ">"
RoomLate(q, n) == IF Len(q) > Cap THEN Drop(q, Oldest(q, Len(q) - Cap + n + 1)) ELSE q

\* a full store makes room for the whole batch by dropping the oldest edits of any session
Room(q, n) == IF Len(q) >= Cap THEN Drop(q, Oldest(q, Len(q) - Cap + n + 1)) ELSE q

\* all calls of the batch count for the room, its edits are added
Store(w) ==
  /\ tx[w].pc = "store"
  /\ LET B == tx[w].batch
         q == IF B = <<>> THEN pending ELSE Room(pending, Len(B))
     IN /\ pending' = q \o Kept(B, Edits)
        /\ aged' = aged \cap Range(q)
  /\ tx' = [tx EXCEPT ![w] = Idle]
  /\ UNCHANGED <<turn, history, asked, requests, tasks, recorded>>

\* the client ran or refused some of the calls and gave up on the others
Answer(v) ==
  /\ turn[v] # {}
  /\ \E S \in SUBSET turn[v] :
       history' = [history EXCEPT ![v] = IF S = {} THEN @ ELSE Append(@, SetToSeq(S))]
  /\ turn' = [turn EXCEPT ![v] = {}]
  /\ UNCHANGED <<pending, aged, asked, requests, tx, tasks, recorded>>

\* one POST, not repeated when it fails
Deliver(t) ==
  /\ t \in tasks
  /\ tasks' = tasks \ {t}
  /\ recorded' \in {recorded, [recorded EXCEPT ![t.call] = Append(@, t.of)]}
  /\ UNCHANGED <<pending, aged, turn, history, asked, requests, tx>>

Age(c) ==
  /\ c \in Range(pending) \ aged
  /\ aged' = aged \cup {c}
  /\ UNCHANGED <<pending, turn, history, asked, requests, tx, tasks, recorded>>

\* mutant: an edit with no time of its own counts as new in every round
CleanupNever ==
  /\ aged # {} /\ aged' = {} /\ pending' = pending
  /\ UNCHANGED <<turn, history, asked, requests, tx, tasks, recorded>>

\* the loop that runs every 300 s
Cleanup ==
  /\ aged # {}
  /\ pending' = Drop(pending, aged) /\ aged' = {}
  /\ UNCHANGED <<turn, history, asked, requests, tx, tasks, recorded>>

\* the process stops: nothing is persisted, background tasks are cancelled
Restart ==
  /\ pending' = <<>> /\ aged' = {} /\ tasks' = {}
  /\ tx' = [w \in Workers |-> Idle]
  /\ UNCHANGED <<turn, history, asked, requests, recorded>>

Next == \/ \E w \in Workers, v \in Convs : Request(w, v)
        \/ \E w \in Workers : Respond(w) \/ Cut(w) \/ NotStored(w) \/ Store(w)
        \/ \E v \in Convs : Answer(v)
        \/ \E t \in tasks : Deliver(t)
        \/ \E c \in Calls : Age(c)
        \/ Cleanup \/ Restart

Expiry == WF_vars(Cleanup) /\ \A c \in Calls : WF_vars(Age(c))

Spec == Init /\ [][Next]_vars /\ Expiry

-------------------------------------------------------------------------------
\* Type invariant: keys are unique, and the store exceeds its cap by less than a batch.
TypeOK ==
  /\ pending \in Seq(Edits) /\ IsInjective(pending)
  /\ Len(pending) < Cap + MaxBatch
  /\ aged \subseteq Range(pending) /\ asked \subseteq Calls
  /\ \A v \in Convs : turn[v] \subseteq asked /\ history[v] \in Seq(Seq(asked))
  /\ \A t \in tasks : t.call \in Edits /\ t.of \in asked
  /\ recorded \in [Calls -> Seq(Calls)]

\* Clients repeat all results with every request, yet an edit reaches the backend at
\* most once, with a result of its own session and tool; where ids decide, of its call.
RecordedOnce ==
  \A c \in Calls : /\ Len(recorded[c]) <= 1
                   /\ \A d \in Range(recorded[c]) :
                        /\ SessionOfCall(d) = SessionOfCall(c) /\ NameOf[d] = NameOf[c]
                        /\ ~ByName => d = c

\* A result that carries the id of its call is recorded for that call only.
IdMatchedExactly == Ids => \A c \in Calls : Range(recorded[c]) \subseteq {c}

\* A result that came before its proposal was stored is found by the next request: after
\* a request no answered call of its conversation is pending.
HistoryHeals ==
  [][\A v \in Convs : requests'[v] # requests[v] =>
       \A i \in DOMAIN history[v] : Range(history[v][i]) \cap Range(pending') = {}]_vars

\* Every proposal leaves the store in the end, by its result, the cap or the TTL.
ProposalLeaves == \A c \in Calls : (c \in Range(pending)) ~> (c \notin Range(pending))
===============================================================================
