-------------------------------- MODULE WsCapture --------------------------------
(***************************************************************************)
(* The capture WebSocket of the backend: connections of one workspace,     *)
(* their registry, the ingest loop with its periodic check that the token  *)
(* is still valid, and the broadcast of each stored record to every        *)
(* registered connection.  One handler per connection; handlers interleave *)
(* at every await, and a client may be gone at any time.                   *)
(***************************************************************************)
EXTENDS Naturals, FiniteSets

CONSTANTS
  Sockets,
  Interval,     \* messages between two checks of the token (50)
  MaxMessages   \* bound: messages of a connection

VARIABLES
  conn,        \* per socket: handler
  registered,  \* WebSocketConnectionManager._connections
  revoked,     \* sockets whose token was revoked in the database
  gone,        \* sockets whose client has disconnected: a send fails
  greetless    \* sockets whose greeting failed

vars == <<conn, registered, revoked, gone, greetless>>

-------------------------------------------------------------------------------
Quiet == [to |-> {}, stale |-> {}, dead |-> {}]

\* since: messages ingested after the token was revoked; cast: the broadcast in progress
Handler(pc) == [pc |-> pc, count |-> 0, since |-> 0, cast |-> Quiet]

Init == /\ conn = [s \in Sockets |-> Handler("none")]
        /\ registered = {} /\ revoked = {} /\ gone = {} /\ greetless = {}

At(s, pc) == conn[s].pc = pc

Goto(s, pc) == conn' = [conn EXCEPT ![s].pc = pc]

\* _setup_ws_connection: token and database check, or the socket is closed
Connect(s) ==
  /\ At(s, "none")
  /\ IF s \in revoked THEN Goto(s, "closed") ELSE Goto(s, "verified")
  /\ UNCHANGED <<registered, revoked, gone, greetless>>

\* manager.connect
Register(s) ==
  /\ At(s, "verified") /\ s \notin gone
  /\ registered' = registered \cup {s}
  /\ Goto(s, "greeting")
  /\ UNCHANGED <<revoked, gone, greetless>>

RegisterFails(s) ==
  /\ At(s, "verified") /\ s \in gone
  /\ Goto(s, "closed")
  /\ UNCHANGED <<registered, revoked, gone, greetless>>

\* "capture.connected" is sent before the try block: a failure skips its finally
Greet(s) ==
  /\ At(s, "greeting")
  /\ IF s \in gone THEN Goto(s, "closed") /\ greetless' = greetless \cup {s}
                   ELSE Goto(s, "loop") /\ UNCHANGED greetless
  /\ UNCHANGED <<registered, revoked, gone>>

\* a message is received; every Interval-th checks the token first, then ingests
Message(s) ==
  LET n == conn[s].count + 1 IN
  /\ At(s, "loop") /\ s \notin gone /\ conn[s].count < MaxMessages
  /\ conn' = IF n % Interval = 0 /\ s \in revoked
               THEN [conn EXCEPT ![s].count = n, ![s].pc = "leaving"]
               ELSE [conn EXCEPT ![s].count = n, ![s].pc = "stored",
                                 ![s].since = IF s \in revoked THEN @ + 1 ELSE @]
  /\ UNCHANGED <<registered, revoked, gone, greetless>>

\* a ping, an invalid payload or a failed ingest: an answer, if any, and the loop goes on
MessageRefused(s) ==
  LET n == conn[s].count + 1 IN
  /\ At(s, "loop") /\ s \notin gone /\ conn[s].count < MaxMessages
  /\ ~(n % Interval = 0 /\ s \in revoked)
  /\ conn' = [conn EXCEPT ![s].count = n]
  /\ UNCHANGED <<registered, revoked, gone, greetless>>

\* the confirmation, then the snapshot of the sockets to broadcast to
Confirm(s) ==
  /\ At(s, "stored")
  /\ conn' = IF s \in gone
               THEN [conn EXCEPT ![s].pc = "leaving"]
               ELSE [conn EXCEPT ![s].pc = "casting",
                                 ![s].cast = [to |-> registered, stale |-> {}, dead |-> registered \cap gone]]
  /\ UNCHANGED <<registered, revoked, gone, greetless>>

Send(s, r) ==
  /\ At(s, "casting") /\ r \in conn[s].cast.to
  /\ conn' = [conn EXCEPT ![s].cast.to = @ \ {r},
                          ![s].cast.stale = IF r \in gone THEN @ \cup {r} ELSE @]
  /\ UNCHANGED <<registered, revoked, gone, greetless>>

\* mutant: the broadcast does not drop the sockets it could not reach
CastEndKeeps(s) ==
  /\ At(s, "casting") /\ conn[s].cast.to = {}
  /\ conn' = [conn EXCEPT ![s].pc = "loop", ![s].cast = Quiet]
  /\ UNCHANGED <<registered, revoked, gone, greetless>>

\* the end of a broadcast: what could not be reached is unregistered
CastEnd(s) ==
  /\ At(s, "casting") /\ conn[s].cast.to = {}
  /\ registered' = registered \ conn[s].cast.stale
  /\ conn' = [conn EXCEPT ![s].pc = "loop", ![s].cast = Quiet]
  /\ UNCHANGED <<revoked, gone, greetless>>

\* rate limit, message too large, or the client is gone: the loop ends
Break(s) ==
  /\ At(s, "loop")
  /\ Goto(s, "leaving")
  /\ UNCHANGED <<registered, revoked, gone, greetless>>

\* finally: manager.disconnect
Leave(s) ==
  /\ At(s, "leaving")
  /\ registered' = registered \ {s}
  /\ Goto(s, "closed")
  /\ UNCHANGED <<revoked, gone, greetless>>

Revoke(s) == /\ s \notin revoked /\ revoked' = revoked \cup {s}
             /\ UNCHANGED <<conn, registered, gone, greetless>>

ClientGone(s) == /\ s \notin gone /\ ~At(s, "none") /\ gone' = gone \cup {s}
                 /\ UNCHANGED <<conn, registered, revoked, greetless>>

Handle(s) == \/ Connect(s) \/ Register(s) \/ RegisterFails(s) \/ Greet(s) \/ Message(s)
             \/ MessageRefused(s) \/ Confirm(s) \/ CastEnd(s) \/ Break(s) \/ Leave(s)
             \/ \E r \in Sockets : Send(s, r)

Next == \E s \in Sockets : Handle(s) \/ Revoke(s) \/ ClientGone(s)

Spec == Init /\ [][Next]_vars

-------------------------------------------------------------------------------
Pcs == {"none", "verified", "greeting", "loop", "stored", "casting", "leaving", "closed"}

\* Type invariant of the capture socket.
TypeOK == /\ \A s \in Sockets : /\ conn[s].pc \in Pcs
                                /\ conn[s].count \in 0..MaxMessages
                                /\ conn[s].cast.to \subseteq Sockets
          /\ registered \subseteq Sockets /\ revoked \subseteq Sockets
          /\ gone \subseteq Sockets /\ greetless \subseteq Sockets

\* A connection whose token was revoked stores fewer than Interval messages more,
\* whatever was in flight when it was revoked.
RevocationLag == \A s \in Sockets : conn[s].since < Interval

\* The registry holds no connection whose handler has ended, except one whose
\* greeting failed (the finally that unregisters does not cover the greeting).
NoStaleEntry == \A s \in registered : At(s, "closed") => s \in greetless

\* Such an entry does not survive a broadcast: when one ends, the sockets that were
\* already dead when it began are out of the registry.
BroadcastCleans ==
  [][\A s \in Sockets : (At(s, "casting") /\ ~At(s, "casting")') =>
        conn[s].cast.dead \cap registered' = {}]_vars
===============================================================================
