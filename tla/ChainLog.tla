------------------------------- MODULE ChainLog -------------------------------
(***************************************************************************)
(* What the ingest path promises of the records of a workspace: one log,    *)
(* appended at its end, each entry linked to the one before it, and answers *)
(* that name entries of it.  The promise ends for a workspace when two of   *)
(* its inserts overlap or something is imported into it.                    *)
(***************************************************************************)
EXTENDS Sequences, Naturals

CONSTANTS Spaces, Uuids

VARIABLES
  log,      \* of each workspace: entries [uuid, after], oldest first
  open,     \* workspaces the promise still holds for
  answered  \* <<workspace, uuid>> of every record an answer has named

logVars == <<log, open, answered>>

UuidsOf(s) == {s[i].uuid : i \in DOMAIN s}

LogInit == /\ log = [ws \in Spaces |-> <<>>]
           /\ open = Spaces
           /\ answered = {}

\* a new record is linked to the last one, and the answer names it
Extend(ws, u) ==
  LET s == log[ws] IN
  /\ ws \in open
  /\ \A v \in Spaces : u \notin UuidsOf(log[v])
  /\ log' = [log EXCEPT ![ws] =
               Append(s, [uuid |-> u, after |-> IF s = <<>> THEN {} ELSE {s[Len(s)].uuid}])]
  /\ answered' = answered \cup {<<ws, u>>}
  /\ UNCHANGED open

\* a retry is answered with the record that is there
Repeat(ws, u) == /\ ws \in open => u \in UuidsOf(log[ws])
                 /\ answered' = answered \cup {<<ws, u>>}
                 /\ UNCHANGED <<log, open>>

Close(ws) == /\ open' = open \ {ws}
             /\ log' = [log EXCEPT ![ws] = <<>>]
             /\ UNCHANGED answered

LogNext == \E ws \in Spaces : Close(ws) \/ \E u \in Uuids : Extend(ws, u) \/ Repeat(ws, u)

LogSpec == LogInit /\ [][LogNext]_logVars
===============================================================================
