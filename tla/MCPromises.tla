------------------------------ MODULE MCPromises ------------------------------
(* The parts that promise that something will happen, side by side for TLC: the *)
(* edits and the policies the proxy holds, the outbox of the base extension, and *)
(* the report scheduler.  They share no state here, so each behaviour lets one  *)
(* of them move (focus).                                                        *)
EXTENDS Naturals, Sequences, FiniteSets

CONSTANTS
  w1, v1, v2, k1, k2, k3,  \* model values
  Handlers,     \* requests the proxy handles at a time
  Chats,        \* conversations
  ChatSession,  \* session key of each
  HeldCalls,    \* tool calls
  ChatOf,       \* conversation of a call
  ToolOf,       \* tool of a call
  HeldEdits,    \* calls that change files
  HeldByName,   \* the adapter matches results by tool as well
  HeldIds,      \* results carry the id of their call
  HeldCap,      \* pending edits that are kept
  HeldBatch,    \* bound: calls in a response
  HeldRequests, \* bound: requests of a conversation
  Mails,        \* scheduled reports
  MailPeriods,  \* bound: dates of a report
  MailChanges   \* bound: crashes and changes

\* a call names its conversation, and a response has finitely many
ASSUME CallsAssumption == HeldEdits \subseteq HeldCalls /\ IsFiniteSet(HeldCalls)
ASSUME MailsAssumption == "none" \notin Mails /\ IsFiniteSet(Mails) /\ MailPeriods \in Nat

\* values for TLC: one session, one tool, one conversation
OneSession == [v \in {v1} |-> "s"]
OneChat == [x \in {k1, k2, k3} |-> v1]
OneTool == [x \in {k1, k2, k3} |-> "edit"]

VARIABLES
  focus,  \* the component that moves
  edpending, edaged, edturn, edhistory, edasked, edrequests, edtx, edtasks, edrecorded,
  gempending, gemaged, gemturn, gemhistory, gemasked, gemrequests, gemtx, gemtasks, gemrecorded,
  rcpolicy, rccache, rcstale, rcfetch, rclooping,
  obqueue, obfirst, obrun, obtimer, obconfigured, obreceived, oblost, obskipped, obused, obrestarts,
  mareport, maqueue, majob, mamanual, masent, machanges,
  crreport, crqueue, crjob, crmanual, crsent, crchanges

Held == INSTANCE PendingEdits WITH
  Workers <- Handlers, Convs <- Chats, SessionOf <- ChatSession, Calls <- HeldCalls, ConvOf <- ChatOf,
  NameOf <- ToolOf, Edits <- HeldEdits, ByName <- HeldByName, Ids <- HeldIds, Cap <- HeldCap,
  MaxBatch <- HeldBatch, MaxRequests <- HeldRequests, pending <- edpending,
  aged <- edaged, turn <- edturn, history <- edhistory, asked <- edasked, requests <- edrequests,
  tx <- edtx, tasks <- edtasks, recorded <- edrecorded

Gemini == INSTANCE PendingEdits WITH
  Workers <- {w1}, Convs <- {v1, v2}, SessionOf <- [v \in {v1, v2} |-> "s"], Calls <- {k1, k2, k3},
  ConvOf <- [x \in {k1, k2, k3} |-> IF x = k3 THEN v2 ELSE v1],
  NameOf <- [x \in {k1, k2, k3} |-> IF x = k2 THEN "shell" ELSE "edit"], Edits <- {k1, k3},
  ByName <- TRUE, Ids <- TRUE, Cap <- 3, MaxBatch <- 1, MaxRequests <- 2, pending <- gempending,
  aged <- gemaged, turn <- gemturn, history <- gemhistory, asked <- gemasked,
  requests <- gemrequests, tx <- gemtx, tasks <- gemtasks, recorded <- gemrecorded

Routing == INSTANCE RoutingCache WITH
  Fetches <- 1..2, MaxVersion <- 3, policy <- rcpolicy, cache <- rccache, stale <- rcstale,
  fetch <- rcfetch, looping <- rclooping

Outbox == INSTANCE Outbox WITH
  Ids <- {k1, k2}, Runs <- {1}, Cap <- 1, MaxRestarts <- 1, queue <- obqueue, first <- obfirst,
  run <- obrun, timer <- obtimer, configured <- obconfigured, received <- obreceived,
  lost <- oblost, skipped <- obskipped, used <- obused, restarts <- obrestarts

Mail == INSTANCE ScheduledReports WITH
  Reports <- Mails, Servers <- {"s1"}, Manual <- FALSE, MaxPeriod <- MailPeriods, MaxChanges <- MailChanges,
  report <- mareport, queue <- maqueue, job <- majob, manual <- mamanual, sent <- masent,
  changes <- machanges

Crowd == INSTANCE ScheduledReports WITH
  Reports <- {"r1"}, Servers <- {"s1", "s2"}, Manual <- TRUE, MaxPeriod <- 2, MaxChanges <- 2,
  report <- crreport, queue <- crqueue, job <- crjob, manual <- crmanual, sent <- crsent,
  changes <- crchanges

edVars == <<edpending, edaged, edturn, edhistory, edasked, edrequests, edtx, edtasks, edrecorded>>
gemVars == <<gempending, gemaged, gemturn, gemhistory, gemasked, gemrequests, gemtx, gemtasks, gemrecorded>>
rcVars == <<rcpolicy, rccache, rcstale, rcfetch, rclooping>>
obVars == <<obqueue, obfirst, obrun, obtimer, obconfigured, obreceived, oblost, obskipped, obused, obrestarts>>
maVars == <<mareport, maqueue, majob, mamanual, masent, machanges>>
crVars == <<crreport, crqueue, crjob, crmanual, crsent, crchanges>>

vars == <<focus, edVars, gemVars, rcVars, obVars, maVars, crVars>>

Init == /\ focus \in {"ed", "gem", "rc", "ob", "ma", "cr"}
        /\ Held!Init
        /\ Gemini!Init
        /\ Routing!Init
        /\ Outbox!Init
        /\ Mail!Init
        /\ Crowd!Init
        /\ focus # "rc" => ~rcpolicy.enabled

\* only the component in focus moves
HeldKeeps == UNCHANGED <<focus, gemVars, rcVars, obVars, maVars, crVars>>
GeminiKeeps == UNCHANGED <<focus, edVars, rcVars, obVars, maVars, crVars>>
RoutingKeeps == UNCHANGED <<focus, edVars, gemVars, obVars, maVars, crVars>>
OutboxKeeps == UNCHANGED <<focus, edVars, gemVars, rcVars, maVars, crVars>>
MailKeeps == UNCHANGED <<focus, edVars, gemVars, rcVars, obVars, crVars>>
CrowdKeeps == UNCHANGED <<focus, edVars, gemVars, rcVars, obVars, maVars>>

Next == \/ focus = "ed" /\ Held!Next /\ HeldKeeps
        \/ focus = "gem" /\ Gemini!Next /\ GeminiKeeps
        \/ focus = "rc" /\ Routing!Next /\ RoutingKeeps
        \/ focus = "ob" /\ Outbox!Next /\ OutboxKeeps
        \/ focus = "ma" /\ Mail!Next /\ MailKeeps
        \/ focus = "cr" /\ Crowd!Next /\ CrowdKeeps

Spec == /\ Init /\ [][Next]_vars
        /\ Held!Expiry
        /\ (focus = "rc" => Routing!Refreshes)
        /\ Outbox!Delivers
        /\ Mail!Loops

-------------------------------------------------------------------------------
\* Every component keeps to its types.
TypeOK == /\ Held!TypeOK
          /\ Gemini!TypeOK
          /\ Routing!TypeOK
          /\ Outbox!TypeOK
          /\ Mail!TypeOK
          /\ Crowd!TypeOK

(* Pending edits matched by id: one conversation, a store of one edit *)
\* An edit is recorded once, with its own result.
HeldRecordedOnce == Held!RecordedOnce

(* Routing cache: two fetches, three versions of a policy *)
\* An enabled policy comes into force in its last version.
RoutingConverges == Routing!Converges

(* Outbox of the base extension: two captures, a queue of one *)
\* A queued capture is delivered or lost for a known reason: a queue that is not empty never stays without a timer or a run.
OutboxDrains == Outbox!Drains

(* Pending edits *)
\* The next request finds results that came too early, and no proposal stays for ever.
HeldProposals == Held!HistoryHeals /\ Held!ProposalLeaves

(* Scheduled reports *)
\* No period of a report is mailed twice by a server that stays up, and no report stays
\* due, whatever becomes of it or of another.
MailHonest == []Mail!MailedOnce /\ Mail!DueHandled

(* Not properties of the code: statements of its documentation *)
\* Results that carry the id of a Gemini call are recorded for that call only.
GeminiIdMatchedExactly == Gemini!IdMatchedExactly
===============================================================================
