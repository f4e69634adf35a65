------------------------------ MODULE MCInsertion ------------------------------
(* The way of an insertion from the wire to a stored record, its stations side   *)
(* by side for TLC: what the proxy relays and reads, what the two extensions    *)
(* keep, match and send, and the backend serving one request at a time.  One    *)
(* station moves in a behaviour (focus).                                        *)
EXTENDS Naturals, Sequences, FiniteSets

CONSTANTS
  \* the proxy: an answer with tool calls, a patch it reads, a connection of it
  Indexes, Tools, Parts,      \* calls of the answer, the tool of each, fragments of its arguments
  Files, Texts, Alike,        \* files of the patch, lines, those that begin like a header
  MaxLines,                   \* bound: lines of the patch
  Own, Generic,               \* providers with an upstream of their own; that of UPSTREAM_URL
  MaxChunks, Collectable,     \* bound: chunks of an answer; chunks that fit the capture
  MaxRequests,                \* bound: requests of the connection
  \* the base extension: its capture store, and a file it watches
  StoreIds, StoreLimit,       \* bound: captures; how many are kept
  StoreReviews, StoreChanges, \* review states used; bound: operations on the store
  MaxBlocks, MaxReads,        \* bounds: blocks inserted; reads that overlap
  \* sidecar and correlation of the full extension
  Pairs, Retention, MaxTime,  \* exchanges, how long they are kept, bound of the clock
  Insertions, DocOf,          \* insertions and the document of each
  Window, Near,               \* how near a pair is, and how near two are to one another
  ClaimRetention, MaxClaims,  \* how long, and how many claims are kept
  \* its local storage, its tokens and its channel to the backend
  LegacyUuids, LegacyLimit, LegacyOps,  \* records, how many are kept, bound: operations
  Calls, MaxGen,              \* calls that obtain a token; bound: tokens issued
  Records,                    \* records delivered
  Cap, Pending, Attempts,     \* offline queue, confirmations at a time, attempts of each kind
  MaxSockets,                 \* bound: connections and reloads
  \* the backend
  Alone, Payloads, MaxId,     \* its only request, what it may carry, bound: ids drawn
  Neo4jEnabled, StrictLineage,
  none, q1, q2                \* no request uuid, and two

ASSUME StreamAssumption == Tools \in [Indexes -> {"edit", "multi", "view", "shell"}] /\ Parts \in Nat \ {0}
ASSUME PatchAssumption == "" \notin Files
ASSUME CollectableAssumption == Collectable \in Nat
ASSUME StoreAssumption == StoreLimit \in Nat
ASSUME LegacyAssumption == LegacyLimit \in Nat \ {0} /\ LegacyOps \in Nat
ASSUME ChannelAssumption == Cap \in Nat \ {0}
ASSUME ClaimsAssumption == Retention \in Nat /\ ClaimRetention \in Nat /\ MaxClaims \in Nat

VARIABLES
  focus,  \* the component that moves
  stadapter, stcalls, ststage, stsplit, stended, stcaptured,
  ptformat, ptwritten, ptparser, ptalso, ptedits, ptdone,
  gwlink, gwstep, gwreq, gwgot, gwupstream, gwclient, gwtaken, gwcaptures, gwpipes, gwserved,
  sorecords, sodisk, sotimer, sosaves, sowriting, soopen, sonextId, sochanges, soedited,
  fidoc, fidirty, fifile, fiexists, fibaseline, fiwatching, fitimer, ficreated, fireads, fiscoring, ficaptured, fibig, fihidden, finext,
  conow, copair, cocounted, coinsertion, coqueue, coclaims, colate, coevicted,
  lefile, lechain, lerejected, letask, lereaders, lewriting, leops, leanswered, legone,
  auserver, auissued, auaccess, aurefresh, aulegacy, aukey, auexpiring, aucall, aucauses,
  chchecked, chingest, chsocket, chopened, chconfirming, chframes, chqueue, chreceived, chdropped,
  serows, senextId, seworkspaces, seknown, segraph, setx, seanswered, sedisturbed

\* two workspaces, one uuid sent to both, two records sharing a request uuid
Captures == {[ws |-> "acme", uuid |-> "u1", req |-> q1],
             [ws |-> "acme", uuid |-> "u2", req |-> q1],
             [ws |-> "beta", uuid |-> "u2", req |-> none],
             [ws |-> "beta", uuid |-> "u3", req |-> q2]}

\* a tool of each kind that may yield an edit
OneOfEach == <<"edit", "multi", "view">>

OneDoc == [i \in Insertions |-> "d"]

Stream == INSTANCE StreamCalls WITH
  adapter <- stadapter, calls <- stcalls, stage <- ststage, split <- stsplit, ended <- stended, captured <- stcaptured

Patch == INSTANCE PatchText WITH
  format <- ptformat, written <- ptwritten, parser <- ptparser, also <- ptalso, edits <- ptedits,
  done <- ptdone

Gateway == INSTANCE Gateway WITH
  link <- gwlink, step <- gwstep, req <- gwreq, got <- gwgot, upstream <- gwupstream,
  client <- gwclient, taken <- gwtaken, captures <- gwcaptures, pipes <- gwpipes, served <- gwserved

Store == INSTANCE LocalStore WITH
  MaxId <- StoreIds, Limit <- StoreLimit, Reviews <- StoreReviews, MaxChanges <- StoreChanges,
  records <- sorecords, disk <- sodisk, timer <- sotimer, saves <- sosaves, writing <- sowriting,
  open <- soopen, nextId <- sonextId, changes <- sochanges, edited <- soedited

File == INSTANCE FileCapture WITH
  doc <- fidoc, dirty <- fidirty, file <- fifile,
  exists <- fiexists, baseline <- fibaseline, watching <- fiwatching, timer <- fitimer,
  created <- ficreated, reads <- fireads, scoring <- fiscoring, captured <- ficaptured,
  big <- fibig, hidden <- fihidden, next <- finext

Match == INSTANCE Correlation WITH
  now <- conow, pair <- copair,
  counted <- cocounted, insertion <- coinsertion, queue <- coqueue, claims <- coclaims,
  late <- colate, evicted <- coevicted

Legacy == INSTANCE LegacyStore WITH
  Uuids <- LegacyUuids, MaxRecords <- LegacyLimit, MaxOps <- LegacyOps, file <- lefile, chain <- lechain,
  rejected <- lerejected, task <- letask, readers <- lereaders, writing <- lewriting, ops <- leops,
  answered <- leanswered, gone <- legone

Auth == INSTANCE ClientAuth WITH
  server <- auserver, issued <- auissued, access <- auaccess,
  refresh <- aurefresh, legacy <- aulegacy, key <- aukey, expiring <- auexpiring, call <- aucall,
  causes <- aucauses

Channel == INSTANCE CaptureChannel WITH
  checked <- chchecked, ingest <- chingest, socket <- chsocket, opened <- chopened,
  confirming <- chconfirming, frames <- chframes, queue <- chqueue, received <- chreceived,
  dropped <- chdropped

Serial == INSTANCE ProvenanceIngest WITH
  Workers <- {Alone}, Imports <- {}, NoReq <- none, NoPayload <- none, rows <- serows, nextId <- senextId,
  workspaces <- seworkspaces, known <- seknown, graph <- segraph, tx <- setx,
  answered <- seanswered, disturbed <- sedisturbed

ASSUME ServerAssumption == /\ Neo4jEnabled \in BOOLEAN /\ StrictLineage \in BOOLEAN /\ MaxId \in Nat
                           /\ Payloads \subseteq Serial!Payload

stVars == <<stadapter, stcalls, ststage, stsplit, stended, stcaptured>>
ptVars == <<ptformat, ptwritten, ptparser, ptalso, ptedits, ptdone>>
gwVars == <<gwlink, gwstep, gwreq, gwgot, gwupstream, gwclient, gwtaken, gwcaptures, gwpipes, gwserved>>
soVars == <<sorecords, sodisk, sotimer, sosaves, sowriting, soopen, sonextId, sochanges, soedited>>
fiVars == <<fidoc, fidirty, fifile, fiexists, fibaseline, fiwatching, fitimer, ficreated, fireads, fiscoring, ficaptured, fibig, fihidden, finext>>
coVars == <<conow, copair, cocounted, coinsertion, coqueue, coclaims, colate, coevicted>>
leVars == <<lefile, lechain, lerejected, letask, lereaders, lewriting, leops, leanswered, legone>>
auVars == <<auserver, auissued, auaccess, aurefresh, aulegacy, aukey, auexpiring, aucall, aucauses>>
chVars == <<chchecked, chingest, chsocket, chopened, chconfirming, chframes, chqueue, chreceived, chdropped>>
seVars == <<serows, senextId, seworkspaces, seknown, segraph, setx, seanswered, sedisturbed>>

vars == <<focus, stVars, ptVars, gwVars, soVars, fiVars, coVars, leVars, auVars, chVars, seVars>>

Init == /\ focus \in {"st", "pt", "gw", "so", "fi", "co", "le", "au", "ch", "se"}
        /\ Stream!Init
        /\ Patch!Init
        /\ Gateway!Init
        /\ Store!Init
        /\ File!Init
        /\ Match!Init
        /\ Legacy!Init
        /\ Auth!Init
        /\ Channel!Init
        /\ Serial!Init
        /\ focus # "st" => stadapter = "chat"
        /\ focus # "pt" => ptformat = "dsl" /\ ptalso = {}
        /\ focus # "so" => sodisk = [good |-> TRUE, recs |-> <<>>]
        /\ focus # "fi" => fiexists
        /\ focus # "au" => ~aukey /\ aulegacy

\* only the component in focus moves
StreamKeeps == UNCHANGED <<focus, ptVars, gwVars, soVars, fiVars, coVars, leVars, auVars, chVars, seVars>>
PatchKeeps == UNCHANGED <<focus, stVars, gwVars, soVars, fiVars, coVars, leVars, auVars, chVars, seVars>>
GatewayKeeps == UNCHANGED <<focus, stVars, ptVars, soVars, fiVars, coVars, leVars, auVars, chVars, seVars>>
StoreKeeps == UNCHANGED <<focus, stVars, ptVars, gwVars, fiVars, coVars, leVars, auVars, chVars, seVars>>
FileKeeps == UNCHANGED <<focus, stVars, ptVars, gwVars, soVars, coVars, leVars, auVars, chVars, seVars>>
MatchKeeps == UNCHANGED <<focus, stVars, ptVars, gwVars, soVars, fiVars, leVars, auVars, chVars, seVars>>
LegacyKeeps == UNCHANGED <<focus, stVars, ptVars, gwVars, soVars, fiVars, coVars, auVars, chVars, seVars>>
AuthKeeps == UNCHANGED <<focus, stVars, ptVars, gwVars, soVars, fiVars, coVars, leVars, chVars, seVars>>
ChannelKeeps == UNCHANGED <<focus, stVars, ptVars, gwVars, soVars, fiVars, coVars, leVars, auVars, seVars>>
SerialKeeps == UNCHANGED <<focus, stVars, ptVars, gwVars, soVars, fiVars, coVars, leVars, auVars, chVars>>

Next == \/ focus = "st" /\ Stream!Next /\ StreamKeeps
        \/ focus = "pt" /\ Patch!Next /\ PatchKeeps
        \/ focus = "gw" /\ Gateway!Next /\ GatewayKeeps
        \/ focus = "so" /\ Store!Next /\ StoreKeeps
        \/ focus = "fi" /\ File!Next /\ FileKeeps
        \/ focus = "co" /\ Match!Next /\ MatchKeeps
        \/ focus = "le" /\ Legacy!Next /\ LegacyKeeps
        \/ focus = "au" /\ Auth!Next /\ AuthKeeps
        \/ focus = "ch" /\ Channel!Next /\ ChannelKeeps
        \/ focus = "se" /\ Serial!Next /\ SerialKeeps

Spec == Init /\ [][Next]_vars

-------------------------------------------------------------------------------
\* Every component keeps to its types.
TypeOK == /\ Stream!TypeOK
          /\ Patch!TypeOK
          /\ Gateway!TypeOK
          /\ Store!TypeOK
          /\ File!TypeOK
          /\ Match!TypeOK
          /\ Legacy!TypeOK
          /\ Auth!TypeOK
          /\ Channel!TypeOK

(* Gateway: two requests of a connection *)
\* Answers end for the client where the upstream ended them.
GatewayHonestRelay == Gateway!HonestRelay

(* Base extension, capture store: three captures, two of them kept *)
\* The local verifier names what was changed in the file, and the captures that lost the one they are linked to.
StoreVerdictExact == Store!VerdictExact

(* Base extension, capture of a file: two blocks, two overlapping reads *)
\* Big blocks on disk were captured, unless a baseline had them.
FileComplete == File!Complete

(* Legacy extension, sidecar and correlation: two pairs, two insertions of one document *)
\* A model request is the origin of one insertion only.
MatchClaimedOnce == Match!ClaimedOnce

(* Legacy extension, tokens: two calls, three tokens *)
\* A client loses its session only to a cause outside a single refresh.
AuthSessionSurvives == Auth!SessionSurvives

(* Edits read from the wire *)
\* No edit is captured in part or mixed with another call, and a patch is read back with
\* the lines the model wrote.
EditsFaithful == Stream!Faithful /\ Patch!RoundTrip

(* Storage and delivery of the legacy extension *)
\* What the extension told its caller was stored, or queued, is stored, waits, or went for a
\* reason it knows: in its own file and in the backend.
StoresKeep == Legacy!StoredKept /\ Channel!Accounted

(* Backend, one request at a time *)
\* Whatever fails and is repeated, a stored lineage node id names a node of the graph, and a
\* request uuid is stored once in a workspace.
SerialIngest == Serial!NodesExist /\ Serial!OneRecordPerRequest


===============================================================================
