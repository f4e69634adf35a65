---------------------------- MODULE Correlation -----------------------------
(* The recording proxy inside the full editor extension (proxy.ts) and which    *)
(* of its requests an insertion came from (correlation.ts and its caller in     *)
(* extension.ts).  The sidecar forwards everything, and keeps what it saw of    *)
(* the requests of model providers as pairs: the whole of a POST, the metadata  *)
(* of the rest, the ends of a tunnel; a pair that was not updated for a while   *)
(* is dropped.  An insertion keeps the time of its event, waits for its turn    *)
(* and for a snapshot of the context, and is then matched in one step with a    *)
(* pair near that time that no other insertion has claimed.  Claims are         *)
(* forgotten after ClaimRetention, or when there are too many.                  *)
EXTENDS Naturals, Sequences, FiniteSets, Functions, Filters

CONSTANTS
  Pairs,      \* requests
  Retention,  \* retentionMs
  MaxTime,    \* bound on the clock
  Insertions,
  DocOf,           \* the document of an insertion
  Window,          \* correlationWindowMs
  Near,            \* AMBIGUOUS_TIMING_DELTA_MS
  ClaimRetention,  \* REQUEST_CLAIM_RETENTION_MS
  MaxClaims        \* MAX_CLAIMED_PROMPT_REQUEST_IDS

VARIABLES
  now,
  pair,       \* what happens to each request, and the stored pair
  counted,    \* capability telemetry: observations of each status
  insertion,  \* its stage, the time of its event and the pair it was matched with
  queue,      \* documentChangeQueues: insertions of each document in order
  claims,     \* claimedPromptRequestIds in the order of the map
  late,       \* pairs that were answered after they had been claimed
  evicted     \* pairs whose claim was dropped because there were too many

(* Sidecar *)
sideVars == <<now, pair, counted>>

Statuses == {"full", "metadata_only", "tunnel_only", "unavailable"}
(* stage: of the exchange; stored: the pair is in recentPairs; answer 0: none *)
NoPair == [stage |-> "none", status |-> "unavailable", stored |-> FALSE,
           asked |-> 0, answer |-> 0, updated |-> 0]

SidecarInit == /\ now = 1 /\ pair = [p \in Pairs |-> NoPair]
               /\ counted = [s \in Statuses |-> 0]

(* pruneExpiredPairs *)
Pruned(ps) == [p \in Pairs |-> [ps[p] EXCEPT !.stored = @ /\ ps[p].updated + Retention >= now]]

Observe(s) == counted' = [counted EXCEPT ![s] = @ + 1]

Record(p, status) ==
  [pair EXCEPT ![p] = [stage |-> "open", status |-> status, stored |-> TRUE,
                       asked |-> now, answer |-> 0, updated |-> now]]

(* a request of a host that is not a provider's is counted and forwarded *)
RequestOther(p) ==
  /\ pair[p].stage = "none"
  /\ pair' = [pair EXCEPT ![p].stage = "done"]
  /\ Observe("unavailable") /\ UNCHANGED now

RequestMetadata(p) ==
  /\ pair[p].stage = "none"
  /\ pair' = Pruned(Record(p, "metadata_only"))
  /\ Observe("metadata_only") /\ UNCHANGED now

(* a POST is stored once its body was read; a body that is too long is not kept *)
PostArrives(p) ==
  /\ pair[p].stage = "none"
  /\ pair' = [pair EXCEPT ![p].stage = "reading"]
  /\ UNCHANGED <<now, counted>>
PostRead(p) ==
  /\ pair[p].stage = "reading"
  /\ \E status \in {"full", "metadata_only"} : pair' = Pruned(Record(p, status)) /\ Observe(status)
  /\ UNCHANGED now
PostFails(p) ==
  /\ pair[p].stage = "reading"
  /\ pair' = [pair EXCEPT ![p].stage = "done"]
  /\ UNCHANGED <<now, counted>>

(* the end of the upstream's answer; a pair that was dropped stays dropped *)
Answer(p) ==
  /\ pair[p].stage = "open" /\ pair[p].status # "tunnel_only"
  /\ pair' = Pruned(IF pair[p].stored
                    THEN [pair EXCEPT ![p].stage = "done", ![p].answer = now, ![p].updated = now]
                    ELSE [pair EXCEPT ![p].stage = "done"])
  /\ UNCHANGED <<now, counted>>

(* the upstream cannot be reached: the pair keeps the time of its request *)
UpstreamError(p) ==
  /\ pair[p].stage = "open" /\ pair[p].status # "tunnel_only"
  /\ pair' = [pair EXCEPT ![p].stage = "done"]
  /\ UNCHANGED <<now, counted>>

TunnelOpens(p) ==
  /\ pair[p].stage = "none"
  /\ pair' = Record(p, "tunnel_only")
  /\ Observe("tunnel_only") /\ UNCHANGED now
TunnelCloses(p) ==
  /\ pair[p].stage = "open" /\ pair[p].status = "tunnel_only"
  /\ pair' = IF pair[p].stored
             THEN [pair EXCEPT ![p].stage = "done", ![p].answer = now, ![p].updated = now]
             ELSE [pair EXCEPT ![p].stage = "done"]
  /\ UNCHANGED <<now, counted>>

CleanupTimer == pair' = Pruned(pair) /\ UNCHANGED <<now, counted>>
Tick == now < MaxTime /\ now' = now + 1 /\ UNCHANGED <<pair, counted>>

SidecarNext ==
  \/ \E p \in Pairs : \/ RequestOther(p) \/ RequestMetadata(p) \/ PostArrives(p) \/ PostRead(p)
                      \/ PostFails(p) \/ Answer(p) \/ UpstreamError(p) \/ TunnelOpens(p) \/ TunnelCloses(p)
  \/ CleanupTimer \/ Tick

(* buildProxyCapabilityReport *)
Report == [observed |-> counted["full"] + counted["metadata_only"] + counted["tunnel_only"] + counted["unavailable"],
           captured |-> counted["full"] + counted["metadata_only"] + counted["tunnel_only"]]

-----------------------------------------------------------------------------
(* Correlation *)
vars == <<sideVars, insertion, queue, claims, late, evicted>>
corrVars == <<insertion, queue, claims, evicted>>

NoInsertion == [stage |-> "none", at |-> 0, match |-> {}]
Docs == {DocOf[i] : i \in Insertions}

Init == /\ SidecarInit
        /\ insertion = [i \in Insertions |-> NoInsertion]
        /\ queue = [d \in Docs |-> <<>>]
        /\ claims = <<>> /\ late = {} /\ evicted = {}

(* the editor's event: the change is queued behind those of its document *)
Insert(i) ==
  /\ insertion[i].stage = "none"
  /\ insertion' = [insertion EXCEPT ![i].stage = "queued"]
  /\ queue' = [queue EXCEPT ![DocOf[i]] = Append(@, i)]
  /\ UNCHANGED <<sideVars, claims, late, evicted>>

(* handleTextDocumentChange up to its first await that follows the time stamp *)
Begin(i) ==
  /\ insertion[i].stage = "queued" /\ Head(queue[DocOf[i]]) = i
  /\ insertion' = [insertion EXCEPT ![i].stage = "waiting", ![i].at = now]
  /\ UNCHANGED <<sideVars, queue, claims, late, evicted>>

Distance(a, b) == IF a > b THEN a - b ELSE b - a
AnsweredAt(p) == IF pair[p].answer > 0 THEN pair[p].answer ELSE pair[p].asked
Timing(i, p) == Distance(insertion[i].at, AnsweredAt(p))
Priority(p) == CASE pair[p].status = "full" -> 3 [] pair[p].status = "metadata_only" -> 2 [] OTHER -> 1

(* getRecentPairs prunes; collectCandidates takes the pairs near the insertion *)
Candidates(i) == {p \in Pairs : Pruned(pair)[p].stored /\ Timing(i, p) <= Window}

(* pruneClaimedPromptRequestIds *)
FreshClaimsByWindow(cs) == Kept(cs, {c \in Range(cs) : c.at + Window >= now})
FreshClaims(cs) == Kept(cs, {c \in Range(cs) : c.at + ClaimRetention >= now})
Claimed(cs) == {c.pair : c \in Range(cs)}
(* isClaimedPromptRequestId moves what it finds to the end of the map *)
Touched(cs, seen) == LET found == {c \in Range(cs) : c.pair \in seen}
                     IN Kept(cs, Range(cs) \ found) \o Kept(cs, found)

(* compareCandidatesBaseline; context: the pairs that mention the file *)
Better(i, p, q, context) ==
  \/ p \in context /\ q \notin context
  \/ /\ (p \in context) = (q \in context)
     /\ \/ Priority(p) > Priority(q)
        \/ /\ Priority(p) = Priority(q)
           /\ \/ Timing(i, p) < Timing(i, q)
              \/ Timing(i, p) = Timing(i, q) /\ AnsweredAt(p) > AnsweredAt(q)

Ambiguous(i, av) == \E p, q \in av : /\ p # q /\ Timing(i, q) <= Timing(i, p) + Near
                                     /\ \A r \in av : Timing(i, p) <= Timing(i, r)

(* Near one another in time, the pairs whose answer resembles the code go first. *)
Best(i, av) ==
  (UNION {{p \in av : \A q \in av : ~Better(i, q, p, context)} : context \in SUBSET av})
  \cup (IF Ambiguous(i, av) THEN av ELSE {})

Finish(i, match) ==
  /\ insertion' = [insertion EXCEPT ![i].stage = "done", ![i].match = match]
  /\ queue' = [queue EXCEPT ![DocOf[i]] = Tail(@)]

(* correlateInsertionWithProxyRequest: one step, it has no await of its own *)
Correlate(i) ==
  /\ insertion[i].stage = "waiting"
  /\ LET fresh == FreshClaims(claims)
         cand == Candidates(i)
         av == cand \ Claimed(fresh)
         seen == Touched(fresh, cand)
     IN  /\ pair' = Pruned(pair)
         /\ IF av = {}
            THEN Finish(i, {}) /\ claims' = seen /\ UNCHANGED evicted
            ELSE \E p \in Best(i, av) :
                   LET all == Append(seen, [pair |-> p, at |-> now])
                       n == IF Len(all) > MaxClaims THEN Len(all) - MaxClaims ELSE 0
                   IN  /\ Finish(i, {p})
                       /\ claims' = SubSeq(all, n + 1, Len(all))
                       /\ evicted' = evicted \cup Claimed(SubSeq(all, 1, n))
  /\ UNCHANGED <<now, counted, late>>

(* no local proxy: nothing to match with *)
CorrelateAlone(i) ==
  /\ insertion[i].stage = "waiting"
  /\ \A p \in Pairs : pair[p].stage = "none"
  /\ Finish(i, {})
  /\ UNCHANGED <<sideVars, claims, late, evicted>>

(* syncLocalProxy, stopLocalProxy: pairs and claims go together *)
Stop ==
  /\ pair' = [p \in Pairs |-> [pair[p] EXCEPT !.stored = FALSE,
                                             !.stage = IF @ = "none" THEN "none" ELSE "done"]]
  /\ claims' = <<>>
  /\ UNCHANGED <<now, counted, insertion, queue, late, evicted>>

Matched(p) == \E i \in Insertions : p \in insertion[i].match
Capture == /\ SidecarNext
           /\ late' = late \cup {p \in Pairs : Matched(p) /\ pair'[p].answer # pair[p].answer}
           /\ UNCHANGED corrVars

Next == \/ \E i \in Insertions : Insert(i) \/ Begin(i) \/ Correlate(i) \/ CorrelateAlone(i)
        \/ Stop \/ Capture

Spec == Init /\ [][Next]_vars

-----------------------------------------------------------------------------
TypeOK == /\ \A p \in Pairs : pair[p].status \in Statuses /\ pair[p].updated <= now
          /\ Len(claims) <= MaxClaims /\ \A c \in Range(claims) : c.at <= now
          /\ \A d \in Docs : Range(queue[d]) \subseteq Insertions
          /\ Report.observed >= Report.captured

\* A request is the origin of one insertion only, although claims are forgotten:
\* the pair is gone before its claim is.  The exceptions are a pair whose answer
\* came after it had been claimed, and a claim evicted by the cap.
ClaimedOnce ==
  \A i, j \in Insertions, p \in Pairs :
    i # j /\ p \in insertion[i].match \cap insertion[j].match => p \in late \cup evicted
=============================================================================
