--------------------------------- MODULE Recall ---------------------------------
(***************************************************************************)
(* Recall campaigns: a campaign freezes the records that match its criteria *)
(* and their descendants, flags the former, quarantines both, and clears    *)
(* what carries its number.  Campaigns overlap, records arrive meanwhile,   *)
(* and the lineage graph may be absent, fail, or hold more descendants than *)
(* a query returns.                                                         *)
(***************************************************************************)
EXTENDS Naturals, FiniteSets, FiniteSetsExt, Functions

CONSTANTS
  Records,    \* records that may be stored
  Campaigns,  \* campaigns
  Parent,     \* record a record evolved from, or itself
  Cap,        \* _MAX_BLAST_RADIUS_RESULTS
  Limit       \* limit of the search for matching records

VARIABLES
  stored,     \* records in the database, and in the graph
  graph,      \* "up", "none" when it is not configured, or "down"
  mark,       \* quarantine_status and quarantine_recall_id of the records
  campaign,   \* campaign rows
  handler     \* what the handlers of a campaign still have to write

vars == <<stored, graph, mark, campaign, handler>>

NoCampaign == [status |-> "none", members |-> {}, blast |-> {}, coverage |-> "unavailable"]

Init == /\ stored \in SUBSET Records
        /\ graph \in {"up", "none", "down"}
        /\ mark = [r \in Records |-> [status |-> "active", by |-> "none"]]
        /\ campaign = [c \in Campaigns |-> NoCampaign]
        /\ handler = [c \in Campaigns |-> {}]

\* versions that evolved from the seeds in some steps
Closure(S) == LET C[n \in 0..Cardinality(Records)] ==
                    IF n = 0 THEN S ELSE C[n - 1] \cup {r \in stored : Parent[r] \in C[n - 1]}
              IN C[Cardinality(Records)]

Descendants(S) == Closure(S) \ S

-------------------------------------------------------------------------------
\* mutant: a graph that fails looks like one without descendants
BlastSilent(seeds) ==
  CASE graph = "none" -> {[blast |-> {}, coverage |-> "unavailable"]}
    [] graph = "down" -> {[blast |-> {}, coverage |-> "checked_empty"]}
    [] graph = "up" -> {[blast |-> B, coverage |-> IF B = {} THEN "checked_empty" ELSE "checked"] :
                          B \in {Descendants(seeds)}}

\* compute_blast_radius as create_recall calls it: a configured graph is not asked when
\* nothing matched, and without a session one that fails counts as absent; a result above
\* the cap is cut and partial
Blast(seeds) ==
  LET all == Descendants(seeds)
      asked == graph = "up" \/ (graph = "down" /\ seeds = {}) IN
  CASE ~asked -> {[blast |-> {}, coverage |-> "unavailable"]}
    [] asked /\ Cardinality(all) > Cap ->
         {[blast |-> B, coverage |-> "blast_radius_partial"] : B \in kSubset(Cap, all)}
    [] OTHER ->
         {[blast |-> all, coverage |-> IF all = {} THEN "checked_empty" ELSE "checked"]}

\* mutant: one record more than the limit, as where truncation is to be noticed
MatchesMore == {S \in SUBSET stored : Cardinality(S) <= Limit + 1}

\* find_affected_records: the newest that match, up to the limit
Matches == {S \in SUBSET stored : Cardinality(S) <= Limit}

\* open_recall commits the campaign with its frozen sets
Open(c) ==
  /\ campaign[c] = NoCampaign
  /\ \E S \in Matches : \E b \in Blast(S) :
       /\ campaign' = [campaign EXCEPT ![c] = [status |-> "open", members |-> S,
                                              blast |-> b.blast, coverage |-> b.coverage]]
       /\ handler' = [handler EXCEPT ![c] = IF S = {} THEN {} ELSE {"flag"}]
  /\ UNCHANGED <<stored, graph, mark>>

Marked(S, status, c) ==
  mark' = [r \in Records |-> IF r \in S THEN [status |-> status, by |-> c] ELSE mark[r]]

\* _flag_records: a transaction of its own, whatever the records were before
Flag(c) ==
  /\ "flag" \in handler[c]
  /\ Marked(campaign[c].members \cap stored, "flagged", c)
  /\ handler' = [handler EXCEPT ![c] = @ \ {"flag"}]
  /\ UNCHANGED <<stored, graph, campaign>>

\* the process stops, or the flagging fails: the campaign is open with nothing flagged
Interrupt(c) ==
  /\ handler[c] # {}
  /\ handler' = [handler EXCEPT ![c] = {}]
  /\ UNCHANGED <<stored, graph, mark, campaign>>

\* quarantine_campaign reads that the campaign is open
QuarantineBegin(c) ==
  /\ campaign[c].status = "open" /\ "quarantine" \notin handler[c]
  /\ handler' = [handler EXCEPT ![c] = @ \cup {"quarantine"}]
  /\ UNCHANGED <<stored, graph, mark, campaign>>

\* quarantine_records: the frozen sets, also when the campaign was closed meanwhile
Quarantine(c) ==
  /\ "quarantine" \in handler[c]
  /\ Marked((campaign[c].members \cup campaign[c].blast) \cap stored, "quarantined", c)
  /\ handler' = [handler EXCEPT ![c] = @ \ {"quarantine"}]
  /\ UNCHANGED <<stored, graph, campaign>>

\* clear_records: what carries the number of the campaign, open or closed
Clear(c) ==
  /\ campaign[c].status # "none"
  /\ mark' = [r \in Records |-> IF mark[r].by = c THEN [mark[r] EXCEPT !.status = "cleared"]
                                ELSE mark[r]]
  /\ UNCHANGED <<stored, graph, campaign, handler>>

\* close_recall: the records stay as they are
Close(c) ==
  /\ campaign[c].status = "open"
  /\ campaign' = [campaign EXCEPT ![c].status = "closed"]
  /\ UNCHANGED <<stored, graph, mark, handler>>

\* a record is ingested
Ingest(r) ==
  /\ r \notin stored /\ stored' = stored \cup {r}
  /\ UNCHANGED <<graph, mark, campaign, handler>>

GraphChanges ==
  /\ graph # "none" /\ graph' \in {"up", "down"} \ {graph}
  /\ UNCHANGED <<stored, mark, campaign, handler>>

Next == \/ \E c \in Campaigns : \/ Open(c) \/ Flag(c) \/ Interrupt(c) \/ QuarantineBegin(c)
                                \/ Quarantine(c) \/ Clear(c) \/ Close(c)
        \/ \E r \in Records : Ingest(r)
        \/ GraphChanges

Spec == Init /\ [][Next]_vars

-------------------------------------------------------------------------------
\* Type invariant.
TypeOK == /\ \A r \in Records : mark[r].by \in Campaigns \cup {"none"}
          /\ \A c \in Campaigns : Cardinality(campaign[c].members) <= Limit
                                  /\ Cardinality(campaign[c].blast) <= Cap

\* A campaign acts on the sets it froze: whatever is ingested later, a record that
\* carries its number was a member or a descendant when it was opened.
FrozenScope ==
  \A r \in Records : mark[r].by # "none" =>
    r \in campaign[mark[r].by].members \cup campaign[mark[r].by].blast

\* A graph that does not answer never reads as "no descendants": a campaign says "checked"
\* only if its blast set is all of the descendants its members have in the graph.
BlastHonest ==
  [][\A c \in Campaigns :
       campaign[c] = NoCampaign /\ campaign'[c].coverage \in {"checked", "checked_empty"} =>
         campaign'[c].blast = Descendants(campaign'[c].members)]_vars

\* A record leaves quarantine only with all others of its campaign, which is cleared, or
\* because a campaign it is a member of flags it.
QuarantineHolds ==
  [][\A r \in Records : mark[r].status = "quarantined" /\ mark'[r].status # "quarantined" =>
       \/ \A s \in Records : mark[s].by = mark[r].by => mark'[s] = [mark[s] EXCEPT !.status = "cleared"]
       \/ mark'[r].status = "flagged" /\ r \in campaign[mark'[r].by].members]_vars
===============================================================================
