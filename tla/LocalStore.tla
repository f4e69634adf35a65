----------------------------- MODULE LocalStore -----------------------------
(* The capture store of the editor extension (store.ts) with its local hash    *)
(* chain (hashChain.ts) and the review of captures (reviewState.ts).  records  *)
(* is kept newest first and saved through one chain of asynchronous writes; a  *)
(* window that closes saves once more, synchronously, into the same temporary  *)
(* file.  A hash is the tuple of what it covers, so equal hashes cover equal   *)
(* contents.                                                                   *)
EXTENDS Naturals, Sequences, FiniteSets, Functions, Filters

CONSTANTS
  MaxId,       \* captures that are added
  Limit,       \* maxStoredCaptures
  Reviews,     \* review states used (of REVIEW_TRANSITIONS)
  MaxChanges   \* bound on the operations that are not captures

VARIABLES
  records,    \* CaptureRecords in memory, newest first
  disk,       \* captures.json: its text parses, and the records of it
  timer,      \* a debounced save is pending
  saves,      \* saves waiting on _pendingWrite
  writing,    \* the records being written by _saveAsync: none or one snapshot
  open,       \* the window is open
  nextId, changes,
  edited      \* ids whose stored body someone changed in the file

vars == <<records, disk, timer, saves, writing, open, nextId, changes, edited>>

Genesis == <<"genesis">>
Unsealed == <<>>
(* mutant: the review is covered too *)
EventHashReviewed(r, prev) == <<r.id, r.body, r.review, prev>>

(* chainCore and eventHashFor: the body, not the review, the source or the place *)
EventHash(r, prev) == <<r.id, r.body, prev>>

IdsOf(s) == {r.id : r \in Range(s)}
At(s, i) == CHOOSE k \in DOMAIN s : s[k].id = i
(* an edited body never equals the captured one *)
Captured(i) == [id |-> i, body |-> "captured", review |-> "unreviewed", source |-> "ai",
                prev |-> Genesis, hash |-> Unsealed]

(* a store written before the chain existed holds one capture without a hash *)
Init == /\ records = <<>> /\ timer = FALSE /\ saves = 0 /\ writing = <<>> /\ open = FALSE
        /\ nextId = 2 /\ changes = 0 /\ edited = {}
        /\ disk \in {[good |-> TRUE, recs |-> <<>>], [good |-> TRUE, recs |-> <<Captured(1)>>]}

Seal(r, prev) == IF r.hash = Unsealed THEN [r EXCEPT !.prev = prev, !.hash = EventHash(r, prev)] ELSE r

(* what the next capture is linked to *)
Newest(list) == IF list = <<>> THEN Genesis ELSE list[1].hash

(* sealMissing: oldest first, a sealed record is the link of the next *)
Sealed(s) ==
  LET Z[k \in 0..Len(s)] == IF k = 0 THEN <<>>
                            ELSE <<Seal(s[Len(s) + 1 - k], Newest(Z[k - 1]))>> \o Z[k - 1]
  IN  Z[Len(s)]

(* load: what cannot be read is set aside and the store starts empty *)
Open ==
  /\ ~open
  /\ open' = TRUE
  /\ \/ /\ disk.good
        /\ records' = Sealed(disk.recs)
        /\ saves' = IF records' # disk.recs THEN 1 ELSE 0
        /\ UNCHANGED disk
     \/ /\ ~disk.good
        /\ records' = <<>> /\ saves' = 0
        /\ disk' = [good |-> TRUE, recs |-> <<>>]
  /\ UNCHANGED <<timer, writing, nextId, changes, edited>>

(* the capture linked to the newest one, in front of the list, which is cut to length *)
WithCapture(list, length) ==
  LET all == <<Seal(Captured(nextId), Newest(list))>> \o list
  IN  SubSeq(all, 1, IF Len(all) > length THEN length ELSE Len(all))

(* mutant: one capture more than the limit is kept *)
AddUntrimmed ==
  /\ open /\ nextId <= MaxId
  /\ records' = WithCapture(records, Limit + 1)
  /\ timer' = TRUE /\ nextId' = nextId + 1
  /\ UNCHANGED <<disk, saves, writing, open, changes, edited>>

Add ==
  /\ open /\ nextId <= MaxId
  /\ records' = WithCapture(records, Limit)
  /\ timer' = TRUE /\ nextId' = nextId + 1
  /\ UNCHANGED <<disk, saves, writing, open, changes, edited>>

(* An operation of the user on the list: a new list, saved at once *)
Edit(list) ==
  /\ open /\ changes < MaxChanges
  /\ changes' = changes + 1
  /\ records' = list
  /\ saves' = saves + 1
  /\ UNCHANGED <<disk, timer, writing, open, nextId, edited>>

(* the dragged captures, in the order they were named, go between the others before the place and after *)
Reorder ==
  \E dragged \in SUBSET Range(records) \ {{}}, place \in 0..Len(records) :
    LET Rest(s) == Kept(s, Range(records) \ dragged)
    IN  \E moved \in Injection(1..Cardinality(dragged), dragged) :
          Edit(Rest(SubSeq(records, 1, place)) \o moved \o Rest(SubSeq(records, place + 1, Len(records))))

RemoveCapture == \E i \in IdsOf(records) : Edit(Kept(records, {r \in Range(records) : r.id # i}))
Clear == Edit(<<>>)
SetClassification ==
  \E i \in IdsOf(records), s \in {"ai", "paste"} : Edit([records EXCEPT ![At(records, i)].source = s])

Transitions ==
  [unreviewed |-> {"reviewed", "needs_changes", "rejected"},
   needs_changes |-> {"reviewed", "rejected", "unreviewed"},
   reviewed |-> {"accepted", "needs_changes", "unreviewed"},
   accepted |-> {"needs_changes", "unreviewed"},
   rejected |-> {"unreviewed", "needs_changes"}]
SetReviewState ==
  \E i \in IdsOf(records), to \in Reviews :
    /\ to \in Transitions[records[At(records, i)].review]
    /\ Edit([records EXCEPT ![At(records, i)].review = to])

(* the 500 ms of saveDebounced are over, or flush does not wait for them *)
TimerFires ==
  /\ open /\ timer
  /\ timer' = FALSE /\ saves' = saves + 1
  /\ UNCHANGED <<records, disk, writing, open, nextId, changes, edited>>

WriteStarts ==
  /\ open /\ saves > 0 /\ writing = <<>>
  /\ saves' = saves - 1 /\ writing' = <<records>>
  /\ UNCHANGED <<records, disk, timer, open, nextId, changes, edited>>

(* rename of the temporary file; a write that fails is dropped *)
WriteEnds ==
  /\ open /\ writing # <<>>
  /\ writing' = <<>>
  /\ disk' \in {disk, [good |-> TRUE, recs |-> writing[1]]}
  /\ UNCHANGED <<records, timer, saves, open, nextId, changes, edited>>

(* The window closes.  dispose writes only when a debounced save is pending.  An
   asynchronous write under way has the same temporary file open: it may end
   before, put its older records in place afterwards, or leave a mixture. *)
Close ==
  /\ open
  /\ open' = FALSE /\ records' = <<>> /\ timer' = FALSE /\ saves' = 0 /\ writing' = <<>>
  /\ disk' \in (IF timer THEN {[good |-> TRUE, recs |-> records]} ELSE {disk})
               \cup (IF writing = <<>> THEN {} ELSE {disk, [good |-> TRUE, recs |-> writing[1]]})
               \cup (IF timer /\ writing # <<>> THEN {[good |-> FALSE, recs |-> records]} ELSE {})
  /\ UNCHANGED <<nextId, changes, edited>>

(* someone changes the body of a sealed capture in the file *)
EditFile ==
  /\ ~open /\ disk.good /\ changes < MaxChanges
  /\ \E k \in DOMAIN disk.recs :
       /\ disk.recs[k].hash # Unsealed
       /\ disk' = [disk EXCEPT !.recs[k].body = "edited"]
       /\ edited' = edited \cup {disk.recs[k].id}
  /\ changes' = changes + 1
  /\ UNCHANGED <<records, timer, saves, writing, open, nextId>>

Next == \/ Open \/ Add \/ Reorder \/ RemoveCapture \/ Clear \/ SetClassification \/ SetReviewState
        \/ TimerFires \/ WriteStarts \/ WriteEnds \/ Close \/ EditFile

Spec == Init /\ [][Next]_vars

-----------------------------------------------------------------------------
(* verifyChain *)
Tampered == {r.id : r \in {x \in Range(records) : x.hash # EventHash(x, x.prev)}}
Broken == {r.id : r \in {x \in Range(records) : x.prev # Genesis /\ \A y \in Range(records) : y.hash # x.prev}}

TypeOK ==
  /\ timer \in BOOLEAN /\ open \in BOOLEAN /\ saves \in Nat
  /\ Len(records) <= Limit /\ Len(writing) <= 1
  /\ IsInjective([k \in DOMAIN records |-> records[k].id])

\* The verifier names exactly the captures that were changed in the file, and
\* reports a break exactly where the capture a record is linked to is gone,
\* however the list was reordered, reviewed, thinned out, lost or reloaded.
VerdictExact ==
  /\ Tampered = edited \cap IdsOf(records)
  /\ Broken = {r.id : r \in {x \in Range(records) : x.prev # Genesis /\ x.prev[1] \notin IdsOf(records)}}
=============================================================================
