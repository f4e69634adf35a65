-------------------------------- MODULE Witness --------------------------------
(***************************************************************************)
(* Witness rounds: the record hashes of a workspace are read, their Merkle  *)
(* root is published to each configured backend in turn, and the receipts   *)
(* are committed together.  Records arrive meanwhile, a round may end       *)
(* between an anchor and its receipt, and whoever owns the database may     *)
(* rewrite a record with the hashes that follow.                            *)
(***************************************************************************)
EXTENDS Naturals, Sequences, FiniteSets, SequencesExt

CONSTANTS
  Hashes,     \* hashes a record may have, in the order of their text
  Rounds,     \* rounds, each run once
  Backends,   \* the witness backends, in the order they are tried
  Configured  \* those the settings name

VARIABLES
  stored,     \* hashes of the records now
  round,      \* what each round has read and collected
  anchored,   \* roots held by the backends, outside the database
  receipts,   \* committed receipts
  rewritten   \* hashes that were taken out of the database

vars == <<stored, round, anchored, receipts, rewritten>>

\* a level of the tree: an odd node at the end is paired with itself
Level(s) == [i \in 1..((Len(s) + 1) \div 2) |->
               <<s[2 * i - 1], s[IF 2 * i <= Len(s) THEN 2 * i ELSE 2 * i - 1]>>]

\* the levels above s, up to the one that has a single node
Fold(s) == LET L[n \in 0..Len(s)] ==
                 IF n = 0 THEN s ELSE IF Len(L[n - 1]) = 1 THEN L[n - 1] ELSE Level(L[n - 1])
           IN L[Len(s)][1]

InOrder(S) == CHOOSE s \in [1..Cardinality(S) -> S] :
  {s[i] : i \in DOMAIN s} = S /\ \A i, j \in DOMAIN s : i < j => s[i] < s[j]

\* compute_periodic_root over the sorted hashes, as a term: a leaf is a tuple of one
Root(S) == IF S = {} THEN <<>> ELSE Fold([i \in 1..Cardinality(S) |-> <<InOrder(S)[i]>>])

Waiting == [pc |-> "start", set |-> {}, root |-> <<>>, todo |-> <<>>, collected |-> <<>>]

Init == /\ stored \in {{}, {CHOOSE h \in Hashes : TRUE}}
        /\ round = [k \in Rounds |-> Waiting]
        /\ anchored = {} /\ receipts = {} /\ rewritten = {}

\* _current_root: the hashes of this moment
ReadRoot(k) ==
  /\ round[k].pc = "start"
  /\ round' = [round EXCEPT ![k] = [pc |-> "publish", set |-> stored, root |-> Root(stored),
                                    todo |-> Backends, collected |-> <<>>]]
  /\ UNCHANGED <<stored, anchored, receipts, rewritten>>

Collect(k, status) ==
  round' = [round EXCEPT ![k].todo = Tail(@),
                         ![k].collected = Append(@, [backend |-> Head(round[k].todo), status |-> status])]

\* publish of one backend: not configured, failed, or anchored; a backend that fails keeps
\* no other from being asked, and an anchor may also stand where the answer was lost
Publish(k) ==
  LET b == Head(round[k].todo) IN
  /\ round[k].pc = "publish" /\ round[k].todo # <<>>
  /\ \/ b \notin Configured /\ Collect(k, "not_configured") /\ UNCHANGED anchored
     \/ b \in Configured /\ Collect(k, "failed") /\ UNCHANGED anchored
     \/ b \in Configured /\ Collect(k, "failed") /\ anchored' = anchored \cup {<<b, round[k].root>>}
     \/ b \in Configured /\ Collect(k, "witnessed") /\ anchored' = anchored \cup {<<b, round[k].root>>}
  /\ UNCHANGED <<stored, receipts, rewritten>>

\* the receipts of all backends and the audit row
Commit(k) ==
  /\ round[k].pc = "publish" /\ round[k].todo = <<>>
  /\ receipts' = receipts \cup {[root |-> round[k].root, set |-> round[k].set,
                                 backend |-> c.backend, status |-> c.status] : c \in Range(round[k].collected)}
  /\ round' = [round EXCEPT ![k] = [Waiting EXCEPT !.pc = "done"]]
  /\ UNCHANGED <<stored, anchored, rewritten>>

\* the server stops, or the commit fails: what was anchored stays without a receipt
Lost(k) == /\ round[k].pc = "publish"
           /\ round' = [round EXCEPT ![k] = [Waiting EXCEPT !.pc = "done"]]
           /\ UNCHANGED <<stored, anchored, receipts, rewritten>>

\* a record is ingested
Ingest == \E h \in Hashes \ (stored \cup rewritten) :
  /\ stored' = stored \cup {h}
  /\ UNCHANGED <<round, anchored, receipts, rewritten>>

\* the owner of the database rewrites a record: its hash is another one
Rewrite == \E g \in stored : \E h \in Hashes \ (stored \cup rewritten) :
  /\ stored' = (stored \ {g}) \cup {h}
  /\ rewritten' = rewritten \cup {g}
  /\ UNCHANGED <<round, anchored, receipts>>

Next == \/ \E k \in Rounds : ReadRoot(k) \/ Publish(k) \/ Commit(k) \/ Lost(k)
        \/ Ingest \/ Rewrite

Spec == Init /\ [][Next]_vars

-------------------------------------------------------------------------------
TypeOK == /\ stored \subseteq Hashes /\ stored \cap rewritten = {}
          /\ \A r \in receipts : r.backend \in Range(Backends) /\ r.set \subseteq Hashes
          /\ \A k \in Rounds : round[k].pc \in {"start", "publish", "done"}

\* "a DBA would also have to rewrite that external record" (witness_service.py:8-9): a
\* witnessed receipt has its root in the hands of the backend, every backend has a receipt
\* of the round, and once a record the root covers is rewritten no set of the hashes that
\* are left has that root.
RewriteShows ==
  \A r \in receipts :
    /\ r.status = "witnessed" => <<r.backend, r.root>> \in anchored
    /\ {x.backend : x \in {y \in receipts : y.root = r.root}} = Range(Backends)
    /\ r.set \cap rewritten # {} => \A S \in SUBSET stored : Root(S) # r.root
===============================================================================
