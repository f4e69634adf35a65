-------------------------- MODULE MCGovernance_proofs --------------------------
(* Proofs about what governs the records and is shown of them, for every number  *)
(* of requests, records, campaigns, reports, reviews and exports.               *)
EXTENDS MCGovernance, FiniteSetTheorems, SequenceFacts, TLAPS

-------------------------------------------------------------------------------
(* Policies.  The versions are numbered without gap or double up to the one the  *)
(* row points to; as long as no updates overlapped, an open transaction holds   *)
(* the row that is committed.                                                  *)

Columned == [config : Values \cup {0}, action : Values \cup {0}, enabled : BOOLEAN, archived : BOOLEAN, current : Nat]
Versioned == [version : Nat, config : Values \cup {0}, action : Values \cup {0}, enabled : BOOLEAN, superseded : BOOLEAN]
Transacted == [pc : {"loaded", "flushed", "selected"}, old : Columned, new : Columned, prev : Nat, lock : BOOLEAN]

PolicyTyped ==
  /\ porow \in Columned /\ poversions \in SUBSET Versioned /\ pooverlaps \in BOOLEAN
  /\ potx \in [Workers -> Transacted \cup {NoTx}]

\* numbered from 1 to n, each number once
NumberedTo(V, n) ==
  /\ \A v \in V : v.version \in 1..n
  /\ \A i \in 1..n : \E v \in V : v.version = i
  /\ \A u, v \in V : u.version = v.version => u = v

PolicyNumbered ==
  /\ NumberedTo(poversions, porow.current)
  /\ \A v \in poversions : v.superseded <=> v.version < porow.current

PrevIsOld == \A w \in Workers : potx[w] # NoTx /\ potx[w].pc = "selected" => potx[w].prev <= porow.current

RowLoaded == ~pooverlaps => \A w \in Workers : potx[w] # NoTx => potx[w].old = porow

PolicyInv == PolicyTyped /\ PolicyNumbered /\ PrevIsOld /\ RowLoaded /\ Policy!VersionInForce

LEMMA NumberedCount ==
  ASSUME NEW V, NEW n \in Nat, NumberedTo(V, n)
  PROVE  IsFiniteSet(V) /\ Cardinality(V) = n
<1>1. PICK f : f = [i \in 1..n |-> CHOOSE v \in V : v.version = i]
  OBVIOUS
<1>2. \A i \in 1..n : f[i] \in V /\ f[i].version = i
  BY <1>1 DEF NumberedTo
<1>3. f \in [1..n -> V]
  BY <1>1, <1>2
<1>4. \A i, j \in 1..n : f[i] = f[j] => i = j
  BY <1>2
<1>5. \A v \in V : \E i \in 1..n : f[i] = v
  <2> SUFFICES ASSUME NEW v \in V PROVE \E i \in 1..n : f[i] = v
    OBVIOUS
  <2>1. v.version \in 1..n
    BY DEF NumberedTo
  <2> QED
    BY <1>2, <2>1 DEF NumberedTo
<1>6. f \in Bijection(1..n, V)
  BY <1>3, <1>4, <1>5 DEF Bijection, Injection, IsInjective, Surjection
<1>7. IsFiniteSet(1..n) /\ Cardinality(1..n) = n
  BY FS_Interval
<1> QED
  BY <1>6, <1>7, FS_Bijection DEF ExistsBijection

LEMMA PolicyInit == Policy!Init => PolicyInv
<1> SUFFICES ASSUME Policy!Init PROVE PolicyInv
  OBVIOUS
<1>1. /\ porow = [config |-> 0, action |-> 0, enabled |-> FALSE, archived |-> FALSE, current |-> 0]
      /\ poversions = {} /\ pooverlaps = FALSE /\ potx = [w \in Workers |-> NoTx]
  BY DEF Policy!Init, Policy!Absent
<1>2. PolicyTyped
  BY <1>1 DEF PolicyTyped, Columned
<1>3. porow.current = 0
  BY <1>1
<1>4. PolicyNumbered
  BY <1>1, <1>3 DEF PolicyNumbered, NumberedTo
<1>5. PrevIsOld /\ RowLoaded /\ Policy!VersionInForce
  BY <1>1 DEF PrevIsOld, RowLoaded, Policy!VersionInForce, Policy!Open
<1> QED
  BY <1>2, <1>4, <1>5 DEF PolicyInv

\* a transaction begins, goes on or ends, and nothing is committed
LEMMA PolicyQuiet ==
  ASSUME PolicyInv, UNCHANGED <<porow, poversions, pooverlaps>>,
         NEW w \in Workers, NEW t \in Transacted \cup {NoTx}, potx' = [potx EXCEPT ![w] = t],
         t # NoTx => /\ t.old = porow \/ (potx[w] # NoTx /\ t.old = potx[w].old)
                     /\ t.pc = "selected" => t.prev <= porow.current
  PROVE  PolicyInv'
<1>1. PolicyTyped'
  BY DEF PolicyInv, PolicyTyped
<1>2. \A v \in Workers : potx'[v] = IF v = w THEN t ELSE potx[v]
  BY DEF PolicyInv, PolicyTyped
<1>3. PrevIsOld' /\ RowLoaded'
  BY <1>2 DEF PolicyInv, PrevIsOld, RowLoaded
<1>4. PolicyNumbered' /\ Policy!VersionInForce'
  BY DEF PolicyInv, PolicyNumbered, Policy!VersionInForce, Policy!Open, Policy!SameText
<1> QED
  BY <1>1, <1>3, <1>4 DEF PolicyInv

LEMMA PolicyBegin ==
  ASSUME PolicyInv, NEW w \in Workers, NEW change, Policy!Begin(w, change),
         \A c \in DOMAIN change : /\ c \in {"config", "action"} => change[c] \in Values
                                  /\ c \in {"enabled", "archived"} => change[c] \in BOOLEAN
                                  /\ c # "current"
  PROVE  PolicyInv'
<1>1. PICK row \in Columned : row = porow
  BY DEF PolicyInv, PolicyTyped
<1>2. PICK new : new = [c \in DOMAIN row |-> IF c \in DOMAIN change THEN change[c] ELSE row[c]]
  OBVIOUS
<1>3. DOMAIN row = {"config", "action", "enabled", "archived", "current"}
  BY DEF Columned
<1>4. new \in Columned
  BY <1>2, <1>3 DEF Columned
<1>5. PICK t : t = [pc |-> "loaded", old |-> row, new |-> new, prev |-> 0, lock |-> FALSE]
  OBVIOUS
<1>6. t \in Transacted /\ t.old = porow /\ t.pc # "selected"
  BY <1>1, <1>4, <1>5 DEF Transacted
<1>7. potx' = [potx EXCEPT ![w] = t] /\ UNCHANGED <<porow, poversions, pooverlaps>>
  BY <1>1, <1>2, <1>5 DEF Policy!Begin
<1> QED
  BY <1>6, <1>7, PolicyQuiet

\* only the last version is open
LEMMA LastIsOpen ==
  ASSUME PolicyInv, NEW v \in Policy!Open
  PROVE  v \in poversions /\ v.version = porow.current
  BY DEF PolicyInv, PolicyTyped, PolicyNumbered, NumberedTo, Policy!Open, Versioned, Columned

LEMMA PolicyCommit ==
  ASSUME PolicyInv, NEW w \in Workers, Policy!Commit(w)
  PROVE  PolicyInv'
<1>1. PICK t \in Transacted : t = potx[w] /\ t.pc = "selected" /\ t # NoTx
  BY DEF PolicyInv, PolicyTyped, Policy!Commit
<1>2. PICK n \in Nat : n = porow.current
  BY DEF PolicyInv, PolicyTyped, Columned
<1>3. t.prev = n
  <2>1. t.prev \in Nat /\ t.prev <= n
    BY <1>1, <1>2 DEF PolicyInv, PrevIsOld, Transacted
  <2>2. t.prev + 1 \notin 1..n
    BY <1>1, <1>2 DEF Policy!Commit, PolicyInv, PolicyNumbered, NumberedTo
  <2> QED
    BY <2>1, <2>2
<1>4. PICK snap : snap = Policy!Snapshot(t)
  OBVIOUS
<1>5. /\ snap \in Versioned /\ snap.version = n + 1 /\ ~snap.superseded
      /\ snap.config = t.new.config /\ snap.action = t.new.action /\ snap.enabled = t.new.enabled
  BY <1>1, <1>3, <1>4 DEF Policy!Snapshot, Versioned, Transacted, Columned
<1>6. PICK old : old = Policy!Supersede(t)
  OBVIOUS
<1>7. /\ \A v \in poversions : \E u \in old : u.version = v.version
      /\ \A u \in old : u \in Versioned /\ u.version \in 1..n /\ u.superseded
      /\ \A u, v \in old : u.version = v.version => u = v
  <2> DEFINE Late(v) == [v EXCEPT !.superseded = @ \/ v.version = t.prev]
  <2>1. ASSUME NEW v \in poversions
        PROVE  Late(v) \in Versioned /\ Late(v).version = v.version /\ v.version \in 1..n /\ Late(v).superseded
    <3>1. v \in Versioned /\ v.version \in 1..n /\ (v.superseded <=> v.version < n)
      BY <1>2 DEF PolicyInv, PolicyTyped, PolicyNumbered, NumberedTo
    <3>2. PICK s : s = (v.superseded \/ v.version = t.prev)
      OBVIOUS
    <3>6. v.superseded \/ v.version = t.prev
      BY <1>2, <1>3, <3>1
    <3>3. s \in BOOLEAN /\ s
      <4>1. CASE v.superseded
        BY <3>1, <3>2, <4>1 DEF Versioned
      <4>2. CASE v.version = t.prev
        BY <3>1, <3>2, <4>2 DEF Versioned
      <4> QED
        BY <3>6, <4>1, <4>2
    <3>4. PICK u : u = [v EXCEPT !.superseded = s]
      OBVIOUS
    <3>5. u \in Versioned /\ u.version = v.version /\ u.superseded = s
      BY <3>1, <3>3, <3>4 DEF Versioned
    <3> QED
      BY <3>1, <3>2, <3>3, <3>4, <3>5
  <2>2. old = {Late(v) : v \in poversions}
    BY <1>6 DEF Policy!Supersede
  <2>3. \A u, v \in poversions : u.version = v.version => u = v
    BY DEF PolicyInv, PolicyNumbered, NumberedTo
  <2> HIDE DEF Late
  <2> QED
    BY <2>1, <2>2, <2>3
<1>8. PICK row : row = [c \in DOMAIN porow |-> CASE c = "current" -> t.prev + 1
                                     [] c \in Policy!Dirty(t) -> t.new[c]
                                     [] c \notin Policy!Dirty(t) \cup {"current"} -> porow[c]]
  OBVIOUS
<1>9. /\ row \in Columned /\ row.current = n + 1
      /\ t.old = porow => row.config = t.new.config /\ row.action = t.new.action /\ row.enabled = t.new.enabled
  <2>1. porow \in Columned /\ t.new \in Columned
    BY <1>1 DEF PolicyInv, PolicyTyped, Transacted
  <2>2. DOMAIN porow = {"config", "action", "enabled", "archived", "current"}
    BY <2>1 DEF Columned
  <2>3. row.current = n + 1
    <3>1. row["current"] = CASE "current" = "current" -> t.prev + 1
                             [] "current" \in Policy!Dirty(t) -> t.new["current"]
                             [] "current" \notin Policy!Dirty(t) \cup {"current"} -> porow["current"]
      BY <1>8, <2>2
    <3>2. "current" \notin Policy!Dirty(t)
      BY DEF Policy!Dirty, Policy!Columns
    <3> QED
      BY <1>3, <3>1, <3>2
  <2>4. ASSUME NEW c \in {"config", "action", "enabled", "archived"}
        PROVE  /\ row[c] = t.new[c] \/ row[c] = porow[c]
               /\ t.old = porow => row[c] = t.new[c]
    BY <1>8, <2>2 DEF Policy!Dirty, Policy!Columns
  <2>5. row \in Columned
    BY <1>8, <2>1, <2>2, <2>3, <2>4 DEF Columned
  <2> QED
    BY <2>3, <2>4, <2>5
<1>10. /\ poversions' = old \cup {snap} /\ porow' = row /\ potx' = [potx EXCEPT ![w] = NoTx]
       /\ pooverlaps' = (pooverlaps \/ Policy!Settled(w) # {})
  BY <1>1, <1>4, <1>6, <1>8 DEF Policy!Commit
<1>11. PolicyTyped'
  BY <1>5, <1>7, <1>9, <1>10 DEF PolicyInv, PolicyTyped
<1>12. PolicyNumbered'
  <2>1. NumberedTo(poversions, n) /\ \A v \in poversions : v.version \in 1..n
    BY <1>2 DEF PolicyInv, PolicyNumbered, NumberedTo
  <2>3. \A i \in 1..(n + 1) : \E v \in old \cup {snap} : v.version = i
    BY <1>5, <1>7, <2>1 DEF NumberedTo
  <2>5. NumberedTo(old \cup {snap}, n + 1)
    BY <1>5, <1>7, <2>3 DEF NumberedTo
  <2>6. ASSUME NEW v \in old \cup {snap} PROVE (v.superseded <=> v.version < n + 1)
    <3>1. CASE v \in old
      BY <1>7, <3>1
    <3>2. CASE v = snap
      BY <1>5, <3>2
    <3> QED
      BY <3>1, <3>2
  <2> QED
    BY <1>9, <1>10, <2>5, <2>6 DEF PolicyNumbered
<1>13. \A v \in Workers : v # w => potx'[v] = potx[v]
  BY <1>10 DEF PolicyInv, PolicyTyped
<1>14. potx'[w] = NoTx
  BY <1>10 DEF PolicyInv, PolicyTyped
<1>15. PrevIsOld'
  <2>1. \A v \in Workers : potx[v] # NoTx => potx[v] \in Transacted
    BY DEF PolicyInv, PolicyTyped
  <2>2. ASSUME NEW v \in Workers, potx'[v] # NoTx, potx'[v].pc = "selected" PROVE potx'[v].prev <= n + 1
    <3>1. v # w /\ potx'[v] = potx[v] /\ potx[v].prev \in Nat
      BY <1>13, <1>14, <2>1, <2>2 DEF Transacted
    <3>2. potx[v].prev <= n
      BY <1>2, <2>2, <3>1 DEF PolicyInv, PrevIsOld
    <3> QED
      BY <3>1, <3>2
  <2> QED
    BY <1>9, <1>10, <2>2 DEF PrevIsOld
<1>16. RowLoaded'
  BY <1>10, <1>13, <1>14 DEF RowLoaded, Policy!Settled
<1>17. Policy!VersionInForce'
  <2> SUFFICES ASSUME ~pooverlaps', NEW v \in Policy!Open' PROVE Policy!SameText(v)'
    BY DEF Policy!VersionInForce
  <2>1. v = snap
    BY <1>7, <1>10 DEF Policy!Open
  <2>2. t.old = porow
    BY <1>1, <1>10 DEF PolicyInv, RowLoaded
  <2> QED
    BY <1>5, <1>9, <1>10, <2>1, <2>2 DEF Policy!SameText
<1> QED
  BY <1>11, <1>12, <1>15, <1>16, <1>17 DEF PolicyInv

LEMMA PolicyStep == PolicyInv /\ [Policy!Next]_poVars => PolicyInv'
<1> SUFFICES ASSUME PolicyInv, [Policy!Next]_poVars PROVE PolicyInv'
  OBVIOUS
<1>1. ASSUME NEW w \in Workers, Policy!Create(w) PROVE PolicyInv'
  <2>1. PICK v \in Values, e \in BOOLEAN : Policy!Begin(w, [config |-> v, action |-> v, enabled |-> e])
    BY <1>1 DEF Policy!Create
  <2> QED
    BY <2>1, PolicyBegin
<1>2. ASSUME NEW w \in Workers, Policy!Update(w) PROVE PolicyInv'
  <2>1. PICK v \in Values, e \in BOOLEAN, C \in SUBSET {"config", "action", "enabled"} :
          Policy!Begin(w, [c \in C |-> IF c = "enabled" THEN e ELSE v])
    BY <1>2 DEF Policy!Update
  <2> QED
    BY <2>1, PolicyBegin
<1>3. ASSUME NEW w \in Workers, Policy!Archive(w) PROVE PolicyInv'
  <2>1. PICK change : change = [enabled |-> FALSE, archived |-> TRUE]
    OBVIOUS
  <2>2. Policy!Begin(w, change)
    BY <1>3, <2>1 DEF Policy!Archive
  <2>3. DOMAIN change = {"enabled", "archived"} /\ change["enabled"] = FALSE /\ change["archived"] = TRUE
    BY <2>1
  <2> QED
    BY <2>2, <2>3, PolicyBegin
<1>4. ASSUME NEW w \in Workers, Policy!Upsert(w) PROVE PolicyInv'
  <2>1. PICK v \in Values, e \in BOOLEAN : Policy!Begin(w, [config |-> v, action |-> v, enabled |-> e])
    BY <1>4 DEF Policy!Upsert
  <2> QED
    BY <2>1, PolicyBegin
<1>5. ASSUME NEW w \in Workers, Policy!Flush(w) \/ Policy!SelectPrev(w) PROVE PolicyInv'
  <2>1. PICK old \in Transacted : old = potx[w] /\ old # NoTx
    BY <1>5 DEF PolicyInv, PolicyTyped, Policy!Flush, Policy!SelectPrev
  <2>2. UNCHANGED <<porow, poversions, pooverlaps>>
    BY <1>5 DEF Policy!Flush, Policy!SelectPrev
  <2>3. CASE Policy!Flush(w)
    <3>1. PICK l \in BOOLEAN : l = (Policy!Dirty(old) # {} \/ old.old = Policy!Absent)
      OBVIOUS
    <3>2. PICK t : t = [old EXCEPT !.pc = "flushed", !.lock = l]
      OBVIOUS
    <3>3. t \in Transacted /\ t.old = old.old /\ t.pc # "selected"
      BY <2>1, <3>2 DEF Transacted
    <3>4. potx' = [potx EXCEPT ![w] = t]
      BY <2>1, <2>3, <3>1, <3>2 DEF Policy!Flush, PolicyInv, PolicyTyped
    <3> QED
      BY <2>1, <2>2, <3>3, <3>4, PolicyQuiet
  <2>4. CASE Policy!SelectPrev(w)
    <3>1. PICK p : p = IF Policy!Open = {} THEN 0 ELSE Policy!Max({v.version : v \in Policy!Open})
      OBVIOUS
    <3>2. p \in Nat /\ p <= porow.current
      <4>1. porow.current \in Nat
        BY DEF PolicyInv, PolicyTyped, Columned
      <4>2. CASE Policy!Open # {}
        <5>1. {v.version : v \in Policy!Open} = {porow.current}
          BY <4>2, LastIsOpen
        <5>2. p = CHOOSE x \in {porow.current} : \A y \in {porow.current} : x >= y
          BY <3>1, <4>2, <5>1 DEF Policy!Max
        <5> QED
          BY <4>1, <5>2
      <4> QED
        BY <3>1, <4>1, <4>2
    <3>3. PICK t : t = [old EXCEPT !.pc = "selected", !.prev = p]
      OBVIOUS
    <3>4. t \in Transacted /\ t.old = old.old /\ t.prev = p
      BY <2>1, <3>2, <3>3 DEF Transacted
    <3>5. potx' = [potx EXCEPT ![w] = t]
      BY <2>1, <2>4, <3>1, <3>3 DEF Policy!SelectPrev, PolicyInv, PolicyTyped
    <3> QED
      BY <2>1, <2>2, <3>2, <3>4, <3>5, PolicyQuiet
  <2> QED
    BY <1>5, <2>3, <2>4
<1>6. ASSUME NEW w \in Workers, Policy!Commit(w) PROVE PolicyInv'
  BY <1>6, PolicyCommit
<1>7. ASSUME NEW w \in Workers, Policy!Fail(w) PROVE PolicyInv'
  BY <1>7, PolicyQuiet DEF Policy!Fail
<1>8. CASE UNCHANGED poVars
  BY <1>8 DEF poVars, PolicyInv, PolicyTyped, PolicyNumbered, PrevIsOld, RowLoaded, Policy!VersionInForce,
              Policy!Open, Policy!SameText
<1> QED
  BY <1>1, <1>2, <1>3, <1>4, <1>5, <1>6, <1>7, <1>8 DEF Policy!Next

LEMMA PolicyMoves == [Next]_vars => [Policy!Next]_poVars
  BY DEF Next, vars, RecallsKeeps, ResultsKeeps, LedgerKeeps, CertsKeeps, WitnessesKeeps, CapsuleKeeps, GateKeeps,
         ExportsKeeps, NoticesKeeps

\* However updates of a policy overlap, fail or archive it, its versions are one numbered history that
\* ends at the row, and without overlap the last version has the text in force.
THEOREM VersionsAreHistory == Spec => []PolicyHistory
<1>1. Init => PolicyInv
  BY PolicyInit DEF Init
<1>2. PolicyInv /\ [Next]_vars => PolicyInv'
  BY PolicyStep, PolicyMoves
<1>3. PolicyInv => PolicyHistory
  <2> SUFFICES ASSUME PolicyInv PROVE PolicyHistory
    OBVIOUS
  <2>1. PICK n \in Nat : n = porow.current
    BY DEF PolicyInv, PolicyTyped, Columned
  <2>2. Policy!Cardinality(poversions) = n
    BY <2>1, NumberedCount DEF PolicyInv, PolicyNumbered, Policy!Cardinality, Cardinality
  <2>3. {v.version : v \in poversions} = 1..n
    BY <2>1 DEF PolicyInv, PolicyNumbered, NumberedTo
  <2>4. ASSUME NEW v \in poversions PROVE v.superseded = (v.version < porow.current)
    BY DEF PolicyInv, PolicyTyped, Versioned, PolicyNumbered
  <2> QED
    BY <2>1, <2>2, <2>3, <2>4 DEF PolicyInv, PolicyHistory, Policy!OneHistory
<1> QED
  BY <1>1, <1>2, <1>3, PTL DEF Spec

-------------------------------------------------------------------------------
(* Recalls.  What carries the number of a campaign is of the sets it froze.     *)

Marks == [status : {"active", "flagged", "quarantined", "cleared"}, by : Campaigns \cup {"none"}]

RecallInv ==
  /\ rcmark \in [Recallable -> Marks] /\ rcstored \subseteq Recallable
  /\ DOMAIN rccampaign = Campaigns
  /\ Recalls!FrozenScope

LEMMA RecallInit == Recalls!Init => RecallInv
  BY DEF Recalls!Init, RecallInv, Marks, Recalls!FrozenScope

\* new marks carry the number of a campaign that froze the record
LEMMA MarkStep ==
  ASSUME RecallInv, NEW c \in Campaigns, NEW status \in {"flagged", "quarantined"}, UNCHANGED <<rcstored, rccampaign>>,
         NEW S \in SUBSET (rccampaign[c].members \cup rccampaign[c].blast), Recalls!Marked(S \cap rcstored, status, c)
  PROVE  RecallInv'
<1>1. PICK m : m = [status |-> status, by |-> c]
  OBVIOUS
<1>2. m \in Marks /\ m.by = c
  BY <1>1 DEF Marks
<1>3. rcmark' = [r \in Recallable |-> IF r \in S \cap rcstored THEN m ELSE rcmark[r]]
  BY <1>1 DEF Recalls!Marked
<1>4. rcmark' \in [Recallable -> Marks]
  BY <1>2, <1>3 DEF RecallInv
<1>5. Recalls!FrozenScope'
  BY <1>2, <1>3 DEF RecallInv, Recalls!FrozenScope
<1> QED
  BY <1>4, <1>5 DEF RecallInv

LEMMA RecallStep == RecallInv /\ [Recalls!Next]_rcVars => RecallInv'
<1> SUFFICES ASSUME RecallInv, [Recalls!Next]_rcVars PROVE RecallInv'
  OBVIOUS
<1>1. ASSUME NEW c \in Campaigns, Recalls!Open(c) PROVE RecallInv'
  <2>1. PICK row : rccampaign' = [rccampaign EXCEPT ![c] = row]
    BY <1>1 DEF Recalls!Open
  <2>2. rccampaign[c].members = {} /\ rccampaign[c].blast = {} /\ UNCHANGED <<rcstored, rcmark>>
    BY <1>1 DEF Recalls!Open, Recalls!NoCampaign
  <2>3. \A d \in Campaigns : d # c => rccampaign'[d] = rccampaign[d]
    BY <2>1
  <2>4. \A r \in Recallable : rcmark[r].by # "none" => rcmark[r].by \in Campaigns /\ rcmark[r].by # c
    BY <2>2 DEF RecallInv, Marks, Recalls!FrozenScope
  <2>5. Recalls!FrozenScope'
    BY <2>2, <2>3, <2>4 DEF RecallInv, Recalls!FrozenScope
  <2> QED
    BY <2>1, <2>2, <2>5 DEF RecallInv
<1>2. ASSUME NEW c \in Campaigns, Recalls!Flag(c) PROVE RecallInv'
  BY <1>2, MarkStep DEF Recalls!Flag
<1>3. ASSUME NEW c \in Campaigns, Recalls!Quarantine(c) PROVE RecallInv'
  BY <1>3, MarkStep DEF Recalls!Quarantine
<1>4. ASSUME NEW c \in Campaigns, Recalls!Interrupt(c) \/ Recalls!QuarantineBegin(c) PROVE RecallInv'
  BY <1>4 DEF Recalls!Interrupt, Recalls!QuarantineBegin, RecallInv, Recalls!FrozenScope
<1>5. ASSUME NEW c \in Campaigns, Recalls!Clear(c) PROVE RecallInv'
  <2>1. \A r \in Recallable : /\ [rcmark[r] EXCEPT !.status = "cleared"] \in Marks
                              /\ [rcmark[r] EXCEPT !.status = "cleared"].by = rcmark[r].by
    BY DEF RecallInv, Marks
  <2>2. /\ rcmark' = [r \in Recallable |-> IF rcmark[r].by = c THEN [rcmark[r] EXCEPT !.status = "cleared"] ELSE rcmark[r]]
        /\ UNCHANGED <<rcstored, rccampaign>>
    BY <1>5 DEF Recalls!Clear
  <2>3. rcmark' \in [Recallable -> Marks] /\ \A r \in Recallable : rcmark'[r].by = rcmark[r].by
    BY <2>1, <2>2 DEF RecallInv
  <2> QED
    BY <2>2, <2>3 DEF RecallInv, Recalls!FrozenScope
<1>6. ASSUME NEW c \in Campaigns, Recalls!Close(c) PROVE RecallInv'
  <2>1. /\ DOMAIN rccampaign' = Campaigns /\ UNCHANGED <<rcstored, rcmark>>
        /\ \A d \in Campaigns : rccampaign'[d].members = rccampaign[d].members /\ rccampaign'[d].blast = rccampaign[d].blast
    BY <1>6 DEF Recalls!Close, RecallInv
  <2>2. \A r \in Recallable : rcmark[r].by \in Campaigns \cup {"none"}
    BY DEF RecallInv, Marks
  <2> QED
    BY <2>1, <2>2 DEF RecallInv, Recalls!FrozenScope
<1>7. ASSUME NEW r \in Recallable, Recalls!Ingest(r) PROVE RecallInv'
  BY <1>7 DEF Recalls!Ingest, RecallInv, Recalls!FrozenScope
<1>8. CASE Recalls!GraphChanges
  BY <1>8 DEF Recalls!GraphChanges, RecallInv, Recalls!FrozenScope
<1>9. CASE UNCHANGED rcVars
  BY <1>9 DEF rcVars, RecallInv, Recalls!FrozenScope
<1> QED
  BY <1>1, <1>2, <1>3, <1>4, <1>5, <1>6, <1>7, <1>8, <1>9 DEF Recalls!Next

\* a campaign that opens says "checked" of all descendants
LEMMA BlastStep ==
  ASSUME RecallInv, Recalls!Next, NEW c \in Campaigns, rccampaign[c] = Recalls!NoCampaign,
         rccampaign'[c].coverage \in {"checked", "checked_empty"}
  PROVE  rccampaign'[c].blast = Recalls!Descendants(rccampaign'[c].members)
<1>1. rccampaign[c].coverage = "unavailable" /\ rccampaign[c].status = "none"
  BY DEF Recalls!NoCampaign
<1>2. CASE Recalls!Open(c)
  <2>0. PICK S \in Recalls!Matches : \E b \in Recalls!Blast(S) :
          rccampaign' = [rccampaign EXCEPT ![c] = [status |-> "open", members |-> S, blast |-> b.blast, coverage |-> b.coverage]]
    BY <1>2 DEF Recalls!Open
  <2>1. PICK b \in Recalls!Blast(S) :
          rccampaign' = [rccampaign EXCEPT ![c] = [status |-> "open", members |-> S, blast |-> b.blast, coverage |-> b.coverage]]
    BY <2>0
  <2>2. rccampaign'[c].members = S /\ rccampaign'[c].blast = b.blast /\ rccampaign'[c].coverage = b.coverage
    BY <2>1 DEF RecallInv
  <2>3. \/ b = [blast |-> {}, coverage |-> "unavailable"]
        \/ b \in {[blast |-> B, coverage |-> "blast_radius_partial"] : B \in Recalls!kSubset(Cap, Recalls!Descendants(S))}
        \/ b = [blast |-> Recalls!Descendants(S),
                coverage |-> IF Recalls!Descendants(S) = {} THEN "checked_empty" ELSE "checked"]
    BY <2>1 DEF Recalls!Blast
  <2>4. b.coverage \in {"checked", "checked_empty"} => b.blast = Recalls!Descendants(S)
    BY <2>3
  <2> QED
    BY <2>2, <2>4
<1>3. ASSUME NEW d \in Campaigns, d # c, Recalls!Open(d) PROVE rccampaign'[c] = rccampaign[c]
  BY <1>3 DEF Recalls!Open, RecallInv
<1>4. ASSUME NEW d \in Campaigns, Recalls!Close(d) PROVE rccampaign'[c] = rccampaign[c]
  BY <1>1, <1>4 DEF Recalls!Close, RecallInv
<1>5. Recalls!Open(c) \/ rccampaign'[c] = rccampaign[c]
  BY <1>3, <1>4 DEF Recalls!Next, Recalls!Flag, Recalls!Interrupt, Recalls!QuarantineBegin, Recalls!Quarantine,
     Recalls!Clear, Recalls!Ingest, Recalls!GraphChanges
<1> QED
  BY <1>1, <1>2, <1>5

\* a record leaves quarantine with its campaign or for another one
LEMMA QuarantineStep ==
  ASSUME RecallInv, Recalls!Next, NEW r \in Recallable, rcmark[r].status = "quarantined", rcmark'[r].status # "quarantined"
  PROVE  \/ \A s \in Recallable : rcmark[s].by = rcmark[r].by => rcmark'[s] = [rcmark[s] EXCEPT !.status = "cleared"]
         \/ rcmark'[r].status = "flagged" /\ r \in rccampaign[rcmark'[r].by].members
<1>1. ASSUME NEW c \in Campaigns, Recalls!Flag(c)
      PROVE  rcmark'[r].status = "flagged" /\ r \in rccampaign[rcmark'[r].by].members
  <2>1. rcmark'[r] = IF r \in rccampaign[c].members \cap rcstored THEN [status |-> "flagged", by |-> c] ELSE rcmark[r]
    BY <1>1 DEF Recalls!Flag, Recalls!Marked
  <2> QED
    BY <2>1
<1>2. ASSUME NEW c \in Campaigns, Recalls!Quarantine(c) PROVE FALSE
  <2>1. \/ rcmark'[r] = [status |-> "quarantined", by |-> c]
        \/ rcmark'[r] = rcmark[r]
    BY <1>2 DEF Recalls!Quarantine, Recalls!Marked
  <2> QED
    BY <2>1
<1>3. ASSUME NEW c \in Campaigns, Recalls!Clear(c)
      PROVE  \A s \in Recallable : rcmark[s].by = rcmark[r].by => rcmark'[s] = [rcmark[s] EXCEPT !.status = "cleared"]
  <2>1. \A s \in Recallable : rcmark'[s] = IF rcmark[s].by = c THEN [rcmark[s] EXCEPT !.status = "cleared"] ELSE rcmark[s]
    BY <1>3 DEF Recalls!Clear
  <2>2. rcmark[r].by = c
    BY <2>1
  <2> QED
    BY <2>1, <2>2
<1> QED
  BY <1>1, <1>2, <1>3 DEF Recalls!Next, Recalls!Open, Recalls!Interrupt, Recalls!QuarantineBegin, Recalls!Close,
     Recalls!Ingest, Recalls!GraphChanges

LEMMA RecallMoves == [Next]_vars => [Recalls!Next]_rcVars
  BY DEF Next, vars, PolicyKeeps, ResultsKeeps, LedgerKeeps, CertsKeeps, WitnessesKeeps, CapsuleKeeps, GateKeeps,
         ExportsKeeps, NoticesKeeps

\* Whatever campaigns overlap and records arrive: a campaign acts on what it froze, a graph that does not
\* answer never reads as one without descendants, and a record leaves quarantine only with all others of
\* its campaign or for a campaign it is a member of.
THEOREM RecallsAreSafe == Spec => RecallsHold
<1>1. Init => RecallInv
  BY RecallInit DEF Init
<1>2. RecallInv /\ [Next]_vars => RecallInv'
  BY RecallStep, RecallMoves
<1>3. RecallInv => Recalls!FrozenScope
  BY DEF RecallInv
<1> DEFINE Honest == \A c \in Campaigns :
      rccampaign[c] = Recalls!NoCampaign /\ rccampaign'[c].coverage \in {"checked", "checked_empty"} =>
        rccampaign'[c].blast = Recalls!Descendants(rccampaign'[c].members)
<1> DEFINE Holds == \A r \in Recallable : rcmark[r].status = "quarantined" /\ rcmark'[r].status # "quarantined" =>
      \/ \A s \in Recallable : rcmark[s].by = rcmark[r].by => rcmark'[s] = [rcmark[s] EXCEPT !.status = "cleared"]
      \/ rcmark'[r].status = "flagged" /\ r \in rccampaign[rcmark'[r].by].members
<1>4. RecallInv /\ [Next]_vars => [Honest]_Recalls!vars /\ [Holds]_Recalls!vars
  <2>1. RecallInv /\ Recalls!Next => Honest /\ Holds
    BY BlastStep, QuarantineStep
  <2>2. UNCHANGED rcVars => UNCHANGED Recalls!vars
    BY DEF rcVars, Recalls!vars
  <2> QED
    BY <2>1, <2>2, RecallMoves
<1>5. RecallsHold <=> []Recalls!FrozenScope /\ [][Honest]_Recalls!vars /\ [][Holds]_Recalls!vars
  BY DEF RecallsHold, Recalls!BlastHonest, Recalls!QuarantineHolds
<1> QED
  BY <1>1, <1>2, <1>3, <1>4, <1>5, PTL DEF Spec

-------------------------------------------------------------------------------
(* Outcomes.  Rows are only added; what a request saw without a duplicate is     *)
(* older than its window still when it commits.                                 *)

ReportFields == [record : {e.record : e \in Events}, type : {e.type : e \in Events}, source : {e.source : e \in Events},
                 at : Int, seen : Nat]
Batched == [todo : Seq(Events), insert : BOOLEAN, seen : Nat]

OutcomeTyped == ourows \in Seq(ReportFields) /\ oubatch \in [Workers -> Batched]

\* a request about to insert has seen no duplicate, and what it saw is still there
SeenNone == \A w \in Workers : oubatch[w].insert =>
  /\ oubatch[w].todo # <<>> /\ oubatch[w].seen <= Len(ourows)
  /\ \A i \in 1..oubatch[w].seen : Results!Key(ourows[i]) = Results!Key(Head(oubatch[w].todo)) =>
       ourows[i].at < Head(oubatch[w].todo).at - Window

SeenBefore == \A j \in DOMAIN ourows : ourows[j].seen < j

OutcomeInv == /\ OutcomeTyped /\ SeenNone /\ SeenBefore
              /\ ouanswered \subseteq Events /\ Results!AnsweredKept /\ Results!DoublesOverlap

LEMMA OutcomeInit == Results!Init => OutcomeInv
<1> SUFFICES ASSUME Results!Init PROVE OutcomeInv
  OBVIOUS
<1>1. PICK b : b = [todo |-> <<>>, insert |-> FALSE, seen |-> 0]
  OBVIOUS
<1>2. b \in Batched /\ ~b.insert
  BY <1>1 DEF Batched
<1>3. ourows = <<>> /\ ouanswered = {} /\ oubatch = [w \in Workers |-> b]
  BY <1>1 DEF Results!Init, Results!Idle
<1>4. ourows \in Seq(ReportFields) /\ DOMAIN ourows = {}
  BY <1>3
<1> QED
  BY <1>2, <1>3, <1>4 DEF OutcomeInv, OutcomeTyped, SeenNone, SeenBefore, Results!AnsweredKept, Results!DoublesOverlap

\* a step that leaves the rows and starts no insertion keeps what is said of them
LEMMA BatchStep ==
  ASSUME OutcomeInv, NEW w \in Workers, NEW b \in Batched, oubatch' = [oubatch EXCEPT ![w] = b], ourows' = ourows, ~b.insert
  PROVE  OutcomeTyped' /\ SeenNone' /\ SeenBefore' /\ Results!DoublesOverlap'
<1>1. OutcomeTyped'
  BY DEF OutcomeInv, OutcomeTyped
<1>2. \A v \in Workers : oubatch'[v] = IF v = w THEN b ELSE oubatch[v]
  BY DEF OutcomeInv, OutcomeTyped
<1> QED
  BY <1>1, <1>2 DEF OutcomeInv, SeenNone, SeenBefore, Results!DoublesOverlap, Results!Key

LEMMA IdleBatch == Results!Idle \in Batched /\ ~Results!Idle.insert
<1>1. PICK b : b = [todo |-> <<>>, insert |-> FALSE, seen |-> 0]
  OBVIOUS
<1> QED
  BY <1>1 DEF Batched, Results!Idle

LEMMA SelectStep ==
  ASSUME OutcomeInv, NEW w \in Workers, Results!Select(w)
  PROVE  OutcomeInv'
<1>1. PICK e : e = Head(oubatch[w].todo)
  OBVIOUS
<1>2. PICK old \in Batched : old = oubatch[w]
  BY DEF OutcomeInv, OutcomeTyped
<1>3. old.todo \in Seq(Events) /\ old.todo # <<>> /\ ~old.insert /\ ourows' = ourows
  BY <1>2 DEF Results!Select, Batched
<1>4. e \in Events /\ Tail(old.todo) \in Seq(Events)
  BY <1>1, <1>2, <1>3, ItemsHeadTail
<1>5. CASE Results!Duplicates(e) = {} /\ oubatch' = [oubatch EXCEPT ![w].insert = TRUE, ![w].seen = Len(ourows)]
           /\ UNCHANGED ouanswered
  <2>1. PICK b : b = [old EXCEPT !.insert = TRUE, !.seen = Len(ourows)]
    OBVIOUS
  <2>2. Len(ourows) \in Nat /\ DOMAIN ourows = 1..Len(ourows)
    BY DEF OutcomeInv, OutcomeTyped
  <2>3. b \in Batched /\ b.todo = old.todo /\ b.seen = Len(ourows)
    BY <2>1, <2>2 DEF Batched
  <2>4. oubatch' = [oubatch EXCEPT ![w] = b]
    BY <1>2, <1>5, <2>1
  <2>5. OutcomeTyped'
    BY <1>3, <2>3, <2>4 DEF OutcomeInv, OutcomeTyped
  <2>6. \A v \in Workers : oubatch'[v] = IF v = w THEN b ELSE oubatch[v]
    BY <2>4 DEF OutcomeInv, OutcomeTyped
  <2>7. \A i \in 1..Len(ourows) : Results!Key(ourows[i]) = Results!Key(e) => ourows[i].at < e.at - Window
    <3>0. \A i \in 1..Len(ourows) : ourows[i] \in ReportFields
      BY DEF OutcomeInv, OutcomeTyped
    <3>1. \A i \in 1..Len(ourows) : ourows[i].at \in Int
      BY <3>0 DEF ReportFields
    <3>2. \A i \in 1..Len(ourows) : ~(Results!Key(ourows[i]) = Results!Key(e) /\ ourows[i].at >= e.at - Window)
      BY <1>5, <2>2 DEF Results!Duplicates
    <3>3. e.at \in Int /\ Window \in Int
      BY <1>4, ReportsAssumption
    <3> QED
      BY <3>1, <3>2, <3>3
  <2>8. SeenNone'
    <3> SUFFICES ASSUME NEW v \in Workers, oubatch'[v].insert
                 PROVE  /\ oubatch'[v].todo # <<>> /\ oubatch'[v].seen <= Len(ourows')
                        /\ \A i \in 1..oubatch'[v].seen :
                             Results!Key(ourows'[i]) = Results!Key(Head(oubatch'[v].todo)) =>
                               ourows'[i].at < Head(oubatch'[v].todo).at - Window
      BY DEF SeenNone, Results!Key
    <3>1. CASE v = w
      BY <1>1, <1>2, <1>3, <2>2, <2>3, <2>6, <2>7, <3>1 DEF Results!Key
    <3>2. CASE v # w
      BY <1>3, <2>6, <3>2 DEF OutcomeInv, SeenNone
    <3> QED
      BY <3>1, <3>2
  <2> QED
    BY <1>3, <1>5, <2>5, <2>8 DEF OutcomeInv, SeenBefore, Results!AnsweredKept, Results!DoublesOverlap, Results!Key
<1>6. CASE Results!Cardinality(Results!Duplicates(e)) = 1 /\ ouanswered' = ouanswered \cup {e}
           /\ oubatch' = [oubatch EXCEPT ![w].todo = Tail(@)]
  <2>1. PICK b : b = [old EXCEPT !.todo = Tail(old.todo)]
    OBVIOUS
  <2>2. b \in Batched /\ ~b.insert
    BY <1>3, <1>4, <2>1 DEF Batched
  <2>3. oubatch' = [oubatch EXCEPT ![w] = b]
    BY <1>2, <1>6, <2>1
  <2>4. PICK i \in DOMAIN ourows : Results!Key(ourows[i]) = Results!Key(e) /\ ourows[i].at >= e.at - Window
    <3>1. Results!Duplicates(e) # {}
      <4>1. Cardinality({}) = 0
        BY FS_EmptySet
      <4>2. Results!Cardinality({}) = 0
        BY <4>1 DEF Results!Cardinality, Cardinality
      <4>3. Results!Cardinality(Results!Duplicates(e)) = 1
        BY <1>6
      <4> QED
        BY <4>2, <4>3
    <3> QED
      BY <3>1 DEF Results!Duplicates
  <2>5. Results!AnsweredKept'
    BY <1>3, <1>6, <2>4 DEF OutcomeInv, Results!AnsweredKept, Results!Key
  <2> QED
    BY <1>3, <1>4, <1>6, <2>2, <2>3, <2>5, BatchStep DEF OutcomeInv
<1>7. CASE ouanswered' = ouanswered /\ oubatch' = [oubatch EXCEPT ![w] = Results!Idle]
  BY <1>3, <1>7, IdleBatch, BatchStep DEF OutcomeInv, Results!AnsweredKept, Results!Key
<1> QED
  BY <1>1, <1>5, <1>6, <1>7 DEF Results!Select

LEMMA CommitStep ==
  ASSUME OutcomeInv, NEW w \in Workers, Results!Commit(w)
  PROVE  OutcomeInv' /\ \E row \in ReportFields : ourows' = Append(ourows, row)
<1>1. PICK e : e = Head(oubatch[w].todo)
  OBVIOUS
<1>2. PICK old \in Batched : old = oubatch[w]
  BY DEF OutcomeInv, OutcomeTyped
<1>3. old.insert /\ old.todo \in Seq(Events) /\ old.todo # <<>> /\ old.seen \in Nat /\ old.seen <= Len(ourows)
  BY <1>2 DEF Results!Commit, Batched, OutcomeInv, SeenNone
<1>4. e \in Events /\ Tail(old.todo) \in Seq(Events)
  BY <1>1, <1>2, <1>3, ItemsHeadTail
<1>5. PICK row : row = [record |-> e.record, type |-> e.type, source |-> e.source, at |-> e.at, seen |-> old.seen]
  OBVIOUS
<1>6. row \in ReportFields /\ row.at = e.at /\ row.seen = old.seen /\ Results!Key(row) = Results!Key(e)
  BY <1>3, <1>4, <1>5, ReportsAssumption DEF ReportFields, Results!Key
<1>7. ourows' = Append(ourows, row)
  BY <1>1, <1>2, <1>5 DEF Results!Commit
<1>8. ourows \in Seq(ReportFields) /\ Len(ourows) \in Nat /\ DOMAIN ourows = 1..Len(ourows)
  BY DEF OutcomeInv, OutcomeTyped
<1>9. /\ ourows' \in Seq(ReportFields) /\ Len(ourows') = Len(ourows) + 1 /\ DOMAIN ourows' = 1..(Len(ourows) + 1)
      /\ ourows'[Len(ourows) + 1] = row /\ \A i \in 1..Len(ourows) : ourows'[i] = ourows[i]
  BY <1>6, <1>7, <1>8
<1>10. PICK b : b = [old EXCEPT !.todo = Tail(old.todo), !.insert = FALSE, !.seen = 0]
  OBVIOUS
<1>11. b \in Batched /\ ~b.insert
  BY <1>4, <1>10 DEF Batched
<1>12. oubatch' = [oubatch EXCEPT ![w] = b]
  BY <1>2, <1>10 DEF Results!Commit
<1>13. OutcomeTyped' /\ \A v \in Workers : oubatch'[v] = IF v = w THEN b ELSE oubatch[v]
  BY <1>9, <1>11, <1>12 DEF OutcomeInv, OutcomeTyped
<1>14. SeenNone'
  <2> SUFFICES ASSUME NEW v \in Workers, oubatch'[v].insert
               PROVE  /\ oubatch'[v].todo # <<>> /\ oubatch'[v].seen <= Len(ourows')
                      /\ \A i \in 1..oubatch'[v].seen :
                           Results!Key(ourows'[i]) = Results!Key(Head(oubatch'[v].todo)) =>
                             ourows'[i].at < Head(oubatch'[v].todo).at - Window
    BY DEF SeenNone, Results!Key
  <2>1. oubatch'[v] = oubatch[v] /\ oubatch[v].insert
    BY <1>11, <1>13
  <2>2. oubatch[v].seen \in Nat
    BY DEF OutcomeInv, OutcomeTyped, Batched
  <2>3. oubatch[v].todo # <<>> /\ oubatch[v].seen <= Len(ourows)
        /\ \A i \in 1..oubatch[v].seen : Results!Key(ourows[i]) = Results!Key(Head(oubatch[v].todo)) =>
             ourows[i].at < Head(oubatch[v].todo).at - Window
    BY <2>1 DEF OutcomeInv, SeenNone
  <2>4. \A i \in 1..oubatch[v].seen : i \in 1..Len(ourows)
    BY <1>8, <2>2, <2>3
  <2> QED
    BY <1>8, <1>9, <2>1, <2>2, <2>3, <2>4
<1>15. SeenBefore'
  <2> SUFFICES ASSUME NEW j \in DOMAIN ourows' PROVE ourows'[j].seen < j
    BY DEF SeenBefore
  <2>1. CASE j \in 1..Len(ourows)
    BY <1>8, <1>9, <2>1 DEF OutcomeInv, SeenBefore
  <2>2. CASE j = Len(ourows) + 1
    BY <1>3, <1>6, <1>8, <1>9, <2>2
  <2> QED
    BY <1>8, <1>9, <2>1, <2>2
<1>16. ouanswered' = ouanswered \cup {e}
  BY <1>1 DEF Results!Commit
<1>17. Results!AnsweredKept'
  <2> SUFFICES ASSUME NEW a \in ouanswered'
               PROVE  \E i \in DOMAIN ourows' : Results!Key(ourows'[i]) = Results!Key(a) /\ ourows'[i].at >= a.at - Window
    BY DEF Results!AnsweredKept, Results!Key
  <2>1. CASE a = e
    <3>1. e.at >= e.at - Window
      BY <1>4, ReportsAssumption
    <3> QED
      BY <1>6, <1>8, <1>9, <2>1, <3>1
  <2>2. CASE a \in ouanswered
    BY <1>8, <1>9, <2>2 DEF OutcomeInv, Results!AnsweredKept
  <2> QED
    BY <1>16, <2>1, <2>2
<1>18. Results!DoublesOverlap'
  <2> SUFFICES ASSUME NEW i \in DOMAIN ourows', NEW j \in DOMAIN ourows', i <= ourows'[j].seen,
                      Results!Key(ourows'[i]) = Results!Key(ourows'[j])
               PROVE  ourows'[i].at < ourows'[j].at - Window
    BY DEF Results!DoublesOverlap, Results!Key
  <2>1. i \in Nat /\ j \in Nat /\ ourows'[j].seen < j
    BY <1>9, <1>15 DEF SeenBefore
  <2>2. ourows'[j] \in ReportFields
    BY <1>9
  <2>3. ourows'[j].seen \in Nat
    BY <2>2 DEF ReportFields
  <2>4. i \in 1..Len(ourows)
    BY <1>8, <1>9, <2>1, <2>3
  <2>5. CASE j \in 1..Len(ourows)
    BY <1>8, <1>9, <2>4, <2>5 DEF OutcomeInv, Results!DoublesOverlap
  <2>6. CASE j = Len(ourows) + 1
    <3>1. ourows'[j] = row /\ ourows'[i] = ourows[i] /\ i \in 1..oubatch[w].seen
      BY <1>2, <1>3, <1>6, <1>9, <2>4, <2>6
    <3>2. Results!Key(ourows[i]) = Results!Key(Head(oubatch[w].todo)) => ourows[i].at < Head(oubatch[w].todo).at - Window
      BY <1>2, <1>3, <3>1 DEF OutcomeInv, SeenNone
    <3> QED
      BY <1>1, <1>6, <3>1, <3>2
  <2> QED
    BY <1>8, <1>9, <2>5, <2>6
<1> QED
  BY <1>4, <1>6, <1>7, <1>13, <1>14, <1>15, <1>16, <1>17, <1>18 DEF OutcomeInv

LEMMA OutcomeStep == OutcomeInv /\ [Results!Next]_ouVars => OutcomeInv'
<1> SUFFICES ASSUME OutcomeInv, [Results!Next]_ouVars PROVE OutcomeInv'
  OBVIOUS
<1>1. ASSUME NEW w \in Workers, Results!Deliver(w) PROVE OutcomeInv'
  <2>1. PICK todo \in UNION {[1..n -> Events] : n \in 1..2} : oubatch' = [oubatch EXCEPT ![w].todo = todo]
    BY <1>1 DEF Results!Deliver
  <2>2. todo \in Seq(Events)
    <3>1. PICK n \in 1..2 : todo \in [1..n -> Events]
      BY <2>1
    <3> QED
      BY <3>1
  <2>3. PICK old \in Batched : old = oubatch[w] /\ ~old.insert
    BY <1>1, IdleBatch DEF Results!Deliver
  <2>4. PICK b : b = [old EXCEPT !.todo = todo]
    OBVIOUS
  <2>5. b \in Batched /\ ~b.insert
    BY <2>2, <2>3, <2>4 DEF Batched
  <2>6. oubatch' = [oubatch EXCEPT ![w] = b] /\ UNCHANGED <<ourows, ouanswered>>
    BY <1>1, <2>1, <2>3, <2>4 DEF Results!Deliver
  <2> QED
    BY <2>5, <2>6, BatchStep DEF OutcomeInv, Results!AnsweredKept, Results!Key
<1>2. ASSUME NEW w \in Workers, Results!Fails(w) PROVE OutcomeInv'
  BY <1>2, IdleBatch, BatchStep DEF Results!Fails, OutcomeInv, Results!AnsweredKept, Results!Key
<1>3. CASE UNCHANGED ouVars
  BY <1>3 DEF ouVars, OutcomeInv, OutcomeTyped, SeenNone, SeenBefore, Results!AnsweredKept, Results!DoublesOverlap,
     Results!Key
<1> QED
  BY <1>1, <1>2, <1>3, SelectStep, CommitStep DEF Results!Next

\* a row of a record and type that was counted before is not counted again
LEMMA DoubleStep ==
  ASSUME OutcomeInv, Results!Next, Len(ourows') > Len(ourows),
         NEW i \in DOMAIN ourows, ourows[i].record = Results!Last(ourows').record, ourows[i].type = Results!Last(ourows').type
  PROVE  Results!Score' = Results!Score
<1>1. ourows \in Seq(ReportFields) /\ Len(ourows) \in Nat /\ DOMAIN ourows = 1..Len(ourows)
  BY DEF OutcomeInv, OutcomeTyped
<1>2. PICK w \in Workers : Results!Commit(w)
  BY <1>1 DEF Results!Next, Results!Deliver, Results!Select, Results!Fails
<1>3. PICK row \in ReportFields : ourows' = Append(ourows, row)
  BY <1>2, CommitStep
<1>4. /\ Len(ourows') = Len(ourows) + 1 /\ DOMAIN ourows' = 1..(Len(ourows) + 1)
      /\ ourows'[Len(ourows) + 1] = row /\ \A j \in 1..Len(ourows) : ourows'[j] = ourows[j]
  BY <1>1, <1>3
<1>5. ourows[i].record = row.record /\ ourows[i].type = row.type
  BY <1>4 DEF Results!Last
<1>6. {ourows'[j].record : j \in DOMAIN ourows'} = {ourows[j].record : j \in DOMAIN ourows}
  <2>1. \A j \in DOMAIN ourows' : \E k \in DOMAIN ourows : ourows'[j].record = ourows[k].record
    BY <1>1, <1>4, <1>5
  <2>2. \A j \in DOMAIN ourows : j \in DOMAIN ourows' /\ ourows[j].record = ourows'[j].record
    BY <1>1, <1>4
  <2> QED
    BY <2>1, <2>2
<1>7. ASSUME NEW type PROVE Results!Count(type)' = Results!Count(type)
  <2>1. \A j \in DOMAIN ourows' : ourows'[j].type = type =>
          \E k \in DOMAIN ourows : ourows[k].type = type /\ ourows'[j].record = ourows[k].record
    BY <1>1, <1>4, <1>5
  <2>2. \A j \in DOMAIN ourows : j \in DOMAIN ourows' /\ ourows[j].record = ourows'[j].record /\ ourows[j].type = ourows'[j].type
    BY <1>1, <1>4
  <2>3. {ourows'[j].record : j \in {k \in DOMAIN ourows' : ourows'[k].type = type}}
        = {ourows[j].record : j \in {k \in DOMAIN ourows : ourows[k].type = type}}
    BY <2>1, <2>2
  <2> QED
    BY <2>3 DEF Results!Count, Results!Cardinality
<1>8. /\ Results!Count("survived")' = Results!Count("survived")
      /\ Results!Count("reverted")' = Results!Count("reverted")
      /\ Results!Count("rewritten")' = Results!Count("rewritten")
      /\ Results!Count("incident")' = Results!Count("incident")
      /\ Results!Count("test_failed")' = Results!Count("test_failed")
  BY <1>7
<1>9. Results!Decided' = Results!Decided
  BY <1>8 DEF Results!Decided
<1>10. Results!Cardinality({ourows[j].record : j \in DOMAIN ourows})'
       = Results!Cardinality({ourows[j].record : j \in DOMAIN ourows})
  BY <1>6
<1> QED
  BY <1>8, <1>9, <1>10 DEF Results!Score

LEMMA OutcomeMoves == [Next]_vars => [Results!Next]_ouVars
  BY DEF Next, vars, PolicyKeeps, RecallsKeeps, LedgerKeeps, CertsKeeps, WitnessesKeeps, CapsuleKeeps, GateKeeps,
         ExportsKeeps, NoticesKeeps

\* However reports are repeated and batches overlap or break off: what was answered has a row that stands
\* for it, rows that say the same in one window come from overlapping requests, and a row of a record and
\* type that has one already leaves the durability score as it was.
THEOREM ReportsAreCounted == Spec => OutcomesCounted
<1>1. Init => OutcomeInv
  BY OutcomeInit DEF Init
<1>2. OutcomeInv /\ [Next]_vars => OutcomeInv'
  BY OutcomeStep, OutcomeMoves
<1>3. OutcomeInv => Results!AnsweredKept /\ Results!DoublesOverlap
  BY DEF OutcomeInv
<1> DEFINE Weightless ==
      (/\ Len(ourows') > Len(ourows)
       /\ \E i \in DOMAIN ourows : /\ ourows[i].record = Results!Last(ourows').record
                                   /\ ourows[i].type = Results!Last(ourows').type) => Results!Score' = Results!Score
<1>4. OutcomeInv /\ [Next]_vars => [Weightless]_Results!vars
  <2>1. OutcomeInv /\ Results!Next => Weightless
    BY DoubleStep
  <2>2. UNCHANGED ouVars => UNCHANGED Results!vars
    BY DEF ouVars, Results!vars
  <2> QED
    BY <2>1, <2>2, OutcomeMoves
<1>5. OutcomesCounted <=> []Results!AnsweredKept /\ []Results!DoublesOverlap /\ [][Weightless]_Results!vars
  BY DEF OutcomesCounted, Results!DoublesWeighNothing
<1> QED
  BY <1>1, <1>2, <1>3, <1>4, <1>5, PTL DEF Spec

-------------------------------------------------------------------------------
(* Exports.  A job that was not asked for is not stored, and one that a task      *)
(* still works on is not finished.                                              *)

ExportInv ==
  /\ DOMAIN exkv = Jobs /\ DOMAIN extask = Jobs /\ DOMAIN extold = Jobs /\ exredis \in BOOLEAN
  /\ \A j \in Jobs :
       /\ exkv[j].status \in {"absent", "pending", "running", "done", "failed"}
       /\ extold[j] = "nothing" => exkv[j] = Exports!Absent /\ extask[j] = Exports!NoTask
       /\ extask[j] # Exports!NoTask => exkv[j].status \notin Exports!Final
       /\ extask[j].st = "storing" => extask[j].status \in Exports!Final
  /\ Exports!ProgressIsReal

LEMMA ExportFields ==
  /\ Exports!Absent.status = "absent" /\ Exports!NoTask.st = "none" /\ Exports!Final = {"done", "failed"}
  /\ \A s, f, c : Exports!Entry(s, f, c).status = s
  BY DEF Exports!Absent, Exports!NoTask, Exports!Final, Exports!Entry

LEMMA ExportInit == Exports!Init => ExportInv
  BY ExportFields DEF Exports!Init, ExportInv, Exports!ProgressIsReal

LEMMA ExportStep == ExportInv /\ [Exports!Next]_exVars => ExportInv'
<1> SUFFICES ASSUME ExportInv, [Exports!Next]_exVars PROVE ExportInv'
  OBVIOUS
<1>1. ASSUME NEW j \in Jobs, Exports!Start(j) PROVE ExportInv'
  <2>1. PICK e : e = Exports!Entry("pending", FALSE, 0)
    OBVIOUS
  <2>2. e.status = "pending" /\ Exports!Absent.status = "absent"
    BY <2>1, ExportFields
  <2>3. exkv' = [i \in Jobs |-> IF i = j THEN e ELSE IF Exports!Swept(i) THEN Exports!Absent ELSE exkv[i]]
    BY <1>1, <2>1 DEF Exports!Start
  <2>4. PICK t : extask' = [extask EXCEPT ![j] = t] /\ t.st = "created"
    <3>1. PICK f \in {"json", "csv", "parquet"}, some \in BOOLEAN :
            extask' = [extask EXCEPT ![j] = [st |-> "created", format |-> f, some |-> some]]
      BY <1>1 DEF Exports!Start
    <3>2. PICK t : t = [st |-> "created", format |-> f, some |-> some]
      OBVIOUS
    <3>3. extask' = [extask EXCEPT ![j] = t]
      BY <3>1, <3>2
    <3>4. t.st = "created"
      BY <3>2
    <3> QED
      BY <3>3, <3>4
  <2>5. t # Exports!NoTask
    BY <2>4, ExportFields
  <2>6. extold' = [extold EXCEPT ![j] = "pending"] /\ UNCHANGED <<exredis, exunsaved>>
    BY <1>1 DEF Exports!Start
  <2>7. \A i \in Jobs \ {j} : /\ extask'[i] = extask[i] /\ extold'[i] = extold[i]
                              /\ exkv'[i] = exkv[i] \/ exkv'[i] = Exports!Absent
    BY <2>3, <2>4, <2>6 DEF ExportInv
  <2>8. exkv'[j] = e /\ extask'[j] = t /\ extold'[j] = "pending"
    BY <2>3, <2>4, <2>6 DEF ExportInv
  <2>9. DOMAIN exkv' = Jobs /\ DOMAIN extask' = Jobs /\ DOMAIN extold' = Jobs
    BY <2>3, <2>4, <2>6 DEF ExportInv
  <2> QED
    BY <2>2, <2>4, <2>5, <2>6, <2>7, <2>8, <2>9, ExportFields DEF ExportInv, Exports!ProgressIsReal, Exports!Final
<1>2. ASSUME NEW j \in Jobs, Exports!Run(j) PROVE ExportInv'
  <2>1. PICK t : /\ extask' = [extask EXCEPT ![j] = t]
                 /\ t.st \in {"writing", "storing"}
                 /\ t.st = "storing" => t.status = "done"
    <3>1. PICK t : t = IF extask[j].format = "parquet" THEN [st |-> "writing"]
                       ELSE [st |-> "storing", status |-> "done", full |-> extask[j].format = "json" \/ extask[j].some,
                             completed |-> exnow]
      OBVIOUS
    <3>2. extask' = [extask EXCEPT ![j] = t]
      BY <1>2, <3>1 DEF Exports!Run
    <3>3. t.st \in {"writing", "storing"} /\ (t.st = "storing" => t.status = "done")
      BY <3>1
    <3> QED
      BY <3>2, <3>3
  <2>2. extask[j] # Exports!NoTask /\ t # Exports!NoTask
    BY <1>2, <2>1, ExportFields DEF Exports!Run
  <2>3. UNCHANGED <<exredis, exkv, extold, exunsaved>>
    BY <1>2 DEF Exports!Run
  <2> QED
    BY <2>1, <2>2, <2>3, ExportFields DEF ExportInv, Exports!ProgressIsReal, Exports!Final
<1>3. ASSUME NEW j \in Jobs, Exports!Written(j) PROVE ExportInv'
  <2>1. PICK t : extask' = [extask EXCEPT ![j] = t] /\ t.st = "storing" /\ t.status \in Exports!Final
    <3>1. PICK s \in Exports!Final :
            extask' = [extask EXCEPT ![j] = [st |-> "storing", status |-> s, full |-> s = "done", completed |-> exnow]]
      BY <1>3 DEF Exports!Written
    <3>2. PICK t : t = [st |-> "storing", status |-> s, full |-> s = "done", completed |-> exnow]
      OBVIOUS
    <3>3. extask' = [extask EXCEPT ![j] = t]
      BY <3>1, <3>2
    <3>4. t.st = "storing" /\ t.status \in Exports!Final
      BY <3>2
    <3> QED
      BY <3>3, <3>4
  <2>2. extask[j] # Exports!NoTask /\ t # Exports!NoTask
    BY <1>3, <2>1, ExportFields DEF Exports!Written
  <2>3. UNCHANGED <<exredis, exkv, extold, exunsaved>>
    BY <1>3 DEF Exports!Written
  <2> QED
    BY <2>1, <2>2, <2>3, ExportFields DEF ExportInv, Exports!ProgressIsReal, Exports!Final
<1>4. ASSUME NEW j \in Jobs, Exports!Store(j) PROVE ExportInv'
  <2>1. PICK e : e = Exports!Entry(extask[j].status, extask[j].full, extask[j].completed)
    OBVIOUS
  <2>2. extask[j].st = "storing" /\ e.status \in Exports!Final
    BY <1>4, <2>1, ExportFields DEF Exports!Store, ExportInv
  <2>3. /\ exkv' = [exkv EXCEPT ![j] = e] /\ extask' = [extask EXCEPT ![j] = Exports!NoTask]
        /\ UNCHANGED <<exredis, extold, exunsaved>>
    BY <1>4, <2>1 DEF Exports!Store
  <2> QED
    BY <2>2, <2>3, ExportFields DEF ExportInv, Exports!ProgressIsReal, Exports!Final
<1>5. ASSUME NEW j \in Jobs, Exports!StoreFails(j) PROVE ExportInv'
  BY <1>5, ExportFields DEF Exports!StoreFails, ExportInv, Exports!ProgressIsReal, Exports!Final
<1>6. CASE Exports!Stop
  <2>1. PICK J \in SUBSET {j \in Jobs : exredis /\ extask[j].st = "writing"} :
          exkv' = [j \in Jobs |-> IF ~exredis THEN Exports!Absent
                                  ELSE IF j \in J THEN Exports!Entry("running", FALSE, 0) ELSE exkv[j]]
    BY <1>6 DEF Exports!Stop
  <2>2. \A j \in J : extask[j].st = "writing"
    BY <2>1
  <2>3. \A j \in J : j \in Jobs /\ extask[j] # Exports!NoTask
    BY <2>1, <2>2, ExportFields
  <2>4. PICK e : e = Exports!Entry("running", FALSE, 0)
    OBVIOUS
  <2>5. e.status = "running"
    BY <2>4, ExportFields
  <2>6. exkv' = [j \in Jobs |-> IF ~exredis THEN Exports!Absent ELSE IF j \in J THEN e ELSE exkv[j]]
    BY <2>1, <2>4
  <2>7. /\ exunsaved' = exunsaved \cup {j \in Jobs : extask[j] # Exports!NoTask}
        /\ extask' = [j \in Jobs |-> Exports!NoTask] /\ UNCHANGED <<exredis, extold>>
    BY <1>6 DEF Exports!Stop
  <2> QED
    BY <2>3, <2>5, <2>6, <2>7, ExportFields DEF ExportInv, Exports!ProgressIsReal, Exports!Final
<1>7. ASSUME NEW j \in Jobs, Exports!Expire(j) PROVE ExportInv'
  BY <1>7, ExportFields DEF Exports!Expire, ExportInv, Exports!ProgressIsReal, Exports!Final
<1>8. ASSUME NEW j \in Jobs, Exports!Poll(j) \/ Exports!Download(j) PROVE ExportInv'
  <2>1. PICK s : extold' = [extold EXCEPT ![j] = s] /\ s # "nothing"
    <3>1. CASE Exports!Poll(j)
      BY <3>1 DEF Exports!Poll, ExportInv
    <3>2. CASE Exports!Download(j)
      <4>1. exkv[j].status # "nothing"
        BY DEF ExportInv
      <4>2. PICK s : s = IF exkv[j].status # "done" THEN exkv[j].status
                         ELSE IF exkv[j].full THEN "served" ELSE "no output"
        OBVIOUS
      <4>3. s # "nothing"
        BY <4>1, <4>2
      <4>4. extold' = [extold EXCEPT ![j] = s]
        BY <3>2, <4>2 DEF Exports!Download
      <4> QED
        BY <4>3, <4>4
    <3> QED
      BY <1>8, <3>1, <3>2
  <2>2. UNCHANGED <<exredis, exkv, extask, exunsaved>>
    BY <1>8 DEF Exports!Poll, Exports!Download
  <2> QED
    BY <2>1, <2>2 DEF ExportInv, Exports!ProgressIsReal
<1>9. CASE Exports!Tick \/ UNCHANGED exVars
  BY <1>9 DEF Exports!Tick, exVars, ExportInv, Exports!ProgressIsReal
<1> QED
  BY <1>1, <1>2, <1>3, <1>4, <1>5, <1>6, <1>7, <1>8, <1>9 DEF Exports!Next

\* a finished job goes when it is too old, or with the process
LEMMA FinishedStep ==
  ASSUME ExportInv, Exports!Next, NEW j \in Jobs, exkv[j].status \in Exports!Final, exkv'[j] # exkv[j]
  PROVE  /\ exkv'[j] = Exports!Absent
         /\ IF exredis THEN exnow - exkv[j].set >= Ttl
            ELSE exnow - exkv[j].completed > MaxAge \/ extask' = [i \in Jobs |-> Exports!NoTask]
<1>1. extask[j] = Exports!NoTask /\ extold[j] # "nothing" /\ extask[j].st = "none"
  BY ExportFields DEF ExportInv, Exports!Final
<1>2. ASSUME NEW i \in Jobs, Exports!Start(i)
      PROVE  exkv'[j] = Exports!Absent /\ ~exredis /\ exnow - exkv[j].completed > MaxAge
  <2>1. i # j
    BY <1>1, <1>2 DEF Exports!Start
  <2> QED
    BY <1>2, <2>1 DEF Exports!Start, Exports!Swept
<1>3. ASSUME NEW i \in Jobs, Exports!Store(i) PROVE FALSE
  <2>1. i # j
    BY <1>1, <1>3 DEF Exports!Store
  <2> QED
    BY <1>3, <2>1 DEF Exports!Store, ExportInv
<1>4. CASE Exports!Stop
  <2>1. PICK J \in SUBSET {i \in Jobs : exredis /\ extask[i].st = "writing"} :
          exkv' = [i \in Jobs |-> IF ~exredis THEN Exports!Absent
                                  ELSE IF i \in J THEN Exports!Entry("running", FALSE, 0) ELSE exkv[i]]
    BY <1>4 DEF Exports!Stop
  <2>2. j \notin J
    BY <1>1, <2>1
  <2> QED
    BY <1>4, <2>1, <2>2 DEF Exports!Stop
<1>5. ASSUME NEW i \in Jobs, Exports!Expire(i)
      PROVE  exkv'[j] = Exports!Absent /\ exredis /\ exnow - exkv[j].set >= Ttl
  BY <1>5 DEF Exports!Expire, Exports!Expired, ExportInv
<1> QED
  BY <1>2, <1>3, <1>4, <1>5 DEF Exports!Next, Exports!Tick, Exports!Run, Exports!Written, Exports!StoreFails,
     Exports!Poll, Exports!Download

LEMMA ExportMoves == [Next]_vars => [Exports!Next]_exVars
  BY DEF Next, vars, PolicyKeeps, RecallsKeeps, ResultsKeeps, LedgerKeeps, CertsKeeps, WitnessesKeeps, CapsuleKeeps,
         GateKeeps, NoticesKeeps

-------------------------------------------------------------------------------
(* Webhooks.  A webhook nobody was told of is in no list, stored or read; a task  *)
(* has posted to some of those it asked and has the others still to do.         *)

Asking == [op : {"register", "delete"}, seen : Seq(Hooks)]
Posting == [st : {"posting", "done", "lost"}, score : Scores, todo : Seq(Hooks), asked : SUBSET Hooks,
            sent : Seq(Hooks), gone : SUBSET Hooks]
Ended == {Notices!NoTask, [st |-> "lost"]}

ListTyped ==
  /\ whlist \in Seq(Hooks) /\ whexcused \in SUBSET Hooks
  /\ whrequest \in [Hooks -> Asking \cup {Notices!NoRequest}]
  /\ whsaid \in [Hooks -> {"nothing", "register", "delete", "failed"}]

\* requests read lists of the same kind
ReadLists == \A h \in Hooks : whrequest[h] # Notices!NoRequest =>
               /\ Distinct(whrequest[h].seen)
               /\ whrequest[h].op = "register" => whsaid[h] = "nothing"

Unheard == \A h \in Hooks : whsaid[h] = "nothing" =>
             /\ h \notin Items(whlist)
             /\ \A g \in Hooks : whrequest[g] # Notices!NoRequest => h \notin Items(whrequest[g].seen)

AsTold == \A h \in Hooks \ whexcused : h \in Items(whlist) <=> whsaid[h] = "register"

ListInv == ListTyped /\ Distinct(whlist) /\ ReadLists /\ Unheard /\ AsTold

\* a task has posted once to some of those it asked, the others are still to do
Sending(p) == /\ Distinct(p.todo) /\ Distinct(p.sent) /\ Items(p.todo) \cap Items(p.sent) = {}
              /\ Items(p.todo) \cup Items(p.sent) = p.asked
              /\ \A h \in p.asked : p.score >= Threshold[h] /\ h \notin p.gone
              /\ p.st = "done" => p.todo = <<>>

PostInv == /\ whpost \in [Notified -> Posting \cup Ended]
           /\ \A r \in Notified : whpost[r].st \in {"posting", "done"} => Sending(whpost[r])

LEMMA RequestKinds ==
  /\ Notices!NoRequest.op = "none" /\ Notices!NoTask.st = "none"
  /\ \A q \in Asking : q # Notices!NoRequest /\ q.op \in {"register", "delete"} /\ q.seen \in Seq(Hooks)
<1>1. Notices!NoRequest.op = "none" /\ Notices!NoTask.st = "none"
  BY DEF Notices!NoRequest, Notices!NoTask
<1> QED
  BY <1>1 DEF Asking

LEMMA HookInit == Notices!Init => ListInv /\ PostInv
<1> SUFFICES ASSUME Notices!Init PROVE ListInv /\ PostInv
  OBVIOUS
<1>1. /\ whlist = <<>> /\ whexcused = {} /\ whrequest = [h \in Hooks |-> Notices!NoRequest]
      /\ whsaid = [h \in Hooks |-> "nothing"] /\ whpost = [r \in Notified |-> Notices!NoTask]
  BY DEF Notices!Init
<1>2. whlist \in Seq(Hooks) /\ DOMAIN whlist = {} /\ Items(whlist) = {}
  BY <1>1, ItemsEmpty
<1>3. PostInv
  BY <1>1, RequestKinds DEF PostInv, Ended
<1> QED
  BY <1>1, <1>2, <1>3 DEF ListInv, ListTyped, Distinct, ReadLists, Unheard, AsTold

\* the list a request writes
LEMMA ChangedList ==
  ASSUME NEW h \in Hooks, NEW seen \in Seq(Hooks), NEW op \in {"register", "delete"}, Distinct(seen),
         op = "register" => h \notin Items(seen)
  PROVE  LET c == Notices!Changed(op, h, seen)
         IN  /\ c \in Seq(Hooks) /\ Distinct(c)
             /\ Items(c) = IF op = "register" THEN Items(seen) \cup {h} ELSE Items(seen) \ {h}
<1>1. PICK c : c = Notices!Changed(op, h, seen)
  OBVIOUS
<1>2. CASE op = "register"
  <2>1. c = Append(seen, h)
    BY <1>1, <1>2 DEF Notices!Changed
  <2> QED
    <3>1. c \in Seq(Hooks) /\ Items(c) = Items(seen) \cup {h}
      BY <2>1, ItemsAppend
    <3>2. Distinct(c)
      BY <1>2, <2>1, DistinctAppend
    <3> QED
      BY <1>1, <1>2, <3>1, <3>2
<1>3. CASE op = "delete"
  <2>1. Notices!Kept(seen, Hooks \ {h}) = Kept(seen, Hooks \ {h})
    BY DEF Notices!Kept, Kept
  <2>2. c = Kept(seen, Hooks \ {h})
    BY <1>1, <1>3, <2>1 DEF Notices!Changed
  <2>3. c \in Seq(Hooks) /\ Items(c) = Items(seen) \cap (Hooks \ {h}) /\ Distinct(c)
    BY <2>2, ItemsKept
  <2>4. Items(seen) \subseteq Hooks
    BY ItemsAre
  <2> QED
    BY <1>1, <1>3, <2>3, <2>4
<1> QED
  BY <1>2, <1>3

\* a request that writes what it read, changed, excuses what it sets back
LEMMA ListWritten ==
  ASSUME ListInv, NEW h \in Hooks, whrequest[h] # Notices!NoRequest,
         whlist' = Notices!Changed(whrequest[h].op, h, whrequest[h].seen),
         whrequest' = [whrequest EXCEPT ![h] = Notices!NoRequest],
         NEW x \in {"nothing", "register", "delete", "failed"}, whsaid' = [whsaid EXCEPT ![h] = x],
         x = "nothing" => whrequest[h].op = "delete" /\ whsaid[h] = "nothing",
         whexcused' \in SUBSET Hooks, whexcused \cup Notices!Undone(whrequest[h]) \subseteq whexcused',
         h \in whexcused' \/ x = whrequest[h].op
  PROVE  ListInv'
<1>1. PICK q \in Asking : q = whrequest[h]
  BY DEF ListInv, ListTyped
<1>2. q.op \in {"register", "delete"} /\ q.seen \in Seq(Hooks)
  BY RequestKinds
<1>3. Distinct(q.seen) /\ (q.op = "register" => h \notin Items(q.seen))
  BY <1>1 DEF ListInv, ReadLists, Unheard
<1>4. /\ whlist' \in Seq(Hooks) /\ Distinct(whlist')
      /\ Items(whlist') = IF q.op = "register" THEN Items(q.seen) \cup {h} ELSE Items(q.seen) \ {h}
  BY <1>1, <1>2, <1>3, ChangedList
<1>5. /\ whrequest'[h] = Notices!NoRequest /\ whsaid'[h] = x
      /\ \A g \in Hooks \ {h} : whrequest'[g] = whrequest[g] /\ whsaid'[g] = whsaid[g]
  BY DEF ListInv, ListTyped
<1>6. ListTyped'
  BY <1>4 DEF ListInv, ListTyped
<1>7. ReadLists'
  BY <1>5 DEF ListInv, ReadLists, Distinct
<1>8. Unheard'
  <2> SUFFICES ASSUME NEW k \in Hooks, whsaid'[k] = "nothing"
               PROVE  /\ k \notin Items(whlist')
                      /\ \A g \in Hooks : whrequest'[g] # Notices!NoRequest => k \notin Items(whrequest'[g].seen)
    BY DEF Unheard, Items
  <2>1. whsaid[k] = "nothing" /\ (k = h => q.op = "delete")
    BY <1>1, <1>5
  <2>2. k \notin Items(q.seen)
    BY <1>1, <2>1 DEF ListInv, Unheard
  <2>3. k \notin Items(whlist')
    BY <1>2, <1>4, <2>1, <2>2
  <2> QED
    BY <1>5, <2>1, <2>3 DEF ListInv, Unheard
<1>9. AsTold'
  <2> SUFFICES ASSUME NEW k \in Hooks \ whexcused' PROVE k \in Items(whlist') <=> whsaid'[k] = "register"
    BY DEF AsTold, Items
  <2>1. CASE k = h
    BY <1>1, <1>2, <1>4, <1>5, <2>1
  <2>2. CASE k # h
    <3>1. Items(q.seen) = Notices!ToSet(q.seen) /\ Items(whlist) = Notices!ToSet(whlist)
      BY DEF Items, Notices!ToSet
    <3>2. k \in Items(q.seen) <=> k \in Items(whlist)
      BY <1>1, <3>1 DEF Notices!Undone
    <3>3. k \in Items(whlist) <=> whsaid[k] = "register"
      BY DEF ListInv, AsTold
    <3> QED
      BY <1>4, <1>5, <2>2, <3>2, <3>3
  <2> QED
    BY <2>1, <2>2
<1> QED
  BY <1>4, <1>6, <1>7, <1>8, <1>9 DEF ListInv, Distinct

LEMMA UndoneHooks ==
  ASSUME ListInv, NEW q \in Asking
  PROVE  Notices!Undone(q) \subseteq Hooks
<1>1. q.seen \in Seq(Hooks) /\ whlist \in Seq(Hooks)
  BY RequestKinds DEF ListInv, ListTyped
<1>2. Notices!ToSet(q.seen) \subseteq Hooks /\ Notices!ToSet(whlist) \subseteq Hooks
  BY <1>1 DEF Notices!ToSet
<1> QED
  BY <1>2 DEF Notices!Undone

LEMMA ListStep == ListInv /\ [Notices!Next]_whVars => ListInv'
<1> SUFFICES ASSUME ListInv, [Notices!Next]_whVars PROVE ListInv'
  OBVIOUS
<1>1. ASSUME NEW h \in Hooks, Notices!Request(h) PROVE ListInv'
  <2>1. PICK op \in {"register", "delete"} : Notices!Read(op, h)
    BY <1>1 DEF Notices!Request
  <2>2. PICK q : q = [op |-> op, seen |-> whlist]
    OBVIOUS
  <2>3. q \in Asking /\ q.op = op /\ q.seen = whlist
    BY <2>2 DEF Asking, ListInv, ListTyped
  <2>4. whrequest' = [whrequest EXCEPT ![h] = q] /\ UNCHANGED <<whlist, whsaid, whexcused>>
    BY <2>1, <2>2 DEF Notices!Read
  <2>5. op = "register" => whsaid[h] = "nothing"
    BY <2>1 DEF Notices!Read
  <2>6. ListTyped' /\ \A g \in Hooks : whrequest'[g] = IF g = h THEN q ELSE whrequest[g]
    BY <2>3, <2>4 DEF ListInv, ListTyped
  <2> QED
    BY <2>3, <2>4, <2>5, <2>6 DEF ListInv, ReadLists, Unheard, AsTold, Distinct, Items
<1>2. ASSUME NEW h \in Hooks, Notices!Write(h) PROVE ListInv'
  <2>1. PICK q \in Asking : q = whrequest[h]
    BY <1>2 DEF Notices!Write, ListInv, ListTyped
  <2>2. q.op \in {"register", "delete"}
    BY RequestKinds
  <2>3. /\ whrequest[h] # Notices!NoRequest
        /\ whlist' = Notices!Changed(whrequest[h].op, h, whrequest[h].seen)
        /\ whrequest' = [whrequest EXCEPT ![h] = Notices!NoRequest]
        /\ whsaid' = [whsaid EXCEPT ![h] = q.op]
        /\ whexcused' = whexcused \cup Notices!Undone(whrequest[h])
    BY <1>2, <2>1 DEF Notices!Write
  <2>4. Notices!Undone(whrequest[h]) \subseteq Hooks
    BY <2>1, UndoneHooks
  <2>5. whexcused' \in SUBSET Hooks
    BY <2>3, <2>4 DEF ListInv, ListTyped
  <2> QED
    BY <2>1, <2>2, <2>3, <2>5, ListWritten
<1>3. ASSUME NEW h \in Hooks, Notices!Fail(h) PROVE ListInv'
  <2>1. PICK q \in Asking : q = whrequest[h]
    BY <1>3 DEF Notices!Fail, ListInv, ListTyped
  <2>2. q.op \in {"register", "delete"} /\ (q.op = "register" => whsaid[h] = "nothing")
    BY <2>1, RequestKinds DEF ListInv, ReadLists
  <2>3. PICK x : x = IF q.op = "register" THEN "failed" ELSE whsaid[h]
    OBVIOUS
  <2>4. x \in {"nothing", "register", "delete", "failed"} /\ (x = "nothing" => q.op = "delete" /\ whsaid[h] = "nothing")
    BY <2>2, <2>3 DEF ListInv, ListTyped
  <2>5. /\ whrequest[h] # Notices!NoRequest
        /\ whrequest' = [whrequest EXCEPT ![h] = Notices!NoRequest]
        /\ whsaid' = [whsaid EXCEPT ![h] = x]
    BY <1>3, <2>1, <2>3 DEF Notices!Fail
  <2>6. CASE UNCHANGED <<whlist, whexcused>>
    <3>1. \A g \in Hooks : /\ whrequest'[g] = IF g = h THEN Notices!NoRequest ELSE whrequest[g]
                           /\ whsaid'[g] = IF g = h THEN x ELSE whsaid[g]
      BY <2>5 DEF ListInv, ListTyped
    <3>2. ListTyped'
      BY <2>4, <2>5, <2>6 DEF ListInv, ListTyped
    <3>3. ReadLists'
      BY <3>1 DEF ListInv, ReadLists, Distinct
    <3>4. Unheard'
      BY <2>4, <2>6, <3>1 DEF ListInv, Unheard, Items
    <3>5. AsTold'
      BY <2>2, <2>3, <2>6, <3>1 DEF ListInv, AsTold, Unheard, Items
    <3> QED
      BY <2>6, <3>2, <3>3, <3>4, <3>5 DEF ListInv, Distinct
  <2>7. CASE /\ whlist' = Notices!Changed(whrequest[h].op, h, whrequest[h].seen)
             /\ whexcused' = whexcused \cup Notices!Undone(whrequest[h]) \cup {h}
    <3>1. Notices!Undone(whrequest[h]) \subseteq Hooks
      BY <2>1, UndoneHooks
    <3>2. whexcused' \in SUBSET Hooks /\ h \in whexcused' /\ whexcused \cup Notices!Undone(whrequest[h]) \subseteq whexcused'
      BY <2>7, <3>1 DEF ListInv, ListTyped
    <3> QED
      BY <2>1, <2>4, <2>5, <2>7, <3>2, ListWritten
  <2> QED
    BY <1>3, <2>6, <2>7 DEF Notices!Fail
<1>4. CASE Notices!Expire \/ Notices!Stop
  <2>1. \/ whlist' = whlist /\ whexcused' = whexcused
        \/ whlist' = <<>> /\ whexcused' = whexcused \cup Notices!ToSet(whlist)
    BY <1>4 DEF Notices!Expire, Notices!Stop
  <2>2. UNCHANGED <<whrequest, whsaid>>
    BY <1>4 DEF Notices!Expire, Notices!Stop
  <2>3. CASE whlist' = whlist /\ whexcused' = whexcused
    BY <2>2, <2>3 DEF ListInv, ListTyped, ReadLists, Unheard, AsTold, Distinct, Items
  <2>4. CASE whlist' = <<>> /\ whexcused' = whexcused \cup Notices!ToSet(whlist)
    <3>1. Notices!ToSet(whlist) = Items(whlist)
      BY DEF Items, Notices!ToSet
    <3>2. Items(whlist) \subseteq Hooks
      BY ItemsAre DEF ListInv, ListTyped
    <3>3. whlist' \in Seq(Hooks) /\ Items(whlist') = {} /\ DOMAIN whlist' = {}
      BY <2>4, ItemsEmpty
    <3>4. ListTyped'
      BY <2>2, <2>4, <3>1, <3>2, <3>3 DEF ListInv, ListTyped
    <3>5. AsTold'
      BY <2>2, <2>4, <3>1, <3>3 DEF ListInv, AsTold
    <3>6. Unheard' /\ ReadLists' /\ Distinct(whlist')
      BY <2>2, <3>3 DEF ListInv, Unheard, ReadLists, Distinct
    <3> QED
      BY <3>4, <3>5, <3>6 DEF ListInv
  <2> QED
    BY <2>1, <2>3, <2>4
<1>5. ASSUME NEW r \in Notified, Notices!Trigger(r) \/ Notices!TriggerFails(r) \/ Notices!Done(r) \/ Notices!Post(r)
      PROVE  UNCHANGED <<whlist, whrequest, whsaid, whexcused>>
  BY <1>5 DEF Notices!Trigger, Notices!TriggerFails, Notices!Done, Notices!Post
<1>6. UNCHANGED whVars => UNCHANGED <<whlist, whrequest, whsaid, whexcused>>
  BY DEF whVars
<1>7. ASSUME UNCHANGED <<whlist, whrequest, whsaid, whexcused>> PROVE ListInv'
  BY <1>7 DEF ListInv, ListTyped, ReadLists, Unheard, AsTold, Distinct, Items
<1> QED
  BY <1>1, <1>2, <1>3, <1>4, <1>5, <1>6, <1>7 DEF Notices!Next

LEMMA PostStep == ListInv /\ PostInv /\ [Notices!Next]_whVars => PostInv'
<1> SUFFICES ASSUME ListInv, PostInv, [Notices!Next]_whVars PROVE PostInv'
  OBVIOUS
<1>1. ASSUME NEW r \in Notified, NEW p \in Posting \cup Ended, whpost' = [whpost EXCEPT ![r] = p],
             p.st \in {"posting", "done"} => Sending(p)
      PROVE  PostInv'
  BY <1>1 DEF PostInv
<1>2. ASSUME NEW r \in Notified, Notices!Trigger(r) PROVE PostInv'
  <2>1. PICK s \in Scores :
          whpost' = [whpost EXCEPT ![r] = [st |-> "posting", score |-> s, todo |-> Notices!Eligible(s),
                                           asked |-> Notices!ToSet(Notices!Eligible(s)), sent |-> <<>>,
                                           gone |-> {h \in Hooks : whsaid[h] = "delete"} \ whexcused]]
    BY <1>2 DEF Notices!Trigger
  <2>2. PICK todo : todo = Kept(whlist, {h \in Hooks : s >= Threshold[h]})
    OBVIOUS
  <2>3. Notices!Kept(whlist, {h \in Hooks : s >= Threshold[h]}) = Kept(whlist, {h \in Hooks : s >= Threshold[h]})
    BY DEF Notices!Kept, Kept
  <2>4. Notices!Eligible(s) = todo
    BY <2>2, <2>3 DEF Notices!Eligible
  <2>5. whlist \in Seq(Hooks) /\ Distinct(whlist)
    BY DEF ListInv, ListTyped
  <2>6. todo \in Seq(Hooks) /\ Distinct(todo) /\ Items(todo) = Items(whlist) \cap {h \in Hooks : s >= Threshold[h]}
    BY <2>2, <2>5, ItemsKept
  <2>7. Notices!ToSet(todo) = Items(todo)
    BY DEF Items, Notices!ToSet
  <2>8. PICK p : p = [st |-> "posting", score |-> s, todo |-> todo, asked |-> Items(todo), sent |-> <<>>,
                      gone |-> {h \in Hooks : whsaid[h] = "delete"} \ whexcused]
    OBVIOUS
  <2>9. whpost' = [whpost EXCEPT ![r] = p]
    BY <2>1, <2>4, <2>7, <2>8
  <2>10. Items(todo) \subseteq Hooks /\ <<>> \in Seq(Hooks) /\ DOMAIN <<>> = {}
    BY <2>6
  <2>11. p \in Posting
    BY <2>6, <2>8, <2>10 DEF Posting
  <2>12. \A h \in Items(todo) : s >= Threshold[h] /\ h \notin {g \in Hooks : whsaid[g] = "delete"} \ whexcused
    <3>1. \A h \in Items(todo) \ whexcused : whsaid[h] = "register"
      BY <2>6 DEF ListInv, AsTold
    <3> QED
      BY <2>6, <3>1
  <2>13. Sending(p)
    BY <2>6, <2>8, <2>10, <2>12, ItemsEmpty DEF Sending, Distinct
  <2> QED
    BY <1>1, <2>9, <2>11, <2>13
<1>3. ASSUME NEW r \in Notified, Notices!Post(r) PROVE PostInv'
  <2>1. PICK old \in Posting : old = whpost[r] /\ old.st = "posting" /\ old.todo # <<>>
    <3>1. Notices!NoTask.st # "posting" /\ [st |-> "lost"].st # "posting"
      BY RequestKinds
    <3> QED
      BY <1>3, <3>1 DEF Notices!Post, PostInv, Ended
  <2>2. old.todo \in Seq(Hooks) /\ old.sent \in Seq(Hooks) /\ Sending(old)
    BY <2>1 DEF Posting, PostInv
  <2>3. PICK h : h = Head(old.todo)
    OBVIOUS
  <2>4. PICK todo : todo = Tail(old.todo)
    OBVIOUS
  <2>5. h \in Hooks /\ todo \in Seq(Hooks) /\ Items(old.todo) = {h} \cup Items(todo)
    BY <2>1, <2>2, <2>3, <2>4, ItemsHeadTail
  <2>6. Distinct(todo) /\ h \notin Items(todo)
    BY <2>1, <2>2, <2>3, <2>4, DistinctHeadTail DEF Sending
  <2>7. PICK sent : sent = Append(old.sent, h)
    OBVIOUS
  <2>8. sent \in Seq(Hooks) /\ Items(sent) = Items(old.sent) \cup {h}
    BY <2>2, <2>5, <2>7, ItemsAppend
  <2>9. h \notin Items(old.sent) /\ Distinct(old.sent)
    BY <2>2, <2>5 DEF Sending
  <2>10. Distinct(sent)
    BY <2>2, <2>5, <2>7, <2>9, DistinctAppend
  <2>11. PICK p : p = [old EXCEPT !.todo = todo, !.sent = sent]
    OBVIOUS
  <2>12. /\ p \in Posting /\ p.st = "posting" /\ p.todo = todo /\ p.sent = sent
         /\ p.asked = old.asked /\ p.score = old.score /\ p.gone = old.gone
    BY <2>1, <2>5, <2>8, <2>11 DEF Posting
  <2>13. whpost' = [whpost EXCEPT ![r] = p]
    BY <1>3, <2>1, <2>3, <2>4, <2>7, <2>11 DEF Notices!Post
  <2>14. Items(old.todo) \cap Items(old.sent) = {} /\ Items(old.todo) \cup Items(old.sent) = old.asked
         /\ \A g \in old.asked : old.score >= Threshold[g] /\ g \notin old.gone
    BY <2>2 DEF Sending
  <2>15. Items(todo) \cap Items(sent) = {} /\ Items(todo) \cup Items(sent) = old.asked
    BY <2>5, <2>6, <2>8, <2>14
  <2>16. Sending(p)
    BY <2>6, <2>10, <2>12, <2>14, <2>15 DEF Sending
  <2> QED
    BY <1>1, <2>12, <2>13, <2>16
<1>4. ASSUME NEW r \in Notified, Notices!Done(r) PROVE PostInv'
  <2>1. PICK old \in Posting : old = whpost[r] /\ old.st = "posting" /\ old.todo = <<>>
    <3>1. Notices!NoTask.st # "posting" /\ [st |-> "lost"].st # "posting"
      BY RequestKinds
    <3> QED
      BY <1>4, <3>1 DEF Notices!Done, PostInv, Ended
  <2>2. Sending(old)
    BY <2>1 DEF PostInv
  <2>3. PICK p : p = [old EXCEPT !.st = "done"]
    OBVIOUS
  <2>4. /\ p \in Posting /\ p.st = "done" /\ p.todo = old.todo /\ p.sent = old.sent
        /\ p.asked = old.asked /\ p.score = old.score /\ p.gone = old.gone
    BY <2>3 DEF Posting
  <2>5. whpost' = [whpost EXCEPT ![r] = p]
    BY <1>4, <2>1, <2>3 DEF Notices!Done
  <2>6. Sending(p)
    BY <2>1, <2>2, <2>4 DEF Sending
  <2> QED
    BY <1>1, <2>4, <2>5, <2>6
<1>5. ASSUME NEW r \in Notified, Notices!TriggerFails(r) PROVE PostInv'
  <2>1. PICK p : p = [st |-> "lost"]
    OBVIOUS
  <2>2. p \in Ended /\ p.st = "lost" /\ whpost' = [whpost EXCEPT ![r] = p]
    BY <1>5, <2>1 DEF Notices!TriggerFails, Ended
  <2> QED
    BY <1>1, <2>2
<1>6. CASE Notices!Stop
  <2>1. whpost' = [r \in Notified |-> Notices!Lost(whpost[r])]
    BY <1>6 DEF Notices!Stop
  <2>2. ASSUME NEW r \in Notified
        PROVE  /\ Notices!Lost(whpost[r]) \in Posting \cup Ended
               /\ Notices!Lost(whpost[r]).st \in {"posting", "done"} => Sending(Notices!Lost(whpost[r]))
    <3>1. CASE whpost[r].st = "posting"
      <4>1. PICK old \in Posting : old = whpost[r]
        <5>1. Notices!NoTask.st # "posting" /\ [st |-> "lost"].st # "posting"
          BY RequestKinds
        <5> QED
          BY <3>1, <5>1 DEF PostInv, Ended
      <4>2. PICK p : p = [old EXCEPT !.st = "lost"]
        OBVIOUS
      <4>3. p \in Posting /\ p.st = "lost"
        BY <4>2 DEF Posting
      <4>4. Notices!Lost(whpost[r]) = p
        BY <3>1, <4>1, <4>2 DEF Notices!Lost
      <4> QED
        BY <4>3, <4>4
    <3>2. CASE whpost[r].st # "posting"
      BY <3>2 DEF Notices!Lost, PostInv
    <3> QED
      BY <3>1, <3>2
  <2> QED
    BY <2>1, <2>2 DEF PostInv
<1>7. ASSUME NEW h \in Hooks, Notices!Request(h) \/ Notices!Write(h) \/ Notices!Fail(h) PROVE whpost' = whpost
  BY <1>7 DEF Notices!Request, Notices!Read, Notices!Write, Notices!Fail
<1>8. CASE Notices!Expire \/ UNCHANGED whVars
  BY <1>8 DEF Notices!Expire, whVars, PostInv
<1>9. ASSUME whpost' = whpost PROVE PostInv'
  BY <1>9 DEF PostInv
<1> QED
  BY <1>2, <1>3, <1>4, <1>5, <1>6, <1>7, <1>8, <1>9 DEF Notices!Next

LEMMA NoticesMoves == [Next]_vars => [Notices!Next]_whVars
  BY DEF Next, vars, PolicyKeeps, RecallsKeeps, ResultsKeeps, LedgerKeeps, CertsKeeps, WitnessesKeeps, CapsuleKeeps,
         GateKeeps, ExportsKeeps

\* Whatever fails, stops or expires: an export that reads as in progress has a task and a finished one stays
\* until it is too old; the list of webhooks is what administrators were told, but for requests that
\* overlapped in Redis; and a task that ended has posted once to each webhook it found eligible, and to none
\* whose deletion had been answered.
THEOREM DeliveriesAreHonest == Spec => DeliveriesHonest
<1> DEFINE Inv == ExportInv /\ ListInv /\ PostInv
<1>1. Init => Inv
  BY ExportInit, HookInit DEF Init
<1>2. Inv /\ [Next]_vars => Inv'
  BY ExportStep, ExportMoves, ListStep, PostStep, NoticesMoves
<1>3. Inv => Exports!ProgressIsReal /\ Notices!ListAsTold /\ Notices!PostedOnce
  <2> SUFFICES ASSUME Inv PROVE Exports!ProgressIsReal /\ Notices!ListAsTold /\ Notices!PostedOnce
    OBVIOUS
  <2>1. \A s : Notices!ToSet(s) = Items(s) /\ (Distinct(s) => Notices!IsInjective(s))
    BY DEF Items, Notices!ToSet, Distinct, Notices!IsInjective
  <2>2. Notices!ListAsTold
    BY <2>1 DEF ListInv, AsTold, Notices!ListAsTold
  <2>3. ASSUME NEW r \in Notified, whpost[r].st = "done"
        PROVE  /\ Notices!IsInjective(whpost[r].sent) /\ Notices!ToSet(whpost[r].sent) = whpost[r].asked
               /\ \A h \in Notices!ToSet(whpost[r].sent) : whpost[r].score >= Threshold[h] /\ h \notin whpost[r].gone
    <3>1. Sending(whpost[r])
      BY <2>3 DEF PostInv
    <3>2. Items(whpost[r].sent) = whpost[r].asked
      BY <2>3, <3>1, ItemsEmpty DEF Sending
    <3> QED
      BY <2>1, <3>1, <3>2 DEF Sending
  <2>4. Notices!PostedOnce
    BY <2>3 DEF Notices!PostedOnce
  <2> QED
    BY <2>2, <2>4 DEF ExportInv
<1> DEFINE Stays == \A j \in Jobs : exkv[j].status \in Exports!Final /\ exkv'[j] # exkv[j] =>
      /\ exkv'[j] = Exports!Absent
      /\ IF exredis THEN exnow - exkv[j].set >= Ttl
         ELSE exnow - exkv[j].completed > MaxAge \/ extask' = [i \in Jobs |-> Exports!NoTask]
<1>4. Inv /\ [Next]_vars => [Stays]_Exports!vars
  <2>1. ExportInv /\ Exports!Next => Stays
    BY FinishedStep
  <2>2. UNCHANGED exVars => UNCHANGED Exports!vars
    BY DEF exVars, Exports!vars
  <2> QED
    BY <2>1, <2>2, ExportMoves
<1>5. DeliveriesHonest <=> /\ []Exports!ProgressIsReal /\ [][Stays]_Exports!vars
                           /\ []Notices!ListAsTold /\ []Notices!PostedOnce
  BY DEF DeliveriesHonest, Exports!FinishedStays
<1> HIDE DEF Inv, Stays
<1> QED
  BY <1>1, <1>2, <1>3, <1>4, <1>5, PTL DEF Spec
-------------------------------------------------------------------------------
(* Agent actions.  The rows of a transaction share their fate; a link leads to   *)
(* a committed row or one of the same transaction, and not before any row that   *)
(* was committed when the transaction began.                                     *)

Links == Seq(Actions)
LedgerRow == [session : Sessions, hash : Links, prev : Links, tx : Nat,
              state : {"open", "committed", "rolled back"}]
BatchRecord == [tx : Nat, session : Sessions \cup {""}, todo : Seq(Actions \cup Malformed),
                prev : Links, failed : BOOLEAN]

Active(w) == albatch[w] # Ledger!Idle
Failed(w) == albatch[w].failed

LedgerTyped ==
  /\ alrows \in Seq(LedgerRow) /\ albegun \in Nat
  /\ albatch \in [Workers -> BatchRecord]
  /\ \A i \in DOMAIN alrows : alrows[i].tx \in 1..albegun /\ alrows[i].hash # <<>>
  /\ \A w \in Workers : Active(w) => albatch[w].tx \in 1..albegun /\ albatch[w].session \in Sessions

\* a transaction is of one worker, and overlaps with all that began while it was open
OwnTx ==
  /\ \A v, w \in Workers : Active(v) /\ Active(w) /\ albatch[v].tx = albatch[w].tx => v = w
  /\ \A w \in Workers : Active(w) =>
       \A n \in 1..albegun : n > albatch[w].tx => {albatch[w].tx, n} \in aloverlaps

\* the rows of a transaction share their fate, and are open as long as it is
OneState == \A i, j \in DOMAIN alrows : alrows[i].tx = alrows[j].tx => alrows[i].state = alrows[j].state
OneFate ==
  /\ OneState
  /\ \A w \in Workers : Active(w) => \A i \in DOMAIN alrows : alrows[i].tx = albatch[w].tx =>
       /\ alrows[i].session = albatch[w].session
       /\ Failed(w) => alrows[i].state = "rolled back"
       /\ ~Failed(w) => alrows[i].state = "open"

\* the hashes of a transaction get longer
Longer ==
  /\ \A i, j \in DOMAIN alrows : alrows[i].tx = alrows[j].tx /\ i < j =>
       Len(alrows[i].prev) < Len(alrows[j].prev)
  /\ \A w \in Workers : Active(w) => \A i \in DOMAIN alrows : alrows[i].tx = albatch[w].tx =>
       Len(alrows[i].prev) < Len(albatch[w].prev)

\* the rows of the session s that were committed before the transaction t began
Earlier(R, O, s, t) == {i \in DOMAIN R : /\ R[i].state = "committed" /\ R[i].session = s
                                         /\ R[i].tx < t /\ {R[i].tx, t} \notin O}

\* the row m is one that a link p of the transaction t may lead to
Leads(R, O, m, p, s, t) == /\ R[m].hash = p /\ R[m].session = s
                           /\ R[m].state = "committed" \/ R[m].tx = t
                           /\ \A i \in Earlier(R, O, s, t) : i <= m

Linked(R, O, p, s, t, n) == \/ p = <<>> /\ Earlier(R, O, s, t) = {}
                            \/ \E m \in DOMAIN R : m < n /\ Leads(R, O, m, p, s, t)

RowsLinked == \A i \in DOMAIN alrows : alrows[i].state # "rolled back" =>
                Linked(alrows, aloverlaps, alrows[i].prev, alrows[i].session, alrows[i].tx, i)

BatchesLinked == \A w \in Workers : Active(w) /\ ~Failed(w) =>
                   Linked(alrows, aloverlaps, albatch[w].prev, albatch[w].session, albatch[w].tx, Len(alrows) + 1)

LedgerInv == LedgerTyped /\ OwnTx /\ OneFate /\ Longer /\ RowsLinked /\ BatchesLinked

LEMMA LedgerInit == Ledger!Init => LedgerInv
<1> SUFFICES ASSUME Ledger!Init PROVE LedgerInv
  OBVIOUS
<1>1. alrows = <<>> /\ albegun = 0 /\ \A w \in Workers : ~Active(w)
  BY DEF Ledger!Init, Active
<1>2. DOMAIN alrows = {}
  BY <1>1
<1>3. Ledger!Idle \in BatchRecord
  BY DEF Ledger!Idle, BatchRecord, Links
<1>4. albatch \in [Workers -> BatchRecord]
  BY <1>3 DEF Ledger!Init
<1> QED
  BY <1>1, <1>2, <1>4 DEF LedgerInv, LedgerTyped, OwnTx, OneFate, OneState, Longer, RowsLinked, BatchesLinked

\* R grew into Q; what was before n is before k
Grown(R, Q, n, k) ==
  /\ \A m \in DOMAIN R : m < n => m < k
  /\ \A m \in DOMAIN R : /\ m \in DOMAIN Q /\ Q[m].hash = R[m].hash /\ Q[m].session = R[m].session
                         /\ Q[m].tx = R[m].tx /\ (R[m].state = "committed" => Q[m].state = "committed")

\* a link stays one when rows are added, and none is committed in a transaction that does not
\* overlap with it
LEMMA LinkStays ==
  ASSUME NEW R, NEW O, NEW Q, NEW P, NEW p, NEW s, NEW t, NEW n, NEW k,
         Grown(R, Q, n, k),
         Earlier(Q, P, s, t) \subseteq Earlier(R, O, s, t), Linked(R, O, p, s, t, n)
  PROVE  Linked(Q, P, p, s, t, k)
<1>1. CASE p = <<>> /\ Earlier(R, O, s, t) = {}
  BY <1>1 DEF Linked
<1>2. ASSUME NEW m \in DOMAIN R, m < n, Leads(R, O, m, p, s, t) PROVE Linked(Q, P, p, s, t, k)
  <2>1. Leads(Q, P, m, p, s, t)
    BY <1>2 DEF Leads, Grown
  <2> QED
    BY <1>2, <2>1 DEF Linked, Grown
<1> QED
  BY <1>1, <1>2 DEF Linked

\* a request goes on: rows and transactions stay
LEMMA BatchGoesOn ==
  ASSUME LedgerInv, NEW w \in Workers, NEW b \in BatchRecord, Active(w),
         albatch' = [albatch EXCEPT ![w] = b], b # Ledger!Idle,
         b.tx = albatch[w].tx, b.session = albatch[w].session, b.prev = albatch[w].prev,
         b.failed <=> Failed(w), UNCHANGED <<alrows, aloverlaps, albegun>>
  PROVE  LedgerInv'
<1>1. \A v \in Workers : /\ Active(v)' <=> Active(v)
                         /\ albatch'[v].tx = albatch[v].tx /\ albatch'[v].session = albatch[v].session
                         /\ albatch'[v].prev = albatch[v].prev
                         /\ (Failed(v)' <=> Failed(v))
  BY DEF Active, Failed, LedgerInv, LedgerTyped
<1>2. albatch' \in [Workers -> BatchRecord]
  BY DEF LedgerInv, LedgerTyped
<1>3. LedgerTyped'
  BY <1>1, <1>2 DEF LedgerInv, LedgerTyped
<1>4. OwnTx'
  BY <1>1 DEF LedgerInv, OwnTx
<1>5. OneFate'
  <2>1. ASSUME NEW v \in Workers, Active(v)', NEW i \in DOMAIN alrows', alrows'[i].tx = albatch'[v].tx
        PROVE  /\ alrows'[i].session = albatch'[v].session
               /\ Failed(v)' => alrows'[i].state = "rolled back"
               /\ ~Failed(v)' => alrows'[i].state = "open"
    <3>1. Active(v) /\ i \in DOMAIN alrows /\ alrows[i].tx = albatch[v].tx
      BY <1>1, <2>1
    <3>2. /\ alrows[i].session = albatch[v].session
          /\ Failed(v) => alrows[i].state = "rolled back"
          /\ ~Failed(v) => alrows[i].state = "open"
      BY <3>1 DEF LedgerInv, OneFate
    <3> QED
      BY <1>1, <3>2
  <2>2. OneState'
    BY DEF LedgerInv, OneFate, OneState
  <2> QED
    BY <2>1, <2>2 DEF OneFate
<1>6. Longer'
  BY <1>1 DEF LedgerInv, Longer
<1>7. RowsLinked'
  BY DEF LedgerInv, RowsLinked
<1>8. BatchesLinked'
  BY <1>1 DEF LedgerInv, BatchesLinked
<1> QED
  BY <1>3, <1>4, <1>5, <1>6, <1>7, <1>8 DEF LedgerInv

LEMMA LedgerBegin ==
  ASSUME LedgerInv, NEW w \in Workers, Ledger!Begin(w) PROVE LedgerInv'
<1>1. PICK s \in Sessions, b \in UNION {[1..n -> Actions \cup Malformed] : n \in 1..MaxBatch} :
        /\ albatch[w] = Ledger!Idle /\ albegun' = albegun + 1
        /\ albatch' = [albatch EXCEPT ![w] = [tx |-> albegun + 1, session |-> s, todo |-> b,
                                              prev |-> Ledger!TailHash(s), failed |-> FALSE]]
        /\ aloverlaps' = aloverlaps \cup {{albatch[v].tx, albegun + 1} : v \in {u \in Workers : albatch[u] # Ledger!Idle}}
        /\ UNCHANGED alrows
  BY DEF Ledger!Begin
<1> DEFINE t == albegun + 1
<1> DEFINE p == Ledger!TailHash(s)
<1> DEFINE new == [tx |-> t, session |-> s, todo |-> b, prev |-> p, failed |-> FALSE]
<1>2. b \in Seq(Actions \cup Malformed)
  BY BatchesAssumption
<1>3. \A i \in DOMAIN alrows : /\ i \in 1..Len(alrows) /\ alrows[i] \in LedgerRow
                               /\ alrows[i].tx \in 1..albegun /\ alrows[i].tx \in Nat
  BY DEF LedgerInv, LedgerTyped
<1>4. DOMAIN alrows = 1..Len(alrows) /\ Len(alrows) \in Nat
  BY DEF LedgerInv, LedgerTyped
\* the link of the batch
<1>5. p \in Links /\ \/ p = <<>> /\ Ledger!Committed(s) = {}
                     \/ \E m \in Ledger!Committed(s) : alrows[m].hash = p /\ \A i \in Ledger!Committed(s) : i <= m
  <2>1. CASE Ledger!Committed(s) = {}
    BY <2>1 DEF Ledger!TailHash, Links
  <2>2. CASE Ledger!Committed(s) # {}
    <3>1. Ledger!Committed(s) \in SUBSET (0..Len(alrows))
      BY <1>4 DEF Ledger!Committed
    <3>2. \E m \in Ledger!Committed(s) : \A i \in Ledger!Committed(s) : i <= m
      BY <1>4, <2>2, <3>1, Greatest
    <3>3. PICK m \in Ledger!Committed(s) : /\ \A i \in Ledger!Committed(s) : i <= m
                                           /\ p = alrows[m].hash
      BY <2>2, <3>2 DEF Ledger!TailHash
    <3>4. alrows[m].hash \in Links
      BY <1>3 DEF Ledger!Committed, LedgerRow
    <3> QED
      BY <3>3, <3>4
  <2> QED
    BY <2>1, <2>2
<1>6. albegun \in Nat /\ t \in Nat /\ albegun' = t /\ t # 0
  BY <1>1 DEF LedgerInv, LedgerTyped
<1>7. new \in BatchRecord
  BY <1>2, <1>5, <1>6 DEF BatchRecord
<1>8. new # Ledger!Idle
  BY <1>6 DEF Ledger!Idle
<1>9. /\ albatch'[w] = new /\ Active(w)' /\ ~Active(w)
      /\ \A v \in Workers \ {w} : albatch'[v] = albatch[v] /\ (Active(v)' <=> Active(v))
      /\ \A v \in Workers \ {w} : Failed(v)' <=> Failed(v)
  BY <1>1, <1>8 DEF Active, Failed, LedgerInv, LedgerTyped
<1>10. new.tx = t /\ new.session = s /\ new.prev = p /\ new.failed = FALSE
  OBVIOUS
<1> HIDE DEF t, p, new
<1>11. \A v \in Workers : Active(v) => {albatch[v].tx, t} \in aloverlaps' /\ albatch[v].tx \in 1..albegun
  BY <1>1, <1>6 DEF Active, LedgerInv, LedgerTyped, t
<1>12. aloverlaps \subseteq aloverlaps'
  BY <1>1
<1>13. LedgerTyped'
  <2>1. albatch' \in [Workers -> BatchRecord]
    BY <1>1, <1>7 DEF LedgerInv, LedgerTyped, new, t, p
  <2>2. \A i \in DOMAIN alrows' : alrows'[i].tx \in 1..albegun' /\ alrows'[i].hash # <<>>
    BY <1>1, <1>6 DEF LedgerInv, LedgerTyped, t
  <2>3. \A v \in Workers : Active(v)' => albatch'[v].tx \in 1..albegun' /\ albatch'[v].session \in Sessions
    BY <1>9, <1>10, <1>6 DEF LedgerInv, LedgerTyped, t
  <2> QED
    BY <1>1, <1>6, <2>1, <2>2, <2>3 DEF LedgerInv, LedgerTyped
<1>14. OwnTx'
  <2>1. ASSUME NEW u \in Workers, NEW v \in Workers, Active(u)', Active(v)', albatch'[u].tx = albatch'[v].tx PROVE u = v
    <3>1. ASSUME NEW x \in Workers \ {w}, Active(x)' PROVE albatch'[x].tx # t
      <4>1. Active(x) /\ albatch'[x] = albatch[x]
        BY <1>9, <3>1
      <4>2. albatch[x].tx \in 1..albegun
        BY <4>1, <1>11
      <4> QED
        BY <4>1, <4>2, <1>6 DEF t
    <3>2. albatch'[w].tx = t
      BY <1>9, <1>10
    <3> QED
      BY <1>9, <2>1, <3>1, <3>2 DEF LedgerInv, OwnTx
  <2>2. ASSUME NEW v \in Workers, Active(v)', NEW n \in 1..albegun', n > albatch'[v].tx
        PROVE  {albatch'[v].tx, n} \in aloverlaps'
    <3>1. CASE v = w
      BY <3>1, <2>2, <1>6, <1>9, <1>10
    <3>2. CASE v # w /\ n = t
      <4>1. albatch'[v] = albatch[v] /\ Active(v)
        BY <3>2, <1>9, <2>2
      <4>2. {albatch[v].tx, t} \in aloverlaps'
        BY <4>1, <1>11
      <4> QED
        BY <3>2, <4>1, <4>2
    <3>3. CASE v # w /\ n # t
      <4>1. n \in 1..albegun
        BY <3>3, <1>6 DEF t
      <4> QED
        BY <4>1, <3>3, <2>2, <1>9, <1>12 DEF LedgerInv, OwnTx
    <3> QED
      BY <3>1, <3>2, <3>3
  <2> QED
    BY <2>1, <2>2 DEF OwnTx
<1>t. albatch'[w].tx = t
  BY <1>9, <1>10
<1>15. \A i \in DOMAIN alrows : alrows[i].tx # t
  BY <1>3, <1>6 DEF t
<1>16. OneFate'
  <2>1. ASSUME NEW v \in Workers, Active(v)', NEW i \in DOMAIN alrows', alrows'[i].tx = albatch'[v].tx
        PROVE  /\ alrows'[i].session = albatch'[v].session
               /\ Failed(v)' => alrows'[i].state = "rolled back"
               /\ ~Failed(v)' => alrows'[i].state = "open"
    <3>1. v # w
      BY <1>1, <1>t, <1>15, <2>1
    <3> QED
      BY <1>1, <1>9, <2>1, <3>1 DEF LedgerInv, OneFate
  <2> QED
    BY <1>1, <2>1 DEF LedgerInv, OneFate, OneState
<1>17. Longer'
  <2>1. ASSUME NEW v \in Workers, Active(v)', NEW i \in DOMAIN alrows', alrows'[i].tx = albatch'[v].tx
        PROVE  Len(alrows'[i].prev) < Len(albatch'[v].prev)
    <3>1. v # w
      BY <1>1, <1>t, <1>15, <2>1
    <3> QED
      BY <1>1, <1>9, <2>1, <3>1 DEF LedgerInv, Longer
  <2> QED
    BY <1>1, <2>1 DEF LedgerInv, Longer
<1>18. \A q, x : Earlier(alrows, aloverlaps', q, x) \subseteq Earlier(alrows, aloverlaps, q, x)
  BY <1>12 DEF Earlier
<1>g. \A n : Grown(alrows, alrows, n, n)
  BY DEF Grown
<1>19. RowsLinked'
  <2> SUFFICES ASSUME NEW i \in DOMAIN alrows, alrows[i].state # "rolled back"
               PROVE  Linked(alrows, aloverlaps', alrows[i].prev, alrows[i].session, alrows[i].tx, i)
    BY <1>1 DEF RowsLinked
  <2>1. PICK q, x, y : q = alrows[i].prev /\ x = alrows[i].session /\ y = alrows[i].tx
    OBVIOUS
  <2>2. Linked(alrows, aloverlaps, q, x, y, i)
    BY <2>1 DEF LedgerInv, RowsLinked
  <2>3. Linked(alrows, aloverlaps', q, x, y, i)
    BY <1>18, <1>g, <2>2, LinkStays
  <2> QED
    BY <2>1, <2>3
<1>20. Linked(alrows, aloverlaps', p, s, t, Len(alrows) + 1)
  <2>1. Earlier(alrows, aloverlaps', s, t) \subseteq Ledger!Committed(s)
    BY DEF Earlier, Ledger!Committed
  <2>2. CASE p = <<>> /\ Ledger!Committed(s) = {}
    <3>1. Earlier(alrows, aloverlaps', s, t) = {}
      BY <2>1, <2>2
    <3> QED
      BY <2>2, <3>1 DEF Linked
  <2>3. ASSUME NEW m \in Ledger!Committed(s), alrows[m].hash = p, \A i \in Ledger!Committed(s) : i <= m
        PROVE  Linked(alrows, aloverlaps', p, s, t, Len(alrows) + 1)
    <3>1. m \in DOMAIN alrows /\ alrows[m].state = "committed" /\ alrows[m].session = s /\ m < Len(alrows) + 1
      BY <1>4 DEF Ledger!Committed
    <3>2. Leads(alrows, aloverlaps', m, p, s, t)
      BY <2>1, <2>3, <3>1 DEF Leads
    <3> QED
      BY <3>1, <3>2 DEF Linked
  <2> QED
    BY <1>5, <2>2, <2>3
<1>21. BatchesLinked'
  <2> SUFFICES ASSUME NEW v \in Workers, Active(v)', ~Failed(v)'
               PROVE  Linked(alrows, aloverlaps', albatch'[v].prev, albatch'[v].session, albatch'[v].tx, Len(alrows) + 1)
    BY <1>1 DEF BatchesLinked
  <2>1. CASE v = w
    BY <2>1, <1>9, <1>10, <1>20
  <2>2. CASE v # w
    <3>1. Linked(alrows, aloverlaps, albatch[v].prev, albatch[v].session, albatch[v].tx, Len(alrows) + 1)
      BY <1>9, <2>2 DEF LedgerInv, BatchesLinked
    <3>2. Linked(alrows, aloverlaps', albatch[v].prev, albatch[v].session, albatch[v].tx, Len(alrows) + 1)
      BY <1>18, <1>g, <3>1, LinkStays
    <3> QED
      BY <1>9, <2>2, <3>2
  <2> QED
    BY <2>1, <2>2
<1> QED
  BY <1>13, <1>14, <1>16, <1>17, <1>19, <1>21 DEF LedgerInv

LEMMA LedgerRecord ==
  ASSUME LedgerInv, NEW w \in Workers, Ledger!Record(w) PROVE LedgerInv'
<1>1. PICK q, a, h, p, t, s, new, b :
        /\ q \in Seq(Actions \cup Malformed)
        /\ a = Head(albatch[w].todo) /\ q = Tail(albatch[w].todo) /\ p = albatch[w].prev
        /\ h = Append(p, a) /\ t = albatch[w].tx /\ s = albatch[w].session
        /\ new = [session |-> s, hash |-> h, prev |-> p, tx |-> t, state |-> "open"]
        /\ b = [tx |-> t, session |-> s, todo |-> q, prev |-> h, failed |-> FALSE]
  <2>1. albatch[w].todo \in Seq(Actions \cup Malformed) /\ albatch[w].todo # <<>>
    BY DEF LedgerInv, LedgerTyped, BatchRecord, Ledger!Record
  <2>2. Tail(albatch[w].todo) \in Seq(Actions \cup Malformed)
    BY <2>1, ItemsHeadTail
  <2> QED
    BY <2>2
<1>2. Active(w) /\ ~Failed(w)
  <2>1. albatch[w].todo # <<>> /\ ~Failed(w)
    BY DEF Ledger!Record, Failed
  <2>2. Ledger!Idle.todo = <<>>
    BY DEF Ledger!Idle
  <2> QED
    BY <2>1, <2>2 DEF Active
<1>3. /\ a \in Actions /\ p \in Links /\ t \in 1..albegun /\ t \in Nat /\ s \in Sessions
      /\ albatch[w] = [tx |-> t, session |-> s, todo |-> albatch[w].todo, prev |-> p, failed |-> FALSE]
  <2>1. albatch[w] \in BatchRecord /\ albatch[w].todo # <<>> /\ a \notin Malformed
    BY <1>1 DEF LedgerInv, LedgerTyped, Ledger!Record
  <2>2. a \in Actions \cup Malformed
    BY <1>1, <2>1, ItemsHeadTail DEF BatchRecord
  <2> QED
    <3>1. albatch[w].failed = FALSE
      BY <1>2, <2>1 DEF Failed, BatchRecord
    <3>2. a \in Actions /\ p \in Links /\ t \in Nat
      BY <1>1, <2>1, <2>2 DEF BatchRecord
    <3>3. t \in 1..albegun /\ s \in Sessions
      BY <1>1, <1>2 DEF LedgerInv, LedgerTyped
    <3>4. albatch[w] = [tx |-> t, session |-> s, todo |-> albatch[w].todo, prev |-> p, failed |-> FALSE]
      BY <1>1, <2>1, <3>1 DEF BatchRecord
    <3> QED
      BY <3>2, <3>3, <3>4
<1>4. h \in Links /\ Len(h) = Len(p) + 1 /\ Len(p) \in Nat /\ h # <<>>
  <2>1. a \in Actions /\ p \in Seq(Actions) /\ h = Append(p, a)
    BY <1>1, <1>3 DEF Links
  <2>2. h \in Seq(Actions) /\ Len(h) = Len(p) + 1 /\ h # <<>>
    BY <2>1, AppendProperties
  <2>3. Len(p) \in Nat
    BY <2>1, LenProperties
  <2> QED
    BY <2>2, <2>3 DEF Links
<1>5. new \in LedgerRow /\ b \in BatchRecord /\ b # Ledger!Idle
  BY <1>1, <1>3, <1>4 DEF LedgerRow, BatchRecord, Ledger!Idle
<1>6. /\ b.tx = t /\ b.session = s /\ b.prev = h /\ ~b.failed
      /\ new.tx = t /\ new.session = s /\ new.prev = p /\ new.hash = h /\ new.state = "open"
  BY <1>1
<1>7. /\ alrows' = Append(alrows, new)
      /\ UNCHANGED <<aloverlaps, albegun>>
  BY <1>1 DEF Ledger!Record
<1>8. albatch' = [albatch EXCEPT ![w] = b]
  <2>1. PICK d : d = albatch[w].todo
    OBVIOUS
  <2>2. albatch[w] = [tx |-> t, session |-> s, todo |-> d, prev |-> p, failed |-> FALSE] /\ q = Tail(d) /\ h = Append(p, Head(d))
    BY <1>1, <1>3, <2>1
  <2>3. albatch' = [albatch EXCEPT ![w].todo = q, ![w].prev = h]
    BY <1>1 DEF Ledger!Record
  <2>4. albatch \in [Workers -> BatchRecord]
    BY DEF LedgerInv, LedgerTyped
  <2>a. PICK r : r = albatch[w]
    OBVIOUS
  <2>b. PICK g : g = [r EXCEPT !.todo = q]
    OBVIOUS
  <2>5. PICK k : k = [g EXCEPT !.prev = h]
    OBVIOUS
  <2>6. k = b
    <3>1. PICK no : no = FALSE
      OBVIOUS
    <3>2. r = [tx |-> t, session |-> s, todo |-> d, prev |-> p, failed |-> no]
      BY <2>2, <2>a, <3>1
    <3>3. g = [tx |-> t, session |-> s, todo |-> q, prev |-> p, failed |-> no]
      BY <2>b, <3>2
    <3>4. k = [tx |-> t, session |-> s, todo |-> q, prev |-> h, failed |-> no]
      BY <2>5, <3>3
    <3> QED
      BY <1>1, <3>1, <3>4
  <2>7. albatch' = [albatch EXCEPT ![w] = k]
    BY <2>3, <2>4, <2>5, <2>a, <2>b
  <2> QED
    BY <2>6, <2>7
<1>9. /\ albatch' \in [Workers -> BatchRecord] /\ albatch'[w] = b /\ Active(w)'
      /\ \A v \in Workers \ {w} : albatch'[v] = albatch[v] /\ (Active(v)' <=> Active(v))
      /\ \A v \in Workers : Failed(v)' <=> Failed(v)
  BY <1>2, <1>5, <1>6, <1>8 DEF Active, Failed, LedgerInv, LedgerTyped
<1>10. PICK n \in Nat : n = Len(alrows) /\ DOMAIN alrows = 1..n
  BY DEF LedgerInv, LedgerTyped
<1>11. /\ alrows' \in Seq(LedgerRow) /\ DOMAIN alrows' = 1..(n + 1) /\ Len(alrows') = n + 1
       /\ alrows'[n + 1] = new /\ \A i \in DOMAIN alrows : alrows'[i] = alrows[i]
  BY <1>5, <1>7, <1>10, AppendProperties DEF LedgerInv, LedgerTyped
<1>D. DOMAIN alrows' = 1..(n + 1)
  BY <1>11
<1>12. \A i \in DOMAIN alrows' : i \in DOMAIN alrows \/ i = n + 1
  BY <1>10, <1>11
<1>13. LedgerTyped'
  <2>1. \A i \in DOMAIN alrows' : alrows'[i].tx \in 1..albegun' /\ alrows'[i].hash # <<>>
    BY <1>3, <1>4, <1>6, <1>7, <1>11, <1>12 DEF LedgerInv, LedgerTyped
  <2>2. \A v \in Workers : Active(v)' => albatch'[v].tx \in 1..albegun' /\ albatch'[v].session \in Sessions
    BY <1>3, <1>6, <1>7, <1>9 DEF LedgerInv, LedgerTyped
  <2> QED
    BY <1>7, <1>9, <1>11, <2>1, <2>2 DEF LedgerInv, LedgerTyped
<1>14. \A v \in Workers : (Active(v)' <=> Active(v)) /\ albatch'[v].tx = albatch[v].tx
                          /\ albatch'[v].session = albatch[v].session
                          /\ (Failed(v)' <=> Failed(v))
  BY <1>1, <1>2, <1>6, <1>9
<1>a. LedgerTyped /\ OneState /\ OneFate
  BY DEF LedgerInv, OneFate
<1>b. \A i \in DOMAIN alrows : alrows[i].prev \in Seq(Actions) /\ Len(alrows[i].prev) \in Nat
  <2>1. \A i \in DOMAIN alrows : alrows[i] \in LedgerRow
    BY <1>a, <1>10 DEF LedgerTyped
  <2>2. \A i \in DOMAIN alrows : alrows[i].prev \in Seq(Actions)
    BY <2>1 DEF LedgerRow, Links
  <2> QED
    BY <2>2, LenProperties
<1>15. OwnTx'
  BY <1>7, <1>14 DEF LedgerInv, OwnTx
\* the rows of this transaction
<1>16. \A i \in DOMAIN alrows : alrows[i].tx = t =>
         alrows[i].session = s /\ alrows[i].state = "open" /\ Len(alrows[i].prev) < Len(p)
  BY <1>1, <1>2 DEF LedgerInv, OneFate, Longer
<1>17. \A v \in Workers : Active(v) /\ albatch[v].tx = t => v = w
  BY <1>1, <1>2 DEF LedgerInv, OwnTx
<1>18. OneFate'
  <2>1. ASSUME NEW i \in DOMAIN alrows', NEW j \in DOMAIN alrows', alrows'[i].tx = alrows'[j].tx
        PROVE  alrows'[i].state = alrows'[j].state
    <3>1. CASE i \in DOMAIN alrows /\ j \in DOMAIN alrows
      BY <1>a, <1>11, <2>1, <3>1 DEF OneState
    <3>2. CASE i = n + 1 \/ j = n + 1
      BY <1>6, <1>11, <1>12, <1>16, <2>1, <3>2
    <3> QED
      BY <1>12, <3>1, <3>2
  <2>2. ASSUME NEW v \in Workers, Active(v)', NEW i \in DOMAIN alrows', alrows'[i].tx = albatch'[v].tx
        PROVE  /\ alrows'[i].session = albatch'[v].session
               /\ Failed(v)' => alrows'[i].state = "rolled back"
               /\ ~Failed(v)' => alrows'[i].state = "open"
    <3>0. Active(v) /\ alrows'[i].tx = albatch[v].tx
      BY <1>14, <2>2
    <3>1. CASE i \in DOMAIN alrows
      <4>1. /\ alrows[i].session = albatch[v].session
            /\ Failed(v) => alrows[i].state = "rolled back"
            /\ ~Failed(v) => alrows[i].state = "open"
        BY <1>a, <1>11, <3>0, <3>1 DEF OneFate
      <4> QED
        BY <1>11, <1>14, <3>1, <4>1
    <3>2. CASE i = n + 1
      <4>1. v = w
        BY <1>6, <1>11, <1>17, <3>0, <3>2
      <4> QED
        BY <1>2, <1>6, <1>9, <1>11, <3>2, <4>1
    <3> QED
      BY <1>12, <3>1, <3>2
  <2> QED
    BY <2>1, <2>2 DEF OneFate, OneState
<1>19. Longer'
  <2>1. ASSUME NEW i \in DOMAIN alrows', NEW j \in DOMAIN alrows', alrows'[i].tx = alrows'[j].tx, i < j
        PROVE  Len(alrows'[i].prev) < Len(alrows'[j].prev)
    <3>1. i \in DOMAIN alrows
      BY <1>10, <1>11, <2>1
    <3>2. CASE j \in DOMAIN alrows
      BY <1>11, <2>1, <3>1, <3>2 DEF LedgerInv, Longer
    <3>3. CASE j = n + 1
      BY <1>6, <1>11, <1>16, <2>1, <3>1, <3>3
    <3> QED
      BY <1>12, <3>2, <3>3
  <2>2. ASSUME NEW v \in Workers, Active(v)', NEW i \in DOMAIN alrows', alrows'[i].tx = albatch'[v].tx
        PROVE  Len(alrows'[i].prev) < Len(albatch'[v].prev)
    <3>0. Active(v) /\ alrows'[i].tx = albatch[v].tx
      BY <1>14, <2>2
    <3>1. CASE v = w
      <4>1. CASE i \in DOMAIN alrows
        <5>1. Len(alrows[i].prev) < Len(p) /\ alrows'[i] = alrows[i]
          BY <1>1, <1>11, <1>16, <3>0, <3>1, <4>1
        <5>2. Len(alrows[i].prev) \in Nat
          BY <1>b, <4>1
        <5> QED
          BY <1>4, <1>6, <1>9, <3>1, <5>1, <5>2
      <4>2. CASE i = n + 1
        BY <1>4, <1>6, <1>9, <1>11, <3>1, <4>2
      <4> QED
        BY <1>12, <4>1, <4>2
    <3>2. CASE v # w
      <4>1. i \in DOMAIN alrows
        BY <1>6, <1>11, <1>12, <1>17, <3>0, <3>2
      <4> QED
        BY <1>9, <1>11, <3>0, <3>2, <4>1 DEF LedgerInv, Longer
    <3> QED
      BY <3>1, <3>2
  <2> QED
    BY <2>1, <2>2 DEF Longer
<1>20. \A x, y : Earlier(alrows', aloverlaps, x, y) \subseteq Earlier(alrows, aloverlaps, x, y)
  <2> SUFFICES ASSUME NEW x, NEW y, NEW i \in Earlier(alrows', aloverlaps, x, y)
               PROVE  i \in Earlier(alrows, aloverlaps, x, y)
    OBVIOUS
  <2>1. i # n + 1 /\ i \in DOMAIN alrows
    BY <1>6, <1>11, <1>12 DEF Earlier
  <2> QED
    BY <1>11, <2>1 DEF Earlier
<1>21. \A i, k \in Int : i <= k => Grown(alrows, alrows', i, k)
  BY <1>10, <1>11 DEF Grown
<1>c. \A i \in 1..(n + 1) : Grown(alrows, alrows', i, i)
  <2>1. \A i \in 1..(n + 1) : i \in Int /\ i <= i
    OBVIOUS
  <2> QED
    BY <1>21, <2>1
<1>22. Linked(alrows, aloverlaps, p, s, t, n + 1)
  BY <1>1, <1>2, <1>10 DEF LedgerInv, BatchesLinked
<1>23. RowsLinked'
  <2> SUFFICES ASSUME NEW i \in DOMAIN alrows', alrows'[i].state # "rolled back"
               PROVE  Linked(alrows', aloverlaps, alrows'[i].prev, alrows'[i].session, alrows'[i].tx, i)
    BY <1>7 DEF RowsLinked
  <2>1. PICK x, y, z : x = alrows'[i].prev /\ y = alrows'[i].session /\ z = alrows'[i].tx
    OBVIOUS
  <2>2. Linked(alrows, aloverlaps, x, y, z, i)
    <3>1. CASE i \in DOMAIN alrows
      BY <1>11, <2>1, <3>1 DEF LedgerInv, RowsLinked
    <3>2. CASE i = n + 1
      BY <1>6, <1>11, <1>22, <2>1, <3>2
    <3> QED
      BY <1>12, <3>1, <3>2
  <2>3. Grown(alrows, alrows', i, i)
    BY <1>D, <1>c
  <2>4. Linked(alrows', aloverlaps, x, y, z, i)
    BY <1>20, <2>2, <2>3, LinkStays
  <2> QED
    BY <2>1, <2>4
<1>24. Linked(alrows', aloverlaps, h, s, t, n + 2)
  <2>1. n + 1 \in DOMAIN alrows' /\ n + 1 < n + 2
    BY <1>11
  <2>2. \A i \in Earlier(alrows', aloverlaps, s, t) : i <= n + 1
    BY <1>11 DEF Earlier
  <2>3. Leads(alrows', aloverlaps, n + 1, h, s, t)
    BY <1>6, <1>11, <2>2 DEF Leads
  <2> QED
    BY <2>1, <2>3 DEF Linked
<1>25. BatchesLinked'
  <2> SUFFICES ASSUME NEW v \in Workers, Active(v)', ~Failed(v)'
               PROVE  Linked(alrows', aloverlaps, albatch'[v].prev, albatch'[v].session, albatch'[v].tx, n + 2)
    <3>1. Len(alrows') + 1 = n + 2
      BY <1>11
    <3> QED
      BY <1>7, <3>1 DEF BatchesLinked
  <2>1. CASE v = w
    BY <1>6, <1>9, <1>24, <2>1
  <2>2. CASE v # w
    <3>1. PICK x, y, z : x = albatch[v].prev /\ y = albatch[v].session /\ z = albatch[v].tx
      OBVIOUS
    <3>2. Linked(alrows, aloverlaps, x, y, z, n + 1)
      BY <1>9, <1>10, <2>2, <3>1 DEF LedgerInv, BatchesLinked
    <3>3. Grown(alrows, alrows', n + 1, n + 2)
      BY <1>21
    <3>4. Linked(alrows', aloverlaps, x, y, z, n + 2)
      BY <1>20, <3>2, <3>3, LinkStays
    <3> QED
      BY <1>9, <2>2, <3>1, <3>4
  <2> QED
    BY <2>1, <2>2
<1> QED
  BY <1>13, <1>15, <1>18, <1>19, <1>23, <1>25 DEF LedgerInv

\* the transaction of w ends in the state x, and its request is b
Resolved(w, b, x) ==
  /\ Active(w) /\ b \in BatchRecord /\ x \in {"committed", "rolled back"}
  /\ Ledger!Resolve(w, x) /\ (x = "committed" => ~Failed(w))
  /\ albatch' = [albatch EXCEPT ![w] = b]
  /\ b # Ledger!Idle => /\ x = "rolled back" /\ b.failed /\ b.tx = albatch[w].tx
                        /\ b.session = albatch[w].session /\ b.prev = albatch[w].prev
  /\ aloverlaps' = aloverlaps /\ albegun' = albegun

LEMMA LedgerResolve ==
  ASSUME LedgerInv, NEW w \in Workers, NEW b, NEW x, Resolved(w, b, x)
  PROVE  LedgerInv'
<1>0. Active(w) /\ aloverlaps' = aloverlaps /\ albegun' = albegun
  BY DEF Resolved
<1>a. LedgerTyped /\ OneState /\ OneFate /\ OwnTx
  BY DEF LedgerInv, OneFate
<1>1. PICK n \in Nat : n = Len(alrows) /\ DOMAIN alrows = 1..n
  <2>1. alrows \in Seq(LedgerRow)
    BY <1>a DEF LedgerTyped
  <2> QED
    BY <2>1, LenProperties
<1>2. PICK t : t = albatch[w].tx
  OBVIOUS
<1>3. \A i \in DOMAIN alrows : alrows[i] \in LedgerRow /\ alrows[i].tx \in Nat
  <2>0. alrows \in Seq(LedgerRow)
    BY <1>a DEF LedgerTyped
  <2>1. \A i \in DOMAIN alrows : alrows[i] \in LedgerRow
    BY <2>0, LenProperties
  <2> QED
    BY <2>1 DEF LedgerRow
<1>4. \A i \in DOMAIN alrows : [alrows[i] EXCEPT !.state = x] \in LedgerRow
  <2>1. x \in {"open", "committed", "rolled back"}
    BY DEF Resolved
  <2> QED
    BY <1>3, <2>1 DEF LedgerRow
<1>5. /\ DOMAIN alrows' = DOMAIN alrows
      /\ \A i \in DOMAIN alrows : alrows'[i] = IF alrows[i].tx = t THEN [alrows[i] EXCEPT !.state = x] ELSE alrows[i]
  BY <1>2 DEF Resolved, Ledger!Resolve
<1>D. DOMAIN alrows' = DOMAIN alrows
  BY <1>5
<1>6. alrows' = [i \in 1..n |-> alrows'[i]] /\ \A i \in 1..n : alrows'[i] \in LedgerRow
  <2>1. alrows' = [i \in DOMAIN alrows |-> alrows'[i]]
    BY DEF Resolved, Ledger!Resolve
  <2> QED
    BY <1>1, <1>3, <1>4, <1>5, <2>1
<1>7. alrows' \in Seq(LedgerRow) /\ Len(alrows') = n
  <2>1. PICK f : f = alrows'
    OBVIOUS
  <2>2. f = [i \in 1..n |-> f[i]] /\ \A i \in 1..n : f[i] \in LedgerRow
    BY <1>6, <2>1
  <2>3. f \in [1..n -> LedgerRow]
    <3> HIDE DEF LedgerRow
    <3> QED
      BY <2>2
  <2> QED
    BY <2>1, <2>3, FunctionSeq
<1>8. \A i \in DOMAIN alrows :
        /\ alrows'[i].session = alrows[i].session /\ alrows'[i].hash = alrows[i].hash
        /\ alrows'[i].prev = alrows[i].prev /\ alrows'[i].tx = alrows[i].tx
        /\ alrows'[i].state = IF alrows[i].tx = t THEN x ELSE alrows[i].state
  BY <1>3, <1>5 DEF LedgerRow
\* the batch
<1>9. /\ albatch' \in [Workers -> BatchRecord] /\ albatch'[w] = b
      /\ \A v \in Workers \ {w} : albatch'[v] = albatch[v] /\ (Active(v)' <=> Active(v))
      /\ Active(w)' => b # Ledger!Idle /\ b.failed /\ Failed(w)'
      /\ \A v \in Workers \ {w} : Failed(v)' <=> Failed(v)
  <2>1. albatch \in [Workers -> BatchRecord]
    BY <1>a DEF LedgerTyped
  <2> QED
    BY <2>1 DEF Resolved, Active, Failed
<1>b. Active(w)' => b.tx = albatch[w].tx /\ b.session = albatch[w].session /\ b.prev = albatch[w].prev /\ x = "rolled back"
  BY <1>9 DEF Resolved
<1>10. \A v \in Workers : Active(v)' => /\ Active(v) /\ albatch'[v].tx = albatch[v].tx
                                        /\ albatch'[v].session = albatch[v].session
                                        /\ albatch'[v].prev = albatch[v].prev
  BY <1>0, <1>9, <1>b
<1>11. LedgerTyped'
  <2>1. \A i \in DOMAIN alrows' : alrows'[i].tx \in 1..albegun' /\ alrows'[i].hash # <<>>
    BY <1>0, <1>a, <1>D, <1>8 DEF LedgerTyped
  <2>2. \A v \in Workers : Active(v)' => albatch'[v].tx \in 1..albegun' /\ albatch'[v].session \in Sessions
    BY <1>0, <1>a, <1>10 DEF LedgerTyped
  <2> QED
    BY <1>0, <1>a, <1>7, <1>9, <2>1, <2>2 DEF LedgerTyped
<1>12. OwnTx'
  <2>1. \A u, v \in Workers : Active(u)' /\ Active(v)' /\ albatch'[u].tx = albatch'[v].tx => u = v
    BY <1>a, <1>10 DEF OwnTx
  <2>2. \A v \in Workers : Active(v)' =>
          \A k \in 1..albegun' : k > albatch'[v].tx => {albatch'[v].tx, k} \in aloverlaps'
    <3> SUFFICES ASSUME NEW v \in Workers, Active(v)', NEW k \in 1..albegun, k > albatch[v].tx
                 PROVE  {albatch[v].tx, k} \in aloverlaps
      BY <1>0, <1>10
    <3> QED
      BY <1>a, <1>10 DEF OwnTx
  <2> QED
    BY <2>1, <2>2 DEF OwnTx
<1>13. \A i \in DOMAIN alrows : alrows[i].tx = t => alrows[i].state # "committed"
                                                    /\ (x = "committed" => alrows[i].state # "rolled back")
  BY <1>0, <1>a, <1>2 DEF OneFate, Resolved
<1>14. OneFate'
  <2>1. OneState'
    <3>1. \A i, j \in DOMAIN alrows : alrows'[i].tx = alrows'[j].tx => alrows'[i].state = alrows'[j].state
      <4>1. \A i, j \in DOMAIN alrows : alrows[i].tx = alrows[j].tx => alrows[i].state = alrows[j].state
        BY <1>a DEF OneState
      <4> TAKE i, j \in DOMAIN alrows
      <4>2. alrows'[i].tx = alrows'[j].tx => alrows[i].state = alrows[j].state /\ alrows[i].tx = alrows[j].tx
        BY <1>8, <4>1
      <4> QED
        BY <1>8, <4>2
    <3> QED
      BY <1>D, <3>1 DEF OneState
  <2>2. ASSUME NEW v \in Workers, Active(v)', NEW i \in DOMAIN alrows', alrows'[i].tx = albatch'[v].tx
        PROVE  /\ alrows'[i].session = albatch'[v].session
               /\ Failed(v)' => alrows'[i].state = "rolled back"
               /\ ~Failed(v)' => alrows'[i].state = "open"
    <3>1. Active(v) /\ i \in DOMAIN alrows /\ alrows[i].tx = albatch[v].tx
      BY <1>5, <1>8, <1>10, <2>2
    <3>2. /\ alrows[i].session = albatch[v].session
          /\ Failed(v) => alrows[i].state = "rolled back"
          /\ ~Failed(v) => alrows[i].state = "open"
      BY <1>a, <3>1 DEF OneFate
    <3>3. CASE v = w
      <4>1. b.failed /\ x = "rolled back" /\ alrows'[i].state = x
        BY <1>2, <1>8, <1>9, <1>b, <2>2, <3>1, <3>3
      <4> QED
        BY <1>8, <1>9, <1>10, <2>2, <3>1, <3>2, <3>3, <4>1
    <3>4. CASE v # w
      <4>1. alrows[i].tx # t
        BY <1>0, <1>2, <3>1, <3>4 DEF LedgerInv, OwnTx
      <4> QED
        BY <1>8, <1>9, <3>1, <3>2, <3>4, <4>1
    <3> QED
      BY <3>3, <3>4
  <2> QED
    BY <2>1, <2>2 DEF OneFate
<1>15. Longer'
  <2>1. \A i, j \in DOMAIN alrows' : alrows'[i].tx = alrows'[j].tx /\ i < j =>
          Len(alrows'[i].prev) < Len(alrows'[j].prev)
    BY <1>D, <1>8 DEF LedgerInv, Longer
  <2>2. \A v \in Workers : Active(v)' => \A i \in DOMAIN alrows' : alrows'[i].tx = albatch'[v].tx =>
          Len(alrows'[i].prev) < Len(albatch'[v].prev)
    <3> SUFFICES ASSUME NEW v \in Workers, Active(v)', NEW i \in DOMAIN alrows, alrows[i].tx = albatch[v].tx
                 PROVE  Len(alrows[i].prev) < Len(albatch[v].prev)
      BY <1>D, <1>8, <1>10
    <3> QED
      BY <1>10 DEF LedgerInv, Longer
  <2> QED
    BY <2>1, <2>2 DEF Longer
\* what commits now overlaps with everything that began after it
<1>16. \A s, k : k \in 1..albegun => Earlier(alrows', aloverlaps, s, k) \subseteq Earlier(alrows, aloverlaps, s, k)
  <2> SUFFICES ASSUME NEW s, NEW k \in 1..albegun, NEW i \in Earlier(alrows', aloverlaps, s, k)
               PROVE  i \in Earlier(alrows, aloverlaps, s, k)
    OBVIOUS
  <2>1. /\ i \in DOMAIN alrows /\ alrows'[i].state = "committed" /\ alrows[i].session = s
        /\ alrows[i].tx < k /\ {alrows[i].tx, k} \notin aloverlaps
    BY <1>5, <1>8 DEF Earlier
  <2>2. alrows[i].tx # t
    <3>1. t < k => {t, k} \in aloverlaps
      BY <1>0, <1>2 DEF LedgerInv, LedgerTyped, OwnTx
    <3> QED
      BY <2>1, <3>1
  <2>3. alrows[i].state = "committed"
    BY <1>8, <2>1, <2>2
  <2> QED
    BY <2>1, <2>3 DEF Earlier
<1>17. \A k : Grown(alrows, alrows', k, k)
  <2>1. \A m \in DOMAIN alrows : alrows[m].state = "committed" => alrows'[m].state = "committed"
    BY <1>8, <1>13
  <2> QED
    BY <1>5, <1>8, <2>1 DEF Grown
<1>18. RowsLinked'
  <2> SUFFICES ASSUME NEW i \in DOMAIN alrows', alrows'[i].state # "rolled back"
               PROVE  Linked(alrows', aloverlaps, alrows'[i].prev, alrows'[i].session, alrows'[i].tx, i)
    BY <1>0 DEF RowsLinked
  <2>1. PICK y, z, k : y = alrows[i].prev /\ z = alrows[i].session /\ k = alrows[i].tx
    OBVIOUS
  <2>2. i \in DOMAIN alrows /\ alrows[i].state # "rolled back" /\ k \in 1..albegun
    <3>1. x = "rolled back" \/ x = "committed"
      BY DEF Resolved
    <3>2. i \in DOMAIN alrows
      BY <1>D
    <3>3. alrows[i].state # "rolled back"
      BY <1>8, <1>13, <3>1, <3>2
    <3>4. alrows[i].tx \in 1..albegun
      BY <1>a, <3>2 DEF LedgerTyped
    <3> QED
      BY <2>1, <3>2, <3>3, <3>4
  <2>3. Linked(alrows, aloverlaps, y, z, k, i)
    BY <2>1, <2>2 DEF LedgerInv, RowsLinked
  <2>4. Linked(alrows', aloverlaps, y, z, k, i)
    BY <1>16, <1>17, <2>2, <2>3, LinkStays
  <2> QED
    BY <1>8, <2>1, <2>2, <2>4
<1>19. BatchesLinked'
  <2> SUFFICES ASSUME NEW v \in Workers, Active(v)', ~Failed(v)'
               PROVE  Linked(alrows', aloverlaps, albatch'[v].prev, albatch'[v].session, albatch'[v].tx, n + 1)
    BY <1>0, <1>7 DEF BatchesLinked
  <2>1. v # w
    BY <1>9, <1>b
  <2>2. PICK y, z, k : y = albatch[v].prev /\ z = albatch[v].session /\ k = albatch[v].tx
    OBVIOUS
  <2>3. Active(v) /\ ~Failed(v) /\ k \in 1..albegun
    BY <1>9, <2>1, <2>2 DEF LedgerInv, LedgerTyped
  <2>4. Linked(alrows, aloverlaps, y, z, k, n + 1)
    BY <1>1, <2>2, <2>3 DEF LedgerInv, BatchesLinked
  <2>5. Linked(alrows', aloverlaps, y, z, k, n + 1)
    BY <1>16, <1>17, <2>3, <2>4, LinkStays
  <2> QED
    BY <1>9, <2>1, <2>2, <2>5
<1> QED
  BY <1>11, <1>12, <1>14, <1>15, <1>18, <1>19 DEF LedgerInv

LEMMA LedgerStep == LedgerInv /\ [Ledger!Next]_alVars => LedgerInv'
<1> SUFFICES ASSUME LedgerInv, [Ledger!Next]_alVars PROVE LedgerInv'
  OBVIOUS
<1>1. CASE UNCHANGED alVars
  BY <1>1 DEF alVars, LedgerInv, LedgerTyped, OwnTx, OneFate, OneState, Longer, RowsLinked, BatchesLinked,
              Active, Failed
<1>2. Ledger!Idle \in BatchRecord
  BY DEF Ledger!Idle, BatchRecord, Links
<1>3. \A w \in Workers : albatch[w] \in BatchRecord
  BY DEF LedgerInv, LedgerTyped
<1>4. ASSUME NEW w \in Workers, albatch[w].todo # <<>> PROVE Active(w)
  <2>1. Ledger!Idle.todo = <<>>
    BY DEF Ledger!Idle
  <2> QED
    BY <1>4, <2>1 DEF Active
<1>5. ASSUME NEW w \in Workers, Ledger!Skip(w) PROVE LedgerInv'
  <2>1. PICK r, q : r = albatch[w] /\ q = Tail(albatch[w].todo)
    OBVIOUS
  <2>2. PICK b : b = [r EXCEPT !.todo = q]
    OBVIOUS
  <2>3. r \in BatchRecord /\ q \in Seq(Actions \cup Malformed)
    <3>1. r \in BatchRecord /\ r.todo \in Seq(Actions \cup Malformed) /\ r.todo # <<>>
      BY <1>3, <1>5, <2>1 DEF BatchRecord, Ledger!Skip
    <3> QED
      BY <2>1, <3>1, ItemsHeadTail
  <2>4. /\ b \in BatchRecord /\ b.tx = r.tx /\ b.session = r.session /\ b.prev = r.prev
        /\ b.failed = r.failed
    BY <2>2, <2>3 DEF BatchRecord
  <2>5. Active(w) /\ b # Ledger!Idle
    <3>1. Active(w)
      BY <1>4, <1>5 DEF Ledger!Skip
    <3>2. r.tx # 0
      BY <2>1, <3>1 DEF LedgerInv, LedgerTyped
    <3> QED
      <4>1. Ledger!Idle.tx = 0
        BY DEF Ledger!Idle
      <4> QED
        BY <2>4, <3>1, <3>2, <4>1
  <2>6. albatch' = [albatch EXCEPT ![w] = b] /\ UNCHANGED <<alrows, aloverlaps, albegun>>
    BY <1>5, <2>1, <2>2 DEF Ledger!Skip
  <2>7. b.failed <=> Failed(w)
    BY <2>1, <2>4 DEF Failed
  <2> QED
    BY <2>1, <2>4, <2>5, <2>6, <2>7, BatchGoesOn
<1>6. ASSUME NEW w \in Workers, Ledger!FlushFails(w) PROVE LedgerInv'
  <2>1. PICK r, q, yes : r = albatch[w] /\ q = Tail(albatch[w].todo) /\ yes = TRUE
    OBVIOUS
  <2>2. PICK g : g = [r EXCEPT !.failed = yes]
    OBVIOUS
  <2>b. PICK b : b = [g EXCEPT !.todo = q]
    OBVIOUS
  <2>3. r \in BatchRecord /\ q \in Seq(Actions \cup Malformed)
    <3>1. r \in BatchRecord /\ r.todo \in Seq(Actions \cup Malformed) /\ r.todo # <<>>
      BY <1>3, <1>6, <2>1 DEF BatchRecord, Ledger!FlushFails
    <3> QED
      BY <2>1, <3>1, ItemsHeadTail
  <2>4. g \in BatchRecord /\ g.tx = r.tx /\ g.session = r.session /\ g.prev = r.prev /\ g.failed = yes
    BY <2>1, <2>2, <2>3 DEF BatchRecord
  <2>5. b \in BatchRecord /\ b.tx = r.tx /\ b.session = r.session /\ b.prev = r.prev /\ b.failed = yes
    BY <2>b, <2>3, <2>4 DEF BatchRecord
  <2>6. albatch' = [albatch EXCEPT ![w] = b]
    <3>1. albatch' = [albatch EXCEPT ![w].failed = yes, ![w].todo = q]
      BY <1>6, <2>1 DEF Ledger!FlushFails
    <3>2. albatch \in [Workers -> BatchRecord]
      BY DEF LedgerInv, LedgerTyped
    <3> QED
      BY <2>1, <2>2, <2>b, <3>1, <3>2
  <2>7. Active(w)
    BY <1>4, <1>6 DEF Ledger!FlushFails
  <2>8. Resolved(w, b, "rolled back")
    BY <1>6, <2>1, <2>5, <2>6, <2>7 DEF Resolved, Ledger!FlushFails
  <2> QED
    BY <2>8, LedgerResolve
<1>7. ASSUME NEW w \in Workers, Ledger!Commit(w) PROVE LedgerInv'
  <2>1. Resolved(w, Ledger!Idle, "committed")
    BY <1>2, <1>7 DEF Resolved, Ledger!Commit, Active, Failed
  <2> QED
    BY <2>1, LedgerResolve
<1>8. ASSUME NEW w \in Workers, Ledger!Rollback(w) PROVE LedgerInv'
  <2>1. Resolved(w, Ledger!Idle, "rolled back")
    BY <1>2, <1>8 DEF Resolved, Ledger!Rollback, Active
  <2> QED
    BY <2>1, LedgerResolve
<1> QED
  BY <1>1, <1>5, <1>6, <1>7, <1>8, LedgerBegin, LedgerRecord DEF Ledger!Next

LEMMA LedgerMoves == [Next]_vars => [Ledger!Next]_alVars
  BY DEF Next, vars, PolicyKeeps, RecallsKeeps, ResultsKeeps, CertsKeeps, WitnessesKeeps, CapsuleKeeps,
         GateKeeps, ExportsKeeps, NoticesKeeps

\* a committed action is linked to a committed one before it
LEMMA LinksHold == LedgerInv => Ledger!LinksKept
<1> SUFFICES ASSUME LedgerInv, NEW s \in Sessions, NEW i \in Ledger!Committed(s), alrows[i].prev # <<>>
             PROVE  \E j \in Ledger!Committed(s) : j < i /\ alrows[j].hash = alrows[i].prev
  BY DEF Ledger!LinksKept
<1>1. i \in DOMAIN alrows /\ alrows[i].state = "committed" /\ alrows[i].session = s
  BY DEF Ledger!Committed
<1>2. Linked(alrows, aloverlaps, alrows[i].prev, alrows[i].session, alrows[i].tx, i)
  BY <1>1 DEF LedgerInv, RowsLinked
<1>3. PICK m \in DOMAIN alrows :
        m < i /\ Leads(alrows, aloverlaps, m, alrows[i].prev, alrows[i].session, alrows[i].tx)
  BY <1>2 DEF Linked
<1>4. alrows[m].hash = alrows[i].prev /\ alrows[m].session = s
      /\ (alrows[m].state = "committed" \/ alrows[m].tx = alrows[i].tx)
  BY <1>1, <1>3 DEF Leads
<1>5. alrows[m].state = "committed"
  BY <1>1, <1>4 DEF LedgerInv, OneFate, OneState
<1> QED
  BY <1>3, <1>4, <1>5 DEF Ledger!Committed

\* two rows of a transaction, or of two that did not overlap, are linked to different rows
LEMMA ForkOverlaps ==
  ASSUME LedgerInv, NEW s \in Sessions, NEW i \in Ledger!Committed(s), NEW j \in Ledger!Committed(s),
         alrows[i].tx < alrows[j].tx, alrows[i].prev = alrows[j].prev, {alrows[i].tx, alrows[j].tx} \notin aloverlaps
  PROVE  \E k, l \in Ledger!Committed(s) : k # l /\ alrows[k].hash = alrows[i].prev /\ alrows[l].hash = alrows[i].prev
<1>0. DOMAIN alrows \subseteq Nat
  BY LenProperties DEF LedgerInv, LedgerTyped
<1>1. /\ i \in DOMAIN alrows /\ alrows[i].state = "committed" /\ alrows[i].session = s
      /\ j \in DOMAIN alrows /\ alrows[j].state = "committed" /\ alrows[j].session = s
  BY DEF Ledger!Committed
<1>2. PICK p, t : p = alrows[j].prev /\ t = alrows[j].tx
  OBVIOUS
<1>3. i \in Earlier(alrows, aloverlaps, s, t)
  BY <1>1, <1>2 DEF Earlier
<1>4. Linked(alrows, aloverlaps, p, s, t, j)
  BY <1>1, <1>2 DEF LedgerInv, RowsLinked
<1>5. PICK m \in DOMAIN alrows : m < j /\ Leads(alrows, aloverlaps, m, p, s, t)
  BY <1>3, <1>4 DEF Linked
<1>6. alrows[m].hash = p /\ alrows[m].session = s /\ i <= m /\ (alrows[m].state = "committed" \/ alrows[m].tx = t)
  BY <1>3, <1>5 DEF Leads
<1>7. m \in Ledger!Committed(s)
  BY <1>1, <1>2, <1>6 DEF Ledger!Committed, LedgerInv, OneFate, OneState
<1>8. p # <<>>
  BY <1>6 DEF LedgerInv, LedgerTyped
<1>9. PICK k \in Ledger!Committed(s) : k < i /\ alrows[k].hash = p
  BY <1>2, <1>8, LinksHold DEF Ledger!LinksKept
<1>10. k # m
  BY <1>0, <1>1, <1>6, <1>9 DEF Ledger!Committed
<1> QED
  BY <1>2, <1>6, <1>7, <1>9, <1>10

LEMMA ForksHold == LedgerInv => Ledger!ForksOverlap
<1> SUFFICES ASSUME LedgerInv, NEW s \in Sessions, NEW i \in Ledger!Committed(s), NEW j \in Ledger!Committed(s),
                    i # j, alrows[i].prev = alrows[j].prev, {alrows[i].tx, alrows[j].tx} \notin aloverlaps
             PROVE  Ledger!Cardinality({k \in Ledger!Committed(s) : alrows[k].hash = alrows[i].prev}) > 1
  BY DEF Ledger!ForksOverlap
<1>1. Ledger!Committed(s) \subseteq 1..Len(alrows) /\ Len(alrows) \in Nat /\ alrows \in Seq(LedgerRow)
  BY LenProperties DEF LedgerInv, LedgerTyped, Ledger!Committed
<1>2. \A x \in Ledger!Committed(s) : alrows[x].tx \in Nat /\ Len(alrows[x].prev) \in Nat /\ x \in DOMAIN alrows
  <2>1. \A x \in Ledger!Committed(s) : alrows[x] \in LedgerRow /\ x \in DOMAIN alrows
    BY <1>1, LenProperties
  <2>2. \A x \in Ledger!Committed(s) : alrows[x].prev \in Seq(Actions) /\ alrows[x].tx \in Nat
    BY <2>1 DEF LedgerRow, Links
  <2> QED
    BY <2>1, <2>2, LenProperties
<1>3. alrows[i].tx # alrows[j].tx
  <2>1. i < j \/ j < i
    BY <1>1
  <2> QED
    BY <1>2, <2>1 DEF LedgerInv, Longer
<1>4. PICK K : K = {k \in Ledger!Committed(s) : alrows[k].hash = alrows[i].prev}
  OBVIOUS
<1>5. PICK k \in K, l \in K : k # l
  <2>1. CASE alrows[i].tx < alrows[j].tx
    BY <1>4, <2>1, ForkOverlaps
  <2>2. CASE alrows[j].tx < alrows[i].tx
    <3>1. {alrows[j].tx, alrows[i].tx} \notin aloverlaps
      <4>1. {alrows[j].tx, alrows[i].tx} = {alrows[i].tx, alrows[j].tx}
        OBVIOUS
      <4> QED
        BY <4>1
    <3> QED
      BY <1>4, <2>2, <3>1, ForkOverlaps
  <2> QED
    BY <1>2, <1>3, <2>1, <2>2
<1>6. IsFiniteSet(K)
  <2>1. K \subseteq 1..Len(alrows)
    BY <1>1, <1>4
  <2>2. IsFiniteSet(1..Len(alrows))
    BY <1>1, FS_Interval
  <2> QED
    BY <2>1, <2>2, FS_Subset
<1>7. Cardinality(K) > 1
  <2>1. {k, l} \subseteq K /\ IsFiniteSet({k}) /\ IsFiniteSet({l})
    BY FS_Singleton
  <2>2. Cardinality({k, l}) = 2
    <3>1. Cardinality({k}) = 1 /\ IsFiniteSet({k}) /\ l \notin {k}
      BY <1>5, FS_Singleton
    <3>2. Cardinality({k} \cup {l}) = 2
      BY <3>1, FS_AddElement
    <3>3. {k, l} = {k} \cup {l}
      OBVIOUS
    <3> QED
      BY <3>2, <3>3
  <2>3. Cardinality({k, l}) <= Cardinality(K) /\ Cardinality(K) \in Nat
    BY <1>6, <2>1, FS_Subset, FS_CardinalityType
  <2> QED
    BY <2>2, <2>3
<1>8. Ledger!Cardinality(K) = Cardinality(K)
  BY DEF Ledger!Cardinality, Cardinality
<1> QED
  BY <1>4, <1>7, <1>8

\* A committed action is linked to a committed one of its session, whatever fails between two
\* actions of a batch, and a chain forks only where batches overlapped or where an action
\* stands there twice (agent_action_service.py:234, 337-357).
THEOREM ActionsLinked == Spec => []Ledger!LinksKept /\ []Ledger!ForksOverlap
<1>1. Init => LedgerInv
  BY LedgerInit DEF Init
<1>2. LedgerInv /\ [Next]_vars => LedgerInv'
  BY LedgerStep, LedgerMoves
<1>3. LedgerInv => Ledger!LinksKept /\ Ledger!ForksOverlap
  BY LinksHold, ForksHold
<1> QED
  BY <1>1, <1>2, <1>3, PTL DEF Spec

-------------------------------------------------------------------------------
(* Reviews and the merge gate.  A review is stored after it began, and its depth *)
(* is that of its time; the tracker runs only for a command that was not         *)
(* answered.                                                                     *)

Times == 0..MaxMinutes

\* what a command signs: time of an earlier command only if one is still there
Signed(r) ==
  /\ r.lines \in Nat /\ r.seconds \in Nat /\ r.comments \in Nat
  /\ r.from < r.invoked => r.after # {}

CommandsTyped ==
  /\ DOMAIN gacommand = Commands
  /\ \A c \in Commands :
       /\ gacommand[c].st = "prompt" =>
            /\ gacommand[c].invoked \in Times /\ gacommand[c].invoked <= ganow
            /\ Gate!Running /\ gastarted < gacommand[c].invoked => gacommand[c].after # {}
       /\ gacommand[c].st = "posted" => Signed(gacommand[c])
       /\ gacommand[c].st = "open" => /\ gacommand[c].at \in Times /\ gacommand[c].at <= ganow
                                      /\ Signed(gacommand[c].review)

\* the tracker runs for a command
Tracked == Gate!Running => /\ gastarted <= ganow
                           /\ \E c \in Commands : gacommand[c].st \notin {"idle", "answered"}

Timely(r) ==
  /\ r.at \in Times /\ r.stored \in Times /\ r.at <= r.stored
  /\ r.depth \in {"shallow", "adequate", "deep"}
  /\ r.depth # "shallow" => r.seconds >= r.lines /\ r.seconds > 0
  /\ r.from < r.invoked => r.after # {}

Passing(g) == /\ g.review.verdict = "approved"
              /\ \A q \in g.seen : q.at <= g.review.stored
              /\ g.review.seconds >= g.review.lines /\ g.review.seconds > 0
              /\ g.min = "deep" => g.review.depth = "deep"

GateInv == /\ ganow \in Times /\ gastarted \in 0..(MaxMinutes + 1)
           /\ CommandsTyped /\ Tracked
           /\ \A r \in gareviews : Timely(r)
           /\ DOMAIN gagate = Gates
           /\ \A g \in Gates : gagate[g].st # "idle" /\ gagate[g].passed => Passing(gagate[g])

LEMMA GateInit == Gate!Init => GateInv
  BY ReviewsAssumption DEF Gate!Init, GateInv, CommandsTyped, Tracked, Times, Gate!Idle, Gate!Running

\* a review of less than a second a line is shallow
LEMMA DepthKnown ==
  ASSUME NEW lines \in Nat, NEW seconds \in Nat, NEW comments \in Nat
  PROVE  LET d == Gate!Depth(lines, seconds, comments)
         IN /\ d \in {"shallow", "adequate", "deep"}
            /\ d # "shallow" => seconds >= lines /\ seconds > 0
<1> DEFINE lr == IF lines = 0 THEN 1 ELSE lines
<1> DEFINE raw == Gate!Score(lines, seconds, comments)
<1>1. Gate!Depth(lines, seconds, comments) =
        CASE seconds < lr -> "shallow"
          [] seconds >= lr /\ raw >= 350 * lr -> "deep"
          [] seconds >= lr /\ raw < 350 * lr /\ raw >= 175 * lr -> "adequate"
          [] OTHER -> "shallow"
  BY DEF Gate!Depth
<1>2. lr \in Nat /\ lr > 0 /\ lr >= lines
  OBVIOUS
<1> HIDE DEF lr, raw
<1>3. CASE seconds < lr
  BY <1>1, <1>2, <1>3
<1>4. CASE ~(seconds < lr)
  <2>1. seconds >= lr
    BY <1>2, <1>4
  <2> QED
    BY <1>1, <1>2, <2>1
<1> QED
  BY <1>3, <1>4

LEMMA GateStep == GateInv /\ [Gate!Next]_gaVars => GateInv'
<1> SUFFICES ASSUME GateInv, [Gate!Next]_gaVars PROVE GateInv'
  OBVIOUS
<1> USE ReviewsAssumption
<1>1. CASE UNCHANGED gaVars
  BY <1>1 DEF gaVars, GateInv, CommandsTyped, Tracked, Gate!Running
<1>2. CASE Gate!Tick
  BY <1>2 DEF Gate!Tick, GateInv, CommandsTyped, Tracked, Gate!Running, Times
<1>3. ASSUME NEW c \in Commands, Gate!Invoke(c) PROVE GateInv'
  <2>0. PICK A : A = {e \in Commands : gacommand[e].st \notin {"idle", "answered"}}
    OBVIOUS
  <2>1. /\ gacommand' = [d \in Commands |->
             CASE d = c -> [st |-> "prompt", invoked |-> ganow,
                            after |-> A]
               [] d # c /\ gacommand[d].st = "prompt" -> [st |-> "ended"]
               [] OTHER -> gacommand[d]]
        /\ gastarted' = (IF Gate!Seconds = 0 THEN ganow ELSE gastarted)
        /\ UNCHANGED <<ganow, gareviews, gagate>>
    BY <1>3, <2>0 DEF Gate!Invoke
  <2>2. gastarted' \in 0..(MaxMinutes + 1) /\ (Gate!Running' => gastarted' <= ganow)
    BY <2>1 DEF GateInv, Tracked, Gate!Running, Times
  <2>3. Gate!Running' /\ gastarted' < ganow => Gate!Running
    BY <2>1 DEF GateInv, Gate!Running, Times
  <2>4. \A d \in Commands :
          \/ d = c /\ gacommand'[d] = [st |-> "prompt", invoked |-> ganow,
                                       after |-> A]
          \/ d # c /\ gacommand[d].st = "prompt" /\ gacommand'[d] = [st |-> "ended"]
          \/ d # c /\ gacommand[d].st # "prompt" /\ gacommand'[d] = gacommand[d]
    BY <2>1
  <2>a. Gate!Running => A # {}
    BY <2>0 DEF GateInv, Tracked
  <2>5. CommandsTyped'
    <3>1. DOMAIN gacommand' = Commands
      BY <2>1
    <3> SUFFICES ASSUME NEW d \in Commands
                 PROVE  /\ gacommand'[d].st = "prompt" =>
                            /\ gacommand'[d].invoked \in Times /\ gacommand'[d].invoked <= ganow'
                            /\ Gate!Running' /\ gastarted' < gacommand'[d].invoked => gacommand'[d].after # {}
                        /\ gacommand'[d].st = "posted" => Signed(gacommand'[d])
                        /\ gacommand'[d].st = "open" => /\ gacommand'[d].at \in Times /\ gacommand'[d].at <= ganow'
                                                        /\ Signed(gacommand'[d].review)
      BY <3>1 DEF CommandsTyped, Signed
    <3>2. CASE d = c
      BY <3>2, <2>1, <2>3, <2>4, <2>a DEF GateInv, Times
    <3>3. CASE d # c /\ gacommand[d].st = "prompt"
      <4>1. gacommand'[d].st = "ended"
        BY <3>3, <2>4
      <4> QED
        BY <4>1
    <3>4. CASE d # c /\ gacommand[d].st # "prompt"
      <4>1. gacommand'[d] = gacommand[d] /\ gacommand'[d].st # "prompt"
        BY <3>4, <2>4
      <4> QED
        BY <4>1, <2>1 DEF GateInv, CommandsTyped
    <3> QED
      BY <3>2, <3>3, <3>4
  <2>6. Tracked'
    BY <2>2, <2>4, <2>1 DEF Tracked
  <2> QED
    BY <2>1, <2>2, <2>5, <2>6 DEF GateInv
<1>4. ASSUME NEW c \in Commands, NEW k, gacommand' = [gacommand EXCEPT ![c] = k],
             k.st \notin {"idle", "answered", "prompt"},
             k.st = "posted" => Signed(k),
             k.st = "open" => k.at \in Times /\ k.at <= ganow /\ Signed(k.review),
             UNCHANGED <<ganow, gastarted>>
      PROVE  CommandsTyped' /\ Tracked'
  <2>1. DOMAIN gacommand' = Commands /\ gacommand'[c] = k
        /\ \A d \in Commands \ {c} : gacommand'[d] = gacommand[d]
    BY <1>4 DEF GateInv, CommandsTyped
  <2>2. Gate!Running' <=> Gate!Running
    BY <1>4 DEF Gate!Running
  <2>3. CommandsTyped'
    BY <1>4, <2>1, <2>2 DEF GateInv, CommandsTyped, Signed
  <2>4. Tracked'
    BY <1>4, <2>1, <2>2 DEF GateInv, Tracked
  <2> QED
    BY <2>3, <2>4
<1>5. ASSUME NEW c \in Commands, Gate!Cancel(c) PROVE GateInv'
  <2> DEFINE k == [st |-> "ended"]
  <2>1. gacommand' = [gacommand EXCEPT ![c] = k] /\ UNCHANGED <<ganow, gastarted, gareviews, gagate>>
    BY <1>5 DEF Gate!Cancel
  <2>2. CommandsTyped' /\ Tracked'
    BY <2>1, <1>4
  <2> QED
    BY <2>1, <2>2 DEF GateInv
<1>6. ASSUME NEW c \in Commands, Gate!Fail(c) PROVE GateInv'
  <2> DEFINE k == [st |-> "ended"]
  <2>1. gacommand' = [gacommand EXCEPT ![c] = k] /\ UNCHANGED <<ganow, gastarted, gareviews, gagate>>
    BY <1>6 DEF Gate!Fail
  <2>2. CommandsTyped' /\ Tracked'
    BY <2>1, <1>4
  <2> QED
    BY <2>1, <2>2 DEF GateInv
<1>7. ASSUME NEW c \in Commands, Gate!Submit(c) PROVE GateInv'
  <2>1. PICK e \in Claims, v \in Gate!Verdicts, s \in Typed \cup {Gate!Seconds} :
          gacommand' = [gacommand EXCEPT ![c] =
            [st |-> "posted", invoked |-> @.invoked, after |-> @.after,
             from |-> IF Gate!Running THEN gastarted ELSE ganow, measured |-> s = Gate!Seconds,
             lines |-> e.lines, comments |-> e.comments, seconds |-> s, verdict |-> v]]
    BY <1>7 DEF Gate!Submit
  <2> DEFINE k == [st |-> "posted", invoked |-> gacommand[c].invoked, after |-> gacommand[c].after,
                   from |-> IF Gate!Running THEN gastarted ELSE ganow, measured |-> s = Gate!Seconds,
                   lines |-> e.lines, comments |-> e.comments, seconds |-> s, verdict |-> v]
  <2>2. gacommand' = [gacommand EXCEPT ![c] = k] /\ UNCHANGED <<ganow, gastarted, gareviews, gagate>>
    BY <1>7, <2>1 DEF Gate!Submit, GateInv, CommandsTyped
  <2>3. gacommand[c].st = "prompt"
    BY <1>7 DEF Gate!Submit
  <2>4. Gate!Seconds \in Nat
    <3>1. CASE Gate!Running
      <4>1. ganow - gastarted \in Nat
        BY <3>1 DEF GateInv, Tracked, Times
      <4>2. \A m \in Nat : Unit * m \in Nat
        OBVIOUS
      <4> QED
        BY <3>1, <4>1, <4>2 DEF Gate!Seconds
    <3>2. CASE ~Gate!Running
      BY <3>2 DEF Gate!Seconds
    <3> QED
      BY <3>1, <3>2
  <2>5. s \in Nat /\ e.lines \in Nat /\ e.comments \in Nat
    BY <2>4
  <2>6. k.from < k.invoked => k.after # {}
    BY <2>3 DEF GateInv, CommandsTyped, Times
  <2>7. Signed(k)
    BY <2>5, <2>6 DEF Signed
  <2> HIDE DEF k
  <2>8. k.st = "posted"
    BY DEF k
  <2>9. CommandsTyped' /\ Tracked'
    BY <2>2, <2>7, <2>8, <1>4
  <2> QED
    BY <2>2, <2>9 DEF GateInv
<1>8. ASSUME NEW c \in Commands, Gate!Begin(c) PROVE GateInv'
  <2> DEFINE k == [st |-> "open", at |-> ganow, review |-> gacommand[c]]
  <2>1. gacommand' = [gacommand EXCEPT ![c] = k] /\ UNCHANGED <<ganow, gastarted, gareviews, gagate>>
    BY <1>8 DEF Gate!Begin, GateInv, CommandsTyped
  <2>2. k.st = "open" /\ k.at = ganow /\ Signed(k.review)
    BY <1>8 DEF Gate!Begin, GateInv, CommandsTyped
  <2> HIDE DEF k
  <2>3. k.at \in Times /\ k.at <= ganow
    BY <2>2 DEF GateInv, Times
  <2>4. CommandsTyped' /\ Tracked'
    BY <2>1, <2>2, <2>3, <1>4
  <2> QED
    BY <2>1, <2>4 DEF GateInv
<1>9. ASSUME NEW c \in Commands, Gate!Record(c) PROVE GateInv'
  <2> DEFINE k == [st |-> "stored"]
  <2> DEFINE r == gacommand[c].review
  <2> DEFINE new == [by |-> c, at |-> gacommand[c].at, stored |-> ganow, verdict |-> r.verdict,
                     lines |-> r.lines, seconds |-> r.seconds, measured |-> r.measured,
                     from |-> r.from, invoked |-> r.invoked, after |-> r.after,
                     depth |-> Gate!Depth(r.lines, r.seconds, r.comments)]
  <2>1. /\ gacommand' = [gacommand EXCEPT ![c] = k] /\ UNCHANGED <<ganow, gastarted, gagate>>
        /\ gareviews' = gareviews \cup {new}
    BY <1>9 DEF Gate!Record
  <2>2. CommandsTyped' /\ Tracked'
    BY <2>1, <1>4
  <2>3. gacommand[c].at \in Times /\ gacommand[c].at <= ganow /\ Signed(r)
    BY <1>9 DEF Gate!Record, GateInv, CommandsTyped
  <2>4. /\ new.depth \in {"shallow", "adequate", "deep"}
        /\ new.depth # "shallow" => new.seconds >= new.lines /\ new.seconds > 0
    BY <2>3, DepthKnown DEF Signed
  <2>5. Timely(new)
    BY <2>3, <2>4 DEF Timely, Signed, GateInv
  <2> HIDE DEF new
  <2> QED
    BY <2>1, <2>2, <2>5 DEF GateInv
<1>10. ASSUME NEW c \in Commands, Gate!Answer(c) PROVE GateInv'
  <2>1. /\ gacommand' = [gacommand EXCEPT ![c] = [st |-> "answered"]] /\ gastarted' = MaxMinutes + 1
        /\ UNCHANGED <<ganow, gareviews, gagate>>
    BY <1>10 DEF Gate!Answer
  <2>2. ~Gate!Running'
    BY <2>1 DEF Gate!Running
  <2>3. DOMAIN gacommand' = Commands /\ gacommand'[c].st = "answered"
        /\ \A d \in Commands \ {c} : gacommand'[d] = gacommand[d]
    BY <2>1 DEF GateInv, CommandsTyped
  <2>4. CommandsTyped'
    BY <2>1, <2>2, <2>3 DEF GateInv, CommandsTyped, Signed
  <2> QED
    BY <2>1, <2>2, <2>4 DEF GateInv, Tracked
<1>11. ASSUME NEW g \in Gates, Gate!Ask(g) PROVE GateInv'
  <2>1. PICK min \in {"adequate", "deep"} :
       \/ gareviews = {} /\ gagate' = [gagate EXCEPT ![g] = [st |-> "answered", passed |-> FALSE]]
       \/ \E r \in Gate!Latest :
            gagate' = [gagate EXCEPT ![g] = [st |-> "answered", passed |-> Gate!Passes(r, min), min |-> min,
                                         review |-> r, seen |-> gareviews]]
    BY <1>11 DEF Gate!Ask
  <2>2. UNCHANGED <<ganow, gastarted, gacommand, gareviews>>
    BY <1>11 DEF Gate!Ask
  <2>3. DOMAIN gagate' = Gates /\ \A h \in Gates \ {g} : gagate'[h] = gagate[h]
    BY <2>1 DEF GateInv
  <2>4. gagate'[g].passed => Passing(gagate'[g])
    <3>1. CASE gareviews = {} /\ gagate' = [gagate EXCEPT ![g] = [st |-> "answered", passed |-> FALSE]]
      BY <3>1 DEF GateInv
    <3>2. ASSUME NEW r \in Gate!Latest,
                 gagate' = [gagate EXCEPT ![g] = [st |-> "answered", passed |-> Gate!Passes(r, min), min |-> min,
                                                  review |-> r, seen |-> gareviews]],
                 gagate'[g].passed
          PROVE  Passing(gagate'[g])
      <4>1. /\ gagate'[g].review = r /\ gagate'[g].seen = gareviews /\ gagate'[g].min = min
            /\ Gate!Passes(r, min)
        BY <3>2 DEF GateInv
      <4>2. r \in gareviews /\ \A q \in gareviews : q.at <= r.at
        BY DEF Gate!Latest
      <4>3. \A q \in gareviews : q.at \in Times
        BY DEF GateInv, Timely
      <4>4. Timely(r)
        BY <4>2 DEF GateInv
      <4>5. r.verdict = "approved" /\ r.depth # "shallow" /\ (min = "deep" => r.depth = "deep")
        BY <4>1, <4>4 DEF Gate!Passes, Gate!Rank, Timely
      <4>6. \A q \in gareviews : q.at <= r.stored
        BY <4>2, <4>3, <4>4 DEF Timely, Times
      <4> QED
        BY <4>1, <4>4, <4>5, <4>6 DEF Passing, Timely
    <3> QED
      BY <2>1, <3>1, <3>2
  <2>5. CommandsTyped' /\ Tracked'
    BY <2>2 DEF GateInv, CommandsTyped, Tracked, Gate!Running
  <2> QED
    BY <2>2, <2>3, <2>4, <2>5 DEF GateInv
<1> QED
  BY <1>1, <1>2, <1>3, <1>5, <1>6, <1>7, <1>8, <1>9, <1>10, <1>11 DEF Gate!Next

LEMMA GateMoves == [Next]_vars => [Gate!Next]_gaVars
  BY DEF Next, vars, PolicyKeeps, RecallsKeeps, ResultsKeeps, LedgerKeeps, CertsKeeps, WitnessesKeeps, CapsuleKeeps,
         ExportsKeeps, NoticesKeeps

LEMMA GateHolds == GateInv => Gate!GateSound /\ Gate!OwnTime
  BY DEF GateInv, Gate!GateSound, Gate!OwnTime, Timely, Passing

\* The gate passes only on an approval that no review it saw was begun after, of the depth it asks
\* for, with a second or more for each line; time before a command is counted only if there was an
\* earlier command without an answer when it began.
THEOREM ReviewsStand == Spec => []Gate!GateSound /\ []Gate!OwnTime
<1>1. Init => GateInv
  BY GateInit DEF Init
<1>2. GateInv /\ [Next]_vars => GateInv'
  BY GateStep, GateMoves
<1>3. GateInv => Gate!GateSound /\ Gate!OwnTime
  BY GateHolds
<1> QED
  BY <1>1, <1>2, <1>3, PTL DEF Spec

===============================================================================
