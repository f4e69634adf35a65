------------------------ MODULE RecordLifecycle_proofs ------------------------
(* Proofs about RecordLifecycle, for every number of sessions and records.     *)
EXTENDS RecordLifecycle, FiniteSetTheorems, TLAPS

-------------------------------------------------------------------------------
(* Type correctness. *)

Partials(S) == UNION {[D -> S] : D \in SUBSET Records}

Session == [pc : {"idle", "open"}, type : Types, todo : Seq(Records),
            seen : Partials(Row), wrote : Partials(MaybeRow),
            drawn : SUBSET Event, later : SUBSET Records]

\* what is still to be written was read, and is written once; only a deletion or a
\* redaction has drawn events
Queued(s) == /\ \A i \in DOMAIN s.todo : s.todo[i] \in DOMAIN s.seen
             /\ IsInjective(s.todo)
             /\ s.todo # <<>> => s.type # "none"
             /\ s.drawn # {} => s.type \in {"deletion", "redaction"}

Walking == /\ check \in [pc : {"idle", "walk", "tampered"}, seen : Partials(MaybeRow),
                         at : 0..(Length + 1)]
           /\ check.pc # "idle" => check.seen \in [Records -> MaybeRow] /\ check.at \in 1..(Length + 1)

\* the type invariant, made inductive
Typed == /\ rows \in [Records -> MaybeRow]
         /\ events \subseteq Event /\ nextEvent \in Nat
         /\ embedding \subseteq Records
         /\ tx \in [Workers -> Session]
         /\ \A w \in Workers : Queued(tx[w])
         /\ Walking

\* it implies the type invariant of the module
LEMMA TypedOK == Typed => TypeOK
<1> SUFFICES ASSUME Typed PROVE TypeOK
  OBVIOUS
<1>1. ASSUME NEW S, NEW f \in Partials(S) PROVE Partial(f, S)
  BY <1>1 DEF Partials, Partial
<1>2. ASSUME NEW w \in Workers
      PROVE  /\ tx[w].pc \in {"idle", "open"} /\ tx[w].type \in Types
             /\ tx[w].todo \in Seq(Records) /\ tx[w].later \subseteq Records
             /\ Partial(tx[w].seen, Row) /\ Partial(tx[w].wrote, MaybeRow)
             /\ tx[w].drawn \subseteq Event
  <2>1. tx[w] \in Session
    BY DEF Typed
  <2> QED
    BY <1>1, <2>1 DEF Session
<1> QED
  BY <1>2 DEF TypeOK, Typed, Walking

\* nothing read or written yet
LEMMA NoneType == \A S : <<>> \in Partials(S) /\ DOMAIN <<>> = {}
<1> SUFFICES ASSUME NEW S PROVE <<>> \in Partials(S) /\ DOMAIN <<>> = {}
  OBVIOUS
<1>1. <<>> \in [{} -> S]
  OBVIOUS
<1> QED
  BY <1>1 DEF Partials

LEMMA IdleType == Idle \in Session /\ Queued(Idle) /\ Idle.wrote = <<>> /\ Idle.drawn = {}
<1>1. Idle.todo = <<>> /\ Idle.todo \in Seq(Records)
  BY DEF Idle
<1>2. Idle \in Session
  BY <1>1, NoneType DEF Idle, Session, Types
<1> QED
  BY <1>1, <1>2 DEF Idle, Queued, IsInjective

\* the orders of a set of records are sequences of its elements
LEMMA OrderType ==
  ASSUME NEW R \in SUBSET Records, NEW order \in Orders(R)
  PROVE  order \in Seq(Records) /\ Range(order) \subseteq R /\ IsInjective(order)
<1>1. IsFiniteSet(Records)
  BY LengthAssumption, FS_Interval DEF Records
<1>2. Cardinality(R) \in Nat
  BY <1>1, FS_Subset, FS_CardinalityType
<1>3. order \in [1..Cardinality(R) -> R] /\ IsInjective(order)
  BY DEF Orders
<1>4. order \in Seq(R)
  BY <1>2, <1>3
<1> QED
  BY <1>3, <1>4 DEF Range

\* a session that has just read its rows
LEMMA OpenedType ==
  ASSUME Typed, NEW type \in Types \ {"none"}, NEW order \in Seq(Records), IsInjective(order),
         \A r \in Range(order) : Present(r), NEW later \in SUBSET Records
  PROVE  LET s == Opened(type, order, later) IN
         /\ s \in Session /\ Queued(s) /\ s.wrote = <<>> /\ s.drawn = {}
         /\ \A r \in DOMAIN s.seen : s.seen[r] = rows[r]
<1> DEFINE s == Opened(type, order, later)
<1>1. Range(order) \subseteq Records
  BY DEF Range
<1>2. [r \in Range(order) |-> rows[r]] \in Partials(Row)
  BY <1>1 DEF Partials, Typed, MaybeRow, Present
<1>3. s \in Session
  BY <1>2, NoneType DEF Opened, Session
<1>4. s.todo = order /\ s.seen = [r \in Range(order) |-> rows[r]] /\ s.type = type
      /\ s.wrote = <<>> /\ s.drawn = {}
  BY DEF Opened
<1>5. Queued(s)
  BY <1>4 DEF Queued, Range
<1> QED
  BY <1>3, <1>4, <1>5

\* a scrubbed row
LEMMA ScrubType ==
  ASSUME NEW type, NEW seen \in Row, NEW row \in Row
  PROVE  LET new == Scrub(type, seen, row)
         IN /\ new \in Row
            /\ new.life = IF type = "deletion" THEN "deleted" ELSE "redacted"
            /\ new.is_redacted /\ ~new.key
            /\ new.prompt => row.prompt /\ ~seen.prompt
            /\ new.code => row.code
<1> DEFINE l == IF type = "deletion" THEN "deleted" ELSE "redacted"
<1> DEFINE p == row.prompt /\ ~seen.prompt
<1> DEFINE y == row.payload /\ ~seen.payload
<1> DEFINE c == row.code /\ ~(type = "deletion" /\ seen.code)
<1> DEFINE v == row.vector /\ ~(type = "deletion" /\ seen.vector)
<1> DEFINE i == TRUE
<1> DEFINE k == FALSE
<1> DEFINE new == Scrub(type, seen, row)
<1>1. new = [row EXCEPT !.life = l, !.is_redacted = i, !.prompt = p, !.payload = y,
                        !.code = c, !.vector = v, !.key = k]
  BY DEF Scrub
<1>2. l \in {"active", "redacted", "deleted"}
  OBVIOUS
<1>3. p \in BOOLEAN /\ y \in BOOLEAN /\ c \in BOOLEAN /\ v \in BOOLEAN /\ i \in BOOLEAN /\ k \in BOOLEAN
  OBVIOUS
<1>4. (p => row.prompt /\ ~seen.prompt) /\ (c => row.code)
  OBVIOUS
<1> HIDE DEF l, p, y, c, v, i, k, new
<1>5. /\ new \in Row /\ new.life = l /\ new.is_redacted = i /\ new.prompt = p
      /\ new.code = c /\ new.key = k
  <2> DEFINE a1 == [row EXCEPT !.life = l]
  <2> DEFINE a2 == [a1 EXCEPT !.is_redacted = i]
  <2> DEFINE a3 == [a2 EXCEPT !.prompt = p]
  <2> DEFINE a4 == [a3 EXCEPT !.payload = y]
  <2> DEFINE a5 == [a4 EXCEPT !.code = c]
  <2> DEFINE a6 == [a5 EXCEPT !.vector = v]
  <2> DEFINE a7 == [a6 EXCEPT !.key = k]
  <2> HIDE DEF a2, a3, a4, a5, a6, a7
  <2>1. a1 \in Row /\ a1.life = l
    BY <1>2 DEF Row
  <2> HIDE DEF a1
  <2>2. a2 \in Row /\ a2.life = l /\ a2.is_redacted = i
    BY <1>3, <2>1 DEF Row, a2
  <2>3. a3 \in Row /\ a3.life = l /\ a3.is_redacted = i /\ a3.prompt = p
    BY <1>3, <2>2 DEF Row, a3
  <2>4. a4 \in Row /\ a4.life = l /\ a4.is_redacted = i /\ a4.prompt = p
    BY <1>3, <2>3 DEF Row, a4
  <2>5. a5 \in Row /\ a5.life = l /\ a5.is_redacted = i /\ a5.prompt = p /\ a5.code = c
    BY <1>3, <2>4 DEF Row, a5
  <2>6. a6 \in Row /\ a6.life = l /\ a6.is_redacted = i /\ a6.prompt = p /\ a6.code = c
    BY <1>3, <2>5 DEF Row, a6
  <2>7. a7 \in Row /\ a7.life = l /\ a7.is_redacted = i /\ a7.prompt = p /\ a7.code = c /\ a7.key = k
    BY <1>3, <2>6 DEF Row, a7
  <2> QED
    BY <1>1, <2>7 DEF a1, a2, a3, a4, a5, a6, a7
<1> QED
  BY <1>4, <1>5 DEF l, i, k, new

\* a rescanned row
LEMMA RescanType ==
  ASSUME NEW seen \in Row, NEW row \in Row
  PROVE  LET new == Rescanned(seen, row)
         IN /\ new \in Row /\ new.life = row.life /\ new.is_redacted = row.is_redacted
            /\ new.prompt = row.prompt /\ new.code = row.code /\ new.key = row.key
<1>1. seen.payload \in BOOLEAN
  BY DEF Row
<1> QED
  BY <1>1 DEF Rescanned, Row

\* the UPDATE of a row is a row, or the row is gone
LEMMA AfterType ==
  ASSUME NEW type \in Types \ {"none"}, NEW seen \in Row, NEW row \in Row
  PROVE  After(type, seen, row) \in MaybeRow
<1>1. Scrub(type, seen, row) \in Row
  BY ScrubType
<1>2. Rescanned(seen, row) \in Row
  BY RescanType
<1> QED
  BY <1>1, <1>2 DEF After, Types, MaybeRow

\* what is left to write after the next row: other rows, each once
LEMMA TailQueue ==
  ASSUME NEW t, Queued(t), t.todo \in Seq(Records), t.todo # <<>>
  PROVE  /\ Head(t.todo) \in Records /\ Head(t.todo) \in DOMAIN t.seen
         /\ t.type # "none"
         /\ Tail(t.todo) \in Seq(Records) /\ IsInjective(Tail(t.todo))
         /\ \A i \in DOMAIN Tail(t.todo) : Tail(t.todo)[i] \in DOMAIN t.seen \ {Head(t.todo)}
<1>1. /\ Len(t.todo) \in Nat \ {0} /\ Head(t.todo) = t.todo[1] /\ t.todo[1] \in Records
      /\ DOMAIN t.todo = 1..Len(t.todo) /\ 1 \in DOMAIN t.todo
  OBVIOUS
<1>2. /\ Tail(t.todo) \in Seq(Records)
      /\ \A i \in DOMAIN Tail(t.todo) :
           i + 1 \in DOMAIN t.todo /\ Tail(t.todo)[i] = t.todo[i + 1] /\ i \in Nat \ {0}
  BY <1>1
<1>3. ASSUME NEW i \in DOMAIN Tail(t.todo)
      PROVE  Tail(t.todo)[i] \in DOMAIN t.seen \ {Head(t.todo)}
  <2>1. i + 1 \in DOMAIN t.todo /\ i + 1 # 1
    BY <1>2
  <2> QED
    BY <1>1, <1>2, <2>1 DEF Queued, IsInjective
<1>4. ASSUME NEW i \in DOMAIN Tail(t.todo), NEW j \in DOMAIN Tail(t.todo),
             Tail(t.todo)[i] = Tail(t.todo)[j]
      PROVE  i = j
  <2>1. i + 1 = j + 1 /\ i \in Nat /\ j \in Nat
    BY <1>2, <1>4 DEF Queued, IsInjective
  <2> QED
    BY <2>1
<1> QED
  BY <1>1, <1>2, <1>3, <1>4 DEF Queued, IsInjective

\* one session replaced by another
LEMMA SessionStep ==
  ASSUME Typed, NEW w \in Workers, NEW s \in Session, Queued(s), tx' = [tx EXCEPT ![w] = s]
  PROVE  /\ tx' \in [Workers -> Session] /\ \A v \in Workers : Queued(tx'[v])
         /\ tx'[w] = s /\ \A v \in Workers : v # w => tx'[v] = tx[v]
<1>1. tx \in [Workers -> Session] /\ \A v \in Workers : Queued(tx[v])
  BY DEF Typed
<1>2. tx' \in [Workers -> Session] /\ tx'[w] = s /\ \A v \in Workers : v # w => tx'[v] = tx[v]
  BY <1>1
<1> QED
  BY <1>1, <1>2

\* the session after the flush of its next row
LEMMA ApplyFacts ==
  ASSUME Typed, NEW w \in Workers, Apply(w), NEW r, r = Head(tx[w].todo)
  PROVE  /\ r \in Records /\ r \in DOMAIN tx[w].seen /\ tx[w].seen[r] \in Row
         /\ Present(r) /\ rows[r] \in Row /\ ~Locked(w, r)
         /\ tx[w].type \in Types \ {"none"}
         /\ \A v \in Workers : v # w => tx'[v] = tx[v]
         /\ tx' \in [Workers -> Session] /\ \A v \in Workers : Queued(tx'[v])
         /\ DOMAIN tx'[w].seen = DOMAIN tx[w].seen \ {r}
         /\ \A x \in DOMAIN tx[w].seen \ {r} : tx'[w].seen[x] = tx[w].seen[x]
         /\ DOMAIN tx'[w].wrote = DOMAIN tx[w].wrote \cup {r}
         /\ tx'[w].wrote[r] = After(tx[w].type, tx[w].seen[r], rows[r])
         /\ \A x \in DOMAIN tx[w].wrote \ {r} : tx'[w].wrote[x] = tx[w].wrote[x]
         /\ tx'[w].drawn = IF tx[w].type \in {"deletion", "redaction"}
                THEN tx[w].drawn \cup {[id |-> nextEvent, rec |-> r, type |-> tx[w].type]}
                ELSE tx[w].drawn
<1> DEFINE t == tx[w]
<1> DEFINE seen  == [x \in DOMAIN t.seen \ {r} |-> t.seen[x]]
<1> DEFINE wrote == [x \in DOMAIN t.wrote \cup {r} |->
                       IF x = r THEN After(t.type, t.seen[r], rows[r]) ELSE t.wrote[x]]
<1> DEFINE drawn == IF t.type \in {"deletion", "redaction"}
                      THEN t.drawn \cup {[id |-> nextEvent, rec |-> r, type |-> t.type]} ELSE t.drawn
<1>1. t \in Session /\ Queued(t) /\ t.todo # <<>> /\ t.todo \in Seq(Records)
  BY DEF Typed, Apply, Session
<1>2. /\ r \in Records /\ Tail(t.todo) \in Seq(Records) /\ IsInjective(Tail(t.todo))
      /\ \A i \in DOMAIN Tail(t.todo) : Tail(t.todo)[i] \in DOMAIN t.seen \ {r}
  BY <1>1, TailQueue
<1>3. r \in DOMAIN t.seen /\ t.type \in Types \ {"none"}
  BY <1>1, TailQueue DEF Session
<1>4. /\ t.seen \in Partials(Row) /\ t.wrote \in Partials(MaybeRow)
      /\ t.type \in Types /\ t.later \in SUBSET Records /\ t.drawn \in SUBSET Event
  BY <1>1 DEF Session
<1>5. t.seen[r] \in Row
  BY <1>3, <1>4 DEF Partials
<1>6. Present(r) /\ rows[r] \in Row /\ ~Locked(w, r)
  BY <1>2 DEF Apply, Present, Typed, MaybeRow
<1>7. seen \in Partials(Row)
  <2>1. PICK D \in SUBSET Records : t.seen \in [D -> Row]
    BY <1>4 DEF Partials
  <2>2. seen \in [D \ {r} -> Row]
    BY <2>1
  <2> QED
    BY <2>2 DEF Partials
<1>8. wrote \in Partials(MaybeRow)
  <2>1. PICK D \in SUBSET Records : t.wrote \in [D -> MaybeRow]
    BY <1>4 DEF Partials
  <2>2. After(t.type, t.seen[r], rows[r]) \in MaybeRow
    BY <1>3, <1>5, <1>6, AfterType
  <2>3. wrote \in [D \cup {r} -> MaybeRow]
    BY <2>1, <2>2
  <2>4. D \cup {r} \in SUBSET Records
    BY <1>2
  <2> HIDE DEF wrote
  <2> QED
    BY <2>3, <2>4 DEF Partials
<1>9. drawn \in SUBSET Event
  BY <1>2, <1>4 DEF Event, Typed
<1> DEFINE s == [pc |-> t.pc, type |-> t.type, todo |-> Tail(t.todo), seen |-> seen,
                 wrote |-> wrote, drawn |-> drawn, later |-> t.later]
<1>10. s \in Session
  <2>1. t.pc \in {"idle", "open"}
    BY <1>1 DEF Session
  <2> HIDE DEF seen, wrote, drawn
  <2> QED
    BY <1>2, <1>4, <1>7, <1>8, <1>9, <2>1 DEF Session
<1>11. Queued(s)
  <2>1. s.todo = Tail(t.todo) /\ s.seen = seen /\ s.type = t.type /\ s.drawn = drawn
    OBVIOUS
  <2>2. drawn # {} => t.type \in {"deletion", "redaction"}
    BY <1>1 DEF Queued
  <2> HIDE DEF s, drawn
  <2> QED
    BY <1>2, <1>3, <2>1, <2>2 DEF Queued
<1>12. /\ tx \in [Workers -> Session]
       /\ tx' = [tx EXCEPT ![w].todo = Tail(tx[w].todo), ![w].seen = seen, ![w].wrote = wrote,
                           ![w].drawn = drawn]
  BY DEF Apply, Typed
<1>13. tx'[w] = s /\ \A v \in Workers : v # w => tx'[v] = tx[v]
  <2> HIDE DEF seen, wrote, drawn
  <2>1. /\ tx'[w] = [tx[w] EXCEPT !.todo = Tail(tx[w].todo), !.seen = seen,
                                  !.wrote = wrote, !.drawn = drawn]
        /\ \A v \in Workers : v # w => tx'[v] = tx[v]
    BY <1>12
  <2> QED
    BY <1>1, <2>1 DEF Session
<1>14. tx' \in [Workers -> Session]
  <2>1. DOMAIN tx' = Workers /\ tx' = [v \in Workers |-> tx'[v]]
    <3> HIDE DEF seen, wrote, drawn
    <3> QED
      BY <1>12
  <2> HIDE DEF s
  <2>2. \A v \in Workers : tx'[v] \in Session
    BY <1>10, <1>12, <1>13
  <2> QED
    BY <2>1, <2>2
<1> QED
  <2> HIDE DEF seen, wrote, drawn
  <2>1. s.seen = seen /\ s.wrote = wrote /\ s.drawn = drawn
    OBVIOUS
  <2> HIDE DEF s
  <2>2. \A v \in Workers : Queued(tx'[v])
    BY <1>11, <1>13 DEF Typed
  <2> QED
    BY <1>2, <1>3, <1>5, <1>6, <1>13, <1>14, <2>1, <2>2 DEF seen, wrote, drawn

-------------------------------------------------------------------------------
(* Steps that neither write a row nor commit one.                             *)

\* a session knows of a row what it knew, or what the row is now
Reads(v) ==
  \A r \in DOMAIN tx'[v].seen :
    \/ tx'[v].seen[r] = rows[r]
    \/ r \in DOMAIN tx[v].seen /\ tx'[v].seen[r] = tx[v].seen[r]

\* what a session has written is still uncommitted, or rolled back
Writes(v) == \/ tx'[v].wrote = tx[v].wrote /\ tx'[v].drawn = tx[v].drawn
             \/ tx'[v].wrote = <<>> /\ tx'[v].drawn = {}

Calm == /\ rows' = rows /\ events' = events /\ nextEvent' = nextEvent
        /\ tx' \in [Workers -> Session] /\ \A v \in Workers : Queued(tx'[v])
        /\ \A v \in Workers : Reads(v) /\ Writes(v)

\* a request that reads its rows
LEMMA BeginCalm ==
  ASSUME Typed, NEW w \in Workers, NEW type \in Types \ {"none"}, NEW later \in SUBSET Records,
         NEW order \in Seq(Records), IsInjective(order), \A r \in Range(order) : Present(r),
         Begin(w, Opened(type, order, later)), UNCHANGED <<rows, events, nextEvent>>
  PROVE  Calm
<1> DEFINE s == Opened(type, order, later)
<1>1. /\ s \in Session /\ Queued(s) /\ s.wrote = <<>> /\ s.drawn = {}
      /\ \A r \in DOMAIN s.seen : s.seen[r] = rows[r]
  BY OpenedType
<1>2. tx' = [tx EXCEPT ![w] = s]
  BY DEF Begin
<1> HIDE DEF s
<1>3. /\ tx' \in [Workers -> Session] /\ \A v \in Workers : Queued(tx'[v])
      /\ tx'[w] = s /\ \A v \in Workers : v # w => tx'[v] = tx[v]
  BY <1>1, <1>2, SessionStep
<1>4. \A v \in Workers : Reads(v) /\ Writes(v)
  BY <1>1, <1>3 DEF Reads, Writes
<1> QED
  BY <1>3, <1>4 DEF Calm

\* a request that ends
LEMMA EndCalm ==
  ASSUME Typed, NEW w \in Workers, End(w), UNCHANGED <<rows, events, nextEvent>>
  PROVE  Calm
<1>1. /\ tx' \in [Workers -> Session] /\ \A v \in Workers : Queued(tx'[v])
      /\ tx'[w] = Idle /\ \A v \in Workers : v # w => tx'[v] = tx[v]
  BY IdleType, SessionStep DEF End
<1>2. DOMAIN Idle.seen = {}
  BY NoneType DEF Idle
<1>3. \A v \in Workers : Reads(v) /\ Writes(v)
  BY <1>1, <1>2, IdleType DEF Reads, Writes
<1> QED
  BY <1>1, <1>3 DEF Calm

\* a DELETE of a row that is gone passes over it
LEMMA SkipCalm ==
  ASSUME Typed, NEW w \in Workers, tx[w].todo # <<>>, tx' = [tx EXCEPT ![w].todo = Tail(@)],
         UNCHANGED <<rows, events, nextEvent>>
  PROVE  Calm
<1> DEFINE t == tx[w]
<1> DEFINE s == [t EXCEPT !.todo = Tail(t.todo)]
<1>1. t \in Session /\ Queued(t) /\ t.todo \in Seq(Records)
  BY DEF Typed, Session
<1>2. /\ Tail(t.todo) \in Seq(Records) /\ IsInjective(Tail(t.todo)) /\ t.type # "none"
      /\ \A i \in DOMAIN Tail(t.todo) : Tail(t.todo)[i] \in DOMAIN t.seen
  BY <1>1, TailQueue
<1>3. /\ s \in Session /\ s.todo = Tail(t.todo) /\ s.seen = t.seen /\ s.wrote = t.wrote
      /\ s.drawn = t.drawn /\ s.type = t.type
  BY <1>1, <1>2 DEF Session
<1>4. tx' = [tx EXCEPT ![w] = s]
  OBVIOUS
<1> HIDE DEF s
<1>5. Queued(s)
  BY <1>1, <1>2, <1>3 DEF Queued
<1>6. /\ tx' \in [Workers -> Session] /\ \A v \in Workers : Queued(tx'[v])
      /\ tx'[w] = s /\ \A v \in Workers : v # w => tx'[v] = tx[v]
  BY <1>3, <1>4, <1>5, SessionStep
<1>7. \A v \in Workers : Reads(v) /\ Writes(v)
  BY <1>3, <1>6 DEF Reads, Writes
<1> QED
  BY <1>6, <1>7 DEF Calm

\* the retention job reads the rows to redact
LEMMA RetainCalm ==
  ASSUME Typed, NEW w \in Workers, RetainRedact(w)
  PROVE  Calm
<1> DEFINE t == tx[w]
<1> DEFINE R == {r \in Selected(t.later) : ~rows[r].is_redacted}
<1> DEFINE seen == [r \in R |-> rows[r]]
<1>1. t \in Session /\ tx \in [Workers -> Session]
  BY DEF Typed
<1>2. R \in SUBSET Records /\ \A r \in R : Present(r)
  BY <1>1 DEF Selected, Session
<1>3. PICK order \in Orders(R) :
        tx' = [tx EXCEPT ![w].type = "redaction", ![w].later = {}, ![w].todo = order, ![w].seen = seen]
  BY DEF RetainRedact
<1> HIDE DEF R
<1>4. order \in Seq(Records) /\ Range(order) \subseteq R /\ IsInjective(order)
  BY <1>2, OrderType
<1>5. seen \in Partials(Row) /\ DOMAIN seen = R /\ \A r \in R : seen[r] = rows[r]
  <2>1. seen \in [R -> Row]
    BY <1>2 DEF Typed, Present, MaybeRow
  <2> QED
    BY <1>2, <2>1 DEF Partials
<1> HIDE DEF seen
<1> DEFINE s == [t EXCEPT !.type = "redaction", !.later = {}, !.todo = order, !.seen = seen]
<1>6. /\ s \in Session /\ s.todo = order /\ s.seen = seen /\ s.wrote = t.wrote
      /\ s.drawn = t.drawn /\ s.type = "redaction"
  <2>1. "redaction" \in Types /\ {} \in SUBSET Records
    BY DEF Types
  <2> QED
    BY <1>1, <1>4, <1>5, <2>1 DEF Session
<1>7. tx' = [tx EXCEPT ![w] = s]
  BY <1>3
<1> HIDE DEF s
<1>8. Queued(s)
  BY <1>4, <1>5, <1>6 DEF Queued, Range
<1>9. /\ tx' \in [Workers -> Session] /\ \A v \in Workers : Queued(tx'[v])
      /\ tx'[w] = s /\ \A v \in Workers : v # w => tx'[v] = tx[v]
  BY <1>6, <1>7, <1>8, SessionStep
<1>10. \A v \in Workers : Reads(v) /\ Writes(v)
  BY <1>5, <1>6, <1>9 DEF Reads, Writes
<1> QED
  BY <1>9, <1>10 DEF Calm, RetainRedact

\* the only steps that are not calm
LEMMA CalmSteps ==
  Typed /\ [Next]_vars => \/ Calm
                          \/ \E w \in Workers : Apply(w) \/ Commit(w)
                          \/ \E r \in Records : Backfill(r)
<1> SUFFICES ASSUME Typed, [Next]_vars, \A w \in Workers : ~Apply(w) /\ ~Commit(w),
                    \A r \in Records : ~Backfill(r)
             PROVE  Calm
  OBVIOUS
<1>1. ASSUME NEW w \in Workers, NEW r \in Records, Delete(w, r) \/ Redact(w, r) \/ Rescan(w, r)
      PROVE  Calm
  <2>1. PICK type \in {"deletion", "redaction", "rescan"} : Begin(w, Opened(type, <<r>>, {}))
    BY <1>1 DEF Delete, Redact, Rescan
  <2>2. Present(r) /\ UNCHANGED <<rows, events, nextEvent>>
    BY <1>1 DEF Delete, Redact, Rescan
  <2>3. <<r>> \in Seq(Records) /\ IsInjective(<<r>>) /\ \A x \in Range(<<r>>) : Present(x)
    BY <2>2 DEF IsInjective, Range
  <2>4. type \in Types \ {"none"}
    BY DEF Types
  <2> QED
    BY <2>1, <2>2, <2>3, <2>4, BeginCalm
<1>2. ASSUME NEW w \in Workers, NEW R \in SUBSET Records, BulkDelete(w, R) PROVE Calm
  <2>1. PICK order \in Orders(Selected(R)) : Begin(w, Opened("removal", order, {}))
    BY <1>2 DEF BulkDelete
  <2>2. Selected(R) \in SUBSET Records /\ \A r \in Selected(R) : Present(r)
    BY DEF Selected
  <2>3. order \in Seq(Records) /\ IsInjective(order) /\ \A r \in Range(order) : Present(r)
    BY <2>2, OrderType
  <2>4. "removal" \in Types \ {"none"} /\ {} \in SUBSET Records
    BY DEF Types
  <2>5. UNCHANGED <<rows, events, nextEvent>>
    BY <1>2 DEF BulkDelete
  <2> QED
    BY <2>1, <2>3, <2>4, <2>5, BeginCalm
<1>3. ASSUME NEW w \in Workers, NEW X \in SUBSET Records, NEW S \in SUBSET Records, Retain(w, X, S)
      PROVE  Calm
  <2> DEFINE R == {r \in Selected(X) : rows[r].life # "deleted"}
  <2>1. PICK order \in Orders(R) : Begin(w, Opened("deletion", order, S))
    BY <1>3 DEF Retain
  <2>2. R \in SUBSET Records /\ \A r \in R : Present(r)
    BY DEF Selected
  <2>3. order \in Seq(Records) /\ IsInjective(order) /\ \A r \in Range(order) : Present(r)
    BY <2>2, OrderType
  <2>4. "deletion" \in Types \ {"none"}
    BY DEF Types
  <2>5. UNCHANGED <<rows, events, nextEvent>>
    BY <1>3 DEF Retain
  <2> QED
    BY <2>1, <2>3, <2>4, <2>5, BeginCalm
<1>4. ASSUME NEW w \in Workers, ApplyMissing(w) PROVE Calm
  <2>1. tx[w].todo # <<>> /\ UNCHANGED <<rows, events, nextEvent>>
    BY <1>4 DEF ApplyMissing
  <2>2. tx' = [tx EXCEPT ![w].todo = Tail(@)] \/ End(w)
    BY <1>4 DEF ApplyMissing
  <2> QED
    BY <2>1, <2>2, SkipCalm, EndCalm
<1>5. ASSUME NEW w \in Workers, DeadlockVictim(w) \/ Abort(w) PROVE Calm
  BY <1>5, EndCalm DEF DeadlockVictim, Abort
<1>6. ASSUME UNCHANGED <<rows, events, nextEvent, tx>> PROVE Calm
  BY <1>6 DEF Calm, Reads, Writes, Typed
<1>7. ASSUME NEW r \in Records, BackfillFails(r) PROVE Calm
  BY <1>6, <1>7 DEF BackfillFails
<1>8. CASE VerifyStart \/ VerifyRow \/ VerifyEnd
  BY <1>6, <1>8 DEF VerifyStart, VerifyRow, VerifyEnd
<1>9. CASE UNCHANGED vars
  BY <1>6, <1>9 DEF vars
<1> QED
  BY <1>1, <1>2, <1>3, <1>4, <1>5, <1>7, <1>8, <1>9, RetainCalm DEF Next, Serve

\* an ingested chain, idle sessions and no verifier
LEMMA TypeInit == Init => Typed
<1> SUFFICES ASSUME Init PROVE Typed
  OBVIOUS
<1>1. rows \in [Records -> MaybeRow]
  BY DEF Init, Ingested, MaybeRow, Row
<1>2. tx \in [Workers -> Session] /\ \A w \in Workers : Queued(tx[w])
  BY IdleType DEF Init
<1>3. Walking
  BY LengthAssumption, NoneType DEF Init, Walking
<1>4. events \subseteq Event /\ nextEvent \in Nat /\ embedding \subseteq Records
  BY DeferredAssumption DEF Init
<1> QED
  BY <1>1, <1>2, <1>3, <1>4 DEF Typed

\* the verifier walks within the rows it has read
LEMMA WalkStep == Typed /\ [Next]_vars => Walking'
<1> SUFFICES ASSUME Typed, [Next]_vars PROVE Walking'
  OBVIOUS
<1> USE DEF Walking
<1>0. Walking /\ Length \in Nat /\ Records = 1..Length
  BY LengthAssumption DEF Typed, Records
<1>1. CASE VerifyStart
  <2>1. rows \in Partials(MaybeRow)
    BY DEF Typed, Partials
  <2> QED
    BY <1>0, <1>1, <2>1 DEF VerifyStart, Typed
<1>2. CASE VerifyRow
  <2>1. check.pc # "idle" /\ check.at \in 1..Length
    BY <1>0, <1>2 DEF VerifyRow
  <2>2. check' = [check EXCEPT !.at = @ + 1] \/ check' = [check EXCEPT !.pc = "tampered"]
    BY <1>2 DEF VerifyRow
  <2> QED
    BY <1>0, <2>1, <2>2
<1>3. CASE VerifyEnd
  BY <1>0, <1>3, NoneType DEF VerifyEnd
<1>4. CASE check' = check
  BY <1>0, <1>4
<1>5. VerifyStart \/ VerifyRow \/ VerifyEnd \/ check' = check
  BY DEF Next, Serve, Delete, Redact, Rescan, BulkDelete, Retain, Apply, ApplyMissing,
         RetainRedact, Commit, Abort, DeadlockVictim, Backfill, BackfillFails, vars
<1> QED
  BY <1>1, <1>2, <1>3, <1>4, <1>5

\* what a commit does
LEMMA CommitFacts ==
  ASSUME Typed, NEW w \in Workers, Commit(w)
  PROVE  /\ rows' \in [Records -> MaybeRow]
         /\ \A r \in Records : rows'[r] = IF r \in DOMAIN tx[w].wrote THEN tx[w].wrote[r] ELSE rows[r]
         /\ events' = events \cup tx[w].drawn /\ nextEvent' = nextEvent
         /\ tx' \in [Workers -> Session] /\ \A v \in Workers : Queued(tx'[v])
         /\ tx'[w] = Idle /\ \A v \in Workers : v # w => tx'[v] = tx[v]
<1>1. tx[w].wrote \in Partials(MaybeRow)
  BY DEF Typed, Session
<1>2. PICK D \in SUBSET Records : tx[w].wrote \in [D -> MaybeRow]
  BY <1>1 DEF Partials
<1>3. rows' = [r \in Records |-> IF r \in DOMAIN tx[w].wrote THEN tx[w].wrote[r] ELSE rows[r]]
  BY DEF Commit
<1>4. rows' \in [Records -> MaybeRow]
  BY <1>2, <1>3 DEF Typed
<1>5. /\ tx' \in [Workers -> Session] /\ \A v \in Workers : Queued(tx'[v])
      /\ tx'[w] = Idle /\ \A v \in Workers : v # w => tx'[v] = tx[v]
  BY IdleType, SessionStep DEF Commit, End
<1> QED
  BY <1>3, <1>4, <1>5 DEF Commit

\* what the arrival of an embedding does
LEMMA BackfillFacts ==
  ASSUME Typed, NEW r \in Records, Backfill(r)
  PROVE  /\ rows' \in [Records -> MaybeRow]
         /\ \A x \in Records : x # r => rows'[x] = rows[x]
         /\ ~Present(r) => rows' = rows
         /\ Present(r) => LET new == rows'[r]
                              old == rows[r]
                          IN /\ new \in Row /\ new.life = old.life /\ new.is_redacted = old.is_redacted
                             /\ new.prompt = old.prompt /\ new.code = old.code /\ new.key = old.key
<1>1. rows \in [Records -> MaybeRow]
  BY DEF Typed
<1>2. CASE Present(r)
  <2>1. rows[r] \in Row
    BY <1>1, <1>2 DEF Present, MaybeRow
  <2>2. PICK new : new = [rows[r] EXCEPT !.vector = TRUE]
    OBVIOUS
  <2>3. /\ new \in Row /\ new.life = rows[r].life /\ new.is_redacted = rows[r].is_redacted
        /\ new.prompt = rows[r].prompt /\ new.code = rows[r].code /\ new.key = rows[r].key
    BY <2>1, <2>2 DEF Row
  <2>4. rows' = [rows EXCEPT ![r] = new]
    BY <1>2, <2>2 DEF Backfill
  <2> QED
    BY <1>1, <1>2, <2>3, <2>4 DEF MaybeRow
<1>3. CASE ~Present(r)
  BY <1>1, <1>3 DEF Backfill
<1> QED
  BY <1>2, <1>3

\* every step keeps the types
LEMMA TypeStep == Typed /\ [Next]_vars => Typed'
<1> SUFFICES ASSUME Typed, [Next]_vars PROVE Typed'
  OBVIOUS
<1>1. Walking'
  BY WalkStep
<1>2. embedding' \subseteq Records
  <2>1. embedding' \subseteq embedding
    BY DEF Next, Serve, Delete, Redact, Rescan, BulkDelete, Retain, Apply, ApplyMissing,
           RetainRedact, Commit, Abort, DeadlockVictim, Backfill, BackfillFails,
           VerifyStart, VerifyRow, VerifyEnd, vars
  <2> QED
    BY <2>1 DEF Typed
<1>3. CASE Calm
  BY <1>1, <1>2, <1>3 DEF Typed, Calm
<1>4. ASSUME NEW w \in Workers, Apply(w) PROVE Typed'
  <2>0. PICK r : r = Head(tx[w].todo)
    OBVIOUS
  <2>1. tx' \in [Workers -> Session] /\ \A v \in Workers : Queued(tx'[v])
    BY <1>4, <2>0, ApplyFacts, Zenon
  <2>2. nextEvent' \in {nextEvent, nextEvent + 1} /\ rows' = rows /\ events' = events
    BY <1>4, ZenonT(30) DEF Apply
  <2>3. nextEvent' \in Nat
    BY <2>2 DEF Typed
  <2> QED
    BY <1>1, <1>2, <2>1, <2>2, <2>3 DEF Typed
<1>5. ASSUME NEW w \in Workers, Commit(w) PROVE Typed'
  <2>1. tx[w].drawn \subseteq Event
    BY DEF Typed, Session
  <2> QED
    BY <1>1, <1>2, <1>5, <2>1, CommitFacts DEF Typed
<1>6. ASSUME NEW r \in Records, Backfill(r) PROVE Typed'
  BY <1>1, <1>2, <1>6, BackfillFacts DEF Typed, Backfill
<1> QED
  BY <1>3, <1>4, <1>5, <1>6, CalmSteps

\* The type invariant holds in every reachable state.
THEOREM TypeCorrect == Spec => []TypeOK
  BY TypeInit, TypeStep, TypedOK, PTL DEF Spec

-------------------------------------------------------------------------------
(* The inductive invariant: row locks keep sessions apart, an UPDATE computed  *)
(* from an old snapshot only takes content away, and every uncommitted scrub   *)
(* carries its event with it.                                                  *)

\* a row that was written again holds no more than before, and stays scrubbed
OnlyLess(old, new) == /\ old.life # "active" => new.life # "active"
                      /\ new.prompt => old.prompt
                      /\ new.code => old.code
                      /\ new.key => old.key

Shredded(row) == row.is_redacted => ~row.prompt /\ ~row.key

\* a row lock has one holder
Exclusive == \A v, w \in Workers : \A r \in DOMAIN tx[v].wrote \cap DOMAIN tx[w].wrote : v = w

\* what the session read has only lost content since
ReadBefore(s) == \A r \in DOMAIN s.seen : Present(r) => OnlyLess(s.seen[r], rows[r])

\* what it wrote replaces a row that is still there, and takes content away
Kept(s) == \A r \in DOMAIN s.wrote :
             /\ Present(r)
             /\ s.wrote[r] # Gone => OnlyLess(rows[r], s.wrote[r]) /\ Shredded(s.wrote[r])

\* its events are of rows it wrote, and later than every committed event of them
Fresh(s) == \A e \in s.drawn : /\ e.rec \in DOMAIN s.wrote /\ e.id < nextEvent
                               /\ \A f \in events : f.rec = e.rec => f.id < e.id

\* the last of the events of E about r names the state of the row
Names(E, r, row) ==
  \E e \in E : /\ e.rec = r /\ e.type = ExpectedType(row.life)
               /\ \A f \in E : f.rec = r => f.id <= e.id

\* a row it wrote keeps its state, or has an event that names the new one
Explained(s) == \A r \in DOMAIN s.wrote : s.wrote[r] # Gone =>
                  \/ s.wrote[r].life = rows[r].life /\ \A e \in s.drawn : e.rec # r
                  \/ Names(s.drawn, r, s.wrote[r])

Numbered == \A e \in events : e.id < nextEvent

Careful == \A w \in Workers :
             ReadBefore(tx[w]) /\ Kept(tx[w]) /\ Fresh(tx[w]) /\ Explained(tx[w])

Inv == Typed /\ Exclusive /\ Careful /\ Numbered /\ ShreddedForGood /\ LatestEventMatches

\* the row an UPDATE writes
LEMMA AfterKeeps ==
  ASSUME NEW type \in Types \ {"none"}, NEW seen \in Row, NEW row \in Row,
         OnlyLess(seen, row), Shredded(row)
  PROVE  LET new == After(type, seen, row)
         IN /\ new # Gone => OnlyLess(row, new) /\ Shredded(new)
            /\ type \in {"deletion", "redaction"} => type = ExpectedType(new.life)
            /\ type = "rescan" => new.life = row.life
            /\ type = "removal" => new = Gone
<1>1. CASE type \in {"deletion", "redaction"}
  <2>1. PICK new : new = Scrub(type, seen, row)
    OBVIOUS
  <2>2. /\ new.life = IF type = "deletion" THEN "deleted" ELSE "redacted"
        /\ new.is_redacted /\ ~new.key
        /\ new.prompt => row.prompt /\ ~seen.prompt
        /\ new.code => row.code
    BY <2>1, ScrubType
  <2>3. After(type, seen, row) = new
    BY <1>1, <2>1 DEF After
  <2> QED
    BY <1>1, <2>2, <2>3 DEF OnlyLess, Shredded, ExpectedType
<1>2. CASE type = "rescan"
  <2>1. PICK new : new = Rescanned(seen, row)
    OBVIOUS
  <2>2. /\ new.life = row.life /\ new.is_redacted = row.is_redacted
        /\ new.prompt = row.prompt /\ new.code = row.code /\ new.key = row.key
    BY <2>1, RescanType
  <2>3. After(type, seen, row) = new
    BY <1>2, <2>1 DEF After
  <2> QED
    BY <1>2, <2>2, <2>3 DEF OnlyLess, Shredded
<1>3. CASE type = "removal"
  BY <1>3 DEF After
<1> QED
  BY <1>1, <1>2, <1>3 DEF Types

\* reading and rolling back disturb nothing
LEMMA CalmKeeps ==
  Inv /\ Calm => Exclusive' /\ Careful' /\ Numbered' /\ ShreddedForGood' /\ LatestEventMatches'
<1> SUFFICES ASSUME Inv, Calm
             PROVE  Exclusive' /\ Careful' /\ Numbered' /\ ShreddedForGood' /\ LatestEventMatches'
  OBVIOUS
<1>1. /\ rows' = rows /\ events' = events /\ nextEvent' = nextEvent
      /\ \A v \in Workers : Reads(v) /\ Writes(v)
  BY DEF Calm
<1>2. \A v \in Workers : DOMAIN tx'[v].wrote \subseteq DOMAIN tx[v].wrote
  BY <1>1, NoneType DEF Writes
<1>3. Exclusive'
  BY <1>2 DEF Exclusive, Inv
<1>4. ASSUME NEW v \in Workers
      PROVE  ReadBefore(tx[v])' /\ Kept(tx[v])' /\ Fresh(tx[v])' /\ Explained(tx[v])'
  <2>1. ReadBefore(tx[v]) /\ Kept(tx[v]) /\ Fresh(tx[v]) /\ Explained(tx[v]) /\ Reads(v) /\ Writes(v)
    BY <1>1 DEF Inv, Careful
  <2>2. ReadBefore(tx[v])'
    BY <1>1, <2>1 DEF ReadBefore, Reads, OnlyLess, Present
  <2>3. CASE tx'[v].wrote = tx[v].wrote /\ tx'[v].drawn = tx[v].drawn
    BY <1>1, <2>1, <2>2, <2>3 DEF Kept, Fresh, Explained, Names, Present
  <2>4. CASE tx'[v].wrote = <<>> /\ tx'[v].drawn = {}
    BY <2>2, <2>4, NoneType DEF Kept, Fresh, Explained
  <2> QED
    BY <2>1, <2>3, <2>4 DEF Writes
<1>5. Numbered' /\ ShreddedForGood' /\ LatestEventMatches'
  BY <1>1 DEF Inv, Numbered, ShreddedForGood, LatestEventMatches, Latest, Present
<1> QED
  BY <1>3, <1>4, <1>5 DEF Careful

\* a flush adds one row, and with a scrub its event, to what the session holds
LEMMA ApplyKeeps ==
  ASSUME Inv, NEW w \in Workers, Apply(w)
  PROVE  Exclusive' /\ Careful' /\ Numbered' /\ ShreddedForGood' /\ LatestEventMatches'
<1> DEFINE t == tx[w]
<1>0. PICK r : r = Head(t.todo)
  OBVIOUS
<1>1. PICK new : new = After(t.type, t.seen[r], rows[r])
  OBVIOUS
<1>2. Typed /\ ReadBefore(t) /\ Kept(t) /\ Fresh(t) /\ Explained(t)
  BY DEF Inv, Careful
<1>3. /\ r \in Records /\ r \in DOMAIN t.seen /\ t.seen[r] \in Row
      /\ Present(r) /\ rows[r] \in Row /\ ~Locked(w, r)
      /\ t.type \in Types \ {"none"}
      /\ \A v \in Workers : v # w => tx'[v] = tx[v]
  BY <1>0, <1>2, ApplyFacts, Zenon
<1>4. /\ DOMAIN tx'[w].seen = DOMAIN t.seen \ {r}
      /\ \A x \in DOMAIN t.seen \ {r} : tx'[w].seen[x] = t.seen[x]
      /\ DOMAIN tx'[w].wrote = DOMAIN t.wrote \cup {r}
      /\ tx'[w].wrote[r] = new
      /\ \A x \in DOMAIN t.wrote \ {r} : tx'[w].wrote[x] = t.wrote[x]
  <2>1. tx'[w].wrote[r] = After(t.type, t.seen[r], rows[r])
    BY <1>0, <1>2, ApplyFacts, Zenon
  <2>2. /\ DOMAIN tx'[w].seen = DOMAIN t.seen \ {r}
        /\ DOMAIN tx'[w].wrote = DOMAIN t.wrote \cup {r}
    BY <1>0, <1>2, ApplyFacts, Zenon
  <2>3. \A x \in DOMAIN t.seen \ {r} : tx'[w].seen[x] = t.seen[x]
    BY <1>0, <1>2, ApplyFacts, Zenon
  <2>4. \A x \in DOMAIN t.wrote \ {r} : tx'[w].wrote[x] = t.wrote[x]
    BY <1>0, <1>2, ApplyFacts, Zenon
  <2> QED
    BY <1>1, <2>1, <2>2, <2>3, <2>4, Zenon
<1>5. tx'[w].drawn = IF t.type \in {"deletion", "redaction"}
                       THEN t.drawn \cup {[id |-> nextEvent, rec |-> r, type |-> t.type]}
                       ELSE t.drawn
  BY <1>0, <1>2, ApplyFacts, Zenon
<1>6. /\ rows' = rows /\ events' = events
      /\ nextEvent' = IF t.type \in {"deletion", "redaction"} THEN nextEvent + 1 ELSE nextEvent
  BY ZenonT(30) DEF Apply
<1>7. /\ new # Gone => OnlyLess(rows[r], new) /\ Shredded(new)
      /\ t.type \in {"deletion", "redaction"} => t.type = ExpectedType(new.life)
      /\ t.type = "rescan" => new.life = rows[r].life
      /\ t.type = "removal" => new = Gone
  <2>1. OnlyLess(t.seen[r], rows[r])
    BY <1>2, <1>3 DEF ReadBefore
  <2>2. Shredded(rows[r])
    BY <1>3 DEF Inv, ShreddedForGood, Shredded
  <2>3. PICK type \in Types \ {"none"}, seen \in Row, row \in Row :
          type = t.type /\ seen = t.seen[r] /\ row = rows[r]
    BY <1>3
  <2>4. new = After(type, seen, row)
    BY <1>1, <2>3
  <2>5. OnlyLess(seen, row) /\ Shredded(row)
    BY <2>1, <2>2, <2>3
  <2>6. /\ new # Gone => OnlyLess(row, new) /\ Shredded(new)
        /\ type \in {"deletion", "redaction"} => type = ExpectedType(new.life)
        /\ type = "rescan" => new.life = row.life
        /\ type = "removal" => new = Gone
    BY <2>4, <2>5, AfterKeeps
  <2> QED
    BY <2>3, <2>6
<1>8. nextEvent \in Nat /\ nextEvent' \in Nat /\ nextEvent <= nextEvent'
  BY <1>2, <1>6 DEF Typed
<1>9. events \subseteq Event /\ \A v \in Workers : tx[v].drawn \subseteq Event
  BY <1>2 DEF Typed, Session
<1> HIDE DEF t
<1>10. Exclusive'
  <2>1. \A v \in Workers : v # w => r \notin DOMAIN tx[v].wrote
    BY <1>3 DEF Locked
  <2>2. DOMAIN tx'[w].wrote = DOMAIN t.wrote \cup {r}
    BY <1>4
  <2> QED
    BY <1>3, <2>1, <2>2 DEF Inv, Exclusive, t
<1>11. ASSUME NEW v \in Workers, v # w
       PROVE  ReadBefore(tx[v])' /\ Kept(tx[v])' /\ Fresh(tx[v])' /\ Explained(tx[v])'
  <2>1. ReadBefore(tx[v]) /\ Kept(tx[v]) /\ Fresh(tx[v]) /\ Explained(tx[v]) /\ tx'[v] = tx[v]
    BY <1>3, <1>11 DEF Inv, Careful
  <2>2. \A e \in tx[v].drawn : e.id < nextEvent => e.id < nextEvent'
    BY <1>8, <1>9 DEF Event
  <2>3. Fresh(tx[v])'
    BY <1>6, <2>1, <2>2 DEF Fresh
  <2> QED
    BY <1>6, <2>1, <2>3 DEF ReadBefore, Kept, Explained, Names, Present
<1>12. ReadBefore(tx[w])'
  BY <1>2, <1>4, <1>6 DEF ReadBefore, Present
<1>13. Kept(tx[w])'
  BY <1>2, <1>3, <1>4, <1>6, <1>7 DEF Kept, Present
<1>14. \A e \in t.drawn : e.id \in Nat /\ e.id < nextEvent /\ e.id < nextEvent'
  BY <1>2, <1>8, <1>9 DEF Fresh, Event, t
<1>15. \A e \in events : e.id \in Nat /\ e.id < nextEvent /\ e.id < nextEvent'
  BY <1>8, <1>9 DEF Inv, Numbered, Event
<1>16. CASE t.type \in {"deletion", "redaction"}
  <2>1. PICK e : e = [id |-> nextEvent, rec |-> r, type |-> t.type]
    OBVIOUS
  <2>2. e.id = nextEvent /\ e.rec = r /\ e.type = t.type /\ tx'[w].drawn = t.drawn \cup {e}
    BY <1>5, <1>16, <2>1
  <2>3. nextEvent < nextEvent'
    BY <1>6, <1>8, <1>16
  <2>4. Fresh(tx[w])'
    BY <1>2, <1>6, <1>14, <1>15, <1>4, <2>2, <2>3 DEF Fresh
  <2>5. Names(tx'[w].drawn, r, new)
    BY <1>7, <1>8, <1>14, <1>16, <2>2 DEF Names
  <2>6. ASSUME NEW x \in DOMAIN t.wrote, x # r, t.wrote[x] # Gone
        PROVE  \/ t.wrote[x].life = rows[x].life /\ \A f \in tx'[w].drawn : f.rec # x
               \/ Names(tx'[w].drawn, x, t.wrote[x])
    BY <1>2, <2>2, <2>6 DEF Explained, Names
  <2>7. Explained(tx[w])'
    BY <1>6, <1>4, <2>5, <2>6 DEF Explained, Names
  <2> QED
    BY <1>11, <1>12, <1>13, <2>4, <2>7, <1>10, <1>6, <1>15
       DEF Careful, Numbered, ShreddedForGood, LatestEventMatches, Latest, Present, Inv
<1>17. CASE t.type \notin {"deletion", "redaction"}
  <2>1. t.drawn = {} /\ tx'[w].drawn = {}
    <3>1. Queued(t)
      BY <1>2 DEF Typed, t
    <3> QED
      BY <1>5, <1>17, <3>1 DEF Queued
  <2>2. Fresh(tx[w])'
    BY <2>1 DEF Fresh
  <2>3. new # Gone => new.life = rows[r].life
    BY <1>3, <1>7, <1>17 DEF Types
  <2>4. Explained(tx[w])'
    BY <1>2, <1>6, <1>4, <2>1, <2>3 DEF Explained, Names
  <2> QED
    BY <1>11, <1>12, <1>13, <2>2, <2>4, <1>10, <1>6, <1>15
       DEF Careful, Numbered, ShreddedForGood, LatestEventMatches, Latest, Present, Inv
<1> QED
  BY <1>16, <1>17

\* a commit publishes what the session wrote, with the events that name it
LEMMA CommitKeeps ==
  ASSUME Inv, NEW w \in Workers, Commit(w)
  PROVE  Exclusive' /\ Careful' /\ Numbered' /\ ShreddedForGood' /\ LatestEventMatches'
<1> DEFINE t == tx[w]
<1>1. Typed /\ ReadBefore(t) /\ Kept(t) /\ Fresh(t) /\ Explained(t)
  BY DEF Inv, Careful
<1>2. /\ \A r \in Records : rows'[r] = IF r \in DOMAIN t.wrote THEN t.wrote[r] ELSE rows[r]
      /\ events' = events \cup t.drawn /\ nextEvent' = nextEvent
      /\ tx'[w] = Idle /\ \A v \in Workers : v # w => tx'[v] = tx[v]
  BY <1>1, CommitFacts
<1>3. /\ events \subseteq Event /\ nextEvent \in Nat
      /\ \A v \in Workers : /\ tx[v].drawn \subseteq Event
                            /\ DOMAIN tx[v].wrote \subseteq Records
                            /\ DOMAIN tx[v].seen \subseteq Records
  <2>1. ASSUME NEW v \in Workers
        PROVE  /\ tx[v].drawn \subseteq Event
               /\ DOMAIN tx[v].wrote \subseteq Records
               /\ DOMAIN tx[v].seen \subseteq Records
    <3>1. tx[v].drawn \subseteq Event /\ tx[v].wrote \in Partials(MaybeRow) /\ tx[v].seen \in Partials(Row)
      BY <1>1 DEF Typed, Session
    <3> QED
      BY <3>1 DEF Partials
  <2> QED
    BY <1>1, <2>1 DEF Typed
<1>4. /\ Idle.wrote = <<>> /\ Idle.drawn = {} /\ Idle.seen = <<>> /\ DOMAIN <<>> = {}
  BY NoneType DEF Idle
<1>5. \A v \in Workers : DOMAIN tx'[v].wrote \subseteq DOMAIN tx[v].wrote
  BY <1>2, <1>4
<1>6. Exclusive'
  BY <1>5 DEF Inv, Exclusive
<1>7. Numbered'
  BY <1>1, <1>2 DEF Inv, Numbered, Fresh
<1>8. ShreddedForGood'
  BY <1>1, <1>2 DEF Inv, ShreddedForGood, Kept, Shredded, Present
<1> HIDE DEF t
<1>9. ASSUME NEW v \in Workers, v # w
      PROVE  ReadBefore(tx[v])' /\ Kept(tx[v])' /\ Fresh(tx[v])' /\ Explained(tx[v])'
  <2>1. ReadBefore(tx[v]) /\ Kept(tx[v]) /\ Fresh(tx[v]) /\ Explained(tx[v]) /\ tx'[v] = tx[v]
    BY <1>2, <1>9 DEF Inv, Careful
  <2>2. \A r \in DOMAIN tx[v].wrote : r \in Records /\ r \notin DOMAIN t.wrote /\ rows'[r] = rows[r]
    BY <1>2, <1>3, <1>9 DEF Inv, Exclusive, t
  <2>3. ReadBefore(tx[v])'
    <3>1. ASSUME NEW r \in DOMAIN tx[v].seen, rows'[r] # Gone
          PROVE  OnlyLess(tx[v].seen[r], rows'[r])
      <4>1. r \in Records
        BY <1>3
      <4>2. CASE r \in DOMAIN t.wrote
        <5>1. OnlyLess(rows[r], rows'[r]) /\ Present(r)
          BY <1>1, <1>2, <3>1, <4>1, <4>2 DEF Kept
        <5>2. OnlyLess(tx[v].seen[r], rows[r])
          BY <2>1, <5>1 DEF ReadBefore
        <5> QED
          BY <5>1, <5>2 DEF OnlyLess
      <4>3. CASE r \notin DOMAIN t.wrote
        BY <1>2, <2>1, <3>1, <4>1, <4>3 DEF ReadBefore, Present
      <4> QED
        BY <4>2, <4>3
    <3> QED
      BY <2>1, <3>1 DEF ReadBefore, Present
  <2>4. Kept(tx[v])'
    BY <2>1, <2>2 DEF Kept, Present
  <2>5. Fresh(tx[v])'
    BY <1>1, <1>2, <2>1, <2>2 DEF Fresh
  <2>6. Explained(tx[v])'
    BY <2>1, <2>2 DEF Explained, Names
  <2> QED
    BY <2>3, <2>4, <2>5, <2>6
<1>10. ReadBefore(tx[w])' /\ Kept(tx[w])' /\ Fresh(tx[w])' /\ Explained(tx[w])'
  BY <1>2, <1>4 DEF ReadBefore, Kept, Fresh, Explained
<1>11. LatestEventMatches'
  <2>1. ASSUME NEW r \in Records, rows'[r] # Gone, rows'[r].life # "active"
        PROVE  Names(events', r, rows'[r])
    <3>1. CASE r \in DOMAIN t.wrote
      <4>1. rows'[r] = t.wrote[r] /\ t.wrote[r] # Gone /\ Present(r)
        BY <1>1, <1>2, <2>1, <3>1 DEF Kept
      <4>2. CASE t.wrote[r].life = rows[r].life /\ \A e \in t.drawn : e.rec # r
        <5>1. Names(events, r, rows'[r])
          BY <2>1, <4>1, <4>2 DEF Inv, LatestEventMatches, Latest, Names
        <5> QED
          BY <1>2, <4>2, <5>1 DEF Names
      <4>3. CASE Names(t.drawn, r, t.wrote[r])
        <5>1. PICK e \in t.drawn : /\ e.rec = r /\ e.type = ExpectedType(t.wrote[r].life)
                                   /\ \A f \in t.drawn : f.rec = r => f.id <= e.id
          BY <4>3 DEF Names
        <5>2. \A f \in events : f.rec = r => f.id <= e.id
          BY <1>1, <1>3, <5>1 DEF Fresh, Event, t
        <5> QED
          BY <1>2, <4>1, <5>1, <5>2 DEF Names
      <4> QED
        BY <1>1, <3>1, <4>1, <4>2, <4>3 DEF Explained
    <3>2. CASE r \notin DOMAIN t.wrote
      <4>1. rows'[r] = rows[r] /\ \A e \in t.drawn : e.rec # r
        BY <1>1, <1>2, <3>2 DEF Fresh
      <4>2. Names(events, r, rows'[r])
        BY <2>1, <4>1 DEF Inv, LatestEventMatches, Latest, Names, Present
      <4> QED
        BY <1>2, <4>1, <4>2 DEF Names
    <3> QED
      BY <3>1, <3>2
  <2> QED
    BY <2>1 DEF LatestEventMatches, Latest, Names, Present
<1> QED
  BY <1>6, <1>7, <1>8, <1>9, <1>10, <1>11 DEF Careful

\* an embedding that arrives late changes nothing that the invariant is about
LEMMA BackfillKeeps ==
  ASSUME Inv, NEW r \in Records, Backfill(r)
  PROVE  Exclusive' /\ Careful' /\ Numbered' /\ ShreddedForGood' /\ LatestEventMatches'
<1>1. tx' = tx /\ events' = events /\ nextEvent' = nextEvent
  BY DEF Backfill
<1>2. /\ rows' \in [Records -> MaybeRow]
      /\ \A x \in Records : x # r => rows'[x] = rows[x]
      /\ ~Present(r) => rows' = rows
      /\ Present(r) => LET new == rows'[r]
                           old == rows[r]
                       IN /\ new \in Row /\ new.life = old.life /\ new.is_redacted = old.is_redacted
                          /\ new.prompt = old.prompt /\ new.code = old.code /\ new.key = old.key
  BY BackfillFacts DEF Inv
<1>3. \A x \in Records :
        \/ rows'[x] = rows[x]
        \/ /\ x = r /\ rows[x] # Gone
           /\ rows'[x].life = rows[x].life /\ rows'[x].is_redacted = rows[x].is_redacted
           /\ rows'[x].prompt = rows[x].prompt /\ rows'[x].code = rows[x].code
           /\ rows'[x].key = rows[x].key
  BY <1>2 DEF Present
<1>4. Exclusive' /\ Numbered'
  BY <1>1 DEF Inv, Exclusive, Numbered
<1>5. ShreddedForGood'
  BY <1>3 DEF Inv, ShreddedForGood, Present
<1>6. LatestEventMatches'
  BY <1>1, <1>3 DEF Inv, LatestEventMatches, Latest, Present
<1>7. ASSUME NEW v \in Workers
      PROVE  ReadBefore(tx[v])' /\ Kept(tx[v])' /\ Fresh(tx[v])' /\ Explained(tx[v])'
  <2>1. ReadBefore(tx[v]) /\ Kept(tx[v]) /\ Fresh(tx[v]) /\ Explained(tx[v])
    BY DEF Inv, Careful
  <2>2. tx[v].wrote \in Partials(MaybeRow) /\ tx[v].seen \in Partials(Row)
    BY DEF Inv, Typed, Session
  <2>3. DOMAIN tx[v].wrote \subseteq Records /\ DOMAIN tx[v].seen \subseteq Records
    BY <2>2 DEF Partials
  <2>4. \A x \in DOMAIN tx[v].wrote : rows'[x] = rows[x]
    BY <1>3, <2>3 DEF Backfill
  <2>5. ReadBefore(tx[v])'
    BY <1>1, <1>3, <2>1, <2>3 DEF ReadBefore, OnlyLess, Present
  <2>6. Kept(tx[v])' /\ Explained(tx[v])'
    BY <1>1, <2>1, <2>4 DEF Kept, Explained, Names, Present
  <2>7. Fresh(tx[v])'
    BY <1>1, <2>1 DEF Fresh
  <2> QED
    BY <2>5, <2>6, <2>7
<1> QED
  BY <1>4, <1>5, <1>6, <1>7 DEF Careful

\* a fresh chain is untouched
LEMMA InvInit == Init => Inv
<1> SUFFICES ASSUME Init PROVE Inv
  OBVIOUS
<1>1. Typed
  BY TypeInit
<1>2. \A w \in Workers : tx[w] = Idle
  BY DEF Init
<1>3. Idle.wrote = <<>> /\ Idle.drawn = {} /\ Idle.seen = <<>> /\ DOMAIN <<>> = {}
  BY NoneType DEF Idle
<1>4. Exclusive /\ Careful
  BY <1>2, <1>3 DEF Exclusive, Careful, ReadBefore, Kept, Fresh, Explained
<1>5. \A r \in Records : rows[r].life = "active" /\ rows[r].is_redacted = FALSE
  BY DEF Init, Ingested
<1>6. Numbered /\ ShreddedForGood /\ LatestEventMatches
  BY <1>5 DEF Init, Numbered, ShreddedForGood, LatestEventMatches
<1> QED
  BY <1>1, <1>4, <1>6 DEF Inv

LEMMA InvStep == Inv /\ [Next]_vars => Inv'
<1> SUFFICES ASSUME Inv, [Next]_vars
             PROVE  Exclusive' /\ Careful' /\ Numbered' /\ ShreddedForGood' /\ LatestEventMatches'
  BY TypeStep DEF Inv
<1>1. \/ Calm
      \/ \E w \in Workers : Apply(w) \/ Commit(w)
      \/ \E r \in Records : Backfill(r)
  BY CalmSteps DEF Inv
<1> QED
  BY <1>1, CalmKeeps, ApplyKeeps, CommitKeeps, BackfillKeeps

\* no step gives a scrubbed record back what it lost
LEMMA LessStep ==
  Inv /\ [Next]_vars => \A r \in Records : Present(r) /\ Present(r)' => OnlyLess(rows[r], rows'[r])
<1> SUFFICES ASSUME Inv, [Next]_vars, NEW r \in Records, rows[r] # Gone, rows'[r] # Gone
             PROVE  OnlyLess(rows[r], rows'[r])
  BY DEF Present
<1>1. CASE rows' = rows
  BY <1>1 DEF OnlyLess
<1>2. ASSUME NEW w \in Workers, Commit(w) PROVE OnlyLess(rows[r], rows'[r])
  <2>1. rows'[r] = IF r \in DOMAIN tx[w].wrote THEN tx[w].wrote[r] ELSE rows[r]
    BY <1>2, CommitFacts DEF Inv
  <2>2. Kept(tx[w])
    BY DEF Inv, Careful
  <2> QED
    BY <2>1, <2>2 DEF Kept, OnlyLess
<1>3. ASSUME NEW x \in Records, Backfill(x) PROVE OnlyLess(rows[r], rows'[r])
  <2>1. /\ r # x => rows'[r] = rows[r]
        /\ r = x => /\ rows'[r].life = rows[r].life /\ rows'[r].prompt = rows[r].prompt
                    /\ rows'[r].code = rows[r].code /\ rows'[r].key = rows[r].key
    BY <1>3, BackfillFacts DEF Inv, Present
  <2> QED
    BY <2>1 DEF OnlyLess
<1>4. \/ rows' = rows
      \/ \E w \in Workers : Commit(w)
      \/ \E x \in Records : Backfill(x)
  BY CalmSteps, ZenonT(30) DEF Inv, Calm, Apply
<1> QED
  BY <1>1, <1>2, <1>3, <1>4

\* the verifier raises the alarm of a row only for a cause
LEMMA AlarmStep ==
  Inv /\ [Next]_vars => (check.pc = "walk" /\ check'.pc = "tampered" =>
                            \/ check.at > 1 /\ check.seen[check.at - 1] = Gone
                            \/ rows[check.at] # check.seen[check.at])
<1> SUFFICES ASSUME Inv, [Next]_vars, check.pc = "walk", check'.pc = "tampered",
                    rows[check.at] = check.seen[check.at]
             PROVE  check.at > 1 /\ check.seen[check.at - 1] = Gone
  OBVIOUS
<1>1. Walking
  BY DEF Inv, Typed
<1>2. VerifyStart \/ VerifyRow \/ VerifyEnd \/ check' = check
  BY DEF Next, Serve, Delete, Redact, Rescan, BulkDelete, Retain, Apply, ApplyMissing,
         RetainRedact, Commit, Abort, DeadlockVictim, Backfill, BackfillFails, vars
<1>3. VerifyRow
  BY <1>2 DEF VerifyStart, VerifyEnd
<1>4. /\ check.at \in Records /\ check.seen[check.at] # Gone
      /\ ~LinkHolds(check.at) \/ ~EventHolds(check.at)
  BY <1>1, <1>3 DEF VerifyRow, Walking
<1>5. CASE ~LinkHolds(check.at)
  BY <1>4, <1>5, LengthAssumption DEF LinkHolds, Records
<1>6. CASE ~EventHolds(check.at)
  BY <1>4, <1>6 DEF EventHolds, Inv, LatestEventMatches, Present
<1> QED
  BY <1>4, <1>5, <1>6

\* In every reachable state of every instance a scrubbed row has an event, and the
\* latest one names its state.
THEOREM EventsMatch == Spec => []LatestEventMatches
<1>1. Inv => LatestEventMatches
  BY DEF Inv
<1> QED
  BY <1>1, InvInit, InvStep, PTL DEF Spec

\* Crypto-shredding is final: no scrubbed row has its prompt or its key.
THEOREM ShreddedAlways == Spec => []ShreddedForGood
<1>1. Inv => ShreddedForGood
  BY DEF Inv
<1> QED
  BY <1>1, InvInit, InvStep, PTL DEF Spec

\* No step reactivates a record or restores what was scrubbed.
THEOREM NoneReactivated == Spec => NeverReactivated
<1>1. Inv /\ [Next]_vars =>
        [\A r \in Records : (Present(r) /\ Present(r)') =>
           /\ rows[r].life # "active" => rows'[r].life # "active"
           /\ rows'[r].prompt => rows[r].prompt
           /\ rows'[r].code => rows[r].code
           /\ rows'[r].key => rows[r].key]_vars
  BY LessStep DEF OnlyLess
<1> QED
  BY <1>1, InvInit, InvStep, PTL DEF Spec, NeverReactivated

\* The verifier never raises the alarm over privacy operations alone.
THEOREM AlarmsJustified == Spec => AlarmHasCause
<1>1. Inv /\ [Next]_vars =>
        [(check.pc = "walk" /\ check'.pc = "tampered") =>
            \/ check.at > 1 /\ check.seen[check.at - 1] = Gone
            \/ rows[check.at] # check.seen[check.at]]_vars
  BY AlarmStep
<1> QED
  BY <1>1, InvInit, InvStep, PTL DEF Spec, AlarmHasCause
===============================================================================
