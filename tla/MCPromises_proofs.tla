---------------------------- MODULE MCPromises_proofs ----------------------------
(* Proofs about the edits the proxy holds and the mails the scheduler sends, for *)
(* every number of requests, conversations, calls and reports.                   *)
EXTENDS MCPromises, SequenceFacts

-------------------------------------------------------------------------------
(* Pending edits.  A call is in one place at a time: in the batch of one response *)
(* that is to be stored, in the store, in one delivery, or recorded.              *)

\* the result of call d may be recorded for edit c
Suits(c, d) == /\ Held!SessionOfCall(d) = Held!SessionOfCall(c) /\ ToolOf[d] = ToolOf[c]
               /\ ~HeldByName => d = c

Task == [call : HeldEdits, of : HeldCalls]

\* asked, and not recorded
Open(c, A, R) == c \in A /\ R[c] = <<>>

\* P: the store, K: the batch of each request, A: what was asked, T: deliveries, R: what is recorded
Places(P, K, A, T, R) ==
  /\ \A w \in Handlers : \A c \in K[w] : /\ Open(c, A, R) /\ c \notin P /\ \A t \in T : t.call # c
                                         /\ \A u \in Handlers : c \in K[u] => u = w
  /\ \A c \in P : Open(c, A, R) /\ \A t \in T : t.call # c
  /\ \A t \in T : Open(t.call, A, R) /\ Suits(t.call, t.of) /\ \A s \in T : s.call = t.call => s = t
  /\ \A c \in HeldCalls : R[c] # <<>> => c \in A /\ \E d \in HeldCalls : R[c] = <<d>> /\ Suits(c, d)

\* what is dropped frees its place
LEMMA PlacesShrink ==
  ASSUME NEW P, NEW K, NEW A, NEW T, NEW R, Places(P, K, A, T, R),
         NEW Q \in SUBSET P, NEW L, \A w \in Handlers : L[w] \subseteq K[w], NEW U \in SUBSET T
  PROVE  Places(Q, L, A, U, R)
  BY DEF Places

\* a resolved edit goes from the store to a delivery
LEMMA PlacesResolve ==
  ASSUME NEW P, NEW K, NEW A, NEW T, NEW R, Places(P, K, A, T, R), NEW Q \in SUBSET P, NEW F,
         \A t \in F : t.call \in P \ Q /\ Suits(t.call, t.of) /\ \A s \in F : s.call = t.call => s = t
  PROVE  Places(Q, K, A, T \cup F, R)
<1>1. \A t \in F, s \in T : t.call # s.call /\ Open(t.call, A, R)
  BY DEF Places
<1> QED
  BY <1>1 DEF Places

\* a response asks for new calls
LEMMA PlacesAsk ==
  ASSUME NEW P, NEW K, NEW A, NEW T, NEW R, Places(P, K, A, T, R), NEW w \in Handlers, NEW L, NEW B,
         B \subseteq HeldCalls, B \cap A = {}, \A u \in Handlers : u # w => L[u] \subseteq K[u], L[w] \subseteq B
  PROVE  Places(P, L, A \cup B, T, R)
<1>1. \A c \in B : R[c] = <<>> /\ c \notin P /\ (\A t \in T : t.call # c) /\ \A u \in Handlers : c \notin K[u]
  BY DEF Places, Open
<1>2. ASSUME NEW u \in Handlers, NEW c \in L[u]
      PROVE  /\ Open(c, A \cup B, R) /\ c \notin P /\ (\A t \in T : t.call # c)
             /\ \A x \in Handlers : c \in L[x] => x = u
  <2>1. CASE u = w
    BY <1>1, <2>1 DEF Open
  <2>2. CASE u # w
    BY <1>1, <2>2 DEF Open, Places
  <2> QED
    BY <2>1, <2>2
<1> QED
  BY <1>2 DEF Places, Open

\* the edits of a batch enter the store
LEMMA PlacesStore ==
  ASSUME NEW P, NEW K, NEW A, NEW T, NEW R, Places(P, K, A, T, R), NEW w \in Handlers, NEW L, NEW Q,
         Q \subseteq P \cup K[w], \A u \in Handlers : u # w => L[u] \subseteq K[u], L[w] = {}
  PROVE  Places(Q, L, A, T, R)
  BY DEF Places

\* a delivery is recorded
LEMMA PlacesDeliver ==
  ASSUME NEW P, NEW K, NEW A, NEW T, NEW R, Places(P, K, A, T, R), NEW t \in T, t.call \in HeldCalls, t.of \in HeldCalls,
         NEW V, V[t.call] = <<t.of>>, \A c \in HeldCalls : c # t.call => V[c] = R[c],
         P \subseteq HeldCalls, \A w \in Handlers : K[w] \subseteq HeldCalls, \A s \in T : s.call \in HeldCalls
  PROVE  Places(P, K, A, T \ {t}, V)
<1>1. ASSUME NEW w \in Handlers, NEW c \in K[w]
      PROVE  /\ Open(c, A, V) /\ c \notin P /\ (\A s \in T : s.call # c)
             /\ \A u \in Handlers : c \in K[u] => u = w
  BY DEF Places, Open
<1>2. ASSUME NEW c \in P PROVE Open(c, A, V) /\ \A s \in T : s.call # c
  BY DEF Places, Open
<1>3. ASSUME NEW s \in T \ {t}
      PROVE  Open(s.call, A, V) /\ Suits(s.call, s.of) /\ \A x \in T : x.call = s.call => x = s
  <2>1. s.call # t.call
    BY DEF Places
  <2> QED
    BY <2>1 DEF Places, Open
<1>4. ASSUME NEW c \in HeldCalls, V[c] # <<>>
      PROVE  c \in A /\ \E d \in HeldCalls : V[c] = <<d>> /\ Suits(c, d)
  <2>1. CASE c = t.call
    BY <2>1 DEF Places, Open
  <2>2. CASE c # t.call
    BY <1>4, <2>2 DEF Places
  <2> QED
    BY <2>1, <2>2
<1> QED
  BY <1>1, <1>2, <1>3, <1>4 DEF Places

-------------------------------------------------------------------------------
LEMMA HeldKept == \A s, T : Held!Kept(s, T) = Kept(s, T)
  BY DEF Held!Kept, Kept

LEMMA HeldRange == \A s : Held!Range(s) = Items(s)
  BY DEF Held!Range, Items

\* a set that is put in order
LEMMA Ordered ==
  ASSUME NEW C \in SUBSET HeldCalls
  PROVE  /\ Held!SetToSeq(C) \in Seq(HeldCalls) /\ Items(Held!SetToSeq(C)) \subseteq C
         /\ Distinct(Held!SetToSeq(C))
<1>1. PICK n : n = Cardinality(C) /\ n \in Nat /\ ExistsBijection(1..n, C)
  <2>1. IsFiniteSet(C)
    BY CallsAssumption, FS_Subset
  <2> QED
    BY <2>1, FS_CardinalityType
<1>2. Held!Cardinality(C) = n
  BY <1>1 DEF Held!Cardinality, Cardinality
<1>3. PICK g \in [1..n -> C] : \A i, j \in 1..n : g[i] = g[j] => i = j
  BY <1>1 DEF ExistsBijection, Bijection, Injection, IsInjective
<1>4. PICK f : f = Held!SetToSeq(C)
  OBVIOUS
<1>5. f \in [1..n -> C] /\ Held!IsInjective(f)
  <2>1. Held!IsInjective(g)
    BY <1>3 DEF Held!IsInjective
  <2> QED
    BY <1>2, <1>3, <1>4, <2>1 DEF Held!SetToSeq
<1>6. \A i, j \in 1..n : f[i] = f[j] => i = j
  BY <1>5 DEF Held!IsInjective
<1>7. f \in Seq(HeldCalls) /\ DOMAIN f = 1..n
  BY <1>1, <1>5
<1> QED
  BY <1>4, <1>5, <1>6, <1>7 DEF Items, Distinct

-------------------------------------------------------------------------------
(* What the results of a request resolve. *)

Resolution == [left : Seq(HeldEdits), found : SUBSET Task]

\* the store x with the result d of a call: y is left, and found grows by G
OneResolved(x, d, y, G) ==
  /\ y \in Seq(HeldEdits) /\ (Distinct(x) => Distinct(y)) /\ Items(y) \subseteq Items(x)
  /\ \A t \in G : t \in Task /\ t.call \in Items(x) \ Items(y) /\ Suits(t.call, t.of)
  /\ \A s, t \in G : s = t
  /\ ~HeldByName => d \notin Items(y)

LEMMA MatchSuits ==
  ASSUME NEW x \in Seq(HeldEdits), NEW d \in HeldCalls
  PROVE  \/ Held!Match(x, d) = {} /\ (~HeldByName => d \notin Items(x))
         \/ \E e \in Items(x) : Held!Match(x, d) = {e} /\ Suits(e, d)
<1>1. PICK named : /\ named = Kept(x, {e \in HeldCalls : Held!SessionOfCall(e) = Held!SessionOfCall(d) /\ ToolOf[e] = ToolOf[d]})
                   /\ Held!Match(x, d) = IF (~HeldByName \/ HeldIds) /\ d \in Items(x) THEN {d}
                                         ELSE IF HeldByName /\ named # <<>> THEN {Head(named)} ELSE {}
  BY HeldKept, HeldRange DEF Held!Match
<1>2. /\ named \in Seq(HeldEdits)
      /\ Items(named) = Items(x) \cap {e \in HeldCalls : Held!SessionOfCall(e) = Held!SessionOfCall(d) /\ ToolOf[e] = ToolOf[d]}
  BY <1>1, ItemsKept
<1>3. named # <<>> => Head(named) \in Items(named)
  BY <1>2, ItemsHeadTail
<1>4. CASE (~HeldByName \/ HeldIds) /\ d \in Items(x)
  BY <1>1, <1>4 DEF Suits
<1>5. CASE ~((~HeldByName \/ HeldIds) /\ d \in Items(x)) /\ HeldByName /\ named # <<>>
  BY <1>1, <1>2, <1>3, <1>5 DEF Suits
<1>6. CASE ~((~HeldByName \/ HeldIds) /\ d \in Items(x)) /\ ~(HeldByName /\ named # <<>>)
  BY <1>1, <1>6
<1> QED
  BY <1>4, <1>5, <1>6

LEMMA ResolvedOne ==
  ASSUME NEW acc \in Resolution, NEW d \in HeldCalls
  PROVE  \E y, G : /\ Held!Resolved(acc, d) = [left |-> y, found |-> acc.found \cup G]
                   /\ OneResolved(acc.left, d, y, G)
<1>1. PICK x, k, y, G : /\ x = acc.left /\ k = Held!Match(x, d) /\ y = Kept(x, HeldCalls \ k) /\ G = [call : k, of : {d}]
  OBVIOUS
<1>2. Held!Resolved(acc, d) = [left |-> y, found |-> acc.found \cup G]
  BY <1>1, HeldKept DEF Held!Resolved, Held!Drop
<1>3. x \in Seq(HeldEdits) /\ \A e \in Items(x) : e \in HeldEdits /\ e \in HeldCalls
  BY <1>1, CallsAssumption DEF Resolution, Items
<1>4. y \in Seq(HeldEdits) /\ Items(y) = Items(x) \ k /\ (Distinct(x) => Distinct(y))
  <2>1. Items(y) = Items(x) \cap (HeldCalls \ k)
    BY <1>1, <1>3, ItemsKept
  <2>2. y \in Seq(HeldEdits) /\ (Distinct(x) => Distinct(y))
    BY <1>1, <1>3, ItemsKept
  <2> QED
    BY <1>3, <2>1, <2>2
<1>5. \/ k = {} /\ (~HeldByName => d \notin Items(x))
      \/ \E e \in Items(x) : k = {e} /\ Suits(e, d)
  BY <1>1, <1>3, MatchSuits
<1>6. OneResolved(x, d, y, G)
  <2>1. CASE k = {} /\ (~HeldByName => d \notin Items(x))
    <3>1. G = {}
      BY <1>1, <2>1
    <3> QED
      BY <1>4, <2>1, <3>1 DEF OneResolved
  <2>2. ASSUME NEW e \in Items(x), k = {e}, Suits(e, d) PROVE OneResolved(x, d, y, G)
    <3>0. G = [call : {e}, of : {d}]
      BY <1>1, <2>2
    <3>1. G = {[call |-> e, of |-> d]}
      <4>1. ASSUME NEW t \in G PROVE t = [call |-> e, of |-> d]
        BY <3>0
      <4>2. [call |-> e, of |-> d] \in G
        BY <3>0
      <4> QED
        BY <4>1, <4>2
    <3>2. [call |-> e, of |-> d] \in Task
      BY <1>3 DEF Task
    <3>3. ~HeldByName => d = e
      BY <2>2 DEF Suits
    <3> QED
      BY <1>3, <1>4, <2>2, <3>1, <3>2, <3>3 DEF OneResolved
  <2> QED
    BY <1>5, <2>1, <2>2
<1> QED
  BY <1>1, <1>2, <1>6

\* the recursion of Resolve
ResolveSteps(R, q, r, n) == /\ R[0] = [left |-> q, found |-> {}]
                            /\ \A i \in 1..n : R[i] = Held!Resolved(R[i - 1], r[i])

LEMMA ResolvedTyped ==
  ASSUME NEW acc \in Resolution, NEW d \in HeldCalls
  PROVE  Held!Resolved(acc, d) \in Resolution
<1>1. PICK y, G : Held!Resolved(acc, d) = [left |-> y, found |-> acc.found \cup G] /\ OneResolved(acc.left, d, y, G)
  BY ResolvedOne
<1>2. y \in Seq(HeldEdits) /\ acc.found \cup G \in SUBSET Task
  BY <1>1 DEF OneResolved, Resolution
<1> QED
  BY <1>1, <1>2 DEF Resolution

LEMMA ResolveIsRecursive ==
  ASSUME NEW q \in Seq(HeldEdits), NEW r \in Seq(HeldCalls), NEW n \in Nat, n = Len(r)
  PROVE  \E R : ResolveSteps(R, q, r, n) /\ Held!Resolve(q, r) = R[n]
<1>1. n = Len(r) /\ DOMAIN r = 1..n
  OBVIOUS
<1>0. PICK c0 : c0 = [left |-> q, found |-> {}] /\ c0 \in Resolution
  <2>1. [left |-> q, found |-> {}] \in Resolution
    BY DEF Resolution
  <2> QED
    BY <2>1
<1> DEFINE R == CHOOSE f : f = [i \in 0..Len(r) |-> IF i = 0 THEN c0 ELSE Held!Resolved(f[i - 1], r[i])]
<1>2. R = [i \in 0..n |-> IF i = 0 THEN c0 ELSE Held!Resolved(R[i - 1], r[i])]
  <2>1. PICK G : G = [x \in Resolution \X (1..n) |-> Held!Resolved(x[1], r[x[2]])]
    OBVIOUS
  <2>2. G \in [Resolution \X (1..n) -> Resolution]
    <3>1. \A a \in Resolution, i \in 1..n : Held!Resolved(a, r[i]) \in Resolution
      BY <1>1, ResolvedTyped
    <3> QED
      BY <2>1, <3>1
  <2>3. PICK f \in [0..n -> Resolution] : f[0] = c0 /\ \A i \in 1..n : f[i] = G[<<f[i - 1], i>>]
    <3>1. Defined(Resolution, c0, n, G)
      BY <1>0, <2>2, Recursion
    <3> QED
      BY <3>1 DEF Defined
  <2>4. \A i \in 1..n : G[<<f[i - 1], i>>] = Held!Resolved(f[i - 1], r[i])
    <3> TAKE i \in 1..n
    <3>1. PICK x \in Resolution : x = f[i - 1]
      BY i - 1 \in 0..n
    <3>2. G[<<x, i>>] = Held!Resolved(x, r[i])
      BY <2>1
    <3> QED
      BY <3>1, <3>2
  <2>5. \A i \in 0..n : i # 0 => i \in 1..n
    OBVIOUS
  <2>6. f = [i \in 0..Len(r) |-> IF i = 0 THEN c0 ELSE Held!Resolved(f[i - 1], r[i])]
    BY <1>1, <2>3, <2>4, <2>5
  <2> QED
    BY <1>1, <2>6
<1>3. R[0] = c0 /\ \A i \in 1..n : R[i] = Held!Resolved(R[i - 1], r[i])
  <2> HIDE DEF R
  <2>1. 0 \in 0..n /\ \A i \in 1..n : i \in 0..n /\ i # 0
    OBVIOUS
  <2> QED
    BY <1>2, <2>1
<1>4. Held!Resolve(q, r) = R[n]
  BY <1>0, <1>1 DEF Held!Resolve
<1> HIDE DEF R
<1> QED
  BY <1>0, <1>3, <1>4 DEF ResolveSteps

\* what the results r resolve of the store q
LEMMA ResolveFacts ==
  ASSUME NEW q \in Seq(HeldEdits), NEW r \in Seq(HeldCalls)
  PROVE  /\ Held!Resolve(q, r) \in Resolution
         /\ Items(Held!Resolve(q, r).left) \subseteq Items(q)
         /\ Distinct(q) => Distinct(Held!Resolve(q, r).left)
         /\ \A t \in Held!Resolve(q, r).found : /\ t.call \in Items(q) \ Items(Held!Resolve(q, r).left)
                                                /\ Suits(t.call, t.of)
                                                /\ \A s \in Held!Resolve(q, r).found : s.call = t.call => s = t
         /\ ~HeldByName => Items(r) \cap Items(Held!Resolve(q, r).left) = {}
<1>1. PICK n \in Nat : n = Len(r) /\ DOMAIN r = 1..n
  OBVIOUS
<1>2. PICK R : ResolveSteps(R, q, r, n) /\ Held!Resolve(q, r) = R[n]
  BY <1>1, ResolveIsRecursive
<1> DEFINE Fits(a, k) == /\ a \in Resolution
                         /\ Items(a.left) \subseteq Items(q)
                         /\ Distinct(q) => Distinct(a.left)
                         /\ \A t \in a.found : /\ t.call \in Items(q) \ Items(a.left)
                                               /\ Suits(t.call, t.of)
                                               /\ \A s \in a.found : s.call = t.call => s = t
                         /\ ~HeldByName => \A i \in 1..k : r[i] \notin Items(a.left)
<1> DEFINE P == {k \in Nat : k <= n => Fits(R[k], k)}
<1>3. 0 \in P
  <2>1. R[0] = [left |-> q, found |-> {}]
    BY <1>2 DEF ResolveSteps
  <2>2. R[0] \in Resolution
    BY <2>1 DEF Resolution
  <2> QED
    BY <2>1, <2>2
<1>4. ASSUME NEW k \in P PROVE k + 1 \in P
  <2> HIDE DEF Fits
  <2> SUFFICES ASSUME k + 1 <= n PROVE Fits(R[k + 1], k + 1)
    OBVIOUS
  <2>1. PICK a : a = R[k] /\ Fits(a, k)
    BY k <= n
  <2>2. PICK d \in HeldCalls : d = r[k + 1]
    BY <1>1, k + 1 \in 1..n
  <2>3. R[k + 1] = Held!Resolved(a, d)
    BY <1>2, <2>1, <2>2, k + 1 \in 1..n DEF ResolveSteps
  <2>4. PICK y, G : Held!Resolved(a, d) = [left |-> y, found |-> a.found \cup G] /\ OneResolved(a.left, d, y, G)
    BY <2>1, ResolvedOne DEF Fits
  <2>5. PICK z, F : z = a.left /\ F = a.found
    OBVIOUS
  <2>6. /\ Items(z) \subseteq Items(q) /\ (Distinct(q) => Distinct(z)) /\ F \subseteq Task
        /\ \A t \in F : /\ t.call \in Items(q) \ Items(z) /\ Suits(t.call, t.of)
                        /\ \A s \in F : s.call = t.call => s = t
        /\ ~HeldByName => \A i \in 1..k : r[i] \notin Items(z)
    BY <2>1, <2>5 DEF Fits, Resolution
  <2>7. /\ y \in Seq(HeldEdits) /\ (Distinct(z) => Distinct(y)) /\ Items(y) \subseteq Items(z)
        /\ \A t \in G : t \in Task /\ t.call \in Items(z) \ Items(y) /\ Suits(t.call, t.of)
        /\ \A s, t \in G : s = t
        /\ ~HeldByName => d \notin Items(y)
    BY <2>4, <2>5 DEF OneResolved
  <2>8. PICK b : b = [left |-> y, found |-> F \cup G]
    OBVIOUS
  <2>9. b \in Resolution /\ b.left = y /\ b.found = F \cup G
    BY <2>6, <2>7, <2>8 DEF Resolution
  <2>10. \A t \in F \cup G : /\ t.call \in Items(q) \ Items(y) /\ Suits(t.call, t.of)
                             /\ \A s \in F \cup G : s.call = t.call => s = t
    BY <2>6, <2>7
  <2>11. ~HeldByName => \A i \in 1..(k + 1) : r[i] \notin Items(y)
    <3>1. \A i \in 1..(k + 1) : i \in 1..k \/ i = k + 1
      OBVIOUS
    <3> QED
      BY <2>2, <2>6, <2>7, <3>1
  <2>12. Fits(b, k + 1)
    BY <2>6, <2>7, <2>9, <2>10, <2>11 DEF Fits
  <2> QED
    BY <2>3, <2>4, <2>5, <2>8, <2>12
<1>5. P = Nat
  <2> HIDE DEF P
  <2> QED
    BY <1>3, <1>4, NatSetInduction, P \in SUBSET Nat DEF P
<1>6. Fits(R[n], n)
  <2> HIDE DEF Fits
  <2> QED
    BY <1>5
<1>7. PICK a : a = R[n] /\ Fits(a, n)
  BY <1>6
<1>8. ~HeldByName => Items(r) \cap Items(a.left) = {}
  BY <1>1, <1>7 DEF Items
<1> QED
  BY <1>2, <1>7, <1>8

-------------------------------------------------------------------------------
(* The results a request carries. *)

Joins(J, h, n) == J[0] = <<>> /\ \A i \in 1..n : J[i] = J[i - 1] \o h[i]

LEMMA JoinedIsRecursive ==
  ASSUME NEW Q, Q = Seq(HeldCalls), NEW h \in Seq(Q), NEW n \in Nat, n = Len(h)
  PROVE  \E J : Joins(J, h, n) /\ Held!Joined(h) = J[n]
<1>1. n = Len(h) /\ DOMAIN h = 1..n
  OBVIOUS
<1>0. \A x, y \in Q : x \o y \in Q
  BY ConcatProperties
<1> DEFINE J == CHOOSE f : f = [i \in 0..Len(h) |-> IF i = 0 THEN <<>> ELSE f[i - 1] \o h[i]]
<1>2. J = [i \in 0..n |-> IF i = 0 THEN <<>> ELSE J[i - 1] \o h[i]]
  <2>1. PICK G : G = [x \in Q \X (1..n) |-> x[1] \o h[x[2]]]
    OBVIOUS
  <2>2. G \in [Q \X (1..n) -> Q]
    <3>1. \A a \in Q, i \in 1..n : a \o h[i] \in Q
      BY <1>0, <1>1
    <3> QED
      BY <2>1, <3>1
  <2>3. PICK f \in [0..n -> Q] : f[0] = <<>> /\ \A i \in 1..n : f[i] = G[<<f[i - 1], i>>]
    <3>0. <<>> \in Seq(HeldCalls)
      OBVIOUS
    <3>1. PICK c \in Q : c = <<>>
      BY <3>0
    <3>2. Defined(Q, c, n, G)
      BY <2>2, Recursion
    <3> QED
      BY <3>1, <3>2 DEF Defined
  <2>4. \A i \in 1..n : G[<<f[i - 1], i>>] = f[i - 1] \o h[i]
    <3> TAKE i \in 1..n
    <3>1. PICK x \in Q : x = f[i - 1]
      BY i - 1 \in 0..n
    <3>2. G[<<x, i>>] = x \o h[i]
      BY <2>1
    <3> QED
      BY <3>1, <3>2
  <2>5. \A i \in 0..n : i # 0 => i \in 1..n
    OBVIOUS
  <2>6. f = [i \in 0..Len(h) |-> IF i = 0 THEN <<>> ELSE f[i - 1] \o h[i]]
    BY <1>1, <2>3, <2>4, <2>5
  <2> QED
    BY <1>1, <2>6
<1>3. J[0] = <<>> /\ \A i \in 1..n : J[i] = J[i - 1] \o h[i]
  <2> HIDE DEF J
  <2>1. 0 \in 0..n /\ \A i \in 1..n : i \in 0..n /\ i # 0
    OBVIOUS
  <2> QED
    BY <1>2, <2>1
<1>4. Held!Joined(h) = J[n]
  BY <1>1 DEF Held!Joined
<1> HIDE DEF J
<1> QED
  BY <1>3, <1>4 DEF Joins

\* the messages one after the other have what each of them has
LEMMA JoinedHasAll ==
  ASSUME NEW Q, Q = Seq(HeldCalls), NEW h \in Seq(Q)
  PROVE  /\ Held!Joined(h) \in Seq(HeldCalls)
         /\ \A i \in DOMAIN h : Items(h[i]) \subseteq Items(Held!Joined(h))
<1>1. PICK n \in Nat : n = Len(h) /\ DOMAIN h = 1..n
  OBVIOUS
<1>2. PICK J : Joins(J, h, n) /\ Held!Joined(h) = J[n]
  BY <1>1, JoinedIsRecursive
<1> DEFINE Fits(a, k) == a \in Seq(HeldCalls) /\ \A i \in 1..k : Items(h[i]) \subseteq Items(a)
<1> DEFINE P == {k \in Nat : k <= n => Fits(J[k], k)}
<1>3. 0 \in P
  <2>1. J[0] = <<>>
    BY <1>2 DEF Joins
  <2>2. <<>> \in Seq(HeldCalls)
    OBVIOUS
  <2>3. Fits(<<>>, 0)
    BY <2>2
  <2> HIDE DEF Fits
  <2> QED
    BY <2>1, <2>3
<1>4. ASSUME NEW k \in P PROVE k + 1 \in P
  <2> HIDE DEF Fits
  <2> SUFFICES ASSUME k + 1 <= n PROVE Fits(J[k + 1], k + 1)
    OBVIOUS
  <2>1. PICK a : a = J[k] /\ Fits(a, k)
    BY k <= n
  <2>2. PICK m \in Seq(HeldCalls) : m = h[k + 1]
    BY <1>1, k + 1 \in 1..n
  <2>3. J[k + 1] = a \o m
    <3>1. J[k + 1] = J[(k + 1) - 1] \o h[k + 1]
      BY <1>2, k + 1 \in 1..n DEF Joins
    <3>2. (k + 1) - 1 = k
      OBVIOUS
    <3> QED
      BY <2>1, <2>2, <3>1, <3>2
  <2>4. a \in Seq(HeldCalls) /\ \A i \in 1..k : Items(h[i]) \subseteq Items(a)
    BY <2>1 DEF Fits
  <2>5. PICK b : b = a \o m /\ b \in Seq(HeldCalls) /\ Items(b) = Items(a) \cup Items(m)
    BY <2>4, ItemsConcat
  <2>6. \A i \in 1..(k + 1) : i \in 1..k \/ i = k + 1
    OBVIOUS
  <2>7. Fits(b, k + 1)
    BY <2>2, <2>4, <2>5, <2>6 DEF Fits
  <2> QED
    BY <2>3, <2>5, <2>7
<1>5. P = Nat
  <2> HIDE DEF P
  <2> QED
    BY <1>3, <1>4, NatSetInduction, P \in SUBSET Nat DEF P
<1>6. Fits(J[n], n)
  <2> HIDE DEF Fits
  <2> QED
    BY <1>5
<1> QED
  BY <1>1, <1>2, <1>6

LEMMA ResultsCarried ==
  ASSUME NEW Q, Q = Seq(HeldCalls), NEW v, edhistory[v] \in Seq(Q)
  PROVE  /\ Held!Results(v) \in Seq(HeldCalls)
         /\ ~HeldByName => \A i \in DOMAIN edhistory[v] : Items(edhistory[v][i]) \subseteq Items(Held!Results(v))
<1>1. PICK h \in Seq(Q) : h = edhistory[v]
  OBVIOUS
<1>2. CASE ~HeldByName
  BY <1>1, <1>2, JoinedHasAll DEF Held!Results
<1>3. CASE HeldByName /\ h = <<>>
  BY <1>1, <1>3 DEF Held!Results
<1>4. CASE HeldByName /\ h # <<>>
  <2>1. Len(h) \in DOMAIN h
    BY <1>4, EmptySeq
  <2>2. h[Len(h)] \in Q
    BY <2>1
  <2> QED
    BY <1>1, <1>4, <2>2 DEF Held!Results, Held!Last
<1> QED
  BY <1>2, <1>3, <1>4

-------------------------------------------------------------------------------
HeldTyped ==
  /\ edpending \in Seq(HeldEdits) /\ Distinct(edpending)
  /\ edasked \in SUBSET HeldCalls /\ edtasks \in SUBSET Task
  /\ edhistory \in [Chats -> Seq(Seq(HeldCalls))]
  /\ edturn \in [Chats -> SUBSET HeldCalls]
  /\ edrecorded \in [HeldCalls -> Seq(HeldCalls)]
  /\ DOMAIN edtx = Handlers
  /\ \A w \in Handlers : edtx[w].pc = "store" => edtx[w].batch \in Seq(HeldCalls) /\ Distinct(edtx[w].batch)

\* the calls a request is about to store
BatchOf(x) == [w \in Handlers |-> IF x[w].pc = "store" THEN Items(x[w].batch) ELSE {}]

HeldInv == HeldTyped /\ Places(Items(edpending), BatchOf(edtx), edasked, edtasks, edrecorded)

LEMMA HeldInit == Held!Init => HeldInv
<1> SUFFICES ASSUME Held!Init PROVE HeldInv
  OBVIOUS
<1>1. /\ edpending = <<>> /\ edasked = {} /\ edtasks = {}
      /\ edturn = [v \in Chats |-> {}] /\ edhistory = [v \in Chats |-> <<>>]
      /\ edtx = [w \in Handlers |-> [pc |-> "idle"]]
      /\ edrecorded = [c \in HeldCalls |-> <<>>]
  BY DEF Held!Init, Held!Idle
<1>2. PICK Q, S : Q = Seq(Seq(HeldCalls)) /\ S = Seq(HeldCalls) /\ <<>> \in Q /\ <<>> \in S
  <2>1. <<>> \in Seq(Seq(HeldCalls)) /\ <<>> \in Seq(HeldCalls)
    OBVIOUS
  <2> QED
    BY <2>1
<1>3. edhistory \in [Chats -> Q] /\ edrecorded \in [HeldCalls -> S]
  BY <1>1, <1>2
<1>4. edpending \in Seq(HeldEdits) /\ Distinct(edpending) /\ Items(edpending) = {}
  BY <1>1 DEF Distinct, Items
<1>5. \A w \in Handlers : edtx[w].pc = "idle" /\ BatchOf(edtx)[w] = {}
  BY <1>1 DEF BatchOf
<1>6. HeldTyped
  BY <1>1, <1>2, <1>3, <1>4, <1>5 DEF HeldTyped
<1>7. Places({}, BatchOf(edtx), edasked, edtasks, edrecorded)
  BY <1>1, <1>5 DEF Places
<1> QED
  BY <1>4, <1>6, <1>7 DEF HeldInv

LEMMA RequestHolds ==
  ASSUME HeldInv, NEW w \in Handlers, NEW v \in Chats, Held!Request(w, v)
  PROVE  HeldInv' /\ (~HeldByName => \A i \in DOMAIN edhistory[v] : Items(edhistory[v][i]) \cap Items(edpending') = {})
<1>1. PICK r : /\ r = Held!Resolve(edpending, Held!Results(v))
               /\ edtasks' = edtasks \cup r.found /\ edpending' = r.left
               /\ edtx' = [edtx EXCEPT ![w] = [pc |-> "forward", conv |-> v]]
               /\ UNCHANGED <<edturn, edhistory, edasked, edrecorded>>
  BY DEF Held!Request
<1>2. PICK Q : Q = Seq(HeldCalls) /\ edhistory[v] \in Seq(Q)
  BY DEF HeldInv, HeldTyped
<1>3. /\ Held!Results(v) \in Seq(HeldCalls)
      /\ ~HeldByName => \A i \in DOMAIN edhistory[v] : Items(edhistory[v][i]) \subseteq Items(Held!Results(v))
  BY <1>2, ResultsCarried
<1>4. /\ r \in Resolution /\ Items(r.left) \subseteq Items(edpending) /\ Distinct(r.left)
      /\ \A t \in r.found : /\ t.call \in Items(edpending) \ Items(r.left) /\ Suits(t.call, t.of)
                            /\ \A s \in r.found : s.call = t.call => s = t
      /\ ~HeldByName => Items(Held!Results(v)) \cap Items(r.left) = {}
  BY <1>1, <1>3, ResolveFacts DEF HeldInv, HeldTyped
<1>5. PICK y, F : y = r.left /\ F = r.found /\ y \in Seq(HeldEdits) /\ F \in SUBSET Task
  BY <1>4 DEF Resolution
<1>6. \A u \in Handlers : edtx'[u].pc = "store" => edtx'[u] = edtx[u]
  <2>1. ASSUME NEW u \in Handlers PROVE edtx'[u] = IF u = w THEN [pc |-> "forward", conv |-> v] ELSE edtx[u]
    BY <1>1 DEF HeldInv, HeldTyped
  <2> QED
    BY <2>1
<1>7. HeldTyped'
  BY <1>1, <1>4, <1>5, <1>6 DEF HeldInv, HeldTyped
<1>8. Places(Items(y), BatchOf(edtx), edasked, edtasks \cup F, edrecorded)
  BY <1>4, <1>5, PlacesResolve DEF HeldInv
<1>9. \A u \in Handlers : BatchOf(edtx')[u] \subseteq BatchOf(edtx)[u]
  BY <1>6 DEF BatchOf
<1>10. Places(Items(y), BatchOf(edtx'), edasked, edtasks \cup F, edrecorded)
  BY <1>8, <1>9, PlacesShrink
<1>11. HeldInv'
  BY <1>1, <1>5, <1>7, <1>10 DEF HeldInv, BatchOf
<1> QED
  BY <1>1, <1>3, <1>4, <1>11

\* what only adds to or takes from the batches, the store and the deliveries
LEMMA AskHolds ==
  ASSUME HeldInv, NEW w \in Handlers, edtx[w].pc = "forward", NEW B \in Held!Batches(edtx[w].conv),
         edasked' = edasked \cup Items(B),
         edtx' = [edtx EXCEPT ![w] = [pc |-> "store", conv |-> edtx[w].conv, batch |-> B]],
         edturn' \in [Chats -> SUBSET HeldCalls],
         UNCHANGED <<edpending, edhistory, edtasks, edrecorded>>
  PROVE  HeldInv'
<1>1. PICK C \in SUBSET (HeldCalls \ edasked) : B = Held!SetToSeq(C)
  BY DEF Held!Batches
<1>2. B \in Seq(HeldCalls) /\ Items(B) \subseteq C /\ Distinct(B)
  BY <1>1, Ordered
<1>3. PICK x : x = [pc |-> "store", conv |-> edtx[w].conv, batch |-> B]
  OBVIOUS
<1>4. x.pc = "store" /\ x.batch = B
  BY <1>3
<1>5. \A u \in Handlers : edtx'[u] = IF u = w THEN x ELSE edtx[u]
  BY <1>3 DEF HeldInv, HeldTyped
<1>6. HeldTyped'
  <2>1. \A u \in Handlers : edtx'[u].pc = "store" => edtx'[u].batch \in Seq(HeldCalls) /\ Distinct(edtx'[u].batch)
    BY <1>2, <1>4, <1>5 DEF HeldInv, HeldTyped
  <2>2. edasked' \in SUBSET HeldCalls
    BY <1>1, <1>2 DEF HeldInv, HeldTyped
  <2> QED
    BY <2>1, <2>2 DEF HeldInv, HeldTyped
<1>7. (\A u \in Handlers : u # w => BatchOf(edtx')[u] \subseteq BatchOf(edtx)[u]) /\ BatchOf(edtx')[w] = Items(B)
  BY <1>4, <1>5 DEF BatchOf
<1>8. Items(B) \subseteq HeldCalls /\ Items(B) \cap edasked = {}
  BY <1>1, <1>2
<1>9. Places(Items(edpending), BatchOf(edtx'), edasked \cup Items(B), edtasks, edrecorded)
  BY <1>7, <1>8, PlacesAsk DEF HeldInv
<1> QED
  BY <1>6, <1>9 DEF HeldInv, BatchOf

LEMMA StoreHolds == ASSUME HeldInv, NEW w \in Handlers, Held!Store(w) PROVE HeldInv'
<1>1. PICK B, q, k : /\ B = edtx[w].batch /\ (q = edpending \/ q = Held!Room(edpending, Len(B))) /\ k = Kept(B, HeldEdits)
                     /\ edpending' = q \o k
  <2>1. PICK q : /\ q = IF edtx[w].batch = <<>> THEN edpending ELSE Held!Room(edpending, Len(edtx[w].batch))
                 /\ edpending' = q \o Held!Kept(edtx[w].batch, HeldEdits)
    BY DEF Held!Store
  <2> QED
    BY <2>1, HeldKept
<1>2. /\ edtx[w].pc = "store" /\ edtx' = [edtx EXCEPT ![w] = [pc |-> "idle"]]
      /\ UNCHANGED <<edturn, edhistory, edasked, edtasks, edrecorded>>
  BY DEF Held!Store, Held!Idle
<1>3. edpending \in Seq(HeldEdits) /\ Distinct(edpending) /\ B \in Seq(HeldCalls) /\ Distinct(B)
  BY <1>1, <1>2 DEF HeldInv, HeldTyped
<1>4. q \in Seq(HeldEdits) /\ Distinct(q) /\ Items(q) \subseteq Items(edpending)
  <2>1. CASE q = edpending
    BY <1>3, <2>1
  <2>2. CASE q = Held!Room(edpending, Len(B))
    <3>1. PICK T : q = edpending \/ q = Kept(edpending, T)
      BY <2>2, HeldKept DEF Held!Room, Held!Drop
    <3>2. Kept(edpending, T) \in Seq(HeldEdits) /\ Distinct(Kept(edpending, T)) /\ Items(Kept(edpending, T)) \subseteq Items(edpending)
      BY <1>3, ItemsKept
    <3> QED
      BY <1>3, <3>1, <3>2
  <2> QED
    BY <1>1, <2>1, <2>2
<1>5. k \in Seq(HeldEdits) /\ Distinct(k) /\ Items(k) = Items(B) \cap HeldEdits
  <2>1. k \in Seq(HeldCalls) /\ Distinct(k) /\ Items(k) = Items(B) \cap HeldEdits
    BY <1>1, <1>3, ItemsKept
  <2>2. \A i \in 1..Len(k) : k[i] \in HeldEdits
    BY <2>1 DEF Items
  <2>3. PICK n \in Nat : n = Len(k) /\ DOMAIN k = 1..n
    BY <2>1
  <2>4. k \in [1..n -> HeldEdits]
    BY <2>1, <2>2, <2>3
  <2> QED
    BY <2>1, <2>3, <2>4
<1>6. BatchOf(edtx)[w] = Items(B) /\ Items(B) \cap Items(edpending) = {}
  <2>1. BatchOf(edtx)[w] = Items(B)
    BY <1>1, <1>2 DEF BatchOf
  <2> QED
    BY <2>1 DEF HeldInv, Places
<1>7. q \o k \in Seq(HeldEdits) /\ Items(q \o k) = Items(q) \cup Items(k) /\ Distinct(q \o k)
  BY <1>4, <1>5, <1>6, ItemsConcat, DistinctConcat
<1>8. \A u \in Handlers : edtx'[u] = IF u = w THEN [pc |-> "idle"] ELSE edtx[u]
  BY <1>2 DEF HeldInv, HeldTyped
<1>9. HeldTyped'
  <2>1. \A u \in Handlers : edtx'[u].pc = "store" => edtx'[u].batch \in Seq(HeldCalls) /\ Distinct(edtx'[u].batch)
    BY <1>8 DEF HeldInv, HeldTyped
  <2>2. edpending' \in Seq(HeldEdits) /\ Distinct(edpending')
    BY <1>1, <1>7
  <2> QED
    BY <1>2, <2>1, <2>2 DEF HeldInv, HeldTyped
<1>10. (\A u \in Handlers : u # w => BatchOf(edtx')[u] \subseteq BatchOf(edtx)[u]) /\ BatchOf(edtx')[w] = {}
  BY <1>8 DEF BatchOf
<1>11. Items(edpending') \subseteq Items(edpending) \cup BatchOf(edtx)[w]
  BY <1>1, <1>4, <1>5, <1>6, <1>7
<1>12. Places(Items(edpending'), BatchOf(edtx'), edasked, edtasks, edrecorded)
  BY <1>10, <1>11, PlacesStore DEF HeldInv
<1> QED
  BY <1>2, <1>9, <1>12 DEF HeldInv, BatchOf

LEMMA DeliverHolds == ASSUME HeldInv, NEW t \in edtasks, Held!Deliver(t) PROVE HeldInv'
<1>1. /\ edtasks' = edtasks \ {t}
      /\ edrecorded' = edrecorded \/ edrecorded' = [edrecorded EXCEPT ![t.call] = Append(@, t.of)]
      /\ UNCHANGED <<edpending, edturn, edhistory, edasked, edtx>>
  BY DEF Held!Deliver
<1>2. PICK e \in HeldCalls, d \in HeldCalls : e = t.call /\ d = t.of /\ t \in Task
  BY CallsAssumption DEF HeldInv, HeldTyped, Task
<1>3. edrecorded[e] = <<>> /\ Append(<<>>, d) = <<d>>
  BY <1>2 DEF HeldInv, Places, Open
<1>4. CASE edrecorded' = edrecorded
  <2>1. Places(Items(edpending), BatchOf(edtx), edasked, edtasks \ {t}, edrecorded)
    BY PlacesShrink DEF HeldInv
  <2> QED
    BY <1>1, <1>4, <2>1 DEF HeldInv, HeldTyped, BatchOf
<1>5. CASE edrecorded' = [edrecorded EXCEPT ![t.call] = Append(@, t.of)]
  <2>1. PICK S : S = Seq(HeldCalls) /\ edrecorded \in [HeldCalls -> S] /\ <<d>> \in S
    <3>1. <<d>> \in Seq(HeldCalls)
      OBVIOUS
    <3> QED
      BY <3>1 DEF HeldInv, HeldTyped
  <2>2. edrecorded' = [edrecorded EXCEPT ![e] = <<d>>]
    BY <1>2, <1>3, <1>5
  <2>3. /\ edrecorded' \in [HeldCalls -> S] /\ edrecorded'[e] = <<d>>
        /\ \A c \in HeldCalls : c # e => edrecorded'[c] = edrecorded[c]
    BY <2>1, <2>2
  <2>4. HeldTyped'
    BY <1>1, <2>1, <2>3 DEF HeldInv, HeldTyped
  <2>5. /\ Items(edpending) \subseteq HeldCalls /\ \A w \in Handlers : BatchOf(edtx)[w] \subseteq HeldCalls
        /\ \A s \in edtasks : s.call \in HeldCalls
    <3>1. \A s \in edtasks : s.call \in HeldCalls
      BY CallsAssumption DEF HeldInv, HeldTyped, Task
    <3>2. Items(edpending) \subseteq HeldCalls
      BY CallsAssumption DEF HeldInv, HeldTyped, Items
    <3>3. \A w \in Handlers : BatchOf(edtx)[w] \subseteq HeldCalls
      BY DEF HeldInv, HeldTyped, Items, BatchOf
    <3> QED
      BY <3>1, <3>2, <3>3
  <2>6. Places(Items(edpending), BatchOf(edtx), edasked, edtasks \ {t}, edrecorded')
    BY <1>2, <2>3, <2>5, PlacesDeliver DEF HeldInv
  <2> QED
    BY <1>1, <2>4, <2>6 DEF HeldInv, BatchOf
<1> QED
  BY <1>1, <1>4, <1>5

\* steps that only take away: a request that stores nothing, the clean-up, a restart
LEMMA DropHolds ==
  ASSUME HeldInv, edpending' \in Seq(HeldEdits), Distinct(edpending'), Items(edpending') \subseteq Items(edpending),
         edtasks' \subseteq edtasks, DOMAIN edtx' = Handlers,
         \A w \in Handlers : edtx'[w] = edtx[w] \/ edtx'[w].pc = "idle",
         edhistory' \in [Chats -> Seq(Seq(HeldCalls))], edturn' \in [Chats -> SUBSET HeldCalls],
         UNCHANGED <<edasked, edrecorded>>
  PROVE  HeldInv'
<1>1. \A w \in Handlers : BatchOf(edtx')[w] \subseteq BatchOf(edtx)[w]
  BY DEF BatchOf
<1>2. Places(Items(edpending'), BatchOf(edtx'), edasked, edtasks', edrecorded)
  BY <1>1, PlacesShrink DEF HeldInv
<1>3. HeldTyped'
  BY DEF HeldInv, HeldTyped
<1> QED
  BY <1>2, <1>3 DEF HeldInv, BatchOf

LEMMA HeldStep == HeldInv /\ [Held!Next]_edVars => HeldInv'
<1> SUFFICES ASSUME HeldInv, [Held!Next]_edVars PROVE HeldInv'
  OBVIOUS
<1>0. /\ edpending \in Seq(HeldEdits) /\ Distinct(edpending) /\ DOMAIN edtx = Handlers
      /\ edhistory \in [Chats -> Seq(Seq(HeldCalls))] /\ edturn \in [Chats -> SUBSET HeldCalls]
  BY DEF HeldInv, HeldTyped
<1>1. ASSUME NEW w \in Handlers, NEW v \in Chats, Held!Request(w, v) PROVE HeldInv'
  BY <1>1, RequestHolds
<1>2. ASSUME NEW w \in Handlers, Held!Respond(w) \/ Held!Cut(w) PROVE HeldInv'
  <2>1. PICK B \in Held!Batches(edtx[w].conv) :
          /\ edasked' = edasked \cup Items(B)
          /\ edturn' = edturn \/ edturn' = [edturn EXCEPT ![edtx[w].conv] = Items(B)]
          /\ edtx' = [edtx EXCEPT ![w] = [pc |-> "store", conv |-> edtx[w].conv, batch |-> B]]
          /\ edtx[w].pc = "forward" /\ UNCHANGED <<edpending, edhistory, edtasks, edrecorded>>
    BY <1>2, HeldRange DEF Held!Respond, Held!Cut
  <2>2. PICK C \in SUBSET (HeldCalls \ edasked) : B = Held!SetToSeq(C)
    BY DEF Held!Batches
  <2>3. Items(B) \subseteq HeldCalls
    BY <2>2, Ordered
  <2>4. edturn' \in [Chats -> SUBSET HeldCalls]
    BY <1>0, <2>1, <2>3
  <2> QED
    BY <2>1, <2>4, AskHolds
<1>3. ASSUME NEW w \in Handlers, Held!NotStored(w) PROVE HeldInv'
  <2>1. edtx' = [edtx EXCEPT ![w] = [pc |-> "idle"]] /\ UNCHANGED <<edpending, edturn, edhistory, edasked, edtasks, edrecorded>>
    BY <1>3 DEF Held!NotStored, Held!Idle
  <2>2. DOMAIN edtx' = Handlers /\ \A u \in Handlers : edtx'[u] = edtx[u] \/ edtx'[u].pc = "idle"
    BY <1>0, <2>1
  <2> QED
    BY <1>0, <2>1, <2>2, DropHolds
<1>4. ASSUME NEW w \in Handlers, Held!Store(w) PROVE HeldInv'
  BY <1>4, StoreHolds
<1>5. ASSUME NEW v \in Chats, Held!Answer(v) PROVE HeldInv'
  <2>1. PICK S, m : /\ S \in SUBSET edturn[v] /\ m = Held!SetToSeq(S)
          /\ edhistory' = [edhistory EXCEPT ![v] = IF S = {} THEN edhistory[v] ELSE Append(edhistory[v], m)]
          /\ edturn' = [edturn EXCEPT ![v] = {}] /\ UNCHANGED <<edpending, edasked, edtx, edtasks, edrecorded>>
    BY <1>5 DEF Held!Answer
  <2>2. S \in SUBSET HeldCalls
    BY <1>0, <2>1
  <2>3. m \in Seq(HeldCalls)
    BY <2>1, <2>2, Ordered
  <2>4. PICK Q, h : Q = Seq(Seq(HeldCalls)) /\ h = edhistory[v] /\ h \in Q /\ Append(h, m) \in Q
    <3>1. PICK M : M = Seq(HeldCalls)
      OBVIOUS
    <3>2. edhistory[v] \in Seq(M)
      BY <1>0, <3>1
    <3>3. Append(edhistory[v], m) \in Seq(M)
      BY <2>3, <3>1, <3>2, AppendProperties
    <3> QED
      BY <3>1, <3>2, <3>3
  <2>5. edhistory' \in [Chats -> Q]
    BY <1>0, <2>1, <2>4
  <2>6. edturn' \in [Chats -> SUBSET HeldCalls]
    BY <1>0, <2>1
  <2> QED
    BY <1>0, <2>1, <2>4, <2>5, <2>6, DropHolds
<1>6. ASSUME NEW t \in edtasks, Held!Deliver(t) PROVE HeldInv'
  BY <1>6, DeliverHolds
<1>7. ASSUME NEW e \in HeldCalls, Held!Age(e) PROVE HeldInv'
  BY <1>0, <1>7, DropHolds DEF Held!Age
<1>8. CASE Held!Cleanup
  <2>1. PICK T : edpending' = Kept(edpending, T) /\ UNCHANGED <<edturn, edhistory, edasked, edtx, edtasks, edrecorded>>
    BY <1>8, HeldKept DEF Held!Cleanup, Held!Drop
  <2>2. edpending' \in Seq(HeldEdits) /\ Distinct(edpending') /\ Items(edpending') \subseteq Items(edpending)
    BY <1>0, <2>1, ItemsKept
  <2> QED
    BY <1>0, <2>1, <2>2, DropHolds
<1>9. CASE Held!Restart
  <2>1. /\ edpending' = <<>> /\ edtasks' = {} /\ edtx' = [w \in Handlers |-> [pc |-> "idle"]]
        /\ UNCHANGED <<edturn, edhistory, edasked, edrecorded>>
    BY <1>9 DEF Held!Restart, Held!Idle
  <2>2. edpending' \in Seq(HeldEdits) /\ Distinct(edpending') /\ Items(edpending') = {}
    BY <2>1 DEF Distinct, Items
  <2>3. DOMAIN edtx' = Handlers /\ \A w \in Handlers : edtx'[w].pc = "idle"
    BY <2>1
  <2> QED
    BY <1>0, <2>1, <2>2, <2>3, DropHolds
<1>10. CASE UNCHANGED edVars
  BY <1>0, <1>10, DropHolds DEF edVars
<1> QED
  BY <1>1, <1>2, <1>3, <1>4, <1>5, <1>6, <1>7, <1>8, <1>9, <1>10 DEF Held!Next

LEMMA HeldSafe == HeldInv => HeldRecordedOnce
<1> SUFFICES ASSUME HeldInv, NEW e \in HeldCalls
             PROVE  /\ Len(edrecorded[e]) <= 1
                    /\ \A d \in Items(edrecorded[e]) : /\ Held!SessionOfCall(d) = Held!SessionOfCall(e)
                                                       /\ ToolOf[d] = ToolOf[e] /\ (~HeldByName => d = e)
  BY HeldRange DEF HeldRecordedOnce, Held!RecordedOnce
<1>1. CASE edrecorded[e] = <<>>
  BY <1>1 DEF Items
<1>2. CASE edrecorded[e] # <<>>
  <2>1. PICK d \in HeldCalls : edrecorded[e] = <<d>> /\ Suits(e, d)
    BY <1>2 DEF HeldInv, Places
  <2>2. Len(<<d>>) = 1 /\ Items(<<d>>) = {d}
    BY ItemsSingle
  <2> QED
    BY <2>1, <2>2 DEF Suits
<1> QED
  BY <1>1, <1>2

LEMMA HeldMoves == [Next]_vars => [Held!Next]_edVars
  BY DEF Next, vars, GeminiKeeps, RoutingKeeps, OutboxKeeps, MailKeeps, CrowdKeeps

\* With either adapter, whatever overlaps, restarts, expires or is dropped, and however often a
\* client repeats its results: an edit is recorded at most once, with a result of its session
\* and tool, and by id with its own.
THEOREM EditsRecordedOnce == Spec => []HeldRecordedOnce
<1>1. Init => HeldInv
  BY HeldInit DEF Init
<1>2. HeldInv /\ [Next]_vars => HeldInv'
  BY HeldStep, HeldMoves
<1> QED
  BY <1>1, <1>2, HeldSafe, PTL DEF Spec

\* A result that came before its proposal was stored is found by the next request, where ids
\* decide: after a request no answered call of the conversation is pending.
THEOREM EarlyResultsHeal == ASSUME ~HeldByName PROVE Spec => Held!HistoryHeals
<1>1. Init => HeldInv
  BY HeldInit DEF Init
<1>2. HeldInv /\ [Next]_vars => HeldInv'
  BY HeldStep, HeldMoves
<1> DEFINE Heals == \A v \in Chats : edrequests'[v] # edrequests[v] =>
                      \A i \in DOMAIN edhistory[v] : Held!Range(edhistory[v][i]) \cap Held!Range(edpending') = {}
<1>3. HeldInv /\ [Next]_vars => [Heals]_edVars
  <2> SUFFICES ASSUME HeldInv, Held!Next, NEW v \in Chats, edrequests'[v] # edrequests[v]
               PROVE  \A i \in DOMAIN edhistory[v] : Items(edhistory[v][i]) \cap Items(edpending') = {}
    BY HeldMoves, HeldRange
  <2>1. PICK w \in Handlers, x \in Chats : Held!Request(w, x)
    BY DEF Held!Next, Held!Respond, Held!Cut, Held!NotStored, Held!Store, Held!Answer, Held!Deliver,
           Held!Age, Held!Cleanup, Held!Restart
  <2>2. x = v
    BY <2>1 DEF Held!Request
  <2> QED
    BY <2>1, <2>2, RequestHolds
<1> QED
  BY <1>1, <1>2, <1>3, PTL DEF Spec, Held!HistoryHeals, Held!vars, edVars

-------------------------------------------------------------------------------
(* Scheduled reports.  A period that was taken or mailed is behind the row. *)

Rows == [enabled : BOOLEAN, period : Nat, due : BOOLEAN]
Jobs == [report : Mails, period : Nat]

\* the row is gone, or its next date is a later one
Past(r, p) == mareport[r] = Mail!NoRow \/ mareport[r].period > p

MailTyped ==
  /\ mareport \in [Mails -> Rows] /\ masent \in [Mails -> [1..MailPeriods -> Nat]]
  /\ DOMAIN majob = {"s1"} /\ (majob["s1"] = Mail!NoJob \/ majob["s1"] \in Jobs)
  /\ maqueue \in [{"s1"} -> Seq(Mails)] /\ mamanual \in [Mails -> {"no"}]

MailInv ==
  /\ MailTyped
  /\ \A r \in Mails, p \in 1..MailPeriods : masent[r][p] = 0 \/ (masent[r][p] = 1 /\ Past(r, p))
  /\ \A r \in Mails, p \in 1..MailPeriods : majob["s1"] = [report |-> r, period |-> p] => masent[r][p] = 0 /\ Past(r, p)

LEMMA MailsOrdered == \A S \in SUBSET Mails : Mail!SetToSeq(S) \in Seq(Mails)
<1> SUFFICES ASSUME NEW S \in SUBSET Mails PROVE Mail!SetToSeq(S) \in Seq(Mails)
  OBVIOUS
<1>1. PICK n : n = Cardinality(S) /\ n \in Nat /\ ExistsBijection(1..n, S)
  <2>1. IsFiniteSet(S)
    BY MailsAssumption, FS_Subset
  <2> QED
    BY <2>1, FS_CardinalityType
<1>2. Mail!Cardinality(S) = n
  BY <1>1 DEF Mail!Cardinality, Cardinality
<1>3. PICK g \in [1..n -> S] : \A i, j \in 1..n : g[i] = g[j] => i = j
  BY <1>1 DEF ExistsBijection, Bijection, Injection, IsInjective
<1>4. Mail!IsInjective(g)
  BY <1>3 DEF Mail!IsInjective
<1>5. Mail!SetToSeq(S) \in [1..n -> S]
  BY <1>2, <1>3, <1>4 DEF Mail!SetToSeq
<1> QED
  BY <1>1, <1>5

LEMMA MailInit == Mail!Init => MailInv
<1> SUFFICES ASSUME Mail!Init PROVE MailInv
  OBVIOUS
<1>1. /\ mareport = [r \in Mails |-> [enabled |-> TRUE, period |-> 1, due |-> FALSE]]
      /\ maqueue = [s \in {"s1"} |-> <<>>] /\ majob = [s \in {"s1"} |-> Mail!NoJob]
      /\ mamanual = [r \in Mails |-> "no"] /\ masent = [r \in Mails |-> [p \in 1..MailPeriods |-> 0]]
  BY DEF Mail!Init
<1>2. [enabled |-> TRUE, period |-> 1, due |-> FALSE] \in Rows
  BY DEF Rows
<1>3. [p \in 1..MailPeriods |-> 0] \in [1..MailPeriods -> Nat]
  OBVIOUS
<1>4. maqueue \in [{"s1"} -> Seq(Mails)]
  <2>1. <<>> \in Seq(Mails)
    OBVIOUS
  <2> QED
    BY <1>1, <2>1
<1>5. MailTyped
  BY <1>1, <1>2, <1>3, <1>4 DEF MailTyped
<1>6. \A r \in Mails : [report |-> "none", period |-> 0] # [report |-> r, period |-> 0]
  BY MailsAssumption
<1>7. \A r \in Mails, p \in 1..MailPeriods : majob["s1"] # [report |-> r, period |-> p]
  BY <1>1, MailsAssumption DEF Mail!NoJob
<1> QED
  BY <1>1, <1>5, <1>7 DEF MailInv

\* rows only move on
LEMMA MailKept ==
  ASSUME MailInv, MailTyped', \A r \in Mails, p \in 1..MailPeriods : Past(r, p) => Past(r, p)',
         masent' = masent, majob'["s1"] = majob["s1"] \/ majob'["s1"] = Mail!NoJob
  PROVE  MailInv'
<1>1. \A r \in Mails, p \in 1..MailPeriods : Mail!NoJob # [report |-> r, period |-> p]
  BY MailsAssumption DEF Mail!NoJob
<1>2. ASSUME NEW r \in Mails, NEW p \in 1..MailPeriods PROVE masent'[r][p] = 0 \/ (masent'[r][p] = 1 /\ Past(r, p)')
  BY DEF MailInv
<1>3. ASSUME NEW r \in Mails, NEW p \in 1..MailPeriods, majob'["s1"] = [report |-> r, period |-> p]
      PROVE  masent'[r][p] = 0 /\ Past(r, p)'
  <2>1. majob["s1"] = [report |-> r, period |-> p]
    BY <1>1, <1>3
  <2> QED
    BY <2>1 DEF MailInv
<1> QED
  BY <1>2, <1>3 DEF MailInv

\* one row is written
LEMMA RowMoves ==
  ASSUME MailTyped, NEW r \in Mails, NEW n \in Rows, mareport' = [mareport EXCEPT ![r] = n],
         n = Mail!NoRow \/ (mareport[r] # Mail!NoRow /\ n.period >= mareport[r].period)
  PROVE  /\ mareport' \in [Mails -> Rows]
         /\ \A q \in Mails, p \in 1..MailPeriods : Past(q, p) => Past(q, p)'
<1>1. mareport \in [Mails -> Rows]
  BY DEF MailTyped
<1>2. ASSUME NEW q \in Mails, NEW p \in 1..MailPeriods, Past(q, p) PROVE mareport'[q] = Mail!NoRow \/ mareport'[q].period > p
  <2>1. CASE q # r
    BY <1>1, <1>2, <2>1 DEF Past
  <2>2. CASE q = r
    <3>1. mareport'[q] = n
      BY <1>1, <2>2
    <3>2. PICK a \in Nat, b \in Nat : a = mareport[r].period /\ b = n.period
      BY <1>1 DEF Rows
    <3>3. CASE n = Mail!NoRow
      BY <3>1, <3>3
    <3>4. CASE mareport[r] # Mail!NoRow /\ n.period >= mareport[r].period
      <4>1. a > p /\ b >= a /\ p \in Nat
        BY <1>2, <2>2, <3>2, <3>4 DEF Past
      <4>2. b > p
        BY <4>1
      <4> QED
        BY <3>1, <3>2, <4>2
    <3> QED
      BY <3>3, <3>4
  <2> QED
    BY <2>1, <2>2
<1> QED
  BY <1>1, <1>2 DEF Past

LEMMA TakeHolds == ASSUME MailInv, Mail!Take("s1") PROVE MailInv'
<1>1. PICK r, q : r = Head(maqueue["s1"]) /\ q = Tail(maqueue["s1"]) /\ r \in Mails /\ q \in Seq(Mails)
  <2>1. maqueue["s1"] \in Seq(Mails) /\ maqueue["s1"] # <<>>
    BY DEF MailInv, MailTyped, Mail!Take
  <2> QED
    BY <2>1, ItemsHeadTail
<1>2. /\ mareport' = IF mareport[r].enabled THEN [mareport EXCEPT ![r] = Mail!Advanced(r)] ELSE mareport
      /\ majob' = [majob EXCEPT !["s1"] = IF mareport[r].enabled THEN [report |-> r, period |-> mareport[r].period] ELSE Mail!NoJob]
      /\ maqueue' = [maqueue EXCEPT !["s1"] = q] /\ UNCHANGED <<mamanual, masent>>
  BY <1>1 DEF Mail!Take, Mail!JobOf
<1>3. maqueue' \in [{"s1"} -> Seq(Mails)]
  <2>1. PICK S : S = Seq(Mails)
    OBVIOUS
  <2>2. maqueue' \in [{"s1"} -> S]
    BY <1>1, <1>2, <2>1 DEF MailInv, MailTyped
  <2> QED
    BY <2>1, <2>2
<1>4. PICK row \in Rows : row = mareport[r]
  BY <1>1 DEF MailInv, MailTyped
<1>5. PICK k \in Nat, e \in BOOLEAN : k = row.period /\ (e <=> row.enabled)
  BY <1>4 DEF Rows
<1>6. CASE ~e
  <2>1. mareport' = mareport /\ majob'["s1"] = Mail!NoJob /\ DOMAIN majob' = {"s1"}
    BY <1>2, <1>4, <1>5, <1>6 DEF MailInv, MailTyped
  <2>2. MailTyped'
    BY <1>2, <1>3, <2>1 DEF MailInv, MailTyped
  <2> QED
    BY <1>2, <2>1, <2>2, MailKept DEF Past
<1>7. CASE e
  <2>1. PICK n : n = Mail!Advanced(r) /\ mareport' = [mareport EXCEPT ![r] = n]
    BY <1>2, <1>4, <1>5, <1>7
  <2>2. n \in Rows /\ n.period >= k /\ (k <= MailPeriods => n.period = k + 1)
    <3>1. n = [row EXCEPT !.period = IF k > MailPeriods THEN k ELSE k + 1, !.due = FALSE]
      BY <1>4, <1>5, <2>1 DEF Mail!Advanced
    <3>2. PICK m \in Nat : m = (IF k > MailPeriods THEN k ELSE k + 1) /\ m >= k /\ (k <= MailPeriods => m = k + 1)
      BY MailsAssumption
    <3>3. n = [enabled |-> row.enabled, period |-> m, due |-> FALSE]
      BY <1>4, <3>1, <3>2 DEF Rows
    <3>4. n \in Rows
      BY <1>4, <3>3 DEF Rows
    <3> QED
      BY <3>2, <3>3, <3>4
  <2>3. row # Mail!NoRow
    BY <1>5, <1>7 DEF Mail!NoRow
  <2>4. mareport' \in [Mails -> Rows] /\ \A s \in Mails, p \in 1..MailPeriods : Past(s, p) => Past(s, p)'
    BY <1>1, <1>4, <1>5, <2>1, <2>2, <2>3, RowMoves DEF MailInv
  <2>5. majob'["s1"] = [report |-> r, period |-> k] /\ DOMAIN majob' = {"s1"}
    BY <1>2, <1>4, <1>5, <1>7 DEF MailInv, MailTyped
  <2>6. [report |-> r, period |-> k] \in Jobs
    BY <1>1 DEF Jobs
  <2>7. MailTyped'
    BY <1>2, <1>3, <2>4, <2>5, <2>6 DEF MailInv, MailTyped
  <2>8. ASSUME k \in 1..MailPeriods PROVE masent[r][k] = 0 /\ Past(r, k)'
    <3>1. ~Past(r, k)
      BY <1>4, <1>5, <2>3 DEF Past
    <3>2. mareport'[r] = n /\ n.period = k + 1
      BY <1>1, <2>1, <2>2, <2>8, MailsAssumption DEF MailInv, MailTyped
    <3>3. k + 1 > k
      OBVIOUS
    <3> QED
      BY <1>1, <2>8, <3>1, <3>2, <3>3 DEF MailInv, Past
  <2>9. ASSUME NEW s \in Mails, NEW p \in 1..MailPeriods PROVE masent'[s][p] = 0 \/ (masent'[s][p] = 1 /\ Past(s, p)')
    BY <1>2, <2>4 DEF MailInv
  <2>10. ASSUME NEW s \in Mails, NEW p \in 1..MailPeriods, majob'["s1"] = [report |-> s, period |-> p]
         PROVE  masent'[s][p] = 0 /\ Past(s, p)'
    <3>1. s = r /\ p = k
      BY <2>5, <2>10
    <3> QED
      BY <1>2, <2>8, <3>1
  <2> QED
    BY <2>7, <2>9, <2>10 DEF MailInv
<1> QED
  BY <1>6, <1>7

LEMMA SendHolds == ASSUME MailInv, Mail!Send("s1") PROVE MailInv'
<1>1. PICK r \in Mails, k \in Nat : majob["s1"] = [report |-> r, period |-> k]
  BY DEF MailInv, MailTyped, Mail!Send, Jobs
<1>2. /\ masent' = Mail!Count(r, k) /\ majob' = [majob EXCEPT !["s1"] = Mail!NoJob]
      /\ UNCHANGED <<mareport, maqueue, mamanual>>
  BY <1>1 DEF Mail!Send
<1>3. majob'["s1"] = Mail!NoJob /\ DOMAIN majob' = {"s1"}
  BY <1>2 DEF MailInv, MailTyped
<1>4. CASE k \notin 1..MailPeriods
  <2>1. masent' = masent
    BY <1>2, <1>4 DEF Mail!Count
  <2>2. MailTyped'
    BY <1>2, <1>3, <2>1 DEF MailInv, MailTyped
  <2> QED
    BY <1>2, <1>3, <2>1, <2>2, MailKept DEF Past
<1>5. CASE k \in 1..MailPeriods
  <2>1. masent[r][k] = 0 /\ Past(r, k)
    BY <1>1, <1>5 DEF MailInv
  <2>2. masent' = [masent EXCEPT ![r] = [masent[r] EXCEPT ![k] = 1]]
    BY <1>2, <1>5, <2>1 DEF Mail!Count
  <2>3. /\ masent' \in [Mails -> [1..MailPeriods -> Nat]]
        /\ \A s \in Mails, p \in 1..MailPeriods : masent'[s][p] = IF s = r /\ p = k THEN 1 ELSE masent[s][p]
    BY <1>5, <2>2 DEF MailInv, MailTyped
  <2>4. MailTyped'
    BY <1>2, <1>3, <2>3 DEF MailInv, MailTyped
  <2>5. ASSUME NEW s \in Mails, NEW p \in 1..MailPeriods PROVE masent'[s][p] = 0 \/ (masent'[s][p] = 1 /\ Past(s, p)')
    <3>1. Past(s, p)' <=> Past(s, p)
      BY <1>2 DEF Past
    <3> QED
      BY <2>1, <2>3, <3>1 DEF MailInv
  <2>6. ASSUME NEW s \in Mails, NEW p \in 1..MailPeriods PROVE majob'["s1"] # [report |-> s, period |-> p]
    BY <1>3, MailsAssumption DEF Mail!NoJob
  <2> QED
    BY <2>4, <2>5, <2>6 DEF MailInv
<1> QED
  BY <1>4, <1>5

LEMMA MailStep == MailInv /\ [Mail!Next]_maVars => MailInv'
<1> SUFFICES ASSUME MailInv, [Mail!Next]_maVars PROVE MailInv'
  OBVIOUS
<1>0. MailTyped
  BY DEF MailInv
<1>1. ASSUME NEW r \in Mails, NEW n \in Rows, mareport' = [mareport EXCEPT ![r] = n],
             n = Mail!NoRow \/ (mareport[r] # Mail!NoRow /\ n.period >= mareport[r].period),
             UNCHANGED <<maqueue, majob, mamanual, masent>>
      PROVE  MailInv'
  <2>1. mareport' \in [Mails -> Rows] /\ \A q \in Mails, p \in 1..MailPeriods : Past(q, p) => Past(q, p)'
    BY <1>0, <1>1, RowMoves
  <2>2. MailTyped'
    BY <1>0, <1>1, <2>1 DEF MailTyped
  <2> QED
    BY <1>1, <2>1, <2>2, MailKept
<1>2. ASSUME NEW r \in Mails, Mail!Due(r) PROVE MailInv'
  <2>1. PICK row \in Rows : row = mareport[r]
    BY <1>0 DEF MailTyped
  <2>2. PICK n : n = [row EXCEPT !.due = TRUE]
    OBVIOUS
  <2>3. n \in Rows /\ n.period >= row.period /\ row # Mail!NoRow
    <3>1. n \in Rows /\ n.period = row.period /\ row.period \in Nat
      BY <2>1, <2>2 DEF Rows
    <3>2. row.period \in 1..MailPeriods
      BY <1>2, <2>1 DEF Mail!Due
    <3>3. row # Mail!NoRow
      BY <3>2 DEF Mail!NoRow
    <3> QED
      BY <3>1, <3>3
  <2>4. mareport' = [mareport EXCEPT ![r] = n] /\ UNCHANGED <<maqueue, majob, mamanual, masent>>
    BY <1>2, <2>1, <2>2 DEF Mail!Due
  <2> QED
    BY <1>1, <2>1, <2>3, <2>4, mareport[r] # Mail!NoRow
<1>3. ASSUME NEW r \in Mails, Mail!RunSends(r) \/ Mail!RunEnds(r) PROVE FALSE
  BY <1>0, <1>3 DEF Mail!RunSends, Mail!RunEnds, MailTyped
<1>4. ASSUME NEW r \in Mails, Mail!Change(r) PROVE MailInv'
  <2>1. PICK row \in Rows : row = mareport[r]
    BY <1>0 DEF MailTyped
  <2>2. row # Mail!NoRow /\ UNCHANGED <<maqueue, majob, mamanual, masent>>
    BY <1>4, <2>1 DEF Mail!Change
  <2>3. CASE mareport' = [mareport EXCEPT ![r].enabled = ~@]
    <3>1. PICK e \in BOOLEAN : e <=> ~row.enabled
      OBVIOUS
    <3>2. PICK n : n = [row EXCEPT !.enabled = e]
      OBVIOUS
    <3>3. n \in Rows /\ n.period = row.period /\ row.period \in Nat
      BY <2>1, <3>2 DEF Rows
    <3>4. mareport' = [mareport EXCEPT ![r] = n]
      BY <2>1, <2>3, <3>1, <3>2
    <3>5. mareport[r] # Mail!NoRow /\ n.period >= mareport[r].period
      BY <2>1, <2>2, <3>3
    <3> QED
      BY <1>1, <2>2, <3>3, <3>4, <3>5
  <2>4. CASE mareport' = [mareport EXCEPT ![r].due = FALSE]
    <3>1. PICK n : n = [row EXCEPT !.due = FALSE]
      OBVIOUS
    <3>2. n \in Rows /\ n.period = row.period /\ row.period \in Nat
      BY <2>1, <3>1 DEF Rows
    <3>3. mareport' = [mareport EXCEPT ![r] = n]
      BY <2>1, <2>4, <3>1
    <3>4. mareport[r] # Mail!NoRow /\ n.period >= mareport[r].period
      BY <2>1, <2>2, <3>2
    <3> QED
      BY <1>1, <2>2, <3>2, <3>3, <3>4
  <2> QED
    BY <1>4, <2>3, <2>4 DEF Mail!Change
<1>5. ASSUME NEW r \in Mails, Mail!Delete(r) PROVE MailInv'
  <2>1. Mail!NoRow \in Rows
    BY DEF Mail!NoRow, Rows
  <2> QED
    BY <1>1, <1>5, <2>1 DEF Mail!Delete
<1>6. CASE Mail!Tick("s1")
  <2>1. maqueue' = [maqueue EXCEPT !["s1"] = Mail!SetToSeq(Mail!Selected)] /\ UNCHANGED <<mareport, majob, mamanual, masent>>
    BY <1>6 DEF Mail!Tick
  <2>2. Mail!SetToSeq(Mail!Selected) \in Seq(Mails)
    BY MailsOrdered DEF Mail!Selected
  <2>3. maqueue' \in [{"s1"} -> Seq(Mails)]
    <3>1. PICK S, x : S = Seq(Mails) /\ x = Mail!SetToSeq(Mail!Selected) /\ x \in S
      BY <2>2
    <3>2. maqueue' \in [{"s1"} -> S]
      BY <1>0, <2>1, <3>1 DEF MailTyped
    <3> QED
      BY <3>1, <3>2
  <2>4. MailTyped'
    BY <1>0, <2>1, <2>3 DEF MailTyped
  <2> QED
    BY <2>1, <2>4, MailKept DEF Past
<1>7. CASE Mail!Take("s1")
  BY <1>7, TakeHolds
<1>8. CASE Mail!Send("s1")
  BY <1>8, SendHolds
<1>9. CASE Mail!SendFails("s1")
  <2>1. majob' = [majob EXCEPT !["s1"] = Mail!NoJob] /\ UNCHANGED <<mareport, maqueue, mamanual, masent>>
    BY <1>9 DEF Mail!SendFails
  <2>2. majob'["s1"] = Mail!NoJob /\ DOMAIN majob' = {"s1"}
    BY <1>0, <2>1 DEF MailTyped
  <2>3. MailTyped'
    BY <1>0, <2>1, <2>2 DEF MailTyped
  <2> QED
    BY <2>1, <2>2, <2>3, MailKept DEF Past
<1>10. CASE Mail!Crash("s1")
  <2>1. /\ maqueue' = [maqueue EXCEPT !["s1"] = <<>>] /\ majob' = [majob EXCEPT !["s1"] = Mail!NoJob]
        /\ UNCHANGED <<mareport, mamanual, masent>>
    BY <1>10 DEF Mail!Crash
  <2>2. majob'["s1"] = Mail!NoJob /\ DOMAIN majob' = {"s1"}
    BY <1>0, <2>1 DEF MailTyped
  <2>3. maqueue' \in [{"s1"} -> Seq(Mails)]
    <3>1. PICK S : S = Seq(Mails)
      OBVIOUS
    <3>2. <<>> \in S
      BY <3>1
    <3>3. maqueue' \in [{"s1"} -> S]
      BY <1>0, <2>1, <3>1, <3>2 DEF MailTyped
    <3> QED
      BY <3>1, <3>3
  <2>4. MailTyped'
    BY <1>0, <2>1, <2>2, <2>3 DEF MailTyped
  <2> QED
    BY <2>1, <2>2, <2>4, MailKept DEF Past
<1>11. CASE UNCHANGED maVars
  BY <1>0, <1>11 DEF maVars, MailInv, MailTyped, Past
<1> QED
  BY <1>2, <1>3, <1>4, <1>5, <1>6, <1>7, <1>8, <1>9, <1>10, <1>11 DEF Mail!Next

LEMMA MailMoves == [Next]_vars => [Mail!Next]_maVars
  BY DEF Next, vars, HeldKeeps, GeminiKeeps, RoutingKeeps, OutboxKeeps, CrowdKeeps

\* With one server and nobody running reports by hand, whatever crashes, fails, is changed or
\* deleted: no period of a report is mailed twice (the first half of MailHonest).
THEOREM PeriodsMailedOnce == Spec => []Mail!MailedOnce
<1>1. Init => MailInv
  BY MailInit DEF Init
<1>2. MailInv /\ [Next]_vars => MailInv'
  BY MailStep, MailMoves
<1>3. MailInv => Mail!MailedOnce
  <2>1. ASSUME MailInv, NEW r \in Mails, NEW p \in 1..MailPeriods PROVE masent[r][p] <= 1
    BY <2>1 DEF MailInv
  <2> QED
    BY <2>1 DEF Mail!MailedOnce
<1> QED
  BY <1>1, <1>2, <1>3, PTL DEF Spec
===============================================================================
