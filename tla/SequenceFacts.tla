------------------------------ MODULE SequenceFacts ------------------------------
(* Facts about natural numbers and sequences that the proofs of several          *)
(* components need.  Induction is over sets of numbers instead of a predicate,   *)
(* so that the provers can use it: a statement about every n is proved of the    *)
(* set of the n it holds for.                                                    *)
EXTENDS Integers, Sequences, FiniteSets, Filters, SequenceTheorems, FiniteSetTheorems, WellFoundedInduction, TLAPS

LEMMA NatOrderWellFounded == IsWellFoundedOn({ss \in Nat \X Nat : ss[1] < ss[2]}, Nat)
  BY NatLessThanWellFounded DEF OpToRel

\* a set with 0 that has the successors of its members has every number
LEMMA NatSetInduction ==
  ASSUME NEW P \in SUBSET Nat, 0 \in P, \A n \in P : n + 1 \in P
  PROVE  P = Nat
<1> SUFFICES ASSUME P # Nat PROVE FALSE
  OBVIOUS
<1> DEFINE R == {ss \in Nat \X Nat : ss[1] < ss[2]}
<1> DEFINE T == Nat \ P
<1>1. IsWellFoundedOn(R, Nat) /\ T \subseteq Nat /\ T # {}
  BY NatOrderWellFounded
<1>2. PICK x \in T : \A y \in T : ~(<<y, x>> \in R)
  <2> HIDE DEF R, T
  <2> QED BY <1>1, WFMin
<1>3. PICK m \in Nat : x = m + 1
  <2>1. x \in Nat /\ x # 0
    OBVIOUS
  <2>2. x - 1 \in Nat /\ x = x - 1 + 1
    BY <2>1
  <2> QED BY <2>2
<1>4. m \notin T
  <2>1. <<m, x>> \in R
    BY <1>3
  <2> QED BY <1>2, <2>1
<1>5. x \in P
  BY <1>3, <1>4
<1> QED
  BY <1>5

\* a set of numbers with a bound has a greatest one
LEMMA Greatest ==
  ASSUME NEW n \in Nat, NEW S \in SUBSET (0..n), S # {}
  PROVE  \E m \in S : \A k \in S : k <= m
<1> DEFINE P == {k \in Nat : \A U \in SUBSET (0..k) : U # {} => \E m \in U : \A j \in U : j <= m}
<1>1. 0 \in P
  <2>1. ASSUME NEW U \in SUBSET (0..0), U # {} PROVE \E m \in U : \A j \in U : j <= m
    <3>1. \A x \in U : x = 0
      BY <2>1
    <3>2. PICK m \in U : TRUE
      BY <2>1
    <3> QED
      BY <3>1, <3>2
  <2> QED
    BY <2>1
<1>2. ASSUME NEW k \in P PROVE k + 1 \in P
  <2>1. ASSUME NEW U \in SUBSET (0..(k + 1)), U # {} PROVE \E m \in U : \A j \in U : j <= m
    <3>1. CASE k + 1 \in U
      BY <3>1
    <3>2. CASE k + 1 \notin U
      <4>1. U \in SUBSET (0..k)
        BY <3>2
      <4> QED
        BY <2>1, <4>1
    <3> QED
      BY <3>1, <3>2
  <2> QED
    BY <2>1
<1>3. P = Nat
  <2> HIDE DEF P
  <2> QED
    BY <1>1, <1>2, NatSetInduction, P \in SUBSET Nat DEF P
<1> QED
  BY <1>3

\* a function that is defined by its value before exists
Defined(S, c, n, G) == \E f \in [0..n -> S] : f[0] = c /\ \A i \in 1..n : f[i] = G[<<f[i - 1], i>>]

LEMMA Recursion ==
  ASSUME NEW S, NEW c \in S, NEW n \in Nat, NEW G \in [S \X (1..n) -> S]
  PROVE  Defined(S, c, n, G)
<1> DEFINE Fits(f, k) == f[0] = c /\ \A i \in 1..k : f[i] = G[<<f[i - 1], i>>]
<1> DEFINE P == {k \in Nat : k <= n => \E f \in [0..k -> S] : Fits(f, k)}
<1>1. 0 \in P
  <2>1. [i \in 0..0 |-> c] \in [0..0 -> S] /\ Fits([i \in 0..0 |-> c], 0)
    OBVIOUS
  <2> QED
    BY <2>1
<1>2. ASSUME NEW k \in P PROVE k + 1 \in P
  <2>1. CASE k + 1 <= n
    <3>1. PICK f \in [0..k -> S] : Fits(f, k)
      BY <2>1
    <3>2. <<f[k], k + 1>> \in S \X (1..n) /\ k \in Nat
      BY <2>1
    <3>3. PICK g : g = [i \in 0..(k + 1) |-> IF i = k + 1 THEN G[<<f[k], k + 1>>] ELSE f[i]]
      OBVIOUS
    <3>4. g \in [0..(k + 1) -> S]
      BY <3>2, <3>3
    <3>5. g[k + 1] = G[<<f[k], k + 1>>] /\ \A i \in 0..k : g[i] = f[i]
      BY <3>2, <3>3
    <3>6. g[0] = c
      BY <3>1, <3>2, <3>5
    <3>7. ASSUME NEW i \in 1..(k + 1) PROVE g[i] = G[<<g[i - 1], i>>]
      <4>1. CASE i = k + 1
        BY <3>2, <3>5, <4>1
      <4>2. CASE i # k + 1
        <5>1. i \in 1..k /\ i \in 0..k /\ i - 1 \in 0..k
          BY <3>2, <4>2
        <5> QED
          BY <3>1, <3>5, <5>1
      <4> QED
        BY <4>1, <4>2
    <3> QED
      BY <3>2, <3>4, <3>6, <3>7
  <2>2. CASE ~(k + 1 <= n)
    BY <2>2
  <2> QED
    BY <2>1, <2>2
<1>3. P = Nat
  <2>1. P \in SUBSET Nat
    OBVIOUS
  <2> HIDE DEF P
  <2> QED
    BY <1>1, <1>2, <2>1, NatSetInduction
<1>4. PICK f \in [0..n -> S] : Fits(f, n)
  <2>1. n \in P
    BY <1>3
  <2> QED
    BY <2>1
<1> QED
  BY <1>4 DEF Defined

-------------------------------------------------------------------------------
(* What occurs in a sequence. *)

Items(s) == {s[i] : i \in DOMAIN s}

LEMMA ItemIn ==
  ASSUME NEW S, NEW s \in Seq(S), NEW i \in 1..Len(s)
  PROVE  s[i] \in Items(s) /\ s[i] \in S
  BY DEF Items

LEMMA ItemsAre ==
  ASSUME NEW S, NEW s \in Seq(S), NEW x \in Items(s)
  PROVE  x \in S /\ \E i \in 1..Len(s) : x = s[i]
  BY DEF Items

LEMMA ItemsEmpty == Items(<<>>) = {}
  BY DEF Items

LEMMA ItemsConcat ==
  ASSUME NEW S, NEW s \in Seq(S), NEW t \in Seq(S)
  PROVE  s \o t \in Seq(S) /\ Items(s \o t) = Items(s) \cup Items(t)
<1>0. PICK c : c = s \o t
  OBVIOUS
<1>1. /\ c \in Seq(S) /\ c = s \o t /\ Len(c) = Len(s) + Len(t)
      /\ \A i \in 1..(Len(s) + Len(t)) : c[i] = IF i <= Len(s) THEN s[i] ELSE t[i - Len(s)]
  BY <1>0, ConcatProperties
<1>2. Len(s) \in Nat /\ Len(t) \in Nat
  OBVIOUS
<1>3. ASSUME NEW x \in Items(s) PROVE x \in Items(c)
  <2>1. PICK i \in 1..Len(s) : x = s[i]
    BY ItemsAre
  <2>2. i \in 1..Len(c) /\ c[i] = x
    BY <1>1, <1>2, <2>1
  <2> QED
    BY <1>1, <2>2, ItemIn
<1>4. ASSUME NEW x \in Items(t) PROVE x \in Items(c)
  <2>1. PICK i \in 1..Len(t) : x = t[i]
    BY ItemsAre
  <2>2. i + Len(s) \in 1..Len(c) /\ c[i + Len(s)] = x
    BY <1>1, <1>2, <2>1
  <2> QED
    BY <1>1, <2>2, ItemIn
<1>5. ASSUME NEW x \in Items(c) PROVE x \in Items(s) \cup Items(t)
  <2>1. PICK i \in 1..Len(c) : x = c[i]
    BY <1>1, ItemsAre
  <2>2. CASE i <= Len(s)
    <3>1. i \in 1..Len(s) /\ x = s[i]
      BY <1>1, <1>2, <2>1, <2>2
    <3> QED
      BY <3>1, ItemIn
  <2>3. CASE ~(i <= Len(s))
    <3>1. i - Len(s) \in 1..Len(t) /\ x = t[i - Len(s)]
      BY <1>1, <1>2, <2>1, <2>3
    <3> QED
      BY <3>1, ItemIn
  <2> QED
    BY <2>2, <2>3
<1> QED
  BY <1>1, <1>3, <1>4, <1>5

LEMMA ItemsAppend ==
  ASSUME NEW S, NEW s \in Seq(S), NEW e \in S
  PROVE  Append(s, e) \in Seq(S) /\ Items(Append(s, e)) = Items(s) \cup {e}
<1>0. PICK c : c = Append(s, e)
  OBVIOUS
<1>1. /\ c \in Seq(S) /\ c = Append(s, e) /\ Len(c) = Len(s) + 1 /\ c[Len(s) + 1] = e
      /\ \A i \in 1..Len(s) : c[i] = s[i]
  BY <1>0, AppendProperties
<1>2. Len(s) \in Nat
  OBVIOUS
<1>3. ASSUME NEW x \in Items(s) PROVE x \in Items(c)
  <2>1. PICK i \in 1..Len(s) : x = s[i]
    BY ItemsAre
  <2>2. i \in 1..Len(c) /\ c[i] = x
    BY <1>1, <1>2, <2>1
  <2> QED
    BY <1>1, <2>2, ItemIn
<1>4. e \in Items(c)
  <2>1. Len(s) + 1 \in 1..Len(c)
    BY <1>1, <1>2
  <2> QED
    BY <1>1, <2>1, ItemIn
<1>5. ASSUME NEW x \in Items(c) PROVE x \in Items(s) \cup {e}
  <2>1. PICK i \in 1..Len(c) : x = c[i]
    BY <1>1, ItemsAre
  <2>2. CASE i \in 1..Len(s)
    BY <1>1, <2>1, <2>2, ItemIn
  <2>3. CASE i \notin 1..Len(s)
    BY <1>1, <1>2, <2>1, <2>3
  <2> QED
    BY <2>2, <2>3
<1> QED
  BY <1>1, <1>3, <1>4, <1>5

LEMMA ItemsSubSeq ==
  ASSUME NEW S, NEW s \in Seq(S), NEW m \in 1..(Len(s) + 1), NEW n \in 0..Len(s)
  PROVE  SubSeq(s, m, n) \in Seq(S) /\ Items(SubSeq(s, m, n)) = {s[i] : i \in m..n}
<1>1. Len(s) \in Nat /\ m \in Int /\ n \in Int
  OBVIOUS
<1>2. \A i \in m..n : i \in 1..Len(s) /\ s[i] \in S
  BY <1>1
<1>0. PICK c : c = SubSeq(s, m, n)
  OBVIOUS
<1>3. /\ c \in Seq(S) /\ c = SubSeq(s, m, n) /\ Len(c) = IF m <= n THEN n - m + 1 ELSE 0
      /\ \A i \in 1..(n - m + 1) : c[i] = s[m + i - 1]
  BY <1>0, <1>1, <1>2, SubSeqProperties
<1>4. ASSUME NEW x \in Items(c) PROVE x \in {s[i] : i \in m..n}
  <2>1. PICK i \in 1..Len(c) : x = c[i]
    BY <1>3, ItemsAre
  <2>2. i \in 1..(n - m + 1) /\ m + i - 1 \in m..n
    BY <1>1, <1>3
  <2> QED
    BY <1>3, <2>1, <2>2
<1>5. ASSUME NEW j \in m..n PROVE s[j] \in Items(c)
  <2>1. j - m + 1 \in 1..(n - m + 1) /\ j - m + 1 \in 1..Len(c) /\ m + (j - m + 1) - 1 = j
    BY <1>1, <1>3
  <2>2. c[j - m + 1] = s[j]
    BY <1>3, <2>1
  <2> QED
    BY <1>3, <2>1, <2>2, ItemIn
<1> QED
  BY <1>3, <1>4, <1>5

\* all but one
LEMMA ItemsRemoved ==
  ASSUME NEW S, NEW s \in Seq(S), NEW k \in DOMAIN s, NEW t, t = SubSeq(s, 1, k - 1) \o SubSeq(s, k + 1, Len(s))
  PROVE  t \in Seq(S) /\ Items(t) = {s[i] : i \in (DOMAIN s) \ {k}}
<1>1. Len(s) \in Nat /\ DOMAIN s = 1..Len(s) /\ k \in 1..Len(s)
  OBVIOUS
<1>2. 1 \in 1..(Len(s) + 1) /\ k - 1 \in 0..Len(s) /\ k + 1 \in 1..(Len(s) + 1) /\ Len(s) \in 0..Len(s)
  BY <1>1
<1>3. PICK a \in Seq(S) : a = SubSeq(s, 1, k - 1) /\ Items(a) = {s[i] : i \in 1..(k - 1)}
  BY <1>2, ItemsSubSeq
<1>4. PICK b \in Seq(S) : b = SubSeq(s, k + 1, Len(s)) /\ Items(b) = {s[i] : i \in (k + 1)..Len(s)}
  BY <1>2, ItemsSubSeq
<1>5. \A i : i \in (DOMAIN s) \ {k} <=> i \in 1..(k - 1) \/ i \in (k + 1)..Len(s)
  <2>1. \A i \in Int : i \in (1..Len(s)) \ {k} <=> i \in 1..(k - 1) \/ i \in (k + 1)..Len(s)
    BY <1>1
  <2> QED
    BY <1>1, <2>1
<1>6. t \in Seq(S) /\ Items(t) = Items(a) \cup Items(b)
  BY <1>3, <1>4, ItemsConcat
<1> QED
  BY <1>3, <1>4, <1>5, <1>6

LEMMA ItemsHeadTail ==
  ASSUME NEW S, NEW s \in Seq(S), s # <<>>
  PROVE  Head(s) \in S /\ Tail(s) \in Seq(S) /\ Items(s) = {Head(s)} \cup Items(Tail(s))
<1>1. PICK t \in Seq(S) : /\ t = Tail(s) /\ Len(t) = Len(s) - 1 /\ Len(s) \in Nat \ {0}
                          /\ \A i \in 1..Len(t) : t[i] = s[i + 1]
  BY HeadTailProperties, EmptySeq
<1>2. Head(s) = s[1] /\ 1 \in 1..Len(s)
  BY <1>1
<1>3. ASSUME NEW x \in Items(t) PROVE x \in Items(s)
  <2>1. PICK i \in 1..Len(t) : x = t[i]
    BY ItemsAre
  <2>2. i + 1 \in 1..Len(s) /\ s[i + 1] = x
    BY <1>1, <2>1
  <2> QED
    BY <2>2, ItemIn
<1>4. ASSUME NEW x \in Items(s), x # s[1] PROVE x \in Items(t)
  <2>1. PICK i \in 1..Len(s) : x = s[i]
    BY ItemsAre
  <2>2. i - 1 \in 1..Len(t) /\ t[i - 1] = x
    BY <1>1, <1>4, <2>1
  <2> QED
    BY <2>2, ItemIn
<1>5. s[1] \in Items(s) /\ s[1] \in S
  BY <1>2, ItemIn
<1> QED
  BY <1>1, <1>2, <1>3, <1>4, <1>5

LEMMA ItemsSingle ==
  ASSUME NEW S, NEW e \in S
  PROVE  <<e>> \in Seq(S) /\ Items(<<e>>) = {e}
<1>1. <<e>> \in Seq(S) /\ Len(<<e>>) = 1 /\ <<e>>[1] = e
  OBVIOUS
<1>2. 1..1 = {1}
  OBVIOUS
<1> QED
  BY <1>1, <1>2 DEF Items

-------------------------------------------------------------------------------
(* Sequences without doubles, and what a filter keeps. *)

Distinct(s) == \A i, j \in DOMAIN s : s[i] = s[j] => i = j

LEMMA DistinctAppend ==
  ASSUME NEW S, NEW s \in Seq(S), NEW e \in S, Distinct(s), e \notin Items(s)
  PROVE  Distinct(Append(s, e))
<1>0. PICK c : c = Append(s, e)
  OBVIOUS
<1>1. /\ c \in Seq(S) /\ c = Append(s, e) /\ Len(c) = Len(s) + 1 /\ c[Len(s) + 1] = e
      /\ \A i \in 1..Len(s) : c[i] = s[i]
  BY <1>0, AppendProperties
<1>2. Len(s) \in Nat /\ DOMAIN s = 1..Len(s) /\ DOMAIN c = 1..(Len(s) + 1)
  BY <1>1
<1>3. \A i \in 1..Len(s) : s[i] # e
  BY ItemIn
<1>4. \A i \in 1..(Len(s) + 1) : i \in 1..Len(s) \/ i = Len(s) + 1
  BY <1>2
<1>5. Distinct(c)
  BY <1>1, <1>2, <1>3, <1>4 DEF Distinct
<1> QED
  BY <1>1, <1>5

\* sequences of different items, one after the other
LEMMA DistinctConcat ==
  ASSUME NEW S, NEW s \in Seq(S), NEW t \in Seq(S), Distinct(s), Distinct(t), Items(s) \cap Items(t) = {}
  PROVE  Distinct(s \o t)
<1>0. PICK c : c = s \o t
  OBVIOUS
<1>1. PICK m \in Nat, n \in Nat : m = Len(s) /\ n = Len(t) /\ DOMAIN s = 1..m /\ DOMAIN t = 1..n
  OBVIOUS
<1>2. /\ c \in Seq(S) /\ DOMAIN c = 1..(m + n)
      /\ \A i \in 1..(m + n) : c[i] = IF i <= m THEN s[i] ELSE t[i - m]
  <2>1. /\ s \o t \in Seq(S) /\ Len(s \o t) = m + n
        /\ \A i \in 1..(m + n) : (s \o t)[i] = IF i <= m THEN s[i] ELSE t[i - m]
    BY <1>1, ConcatProperties
  <2> QED
    BY <1>0, <2>1
<1>3. ASSUME NEW i \in 1..(m + n), NEW j \in 1..(m + n), c[i] = c[j] PROVE i = j
  <2>1. ASSUME NEW k \in 1..(m + n)
        PROVE  /\ k <= m => k \in 1..m /\ c[k] = s[k] /\ c[k] \in Items(s)
               /\ ~(k <= m) => k - m \in 1..n /\ c[k] = t[k - m] /\ c[k] \in Items(t)
    <3>1. CASE k <= m
      BY <1>1, <1>2, <3>1, k \in 1..m DEF Items
    <3>2. CASE ~(k <= m)
      <4>1. PICK h \in 1..n : h = k - m
        <5>1. k - m \in 1..n
          BY <3>2
        <5> QED
          BY <5>1
      <4> QED
        BY <1>1, <1>2, <3>2, <4>1 DEF Items
    <3> QED
      BY <3>1, <3>2
  <2>2. CASE i <= m /\ j <= m
    BY <1>1, <1>3, <2>1, <2>2 DEF Distinct
  <2>3. CASE ~(i <= m) /\ ~(j <= m)
    <3>1. i - m \in 1..n /\ j - m \in 1..n
      BY <2>1, <2>3
    <3>2. t[i - m] = t[j - m]
      BY <1>3, <2>1, <2>3
    <3>3. ASSUME NEW x \in 1..n, NEW y \in 1..n, t[x] = t[y] PROVE x = y
      BY <1>1, <3>3 DEF Distinct
    <3>4. i - m = j - m
      BY <3>1, <3>2, <3>3
    <3> QED
      BY <1>1, <3>4
  <2>4. CASE (i <= m /\ ~(j <= m)) \/ (~(i <= m) /\ j <= m)
    BY <1>3, <2>1, <2>4
  <2> QED
    BY <2>2, <2>3, <2>4
<1> QED
  BY <1>0, <1>2, <1>3 DEF Distinct

\* a function on the first numbers is a sequence
LEMMA FunctionSeq ==
  ASSUME NEW S, NEW n \in Nat, NEW f \in [1..n -> S]
  PROVE  f \in Seq(S) /\ Len(f) = n
<1>1. f \in Seq(S) /\ DOMAIN f = 1..n
  BY SeqDef
<1>2. DOMAIN f = 1..Len(f) /\ Len(f) \in Nat
  BY <1>1, LenProperties
<1>3. ASSUME NEW k \in Nat, NEW l \in Nat, k < l PROVE 1..k # 1..l
  <2>1. l \in 1..l /\ l \notin 1..k
    BY <1>3
  <2> QED
    BY <2>1
<1>4. ~(n < Len(f)) /\ ~(Len(f) < n)
  BY <1>1, <1>2, <1>3
<1> QED
  BY <1>1, <1>2, <1>4

LEMMA DistinctSubSeq ==
  ASSUME NEW S, NEW s \in Seq(S), Distinct(s), NEW m \in 1..(Len(s) + 1), NEW n \in 0..Len(s)
  PROVE  Distinct(SubSeq(s, m, n))
<1>1. Len(s) \in Nat /\ m \in Int /\ n \in Int /\ DOMAIN s = 1..Len(s)
  OBVIOUS
<1>2. \A i \in m..n : i \in 1..Len(s) /\ s[i] \in S
  BY <1>1
<1>3. PICK c : c = SubSeq(s, m, n)
  OBVIOUS
<1>4. /\ c \in Seq(S) /\ Len(c) = (IF m <= n THEN n - m + 1 ELSE 0)
      /\ \A i \in 1..(n - m + 1) : c[i] = s[m + i - 1]
  BY <1>1, <1>2, <1>3, SubSeqProperties
<1>5. ASSUME NEW i \in DOMAIN c, NEW j \in DOMAIN c, c[i] = c[j] PROVE i = j
  <2>1. i \in 1..(n - m + 1) /\ j \in 1..(n - m + 1)
    BY <1>1, <1>4
  <2>2. m + i - 1 \in DOMAIN s /\ m + j - 1 \in DOMAIN s
    BY <1>1, <2>1
  <2>3. m + i - 1 = m + j - 1
    BY <1>4, <1>5, <2>1, <2>2 DEF Distinct
  <2> QED
    BY <2>1, <2>3
<1> QED
  BY <1>3, <1>5 DEF Distinct

LEMMA DistinctHeadTail ==
  ASSUME NEW S, NEW s \in Seq(S), s # <<>>, Distinct(s)
  PROVE  Distinct(Tail(s)) /\ Head(s) \notin Items(Tail(s))
<1>1. PICK t \in Seq(S) : /\ t = Tail(s) /\ Len(t) = Len(s) - 1 /\ Len(s) \in Nat \ {0}
                          /\ \A i \in 1..Len(t) : t[i] = s[i + 1]
  BY HeadTailProperties, EmptySeq
<1>2. DOMAIN s = 1..Len(s) /\ DOMAIN t = 1..Len(t) /\ Head(s) = s[1] /\ 1 \in 1..Len(s)
  BY <1>1
<1>3. \A i \in 1..Len(t) : i + 1 \in 1..Len(s) /\ i + 1 # 1
  BY <1>1
<1>4. Distinct(t)
  BY <1>1, <1>2, <1>3 DEF Distinct
<1>5. \A i \in 1..Len(t) : t[i] # s[1]
  BY <1>1, <1>2, <1>3 DEF Distinct
<1> QED
  BY <1>1, <1>2, <1>4, <1>5 DEF Items

\* what a filter has kept of the first i items
Keeps(K, s, T, n) == /\ K[0] = <<>>
                     /\ \A i \in 1..n : K[i] = IF s[i] \in T THEN Append(K[i - 1], s[i]) ELSE K[i - 1]

LEMMA KeptSteps ==
  ASSUME NEW S, NEW s \in Seq(S), NEW T, NEW n \in Nat, n = Len(s)
  PROVE  \E K : Keeps(K, s, T, n) /\ Kept(s, T) = K[n]
<1>1. n = Len(s) /\ DOMAIN s = 1..n
  OBVIOUS
<1> DEFINE K == CHOOSE k : k = [i \in 0..Len(s) |-> IF i = 0 THEN <<>>
                                                  ELSE IF s[i] \in T THEN Append(k[i - 1], s[i]) ELSE k[i - 1]]
<1>2. K = [i \in 0..n |-> IF i = 0 THEN <<>> ELSE IF s[i] \in T THEN Append(K[i - 1], s[i]) ELSE K[i - 1]]
  <2>1. PICK G : G = [x \in Seq(S) \X (1..n) |-> IF s[x[2]] \in T THEN Append(x[1], s[x[2]]) ELSE x[1]]
    OBVIOUS
  <2>2. \A a \in Seq(S), i \in 1..n : s[i] \in S /\ Append(a, s[i]) \in Seq(S)
    BY <1>1, AppendProperties
  <2>3. G \in [Seq(S) \X (1..n) -> Seq(S)]
    BY <2>1, <2>2
  <2>4. <<>> \in Seq(S)
    OBVIOUS
  <2>5. PICK f \in [0..n -> Seq(S)] : f[0] = <<>> /\ \A i \in 1..n : f[i] = G[<<f[i - 1], i>>]
    <3>1. PICK Q : Q = Seq(S)
      OBVIOUS
    <3>2. PICK c \in Q : c = <<>>
      BY <2>4, <3>1
    <3>3. G \in [Q \X (1..n) -> Q]
      BY <2>3, <3>1
    <3>4. Defined(Q, c, n, G)
      BY <3>3, Recursion
    <3> QED
      BY <3>1, <3>2, <3>4 DEF Defined
  <2>6. \A i \in 1..n : /\ f[i - 1] \in Seq(S)
                       /\ G[<<f[i - 1], i>>] = IF s[i] \in T THEN Append(f[i - 1], s[i]) ELSE f[i - 1]
    <3> TAKE i \in 1..n
    <3>1. i - 1 \in 0..n
      OBVIOUS
    <3>2. PICK x : x = f[i - 1]
      OBVIOUS
    <3>3. x \in Seq(S)
      BY <3>1, <3>2
    <3>4. G[<<x, i>>] = IF s[i] \in T THEN Append(x, s[i]) ELSE x
      BY <2>1, <3>3
    <3> QED
      BY <3>2, <3>3, <3>4
  <2>7. \A i \in 0..n : i # 0 => i \in 1..n
    OBVIOUS
  <2>8. f = [i \in 0..Len(s) |-> IF i = 0 THEN <<>> ELSE IF s[i] \in T THEN Append(f[i - 1], s[i]) ELSE f[i - 1]]
    BY <1>1, <2>5, <2>6, <2>7
  <2> QED
    BY <1>1, <2>8
<1>3. K[0] = <<>> /\ \A i \in 1..n : K[i] = IF s[i] \in T THEN Append(K[i - 1], s[i]) ELSE K[i - 1]
  <2> HIDE DEF K
  <2>1. 0 \in 0..n /\ \A i \in 1..n : i \in 0..n /\ i # 0
    OBVIOUS
  <2> QED
    BY <1>2, <2>1
<1>4. Kept(s, T) = K[n]
  BY <1>1 DEF Kept
<1> HIDE DEF K
<1> QED
  BY <1>3, <1>4 DEF Keeps

\* the same items as far as k, kept or not
Alongside(s, T, t, U, k) == \A i \in 1..k : s[i] = t[i] /\ (s[i] \in T <=> t[i] \in U)

LEMMA KeepsAgree ==
  ASSUME NEW s, NEW T, NEW m \in Nat, NEW K, Keeps(K, s, T, m), NEW t, NEW U, NEW n \in Nat, NEW L, Keeps(L, t, U, n),
         NEW k \in Nat, k <= m, k <= n, Alongside(s, T, t, U, k)
  PROVE  K[k] = L[k]
<1> DEFINE P == {j \in Nat : j <= k => K[j] = L[j]}
<1>1. 0 \in P
  BY DEF Keeps
<1>2. ASSUME NEW j \in P PROVE j + 1 \in P
  <2> SUFFICES ASSUME j + 1 <= k PROVE K[j + 1] = L[j + 1]
    OBVIOUS
  <2>1. j \in Nat /\ j + 1 \in 1..m /\ j + 1 \in 1..n /\ j + 1 \in 1..k /\ (j + 1) - 1 = j /\ K[j] = L[j]
    OBVIOUS
  <2>2. K[j + 1] = IF s[j + 1] \in T THEN Append(K[j], s[j + 1]) ELSE K[j]
    BY <2>1 DEF Keeps
  <2>3. L[j + 1] = IF t[j + 1] \in U THEN Append(L[j], t[j + 1]) ELSE L[j]
    BY <2>1 DEF Keeps
  <2> QED
    BY <2>1, <2>2, <2>3 DEF Alongside
<1>3. P = Nat
  <2> HIDE DEF P
  <2>1. P \in SUBSET Nat
    BY DEF P
  <2> QED
    BY <1>1, <1>2, <2>1, NatSetInduction
<1> QED
  BY <1>3

LEMMA ItemsKept ==
  ASSUME NEW S, NEW s \in Seq(S), NEW T
  PROVE  /\ Kept(s, T) \in Seq(S)
         /\ Items(Kept(s, T)) = Items(s) \cap T
         /\ Len(Kept(s, T)) <= Len(s)
         /\ Distinct(s) => Distinct(Kept(s, T))
<1>1. PICK n \in Nat : n = Len(s) /\ DOMAIN s = 1..n
  OBVIOUS
<1>2. PICK K : Keeps(K, s, T, n) /\ Kept(s, T) = K[n]
  BY <1>1, KeptSteps
<1>3. K[0] = <<>> /\ \A i \in 1..n : K[i] = IF s[i] \in T THEN Append(K[i - 1], s[i]) ELSE K[i - 1]
  BY <1>2 DEF Keeps
<1>4. Kept(s, T) = K[n]
  BY <1>2
<1> DEFINE Holds(k) == /\ K[k] \in Seq(S)
                       /\ Items(K[k]) = {s[i] : i \in 1..k} \cap T
                       /\ Len(K[k]) <= k
                       /\ Distinct(s) => Distinct(K[k])
<1> DEFINE P == {k \in Nat : k <= n => Holds(k)}
<1>5. 0 \in P
  <2>1. 1..0 = {} /\ Len(<<>>) = 0 /\ <<>> \in Seq(S) /\ DOMAIN <<>> = {}
    OBVIOUS
  <2> QED
    <3>1. {s[i] : i \in 1..0} = {} /\ Items(K[0]) = {}
      BY <1>3, <2>1, ItemsEmpty
    <3>2. Distinct(K[0]) /\ Len(K[0]) = 0 /\ K[0] \in Seq(S)
      BY <1>3, <2>1 DEF Distinct
    <3>3. Holds(0)
      BY <3>1, <3>2
    <3> HIDE DEF Holds
    <3> QED
      BY <3>3
<1>6. ASSUME NEW k \in P PROVE k + 1 \in P
  <2> SUFFICES ASSUME k + 1 <= n PROVE Holds(k + 1)
    OBVIOUS
  <2>1. k \in Nat /\ k + 1 \in 1..n /\ Holds(k) /\ s[k + 1] \in S
    BY <1>1
  <2>2. {s[i] : i \in 1..(k + 1)} = {s[i] : i \in 1..k} \cup {s[k + 1]}
    <3>1. \A i : i \in 1..(k + 1) <=> i \in 1..k \/ i = k + 1
      BY <2>1
    <3> QED
      BY <3>1
  <2>3. K[k + 1] = IF s[k + 1] \in T THEN Append(K[k], s[k + 1]) ELSE K[k]
    <3>1. (k + 1) - 1 = k
      BY <2>1
    <3> QED
      BY <1>3, <2>1, <3>1
  <2>4. CASE s[k + 1] \in T
    <3>1. Append(K[k], s[k + 1]) \in Seq(S) /\ Items(Append(K[k], s[k + 1])) = Items(K[k]) \cup {s[k + 1]}
      BY <2>1, ItemsAppend
    <3>2. Len(Append(K[k], s[k + 1])) = Len(K[k]) + 1 /\ Len(K[k]) \in Nat
      BY <2>1, AppendProperties
    <3>3. ASSUME Distinct(s) PROVE Distinct(Append(K[k], s[k + 1]))
      <4>1. \A i \in 1..k : i \in DOMAIN s /\ k + 1 \in DOMAIN s /\ i # k + 1
        BY <1>1, <2>1
      <4>2. s[k + 1] \notin {s[i] : i \in 1..k}
        BY <3>3, <4>1 DEF Distinct
      <4>3. s[k + 1] \notin Items(K[k])
        BY <2>1, <4>2
      <4> QED
        BY <2>1, <3>3, <4>3, DistinctAppend
    <3>4. Items(Append(K[k], s[k + 1])) = {s[i] : i \in 1..(k + 1)} \cap T
      BY <2>1, <2>2, <2>4, <3>1
    <3> QED
      BY <2>1, <2>3, <2>4, <3>1, <3>2, <3>3, <3>4
  <2>5. CASE s[k + 1] \notin T
    <3>1. Items(K[k]) = {s[i] : i \in 1..(k + 1)} \cap T
      BY <2>1, <2>2, <2>5
    <3>2. Len(K[k]) \in Nat
      BY <2>1
    <3> QED
      BY <2>1, <2>3, <2>5, <3>1, <3>2
  <2> QED
    BY <2>4, <2>5
<1>7. n \in P
  <2>1. P \in SUBSET Nat
    OBVIOUS
  <2> HIDE DEF P
  <2> QED
    BY <1>5, <1>6, <2>1, NatSetInduction
<1>8. Items(s) = {s[i] : i \in 1..n}
  BY <1>1 DEF Items
<1> QED
  BY <1>1, <1>4, <1>7, <1>8

\* the last item kept is the last item of the sequence that is in the set
LEMMA LastKept ==
  ASSUME NEW S, NEW s \in Seq(S), NEW T
  PROVE  /\ (\A i \in DOMAIN s : s[i] \notin T) => Kept(s, T) = <<>>
         /\ \A m \in DOMAIN s : s[m] \in T /\ (\A j \in DOMAIN s : s[j] \in T => j <= m) =>
              Kept(s, T) # <<>> /\ Kept(s, T)[Len(Kept(s, T))] = s[m]
<1>1. PICK n \in Nat : n = Len(s) /\ DOMAIN s = 1..n
  OBVIOUS
<1>2. PICK K : Keeps(K, s, T, n) /\ Kept(s, T) = K[n]
  BY <1>1, KeptSteps
<1>3. K[0] = <<>> /\ \A i \in 1..n : K[i] = IF s[i] \in T THEN Append(K[i - 1], s[i]) ELSE K[i - 1]
  BY <1>2 DEF Keeps
<1> DEFINE Ends(k) == /\ K[k] \in Seq(S)
                      /\ (\A i \in 1..k : s[i] \notin T) => K[k] = <<>>
                      /\ \A m \in 1..k : s[m] \in T /\ (\A j \in 1..k : s[j] \in T => j <= m) =>
                           K[k] # <<>> /\ K[k][Len(K[k])] = s[m]
<1> DEFINE P == {k \in Nat : k <= n => Ends(k)}
<1>4. 0 \in P
  <2>1. K[0] \in Seq(S) /\ K[0] = <<>> /\ 1..0 = {}
    BY <1>3
  <2> QED
    BY <2>1
<1>5. ASSUME NEW k \in P PROVE k + 1 \in P
  <2> SUFFICES ASSUME k + 1 <= n PROVE Ends(k + 1)
    OBVIOUS
  <2>1. k \in Nat /\ k + 1 \in 1..n /\ Ends(k) /\ s[k + 1] \in S
    BY <1>1
  <2>2. \A i \in 1..k : i \in 1..(k + 1) /\ i <= k /\ i # k + 1
    BY <2>1
  <2>3. k + 1 \in 1..(k + 1) /\ \A i \in 1..(k + 1) : i \in 1..k \/ i = k + 1
    BY <2>1
  <2>4. K[k + 1] = IF s[k + 1] \in T THEN Append(K[k], s[k + 1]) ELSE K[k]
    <3>1. (k + 1) - 1 = k
      BY <2>1
    <3> QED
      BY <1>3, <2>1, <3>1
  <2>5. CASE s[k + 1] \in T
    <3>1. PICK a \in Seq(S) : a = K[k] /\ K[k + 1] = Append(a, s[k + 1])
      BY <2>1, <2>4, <2>5
    <3>2. PICK c \in Seq(S) : c = K[k + 1] /\ c # <<>> /\ c[Len(c)] = s[k + 1]
      <4>1. PICK e \in S : e = s[k + 1]
        BY <2>1
      <4>2. PICK c : c = Append(a, e)
        OBVIOUS
      <4>3. c \in Seq(S) /\ c # <<>> /\ Len(c) = Len(a) + 1 /\ c[Len(a) + 1] = e
        BY <4>2, AppendProperties
      <4> QED
        BY <3>1, <4>1, <4>2, <4>3
    <3>3. ASSUME NEW m \in 1..(k + 1), \A j \in 1..(k + 1) : s[j] \in T => j <= m PROVE m = k + 1
      BY <2>1, <2>3, <2>5, <3>3
    <3> QED
      BY <2>3, <2>5, <3>2, <3>3
  <2>6. CASE s[k + 1] \notin T
    <3>1. K[k + 1] = K[k]
      BY <2>4, <2>6
    <3>2. (\A i \in 1..(k + 1) : s[i] \notin T) => K[k + 1] = <<>>
      BY <2>1, <2>2, <3>1
    <3>3. ASSUME NEW m \in 1..(k + 1), s[m] \in T, \A j \in 1..(k + 1) : s[j] \in T => j <= m
          PROVE  K[k + 1] # <<>> /\ K[k + 1][Len(K[k + 1])] = s[m]
      <4>1. m \in 1..k /\ \A j \in 1..k : s[j] \in T => j <= m
        BY <2>2, <2>3, <2>6, <3>3
      <4> QED
        BY <2>1, <3>1, <3>3, <4>1
    <3> QED
      BY <2>1, <3>1, <3>2, <3>3
  <2> QED
    BY <2>5, <2>6
<1>6. n \in P
  <2>1. P \in SUBSET Nat
    OBVIOUS
  <2> HIDE DEF P
  <2> QED
    BY <1>4, <1>5, <2>1, NatSetInduction
<1>7. Ends(n)
  BY <1>6
<1> QED
  BY <1>1, <1>2, <1>7

InPlace(x, s, k) == \E f \in [1..Len(x) -> 1..k] : /\ \A i \in 1..Len(x) : x[i] = s[f[i]]
                                                   /\ \A i, j \in 1..Len(x) : i < j => f[i] < f[j]

\* what is kept comes in the order of the sequence
LEMMA KeptInOrder ==
  ASSUME NEW S, NEW s \in Seq(S), NEW T
  PROVE  InPlace(Kept(s, T), s, Len(s))
<1>1. PICK n \in Nat : n = Len(s) /\ DOMAIN s = 1..n
  OBVIOUS
<1>2. PICK K : Keeps(K, s, T, n) /\ Kept(s, T) = K[n]
  BY <1>1, KeptSteps
<1>3. K[0] = <<>> /\ \A i \in 1..n : K[i] = IF s[i] \in T THEN Append(K[i - 1], s[i]) ELSE K[i - 1]
  BY <1>2 DEF Keeps
<1> DEFINE Follows(k) == K[k] \in Seq(S) /\ InPlace(K[k], s, k)
<1> DEFINE P == {k \in Nat : k <= n => Follows(k)}
<1>4. 0 \in P
  <2>1. K[0] \in Seq(S) /\ Len(K[0]) = 0
    BY <1>3, EmptySeq
  <2>2. PICK f : f = [i \in 1..0 |-> i]
    OBVIOUS
  <2>3. f \in [1..Len(K[0]) -> 1..0]
    BY <2>1, <2>2
  <2> QED
    BY <2>1, <2>3 DEF InPlace
<1>5. ASSUME NEW k \in P PROVE k + 1 \in P
  <2> HIDE DEF Follows
  <2> SUFFICES ASSUME k + 1 <= n PROVE Follows(k + 1)
    OBVIOUS
  <2>1. k \in Nat /\ Follows(k) /\ k + 1 \in 1..n
    OBVIOUS
  <2>2. PICK a : a = K[k] /\ a \in Seq(S)
    BY <2>1 DEF Follows
  <2>3. PICK m \in Nat : m = Len(a)
    BY <2>2
  <2>4. PICK f \in [1..m -> 1..k] : /\ \A i \in 1..m : a[i] = s[f[i]]
                                    /\ \A i, j \in 1..m : i < j => f[i] < f[j]
    BY <2>1, <2>2, <2>3 DEF Follows, InPlace
  <2>5. K[k + 1] = IF s[k + 1] \in T THEN Append(a, s[k + 1]) ELSE a
    BY <1>3, <2>1, <2>2
  <2>6. CASE s[k + 1] \notin T
    <3>1. f \in [1..m -> 1..(k + 1)]
      BY <2>1
    <3>2. InPlace(a, s, k + 1)
      BY <2>3, <2>4, <3>1 DEF InPlace
    <3> QED
      BY <2>2, <2>5, <2>6, <3>2 DEF Follows
  <2>7. CASE s[k + 1] \in T
    <3>1. PICK e \in S : e = s[k + 1]
      BY <1>1, <2>1
    <3>2. PICK b : b = Append(a, e) /\ b = K[k + 1]
      BY <2>5, <2>7, <3>1
    <3>3. /\ b \in Seq(S) /\ Len(b) = m + 1 /\ b[m + 1] = e
          /\ \A i \in 1..m : b[i] = a[i]
      <4>1. /\ b \in Seq(S) /\ Len(b) = Len(a) + 1 /\ b[Len(a) + 1] = e
            /\ \A i \in 1..Len(a) : b[i] = a[i]
        <5>1. a \in Seq(S) /\ e \in S /\ b = Append(a, e)
          BY <2>2, <3>2
        <5>2. /\ Append(a, e) \in Seq(S) /\ Len(Append(a, e)) = Len(a) + 1
              /\ Append(a, e)[Len(a) + 1] = e /\ \A i \in 1..Len(a) : Append(a, e)[i] = a[i]
          BY <5>1, AppendProperties
        <5> QED
          BY <5>1, <5>2
      <4> QED
        BY <2>3, <4>1
    <3>4. PICK g : g = [i \in 1..(m + 1) |-> IF i <= m THEN f[i] ELSE k + 1]
      OBVIOUS
    <3>5. \A i \in 1..(m + 1) : i \in 1..m \/ i = m + 1
      OBVIOUS
    <3>6. \A i \in 1..m : g[i] = f[i] /\ f[i] \in 1..k
      BY <3>4
    <3>7. g[m + 1] = k + 1
      BY <3>4
    <3>8. g \in [1..(m + 1) -> 1..(k + 1)]
      BY <2>1, <3>4, <3>5, <3>6, <3>7
    <3>9. \A i \in 1..(m + 1) : b[i] = s[g[i]]
      BY <2>4, <3>1, <3>3, <3>5, <3>6, <3>7
    <3>10. ASSUME NEW i \in 1..(m + 1), NEW j \in 1..(m + 1), i < j PROVE g[i] < g[j]
      <4>1. i \in 1..m
        BY <3>10
      <4>2. CASE j \in 1..m
        BY <2>4, <3>6, <3>10, <4>1, <4>2
      <4>3. CASE j = m + 1
        BY <2>1, <3>6, <3>7, <4>1, <4>3
      <4> QED
        BY <3>5, <4>2, <4>3
    <3>11. InPlace(b, s, k + 1)
      BY <3>3, <3>8, <3>9, <3>10 DEF InPlace
    <3> QED
      BY <3>2, <3>3, <3>11 DEF Follows
  <2> QED
    BY <2>6, <2>7
<1>6. P = Nat
  <2> HIDE DEF P
  <2> QED
    BY <1>4, <1>5, NatSetInduction, P \in SUBSET Nat DEF P
<1>7. Follows(n)
  BY <1>6
<1> QED
  BY <1>1, <1>2, <1>7

\* nor does what is left when an item is removed change its order
LEMMA RemovedInOrder ==
  ASSUME NEW S, NEW s \in Seq(S), NEW k \in DOMAIN s, NEW t, t = SubSeq(s, 1, k - 1) \o SubSeq(s, k + 1, Len(s))
  PROVE  InPlace(t, s, Len(s))
<1>1. PICK n \in Nat : n = Len(s) /\ DOMAIN s = 1..n /\ k \in 1..n /\ \A i \in 1..n : s[i] \in S
  OBVIOUS
<1>2. PICK a : a = SubSeq(s, 1, k - 1)
  OBVIOUS
<1>3. a \in Seq(S) /\ Len(a) = k - 1 /\ \A i \in 1..(k - 1) : a[i] = s[i]
  <2>1. /\ SubSeq(s, 1, k - 1) \in Seq(S) /\ Len(SubSeq(s, 1, k - 1)) = IF 1 <= k - 1 THEN (k - 1) - 1 + 1 ELSE 0
        /\ \A i \in 1..((k - 1) - 1 + 1) : SubSeq(s, 1, k - 1)[i] = s[1 + i - 1]
    BY <1>1, SubSeqProperties
  <2> QED
    BY <1>1, <1>2, <2>1
<1>4. PICK b : b = SubSeq(s, k + 1, n)
  OBVIOUS
<1>5. b \in Seq(S) /\ Len(b) = n - k /\ \A i \in 1..(n - k) : b[i] = s[k + i]
  <2>1. /\ SubSeq(s, k + 1, n) \in Seq(S) /\ Len(SubSeq(s, k + 1, n)) = IF k + 1 <= n THEN n - (k + 1) + 1 ELSE 0
        /\ \A i \in 1..(n - (k + 1) + 1) : SubSeq(s, k + 1, n)[i] = s[(k + 1) + i - 1]
    BY <1>1, SubSeqProperties
  <2> QED
    BY <1>1, <1>4, <2>1
<1>6. /\ Len(t) = (k - 1) + (n - k)
      /\ \A i \in 1..((k - 1) + (n - k)) : t[i] = IF i <= k - 1 THEN a[i] ELSE b[i - (k - 1)]
  <2>1. /\ Len(a \o b) = Len(a) + Len(b)
        /\ \A i \in 1..(Len(a) + Len(b)) : (a \o b)[i] = IF i <= Len(a) THEN a[i] ELSE b[i - Len(a)]
    BY <1>3, <1>5, ConcatProperties
  <2> QED
    BY <1>1, <1>2, <1>3, <1>4, <1>5, <2>1
<1>7. PICK f : f = [i \in 1..(n - 1) |-> IF i < k THEN i ELSE i + 1]
  OBVIOUS
<1>8. Len(t) = n - 1 /\ f \in [1..(n - 1) -> 1..n]
  BY <1>1, <1>6, <1>7
<1>9. \A i \in 1..(n - 1) : t[i] = s[f[i]]
  <2>1. ASSUME NEW i \in 1..(n - 1), i < k PROVE t[i] = s[f[i]]
    BY <1>1, <1>3, <1>6, <1>7, <2>1
  <2>2. ASSUME NEW i \in 1..(n - 1), ~(i < k) PROVE t[i] = s[f[i]]
    <3>1. PICK p \in 1..n : p = k
      BY <1>1
    <3>2. i - (p - 1) \in 1..(n - p) /\ i \in 1..((p - 1) + (n - p)) /\ ~(i <= p - 1)
      BY <2>2, <3>1
    <3>3. PICK j \in 1..(n - p) : j = i - (p - 1) /\ p + j = i + 1
      BY <3>1, <3>2
    <3>4. t[i] = b[j]
      BY <1>6, <3>1, <3>2, <3>3
    <3>5. b[j] = s[i + 1]
      BY <1>5, <3>1, <3>3
    <3>6. f[i] = i + 1
      BY <1>7, <2>2
    <3> QED
      BY <3>4, <3>5, <3>6
  <2> QED
    BY <2>1, <2>2
<1>10. \A i, j \in 1..(n - 1) : i < j => f[i] < f[j]
  BY <1>1, <1>7
<1> QED
  BY <1>1, <1>8, <1>9, <1>10 DEF InPlace

-------------------------------------------------------------------------------
(* A finite set of numbers in order. *)

LEMMA GreatestOfFinite ==
  ASSUME NEW S \in SUBSET Nat, IsFiniteSet(S), S # {}
  PROVE  \E m \in S : \A k \in S : k <= m
<1> DEFINE Has(T) == \E m \in T : \A k \in T : k <= m
<1> DEFINE P == {n \in Nat : \A T \in SUBSET Nat : IsFiniteSet(T) /\ Cardinality(T) = n /\ T # {} => Has(T)}
<1>1. 0 \in P
  BY FS_EmptySet
<1>2. ASSUME NEW n \in P PROVE n + 1 \in P
  <2>1. ASSUME NEW T \in SUBSET Nat, IsFiniteSet(T), Cardinality(T) = n + 1, T # {} PROVE Has(T)
    <3>1. PICK x \in T : TRUE
      BY <2>1
    <3>2. PICK U \in SUBSET Nat : U = T \ {x}
      OBVIOUS
    <3>3. IsFiniteSet(U) /\ Cardinality(U) = n
      <4>1. IsFiniteSet(T \ {x}) /\ Cardinality(T \ {x}) = Cardinality(T) - 1
        BY <2>1, FS_RemoveElement
      <4>2. n \in Nat
        OBVIOUS
      <4> QED
        BY <2>1, <3>2, <4>1, <4>2
    <3>4. CASE U = {}
      BY <3>2, <3>4
    <3>5. CASE U # {}
      <4>1. PICK m \in U : \A k \in U : k <= m
        BY <1>2, <3>3, <3>5
      <4> QED
        BY <3>2, <4>1
    <3> QED
      BY <3>4, <3>5
  <2> QED
    BY <2>1
<1>3. P = Nat
  <2> HIDE DEF P
  <2> QED
    BY <1>1, <1>2, NatSetInduction, P \in SUBSET Nat DEF P
<1>4. Cardinality(S) \in P
  BY <1>3, FS_CardinalityType
<1> QED
  BY <1>4

Enumerates(s, S) == /\ s \in [1..Cardinality(S) -> S] /\ {s[i] : i \in DOMAIN s} = S
                    /\ \A i, j \in DOMAIN s : i < j => s[i] < s[j]

LEMMA OrderExists ==
  ASSUME NEW S \in SUBSET Nat, IsFiniteSet(S)
  PROVE  \E s : Enumerates(s, S)
<1> DEFINE P == {n \in Nat : \A T \in SUBSET Nat : IsFiniteSet(T) /\ Cardinality(T) = n => \E s : Enumerates(s, T)}
<1>1. 0 \in P
  <2>1. ASSUME NEW T \in SUBSET Nat, IsFiniteSet(T), Cardinality(T) = 0 PROVE \E s : Enumerates(s, T)
    <3>1. T = {}
      BY <2>1, FS_EmptySet
    <3>2. PICK s : s = [i \in 1..0 |-> i]
      OBVIOUS
    <3>3. Enumerates(s, T)
      BY <2>1, <3>1, <3>2 DEF Enumerates
    <3> QED
      BY <3>3
  <2> QED
    BY <2>1
<1>2. ASSUME NEW n \in P PROVE n + 1 \in P
  <2>1. ASSUME NEW T \in SUBSET Nat, IsFiniteSet(T), Cardinality(T) = n + 1 PROVE \E s : Enumerates(s, T)
    <3>1. PICK m \in T : \A k \in T : k <= m
      <4>1. T # {}
        BY <2>1, FS_EmptySet
      <4> QED
        BY <2>1, <4>1, GreatestOfFinite
    <3>2. PICK U \in SUBSET Nat : U = T \ {m}
      OBVIOUS
    <3>3. IsFiniteSet(U) /\ Cardinality(U) = n
      <4>1. IsFiniteSet(T \ {m}) /\ Cardinality(T \ {m}) = Cardinality(T) - 1
        BY <2>1, FS_RemoveElement
      <4>2. n \in Nat
        OBVIOUS
      <4> QED
        BY <2>1, <3>2, <4>1, <4>2
    <3>4. PICK u : Enumerates(u, U)
      BY <1>2, <3>3
    <3>5. u \in [1..n -> U] /\ {u[i] : i \in 1..n} = U /\ \A i, j \in 1..n : i < j => u[i] < u[j]
      BY <3>3, <3>4 DEF Enumerates
    <3>6. PICK s : s = [i \in 1..(n + 1) |-> IF i <= n THEN u[i] ELSE m]
      OBVIOUS
    <3>7. \A i \in 1..(n + 1) : i \in 1..n \/ i = n + 1
      OBVIOUS
    <3>8. \A i \in 1..n : i \in 1..(n + 1) /\ s[i] = u[i] /\ u[i] \in U
      BY <3>5, <3>6
    <3>9. n + 1 \in 1..(n + 1) /\ s[n + 1] = m
      BY <3>6
    <3>10. DOMAIN s = 1..(n + 1) /\ s \in [1..(n + 1) -> T]
      BY <3>2, <3>6, <3>7, <3>8, <3>9
    <3>11. {s[i] : i \in 1..(n + 1)} = T
      <4>1. ASSUME NEW x \in T PROVE \E i \in 1..(n + 1) : s[i] = x
        <5>1. CASE x = m
          BY <3>9, <5>1
        <5>2. CASE x # m
          <6>1. PICK i \in 1..n : x = u[i]
            BY <3>2, <3>5, <5>2
          <6> QED
            BY <3>8, <6>1
        <5> QED
          BY <5>1, <5>2
      <4> QED
        BY <3>10, <4>1
    <3>12. ASSUME NEW i \in 1..(n + 1), NEW j \in 1..(n + 1), i < j PROVE s[i] < s[j]
      <4>1. i \in 1..n
        BY <3>12
      <4>2. CASE j \in 1..n
        BY <3>5, <3>8, <3>12, <4>1, <4>2
      <4>3. CASE j = n + 1
        <5>1. u[i] \in U /\ s[i] = u[i] /\ s[j] = m
          BY <3>8, <3>9, <4>1, <4>3
        <5>2. u[i] \in Nat /\ m \in Nat /\ u[i] <= m /\ u[i] # m
          BY <3>1, <3>2, <5>1
        <5> QED
          BY <5>1, <5>2
      <4> QED
        BY <3>7, <4>2, <4>3
    <3> QED
      BY <2>1, <3>10, <3>11, <3>12 DEF Enumerates
  <2> QED
    BY <2>1
<1>3. P = Nat
  <2> HIDE DEF P
  <2> QED
    BY <1>1, <1>2, NatSetInduction, P \in SUBSET Nat DEF P
<1>4. Cardinality(S) \in P
  BY <1>3, FS_CardinalityType
<1> QED
  BY <1>4
===============================================================================
