---------------------------- MODULE Evidence_proofs ----------------------------
(* Proofs about what is shown of the records to others: certificates, witnessed  *)
(* roots and capsules, and with the action chains and reviews all of            *)
(* EvidenceStands.                                                              *)
EXTENDS MCGovernance_proofs

-------------------------------------------------------------------------------
(* Certificates.  What a request read was in force at that moment, and what was   *)
(* true while it ran stays noted.                                                *)

Entry == [record : Scope, status : Certs!Statuses]
Known == Certs!Statuses \cup {"unknown"}
CertRequest == [pc : {"start", "policy", "reviews", "issued", "refused"}, rules : SUBSET Certs!Rules,
                records : SUBSET Scope, todo : SUBSET Scope, eligible : BOOLEAN]
Truths == [Scope -> [status : SUBSET Known, fit : SUBSET BOOLEAN]]

CertsTyped ==
  /\ cepolicy.rules \subseteq Certs!Rules
  /\ cereviews \in Seq(Entry) /\ cefit \in [Scope -> BOOLEAN]
  /\ cerequest \in [Requests -> CertRequest] /\ cefacts \in [Requests -> Truths]

\* what is in force is noted for the requests that run
NotedOf(F) == \A r \in Scope : Certs!InForce(r) \in F[r].status /\ cefit[r] \in F[r].fit
Noticed == \A q \in Requests : Certs!Running(q) => NotedOf(cefacts[q])

\* the rules R held of the records outside todo, or one of them was broken
Held(F, R, todo) == \A r \in Scope : /\ "fit" \in R => TRUE \in F[r].fit
                                     /\ r \notin todo => \E s \in F[r].status : Certs!Passes(R, s)
Broken(F, R) == \/ Scope = {}
                \/ \E r \in Scope : \/ \E s \in F[r].status : ~Certs!Passes(R, s)
                                    \/ "fit" \in R /\ FALSE \in F[r].fit
JudgedBy(F, k) == k.pc \in {"reviews", "issued"} => /\ k.eligible => Held(F, k.rules, k.todo)
                                                    /\ ~k.eligible => Broken(F, k.rules)
                                                    /\ k.pc = "issued" => k.todo = {}

CertsInv == CertsTyped /\ Noticed /\ \A q \in Requests : JudgedBy(cefacts[q], cerequest[q])

LEMMA CertsInit == Certs!Init => CertsInv
<1> SUFFICES ASSUME Certs!Init PROVE CertsInv
  OBVIOUS
<1>1. Certs!NotRead \in CertRequest /\ Certs!NotRead.pc = "start"
  BY DEF Certs!NotRead, CertRequest
<1>2. cerequest \in [Requests -> CertRequest] /\ \A q \in Requests : cerequest[q].pc = "start"
  BY <1>1 DEF Certs!Init
<1>3. cepolicy.rules \subseteq Certs!Rules
  BY DEF Certs!Init, Certs!Rules
<1>4. cereviews \in Seq(Entry) /\ cefit \in [Scope -> BOOLEAN]
  BY DEF Certs!Init
<1>5. cefacts \in [Requests -> Truths]
  <2>1. PICK none : none = [status |-> {}, fit |-> {}]
    OBVIOUS
  <2>2. none \in [status : SUBSET Known, fit : SUBSET BOOLEAN]
    BY <2>1
  <2>3. cefacts = [q \in Requests |-> [r \in Scope |-> none]]
    BY <2>1 DEF Certs!Init
  <2> QED
    BY <2>2, <2>3 DEF Truths
<1> QED
  BY <1>2, <1>3, <1>4, <1>5 DEF CertsInv, CertsTyped, Noticed, Certs!Running, JudgedBy

\* the entry of a record that was updated last is the one that is in force
LEMMA StatusInForce ==
  ASSUME cereviews \in Seq(Entry), NEW r \in Scope
  PROVE  Certs!Status(r) = Certs!InForce(r) /\ Certs!InForce(r) \in Known
<1> DEFINE I == {i \in DOMAIN cereviews : cereviews[i].record = r}
<1>1. PICK n \in Nat : n = Len(cereviews) /\ DOMAIN cereviews = 1..n
  BY LenProperties
<1>2. \A i \in DOMAIN cereviews : cereviews[i] \in Entry
  BY LenProperties
<1>3. PICK T : /\ T = [record : {r}, status : Certs!Statuses]
               /\ \A i \in DOMAIN cereviews : cereviews[i] \in T <=> cereviews[i].record = r
  <2>1. \A i \in DOMAIN cereviews : cereviews[i] \in [record : {r}, status : Certs!Statuses]
                                    <=> cereviews[i].record = r
    BY <1>2 DEF Entry
  <2> QED
    BY <2>1
<1>4. PICK E : /\ E = Certs!Kept(cereviews, T)
               /\ (\A i \in DOMAIN cereviews : cereviews[i] \notin T) => E = <<>>
               /\ \A m \in DOMAIN cereviews :
                    cereviews[m] \in T /\ (\A j \in DOMAIN cereviews : cereviews[j] \in T => j <= m) =>
                      E # <<>> /\ E[Len(E)] = cereviews[m]
  <2>1. Kept(cereviews, T) = Certs!Kept(cereviews, T)
    BY DEF Kept, Certs!Kept
  <2>2. PICK E : E = Kept(cereviews, T)
    OBVIOUS
  <2>3. /\ (\A i \in DOMAIN cereviews : cereviews[i] \notin T) => Kept(cereviews, T) = <<>>
        /\ \A m \in DOMAIN cereviews :
             cereviews[m] \in T /\ (\A j \in DOMAIN cereviews : cereviews[j] \in T => j <= m) =>
               Kept(cereviews, T) # <<>> /\ Kept(cereviews, T)[Len(Kept(cereviews, T))] = cereviews[m]
    BY LastKept
  <2> QED
    BY <2>1, <2>2, <2>3
<1>5. CASE I = {}
  <2>1. E = <<>>
    BY <1>3, <1>4, <1>5
  <2>2. Certs!Status(r) = "unknown"
    BY <1>3, <1>4, <2>1 DEF Certs!Status
  <2>3. Certs!InForce(r) = "unknown"
    BY <1>5 DEF Certs!InForce
  <2> QED
    BY <2>2, <2>3 DEF Known
<1>6. CASE I # {}
  <2>1. I \in SUBSET (0..n)
    BY <1>1
  <2>2. \E m \in I : \A j \in I : j <= m
    BY <1>6, <2>1, Greatest
  <2>3. PICK m : m = CHOOSE i \in I : \A j \in I : j <= i
    OBVIOUS
  <2>4. m \in I /\ \A j \in I : j <= m
    BY <2>2, <2>3
  <2>5. E # <<>> /\ E[Len(E)] = cereviews[m]
    <3>1. m \in DOMAIN cereviews /\ cereviews[m] \in T /\ \A j \in DOMAIN cereviews : cereviews[j] \in T => j <= m
      BY <1>3, <2>4
    <3> QED
      BY <1>4, <3>1
  <2>6. Certs!Last(E) = cereviews[m]
    BY <2>5 DEF Certs!Last
  <2>7. PICK s : s = cereviews[m].status
    OBVIOUS
  <2>8. Certs!Status(r) = IF s = "deferred" THEN "unknown" ELSE s
    BY <1>3, <1>4, <2>5, <2>6, <2>7 DEF Certs!Status
  <2>9. Certs!InForce(r) = IF s = "deferred" THEN "unknown" ELSE s
    BY <1>6, <2>3, <2>7 DEF Certs!InForce
  <2>10. s \in Certs!Statuses
    BY <1>2, <2>4, <2>7 DEF Entry
  <2> QED
    BY <2>8, <2>9, <2>10 DEF Known
<1> QED
  BY <1>5, <1>6

\* what is in force by the entries v
Standing(v, r) == LET I == {i \in DOMAIN v : v[i].record = r} IN
  IF I = {} THEN "unknown"
  ELSE LET s == v[CHOOSE i \in I : \A j \in I : j <= i].status
       IN IF s = "deferred" THEN "unknown" ELSE s

LEMMA StandingKnown ==
  ASSUME NEW v \in Seq(Entry), NEW r
  PROVE  Standing(v, r) \in Known
<1> DEFINE I == {i \in DOMAIN v : v[i].record = r}
<1>1. PICK n \in Nat : n = Len(v) /\ DOMAIN v = 1..n /\ \A i \in DOMAIN v : v[i] \in Entry
  BY LenProperties
<1>2. CASE I = {}
  BY <1>2 DEF Standing, Known
<1>3. CASE I # {}
  <2>1. I \in SUBSET (0..n)
    BY <1>1
  <2>2. \E m \in I : \A j \in I : j <= m
    BY <1>3, <2>1, Greatest
  <2>3. PICK m : m = CHOOSE i \in I : \A j \in I : j <= i
    OBVIOUS
  <2>4. m \in I
    BY <2>2, <2>3
  <2>5. PICK s : s = v[m].status
    OBVIOUS
  <2>6. s \in Certs!Statuses
    BY <1>1, <2>4, <2>5 DEF Entry
  <2>7. Standing(v, r) = IF s = "deferred" THEN "unknown" ELSE s
    BY <1>3, <2>3, <2>5 DEF Standing
  <2> QED
    BY <2>6, <2>7 DEF Known
<1> QED
  BY <1>2, <1>3

\* one request moves, and what is noted for it with it
LEMMA RequestMoves ==
  ASSUME CertsInv, NEW q \in Requests, NEW k \in CertRequest, NEW F \in Truths,
         cerequest' = [cerequest EXCEPT ![q] = k], cefacts' = [cefacts EXCEPT ![q] = F],
         cepolicy' = cepolicy, cefit' = cefit, cereviews' = cereviews,
         k.pc \in {"policy", "reviews"} => NotedOf(F), JudgedBy(F, k)
  PROVE  CertsInv'
<1>1. CertsTyped /\ Noticed /\ \A p \in Requests : JudgedBy(cefacts[p], cerequest[p])
  BY DEF CertsInv
<1>2. CertsTyped'
  BY <1>1 DEF CertsTyped
<1>3. \A p \in Requests : cerequest'[p] = (IF p = q THEN k ELSE cerequest[p])
                          /\ cefacts'[p] = (IF p = q THEN F ELSE cefacts[p])
  BY <1>1 DEF CertsTyped
<1>4. \A r \in Scope : Certs!InForce(r)' = Certs!InForce(r)
  BY DEF Certs!InForce
<1>5. ASSUME NEW p \in Requests, Certs!Running(p)' PROVE NotedOf(cefacts[p])'
  <2>1. CASE p = q
    <3>1. NotedOf(F)
      BY <1>3, <1>5, <2>1 DEF Certs!Running
    <3> QED
      BY <1>3, <1>4, <2>1, <3>1 DEF NotedOf
  <2>2. CASE p # q
    <3>1. Certs!Running(p)
      BY <1>3, <1>5, <2>2 DEF Certs!Running
    <3>2. NotedOf(cefacts[p])
      BY <1>1, <3>1 DEF Noticed
    <3> QED
      BY <1>3, <1>4, <2>2, <3>2 DEF NotedOf
  <2> QED
    BY <2>1, <2>2
<1>6. \A p \in Requests : JudgedBy(cefacts[p], cerequest[p])'
  BY <1>1, <1>3
<1> QED
  BY <1>2, <1>5, <1>6 DEF CertsInv, Noticed

\* facts grow, and what held or was broken stays so
LEMMA FactsGrow ==
  ASSUME CertsInv, cerequest' = cerequest, cepolicy'.rules \subseteq Certs!Rules,
         cereviews' \in Seq(Entry), cefit' \in [Scope -> BOOLEAN], Certs!Observed
  PROVE  CertsInv'
<1>1. CertsTyped /\ Noticed /\ \A p \in Requests : JudgedBy(cefacts[p], cerequest[p])
  BY DEF CertsInv
<1>2. \A r \in Scope : Certs!InForce(r)' \in Known
  <2>1. \A r \in Scope : Certs!InForce(r)' = Standing(cereviews', r)
    BY DEF Certs!InForce, Standing
  <2> QED
    BY <2>1, StandingKnown
<1>3. ASSUME NEW p \in Requests, Certs!Running(p)
      PROVE  /\ cefacts'[p] \in Truths
             /\ \A r \in Scope : /\ cefacts'[p][r].status = cefacts[p][r].status \cup {Certs!InForce(r)'}
                                 /\ cefacts'[p][r].fit = cefacts[p][r].fit \cup {cefit'[r]}
  <2>1. cefacts'[p] = [r \in Scope |-> [status |-> cefacts[p][r].status \cup {Certs!InForce(r)'},
                                        fit |-> cefacts[p][r].fit \cup {cefit'[r]}]]
    BY <1>3 DEF Certs!Observed
  <2>2. \A r \in Scope : cefacts[p][r] \in [status : SUBSET Known, fit : SUBSET BOOLEAN]
    BY <1>1 DEF CertsTyped, Truths
  <2>3. \A r \in Scope : /\ cefacts[p][r].status \cup {Certs!InForce(r)'} \in SUBSET Known
                         /\ cefacts[p][r].fit \cup {cefit'[r]} \in SUBSET BOOLEAN
    BY <1>2, <2>2
  <2> QED
    BY <2>1, <2>3 DEF Truths
<1>4. ASSUME NEW p \in Requests, ~Certs!Running(p) PROVE cefacts'[p] = cefacts[p]
  BY <1>4 DEF Certs!Observed
<1>5. cefacts' \in [Requests -> Truths]
  <2>1. \A p \in Requests : cefacts'[p] \in Truths
    BY <1>1, <1>3, <1>4 DEF CertsTyped
  <2>2. PICK h : cefacts' = [p \in Requests |-> h[p]]
    <3>1. cefacts' = [p \in Requests |-> cefacts'[p]]
      BY DEF Certs!Observed
    <3> QED
      BY <3>1
  <2> QED
    BY <2>1, <2>2
<1>6. CertsTyped'
  BY <1>1, <1>5 DEF CertsTyped
<1>7. \A p \in Requests : Certs!Running(p)' <=> Certs!Running(p)
  BY DEF Certs!Running
<1>8. ASSUME NEW p \in Requests, Certs!Running(p)' PROVE NotedOf(cefacts[p])'
  BY <1>3, <1>7, <1>8 DEF NotedOf
<1>9. ASSUME NEW p \in Requests PROVE JudgedBy(cefacts[p], cerequest[p])'
  <2>1. CASE ~Certs!Running(p)
    BY <1>1, <1>4, <2>1
  <2>2. CASE Certs!Running(p)
    <3>1. PICK k, F, G : k = cerequest[p] /\ F = cefacts[p] /\ G = cefacts'[p]
      OBVIOUS
    <3>2. \A r \in Scope : F[r].status \subseteq G[r].status /\ F[r].fit \subseteq G[r].fit
      BY <1>3, <2>2, <3>1
    <3>3. Held(F, k.rules, k.todo) => Held(G, k.rules, k.todo)
      BY <3>2 DEF Held
    <3>4. Broken(F, k.rules) => Broken(G, k.rules)
      BY <3>2 DEF Broken
    <3>5. JudgedBy(G, k)
      BY <1>1, <3>1, <3>3, <3>4 DEF JudgedBy
    <3> QED
      BY <3>1, <3>5
  <2> QED
    BY <2>1, <2>2
<1> QED
  BY <1>6, <1>8, <1>9 DEF CertsInv, Noticed

\* the facts of a request that only reads
LEMMA SameFacts ==
  ASSUME CertsInv, NEW q \in Requests, NEW k \in CertRequest,
         cerequest' = [cerequest EXCEPT ![q] = k], cefacts' = cefacts,
         cepolicy' = cepolicy, cefit' = cefit, cereviews' = cereviews,
         k.pc \in {"policy", "reviews"} => Certs!Running(q), JudgedBy(cefacts[q], k)
  PROVE  CertsInv'
<1>1. PICK F \in Truths : F = cefacts[q]
  BY DEF CertsInv, CertsTyped
<1>2. cefacts' = [cefacts EXCEPT ![q] = F]
  BY <1>1 DEF CertsInv, CertsTyped
<1>3. k.pc \in {"policy", "reviews"} => NotedOf(F)
  BY <1>1 DEF CertsInv, Noticed
<1>4. JudgedBy(F, k)
  BY <1>1
<1> QED
  BY <1>2, <1>3, <1>4, RequestMoves

LEMMA PolicyRead ==
  ASSUME CertsInv, NEW q \in Requests, Certs!ReadPolicy(q)
  PROVE  CertsInv'
<1>1. PICK c : c \in CertRequest /\ c = cerequest[q] /\ c.pc = "start"
  BY DEF CertsInv, CertsTyped, Certs!ReadPolicy
<1>2. cerequest \in [Requests -> CertRequest] /\ cefacts \in [Requests -> Truths]
  BY DEF CertsInv, CertsTyped
<1>3. cepolicy' = cepolicy /\ cefit' = cefit /\ cereviews' = cereviews
  BY DEF Certs!ReadPolicy
<1>4. CASE cepolicy.active
  <2>1. PICK g : g = [c EXCEPT !.pc = "policy"]
    OBVIOUS
  <2>2. PICK k : k = [g EXCEPT !.rules = cepolicy.rules]
    OBVIOUS
  <2>3. k \in CertRequest /\ k.pc = "policy"
    BY <1>1, <2>1, <2>2 DEF CertRequest, CertsInv, CertsTyped
  <2>4. cerequest' = [cerequest EXCEPT ![q] = k]
    BY <1>1, <1>2, <1>4, <2>1, <2>2 DEF Certs!ReadPolicy
  <2>5. PICK F : F = [r \in Scope |-> [status |-> cefacts[q][r].status \cup {Certs!InForce(r)},
                                       fit |-> cefacts[q][r].fit \cup {cefit[r]}]]
    OBVIOUS
  <2>6. F \in Truths
    <3>1. \A r \in Scope : cefacts[q][r] \in [status : SUBSET Known, fit : SUBSET BOOLEAN]
      BY <1>2 DEF Truths
    <3>2. \A r \in Scope : Certs!InForce(r) \in Known /\ cefit[r] \in BOOLEAN
      BY StatusInForce DEF CertsInv, CertsTyped
    <3>3. \A r \in Scope : /\ cefacts[q][r].status \cup {Certs!InForce(r)} \in SUBSET Known
                           /\ cefacts[q][r].fit \cup {cefit[r]} \in SUBSET BOOLEAN
      BY <3>1, <3>2
    <3> QED
      BY <2>5, <3>3 DEF Truths
  <2>7. cefacts' = [cefacts EXCEPT ![q] = F]
    <3>1. \A r \in Scope : Certs!AllInForce[r] = Certs!InForce(r)
      BY DEF Certs!AllInForce
    <3>2. cefacts' = [p \in Requests |-> IF p = q THEN F ELSE cefacts[p]]
      BY <1>4, <2>5, <3>1 DEF Certs!ReadPolicy, Certs!Noted
    <3> QED
      BY <1>2, <3>2
  <2>8. NotedOf(F)
    BY <2>5 DEF NotedOf
  <2>9. JudgedBy(F, k)
    BY <2>3 DEF JudgedBy
  <2> QED
    BY <1>3, <2>3, <2>4, <2>6, <2>7, <2>8, <2>9, RequestMoves
<1>5. CASE ~cepolicy.active
  <2>1. PICK g : g = [c EXCEPT !.pc = "refused"]
    OBVIOUS
  <2>2. PICK k : k = [g EXCEPT !.rules = {}]
    OBVIOUS
  <2>3. k \in CertRequest /\ k.pc = "refused"
    BY <1>1, <2>1, <2>2 DEF CertRequest
  <2>4. cerequest' = [cerequest EXCEPT ![q] = k]
    BY <1>1, <1>2, <1>5, <2>1, <2>2 DEF Certs!ReadPolicy
  <2>5. cefacts' = cefacts
    <3>1. cefacts' = [p \in Requests |-> cefacts[p]]
      BY <1>5 DEF Certs!ReadPolicy, Certs!Noted
    <3> QED
      BY <1>2, <3>1
  <2>6. JudgedBy(cefacts[q], k)
    BY <2>3 DEF JudgedBy
  <2> QED
    BY <1>3, <2>3, <2>4, <2>5, <2>6, SameFacts
<1> QED
  BY <1>4, <1>5

LEMMA RecordsRead ==
  ASSUME CertsInv, NEW q \in Requests, Certs!ReadRecords(q)
  PROVE  CertsInv'
<1>1. PICK c : c \in CertRequest /\ c = cerequest[q] /\ c.pc = "policy"
  BY DEF CertsInv, CertsTyped, Certs!ReadRecords
<1>2. cerequest \in [Requests -> CertRequest] /\ NotedOf(cefacts[q])
  BY <1>1 DEF CertsInv, CertsTyped, Noticed, Certs!Running
<1>3. PICK e \in BOOLEAN : e <=> Scope # {} /\ ("fit" \in c.rules => \A r \in Scope : cefit[r])
  OBVIOUS
<1>4. PICK k \in CertRequest : /\ cerequest' = [cerequest EXCEPT ![q] = k]
                               /\ k.pc = "reviews" /\ k.rules = c.rules /\ k.todo = Scope
                               /\ k.eligible <=> e
  <2>1. PICK f : f = [c EXCEPT !.pc = "reviews"]
    OBVIOUS
  <2>2. PICK g : g = [f EXCEPT !.records = Scope]
    OBVIOUS
  <2>3. PICK h : h = [g EXCEPT !.todo = Scope]
    OBVIOUS
  <2>4. PICK k : k = [h EXCEPT !.eligible = Scope # {} /\ ("fit" \in c.rules => \A r \in Scope : cefit[r])]
    OBVIOUS
  <2>5. h \in CertRequest /\ h.pc = "reviews" /\ h.rules = c.rules /\ h.todo = Scope
    BY <1>1, <2>1, <2>2, <2>3 DEF CertRequest
  <2>6. k \in CertRequest /\ k.pc = "reviews" /\ k.rules = c.rules /\ k.todo = Scope /\ (k.eligible <=> e)
    BY <1>3, <2>4, <2>5 DEF CertRequest
  <2>7. cerequest' = [cerequest EXCEPT ![q] = k]
    BY <1>1, <1>2, <2>1, <2>2, <2>3, <2>4 DEF Certs!ReadRecords
  <2> QED
    BY <2>6, <2>7
<1>5. e => Held(cefacts[q], c.rules, Scope)
  <2>1. ASSUME e, NEW r \in Scope, "fit" \in c.rules PROVE TRUE \in cefacts[q][r].fit
    <3>1. cefit[r] \in BOOLEAN /\ cefit[r]
      BY <1>3, <2>1 DEF CertsInv, CertsTyped
    <3> QED
      BY <1>2, <3>1 DEF NotedOf
  <2> QED
    BY <2>1 DEF Held
<1>6. ~e => Broken(cefacts[q], c.rules)
  <2>1. ASSUME NEW r \in Scope, "fit" \in c.rules, ~cefit[r] PROVE FALSE \in cefacts[q][r].fit
    <3>1. cefit[r] \in BOOLEAN /\ ~cefit[r]
      BY <2>1 DEF CertsInv, CertsTyped
    <3> QED
      BY <1>2, <3>1 DEF NotedOf
  <2> QED
    BY <1>3, <2>1 DEF Broken
<1>7. JudgedBy(cefacts[q], k)
  BY <1>4, <1>5, <1>6 DEF JudgedBy
<1>8. Certs!Running(q)
  BY <1>1 DEF Certs!Running
<1>9. cefacts' = cefacts /\ cepolicy' = cepolicy /\ cefit' = cefit /\ cereviews' = cereviews
  BY DEF Certs!ReadRecords
<1> QED
  BY <1>4, <1>7, <1>8, <1>9, SameFacts

LEMMA ReviewRead ==
  ASSUME CertsInv, NEW q \in Requests, Certs!ReadReview(q)
  PROVE  CertsInv'
<1>1. PICK r \in cerequest[q].todo : /\ cerequest[q].pc = "reviews"
         /\ cerequest' = [cerequest EXCEPT ![q].todo = @ \ {r},
                            ![q].eligible = @ /\ Certs!Passes(cerequest[q].rules, Certs!Status(r))]
  BY DEF Certs!ReadReview
<1>2. PICK c : c \in CertRequest /\ c = cerequest[q] /\ c.pc = "reviews"
  BY <1>1 DEF CertsInv, CertsTyped
<1>3. /\ cerequest \in [Requests -> CertRequest] /\ cereviews \in Seq(Entry) /\ r \in Scope
      /\ NotedOf(cefacts[q]) /\ JudgedBy(cefacts[q], c) /\ r \in c.todo
  BY <1>1, <1>2 DEF CertsInv, CertsTyped, Noticed, Certs!Running, CertRequest
<1>4. PICK s : s = Certs!Status(r) /\ s \in cefacts[q][r].status
  BY <1>3, StatusInForce DEF NotedOf
<1>5. PICK k \in CertRequest : /\ cerequest' = [cerequest EXCEPT ![q] = k]
                               /\ k.pc = "reviews" /\ k.rules = c.rules /\ k.todo = c.todo \ {r}
                               /\ k.eligible <=> c.eligible /\ Certs!Passes(c.rules, s)
  <2>1. PICK g : g = [c EXCEPT !.todo = @ \ {r}]
    OBVIOUS
  <2>2. PICK k : k = [g EXCEPT !.eligible = @ /\ Certs!Passes(c.rules, Certs!Status(r))]
    OBVIOUS
  <2>3. /\ g \in CertRequest /\ g.pc = "reviews" /\ g.rules = c.rules
        /\ g.todo = c.todo \ {r} /\ g.eligible = c.eligible
    BY <1>2, <2>1 DEF CertRequest
  <2>4. k \in CertRequest /\ k.pc = "reviews" /\ k.rules = c.rules /\ k.todo = c.todo \ {r}
        /\ (k.eligible <=> c.eligible /\ Certs!Passes(c.rules, s))
    BY <1>4, <2>2, <2>3 DEF CertRequest
  <2>5. cerequest' = [cerequest EXCEPT ![q] = k]
    BY <1>1, <1>2, <1>3, <2>1, <2>2
  <2> QED
    BY <2>4, <2>5
<1>6. JudgedBy(cefacts[q], k)
  <2>1. ASSUME k.eligible PROVE Held(cefacts[q], k.rules, k.todo)
    <3>1. Held(cefacts[q], c.rules, c.todo) /\ Certs!Passes(c.rules, s)
      BY <1>2, <1>3, <1>5, <2>1 DEF JudgedBy
    <3> QED
      BY <1>4, <1>5, <3>1 DEF Held
  <2>2. ASSUME ~k.eligible PROVE Broken(cefacts[q], k.rules)
    <3>1. CASE ~c.eligible
      BY <1>2, <1>3, <1>5, <3>1 DEF JudgedBy
    <3>2. CASE ~Certs!Passes(c.rules, s)
      BY <1>3, <1>4, <1>5, <3>2 DEF Broken
    <3> QED
      BY <1>5, <2>2, <3>1, <3>2
  <2> QED
    BY <1>5, <2>1, <2>2 DEF JudgedBy
<1>7. Certs!Running(q)
  BY <1>1 DEF Certs!Running
<1>8. cefacts' = cefacts /\ cepolicy' = cepolicy /\ cefit' = cefit /\ cereviews' = cereviews
  BY DEF Certs!ReadReview
<1> QED
  BY <1>5, <1>6, <1>7, <1>8, SameFacts

LEMMA CertEnds ==
  ASSUME CertsInv, NEW q \in Requests, Certs!Issue(q) \/ Certs!Lost(q)
  PROVE  CertsInv'
<1>1. PICK c : c \in CertRequest /\ c = cerequest[q]
  BY DEF CertsInv, CertsTyped
<1>2. cerequest \in [Requests -> CertRequest] /\ JudgedBy(cefacts[q], c)
  BY <1>1 DEF CertsInv, CertsTyped
<1>3. cefacts' = cefacts /\ cepolicy' = cepolicy /\ cefit' = cefit /\ cereviews' = cereviews
  BY DEF Certs!Issue, Certs!Lost
<1>4. CASE Certs!Issue(q)
  <2>1. PICK k : k = [c EXCEPT !.pc = "issued"]
    OBVIOUS
  <2>2. k \in CertRequest /\ k.pc = "issued" /\ k.rules = c.rules /\ k.todo = c.todo /\ k.eligible = c.eligible
    BY <1>1, <2>1 DEF CertRequest
  <2>3. cerequest' = [cerequest EXCEPT ![q] = k] /\ c.pc = "reviews" /\ c.todo = {}
    BY <1>1, <1>2, <1>4, <2>1 DEF Certs!Issue
  <2>4. JudgedBy(cefacts[q], k)
    BY <1>2, <2>2, <2>3 DEF JudgedBy
  <2> QED
    BY <1>3, <2>2, <2>3, <2>4, SameFacts
<1>5. CASE Certs!Lost(q)
  <2>1. PICK k : k = [c EXCEPT !.pc = "refused"]
    OBVIOUS
  <2>2. k \in CertRequest /\ k.pc = "refused"
    BY <1>1, <2>1 DEF CertRequest
  <2>3. cerequest' = [cerequest EXCEPT ![q] = k]
    BY <1>1, <1>2, <1>5, <2>1 DEF Certs!Lost
  <2>4. JudgedBy(cefacts[q], k)
    BY <2>2 DEF JudgedBy
  <2> QED
    BY <1>3, <2>2, <2>3, <2>4, SameFacts
<1> QED
  BY <1>4, <1>5

LEMMA PeopleChange ==
  ASSUME CertsInv,
         Certs!CreateReview \/ Certs!UpdateReview \/ Certs!DeleteReview \/ Certs!Rescan \/ Certs!UpsertPolicy
  PROVE  CertsInv'
<1>0. cereviews \in Seq(Entry) /\ cefit \in [Scope -> BOOLEAN] /\ cepolicy.rules \subseteq Certs!Rules
  BY DEF CertsInv, CertsTyped
<1>1. ASSUME NEW i \in DOMAIN cereviews
      PROVE  cereviews[i] \in Entry /\ Certs!RemoveAt(cereviews, i) \in Seq(Entry)
  <2>1. PICK t : t = SubSeq(cereviews, 1, i - 1) \o SubSeq(cereviews, i + 1, Len(cereviews))
    OBVIOUS
  <2>2. t \in Seq(Entry)
    BY <1>0, <2>1, ItemsRemoved
  <2>3. Certs!RemoveAt(cereviews, i) = t
    BY <2>1 DEF Certs!RemoveAt
  <2> QED
    BY <1>0, <2>2, <2>3
<1>2. CASE Certs!CreateReview
  <2>1. PICK r \in Scope : cereviews' = Append(cereviews, [record |-> r, status |-> "pending"])
    BY <1>2 DEF Certs!CreateReview
  <2>2. PICK e \in Entry : e = [record |-> r, status |-> "pending"]
    BY DEF Entry, Certs!Statuses
  <2>3. cereviews' \in Seq(Entry)
    BY <1>0, <2>1, <2>2, ItemsAppend
  <2>4. cerequest' = cerequest /\ cepolicy' = cepolicy /\ cefit' = cefit /\ Certs!Observed
    BY <1>2 DEF Certs!CreateReview, Certs!Change
  <2> QED
    BY <1>0, <2>3, <2>4, FactsGrow
<1>3. CASE Certs!UpdateReview
  <2>1. PICK i \in DOMAIN cereviews, s \in Certs!Statuses :
          cereviews' = Append(Certs!RemoveAt(cereviews, i), [cereviews[i] EXCEPT !.status = s])
    BY <1>3 DEF Certs!UpdateReview
  <2>2. PICK e \in Entry : e = [cereviews[i] EXCEPT !.status = s]
    BY <1>1 DEF Entry
  <2>3. PICK t \in Seq(Entry) : t = Certs!RemoveAt(cereviews, i)
    BY <1>1
  <2>4. cereviews' \in Seq(Entry)
    BY <2>1, <2>2, <2>3, ItemsAppend
  <2>5. cerequest' = cerequest /\ cepolicy' = cepolicy /\ cefit' = cefit /\ Certs!Observed
    BY <1>3 DEF Certs!UpdateReview, Certs!Change
  <2> QED
    BY <1>0, <2>4, <2>5, FactsGrow
<1>4. CASE Certs!DeleteReview
  <2>1. cereviews' \in Seq(Entry)
    BY <1>1, <1>4 DEF Certs!DeleteReview
  <2>2. cerequest' = cerequest /\ cepolicy' = cepolicy /\ cefit' = cefit /\ Certs!Observed
    BY <1>4 DEF Certs!DeleteReview, Certs!Change
  <2> QED
    BY <1>0, <2>1, <2>2, FactsGrow
<1>5. CASE Certs!Rescan
  <2>1. cefit' \in [Scope -> BOOLEAN]
    BY <1>0, <1>5 DEF Certs!Rescan
  <2>2. cerequest' = cerequest /\ cepolicy' = cepolicy /\ cereviews' = cereviews /\ Certs!Observed
    BY <1>5 DEF Certs!Rescan, Certs!Change
  <2> QED
    BY <1>0, <2>1, <2>2, FactsGrow
<1>6. CASE Certs!UpsertPolicy
  <2>1. /\ cepolicy'.rules \subseteq Certs!Rules /\ cerequest' = cerequest /\ cefit' = cefit
        /\ cereviews' = cereviews /\ cefacts' = cefacts
    BY <1>6 DEF Certs!UpsertPolicy, Certs!Change, Certs!Rules
  <2>2. \A r \in Scope : Certs!InForce(r)' = Certs!InForce(r)
    BY <2>1 DEF Certs!InForce
  <2>3. CertsTyped'
    BY <2>1 DEF CertsInv, CertsTyped
  <2>4. Noticed'
    BY <2>1, <2>2 DEF CertsInv, Noticed, NotedOf, Certs!Running
  <2>5. \A p \in Requests : JudgedBy(cefacts[p], cerequest[p])'
    BY <2>1 DEF CertsInv
  <2> QED
    BY <2>3, <2>4, <2>5 DEF CertsInv
<1> QED
  BY <1>2, <1>3, <1>4, <1>5, <1>6

LEMMA CertsStep == CertsInv /\ [Certs!Next]_ceVars => CertsInv'
<1> SUFFICES ASSUME CertsInv, [Certs!Next]_ceVars PROVE CertsInv'
  OBVIOUS
<1>1. CASE \E q \in Requests : \/ Certs!ReadPolicy(q) \/ Certs!ReadRecords(q) \/ Certs!ReadReview(q)
                               \/ Certs!Issue(q) \/ Certs!Lost(q)
  BY <1>1, PolicyRead, RecordsRead, ReviewRead, CertEnds
<1>2. CASE Certs!CreateReview \/ Certs!UpdateReview \/ Certs!DeleteReview \/ Certs!Rescan \/ Certs!UpsertPolicy
  BY <1>2, PeopleChange
<1>3. CASE UNCHANGED ceVars
  <2>1. /\ cepolicy' = cepolicy /\ cerequest' = cerequest /\ cefit' = cefit
        /\ cereviews' = cereviews /\ cefacts' = cefacts
    BY <1>3 DEF ceVars
  <2>2. \A r \in Scope : Certs!InForce(r)' = Certs!InForce(r)
    BY <2>1 DEF Certs!InForce
  <2>3. CertsTyped' /\ Noticed'
    BY <2>1, <2>2 DEF CertsInv, CertsTyped, Noticed, NotedOf, Certs!Running
  <2> QED
    BY <2>1, <2>3 DEF CertsInv
<1> QED
  BY <1>1, <1>2, <1>3 DEF Certs!Next

LEMMA CertsHold == CertsInv => Certs!CertifiedFacts
<1> SUFFICES ASSUME CertsInv, NEW q \in Requests, cerequest[q].pc = "issued"
             PROVE  LET ok(r) == {s \in cefacts[q][r].status : Certs!Passes(cerequest[q].rules, s)}
                        needsFit == "fit" \in cerequest[q].rules IN
                    IF cerequest[q].eligible
                    THEN \A r \in Scope : ok(r) # {} /\ (needsFit => TRUE \in cefacts[q][r].fit)
                    ELSE \/ Scope = {}
                         \/ \E r \in Scope : \/ ok(r) # cefacts[q][r].status
                                             \/ needsFit /\ FALSE \in cefacts[q][r].fit
  BY DEF Certs!CertifiedFacts
<1>1. PICK k, F : k = cerequest[q] /\ F = cefacts[q] /\ JudgedBy(F, k) /\ k \in CertRequest
  BY DEF CertsInv, CertsTyped
<1>2. CASE k.eligible
  <2>1. Held(F, k.rules, {})
    BY <1>1, <1>2 DEF JudgedBy
  <2>2. \A r \in Scope : \E s \in F[r].status : Certs!Passes(k.rules, s)
    BY <2>1 DEF Held
  <2>3. \A r \in Scope : "fit" \in k.rules => TRUE \in F[r].fit
    BY <2>1 DEF Held
  <2>4. \A r \in Scope : {s \in F[r].status : Certs!Passes(k.rules, s)} # {}
    BY <2>2
  <2> QED
    BY <1>1, <1>2, <2>3, <2>4
<1>3. CASE ~k.eligible
  <2>1. Broken(F, k.rules)
    BY <1>1, <1>3 DEF JudgedBy
  <2>2. ASSUME NEW r \in Scope, NEW s \in F[r].status, ~Certs!Passes(k.rules, s)
        PROVE  {x \in F[r].status : Certs!Passes(k.rules, x)} # F[r].status
    BY <2>2
  <2>3. \/ Scope = {}
        \/ \E r \in Scope : \/ {x \in F[r].status : Certs!Passes(k.rules, x)} # F[r].status
                            \/ "fit" \in k.rules /\ FALSE \in F[r].fit
    BY <2>1, <2>2 DEF Broken
  <2> QED
    BY <1>1, <1>3, <2>3
<1> QED
  BY <1>2, <1>3

LEMMA CertsMoves == [Next]_vars => [Certs!Next]_ceVars
  BY DEF Next, vars, PolicyKeeps, RecallsKeeps, ResultsKeeps, LedgerKeeps, WitnessesKeeps, CapsuleKeeps,
         GateKeeps, ExportsKeeps, NoticesKeeps

\* A certificate was earned at some moment of its request, rule by rule and record by record, and
\* a refusal names a rule that was broken at some moment, whatever people change meanwhile.
THEOREM CertificatesStand == Spec => []Certs!CertifiedFacts
<1>1. Init => CertsInv
  BY CertsInit DEF Init
<1>2. CertsInv /\ [Next]_vars => CertsInv'
  BY CertsStep, CertsMoves
<1> QED
  BY <1>1, <1>2, CertsHold, PTL DEF Spec

-------------------------------------------------------------------------------
(* Witness rounds.  Two sets of hashes with the same root are the same: what is   *)
(* in a level of the tree is known from the level above it, and a leaf is not a  *)
(* node.                                                                         *)

LEMMA LevelItems ==
  ASSUME NEW V, NEW s \in Seq(V), s # <<>>
  PROVE  /\ Witnesses!Level(s) \in Seq(V \X V) /\ Witnesses!Level(s) # <<>>
         /\ Len(s) # 1 => Len(Witnesses!Level(s)) < Len(s)
         /\ \A x \in Items(Witnesses!Level(s)) : x \in Items(s) \X Items(s)
         /\ \A y \in Items(s) : \E x \in Items(Witnesses!Level(s)) : y = x[1] \/ y = x[2]
<1>1. PICK n \in Nat \ {0} : n = Len(s) /\ DOMAIN s = 1..n /\ \A i \in 1..n : s[i] \in V
  BY LenProperties, EmptySeq
<1>2. PICK m \in Nat : m = (n + 1) \div 2
  OBVIOUS
<1>3. m >= 1 /\ 2 * m <= n + 1 /\ n <= 2 * m /\ (n # 1 => m < n)
  BY <1>2
<1>4. PICK second : second = [i \in 1..m |-> IF 2 * i <= n THEN 2 * i ELSE 2 * i - 1]
  OBVIOUS
<1>5. PICK t : t = Witnesses!Level(s) /\ t = [i \in 1..m |-> <<s[2 * i - 1], s[second[i]]>>]
  BY <1>1, <1>2, <1>4 DEF Witnesses!Level
<1>6. \A i \in 1..m : 2 * i - 1 \in 1..n /\ second[i] \in 1..n
  BY <1>3, <1>4
<1>7. DOMAIN t = 1..m /\ \A i \in 1..m : t[i] = <<s[2 * i - 1], s[second[i]]>>
  BY <1>5
<1>8. t \in [1..m -> V \X V]
  BY <1>1, <1>5, <1>6
<1>9. t \in Seq(V \X V) /\ Len(t) = m
  BY <1>8, SeqDef, LenProperties
<1>10. ASSUME NEW x \in Items(t) PROVE x \in Items(s) \X Items(s)
  <2>1. PICK i \in 1..m : x = <<s[2 * i - 1], s[second[i]]>>
    BY <1>7, <1>10 DEF Items
  <2>2. s[2 * i - 1] \in Items(s) /\ s[second[i]] \in Items(s)
    BY <1>1, <1>6 DEF Items
  <2> QED
    BY <2>1, <2>2
<1>11. ASSUME NEW y \in Items(s) PROVE \E x \in Items(t) : y = x[1] \/ y = x[2]
  <2>1. PICK j \in 1..n : y = s[j]
    BY <1>1, <1>11 DEF Items
  <2>2. PICK i \in 1..m : j = 2 * i - 1 \/ j = 2 * i
    <3>1. PICK i \in Nat : i = (j + 1) \div 2
      OBVIOUS
    <3>2. i \in 1..m /\ (j = 2 * i - 1 \/ j = 2 * i)
      BY <1>2, <3>1
    <3> QED
      BY <3>2
  <2>3. t[i] \in Items(t) /\ t[i][1] = s[2 * i - 1] /\ t[i][2] = s[second[i]]
    BY <1>7 DEF Items
  <2>4. j = 2 * i => second[i] = j
    BY <1>4
  <2> QED
    BY <2>1, <2>2, <2>3, <2>4
<1>12. t # <<>>
  BY <1>3, <1>9
<1> QED
  BY <1>1, <1>3, <1>5, <1>9, <1>10, <1>11, <1>12

LEMMA LevelBelow ==
  ASSUME NEW V, NEW W, NEW s \in Seq(V), NEW t \in Seq(W), s # <<>>, t # <<>>,
         Items(Witnesses!Level(s)) = Items(Witnesses!Level(t))
  PROVE  Items(s) = Items(t)
<1>1. PICK L : L = Items(Witnesses!Level(s)) /\ L = Items(Witnesses!Level(t))
  OBVIOUS
<1>2. /\ \A x \in L : x \in Items(s) \X Items(s)
      /\ \A y \in Items(s) : \E x \in L : y = x[1] \/ y = x[2]
  BY <1>1, LevelItems
<1>3. /\ \A x \in L : x \in Items(t) \X Items(t)
      /\ \A y \in Items(t) : \E x \in L : y = x[1] \/ y = x[2]
  BY <1>1, LevelItems
<1>4. \A x \in L : x[1] \in Items(s) /\ x[2] \in Items(s)
  BY <1>2
<1>5. \A x \in L : x[1] \in Items(t) /\ x[2] \in Items(t)
  BY <1>3
<1>6. \A y \in Items(s) : y \in Items(t)
  BY <1>2, <1>5
<1>7. \A y \in Items(t) : y \in Items(s)
  BY <1>3, <1>4
<1> QED
  BY <1>6, <1>7

\* the levels of the tree over s, as Fold builds them
Tower(K, s, n) == /\ K[0] = s
                  /\ \A i \in 1..n : K[i] = IF Len(K[i - 1]) = 1 THEN K[i - 1] ELSE Witnesses!Level(K[i - 1])

LEMMA TowerExists ==
  ASSUME NEW V, NEW s \in Seq(V), NEW n \in Nat, n = Len(s)
  PROVE  \E K : Tower(K, s, n) /\ Witnesses!Fold(s) = K[n][1]
<1> DEFINE Next1(x) == IF Len(x) = 1 THEN x ELSE Witnesses!Level(x)
<1> DEFINE Built(f, k) == f = [i \in 0..k |-> IF i = 0 THEN s ELSE Next1(f[i - 1])]
<1> DEFINE P == {k \in Nat : \E f : Built(f, k)}
<1>1. 0 \in P
  <2>1. PICK f : f = [i \in 0..0 |-> s]
    OBVIOUS
  <2>2. Built(f, 0)
    BY <2>1
  <2> QED
    BY <2>2
<1>2. ASSUME NEW k \in P PROVE k + 1 \in P
  <2>1. PICK f : Built(f, k)
    OBVIOUS
  <2>2. PICK g : g = [i \in 0..(k + 1) |-> IF i <= k THEN f[i] ELSE Next1(f[k])]
    OBVIOUS
  <2>3. \A i \in 0..(k + 1) : g[i] = IF i = 0 THEN s ELSE Next1(g[i - 1])
    <3>1. ASSUME NEW i \in 0..(k + 1) PROVE g[i] = IF i = 0 THEN s ELSE Next1(g[i - 1])
      <4>1. CASE i = 0
        <5>1. g[0] = f[0] /\ f[0] = s
          BY <2>1, <2>2
        <5> QED
          BY <4>1, <5>1
      <4>2. CASE i # 0 /\ i <= k
        <5>1. g[i] = f[i] /\ g[i - 1] = f[i - 1]
          BY <2>2, <4>2
        <5>2. f[i] = Next1(f[i - 1])
          <6> HIDE DEF Next1
          <6> QED BY <2>1, <4>2
        <5> QED
          BY <4>2, <5>1, <5>2
      <4>3. CASE i = k + 1
        <5>1. g[i] = Next1(f[k]) /\ g[i - 1] = f[k]
          <6> HIDE DEF Next1
          <6> QED BY <2>2, <4>3
        <5> QED
          BY <4>3, <5>1
      <4> QED
        BY <4>1, <4>2, <4>3
    <3> QED
      BY <3>1
  <2>4. Built(g, k + 1)
    <3> HIDE DEF Next1
    <3> QED BY <2>2, <2>3
  <2> QED
    BY <2>4
<1>3. P = Nat
  <2> HIDE DEF P
  <2> QED
    BY <1>1, <1>2, NatSetInduction, P \in SUBSET Nat DEF P
<1>4. \E f : Built(f, n)
  BY <1>3
<1> DEFINE K == CHOOSE f : f = [i \in 0..Len(s) |->
                    IF i = 0 THEN s ELSE IF Len(f[i - 1]) = 1 THEN f[i - 1] ELSE Witnesses!Level(f[i - 1])]
<1>5. K = [i \in 0..n |-> IF i = 0 THEN s ELSE IF Len(K[i - 1]) = 1 THEN K[i - 1] ELSE Witnesses!Level(K[i - 1])]
  BY <1>4
<1>6. Witnesses!Fold(s) = K[n][1]
  BY DEF Witnesses!Fold
<1>7. Tower(K, s, n)
  <2> HIDE DEF K
  <2>1. 0 \in 0..n /\ \A i \in 1..n : i \in 0..n /\ i # 0
    OBVIOUS
  <2>2. K[0] = s
    BY <1>5, <2>1
  <2>3. ASSUME NEW i \in 1..n
        PROVE  K[i] = IF Len(K[i - 1]) = 1 THEN K[i - 1] ELSE Witnesses!Level(K[i - 1])
    BY <1>5, <2>1
  <2> QED
    BY <2>2, <2>3 DEF Tower
<1> QED
  BY <1>6, <1>7

Filled(K, n) == \A i \in 0..n : \E W : K[i] \in Seq(W) /\ K[i] # <<>>

\* a level has items, and the one on top a single one
LEMMA TowerNarrows ==
  ASSUME NEW V, NEW s \in Seq(V), s # <<>>, NEW n \in Nat, n = Len(s), NEW K, Tower(K, s, n)
  PROVE  Filled(K, n) /\ Len(K[n]) = 1
<1> DEFINE Narrow(i) == /\ \E W : K[i] \in Seq(W) /\ K[i] # <<>>
                        /\ Len(K[i]) \in Nat \ {0} /\ (Len(K[i]) = 1 \/ Len(K[i]) + i <= n)
<1> DEFINE P == {i \in Nat : i <= n => Narrow(i)}
<1>1. 0 \in P
  <2>1. K[0] = s /\ Len(s) \in Nat \ {0}
    BY EmptySeq DEF Tower
  <2> QED
    BY <2>1
<1>2. ASSUME NEW i \in P PROVE i + 1 \in P
  <2> HIDE DEF Narrow
  <2> SUFFICES ASSUME i + 1 <= n PROVE Narrow(i + 1)
    OBVIOUS
  <2> USE DEF Narrow
  <2>1. PICK k, W : k = K[i] /\ k \in Seq(W) /\ k # <<>> /\ Len(k) \in Nat \ {0} /\ (Len(k) = 1 \/ Len(k) + i <= n)
    OBVIOUS
  <2>2. PICK j \in 1..n : j = i + 1 /\ j - 1 = i
    OBVIOUS
  <2>3. K[j] = IF Len(k) = 1 THEN k ELSE Witnesses!Level(k)
    BY <2>1, <2>2 DEF Tower
  <2>4. CASE Len(k) = 1
    BY <2>1, <2>2, <2>3, <2>4
  <2>5. CASE Len(k) # 1
    <3>1. PICK x : x = Witnesses!Level(k) /\ x \in Seq(W \X W) /\ x # <<>> /\ Len(x) < Len(k)
      BY <2>1, <2>5, LevelItems
    <3>2. Len(x) \in Nat \ {0}
      BY <3>1, EmptySeq
    <3>3. K[i + 1] = x /\ Len(x) + (i + 1) <= n
      BY <2>1, <2>2, <2>3, <2>5, <3>1, <3>2
    <3> QED
      BY <3>1, <3>2, <3>3
  <2> QED
    BY <2>4, <2>5
<1>3. P = Nat
  <2> HIDE DEF P
  <2> QED
    BY <1>1, <1>2, NatSetInduction, P \in SUBSET Nat DEF P
<1>4. \A i \in 0..n : Narrow(i)
  <2>1. \A i \in Nat : i <= n => Narrow(i)
    BY <1>3
  <2> HIDE DEF Narrow
  <2> QED
    BY <2>1
<1>5. Filled(K, n)
  <2>1. ASSUME NEW i \in 0..n PROVE \E W : K[i] \in Seq(W) /\ K[i] # <<>>
    BY <1>4
  <2> HIDE DEF Narrow
  <2> QED
    BY <2>1 DEF Filled
<1>6. PICK k : k = Len(K[n]) /\ k \in Nat \ {0} /\ (k = 1 \/ k + n <= n)
  <2>1. Narrow(n)
    <3> HIDE DEF Narrow
    <3> QED
      BY <1>4, n \in 0..n
  <2> QED
    BY <2>1
<1> QED
  BY <1>5, <1>6

\* a level is the sequence itself or lies above another one
OnLevels(K, s, n) == \A b \in 0..n : K[b] = s \/ \E c \in 0..n : K[b] = Witnesses!Level(K[c])

LEMMA TowerLevels ==
  ASSUME NEW s, NEW n \in Nat, NEW K, Tower(K, s, n)
  PROVE  OnLevels(K, s, n)
<1> DEFINE Above(i) == K[i] = s \/ \E c \in 0..n : K[i] = Witnesses!Level(K[c])
<1> DEFINE P == {i \in Nat : i <= n => Above(i)}
<1>1. 0 \in P
  BY DEF Tower
<1>2. ASSUME NEW i \in P PROVE i + 1 \in P
  <2> SUFFICES ASSUME i + 1 <= n PROVE Above(i + 1)
    OBVIOUS
  <2>1. PICK j \in 1..n : j = i + 1 /\ j - 1 = i /\ i \in 0..n
    OBVIOUS
  <2>2. K[j] = IF Len(K[i]) = 1 THEN K[i] ELSE Witnesses!Level(K[i])
    BY <2>1 DEF Tower
  <2>3. Above(i)
    OBVIOUS
  <2> QED
    BY <2>1, <2>2, <2>3
<1>3. P = Nat
  <2> HIDE DEF P
  <2> QED
    BY <1>1, <1>2, NatSetInduction, P \in SUBSET Nat DEF P
<1> QED
  BY <1>3 DEF OnLevels

Leafy(s) == \A x \in Items(s) : Len(x) = 1

\* the tree over leaves
Tree(s, n, K) == (\E V : s \in Seq(V)) /\ s # <<>> /\ Leafy(s) /\ n = Len(s) /\ Tower(K, s, n)

SameTop(K, n, M, m) == Items(K[n]) = Items(M[m])

\* two trees that share the items of a level share their leaves
LEMMA SameLeaves ==
  ASSUME NEW s, NEW n \in Nat, NEW K, Tree(s, n, K), NEW t, NEW m \in Nat, NEW M, Tree(t, m, M),
         SameTop(K, n, M, m)
  PROVE  Items(s) = Items(t)
<1> USE DEF SameTop
<1>0. /\ Leafy(s) /\ Tower(K, s, n) /\ n = Len(s) /\ (\E V : s \in Seq(V)) /\ s # <<>>
      /\ Leafy(t) /\ Tower(M, t, m) /\ m = Len(t) /\ (\E V : t \in Seq(V)) /\ t # <<>>
  BY DEF Tree
<1> DEFINE Same(i) == \A b \in 0..m : Items(K[i]) = Items(M[b]) => Items(s) = Items(t)
<1> DEFINE P == {i \in Nat : i <= n => Same(i)}
<1>1. /\ \A i \in 0..n : \E X : K[i] \in Seq(X) /\ K[i] # <<>>
      /\ \A i \in 0..m : \E X : M[i] \in Seq(X) /\ M[i] # <<>>
  <2>1. PICK V : s \in Seq(V)
    BY <1>0
  <2>2. PICK W : t \in Seq(W)
    BY <1>0
  <2>3. Filled(K, n)
    BY <1>0, <2>1, TowerNarrows
  <2>4. Filled(M, m)
    BY <1>0, <2>2, TowerNarrows
  <2> QED
    BY <2>3, <2>4 DEF Filled
<1>2. ASSUME NEW X, NEW y \in Seq(X), y # <<>>, NEW z, Leafy(z), Items(z) = Items(Witnesses!Level(y)) PROVE FALSE
  <2>1. PICK l : /\ l = Witnesses!Level(y) /\ l \in Seq(X \X X) /\ l # <<>>
                 /\ \A x \in Items(l) : x \in Items(y) \X Items(y)
    BY <1>2, LevelItems
  <2>2. PICK x : x \in Items(l)
    BY <2>1, ItemsHeadTail
  <2>3. Len(x) = 1
    BY <1>2, <2>1, <2>2 DEF Leafy
  <2>4. PICK u, v : x = <<u, v>>
    BY <2>1, <2>2
  <2> QED
    BY <2>3, <2>4
<1>7. \A b \in 0..m : M[b] = t \/ \E c \in 0..m : M[b] = Witnesses!Level(M[c])
  <2>1. OnLevels(M, t, m)
    BY <1>0, TowerLevels
  <2> QED
    BY <2>1 DEF OnLevels
<1>3. 0 \in P
  <2>1. ASSUME NEW b \in 0..m, Items(s) = Items(M[b]) PROVE Items(s) = Items(t)
    <3>1. CASE M[b] = t
      BY <2>1, <3>1
    <3>2. CASE \E c \in 0..m : M[b] = Witnesses!Level(M[c])
      BY <1>0, <1>1, <1>2, <2>1, <3>2
    <3> QED
      BY <1>7, <3>1, <3>2
  <2>2. K[0] = s
    BY <1>0 DEF Tower
  <2> QED
    BY <2>1, <2>2
<1>4. ASSUME NEW i \in P PROVE i + 1 \in P
  <2> SUFFICES ASSUME i + 1 <= n PROVE Same(i + 1)
    OBVIOUS
  <2>1. PICK j \in 1..n : j = i + 1 /\ j - 1 = i /\ i \in 0..n
    OBVIOUS
  <2>2. K[j] = IF Len(K[i]) = 1 THEN K[i] ELSE Witnesses!Level(K[i])
    BY <1>0, <2>1 DEF Tower
  <2>3. Same(i)
    OBVIOUS
  <2>4. ASSUME NEW b \in 0..m, Items(K[j]) = Items(M[b]) PROVE Items(s) = Items(t)
    <3>1. CASE K[j] = K[i]
      BY <2>3, <2>4, <3>1
    <3>2. CASE K[j] = Witnesses!Level(K[i])
      <4>1. PICK X, y : y = K[i] /\ y \in Seq(X) /\ y # <<>>
        BY <1>1, <2>1
      <4>2. CASE M[b] = t
        BY <1>0, <1>2, <2>4, <3>2, <4>1, <4>2
      <4>3. CASE \E c \in 0..m : M[b] = Witnesses!Level(M[c])
        <5>1. PICK c \in 0..m : M[b] = Witnesses!Level(M[c])
          BY <4>3
        <5>2. PICK Z, z : z = M[c] /\ z \in Seq(Z) /\ z # <<>>
          BY <1>1
        <5>3. Items(y) = Items(z)
          BY <2>4, <3>2, <4>1, <5>1, <5>2, LevelBelow
        <5> QED
          BY <2>3, <4>1, <5>2, <5>3
      <4> QED
        BY <1>7, <4>2, <4>3
    <3> QED
      BY <2>2, <3>1, <3>2
  <2> QED
    BY <2>1, <2>4
<1>5. P = Nat
  <2> HIDE DEF P
  <2> QED
    BY <1>3, <1>4, NatSetInduction, P \in SUBSET Nat DEF P
<1>6. m \in 0..m
  OBVIOUS
<1> QED
  BY <1>5, <1>6

Covered == {S \in SUBSET Nat : IsFiniteSet(S)}

LEMMA RootLeaves ==
  ASSUME NEW S \in Covered, S # {}
  PROVE  \E V, l : /\ Witnesses!Root(S) = Witnesses!Fold(l) /\ l \in Seq(V) /\ l # <<>>
                   /\ Leafy(l) /\ Items(l) = {<<h>> : h \in S}
<1>1. S \in SUBSET Nat /\ IsFiniteSet(S)
  BY DEF Covered
<1>2. PICK n \in Nat : n = Cardinality(S) /\ n = Witnesses!Cardinality(S)
  BY <1>1, FS_CardinalityType DEF Cardinality, Witnesses!Cardinality
<1>3. n # 0
  BY <1>1, <1>2, FS_EmptySet
<1>4. PICK s : s = Witnesses!InOrder(S)
  OBVIOUS
<1>5. s \in [1..n -> S] /\ {s[i] : i \in DOMAIN s} = S
  <2>1. \E x : Enumerates(x, S)
    BY <1>1, OrderExists
  <2>2. \E x \in [1..n -> S] : {x[i] : i \in DOMAIN x} = S /\ \A i, j \in DOMAIN x : i < j => x[i] < x[j]
    BY <1>2, <2>1 DEF Enumerates
  <2>3. s = CHOOSE x \in [1..n -> S] : {x[i] : i \in DOMAIN x} = S /\ \A i, j \in DOMAIN x : i < j => x[i] < x[j]
    BY <1>2, <1>4 DEF Witnesses!InOrder
  <2> QED
    BY <2>2, <2>3
<1>6. PICK l : l = [i \in 1..n |-> <<s[i]>>]
  OBVIOUS
<1>7. PICK V : V = {<<h>> : h \in S}
  OBVIOUS
<1>8. l \in [1..n -> V] /\ DOMAIN l = 1..n
  BY <1>5, <1>6, <1>7
<1>9. l \in Seq(V) /\ Len(l) = n
  BY <1>8, SeqDef, LenProperties
<1>10. l # <<>>
  BY <1>3, <1>9
<1>11. Items(l) = V
  <2>1. ASSUME NEW h \in S PROVE <<h>> \in Items(l)
    <3>1. PICK i \in 1..n : s[i] = h
      BY <1>5
    <3> QED
      BY <1>6, <1>8, <3>1 DEF Items
  <2>2. ASSUME NEW x \in Items(l) PROVE x \in V
    BY <1>8, <2>2 DEF Items
  <2> QED
    BY <1>7, <2>1, <2>2
<1>12. Leafy(l)
  BY <1>7, <1>11 DEF Leafy
<1>13. Witnesses!Root(S) = Witnesses!Fold(l)
  BY <1>2, <1>4, <1>6 DEF Witnesses!Root
<1> QED
  BY <1>7, <1>9, <1>10, <1>11, <1>12, <1>13

\* the top of the tree over s, by itself
LEMMA RootOnTop ==
  ASSUME NEW V, NEW s \in Seq(V), s # <<>>
  PROVE  \E n, K : /\ n \in Nat /\ n = Len(s) /\ Tower(K, s, n) /\ K[n] # <<>> /\ (\E W : K[n] \in Seq(W))
                   /\ Items(K[n]) = {Witnesses!Fold(s)}
<1>1. PICK n \in Nat : n = Len(s)
  BY EmptySeq
<1>2. PICK K : Tower(K, s, n) /\ Witnesses!Fold(s) = K[n][1]
  BY <1>1, TowerExists
<1>3. PICK k, W : k = K[n] /\ k \in Seq(W) /\ k # <<>> /\ Len(k) = 1
  <2>1. Filled(K, n) /\ Len(K[n]) = 1
    BY <1>1, <1>2, TowerNarrows
  <2> QED
    BY <2>1, n \in 0..n DEF Filled
<1>4. DOMAIN k = 1..1
  BY <1>3, LenProperties
<1>5. Items(k) = {k[1]}
  BY <1>4, 1..1 = {1} DEF Items
<1> QED
  BY <1>1, <1>2, <1>3, <1>5

LEMMA RootKnown ==
  ASSUME NEW S \in Covered, NEW T \in Covered, S # {}, T # {}, Witnesses!Root(S) = Witnesses!Root(T)
  PROVE  S = T
<1>1. PICK V, s : /\ Witnesses!Root(S) = Witnesses!Fold(s) /\ s \in Seq(V) /\ s # <<>>
                  /\ Leafy(s) /\ Items(s) = {<<h>> : h \in S}
  BY RootLeaves
<1>2. PICK W, t : /\ Witnesses!Root(T) = Witnesses!Fold(t) /\ t \in Seq(W) /\ t # <<>>
                  /\ Leafy(t) /\ Items(t) = {<<h>> : h \in T}
  BY RootLeaves
<1>3. PICK n, K : n \in Nat /\ n = Len(s) /\ Tower(K, s, n) /\ Items(K[n]) = {Witnesses!Fold(s)}
  BY <1>1, RootOnTop
<1>4. PICK m, M : m \in Nat /\ m = Len(t) /\ Tower(M, t, m) /\ Items(M[m]) = {Witnesses!Fold(t)}
  BY <1>2, RootOnTop
<1>5. Items(K[n]) = Items(M[m])
  BY <1>1, <1>2, <1>3, <1>4
<1>6. Items(s) = Items(t)
  <2>1. Tree(s, n, K) /\ Tree(t, m, M)
    BY <1>1, <1>2, <1>3, <1>4 DEF Tree
  <2>2. SameTop(K, n, M, m)
    BY <1>5 DEF SameTop
  <2> QED
    BY <1>3, <1>4, <2>1, <2>2, SameLeaves
<1>7. {<<h>> : h \in S} = {<<h>> : h \in T}
  BY <1>1, <1>2, <1>6
<1>8. ASSUME NEW x, NEW y, <<x>> = <<y>> PROVE x = y
  BY <1>8
<1>9. \A x \in S : <<x>> \in {<<h>> : h \in T}
  BY <1>7
<1>10. \A x \in T : <<x>> \in {<<h>> : h \in S}
  BY <1>7
<1>11. \A x \in S : x \in T
  BY <1>9
<1>12. \A x \in T : x \in S
  BY <1>10
<1> QED
  BY <1>11, <1>12

\* no records have no root, and no others have that
LEMMA RootOfRecords ==
  ASSUME NEW S \in Covered, S # {}
  PROVE  Witnesses!Root(S) # <<>>
<1>1. PICK V, s : /\ Witnesses!Root(S) = Witnesses!Fold(s) /\ s \in Seq(V) /\ s # <<>> /\ Leafy(s)
  BY RootLeaves
<1>2. PICK n, K : /\ n \in Nat /\ n = Len(s) /\ Tower(K, s, n) /\ K[n] # <<>> /\ (\E W : K[n] \in Seq(W))
                  /\ Items(K[n]) = {Witnesses!Fold(s)}
  BY <1>1, RootOnTop
<1>3. PICK x : x = Witnesses!Root(S) /\ Items(K[n]) = {x}
  BY <1>1, <1>2
<1>4. K[n] = s \/ \E c \in 0..n : K[n] = Witnesses!Level(K[c])
  <2>1. OnLevels(K, s, n)
    BY <1>2, TowerLevels
  <2> QED
    BY <1>2, <2>1, n \in 0..n DEF OnLevels
<1>5. CASE K[n] = s
  <2>1. Len(x) = 1
    BY <1>1, <1>3, <1>5 DEF Leafy
  <2> QED
    BY <1>3, <2>1
<1>6. CASE \E c \in 0..n : K[n] = Witnesses!Level(K[c])
  <2>1. PICK c \in 0..n : K[n] = Witnesses!Level(K[c])
    BY <1>6
  <2>2. PICK y, W : y = K[c] /\ y \in Seq(W) /\ y # <<>>
    <3>1. Filled(K, n)
      BY <1>1, <1>2, TowerNarrows
    <3> QED
      BY <2>1, <3>1 DEF Filled
  <2>3. PICK l : l = Witnesses!Level(y) /\ \A z \in Items(l) : z \in Items(y) \X Items(y)
    BY <2>2, LevelItems
  <2>4. x \in Items(y) \X Items(y)
    BY <1>3, <2>1, <2>2, <2>3
  <2>5. PICK u, v : x = <<u, v>>
    BY <2>4
  <2> QED
    BY <1>3, <2>5
<1> QED
  BY <1>4, <1>5, <1>6

-------------------------------------------------------------------------------
(* What a round has collected is complete with what it has still to ask, and a    *)
(* root that is witnessed is in the hands of the backend.                        *)

Answer == [backend : Items(Backends), status : {"not_configured", "failed", "witnessed"}]

Round(pc, set, root, todo, collected) ==
  [pc |-> pc, set |-> set, root |-> root, todo |-> todo, collected |-> collected]

Collecting(w) ==
  /\ w = Round(w.pc, w.set, w.root, w.todo, w.collected)
  /\ w.pc = "publish" =>
    /\ w.set \in Covered /\ w.root = Witnesses!Root(w.set)
    /\ w.todo \in Seq(STRING) /\ Items(w.todo) \subseteq Items(Backends) /\ w.collected \in Seq(Answer)
    /\ Items(Backends) = Items(w.todo) \cup {c.backend : c \in Items(w.collected)}
    /\ \A c \in Items(w.collected) : c.status = "witnessed" => <<c.backend, w.root>> \in wianchored

Receipted(r, R, A) ==
  /\ r.set \in Covered /\ r.root = Witnesses!Root(r.set) /\ r.backend \in Items(Backends)
  /\ r.status = "witnessed" => <<r.backend, r.root>> \in A
  /\ \A b \in Items(Backends) : \E x \in R : x.root = r.root /\ x.backend = b

WitnessInv ==
  /\ wistored \subseteq Hashes /\ IsFiniteSet(wistored) /\ wistored \cap wirewritten = {}
  /\ DOMAIN wiround = Rounds /\ \A k \in Rounds : Collecting(wiround[k])
  /\ \A r \in wireceipts : Receipted(r, wireceipts, wianchored)

LEMMA WitnessInit == Witnesses!Init => WitnessInv
<1> SUFFICES ASSUME Witnesses!Init PROVE WitnessInv
  OBVIOUS
<1>1. wistored \subseteq Hashes /\ IsFiniteSet(wistored) /\ wistored \cap wirewritten = {}
  <2>1. (CHOOSE h \in Hashes : TRUE) \in Hashes
    BY HashesAssumption
  <2> QED
    <3>1. wistored \subseteq Hashes /\ wistored \cap wirewritten = {}
      BY <2>1 DEF Witnesses!Init
    <3>2. wistored = {} \/ \E h : wistored = {h}
      BY DEF Witnesses!Init
    <3> QED
      BY <3>1, <3>2, FS_EmptySet, FS_Singleton
<1>2. \A k \in Rounds : wiround[k].pc = "start" /\ wiround[k] = Round("start", {}, <<>>, <<>>, <<>>)
  BY DEF Witnesses!Init, Witnesses!Waiting, Round
<1> QED
  BY <1>1, <1>2 DEF WitnessInv, Witnesses!Init, Collecting, Round

\* a round moves, and nothing else but what is anchored with it
LEMMA RoundMoves ==
  ASSUME WitnessInv, NEW k \in Rounds, NEW w, wiround' = [wiround EXCEPT ![k] = w], Collecting(w)',
         wianchored \subseteq wianchored', wistored' = wistored, wireceipts' = wireceipts,
         wirewritten' = wirewritten
  PROVE  WitnessInv'
<1>1. DOMAIN wiround' = Rounds /\ \A j \in Rounds : wiround'[j] = IF j = k THEN w ELSE wiround[j]
  BY DEF WitnessInv
<1>2. \A j \in Rounds : Collecting(wiround[j]) => (j # k => Collecting(wiround[j])')
  BY <1>1 DEF Collecting
<1>3. \A j \in Rounds : Collecting(wiround[j])'
  BY <1>1, <1>2 DEF WitnessInv, Collecting
<1>4. \A r \in wireceipts : Receipted(r, wireceipts, wianchored) => Receipted(r, wireceipts', wianchored')
  BY DEF Receipted
<1> QED
  BY <1>1, <1>3, <1>4 DEF WitnessInv

LEMMA RootRead ==
  ASSUME WitnessInv, NEW k \in Rounds, Witnesses!ReadRoot(k)
  PROVE  WitnessInv'
<1>1. PICK w : w = [pc |-> "publish", set |-> wistored, root |-> Witnesses!Root(wistored),
                    todo |-> Backends, collected |-> <<>>]
  OBVIOUS
<1>2. w.set \in Covered
  BY <1>1, HashesAssumption DEF WitnessInv, Covered
<1>3. w.todo \in Seq(STRING) /\ w.todo = Backends /\ w.collected \in Seq(Answer) /\ Items(w.collected) = {}
  BY <1>1, BackendsAssumption, ItemsEmpty
<1>4. Collecting(w)'
  BY <1>1, <1>2, <1>3 DEF Collecting, Round
<1>5. wiround' = [wiround EXCEPT ![k] = w]
  BY <1>1 DEF Witnesses!ReadRoot
<1>6. wistored' = wistored /\ wianchored' = wianchored /\ wireceipts' = wireceipts /\ wirewritten' = wirewritten
  BY DEF Witnesses!ReadRoot
<1> QED
  BY <1>4, <1>5, <1>6, RoundMoves

\* one backend after the other
LEMMA AnswerCollected ==
  ASSUME WitnessInv, NEW k \in Rounds, wiround[k].pc = "publish", wiround[k].todo # <<>>,
         NEW status \in {"not_configured", "failed", "witnessed"}, Witnesses!Collect(k, status),
         wianchored \subseteq wianchored',
         status = "witnessed" => <<Head(wiround[k].todo), wiround[k].root>> \in wianchored',
         wistored' = wistored, wireceipts' = wireceipts, wirewritten' = wirewritten
  PROVE  WitnessInv'
<1>1. PICK v : v = wiround[k] /\ v.pc = "publish" /\ v.todo # <<>> /\ Collecting(v)
  BY DEF WitnessInv
<1>2. PICK b, rest : /\ b = Head(v.todo) /\ rest = Tail(v.todo) /\ rest \in Seq(STRING)
                     /\ Items(v.todo) = {b} \cup Items(rest)
  <2>1. v.todo \in Seq(STRING)
    BY <1>1 DEF Collecting
  <2>2. PICK x : x = v.todo /\ x \in Seq(STRING) /\ x # <<>>
    BY <1>1, <2>1
  <2>3. Tail(x) \in Seq(STRING) /\ Items(x) = {Head(x)} \cup Items(Tail(x))
    BY <2>2, ItemsHeadTail
  <2> QED
    BY <2>2, <2>3
<1>3. PICK a \in Answer : a = [backend |-> b, status |-> status]
  BY <1>1, <1>2 DEF Answer, Collecting
<1>4. PICK all : /\ all = Append(v.collected, a) /\ all \in Seq(Answer)
                 /\ Items(all) = Items(v.collected) \cup {a}
  <2>1. v.collected \in Seq(Answer)
    BY <1>1 DEF Collecting
  <2>2. PICK x : x = v.collected /\ x \in Seq(Answer)
    BY <2>1
  <2>3. Append(x, a) \in Seq(Answer) /\ Items(Append(x, a)) = Items(x) \cup {a}
    BY <2>2, ItemsAppend
  <2> QED
    BY <2>2, <2>3
<1>5. v = Round(v.pc, v.set, v.root, v.todo, v.collected)
  BY <1>1 DEF Collecting
<1>6. PICK w : w = Round(v.pc, v.set, v.root, rest, all)
  OBVIOUS
<1>7. wiround' = [wiround EXCEPT ![k] = w]
  <2>1. PICK g : g = [v EXCEPT !.todo = rest]
    OBVIOUS
  <2>2. g = Round(v.pc, v.set, v.root, rest, v.collected)
    BY <1>5, <2>1 DEF Round
  <2>3. [g EXCEPT !.collected = all] = w
    BY <1>6, <2>2 DEF Round
  <2>4. wiround' = [wiround EXCEPT ![k] = [g EXCEPT !.collected = all]]
    BY <1>1, <1>2, <1>3, <1>4, <2>1 DEF Witnesses!Collect, WitnessInv
  <2> QED
    BY <2>3, <2>4
<1>8. /\ w.pc = "publish" /\ w.set = v.set /\ w.root = v.root /\ w.todo = rest /\ w.collected = all
      /\ w = Round(w.pc, w.set, w.root, w.todo, w.collected)
  BY <1>1, <1>6 DEF Round
<1>9. w.set \in Covered /\ w.root = Witnesses!Root(w.set) /\ Items(rest) \subseteq Items(Backends)
  BY <1>1, <1>2, <1>8 DEF Collecting
<1>10. Items(Backends) = Items(rest) \cup {c.backend : c \in Items(all)}
  <2>1. Items(Backends) = Items(v.todo) \cup {c.backend : c \in Items(v.collected)}
    BY <1>1 DEF Collecting
  <2>2. {c.backend : c \in Items(all)} = {c.backend : c \in Items(v.collected)} \cup {b}
    BY <1>3, <1>4
  <2> QED
    BY <1>2, <2>1, <2>2
<1>11. ASSUME NEW c \in Items(all), c.status = "witnessed" PROVE <<c.backend, w.root>> \in wianchored'
  <2>1. CASE c = a
    BY <1>1, <1>2, <1>3, <1>8, <1>11, <2>1
  <2>2. CASE c \in Items(v.collected)
    BY <1>1, <1>8, <1>11, <2>2 DEF Collecting
  <2> QED
    BY <1>4, <2>1, <2>2
<1>12. Collecting(w)'
  BY <1>2, <1>4, <1>8, <1>9, <1>10, <1>11 DEF Collecting
<1> QED
  BY <1>7, <1>12, RoundMoves

LEMMA BackendAsked ==
  ASSUME WitnessInv, NEW k \in Rounds, Witnesses!Publish(k)
  PROVE  WitnessInv'
<1>1. /\ wiround[k].pc = "publish" /\ wiround[k].todo # <<>>
      /\ wistored' = wistored /\ wireceipts' = wireceipts /\ wirewritten' = wirewritten
  BY DEF Witnesses!Publish
<1>2. PICK status \in {"not_configured", "failed", "witnessed"} :
        /\ Witnesses!Collect(k, status) /\ wianchored \subseteq wianchored'
        /\ status = "witnessed" => <<Head(wiround[k].todo), wiround[k].root>> \in wianchored'
  BY DEF Witnesses!Publish
<1> QED
  BY <1>1, <1>2, AnswerCollected

LEMMA RoundLost ==
  ASSUME WitnessInv, NEW k \in Rounds, Witnesses!Lost(k)
  PROVE  WitnessInv'
<1>1. PICK w : w = [Witnesses!Waiting EXCEPT !.pc = "done"]
  OBVIOUS
<1>2. w = Round("done", {}, <<>>, <<>>, <<>>) /\ w.pc = "done"
  BY <1>1 DEF Witnesses!Waiting, Round
<1>3. Collecting(w)'
  BY <1>2 DEF Collecting, Round
<1>4. /\ wiround' = [wiround EXCEPT ![k] = w] /\ wianchored' = wianchored
      /\ wistored' = wistored /\ wireceipts' = wireceipts /\ wirewritten' = wirewritten
  BY <1>1 DEF Witnesses!Lost
<1> QED
  BY <1>3, <1>4, RoundMoves

LEMMA RoundCommitted ==
  ASSUME WitnessInv, NEW k \in Rounds, Witnesses!Commit(k)
  PROVE  WitnessInv'
<1>1. PICK v : v = wiround[k] /\ v.pc = "publish" /\ v.todo = <<>> /\ Collecting(v)
  BY DEF WitnessInv, Witnesses!Commit
<1>2. PICK new : new = {[root |-> v.root, set |-> v.set, backend |-> c.backend, status |-> c.status] :
                          c \in Items(v.collected)}
  OBVIOUS
<1>3. wireceipts' = wireceipts \cup new
  BY <1>1, <1>2 DEF Witnesses!Commit, Witnesses!Range, Items
<1>4. /\ Items(Backends) = {c.backend : c \in Items(v.collected)} /\ v.set \in Covered
      /\ v.root = Witnesses!Root(v.set)
      /\ \A c \in Items(v.collected) : c.status = "witnessed" => <<c.backend, v.root>> \in wianchored
  BY <1>1, ItemsEmpty DEF Collecting
<1>5. wianchored' = wianchored /\ wistored' = wistored /\ wirewritten' = wirewritten
  BY DEF Witnesses!Commit
<1>6. \A b \in Items(Backends) : \E x \in new : x.root = v.root /\ x.backend = b
  <2>1. ASSUME NEW b \in Items(Backends) PROVE \E x \in new : x.root = v.root /\ x.backend = b
    <3>1. PICK c \in Items(v.collected) : b = c.backend
      BY <1>4
    <3>2. PICK x : x = [root |-> v.root, set |-> v.set, backend |-> c.backend, status |-> c.status]
      OBVIOUS
    <3> QED
      BY <1>2, <3>1, <3>2
  <2> QED
    BY <2>1
<1>7. ASSUME NEW r \in new PROVE Receipted(r, wireceipts', wianchored')
  <2>1. r.root = v.root /\ r.set = v.set
    BY <1>2
  <2>2. PICK c \in Items(v.collected) : r.backend = c.backend /\ r.status = c.status
    BY <1>2
  <2>3. r.backend \in Items(Backends)
    BY <1>4, <2>2
  <2> QED
    BY <1>3, <1>4, <1>5, <1>6, <2>1, <2>2, <2>3 DEF Receipted
<1>8. ASSUME NEW r \in wireceipts PROVE Receipted(r, wireceipts', wianchored')
  BY <1>3, <1>5, <1>8 DEF WitnessInv, Receipted
<1>9. \A r \in wireceipts' : Receipted(r, wireceipts', wianchored')
  BY <1>3, <1>7, <1>8
<1>10. DOMAIN wiround' = Rounds /\ \A j \in Rounds : Collecting(wiround[j])'
  <2>1. PICK w : w = [Witnesses!Waiting EXCEPT !.pc = "done"]
    OBVIOUS
  <2>2. w = Round("done", {}, <<>>, <<>>, <<>>) /\ w.pc = "done"
    BY <2>1 DEF Witnesses!Waiting, Round
  <2>3. \A j \in Rounds : wiround'[j] = IF j = k THEN w ELSE wiround[j]
    BY <2>1 DEF Witnesses!Commit, WitnessInv
  <2>4. ASSUME NEW j \in Rounds, j # k PROVE Collecting(wiround[j])'
    BY <1>5, <2>3, <2>4 DEF WitnessInv, Collecting
  <2>5. Collecting(wiround[k])'
    BY <2>2, <2>3 DEF Collecting, Round
  <2> QED
    BY <2>4, <2>5 DEF Witnesses!Commit, WitnessInv
<1> QED
  BY <1>5, <1>9, <1>10 DEF WitnessInv

LEMMA RecordsMove ==
  ASSUME WitnessInv, Witnesses!Ingest \/ Witnesses!Rewrite
  PROVE  WitnessInv'
<1>1. wiround' = wiround /\ wianchored' = wianchored /\ wireceipts' = wireceipts
  BY DEF Witnesses!Ingest, Witnesses!Rewrite
<1>2. wistored' \subseteq Hashes /\ wistored' \cap wirewritten' = {}
  BY DEF WitnessInv, Witnesses!Ingest, Witnesses!Rewrite
<1>3. IsFiniteSet(wistored')
  <2>1. CASE Witnesses!Ingest
    <3>1. PICK h : wistored' = wistored \cup {h}
      BY <2>1 DEF Witnesses!Ingest
    <3> QED
      BY <3>1, FS_AddElement DEF WitnessInv
  <2>2. CASE Witnesses!Rewrite
    <3>1. PICK g, h, S : S = wistored \ {g} /\ wistored' = S \cup {h}
      BY <2>2 DEF Witnesses!Rewrite
    <3>2. IsFiniteSet(S)
      BY <3>1, FS_RemoveElement DEF WitnessInv
    <3> QED
      BY <3>1, <3>2, FS_AddElement
  <2> QED
    BY <2>1, <2>2
<1>4. \A k \in Rounds : Collecting(wiround[k])'
  BY <1>1 DEF WitnessInv, Collecting
<1>5. \A r \in wireceipts' : Receipted(r, wireceipts', wianchored')
  BY <1>1 DEF WitnessInv, Receipted
<1> QED
  BY <1>1, <1>2, <1>3, <1>4, <1>5 DEF WitnessInv

LEMMA WitnessStep == WitnessInv /\ [Witnesses!Next]_wiVars => WitnessInv'
<1> SUFFICES ASSUME WitnessInv, [Witnesses!Next]_wiVars PROVE WitnessInv'
  OBVIOUS
<1>1. CASE \E k \in Rounds : \/ Witnesses!ReadRoot(k) \/ Witnesses!Publish(k)
                             \/ Witnesses!Commit(k) \/ Witnesses!Lost(k)
  BY <1>1, RootRead, BackendAsked, RoundCommitted, RoundLost
<1>2. CASE Witnesses!Ingest \/ Witnesses!Rewrite
  BY <1>2, RecordsMove
<1>3. CASE UNCHANGED wiVars
  <2>1. /\ wiround' = wiround /\ wianchored' = wianchored /\ wireceipts' = wireceipts
        /\ wistored' = wistored /\ wirewritten' = wirewritten
    BY <1>3 DEF wiVars
  <2>2. \A k \in Rounds : Collecting(wiround[k])'
    BY <2>1 DEF WitnessInv, Collecting
  <2>3. \A r \in wireceipts' : Receipted(r, wireceipts', wianchored')
    BY <2>1 DEF WitnessInv, Receipted
  <2> QED
    BY <2>1, <2>2, <2>3 DEF WitnessInv
<1> QED
  BY <1>1, <1>2, <1>3 DEF Witnesses!Next

LEMMA WitnessHolds == WitnessInv => Witnesses!RewriteShows
<1> SUFFICES ASSUME WitnessInv, NEW r \in wireceipts
             PROVE  /\ r.status = "witnessed" => <<r.backend, r.root>> \in wianchored
                    /\ {x.backend : x \in {y \in wireceipts : y.root = r.root}} = Witnesses!Range(Backends)
                    /\ r.set \cap wirewritten # {} => \A S \in SUBSET wistored : Witnesses!Root(S) # r.root
  BY DEF Witnesses!RewriteShows
<1>1. Receipted(r, wireceipts, wianchored)
  BY DEF WitnessInv
<1>2. {x.backend : x \in {y \in wireceipts : y.root = r.root}} = Witnesses!Range(Backends)
  <2>1. Witnesses!Range(Backends) = Items(Backends)
    BY DEF Witnesses!Range, Items
  <2>2. \A x \in wireceipts : x.backend \in Items(Backends)
    BY DEF WitnessInv, Receipted
  <2>3. \A b \in Items(Backends) : \E x \in wireceipts : x.root = r.root /\ x.backend = b
    BY <1>1 DEF Receipted
  <2> QED
    BY <2>1, <2>2, <2>3
<1>3. ASSUME r.set \cap wirewritten # {}, NEW S \in SUBSET wistored, Witnesses!Root(S) = r.root PROVE FALSE
  <2>1. r.set \in Covered /\ r.set # {} /\ r.root = Witnesses!Root(r.set)
    BY <1>1, <1>3 DEF Receipted
  <2>2. S \in Covered
    BY HashesAssumption, FS_Subset DEF WitnessInv, Covered
  <2>3. S # {}
    <3>1. Witnesses!Root({}) = <<>>
      BY DEF Witnesses!Root
    <3> QED
      BY <1>3, <2>1, <3>1, RootOfRecords
  <2>4. S = r.set
    BY <1>3, <2>1, <2>2, <2>3, RootKnown
  <2> QED
    BY <1>3, <2>4 DEF WitnessInv
<1> QED
  BY <1>1, <1>2, <1>3 DEF Receipted

LEMMA WitnessMoves == [Next]_vars => [Witnesses!Next]_wiVars
  BY DEF Next, vars, PolicyKeeps, RecallsKeeps, ResultsKeeps, LedgerKeeps, CertsKeeps, CapsuleKeeps,
         GateKeeps, ExportsKeeps, NoticesKeeps

\* A witnessed root is in the hands of its backend, every backend was asked for each root, and once
\* a record under a root is rewritten no set of the hashes that are left has that root.
THEOREM WitnessesStand == Spec => []Witnesses!RewriteShows
<1>1. Init => WitnessInv
  BY WitnessInit DEF Init
<1>2. WitnessInv /\ [Next]_vars => WitnessInv'
  BY WitnessStep, WitnessMoves
<1> QED
  BY <1>1, <1>2, WitnessHolds, PTL DEF Spec

-------------------------------------------------------------------------------
(* Capsules.  A row points to its predecessor as long as nothing between them was  *)
(* dropped, its event commits to its digest, and what a build read stays so       *)
(* because events are only added and none comes twice.                           *)

IsLog(s) == \E V : s \in Seq(V)
Rising(s) == \A i, j \in DOMAIN s : i < j => s[i].id < s[j].id

RowOf(r, text, digest, state, forged) ==
  [id |-> r.id, at |-> r.at, prev |-> r.prev, text |-> text, hash |-> r.hash, digest |-> digest,
   state |-> state, forged |-> forged]
RowOk(r) == /\ r = RowOf(r, r.text, r.digest, r.state, r.forged)
            /\ r.id \in Nat /\ r.forged \in BOOLEAN
            /\ r.state \in {"active", "redacted", "deleted"} /\ r.digest \in {"own", "other"}
            /\ r.hash = Capsule!HashOf(r.id, "own", r.prev)
            /\ r.state = "active" => r.text = IF r.forged THEN "other" ELSE "own"

\* the rows R point to one another as the ids L of the chain say
Chained(R, L) ==
  /\ L \subseteq Nat /\ \A r \in R : r.id \in L
  /\ \A m \in L : \E r \in R : m <= r.id
  /\ \A r \in R : r.prev = Capsule!Null <=> ~ \E m \in L : m < r.id
  /\ \A q, r \in R : q.id < r.id => (r.prev = q.hash <=> ~ \E m \in L : q.id < m /\ m < r.id)

\* the event e is the one of the state of r
Told(e, r) == e.id = r.id /\ (e.type = "deletion" <=> r.state = "deleted")
Backed(r, E) == r.state # "active" => \E e \in E : Told(e, r) /\ (e.digest = r.digest <=> ~r.forged)
Unnamed(r, E) == \A e \in E : e.id = r.id => r.state # "active" /\ (e.type = "deletion" => r.state = "deleted")
EventsOk(E, n) == /\ \A e \in E : e.type \in {"redaction", "deletion"} /\ e.id \in Nat /\ e.id <= n
                  /\ \A e, f \in E : e.id = f.id /\ e.type = f.type => e = f

\* the key registry has no row, an active key, or one revoked before the time n
KeyRow(k, n) == \/ k = Capsule!NoRow \/ k.status = "active"
                \/ k.status = "compromised" /\ k.at \in 1..n

DbInv ==
  /\ canow \in Nat /\ caenv \in {"active", "retired"}
  /\ KeyRow(carow, canow)
  /\ IsLog(carecords) /\ IsLog(caevents) /\ Rising(carecords)
  /\ \A r \in Items(carecords) : RowOk(r) /\ Backed(r, Items(caevents)) /\ Unnamed(r, Items(caevents))
  /\ EventsOk(Items(caevents), canow)
  /\ Chained(Items(carecords), calinked) /\ \A m \in calinked : m <= canow

\* what a build c that read from the events E by the time n holds
BuildOf(pc, scope, recs, evs, signed, key, at, altered, missing) ==
  [pc |-> pc, scope |-> scope, recs |-> recs, events |-> evs, signed |-> signed, key |-> key, at |-> at,
   altered |-> altered, missing |-> missing]
LinksMatch(x) == \A i \in DOMAIN x : x[i].prev = IF i = 1 THEN Capsule!Null ELSE x[i - 1].hash
RowsRead(c, E) == /\ IsLog(c.recs) /\ \A r \in Items(c.recs) : RowOk(r) /\ Backed(r, E)
                  /\ LinksMatch(c.recs) <=> c.missing = {}
EventsRead(c, E) ==
  /\ IsLog(c.events) /\ c.signed \in BOOLEAN
  /\ \A e \in Items(c.events) : e \in E /\ Capsule!InRange(e.at, c.scope)
  /\ \A r \in Items(c.recs), e \in E :
       r.state # "active" /\ Told(e, r) /\ Capsule!InRange(e.at, c.scope) => e \in Items(c.events)
KeyRead(k, n) == \/ k.status \in {"active", "retired"}
                 \/ k.status = "compromised" /\ k.at \in 1..n
BuildOk(c, E, n) ==
  /\ c = BuildOf(c.pc, c.scope, c.recs, c.events, c.signed, c.key, c.at, c.altered, c.missing)
  /\ c.pc \in {"records", "events", "registry", "sign", "signed"}
  /\ c.altered \in {"none", "document", "keyId", "file"} /\ (c.pc # "signed" => c.altered = "none")
  /\ RowsRead(c, E)
  /\ c.pc \in {"registry", "sign", "signed"} => EventsRead(c, E)
  /\ c.pc = "sign" => KeyRead(c.key, n)
  /\ c.pc = "signed" => c.at \in Nat /\ c.at <= n /\ KeyRead(c.key, c.at)

CapsuleInv == /\ DbInv /\ cabuild = [b \in Builds |-> cabuild[b]]
              /\ \A b \in Builds : BuildOk(cabuild[b], Items(caevents), canow)

LEMMA HashesDiffer ==
  ASSUME NEW i, NEW j, NEW p, NEW q
  PROVE  /\ Capsule!HashOf(i, "own", p) # Capsule!Null
         /\ Capsule!HashOf(i, "own", p) = Capsule!HashOf(j, "own", q) => i = j
  BY DEF Capsule!HashOf, Capsule!Null

LEMMA TextShown ==
  ASSUME NEW r, RowOk(r), r.state = "active"
  PROVE  Capsule!HashOf(r.id, r.text, r.prev) = r.hash <=> ~r.forged
  BY DEF RowOk, Capsule!HashOf

\* the ids M of L up to the last one of x that x has not
MissingOf(M, x, L) ==
  M = IF x = <<>> THEN {} ELSE {m \in L : m <= x[Len(x)].id} \ {x[i].id : i \in DOMAIN x}

\* the links of what was selected match when no id is missing from it
LEMMA LinksShown ==
  ASSUME NEW R, NEW L, Chained(R, L), NEW x, IsLog(x), Rising(x), Items(x) \subseteq R,
         NEW M, MissingOf(M, x, L)
  PROVE  LinksMatch(x) <=> M = {}
<1> USE DEF MissingOf
<1>1. PICK n \in Nat : n = Len(x) /\ DOMAIN x = 1..n
  BY LenProperties DEF IsLog
<1>2. \A i \in 1..n : x[i] \in R /\ x[i].id \in L /\ x[i].id \in Nat
  BY <1>1 DEF Items, Chained
<1>3. \A i, j \in 1..n : i < j => x[i].id < x[j].id
  BY <1>1 DEF Rising
<1>4. x = <<>> <=> n = 0
  BY <1>1, EmptySeq DEF IsLog
<1>5. ASSUME M = {}, NEW i \in 1..n PROVE x[i].prev = IF i = 1 THEN Capsule!Null ELSE x[i - 1].hash
  <2>1. x[i].id <= x[n].id
    BY <1>2, <1>3
  <2>2. ASSUME NEW m \in L, m < x[i].id PROVE \E j \in 1..n : m = x[j].id /\ j < i
    <3>1. m \in Nat /\ m <= x[n].id
      BY <1>2, <2>1, <2>2 DEF Chained
    <3>2. PICK j \in 1..n : m = x[j].id
      BY <1>1, <1>4, <1>5, <2>2, <3>1
    <3> QED
      BY <1>2, <1>3, <2>2, <3>2
  <2>3. CASE i = 1
    BY <1>2, <2>2, <2>3 DEF Chained
  <2>4. CASE i # 1
    <3>1. i - 1 \in 1..n /\ x[i - 1].id < x[i].id
      BY <1>3, <2>4
    <3>2. ASSUME NEW m \in L, x[i - 1].id < m, m < x[i].id PROVE FALSE
      <4>1. PICK j \in 1..n : m = x[j].id /\ j < i
        BY <2>2, <3>2
      <4>2. j <= i - 1 /\ x[j].id <= x[i - 1].id
        BY <1>2, <1>3, <3>1, <4>1
      <4> QED
        BY <1>2, <3>1, <3>2, <4>1, <4>2
    <3> QED
      BY <1>2, <2>4, <3>1, <3>2 DEF Chained
  <2> QED
    BY <2>3, <2>4
<1>6. ASSUME LinksMatch(x), NEW m \in M PROVE FALSE
  <2>1. n # 0 /\ m \in L /\ m \in Nat /\ m <= x[n].id /\ \A i \in 1..n : m # x[i].id
    BY <1>1, <1>4, <1>6 DEF Chained
  <2>2. DEFINE S == {i \in 1..n : x[i].id < m}
  <2>3. CASE S = {}
    <3>1. x[1].prev = Capsule!Null
      BY <1>1, <1>6, <2>1 DEF LinksMatch
    <3>2. m < x[1].id
      BY <1>2, <2>1, <2>3
    <3> QED
      BY <1>2, <2>1, <3>1, <3>2 DEF Chained
  <2>4. CASE S # {}
    <3>1. S \in SUBSET (0..n)
      OBVIOUS
    <3>2. PICK k \in S : \A i \in S : i <= k
      BY <2>4, <3>1, Greatest
    <3>3. k # n
      BY <1>2, <2>1, <3>2
    <3>4. k \in 1..n /\ k + 1 \in 1..n /\ k + 1 \notin S /\ x[k].id < m
      BY <3>2, <3>3
    <3>5. m < x[k + 1].id
      BY <1>2, <2>1, <3>4
    <3>6. x[k + 1].prev = x[k].hash
      BY <1>1, <1>6, <3>4 DEF LinksMatch
    <3>7. x[k].id < x[k + 1].id
      BY <1>3, <3>4
    <3> QED
      BY <1>2, <2>1, <3>4, <3>5, <3>6, <3>7 DEF Chained
  <2> QED
    BY <2>3, <2>4
<1> QED
  BY <1>1, <1>5, <1>6 DEF LinksMatch

\* rows with the ids and links of others are chained as those
LEMMA ChainedSame ==
  ASSUME NEW R, NEW L, Chained(R, L), NEW Q,
         \A x \in Q : \E y \in R : x.id = y.id /\ x.prev = y.prev /\ x.hash = y.hash,
         \A y \in R : \E x \in Q : x.id = y.id
  PROVE  Chained(Q, L)
<1>1. L \subseteq Nat /\ \A r \in Q : r.id \in L
  BY DEF Chained
<1>2. \A m \in L : \E r \in Q : m <= r.id
  BY DEF Chained
<1>3. \A r \in Q : r.prev = Capsule!Null <=> ~ \E m \in L : m < r.id
  BY DEF Chained
<1>4. ASSUME NEW q \in Q, NEW r \in Q, q.id < r.id
      PROVE  r.prev = q.hash <=> ~ \E m \in L : q.id < m /\ m < r.id
  <2>1. PICK y \in R : q.id = y.id /\ q.hash = y.hash
    OBVIOUS
  <2>2. PICK z \in R : r.id = z.id /\ r.prev = z.prev
    OBVIOUS
  <2> QED
    BY <1>4, <2>1, <2>2 DEF Chained
<1> QED
  BY <1>1, <1>2, <1>3, <1>4 DEF Chained

\* the rows s in the order of their ids, chained by the ids L
LogOf(s, L) == IsLog(s) /\ Rising(s) /\ Chained(Items(s), L)
Replaces(r, s, i) == i \in DOMAIN s /\ r.id = s[i].id /\ r.prev = s[i].prev /\ r.hash = s[i].hash
RowsBut(t, s, r) == \A x \in Items(t) : x = r \/ (x \in Items(s) /\ x.id # r.id)
MayFollow(r, s, L) ==
  /\ r.id \in Nat /\ \A m \in L : m < r.id
  /\ \A q \in Items(s) : q.hash = Capsule!HashOf(q.id, "own", q.prev)
  /\ r.prev = IF s = <<>> THEN Capsule!Null ELSE s[Len(s)].hash

AddedRow(t, s, L, r) == t = Append(s, r) /\ LogOf(t, L \cup {r.id}) /\ Items(t) = Items(s) \cup {r}

Without(t, s, k) == k \in DOMAIN s /\ t = SubSeq(s, 1, k - 1) \o SubSeq(s, k + 1, Len(s))
Ending(K, s, k, L) == K = IF k < Len(s) THEN L ELSE {m \in L : k > 1 /\ m <= s[k - 1].id}

\* a row of the log changes, with the id and the links it had
LEMMA RowChanged ==
  ASSUME NEW L, NEW s, LogOf(s, L), NEW i, NEW r, Replaces(r, s, i), NEW t, t = [s EXCEPT ![i] = r]
  PROVE  LogOf(t, L) /\ RowsBut(t, s, r)
<1> USE DEF LogOf, Replaces
<1>1. PICK n \in Nat : n = Len(s) /\ DOMAIN s = 1..n
  BY LenProperties DEF IsLog
<1>2. DOMAIN t = 1..n /\ \A j \in 1..n : t[j] = IF j = i THEN r ELSE s[j]
  BY <1>1 DEF IsLog
<1>3. IsLog(t)
  <2>1. PICK V : V = Items(s) \cup {r}
    OBVIOUS
  <2>2. t = [j \in 1..n |-> IF j = i THEN r ELSE s[j]]
    BY <1>1 DEF IsLog
  <2>3. \A j \in 1..n : (IF j = i THEN r ELSE s[j]) \in V
    BY <1>1, <2>1 DEF Items
  <2>4. t \in [1..n -> V]
    BY <2>2, <2>3
  <2>5. t \in Seq(V)
    BY <2>4, SeqDef
  <2> QED
    BY <2>5 DEF IsLog
<1>4. \A j \in 1..n : t[j].id = s[j].id /\ t[j].prev = s[j].prev /\ t[j].hash = s[j].hash
  BY <1>2
<1>5. Rising(t)
  BY <1>1, <1>2, <1>4 DEF Rising
<1>6. Chained(Items(t), L)
  <2>1. \A x \in Items(t) : \E y \in Items(s) : x.id = y.id /\ x.prev = y.prev /\ x.hash = y.hash
    BY <1>1, <1>2, <1>4 DEF Items
  <2>2. \A y \in Items(s) : \E x \in Items(t) : x.id = y.id
    BY <1>1, <1>2, <1>4 DEF Items
  <2> QED
    BY <2>1, <2>2, ChainedSame
<1>7. \A j \in 1..n : j # i => s[j].id # r.id
  <2>1. \A j \in 1..n : s[j].id \in Nat
    BY <1>1 DEF Items, Chained
  <2> QED
    BY <1>1, <2>1 DEF Rising
<1> QED
  BY <1>1, <1>2, <1>3, <1>5, <1>6, <1>7 DEF Items, RowsBut

\* what follows the order of a log is a log in order
LEMMA PartOfLog ==
  ASSUME NEW s, IsLog(s), Rising(s), NEW x, IsLog(x), InPlace(x, s, Len(s))
  PROVE  Rising(x) /\ Items(x) \subseteq Items(s)
<1>1. PICK n \in Nat : n = Len(s) /\ DOMAIN s = 1..n
  BY LenProperties DEF IsLog
<1>2. PICK m \in Nat : m = Len(x) /\ DOMAIN x = 1..m
  BY LenProperties DEF IsLog
<1>3. PICK f \in [1..m -> 1..n] : /\ \A i \in 1..m : x[i] = s[f[i]]
                                 /\ \A i, j \in 1..m : i < j => f[i] < f[j]
  BY <1>1, <1>2 DEF InPlace
<1> QED
  BY <1>1, <1>2, <1>3 DEF Rising, Items

\* the last row of a log has the greatest id
LEMMA LastRow ==
  ASSUME NEW s, IsLog(s), Rising(s), NEW L, Chained(Items(s), L), s # <<>>
  PROVE  /\ Len(s) \in DOMAIN s /\ s[Len(s)] \in Items(s)
         /\ \A r \in Items(s) : r = s[Len(s)] \/ r.id < s[Len(s)].id
         /\ \A m \in L : m <= s[Len(s)].id
<1>1. PICK n \in Nat : n = Len(s) /\ DOMAIN s = 1..n
  BY LenProperties DEF IsLog
<1>2. n # 0
  BY <1>1, EmptySeq DEF IsLog
<1>3. \A r \in Items(s) : r = s[n] \/ r.id < s[n].id
  BY <1>1, <1>2 DEF Items, Rising
<1>4. \A r \in Items(s) : r.id \in Nat
  BY DEF Chained
<1>5. \A m \in L : m <= s[n].id
  <2>1. ASSUME NEW m \in L PROVE m <= s[n].id
    <3>1. PICK r \in Items(s) : m \in Nat /\ m <= r.id
      BY DEF Chained
    <3>2. s[n] \in Items(s)
      BY <1>1, <1>2 DEF Items
    <3> QED
      BY <1>3, <1>4, <3>1, <3>2
  <2> QED
    BY <2>1
<1> QED
  BY <1>1, <1>2, <1>3, <1>5 DEF Items

\* a row is added, that points to the last one
LEMMA RowAdded ==
  ASSUME NEW L, NEW s, LogOf(s, L), NEW r, MayFollow(r, s, L)
  PROVE  \E t : AddedRow(t, s, L, r)
<1> USE DEF LogOf, MayFollow, AddedRow
<1>0. PICK t : t = Append(s, r)
  OBVIOUS
<1>1. PICK V : s \in Seq(V)
  BY DEF IsLog
<1>2. PICK n \in Nat : n = Len(s) /\ DOMAIN s = 1..n
  BY LenProperties DEF IsLog
<1>3. IsLog(t) /\ Items(t) = Items(s) \cup {r}
  <2>1. PICK W : W = V \cup {r}
    OBVIOUS
  <2>2. s \in Seq(W)
    <3>1. s \in [1..n -> V]
      BY <1>1, <1>2, LenProperties
    <3>2. s \in [1..n -> W]
      BY <2>1, <3>1
    <3> QED
      BY <3>2, SeqDef
  <2> QED
    BY <1>0, <2>1, <2>2, ItemsAppend DEF IsLog
<1>4. \A q \in Items(s) : q.id \in L /\ q.id \in Nat /\ q.id < r.id
  BY DEF Chained
<1>5. Rising(t)
  <2>1. DOMAIN t = 1..(n + 1) /\ t[n + 1] = r /\ \A i \in 1..n : t[i] = s[i]
    BY <1>0, <1>1, <1>2, AppendProperties
  <2>2. \A i \in 1..n : s[i].id < r.id
    BY <1>2, <1>4 DEF Items
  <2> QED
    BY <1>2, <2>1, <2>2 DEF Rising
<1>6. Items(s) # {} => s # <<>>
  BY ItemsEmpty
<1>7. ASSUME s = <<>> PROVE Chained(Items(t), L \cup {r.id})
  <2>1. Items(s) = {} /\ L = {}
    BY <1>7, ItemsEmpty DEF Chained
  <2> QED
    BY <1>0, <1>3, <1>5, <1>7, <2>1 DEF Chained
<1>8. ASSUME s # <<>> PROVE Chained(Items(t), L \cup {r.id})
  <2>1. PICK z : z = s[Len(s)] /\ z \in Items(s) /\ (\A m \in L : m <= z.id)
                 /\ \A q \in Items(s) : q = z \/ q.id < z.id
    BY <1>8, LastRow
  <2>2. r.prev = z.hash /\ z.hash # Capsule!Null
    BY <1>8, <2>1, HashesDiffer
  <2>3. \A m \in L \cup {r.id} : m \in Nat /\ \E x \in Items(t) : m <= x.id
    BY <1>3 DEF Chained
  <2>4. \A x \in Items(t) : x.id \in L \cup {r.id}
    BY <1>3, <1>4
  <2>5. ASSUME NEW x \in Items(t) PROVE x.prev = Capsule!Null <=> ~ \E m \in L \cup {r.id} : m < x.id
    <3>1. CASE x \in Items(s)
      BY <1>4, <3>1 DEF Chained
    <3>2. CASE x = r
      BY <1>4, <2>1, <2>2, <3>2
    <3> QED
      BY <1>3, <3>1, <3>2
  <2>6. ASSUME NEW q \in Items(t), NEW x \in Items(t), q.id < x.id
        PROVE  x.prev = q.hash <=> ~ \E m \in L \cup {r.id} : q.id < m /\ m < x.id
    <3>1. q \in Items(s)
      BY <1>3, <1>4, <2>6
    <3>2. CASE x \in Items(s)
      <4>1. ~(r.id < x.id)
        BY <1>4, <3>2
      <4> QED
        BY <2>6, <3>1, <3>2, <4>1 DEF Chained
    <3>3. CASE x = r /\ q = z
      <4>1. \A m \in L \cup {r.id} : ~(q.id < m /\ m < x.id)
        BY <1>4, <2>1, <2>3, <3>3
      <4> QED
        BY <2>2, <3>3, <4>1
    <3>4. CASE x = r /\ q # z
      <4>1. q.id < z.id /\ z.id < x.id /\ z.id \in L
        BY <1>4, <2>1, <3>1, <3>4
      <4>2. q.id # z.id
        BY <1>4, <2>1, <3>1, <4>1
      <4>3. q.hash # z.hash
        <5>1. q.hash = Capsule!HashOf(q.id, "own", q.prev) /\ z.hash = Capsule!HashOf(z.id, "own", z.prev)
          BY <2>1, <3>1
        <5> QED
          BY <4>2, <5>1, HashesDiffer
      <4> QED
        BY <2>2, <3>4, <4>1, <4>3
    <3> QED
      BY <1>3, <3>1, <3>2, <3>3, <3>4
  <2>7. L \cup {r.id} \subseteq Nat
    BY <2>3
  <2> QED
    BY <1>0, <1>3, <1>5, <2>3, <2>4, <2>5, <2>6, <2>7 DEF Chained
<1> QED
  BY <1>0, <1>3, <1>5, <1>7, <1>8

\* rows without some, and the ids before them
LEMMA ChainedPart ==
  ASSUME NEW R, NEW L, Chained(R, L), NEW Q \in SUBSET R, NEW K \in SUBSET L, \A r \in Q : r.id \in K,
         \A m \in K : \E r \in Q : m <= r.id, \A r \in Q, m \in L : m < r.id => m \in K
  PROVE  Chained(Q, K)
<1>1. \A r \in Q : r.prev = Capsule!Null <=> ~ \E m \in K : m < r.id
  BY DEF Chained
<1>2. ASSUME NEW q \in Q, NEW r \in Q, q.id < r.id
      PROVE  r.prev = q.hash <=> ~ \E m \in K : q.id < m /\ m < r.id
  BY <1>2 DEF Chained
<1> QED
  BY <1>1, <1>2 DEF Chained

\* a row is dropped; from the end, the ids after the row before it too
LEMMA RowDropped ==
  ASSUME NEW L, NEW s, LogOf(s, L), NEW k, NEW t, Without(t, s, k), NEW K, Ending(K, s, k, L)
  PROVE  LogOf(t, K) /\ Items(t) \subseteq Items(s) /\ K \subseteq L
<1> USE DEF LogOf, Without, Ending
<1>1. PICK n \in Nat : n = Len(s) /\ DOMAIN s = 1..n
  BY LenProperties DEF IsLog
<1>2. IsLog(t) /\ Items(t) = {s[i] : i \in (1..n) \ {k}}
  BY <1>1, ItemsRemoved DEF IsLog
<1>3. InPlace(t, s, Len(s))
  BY RemovedInOrder DEF IsLog
<1>4. Rising(t) /\ Items(t) \subseteq Items(s)
  BY <1>2, <1>3, PartOfLog
<1>5. \A i \in 1..n : s[i].id \in L /\ s[i].id \in Nat
  BY <1>1 DEF Items, Chained
<1>6. \A i, j \in 1..n : i < j => s[i].id < s[j].id
  BY <1>1 DEF Rising
<1>7. \A m \in L : m \in Nat /\ m <= s[n].id
  <2>1. ASSUME NEW m \in L PROVE m \in Nat /\ m <= s[n].id
    <3>1. PICK r \in Items(s) : m \in Nat /\ m <= r.id
      BY DEF Chained
    <3>2. PICK i \in 1..n : r = s[i]
      BY <1>1, <3>1 DEF Items
    <3>3. i = n \/ s[i].id < s[n].id
      BY <1>6, <3>2
    <3> QED
      BY <1>5, <3>1, <3>2, <3>3
  <2> QED
    BY <2>1
<1>8. \A r \in Items(t) : r.id \in K
  <2>1. CASE k < n
    BY <1>1, <1>2, <1>5, <2>1
  <2>2. CASE k = n
    <3>1. ASSUME NEW r \in Items(t) PROVE r.id \in K
      <4>1. PICK i \in 1..n : i # n /\ r = s[i]
        BY <1>2, <2>2, <3>1
      <4>2. n - 1 \in 1..n /\ (i = n - 1 \/ i < n - 1)
        BY <4>1
      <4>3. s[i].id <= s[n - 1].id
        BY <1>5, <1>6, <4>2
      <4> QED
        BY <1>1, <1>5, <2>2, <4>1, <4>2, <4>3
    <3> QED
      BY <3>1
  <2>3. k < n \/ k = n
    BY <1>1
  <2> QED
    BY <2>1, <2>2, <2>3
<1>9. \A m \in K : \E r \in Items(t) : m <= r.id
  <2>1. CASE k < n
    <3>1. s[n] \in Items(t)
      BY <1>1, <1>2, <2>1
    <3> QED
      BY <1>1, <1>7, <2>1, <3>1
  <2>2. CASE k = n
    <3>1. k > 1 => s[n - 1] \in Items(t)
      BY <1>1, <1>2, <2>2
    <3> QED
      BY <1>1, <2>2, <3>1
  <2>3. k < n \/ k = n
    BY <1>1
  <2> QED
    BY <2>1, <2>2, <2>3
<1>10. \A r \in Items(t), m \in L : m < r.id => m \in K
  <2>1. CASE k < n
    BY <1>1, <2>1
  <2>2. CASE k = n
    <3>1. ASSUME NEW r \in Items(t), NEW m \in L, m < r.id PROVE m \in K
      <4>1. PICK i \in 1..n : i # n /\ r = s[i]
        BY <1>2, <2>2, <3>1
      <4>2. n - 1 \in 1..n /\ (i = n - 1 \/ i < n - 1)
        BY <4>1
      <4>3. s[i].id <= s[n - 1].id
        BY <1>5, <1>6, <4>2
      <4> QED
        BY <1>1, <1>5, <1>7, <2>2, <3>1, <4>1, <4>2, <4>3
    <3> QED
      BY <3>1
  <2>3. k < n \/ k = n
    BY <1>1
  <2> QED
    BY <2>1, <2>2, <2>3
<1>11. K \subseteq L
  OBVIOUS
<1> QED
  BY <1>2, <1>4, <1>8, <1>9, <1>10, <1>11, ChainedPart

\* what was read stays read: no event comes twice
LEMMA BuildKept ==
  ASSUME NEW c, NEW E, NEW n \in Nat, BuildOk(c, E, n), NEW F, E \subseteq F, NEW m \in Nat, n <= m, EventsOk(F, m)
  PROVE  BuildOk(c, F, m)
<1>1. \A r \in Items(c.recs) : Backed(r, E)
  BY DEF BuildOk, RowsRead
<1>2. RowsRead(c, F)
  BY DEF BuildOk, RowsRead, Backed
<1>3. ASSUME NEW r \in Items(c.recs), NEW e \in F, r.state # "active", Told(e, r) PROVE e \in E
  <2>1. PICK f \in E : Told(f, r)
    BY <1>1, <1>3 DEF Backed
  <2>2. e.type \in {"redaction", "deletion"} /\ f.type \in {"redaction", "deletion"}
    BY <2>1 DEF EventsOk
  <2>3. e.id = f.id /\ e.type = f.type
    BY <1>3, <2>1, <2>2 DEF Told
  <2> QED
    BY <2>1, <2>3 DEF EventsOk
<1>4. EventsRead(c, E) => EventsRead(c, F)
  BY <1>3 DEF EventsRead
<1>5. KeyRead(c.key, n) => KeyRead(c.key, m)
  BY DEF KeyRead
<1>6. c.at \in Nat /\ c.at <= n => c.at <= m
  OBVIOUS
<1> QED
  BY <1>2, <1>4, <1>5, <1>6 DEF BuildOk

LEMMA CapsuleInit == Capsule!Init => CapsuleInv
<1> SUFFICES ASSUME Capsule!Init PROVE CapsuleInv
  OBVIOUS
<1>1. Items(carecords) = {} /\ Items(caevents) = {} /\ calinked = {} /\ carecords = <<>>
  BY ItemsEmpty DEF Capsule!Init
<1>2. IsLog(<<>>)
  <2>1. <<>> \in Seq(Nat)
    BY EmptySeq
  <2> QED
    BY <2>1 DEF IsLog
<1>3. IsLog(carecords) /\ IsLog(caevents)
  BY <1>2 DEF Capsule!Init
<1>4. DbInv
  BY <1>1, <1>3 DEF Capsule!Init, DbInv, KeyRow, Rising, EventsOk, Chained
<1>5. PICK w : w = Capsule!Waiting
  OBVIOUS
<1>6. PICK s : w = BuildOf("records", s, <<>>, <<>>, TRUE, Capsule!NoRow, 0, "none", {})
  BY <1>5 DEF Capsule!Waiting, BuildOf
<1>7. RowsRead(w, {})
  BY <1>2, <1>6, ItemsEmpty DEF RowsRead, BuildOf, LinksMatch
<1>8. BuildOk(w, {}, 0)
  BY <1>6, <1>7 DEF BuildOk, BuildOf
<1>9. cabuild = [b \in Builds |-> w]
  BY <1>5 DEF Capsule!Init
<1> QED
  BY <1>1, <1>4, <1>8, <1>9 DEF CapsuleInv, Capsule!Init

LEMMA DbMoved ==
  ASSUME CapsuleInv, DbInv', Items(caevents) \subseteq Items(caevents'), canow <= canow', cabuild' = cabuild
  PROVE  CapsuleInv'
<1>1. canow \in Nat /\ canow' \in Nat /\ EventsOk(Items(caevents'), canow')
  BY DEF CapsuleInv, DbInv
<1>2. ASSUME NEW b \in Builds PROVE BuildOk(cabuild[b], Items(caevents'), canow')
  <2>1. BuildOk(cabuild[b], Items(caevents), canow)
    BY DEF CapsuleInv
  <2> QED
    BY <1>1, <2>1, BuildKept
<1> QED
  BY <1>2 DEF CapsuleInv

LEMMA RecordIngested ==
  ASSUME CapsuleInv, Capsule!Ingest
  PROVE  CapsuleInv'
<1>1. /\ canow \in Nat /\ canow' = canow + 1 /\ caevents' = caevents /\ caenv' = caenv
      /\ carow' = carow /\ cabuild' = cabuild
  BY DEF CapsuleInv, DbInv, Capsule!Ingest, Capsule!Tick
<1>2. PICK E : /\ E = Items(caevents) /\ EventsOk(E, canow)
               /\ \A r \in Items(carecords) : RowOk(r) /\ Backed(r, E) /\ Unnamed(r, E)
  BY DEF CapsuleInv, DbInv
<1>3. PICK prev : prev = IF carecords = <<>> THEN Capsule!Null ELSE carecords[Len(carecords)].hash
  OBVIOUS
<1>4. PICK r : r = [id |-> canow + 1, at |-> canow + 1, prev |-> prev, text |-> "own",
                    hash |-> Capsule!HashOf(canow + 1, "own", prev), digest |-> "own",
                    state |-> "active", forged |-> FALSE]
  OBVIOUS
<1>5. carecords' = Append(carecords, r) /\ calinked' = calinked \cup {r.id}
  BY <1>3, <1>4 DEF Capsule!Ingest, Capsule!Last
<1>6. RowOk(r) /\ r.state = "active" /\ r.id = canow + 1 /\ r.prev = prev
  BY <1>1, <1>4 DEF RowOk, RowOf
<1>7. IsLog(carecords') /\ Rising(carecords') /\ Chained(Items(carecords'), calinked')
      /\ Items(carecords') = Items(carecords) \cup {r}
  <2>1. IsLog(carecords) /\ Rising(carecords) /\ Chained(Items(carecords), calinked)
    BY DEF CapsuleInv, DbInv
  <2>2. \A m \in calinked : m < r.id
    BY <1>1, <1>6 DEF CapsuleInv, DbInv, Chained
  <2>3. \A q \in Items(carecords) : q.hash = Capsule!HashOf(q.id, "own", q.prev)
    BY <1>2 DEF RowOk
  <2>4. r.id \in Nat /\ r.prev = IF carecords = <<>> THEN Capsule!Null ELSE carecords[Len(carecords)].hash
    BY <1>1, <1>3, <1>6
  <2>5. LogOf(carecords, calinked) /\ MayFollow(r, carecords, calinked)
    BY <2>1, <2>2, <2>3, <2>4 DEF LogOf, MayFollow
  <2>6. PICK t : AddedRow(t, carecords, calinked, r)
    BY <2>5, RowAdded
  <2> QED
    BY <1>5, <2>6 DEF LogOf, AddedRow
<1>8. \A e \in E : e.id \in Nat /\ e.id <= canow
  BY <1>2 DEF EventsOk
<1>9. Backed(r, E) /\ Unnamed(r, E)
  BY <1>1, <1>6, <1>8 DEF Backed, Unnamed
<1>10. EventsOk(E, canow + 1)
  BY <1>1, <1>2 DEF EventsOk
<1>11. Items(caevents') = E /\ IsLog(caevents')
  BY <1>1, <1>2 DEF CapsuleInv, DbInv
<1>12. \A x \in Items(carecords') : RowOk(x) /\ Backed(x, Items(caevents')) /\ Unnamed(x, Items(caevents'))
  BY <1>2, <1>6, <1>7, <1>9, <1>11
<1>13. \A m \in calinked' : m <= canow'
  BY <1>1, <1>5, <1>6 DEF CapsuleInv, DbInv, Chained
<1>14. KeyRow(carow', canow')
  BY <1>1 DEF CapsuleInv, DbInv, KeyRow
<1>15. DbInv'
  BY <1>1, <1>7, <1>10, <1>11, <1>12, <1>13, <1>14 DEF CapsuleInv, DbInv
<1> QED
  BY <1>1, <1>2, <1>11, <1>15, DbMoved

\* a row changes, with its event or without one
LEMMA RowMoved ==
  ASSUME CapsuleInv, NEW i \in DOMAIN carecords, NEW r, RowOk(r), r.id = carecords[i].id,
         r.prev = carecords[i].prev, r.hash = carecords[i].hash, carecords' = [carecords EXCEPT ![i] = r],
         canow' = canow + 1, IsLog(caevents'), NEW F, F = Items(caevents'), EventsOk(F, canow'),
         Items(caevents) \subseteq F, \A e \in F : e \in Items(caevents) \/ e.id = r.id,
         Backed(r, F), Unnamed(r, F),
         UNCHANGED <<caenv, carow, calinked, cabuild>>
  PROVE  CapsuleInv'
<1>1. /\ IsLog(carecords) /\ Rising(carecords) /\ Chained(Items(carecords), calinked) /\ canow \in Nat
      /\ \A x \in Items(carecords) : RowOk(x) /\ Backed(x, Items(caevents)) /\ Unnamed(x, Items(caevents))
  BY DEF CapsuleInv, DbInv
<1>2. PICK t : t = carecords'
  OBVIOUS
<1>3. /\ IsLog(t) /\ Rising(t) /\ Chained(Items(t), calinked)
      /\ \A x \in Items(t) : x = r \/ (x \in Items(carecords) /\ x.id # r.id)
  <2>1. LogOf(carecords, calinked) /\ Replaces(r, carecords, i)
    BY <1>1 DEF LogOf, Replaces
  <2>2. LogOf(t, calinked) /\ RowsBut(t, carecords, r)
    BY <1>2, <2>1, RowChanged
  <2> QED
    BY <2>2 DEF LogOf, RowsBut
<1>4. ASSUME NEW x \in Items(t) PROVE RowOk(x) /\ Backed(x, F) /\ Unnamed(x, F)
  <2>1. CASE x = r
    BY <2>1
  <2>2. CASE x \in Items(carecords) /\ x.id # r.id
    <3>1. RowOk(x) /\ Backed(x, Items(caevents)) /\ Unnamed(x, Items(caevents))
      BY <1>1, <2>2
    <3> QED
      BY <2>2, <3>1 DEF Backed, Unnamed
  <2> QED
    BY <1>3, <2>1, <2>2
<1>5. calinked' = calinked /\ caenv' = caenv /\ carow' = carow /\ cabuild' = cabuild
  OBVIOUS
<1>6. \A m \in calinked' : m <= canow'
  BY <1>1, <1>5 DEF CapsuleInv, DbInv, Chained
<1>7. KeyRow(carow', canow')
  BY <1>1, <1>5 DEF CapsuleInv, DbInv, KeyRow
<1>8. caenv' \in {"active", "retired"} /\ canow' \in Nat /\ canow <= canow'
  BY <1>1, <1>5 DEF CapsuleInv, DbInv
<1>9. DbInv'
  BY <1>2, <1>3, <1>4, <1>5, <1>6, <1>7, <1>8 DEF DbInv
<1> QED
  BY <1>5, <1>8, <1>9, DbMoved

LEMMA Shortened ==
  ASSUME CapsuleInv, NEW type \in {"redaction", "deletion"}, Capsule!Lifecycle(type)
  PROVE  CapsuleInv'
<1>1. PICK i \in DOMAIN carecords :
        /\ carecords[i].state \in (IF type = "redaction" THEN {"active"} ELSE {"active", "redacted"})
        /\ caevents' = Append(caevents, [id |-> carecords[i].id, type |-> type,
                                         digest |-> carecords[i].digest, at |-> canow + 1])
        /\ carecords' = [carecords EXCEPT ![i].text = "", ![i].forged = FALSE,
                            ![i].state = IF type = "redaction" THEN "redacted" ELSE "deleted"]
  BY DEF Capsule!Lifecycle
<1>2. canow' = canow + 1 /\ UNCHANGED <<caenv, carow, calinked, cabuild>>
  BY DEF Capsule!Lifecycle, Capsule!Tick
<1>3. PICK E : /\ E = Items(caevents) /\ EventsOk(E, canow) /\ IsLog(caevents) /\ IsLog(carecords)
               /\ canow \in Nat /\ \A m \in calinked : m <= canow
  BY DEF CapsuleInv, DbInv
<1>4. PICK x : x = carecords[i] /\ RowOk(x) /\ Backed(x, E) /\ Unnamed(x, E) /\ x.id \in calinked
  BY <1>3 DEF CapsuleInv, DbInv, Items, Chained
<1>5. PICK st : st = IF type = "redaction" THEN "redacted" ELSE "deleted"
  OBVIOUS
<1>6. PICK r : r = RowOf(x, "", x.digest, st, FALSE)
  OBVIOUS
<1>7. /\ RowOk(r) /\ r.id = x.id /\ r.prev = x.prev /\ r.hash = x.hash
      /\ r.state = st /\ ~r.forged /\ r.digest = x.digest
  BY <1>4, <1>5, <1>6 DEF RowOk, RowOf
<1>8. carecords' = [carecords EXCEPT ![i] = r]
  <2>1. PICK f : f = [x EXCEPT !.text = ""]
    OBVIOUS
  <2>2. PICK g : g = [f EXCEPT !.forged = FALSE]
    OBVIOUS
  <2>3. PICK h : h = [g EXCEPT !.state = st]
    OBVIOUS
  <2>4. carecords' = [carecords EXCEPT ![i] = h]
    BY <1>1, <1>3, <1>4, <1>5, <2>1, <2>2, <2>3 DEF IsLog
  <2>5. x = RowOf(x, x.text, x.digest, x.state, x.forged)
    BY <1>4 DEF RowOk
  <2>6. f = RowOf(x, "", x.digest, x.state, x.forged)
    BY <2>1, <2>5 DEF RowOf
  <2>7. g = RowOf(x, "", x.digest, x.state, FALSE)
    BY <2>2, <2>6 DEF RowOf
  <2>8. h = RowOf(x, "", x.digest, st, FALSE)
    BY <2>3, <2>7 DEF RowOf
  <2> QED
    BY <1>6, <2>4, <2>8
<1>9. PICK e : e = [id |-> x.id, type |-> type, digest |-> x.digest, at |-> canow + 1]
  OBVIOUS
<1>10. e.id = x.id /\ e.type = type /\ e.digest = x.digest
  BY <1>9
<1>11. IsLog(caevents') /\ Items(caevents') = E \cup {e}
  <2>1. PICK V : caevents \in Seq(V)
    BY <1>3 DEF IsLog
  <2>2. PICK W : W = V \cup {e}
    OBVIOUS
  <2>3. caevents \in Seq(W) /\ e \in W
    BY <2>1, <2>2, SeqMonotonic
  <2>4. caevents' = Append(caevents, e)
    BY <1>1, <1>4, <1>9
  <2> QED
    BY <1>3, <2>3, <2>4, ItemsAppend DEF IsLog
<1>12. PICK F : F = Items(caevents') /\ F = E \cup {e}
  BY <1>11
<1>13. \A f \in E : f.id = x.id => f.type # type
  BY <1>1, <1>4 DEF Unnamed, EventsOk
<1>14. EventsOk(F, canow + 1)
  <2>1. x.id \in Nat /\ x.id <= canow
    BY <1>3, <1>4 DEF RowOk
  <2> QED
    BY <1>3, <1>10, <1>12, <1>13, <2>1 DEF EventsOk
<1>15. Backed(r, F)
  BY <1>5, <1>7, <1>10, <1>12 DEF Backed, Told
<1>16. Unnamed(r, F)
  BY <1>1, <1>4, <1>5, <1>7, <1>10, <1>12 DEF Unnamed
<1>17. \A f \in F : f \in Items(caevents) \/ f.id = r.id
  BY <1>3, <1>7, <1>10, <1>12
<1>18. r.id = carecords[i].id /\ r.prev = carecords[i].prev /\ r.hash = carecords[i].hash
  BY <1>4, <1>7
<1>19. EventsOk(F, canow') /\ Items(caevents) \subseteq F
  BY <1>2, <1>3, <1>12, <1>14
<1> QED
  BY <1>2, <1>7, <1>8, <1>11, <1>12, <1>15, <1>16, <1>17, <1>18, <1>19, RowMoved

LEMMA RowRewritten ==
  ASSUME CapsuleInv, Capsule!Rewrite
  PROVE  CapsuleInv'
<1>1. PICK i \in DOMAIN carecords :
        /\ ~carecords[i].forged
        /\ carecords' = [carecords EXCEPT ![i].forged = TRUE,
              ![i].text = IF carecords[i].state = "active" THEN "other" ELSE @,
              ![i].digest = IF carecords[i].state = "active" THEN @ ELSE IF @ = "own" THEN "other" ELSE "own"]
  BY DEF Capsule!Rewrite
<1>2. canow' = canow + 1 /\ caevents' = caevents /\ UNCHANGED <<caenv, carow, calinked, cabuild>>
  BY DEF Capsule!Rewrite, Capsule!Tick
<1>3. PICK E : /\ E = Items(caevents) /\ EventsOk(E, canow) /\ IsLog(caevents) /\ IsLog(carecords) /\ canow \in Nat
  BY DEF CapsuleInv, DbInv
<1>4. PICK x : x = carecords[i] /\ RowOk(x) /\ Backed(x, E) /\ Unnamed(x, E)
  BY <1>3 DEF CapsuleInv, DbInv, Items
<1>5. PICK text : text = IF x.state = "active" THEN "other" ELSE x.text
  OBVIOUS
<1>6. PICK digest : digest = IF x.state = "active" THEN x.digest ELSE IF x.digest = "own" THEN "other" ELSE "own"
  OBVIOUS
<1>7. PICK r : r = RowOf(x, text, digest, x.state, TRUE)
  OBVIOUS
<1>8. /\ RowOk(r) /\ r.id = x.id /\ r.prev = x.prev /\ r.hash = x.hash
      /\ r.state = x.state /\ r.forged /\ r.digest = digest
  BY <1>4, <1>5, <1>6, <1>7 DEF RowOk, RowOf
<1>9. carecords' = [carecords EXCEPT ![i] = r]
  <2>1. PICK f : f = [x EXCEPT !.forged = TRUE]
    OBVIOUS
  <2>2. PICK g : g = [f EXCEPT !.text = text]
    OBVIOUS
  <2>3. PICK h : h = [g EXCEPT !.digest = digest]
    OBVIOUS
  <2>4. x = RowOf(x, x.text, x.digest, x.state, x.forged)
    BY <1>4 DEF RowOk
  <2>5. f = RowOf(x, x.text, x.digest, x.state, TRUE) /\ f.text = x.text
    BY <2>1, <2>4 DEF RowOf
  <2>6. g = RowOf(x, text, x.digest, x.state, TRUE) /\ g.digest = x.digest
    BY <2>2, <2>5 DEF RowOf
  <2>7. h = RowOf(x, text, digest, x.state, TRUE)
    BY <2>3, <2>6 DEF RowOf
  <2>8. carecords' = [carecords EXCEPT ![i] = h]
    BY <1>1, <1>3, <1>4, <1>5, <1>6, <2>1, <2>2, <2>3, <2>5, <2>6 DEF IsLog
  <2> QED
    BY <1>7, <2>7, <2>8
<1>10. Backed(r, E)
  <2>1. ~x.forged /\ x.digest \in {"own", "other"}
    BY <1>1, <1>4 DEF RowOk
  <2> QED
    BY <1>4, <1>6, <1>8, <2>1 DEF Backed, Told
<1>11. Unnamed(r, E)
  BY <1>4, <1>8 DEF Unnamed
<1>12. r.id = carecords[i].id /\ r.prev = carecords[i].prev /\ r.hash = carecords[i].hash
  BY <1>4, <1>8
<1>13. EventsOk(E, canow') /\ IsLog(caevents') /\ E = Items(caevents') /\ Items(caevents) \subseteq E
       /\ \A e \in E : e \in Items(caevents) \/ e.id = r.id
  BY <1>2, <1>3 DEF EventsOk
<1> QED
  BY <1>2, <1>8, <1>9, <1>10, <1>11, <1>12, <1>13, RowMoved

LEMMA RowGone ==
  ASSUME CapsuleInv, Capsule!Drop
  PROVE  CapsuleInv'
<1>1. PICK k \in DOMAIN carecords :
        /\ carecords' = Capsule!RemoveAt(carecords, k)
        /\ calinked' = IF k < Len(carecords) THEN calinked
                       ELSE {id \in calinked : k > 1 /\ id <= carecords[k - 1].id}
  BY DEF Capsule!Drop
<1>2. /\ canow \in Nat /\ canow' = canow + 1 /\ caevents' = caevents /\ caenv' = caenv
      /\ carow' = carow /\ cabuild' = cabuild
  BY DEF CapsuleInv, DbInv, Capsule!Drop, Capsule!Tick
<1>3. LogOf(carecords, calinked)
  BY DEF LogOf, CapsuleInv, DbInv
<1>4. PICK t : t = SubSeq(carecords, 1, k - 1) \o SubSeq(carecords, k + 1, Len(carecords))
  OBVIOUS
<1>5. PICK K : K = IF k < Len(carecords) THEN calinked
                   ELSE {m \in calinked : k > 1 /\ m <= carecords[k - 1].id}
  OBVIOUS
<1>6. LogOf(t, K) /\ Items(t) \subseteq Items(carecords) /\ K \subseteq calinked
  <2>1. Without(t, carecords, k) /\ Ending(K, carecords, k, calinked)
    BY <1>4, <1>5 DEF Without, Ending
  <2> QED
    BY <1>3, <2>1, RowDropped
<1>7. carecords' = t /\ calinked' = K
  BY <1>1, <1>4, <1>5 DEF Capsule!RemoveAt
<1>8. Items(caevents') = Items(caevents) /\ EventsOk(Items(caevents), canow + 1) /\ IsLog(caevents')
  BY <1>2 DEF CapsuleInv, DbInv, EventsOk
<1>9. \A r \in Items(carecords') : RowOk(r) /\ Backed(r, Items(caevents')) /\ Unnamed(r, Items(caevents'))
  BY <1>6, <1>7, <1>8 DEF CapsuleInv, DbInv
<1>10. \A m \in calinked' : m <= canow'
  BY <1>2, <1>6, <1>7 DEF CapsuleInv, DbInv, Chained
<1>11. KeyRow(carow', canow')
  BY <1>2 DEF CapsuleInv, DbInv, KeyRow
<1>12. caenv' \in {"active", "retired"} /\ canow' \in Nat /\ canow <= canow'
  BY <1>2 DEF CapsuleInv, DbInv
<1>13. DbInv'
  BY <1>2, <1>6, <1>7, <1>8, <1>9, <1>10, <1>11, <1>12 DEF DbInv, LogOf
<1> QED
  BY <1>2, <1>8, <1>12, <1>13, DbMoved

LEMMA KeyMoved ==
  ASSUME CapsuleInv, Capsule!Register \/ Capsule!Revoke
  PROVE  CapsuleInv'
<1>1. /\ canow \in Nat /\ canow' = canow + 1 /\ caevents' = caevents /\ caenv' = caenv
      /\ carecords' = carecords /\ calinked' = calinked /\ cabuild' = cabuild
  BY DEF CapsuleInv, DbInv, Capsule!Register, Capsule!Revoke, Capsule!Tick
<1>2. KeyRow(carow', canow')
  BY <1>1 DEF KeyRow, Capsule!Register, Capsule!Revoke
<1>3. EventsOk(Items(caevents'), canow')
  BY <1>1 DEF CapsuleInv, DbInv, EventsOk
<1>4. \A m \in calinked' : m <= canow'
  BY <1>1 DEF CapsuleInv, DbInv, Chained
<1>5. /\ IsLog(carecords') /\ IsLog(caevents') /\ Rising(carecords') /\ Chained(Items(carecords'), calinked')
      /\ \A r \in Items(carecords') : RowOk(r) /\ Backed(r, Items(caevents')) /\ Unnamed(r, Items(caevents'))
  BY <1>1 DEF CapsuleInv, DbInv
<1>6. /\ caenv' \in {"active", "retired"} /\ canow' \in Nat /\ canow <= canow'
      /\ Items(caevents) \subseteq Items(caevents')
  BY <1>1 DEF CapsuleInv, DbInv
<1>7. DbInv'
  BY <1>2, <1>3, <1>4, <1>5, <1>6 DEF DbInv
<1> QED
  BY <1>1, <1>6, <1>7, DbMoved

\* a build takes a step, the database stays
LEMMA BuildMoved ==
  ASSUME CapsuleInv, NEW b \in Builds, NEW w, cabuild' = [cabuild EXCEPT ![b] = w],
         BuildOk(w, Items(caevents), canow), UNCHANGED <<canow, carecords, caevents, caenv, carow, calinked>>
  PROVE  CapsuleInv'
<1>1. /\ canow' = canow /\ carecords' = carecords /\ caevents' = caevents /\ caenv' = caenv
      /\ carow' = carow /\ calinked' = calinked
  OBVIOUS
<1>2. DbInv'
  BY <1>1 DEF CapsuleInv, DbInv
<1>3. /\ cabuild' = [a \in Builds |-> cabuild'[a]]
      /\ \A a \in Builds : cabuild'[a] = IF a = b THEN w ELSE cabuild[a]
  BY DEF CapsuleInv
<1>4. \A a \in Builds : BuildOk(cabuild'[a], Items(caevents'), canow')
  BY <1>1, <1>3 DEF CapsuleInv
<1> QED
  BY <1>2, <1>3, <1>4 DEF CapsuleInv

LEMMA RecordsSelected ==
  ASSUME CapsuleInv, NEW b \in Builds, Capsule!ReadRecords(b)
  PROVE  CapsuleInv'
<1>1. PICK s \in Scopes :
        cabuild' = [cabuild EXCEPT ![b] = [Capsule!Waiting EXCEPT !.pc = "events", !.scope = s,
                      !.recs = Capsule!Selected(s), !.missing = Capsule!Missing(Capsule!Selected(s))]]
  BY DEF Capsule!ReadRecords
<1>2. PICK T : Capsule!Selected(s) = Capsule!Kept(carecords, T)
  BY DEF Capsule!Selected
<1>3. PICK x : x = Capsule!Selected(s) /\ x = Kept(carecords, T)
  BY <1>2 DEF Kept, Capsule!Kept
<1>4. LogOf(carecords, calinked)
  BY DEF LogOf, CapsuleInv, DbInv
<1>5. IsLog(x) /\ InPlace(x, carecords, Len(carecords))
  <2>1. PICK V : carecords \in Seq(V)
    BY <1>4 DEF LogOf, IsLog
  <2>2. Kept(carecords, T) \in Seq(V)
    BY <2>1, ItemsKept
  <2>3. InPlace(Kept(carecords, T), carecords, Len(carecords))
    BY <2>1, KeptInOrder
  <2> QED
    BY <1>3, <2>2, <2>3 DEF IsLog
<1>6. Rising(x) /\ Items(x) \subseteq Items(carecords)
  BY <1>4, <1>5, PartOfLog DEF LogOf
<1>7. PICK M : M = Capsule!Missing(x)
  OBVIOUS
<1>8. MissingOf(M, x, calinked)
  BY <1>7 DEF MissingOf, Capsule!Missing, Capsule!Last
<1>9. LinksMatch(x) <=> M = {}
  BY <1>4, <1>5, <1>6, <1>8, LinksShown DEF LogOf
<1>10. PICK w : w = BuildOf("events", s, x, <<>>, TRUE, Capsule!NoRow, 0, "none", M)
  OBVIOUS
<1>11. cabuild' = [cabuild EXCEPT ![b] = w]
  <2>1. PICK a : a = Capsule!Waiting
    OBVIOUS
  <2>2. PICK z : a = BuildOf("records", z, <<>>, <<>>, TRUE, Capsule!NoRow, 0, "none", {})
    BY <2>1 DEF Capsule!Waiting, BuildOf
  <2>3. PICK d : d = [a EXCEPT !.pc = "events"]
    OBVIOUS
  <2>4. PICK e : e = [d EXCEPT !.scope = s]
    OBVIOUS
  <2>5. PICK f : f = [e EXCEPT !.recs = x]
    OBVIOUS
  <2>6. PICK g : g = [f EXCEPT !.missing = M]
    OBVIOUS
  <2>7. d = BuildOf("events", z, <<>>, <<>>, TRUE, Capsule!NoRow, 0, "none", {})
    BY <2>2, <2>3 DEF BuildOf
  <2>8. e = BuildOf("events", s, <<>>, <<>>, TRUE, Capsule!NoRow, 0, "none", {})
    BY <2>4, <2>7 DEF BuildOf
  <2>9. f = BuildOf("events", s, x, <<>>, TRUE, Capsule!NoRow, 0, "none", {})
    BY <2>5, <2>8 DEF BuildOf
  <2>10. g = BuildOf("events", s, x, <<>>, TRUE, Capsule!NoRow, 0, "none", M)
    BY <2>6, <2>9 DEF BuildOf
  <2> QED
    BY <1>1, <1>3, <1>7, <1>10, <2>1, <2>3, <2>4, <2>5, <2>6, <2>10
<1>12. RowsRead(w, Items(caevents))
  <2>1. w.recs = x /\ w.missing = M
    BY <1>10 DEF BuildOf
  <2>2. \A r \in Items(x) : RowOk(r) /\ Backed(r, Items(caevents))
    BY <1>6 DEF CapsuleInv, DbInv
  <2> QED
    BY <1>5, <1>9, <2>1, <2>2 DEF RowsRead
<1>13. BuildOk(w, Items(caevents), canow)
  BY <1>10, <1>12 DEF BuildOk, BuildOf
<1>14. UNCHANGED <<canow, carecords, caevents, caenv, carow, calinked>>
  BY DEF Capsule!ReadRecords
<1> QED
  BY <1>11, <1>13, <1>14, BuildMoved

LEMMA EventsSelected ==
  ASSUME CapsuleInv, NEW b \in Builds, Capsule!ReadEvents(b)
  PROVE  CapsuleInv'
<1>1. PICK c : c = cabuild[b] /\ BuildOk(c, Items(caevents), canow) /\ c.pc = "events"
  BY DEF CapsuleInv, Capsule!ReadEvents
<1>2. PICK T : T = {e \in Capsule!Range(caevents) : Capsule!InRange(e.at, c.scope)}
  OBVIOUS
<1>3. PICK x : x = Capsule!Kept(caevents, T) /\ x = Kept(caevents, T)
  BY DEF Kept, Capsule!Kept
<1>4. IsLog(x) /\ Items(x) = Items(caevents) \cap T
  <2>1. PICK V : caevents \in Seq(V)
    BY DEF CapsuleInv, DbInv, IsLog
  <2>2. Kept(caevents, T) \in Seq(V) /\ Items(Kept(caevents, T)) = Items(caevents) \cap T
    BY <2>1, ItemsKept
  <2> QED
    BY <1>3, <2>2 DEF IsLog
<1>5. Items(x) = {e \in Items(caevents) : Capsule!InRange(e.at, c.scope)}
  BY <1>2, <1>4 DEF Capsule!Range, Items
<1>6. PICK signed \in BOOLEAN : signed <=> caenv # "retired"
  OBVIOUS
<1>7. PICK w : w = BuildOf("registry", c.scope, c.recs, x, signed, c.key, c.at, c.altered, c.missing)
  OBVIOUS
<1>8. cabuild' = [cabuild EXCEPT ![b] = w]
  <2>1. PICK d : d = [c EXCEPT !.pc = "registry"]
    OBVIOUS
  <2>2. PICK e : e = [d EXCEPT !.signed = (caenv # "retired")]
    OBVIOUS
  <2>3. PICK f : f = [e EXCEPT !.events = x]
    OBVIOUS
  <2>4. c = BuildOf(c.pc, c.scope, c.recs, c.events, c.signed, c.key, c.at, c.altered, c.missing)
    BY <1>1 DEF BuildOk
  <2>5. d = BuildOf("registry", c.scope, c.recs, c.events, c.signed, c.key, c.at, c.altered, c.missing)
    BY <2>1, <2>4 DEF BuildOf
  <2>6. e = BuildOf("registry", c.scope, c.recs, c.events, signed, c.key, c.at, c.altered, c.missing)
    BY <1>6, <2>2, <2>5 DEF BuildOf
  <2>7. f = w
    BY <1>7, <2>3, <2>6 DEF BuildOf
  <2>8. cabuild' = [cabuild EXCEPT ![b].pc = "registry", ![b].signed = (caenv # "retired"), ![b].events = x]
    <3>1. Capsule!Kept(caevents, {y \in Capsule!Range(caevents) : Capsule!InRange(y.at, cabuild[b].scope)}) = x
      BY <1>1, <1>2, <1>3
    <3>2. cabuild' = [cabuild EXCEPT ![b].pc = "registry", ![b].signed = (caenv # "retired"), ![b].events =
            Capsule!Kept(caevents, {y \in Capsule!Range(caevents) : Capsule!InRange(y.at, cabuild[b].scope)})]
      BY DEF Capsule!ReadEvents
    <3> QED
      BY <3>1, <3>2
  <2> QED
    BY <1>1, <2>1, <2>2, <2>3, <2>7, <2>8 DEF CapsuleInv
<1>9. RowsRead(w, Items(caevents))
  BY <1>1, <1>7 DEF BuildOk, RowsRead, BuildOf
<1>10. EventsRead(w, Items(caevents))
  BY <1>4, <1>5, <1>7 DEF EventsRead, BuildOf
<1>11. BuildOk(w, Items(caevents), canow)
  BY <1>1, <1>7, <1>9, <1>10 DEF BuildOk, BuildOf
<1>12. UNCHANGED <<canow, carecords, caevents, caenv, carow, calinked>>
  BY DEF Capsule!ReadEvents
<1> QED
  BY <1>8, <1>11, <1>12, BuildMoved

LEMMA RegistryRead ==
  ASSUME CapsuleInv, NEW b \in Builds, Capsule!ReadRegistry(b)
  PROVE  CapsuleInv'
<1>1. PICK c : c = cabuild[b] /\ BuildOk(c, Items(caevents), canow) /\ c.pc = "registry"
  BY DEF CapsuleInv, Capsule!ReadRegistry
<1>2. PICK key : key = IF carow # Capsule!NoRow THEN carow ELSE [status |-> caenv, at |-> 0]
  OBVIOUS
<1>3. KeyRead(key, canow)
  BY <1>2 DEF KeyRead, KeyRow, CapsuleInv, DbInv
<1>4. PICK w : w = BuildOf("sign", c.scope, c.recs, c.events, c.signed, key, c.at, c.altered, c.missing)
  OBVIOUS
<1>5. cabuild' = [cabuild EXCEPT ![b] = w]
  <2>1. PICK d : d = [c EXCEPT !.pc = "sign"]
    OBVIOUS
  <2>2. PICK e : e = [d EXCEPT !.key = key]
    OBVIOUS
  <2>3. c = BuildOf(c.pc, c.scope, c.recs, c.events, c.signed, c.key, c.at, c.altered, c.missing)
    BY <1>1 DEF BuildOk
  <2>4. d = BuildOf("sign", c.scope, c.recs, c.events, c.signed, c.key, c.at, c.altered, c.missing)
    BY <2>1, <2>3 DEF BuildOf
  <2>5. e = w
    BY <1>4, <2>2, <2>4 DEF BuildOf
  <2> QED
    BY <1>1, <1>2, <2>1, <2>2, <2>5 DEF CapsuleInv, Capsule!ReadRegistry
<1>6. RowsRead(w, Items(caevents))
  BY <1>1, <1>4 DEF BuildOk, RowsRead, BuildOf
<1>7. EventsRead(w, Items(caevents))
  BY <1>1, <1>4 DEF BuildOk, EventsRead, BuildOf
<1>8. BuildOk(w, Items(caevents), canow)
  BY <1>1, <1>3, <1>4, <1>6, <1>7 DEF BuildOk, BuildOf
<1>9. UNCHANGED <<canow, carecords, caevents, caenv, carow, calinked>>
  BY DEF Capsule!ReadRegistry
<1> QED
  BY <1>5, <1>8, <1>9, BuildMoved

LEMMA CapsuleSigned ==
  ASSUME CapsuleInv, NEW b \in Builds, Capsule!Sign(b)
  PROVE  CapsuleInv'
<1>1. PICK c : c = cabuild[b] /\ BuildOk(c, Items(caevents), canow) /\ c.pc = "sign"
  BY DEF CapsuleInv, Capsule!Sign
<1>2. PICK w : w = BuildOf("signed", c.scope, c.recs, c.events, c.signed, c.key, canow, c.altered, c.missing)
  OBVIOUS
<1>3. cabuild' = [cabuild EXCEPT ![b] = w]
  <2>1. PICK d : d = [c EXCEPT !.pc = "signed"]
    OBVIOUS
  <2>2. PICK e : e = [d EXCEPT !.at = canow]
    OBVIOUS
  <2>3. c = BuildOf(c.pc, c.scope, c.recs, c.events, c.signed, c.key, c.at, c.altered, c.missing)
    BY <1>1 DEF BuildOk
  <2>4. d = BuildOf("signed", c.scope, c.recs, c.events, c.signed, c.key, c.at, c.altered, c.missing)
    BY <2>1, <2>3 DEF BuildOf
  <2>5. e = w
    BY <1>2, <2>2, <2>4 DEF BuildOf
  <2> QED
    BY <1>1, <2>1, <2>2, <2>5 DEF CapsuleInv, Capsule!Sign
<1>4. RowsRead(w, Items(caevents))
  BY <1>1, <1>2 DEF BuildOk, RowsRead, BuildOf
<1>5. EventsRead(w, Items(caevents))
  BY <1>1, <1>2 DEF BuildOk, EventsRead, BuildOf
<1>6. canow \in Nat
  BY DEF CapsuleInv, DbInv
<1>7. BuildOk(w, Items(caevents), canow)
  BY <1>1, <1>2, <1>4, <1>5, <1>6 DEF BuildOk, BuildOf
<1>8. UNCHANGED <<canow, carecords, caevents, caenv, carow, calinked>>
  BY DEF Capsule!Sign
<1> QED
  BY <1>3, <1>7, <1>8, BuildMoved

LEMMA CapsuleAltered ==
  ASSUME CapsuleInv, NEW b \in Builds, Capsule!Alter(b)
  PROVE  CapsuleInv'
<1>1. PICK c : c = cabuild[b] /\ BuildOk(c, Items(caevents), canow) /\ c.pc = "signed"
  BY DEF CapsuleInv, Capsule!Alter
<1>2. PICK part \in {"document", "keyId", "file"} : cabuild' = [cabuild EXCEPT ![b].altered = part]
  BY DEF Capsule!Alter
<1>3. PICK w : w = BuildOf(c.pc, c.scope, c.recs, c.events, c.signed, c.key, c.at, part, c.missing)
  OBVIOUS
<1>4. cabuild' = [cabuild EXCEPT ![b] = w]
  <2>1. PICK d : d = [c EXCEPT !.altered = part]
    OBVIOUS
  <2>2. c = BuildOf(c.pc, c.scope, c.recs, c.events, c.signed, c.key, c.at, c.altered, c.missing)
    BY <1>1 DEF BuildOk
  <2>3. d = w
    BY <1>3, <2>1, <2>2 DEF BuildOf
  <2> QED
    BY <1>1, <1>2, <2>1, <2>3 DEF CapsuleInv
<1>5. RowsRead(w, Items(caevents))
  BY <1>1, <1>3 DEF BuildOk, RowsRead, BuildOf
<1>6. EventsRead(w, Items(caevents))
  BY <1>1, <1>3 DEF BuildOk, EventsRead, BuildOf
<1>7. BuildOk(w, Items(caevents), canow)
  BY <1>1, <1>3, <1>5, <1>6 DEF BuildOk, BuildOf
<1>8. UNCHANGED <<canow, carecords, caevents, caenv, carow, calinked>>
  BY DEF Capsule!Alter
<1> QED
  BY <1>4, <1>7, <1>8, BuildMoved

LEMMA CapsuleStep == CapsuleInv /\ [Capsule!Next]_caVars => CapsuleInv'
<1> SUFFICES ASSUME CapsuleInv, [Capsule!Next]_caVars PROVE CapsuleInv'
  OBVIOUS
<1>1. CASE \E b \in Builds : \/ Capsule!ReadRecords(b) \/ Capsule!ReadEvents(b) \/ Capsule!ReadRegistry(b)
                             \/ Capsule!Sign(b) \/ Capsule!Alter(b)
  BY <1>1, RecordsSelected, EventsSelected, RegistryRead, CapsuleSigned, CapsuleAltered
<1>2. CASE Capsule!Ingest \/ Capsule!Rewrite \/ Capsule!Drop \/ Capsule!Register \/ Capsule!Revoke
  BY <1>2, RecordIngested, RowRewritten, RowGone, KeyMoved
<1>3. CASE Capsule!Lifecycle("redaction")
  BY <1>3, Shortened
<1>4. CASE Capsule!Lifecycle("deletion")
  BY <1>4, Shortened
<1>5. CASE UNCHANGED caVars
  <2>1. /\ canow' = canow /\ carecords' = carecords /\ caevents' = caevents /\ caenv' = caenv
        /\ carow' = carow /\ calinked' = calinked /\ cabuild' = cabuild
    BY <1>5 DEF caVars
  <2> QED
    BY <2>1 DEF CapsuleInv, DbInv
<1> QED
  BY <1>1, <1>2, <1>3, <1>4, <1>5 DEF Capsule!Next

\* what the verifier finds of an entry is what happened to its record
NotBacked(c, r, E) ==
  r.state # "active" /\ (\/ ~c.signed
                        \/ \A e \in E : e.id = r.id /\ Capsule!InRange(e.at, c.scope)
                                          => (e.type = "deletion") # (r.state = "deleted"))

LEMMA EntryShown ==
  ASSUME NEW c, NEW E, NEW n, BuildOk(c, E, n), c.pc = "signed", EventsOk(E, n), NEW r \in Items(c.recs)
  PROVE  Capsule!EntryOk(c, r) <=> ~r.forged /\ ~NotBacked(c, r, E)
<1>1. RowOk(r) /\ Backed(r, E) /\ EventsRead(c, E)
  BY DEF BuildOk, RowsRead
<1>2. CASE r.state = "active"
  BY <1>1, <1>2, TextShown DEF Capsule!EntryOk, NotBacked
<1>3. CASE r.state # "active"
  <2>1. PICK e \in E : Told(e, r) /\ (e.digest = r.digest <=> ~r.forged)
    BY <1>1, <1>3 DEF Backed
  <2>2. \A f \in E : Told(f, r) => f = e
    BY <2>1 DEF Told, EventsOk
  <2>3. PICK T : T = {f \in Capsule!Range(c.events) : f.id = r.id
                       /\ f.type = IF r.state = "deleted" THEN "deletion" ELSE "redaction"}
    OBVIOUS
  <2>4. PICK x : x = Capsule!Kept(c.events, T) /\ x = Kept(c.events, T)
    BY DEF Kept, Capsule!Kept
  <2>5. IsLog(x) /\ Items(x) = Items(c.events) \cap T
    <3>1. PICK V : c.events \in Seq(V)
      BY <1>1 DEF EventsRead, IsLog
    <3>2. Kept(c.events, T) \in Seq(V) /\ Items(Kept(c.events, T)) = Items(c.events) \cap T
      BY <3>1, ItemsKept
    <3> QED
      BY <2>4, <3>2 DEF IsLog
  <2>6. \A f \in Items(c.events) : f \in T <=> Told(f, r)
    <3>1. \A f \in Items(c.events) : f.type \in {"redaction", "deletion"} /\ f \in Capsule!Range(c.events)
      BY <1>1 DEF EventsRead, EventsOk, Capsule!Range, Items
    <3> QED
      BY <2>3, <3>1 DEF Told
  <2>7. \A f \in Items(x) : f = e /\ Capsule!InRange(e.at, c.scope)
    BY <1>1, <2>2, <2>5, <2>6 DEF EventsRead
  <2>8. Capsule!InRange(e.at, c.scope) => e \in Items(x)
    BY <1>1, <1>3, <2>1, <2>5, <2>6 DEF EventsRead
  <2>9. x # <<>> => Capsule!Last(x) = e
    <3>1. ASSUME x # <<>> PROVE x[Len(x)] \in Items(x)
      <4>1. PICK V : x \in Seq(V)
        BY <2>5 DEF IsLog
      <4>2. Len(x) \in 1..Len(x)
        BY <3>1, <4>1, EmptySeq
      <4> QED
        BY <4>1, <4>2, ItemIn
    <3> QED
      BY <2>7, <3>1 DEF Capsule!Last
  <2>10. x = <<>> => Items(x) = {}
    BY ItemsEmpty
  <2>11. x # <<>> => e \in Items(x)
    <3>1. ASSUME x # <<>> PROVE x[Len(x)] \in Items(x)
      <4>1. PICK V : x \in Seq(V)
        BY <2>5 DEF IsLog
      <4>2. Len(x) \in 1..Len(x)
        BY <3>1, <4>1, EmptySeq
      <4> QED
        BY <4>1, <4>2, ItemIn
    <3> QED
      BY <2>7, <3>1
  <2>12. x # <<>> <=> Capsule!InRange(e.at, c.scope)
    BY <2>7, <2>8, <2>10, <2>11
  <2>13. NotBacked(c, r, E) <=> ~c.signed \/ ~Capsule!InRange(e.at, c.scope)
    BY <1>3, <2>1, <2>2 DEF NotBacked, Told
  <2>14. Capsule!EntryOk(c, r) <=> x # <<>> /\ c.signed /\ Capsule!Last(x).digest = r.digest
    BY <1>3, <2>3, <2>4 DEF Capsule!EntryOk
  <2> QED
    BY <2>1, <2>9, <2>12, <2>13, <2>14
<1> QED
  BY <1>2, <1>3

LEMMA CapsuleHolds == CapsuleInv => Capsule!CapsuleHonest
<1> SUFFICES ASSUME CapsuleInv, NEW b \in Builds, cabuild[b].pc = "signed", NEW c, c = cabuild[b]
             PROVE  /\ c.altered = "none" =>
                         (Capsule!Verdict(c) = "tampered"
                            <=> \/ \E i \in DOMAIN c.recs : c.recs[i].forged
                                \/ c.missing # {}
                                \/ \E i \in DOMAIN c.recs : NotBacked(c, c.recs[i], Items(caevents)))
                    /\ c.altered # "none" => Capsule!Verdict(c) \in {"tampered", "unverifiable"}
                    /\ c.key.status # "active" => Capsule!Verdict(c) \notin {"valid", "valid_with_redactions"}
  BY DEF Capsule!CapsuleHonest, NotBacked, Items
<1>1. BuildOk(c, Items(caevents), canow) /\ EventsOk(Items(caevents), canow)
  BY DEF CapsuleInv, DbInv
<1>2. \A i \in DOMAIN c.recs : Capsule!EntryOk(c, c.recs[i])
                               <=> ~c.recs[i].forged /\ ~NotBacked(c, c.recs[i], Items(caevents))
  BY <1>1, EntryShown DEF Items
<1>3. LinksMatch(c.recs) <=> c.missing = {}
  BY <1>1 DEF BuildOk, RowsRead
<1>4. Capsule!ChainOk(c) <=> /\ \A i \in DOMAIN c.recs : Capsule!EntryOk(c, c.recs[i])
                             /\ LinksMatch(c.recs)
  BY DEF Capsule!ChainOk, LinksMatch
<1>5. Capsule!ChainOk(c) <=> /\ \A i \in DOMAIN c.recs : ~c.recs[i].forged
                             /\ \A i \in DOMAIN c.recs : ~NotBacked(c, c.recs[i], Items(caevents))
                             /\ c.missing = {}
  BY <1>2, <1>3, <1>4
<1>6. c.altered = "none" => (Capsule!Verdict(c) = "tampered" <=> ~Capsule!ChainOk(c))
  BY DEF Capsule!Verdict
<1>7. c.altered \in {"none", "document", "keyId", "file"} /\ c.at \in Nat /\ KeyRead(c.key, c.at)
  BY <1>1 DEF BuildOk
<1>8. c.altered # "none" => Capsule!Verdict(c) \in {"tampered", "unverifiable"}
  BY <1>7 DEF Capsule!Verdict
<1>9. c.key.status # "active" => Capsule!KeyStatus(c) # "valid"
  BY <1>7 DEF Capsule!KeyStatus, KeyRead
<1>10. c.key.status # "active" => Capsule!Verdict(c) \notin {"valid", "valid_with_redactions"}
  BY <1>9 DEF Capsule!Verdict
<1> QED
  BY <1>5, <1>6, <1>8, <1>10

LEMMA CapsuleMoves == [Next]_vars => [Capsule!Next]_caVars
  BY DEF Next, vars, PolicyKeeps, RecallsKeeps, ResultsKeeps, LedgerKeeps, CertsKeeps, WitnessesKeeps,
         GateKeeps, ExportsKeeps, NoticesKeeps

\* Whatever went on while a capsule was built, its verdict is tampered exactly when a record in it was
\* rewritten, the chain leads to one that is not there or the event of a redacted one is out of its
\* reach; a capsule that was altered, or whose key was revoked, is never found valid.
THEOREM CapsulesStand == Spec => []Capsule!CapsuleHonest
<1>1. Init => CapsuleInv
  BY CapsuleInit DEF Init
<1>2. CapsuleInv /\ [Next]_vars => CapsuleInv'
  BY CapsuleStep, CapsuleMoves
<1> QED
  BY <1>1, <1>2, CapsuleHolds, PTL DEF Spec

-------------------------------------------------------------------------------
(* Evidence.                                                                    *)

\* What is shown to others stands, of all five components: action chains fork only where batches
\* overlapped, certificates say what was true, a witnessed root gives a rewriting away, the verdict on
\* a capsule is what happened to its records, and the merge gate passes on a review that stands.
THEOREM EvidenceIsSound == Spec => []EvidenceStands
<1>1. Spec => []Ledger!LinksKept /\ []Ledger!ForksOverlap
  BY ActionsLinked
<1>2. Spec => []Certs!CertifiedFacts
  BY CertificatesStand
<1>3. Spec => []Witnesses!RewriteShows
  BY WitnessesStand
<1>4. Spec => []Capsule!CapsuleHonest
  BY CapsulesStand
<1>5. Spec => []Gate!GateSound /\ []Gate!OwnTime
  BY ReviewsStand
<1> QED
  BY <1>1, <1>2, <1>3, <1>4, <1>5, PTL DEF EvidenceStands
===============================================================================
