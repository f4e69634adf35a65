----------------------------- MODULE Access_proofs -----------------------------
(* Proofs about the components that decide who may call the backend, for every  *)
(* number of requests, users, codes, tokens and connections.                    *)
EXTENDS MCAccess, SequenceFacts

\* the instances count with the same operator
LEMMA SameCardinality ==
  \A S : Pairing!Cardinality(S) = Cardinality(S) /\ Onboarding!Cardinality(S) = Cardinality(S)
  BY DEF Pairing!Cardinality, Onboarding!Cardinality, Cardinality

\* a set of which any two elements are the same
LEMMA AtMostOne ==
  ASSUME NEW S, \A x, y \in S : x = y
  PROVE  Cardinality(S) <= 1
<1>1. CASE S = {}
  BY <1>1, FS_EmptySet
<1>2. CASE S # {}
  <2>1. PICK x : S = {x}
    BY <1>2
  <2> QED
    BY <2>1, FS_Singleton
<1> QED
  BY <1>1, <1>2

-------------------------------------------------------------------------------
(* Pairing codes.  The counter of a code that no two redemptions raced for is   *)
(* the number of keys minted from it.                                           *)

PairingTyped ==
  /\ paircode \in [Codes -> Pairing!Row]
  /\ IsFiniteSet(pairkeys) /\ \A k \in pairkeys : k.id \in 1..Cardinality(pairkeys)
  /\ DOMAIN pairtx = Workers
  /\ \A w \in Workers : pairtx[w].pc # "idle" =>
       pairtx[w].code \in Codes /\ pairtx[w].seen \in Pairing!Row

Counted == \A c \in Codes : c \notin pairraced =>
             paircode[c].used = Cardinality(Pairing!Minted(c)) /\ paircode[c].used <= MaxUses

PairingInv == PairingTyped /\ Counted /\ Pairing!LimitLocks

\* the keys of a code are finitely many
LEMMA MintedFinite ==
  ASSUME PairingTyped, NEW c
  PROVE  IsFiniteSet(Pairing!Minted(c)) /\ Cardinality(Pairing!Minted(c)) \in Nat
<1>1. Pairing!Minted(c) \subseteq pairkeys /\ IsFiniteSet(pairkeys)
  BY DEF Pairing!Minted, PairingTyped
<1> QED
  BY <1>1, FS_Subset, FS_CardinalityType

\* a key that is minted is a new one
LEMMA MintAdds ==
  ASSUME PairingTyped, NEW c, NEW k, k = [id |-> Cardinality(pairkeys) + 1, code |-> c],
         pairkeys' = pairkeys \cup {k}
  PROVE  /\ IsFiniteSet(pairkeys') /\ \A j \in pairkeys' : j.id \in 1..Cardinality(pairkeys')
         /\ Cardinality(Pairing!Minted(c))' = Cardinality(Pairing!Minted(c)) + 1
         /\ \A d : d # c => Pairing!Minted(d)' = Pairing!Minted(d)
<1>1. Cardinality(pairkeys) \in Nat /\ k \notin pairkeys /\ k.code = c
  BY FS_CardinalityType DEF PairingTyped
<1>2. IsFiniteSet(pairkeys') /\ Cardinality(pairkeys') = Cardinality(pairkeys) + 1
  BY <1>1, FS_AddElement DEF PairingTyped
<1>3. \A j \in pairkeys' : j.id \in 1..Cardinality(pairkeys')
  BY <1>1, <1>2 DEF PairingTyped
<1>4. Pairing!Minted(c)' = Pairing!Minted(c) \cup {k} /\ k \notin Pairing!Minted(c)
  BY <1>1 DEF Pairing!Minted
<1>5. Cardinality(Pairing!Minted(c)') = Cardinality(Pairing!Minted(c)) + 1
  BY <1>4, MintedFinite, FS_AddElement
<1>6. ASSUME NEW d, d # c PROVE Pairing!Minted(d)' = Pairing!Minted(d)
  BY <1>1, <1>6 DEF Pairing!Minted
<1> QED
  BY <1>2, <1>3, <1>5, <1>6

LEMMA PairingInit == Pairing!Init => PairingInv
<1> SUFFICES ASSUME Pairing!Init PROVE PairingInv
  OBVIOUS
<1>1. PairingTyped
  BY FS_EmptySet DEF Pairing!Init, Pairing!Idle, Pairing!Row, PairingTyped
<1>2. \A c \in Codes : Pairing!Minted(c) = {}
  BY DEF Pairing!Init, Pairing!Minted
<1>3. Counted
  BY <1>2, FS_EmptySet, UsesAssumption DEF Counted, Pairing!Init
<1>4. Pairing!LimitLocks
  BY AttemptsAssumption DEF Pairing!LimitLocks, Pairing!Init
<1> QED
  BY <1>1, <1>3, <1>4 DEF PairingInv

\* a committed row is overwritten by another
LEMMA PairingWrite ==
  ASSUME PairingInv, NEW c \in Codes, NEW row \in Pairing!Row, paircode' = [paircode EXCEPT ![c] = row]
  PROVE  /\ paircode' \in [Codes -> Pairing!Row] /\ paircode'[c] = row
         /\ \A d \in Codes : d # c => paircode'[d] = paircode[d]
  BY DEF PairingInv, PairingTyped

\* a request ends
LEMMA PairingEnd ==
  ASSUME PairingInv, NEW w \in Workers, pairtx' = [pairtx EXCEPT ![w] = Pairing!Idle]
  PROVE  /\ DOMAIN pairtx' = Workers
         /\ \A v \in Workers : pairtx'[v].pc # "idle" =>
              pairtx'[v].code \in Codes /\ pairtx'[v].seen \in Pairing!Row
  BY DEF PairingInv, PairingTyped, Pairing!Idle

LEMMA PairingStep == PairingInv /\ [Pairing!Next]_pairVars => PairingInv'
<1> SUFFICES ASSUME PairingInv, [Pairing!Next]_pairVars PROVE PairingInv'
  OBVIOUS
<1>0. PairingTyped /\ Counted /\ Pairing!LimitLocks
  BY DEF PairingInv
<1>1. ASSUME NEW c \in Codes, Pairing!Create(c) \/ Pairing!Expire(c) PROVE PairingInv'
  <2> DEFINE old == paircode[c]
  <2>1. PICK row : /\ row \in {[old EXCEPT !.created = TRUE], [old EXCEPT !.expired = TRUE]}
                   /\ paircode' = [paircode EXCEPT ![c] = row]
    BY <1>0, <1>1 DEF Pairing!Create, Pairing!Expire
  <2>2. /\ row \in Pairing!Row /\ row.used = old.used /\ row.attempts = old.attempts
        /\ row.revoked = old.revoked
    <3>1. old \in Pairing!Row
      BY <1>0 DEF PairingTyped
    <3> HIDE DEF old
    <3> QED
      BY <2>1, <3>1 DEF Pairing!Row
  <2>3. UNCHANGED <<pairkeys, pairtx, pairraced>>
    BY <1>1 DEF Pairing!Create, Pairing!Expire
  <2>4. /\ paircode' \in [Codes -> Pairing!Row] /\ paircode'[c] = row
        /\ \A d \in Codes : d # c => paircode'[d] = paircode[d]
    BY <2>1, <2>2, PairingWrite
  <2> QED
    BY <1>0, <2>2, <2>3, <2>4
       DEF PairingInv, PairingTyped, Counted, Pairing!LimitLocks, Pairing!Minted
<1>2. ASSUME NEW w \in Workers, NEW c \in Codes, Pairing!Select(w, c) \/ Pairing!RevokeSelect(w, c)
      PROVE  PairingInv'
  <2>1. PICK t : /\ t \in {[pc |-> "redeeming", code |-> c, seen |-> paircode[c]],
                           [pc |-> "revoking", code |-> c, seen |-> paircode[c]]}
                 /\ pairtx' = [pairtx EXCEPT ![w] = t]
    BY <1>2 DEF Pairing!Select, Pairing!RevokeSelect
  <2>2. t.code = c /\ t.seen \in Pairing!Row
    BY <1>0, <2>1 DEF PairingTyped
  <2>3. UNCHANGED <<paircode, pairkeys, pairraced>>
    BY <1>2 DEF Pairing!Select, Pairing!RevokeSelect
  <2> QED
    BY <1>0, <2>1, <2>2, <2>3
       DEF PairingInv, PairingTyped, Counted, Pairing!LimitLocks, Pairing!Minted
<1>3. ASSUME NEW w \in Workers, Pairing!Mint(w) PROVE PairingInv'
  <2> DEFINE seen == pairtx[w].seen
  <2>0. PICK c : c = pairtx[w].code
    OBVIOUS
  <2> DEFINE old == paircode[c]
  <2>1. /\ pairtx[w].pc = "redeeming" /\ ~(seen.used >= MaxUses)
        /\ pairtx' = [pairtx EXCEPT ![w] = Pairing!Idle]
        /\ pairraced' = IF seen.used # old.used THEN pairraced \cup {c} ELSE pairraced
    BY <1>3, <2>0 DEF Pairing!Mint, Pairing!Status, Pairing!Seen
  <2>2. c \in Codes /\ seen \in Pairing!Row /\ old \in Pairing!Row
    BY <1>0, <2>0, <2>1 DEF PairingTyped
  <2>3. PICK k : k = [id |-> Cardinality(pairkeys) + 1, code |-> c] /\ pairkeys' = pairkeys \cup {k}
    BY <1>3, <2>0, SameCardinality DEF Pairing!Mint
  <2>4. PICK row : row = [old EXCEPT !.used = seen.used + 1] /\ paircode' = [paircode EXCEPT ![c] = row]
    BY <1>3, <2>0 DEF Pairing!Mint, Pairing!Seen
  <2>5. /\ row \in Pairing!Row /\ row.used = seen.used + 1
        /\ row.attempts = old.attempts /\ row.revoked = old.revoked
    <3> HIDE DEF seen, old
    <3> QED
      BY <2>2, <2>4 DEF Pairing!Row
  <2>6. /\ paircode' \in [Codes -> Pairing!Row] /\ paircode'[c] = row
        /\ \A d \in Codes : d # c => paircode'[d] = paircode[d]
    BY <2>2, <2>4, <2>5, PairingWrite
  <2>7. /\ IsFiniteSet(pairkeys') /\ \A j \in pairkeys' : j.id \in 1..Cardinality(pairkeys')
        /\ Cardinality(Pairing!Minted(c))' = Cardinality(Pairing!Minted(c)) + 1
        /\ \A d : d # c => Pairing!Minted(d)' = Pairing!Minted(d)
    BY <1>0, <2>3, MintAdds
  <2>8. PairingTyped'
    BY <2>1, <2>6, <2>7, PairingEnd DEF PairingTyped
  <2>9. ASSUME NEW d \in Codes, d \notin pairraced'
        PROVE  paircode'[d].used = Cardinality(Pairing!Minted(d))' /\ paircode'[d].used <= MaxUses
    <3>1. d \notin pairraced /\ (d = c => seen.used = old.used)
      BY <2>1, <2>9
    <3>2. paircode[d].used = Cardinality(Pairing!Minted(d)) /\ paircode[d].used <= MaxUses
      BY <1>0, <3>1 DEF Counted
    <3>3. CASE d = c
      <4>1. seen.used \in Nat /\ seen.used < MaxUses
        BY <2>1, <2>2, UsesAssumption DEF Pairing!Row
      <4> QED
        BY <2>5, <2>6, <2>7, <3>1, <3>2, <3>3, <4>1, UsesAssumption
    <3>4. CASE d # c
      BY <2>6, <2>7, <3>2, <3>4
    <3> QED
      BY <3>3, <3>4
  <2>10. Pairing!LimitLocks'
    BY <1>0, <2>5, <2>6 DEF Pairing!LimitLocks
  <2> QED
    BY <2>8, <2>9, <2>10 DEF PairingInv, Counted
<1>4. ASSUME NEW w \in Workers, Pairing!RecordFailed(w) \/ Pairing!RevokeCommit(w) PROVE PairingInv'
  <2> DEFINE seen == pairtx[w].seen
  <2>0. PICK c : c = pairtx[w].code
    OBVIOUS
  <2> DEFINE old == paircode[c]
  <2>1. /\ pairtx[w].pc # "idle" /\ pairtx' = [pairtx EXCEPT ![w] = Pairing!Idle]
        /\ pairkeys' = pairkeys /\ pairraced \subseteq pairraced'
    BY <1>4 DEF Pairing!RecordFailed, Pairing!RevokeCommit
  <2>2. c \in Codes /\ seen \in Pairing!Row /\ old \in Pairing!Row
    BY <1>0, <2>0, <2>1 DEF PairingTyped
  <2> DEFINE locked == old.revoked \/ seen.attempts + 1 >= MaxAttempts
  <2> DEFINE failed == [old EXCEPT !.attempts = seen.attempts + 1, !.revoked = locked]
  <2>3. PICK row : /\ row \in {failed, [old EXCEPT !.revoked = TRUE]}
                   /\ paircode' = [paircode EXCEPT ![c] = row]
    <3>1. CASE Pairing!RecordFailed(w)
      <4>1. paircode' = [paircode EXCEPT ![c] = failed]
        BY <1>0, <2>0, <2>2, <3>1 DEF Pairing!RecordFailed, Pairing!Seen, PairingTyped
      <4> HIDE DEF failed
      <4> QED
        BY <4>1
    <3>2. CASE Pairing!RevokeCommit(w)
      BY <2>0, <3>2 DEF Pairing!RevokeCommit
    <3> QED
      BY <1>4, <3>1, <3>2
  <2>4. row \in Pairing!Row /\ row.used = old.used /\ (row.attempts >= MaxAttempts => row.revoked)
    <3>1. locked \in BOOLEAN /\ seen.attempts + 1 \in Nat
      BY <2>2 DEF Pairing!Row
    <3>2. CASE row = failed
      <4>1. PICK n \in Nat, b \in BOOLEAN : n = seen.attempts + 1 /\ b = locked
        BY <3>1
      <4>2. n >= MaxAttempts => b
        BY <4>1
      <4>3. row = [old EXCEPT !.attempts = n, !.revoked = b]
        BY <3>2, <4>1
      <4> HIDE DEF seen, old, locked, failed
      <4> QED
        BY <2>2, <4>2, <4>3 DEF Pairing!Row
    <3>3. CASE row = [old EXCEPT !.revoked = TRUE]
      <4> HIDE DEF seen, old, locked, failed
      <4> QED
        BY <2>2, <3>3 DEF Pairing!Row
    <3> QED
      BY <2>3, <3>2, <3>3
  <2>5. /\ paircode' \in [Codes -> Pairing!Row] /\ paircode'[c] = row
        /\ \A d \in Codes : d # c => paircode'[d] = paircode[d]
    BY <2>2, <2>3, <2>4, PairingWrite
  <2>6. PairingTyped'
    BY <1>0, <2>1, <2>5, PairingEnd DEF PairingTyped
  <2>7. Counted' /\ Pairing!LimitLocks'
    BY <1>0, <2>1, <2>4, <2>5 DEF Counted, Pairing!LimitLocks, Pairing!Minted
  <2> QED
    BY <2>6, <2>7 DEF PairingInv
<1>5. ASSUME NEW w \in Workers, Pairing!Fail(w) PROVE PairingInv'
  <2>1. UNCHANGED <<paircode, pairkeys, pairraced>> /\ pairtx' = [pairtx EXCEPT ![w] = Pairing!Idle]
    BY <1>5 DEF Pairing!Fail
  <2> QED
    BY <1>0, <2>1, PairingEnd
       DEF PairingInv, PairingTyped, Counted, Pairing!LimitLocks, Pairing!Minted
<1>6. CASE UNCHANGED pairVars
  BY <1>0, <1>6 DEF pairVars, PairingInv, PairingTyped, Counted, Pairing!LimitLocks, Pairing!Minted
<1> QED
  BY <1>1, <1>2, <1>3, <1>4, <1>5, <1>6 DEF Pairing!Next

\* a revoked code is never active again
LEMMA RevokedStep ==
  PairingInv /\ [Pairing!Next]_pairVars =>
    \A c \in Codes : paircode[c].revoked => paircode'[c].revoked
<1> SUFFICES ASSUME PairingInv, Pairing!Next, NEW c \in Codes, paircode[c].revoked
             PROVE  paircode'[c].revoked
  BY DEF pairVars
<1>1. paircode \in [Codes -> Pairing!Row]
  BY DEF PairingInv, PairingTyped
<1>2. ASSUME NEW d \in Codes, Pairing!Create(d) \/ Pairing!Expire(d) PROVE paircode'[c].revoked
  BY <1>1, <1>2 DEF Pairing!Create, Pairing!Expire, Pairing!Row
<1>3. ASSUME NEW w \in Workers, Pairing!Mint(w) \/ Pairing!RecordFailed(w) \/ Pairing!RevokeCommit(w)
      PROVE  paircode'[c].revoked
  BY <1>1, <1>3 DEF Pairing!Mint, Pairing!RecordFailed, Pairing!RevokeCommit, Pairing!Row
<1> QED
  BY <1>2, <1>3 DEF Pairing!Next, Pairing!Fail, Pairing!Select, Pairing!RevokeSelect

\* while the pairing codes are not in focus they do not move
LEMMA PairingMoves == [Next]_vars => [Pairing!Next]_pairVars
  BY DEF Next, vars, AccountsKeeps, TeamKeeps, OnboardingKeeps, SharedKeeps, LimiterKeeps, CaptureKeeps

\* A code hands out more keys than it has uses only when redemptions of it overlapped, one
\* that reached the limit of failures is revoked, and a revoked code stays so, for every
\* number of overlapping redemptions.
THEOREM CodesLimited == Spec => PairingLimits
<1>1. Init => PairingInv
  BY PairingInit DEF Init
<1>2. PairingInv /\ [Next]_vars => PairingInv'
  BY PairingStep, PairingMoves
<1>3. PairingInv => Pairing!UsesBounded /\ Pairing!LimitLocks
  <2> SUFFICES ASSUME PairingInv, NEW c \in Codes, c \notin pairraced
               PROVE  ~(Cardinality(Pairing!Minted(c)) > MaxUses)
    BY SameCardinality DEF PairingInv, Pairing!UsesBounded
  <2> QED
    BY MintedFinite, UsesAssumption DEF PairingInv, Counted
<1>4. PairingInv /\ [Next]_vars => [\A c \in Codes : paircode[c].revoked => paircode'[c].revoked]_Pairing!vars
  BY RevokedStep, PairingMoves
<1> QED
  BY <1>1, <1>2, <1>3, <1>4, PTL DEF Spec, PairingLimits, Pairing!RevokedForGood

-------------------------------------------------------------------------------
(* Onboarding with the in-process store.  What may be used once, the setup page *)
(* and each one-time token, is claimed by one request at a time and never again *)
(* after its account is committed.                                              *)

Once == Tokens \cup {"setup"}

OnboardingTyped ==
  /\ DOMAIN onbtx = Workers
  /\ \A w \in Workers :
       \/ onbtx[w].pc \in {"idle", "answer"}
       \/ onbtx[w] \in [pc : {"waiting", "ready", "inserted"}, via : Once \cup {"seed", "register"},
                        name : Users \cup {SeedName}]

Claims(w) == onbtx[w].pc \in {"ready", "inserted"}

\* usernames are unique, an uncommitted insert included
NamesOnce ==
  /\ \A u, v \in onbusers : u.name = v.name => u = v
  /\ \A w \in Workers : onbtx[w].pc = "inserted" =>
       /\ \A u \in onbusers : u.name # onbtx[w].name
       /\ \A v \in Workers : v # w /\ onbtx[v].pc = "inserted" => onbtx[v].name # onbtx[w].name

\* the seeded administrator has the name it is seeded with
SeedNamed ==
  /\ \A u \in onbusers : u.via = "seed" => u.name = SeedName
  /\ \A w \in Workers : Claims(w) /\ onbtx[w].via = "seed" => onbtx[w].name = SeedName

\* one claim at a time, and one account
ClaimedOnce ==
  /\ \A u, v \in onbusers : u.via = v.via /\ u.via \in Once => u = v
  /\ \A w \in Workers : Claims(w) /\ onbtx[w].via \in Once =>
       /\ \A u \in onbusers : u.via # onbtx[w].via
       /\ \A v \in Workers : v # w /\ Claims(v) => onbtx[v].via # onbtx[w].via

\* a token in the store is not claimed
Unclaimed == \A x \in onbstore \cap Tokens :
               /\ \A u \in onbusers : u.via # x
               /\ \A w \in Workers : Claims(w) => onbtx[w].via # x

\* the setup page is claimed under the advisory lock; whoever waits for it came by the page
SetupLocked ==
  \A w \in Workers : /\ onbtx[w].pc = "waiting" => onbtx[w].via = "setup"
                     /\ Claims(w) /\ onbtx[w].via = "setup" => onbholder = w

GuardKnows == \A w \in Workers : onbtx[w].pc = "answer" => onbusers # {}

OnboardingInv == /\ OnboardingTyped /\ NamesOnce /\ SeedNamed /\ ClaimedOnce /\ Unclaimed
                 /\ SetupLocked /\ GuardKnows /\ Onboarding!GuardHonest

LEMMA OnboardingInit == Onboarding!Init => OnboardingInv
<1> SUFFICES ASSUME Onboarding!Init PROVE OnboardingInv
  OBVIOUS
<1>1. DOMAIN onbtx = Workers /\ \A w \in Workers : onbtx[w].pc = "idle"
  BY DEF Onboarding!Init, Onboarding!Idle
<1>2. onbusers = {} /\ onbcomplete = FALSE
  BY DEF Onboarding!Init
<1> QED
  BY <1>1, <1>2 DEF OnboardingInv, OnboardingTyped, NamesOnce, SeedNamed, ClaimedOnce, Unclaimed,
       SetupLocked, GuardKnows, Claims, Onboarding!GuardHonest

\* a request goes on, and no account is committed
LEMMA OnboardingGoto ==
  ASSUME OnboardingInv, NEW w \in Workers, NEW t, onbtx' = [onbtx EXCEPT ![w] = t]
  PROVE  DOMAIN onbtx' = Workers /\ onbtx'[w] = t /\ \A v \in Workers : v # w => onbtx'[v] = onbtx[v]
  BY DEF OnboardingInv, OnboardingTyped

\* a request ends, without an account or after it
LEMMA OnboardingEnds ==
  ASSUME OnboardingInv, NEW w \in Workers, onbtx' = [onbtx EXCEPT ![w] = Onboarding!Idle],
         onbusers' = onbusers, onbstore' = onbstore,
         onbcomplete' => onbcomplete \/ onbusers # {},
         onbholder' \in {onbholder, IF onbholder = w THEN Onboarding!NoWorker ELSE onbholder}
  PROVE  OnboardingInv'
<1>1. DOMAIN onbtx' = Workers /\ onbtx'[w].pc = "idle" /\ \A v \in Workers : v # w => onbtx'[v] = onbtx[v]
  BY OnboardingGoto DEF Onboarding!Idle
<1>2. OnboardingTyped' /\ NamesOnce' /\ GuardKnows' /\ Onboarding!GuardHonest'
  BY <1>1 DEF OnboardingInv, OnboardingTyped, NamesOnce, GuardKnows, Onboarding!GuardHonest
<1>3. \A v \in Workers : Claims(v)' => v # w /\ Claims(v) /\ onbtx'[v] = onbtx[v]
  BY <1>1 DEF Claims
<1>4. SeedNamed' /\ ClaimedOnce' /\ Unclaimed'
  BY <1>3 DEF OnboardingInv, SeedNamed, ClaimedOnce, Unclaimed
<1>5. SetupLocked'
  BY <1>1, <1>3 DEF OnboardingInv, SetupLocked
<1> QED
  BY <1>2, <1>4, <1>5 DEF OnboardingInv

\* a request claims what it will use, or needs no claim
LEMMA OnboardingClaims ==
  ASSUME OnboardingInv, NEW w \in Workers, onbtx[w].pc \in {"idle", "waiting"},
         NEW via \in Once \cup {"seed", "register"}, NEW name \in Users \cup {SeedName},
         via = "seed" => name = SeedName,
         via \in Once => \A u \in onbusers : u.via # via,
         via \in Once => \A v \in Workers : v # w /\ Claims(v) => onbtx[v].via # via,
         onbtx' = [onbtx EXCEPT ![w] = [pc |-> "ready", via |-> via, name |-> name]],
         onbusers' = onbusers, onbcomplete' = onbcomplete,
         onbstore' \subseteq onbstore, via \in Tokens => via \notin onbstore',
         onbholder' = IF via = "setup" THEN w ELSE onbholder,
         via = "setup" => onbholder = Onboarding!NoWorker
  PROVE  OnboardingInv'
<1> DEFINE t == [pc |-> "ready", via |-> via, name |-> name]
<1>1. /\ DOMAIN onbtx' = Workers /\ onbtx'[w] = t
      /\ \A v \in Workers : v # w => onbtx'[v] = onbtx[v]
  BY OnboardingGoto
<1>2. t.pc = "ready" /\ t.via = via /\ t.name = name
      /\ t \in [pc : {"waiting", "ready", "inserted"}, via : Once \cup {"seed", "register"},
                name : Users \cup {SeedName}]
  OBVIOUS
<1> HIDE DEF t
<1>3. OnboardingTyped' /\ NamesOnce' /\ GuardKnows' /\ Onboarding!GuardHonest'
  BY <1>1, <1>2 DEF OnboardingInv, OnboardingTyped, NamesOnce, GuardKnows, Onboarding!GuardHonest
<1>4. \A v \in Workers : v # w => (Claims(v)' <=> Claims(v)) /\ onbtx'[v] = onbtx[v]
  BY <1>1 DEF Claims
<1>5. SeedNamed' /\ ClaimedOnce' /\ Unclaimed'
  BY <1>1, <1>2, <1>4 DEF OnboardingInv, SeedNamed, ClaimedOnce, Unclaimed
<1>6. SetupLocked'
  <2>1. ASSUME NEW v \in Workers, v # w, Claims(v), onbtx[v].via = "setup"
        PROVE  onbholder = v /\ via # "setup"
    BY <2>1, WorkersAssumption DEF OnboardingInv, SetupLocked, Onboarding!NoWorker
  <2> QED
    BY <1>1, <1>2, <1>4, <2>1 DEF OnboardingInv, SetupLocked, Claims
<1> QED
  BY <1>3, <1>5, <1>6 DEF OnboardingInv

\* the insert of a name that is neither taken nor pending
LEMMA OnboardingInserts ==
  ASSUME OnboardingInv, NEW w \in Workers, Onboarding!Insert(w)
  PROVE  OnboardingInv'
<1>1. PICK t : t = [onbtx[w] EXCEPT !.pc = "inserted"] /\ onbtx' = [onbtx EXCEPT ![w] = t]
  BY DEF Onboarding!Insert, Onboarding!Goto
<1>2. /\ onbtx[w].pc = "ready" /\ \A u \in onbusers : u.name # onbtx[w].name
      /\ \A v \in Workers : v # w /\ onbtx[v].pc = "inserted" => onbtx[v].name # onbtx[w].name
      /\ UNCHANGED <<onbusers, onbstore, onbholder, onbcomplete>>
  BY DEF Onboarding!Insert, Onboarding!Taken, Onboarding!Pending
<1>3. onbtx[w] \in [pc : {"waiting", "ready", "inserted"}, via : Once \cup {"seed", "register"},
                   name : Users \cup {SeedName}]
  BY <1>2 DEF OnboardingInv, OnboardingTyped
<1>4. /\ t.pc = "inserted" /\ t.via = onbtx[w].via /\ t.name = onbtx[w].name
      /\ t \in [pc : {"waiting", "ready", "inserted"}, via : Once \cup {"seed", "register"},
                name : Users \cup {SeedName}]
  BY <1>1, <1>3
<1>5. /\ DOMAIN onbtx' = Workers /\ onbtx'[w] = t
      /\ \A v \in Workers : v # w => onbtx'[v] = onbtx[v]
  BY <1>1, OnboardingGoto
<1>6. OnboardingTyped' /\ NamesOnce' /\ GuardKnows' /\ Onboarding!GuardHonest'
  BY <1>2, <1>4, <1>5 DEF OnboardingInv, OnboardingTyped, NamesOnce, GuardKnows, Onboarding!GuardHonest
<1>7. \A v \in Workers : (Claims(v)' <=> Claims(v)) /\ (Claims(v) => onbtx'[v].via = onbtx[v].via /\ onbtx'[v].name = onbtx[v].name)
  BY <1>2, <1>4, <1>5 DEF Claims
<1>8. SeedNamed' /\ ClaimedOnce' /\ Unclaimed'
  BY <1>2, <1>7 DEF OnboardingInv, SeedNamed, ClaimedOnce, Unclaimed
<1>9. SetupLocked'
  BY <1>2, <1>4, <1>5, <1>7 DEF OnboardingInv, SetupLocked
<1> QED
  BY <1>6, <1>8, <1>9 DEF OnboardingInv

\* the commit of an account ends the claim
LEMMA OnboardingCommits ==
  ASSUME OnboardingInv, NEW w \in Workers, Onboarding!Commit(w)
  PROVE  OnboardingInv'
<1>1. PICK t \in {[pc |-> "answer"], Onboarding!Idle} : onbtx' = [onbtx EXCEPT ![w] = t]
  BY DEF Onboarding!Commit, Onboarding!Goto
<1>2. PICK a : a = [name |-> onbtx[w].name, via |-> onbtx[w].via, by |-> w]
               /\ onbusers' = onbusers \cup {a}
  BY DEF Onboarding!Commit
<1>3. /\ onbtx[w].pc = "inserted" /\ Claims(w) /\ UNCHANGED <<onbstore, onbcomplete>>
      /\ onbholder' = IF onbholder = w THEN Onboarding!NoWorker ELSE onbholder
  BY DEF Onboarding!Commit, Onboarding!Release, Claims
<1>4. a.name = onbtx[w].name /\ a.via = onbtx[w].via
  BY <1>2
<1>5. t.pc \in {"idle", "answer"}
  BY DEF Onboarding!Idle
<1>6. /\ DOMAIN onbtx' = Workers /\ onbtx'[w] = t
      /\ \A v \in Workers : v # w => onbtx'[v] = onbtx[v]
  BY <1>1, OnboardingGoto
<1>7. OnboardingTyped' /\ GuardKnows' /\ Onboarding!GuardHonest'
  BY <1>2, <1>3, <1>5, <1>6 DEF OnboardingInv, OnboardingTyped, GuardKnows, Onboarding!GuardHonest
<1>8. NamesOnce'
  BY <1>2, <1>3, <1>4, <1>5, <1>6 DEF OnboardingInv, NamesOnce
<1>9. \A v \in Workers : Claims(v)' => v # w /\ Claims(v) /\ onbtx'[v] = onbtx[v]
  BY <1>5, <1>6 DEF Claims
<1>10. SeedNamed' /\ ClaimedOnce'
  BY <1>2, <1>3, <1>4, <1>9 DEF OnboardingInv, SeedNamed, ClaimedOnce
<1>11. Unclaimed'
  BY <1>2, <1>3, <1>4, <1>9 DEF OnboardingInv, Unclaimed
<1>12. SetupLocked'
  BY <1>3, <1>5, <1>6, <1>9 DEF OnboardingInv, SetupLocked
<1> QED
  BY <1>7, <1>8, <1>10, <1>11, <1>12 DEF OnboardingInv

LEMMA OnboardingStep == OnboardingInv /\ [Onboarding!Next]_onbVars => OnboardingInv'
<1> SUFFICES ASSUME OnboardingInv, [Onboarding!Next]_onbVars PROVE OnboardingInv'
  OBVIOUS
<1>1. ASSUME NEW w \in Workers, Onboarding!SetupLock(w) PROVE OnboardingInv'
  <2>1. CASE onbusers = {}
    <3>1. /\ onbtx[w].pc = "waiting" /\ onbholder = Onboarding!NoWorker /\ onbholder' = w
          /\ onbtx' = [onbtx EXCEPT ![w] = [onbtx[w] EXCEPT !.pc = "ready"]]
          /\ UNCHANGED <<onbusers, onbstore, onbcomplete>>
      BY <1>1, <2>1 DEF Onboarding!SetupLock, Onboarding!Goto
    <3>2. /\ onbtx[w].via = "setup"
          /\ onbtx[w] \in [pc : {"waiting", "ready", "inserted"}, via : Once \cup {"seed", "register"},
                           name : Users \cup {SeedName}]
      BY <3>1 DEF OnboardingInv, OnboardingTyped, SetupLocked
    <3>3. PICK name \in Users \cup {SeedName} : name = onbtx[w].name
      BY <3>2
    <3>4. [onbtx[w] EXCEPT !.pc = "ready"] = [pc |-> "ready", via |-> "setup", name |-> name]
      BY <3>2, <3>3
    <3>5. \A v \in Workers : v # w /\ Claims(v) => onbtx[v].via # "setup"
      BY <3>1, WorkersAssumption DEF OnboardingInv, SetupLocked, Onboarding!NoWorker
    <3>6. "setup" \notin Tokens
      BY TokensAssumption
    <3> QED
      BY <2>1, <3>1, <3>4, <3>5, <3>6, OnboardingClaims DEF Once
  <2>2. CASE onbusers # {}
    BY <1>1, <2>2, OnboardingEnds DEF Onboarding!SetupLock, Onboarding!Goto
  <2> QED
    BY <2>1, <2>2
<1>2. ASSUME NEW w \in Workers, Onboarding!InsertConflict(w) \/ Onboarding!Fail(w) \/ Onboarding!Answer(w)
      PROVE  OnboardingInv'
  <2>1. onbcomplete' => onbcomplete \/ onbusers # {}
    BY <1>2 DEF Onboarding!InsertConflict, Onboarding!Fail, Onboarding!Answer, OnboardingInv, GuardKnows
  <2>2. onbholder' \in {onbholder, IF onbholder = w THEN Onboarding!NoWorker ELSE onbholder}
    BY <1>2 DEF Onboarding!InsertConflict, Onboarding!Fail, Onboarding!Answer, Onboarding!Release
  <2> QED
    BY <1>2, <2>1, <2>2, OnboardingEnds
       DEF Onboarding!InsertConflict, Onboarding!Fail, Onboarding!Answer, Onboarding!Goto
<1>3. ASSUME NEW w \in Workers,
             Onboarding!SeedBegin(w) \/ \E n \in Users : Onboarding!RegisterBegin(w, n)
      PROVE  OnboardingInv'
  <2>1. PICK via \in {"seed", "register"}, name \in Users \cup {SeedName} :
          /\ via = "seed" => name = SeedName
          /\ onbtx' = [onbtx EXCEPT ![w] = [pc |-> "ready", via |-> via, name |-> name]]
    BY <1>3 DEF Onboarding!SeedBegin, Onboarding!RegisterBegin, Onboarding!Goto
  <2>2. via \notin Once /\ via \notin Tokens /\ via # "setup"
    BY TokensAssumption DEF Once
  <2>3. onbtx[w].pc = "idle" /\ UNCHANGED <<onbusers, onbstore, onbholder, onbcomplete>>
    BY <1>3 DEF Onboarding!SeedBegin, Onboarding!RegisterBegin
  <2> QED
    BY <2>1, <2>2, <2>3, OnboardingClaims
<1>4. ASSUME NEW w \in Workers, NEW n \in Users, Onboarding!SetupBegin(w, n) PROVE OnboardingInv'
  <2>1. PICK t : t = [pc |-> "waiting", via |-> "setup", name |-> n]
    OBVIOUS
  <2>2. /\ t.pc = "waiting" /\ t.via = "setup"
        /\ t \in [pc : {"waiting", "ready", "inserted"}, via : Once \cup {"seed", "register"},
                  name : Users \cup {SeedName}]
    BY <2>1 DEF Once
  <2>3. onbtx' = [onbtx EXCEPT ![w] = t] /\ UNCHANGED <<onbusers, onbstore, onbholder, onbcomplete>>
    BY <1>4, <2>1 DEF Onboarding!SetupBegin, Onboarding!Goto
  <2>4. /\ DOMAIN onbtx' = Workers /\ onbtx'[w] = t
        /\ \A v \in Workers : v # w => onbtx'[v] = onbtx[v]
    BY <2>3, OnboardingGoto
  <2>5. OnboardingTyped' /\ NamesOnce' /\ GuardKnows' /\ Onboarding!GuardHonest'
    BY <2>2, <2>3, <2>4 DEF OnboardingInv, OnboardingTyped, NamesOnce, GuardKnows, Onboarding!GuardHonest
  <2>6. \A v \in Workers : Claims(v)' => v # w /\ Claims(v) /\ onbtx'[v] = onbtx[v]
    BY <2>2, <2>4 DEF Claims
  <2>7. SeedNamed' /\ ClaimedOnce' /\ Unclaimed'
    BY <2>3, <2>6 DEF OnboardingInv, SeedNamed, ClaimedOnce, Unclaimed
  <2>8. SetupLocked'
    BY <2>2, <2>3, <2>4, <2>6 DEF OnboardingInv, SetupLocked
  <2> QED
    BY <2>5, <2>7, <2>8 DEF OnboardingInv
<1>5. ASSUME NEW w \in Workers, NEW n \in Users, NEW x \in Tokens, Onboarding!Accept(w, n, x)
      PROVE  OnboardingInv'
  <2>1. /\ onbtx[w].pc = "idle" /\ x \in onbstore /\ onbstore' = onbstore \ {x}
        /\ onbtx' = [onbtx EXCEPT ![w] = [pc |-> "ready", via |-> x, name |-> n]]
        /\ UNCHANGED <<onbusers, onbholder, onbcomplete>>
    BY <1>5 DEF Onboarding!Accept, Onboarding!Goto
  <2>2. x \in Once /\ x # "seed" /\ x # "setup"
    BY TokensAssumption DEF Once
  <2>3. (\A u \in onbusers : u.via # x) /\ (\A v \in Workers : Claims(v) => onbtx[v].via # x)
    BY <2>1 DEF OnboardingInv, Unclaimed
  <2> QED
    BY <2>1, <2>2, <2>3, OnboardingClaims
<1>6. ASSUME NEW w \in Workers, Onboarding!AcceptDelete(w) PROVE FALSE
  BY <1>6 DEF Onboarding!AcceptDelete, OnboardingInv, OnboardingTyped
<1>7. CASE Onboarding!Guard
  BY <1>7 DEF Onboarding!Guard, OnboardingInv, OnboardingTyped, NamesOnce, SeedNamed, ClaimedOnce,
       Unclaimed, SetupLocked, GuardKnows, Claims, Onboarding!GuardHonest
<1>8. CASE Onboarding!Restart
  <2>1. /\ DOMAIN onbtx' = Workers /\ \A w \in Workers : onbtx'[w].pc = "idle"
        /\ onbusers' = onbusers /\ onbstore' = {} /\ onbcomplete' = FALSE
    BY <1>8 DEF Onboarding!Restart, Onboarding!Idle
  <2> QED
    BY <2>1 DEF OnboardingInv, OnboardingTyped, NamesOnce, SeedNamed, ClaimedOnce,
       Unclaimed, SetupLocked, GuardKnows, Claims, Onboarding!GuardHonest
<1>9. CASE UNCHANGED onbVars
  BY <1>9 DEF onbVars, OnboardingInv, OnboardingTyped, NamesOnce, SeedNamed, ClaimedOnce,
       Unclaimed, SetupLocked, GuardKnows, Claims, Onboarding!GuardHonest
<1> QED
  BY <1>1, <1>2, <1>3, <1>4, <1>5, <1>6, <1>7, <1>8, <1>9, OnboardingInserts, OnboardingCommits
     DEF Onboarding!Next, Onboarding!Serve

LEMMA OnboardingMoves == [Next]_vars => [Onboarding!Next]_onbVars
  BY DEF Next, vars, AccountsKeeps, TeamKeeps, PairingKeeps, SharedKeeps, LimiterKeeps, CaptureKeeps

\* what is claimed once is used once
LEMMA OnboardingCounts == OnboardingInv => OnboardingCreatedOnce
<1> SUFFICES ASSUME OnboardingInv PROVE OnboardingCreatedOnce
  OBVIOUS
<1>1. ASSUME NEW x \in Once PROVE Cardinality(Onboarding!Via(x)) <= 1
  <2>1. \A u, v \in Onboarding!Via(x) : u = v
    BY <1>1 DEF OnboardingInv, ClaimedOnce, Onboarding!Via
  <2> QED
    BY <2>1, AtMostOne
<1>2. Cardinality(Onboarding!Via("seed")) <= 1
  <2>1. \A u, v \in Onboarding!Via("seed") : u = v
    BY DEF OnboardingInv, NamesOnce, SeedNamed, Onboarding!Via
  <2> QED
    BY <2>1, AtMostOne
<1> QED
  BY <1>1, <1>2, SameCardinality DEF OnboardingCreatedOnce, OnboardingInv, Onboarding!OneSetup,
     Onboarding!OneSeed, Onboarding!TokenOnce, Once

\* However many setup requests, starting replicas, registrations and invites overlap, the setup
\* page and the seed create one administrator each, a token of the in-process store creates one
\* account, and the guard opens only once an account exists.
THEOREM AccountsCreatedOnce == Spec => []OnboardingCreatedOnce
<1>1. Init => OnboardingInv
  BY OnboardingInit DEF Init
<1>2. OnboardingInv /\ [Next]_vars => OnboardingInv'
  BY OnboardingStep, OnboardingMoves
<1> QED
  BY <1>1, <1>2, OnboardingCounts, PTL DEF Spec

-------------------------------------------------------------------------------
(* Capture connections.  Since its token was revoked a connection has stored no *)
(* more messages than it received since the last check of the token.            *)

LEMMA ModRange ==
  ASSUME NEW m \in Nat \ {0}, NEW n \in Nat
  PROVE  n % m \in 0..(m - 1) /\ n \div m \in Nat /\ n = m * (n \div m) + (n % m)
  OBVIOUS

\* quotient and remainder are unique
LEMMA ModUnique ==
  ASSUME NEW m \in Nat \ {0}, NEW a \in Nat, NEW b \in Nat,
         NEW r \in 0..(m - 1), NEW s \in 0..(m - 1), m * a + r = m * b + s
  PROVE  r = s
<1>1. CASE a > b
  <2>1. m * a >= m * (b + 1) /\ m * (b + 1) = m * b + m
    BY <1>1
  <2> QED
    BY <2>1
<1>2. CASE a < b
  <2>1. m * b >= m * (a + 1) /\ m * (a + 1) = m * a + m
    BY <1>2
  <2> QED
    BY <2>1
<1> QED
  BY <1>1, <1>2

\* the next remainder is one more, or none
LEMMA ModNext ==
  ASSUME NEW m \in Nat \ {0}, NEW n \in Nat
  PROVE  (n + 1) % m = 0 \/ (n + 1) % m = (n % m) + 1
<1>1. PICK r \in 0..(m - 1), a \in Nat : r = n % m /\ n = m * a + r
  <2>1. n % m \in 0..(m - 1) /\ n \div m \in Nat /\ n = m * (n \div m) + (n % m)
    BY ModRange
  <2> QED
    BY <2>1, Zenon
<1>2. PICK s \in 0..(m - 1), b \in Nat : s = (n + 1) % m /\ n + 1 = m * b + s
  <2>1. PICK k \in Nat : k = n + 1
    OBVIOUS
  <2>2. k % m \in 0..(m - 1) /\ k \div m \in Nat /\ k = m * (k \div m) + (k % m)
    BY ModRange
  <2> QED
    BY <2>1, <2>2, Zenon
<1>3. m * a + r + 1 = m * b + s /\ m * a \in Nat /\ m * b \in Nat
  BY <1>1, <1>2
<1>4. CASE r + 1 < m
  <2>1. m * a + (r + 1) = m * b + s /\ r + 1 \in 0..(m - 1)
    BY <1>3, <1>4
  <2>2. r + 1 = s
    BY <2>1, ModUnique
  <2> QED
    BY <1>1, <1>2, <2>2
<1>5. CASE r + 1 = m
  <2>1. m * (a + 1) + 0 = m * b + s /\ 0 \in 0..(m - 1) /\ a + 1 \in Nat
    <3>1. m * (a + 1) = m * a + m
      OBVIOUS
    <3> QED
      BY <1>3, <1>5, <3>1
  <2>2. 0 = s
    BY <2>1, ModUnique
  <2> QED
    BY <1>2, <2>2
<1> QED
  BY <1>4, <1>5

Casting == [to : SUBSET Sockets, stale : SUBSET Sockets, dead : SUBSET Sockets]

Handlers == [pc : Capture!Pcs, count : Nat, since : Nat, cast : Casting]

\* what holds of the handler h of the connection s
Handles(s, h) ==
  /\ h.since < Interval
  /\ h.pc \notin {"leaving", "closed"} => h.since <= h.count % Interval
  /\ s \notin wsrevoked => h.since = 0
  /\ h.pc \in {"none", "verified"} => s \notin wsregistered
  /\ h.pc = "closed" /\ s \in wsregistered => s \in wsgreetless
  /\ h.pc = "casting" => h.cast.dead \subseteq (h.cast.to \cup h.cast.stale) \cap wsgone

CaptureInv == /\ wsconn \in [Sockets -> Handlers] /\ wsregistered \subseteq Sockets
              /\ \A s \in Sockets : Handles(s, wsconn[s])

\* one handler goes on
LEMMA HandlerStep ==
  ASSUME CaptureInv, NEW s \in Sockets, NEW h \in Handlers, wsconn' = [wsconn EXCEPT ![s] = h],
         Handles(s, h)', wsregistered' \subseteq wsregistered \cup {s},
         wsrevoked' = wsrevoked, wsgone' = wsgone, wsgreetless \subseteq wsgreetless'
  PROVE  CaptureInv'
<1>1. /\ wsconn' \in [Sockets -> Handlers] /\ wsconn'[s] = h
      /\ \A v \in Sockets : v # s => wsconn'[v] = wsconn[v]
  BY DEF CaptureInv
<1>2. ASSUME NEW v \in Sockets PROVE Handles(v, wsconn[v])'
  <2>1. CASE v = s
    BY <1>1, <2>1 DEF Handles
  <2>2. CASE v # s
    BY <1>1, <2>2 DEF Handles, CaptureInv
  <2> QED
    BY <2>1, <2>2
<1> QED
  BY <1>1, <1>2 DEF CaptureInv

LEMMA CaptureInit == Capture!Init => CaptureInv
<1> SUFFICES ASSUME Capture!Init PROVE CaptureInv
  OBVIOUS
<1>1. wsconn = [s \in Sockets |-> Capture!Handler("none")] /\ wsregistered = {}
  BY DEF Capture!Init
<1>2. PICK h : h = Capture!Handler("none")
  OBVIOUS
<1>3. /\ h \in Handlers /\ h.pc = "none" /\ h.count = 0 /\ h.since = 0
  BY <1>2 DEF Capture!Handler, Capture!Quiet, Capture!Pcs, Handlers, Casting
<1>4. 0 % Interval \in 0..(Interval - 1)
  BY IntervalAssumption, ModRange
<1>5. \A s \in Sockets : Handles(s, h)
  BY <1>1, <1>3, <1>4, IntervalAssumption DEF Handles
<1> QED
  BY <1>1, <1>2, <1>3, <1>5 DEF CaptureInv

\* counting one message more, with respect to the check of every Interval messages
LEMMA NextCount ==
  ASSUME NEW c \in Nat, NEW n, n = c + 1
  PROVE  /\ n \in Nat /\ (n % Interval = 0 \/ n % Interval = (c % Interval) + 1)
         /\ n % Interval \in 0..(Interval - 1) /\ c % Interval \in Nat
<1>1. PICK m : m = Interval
  OBVIOUS
<1>2. m \in Nat \ {0}
  BY <1>1, IntervalAssumption
<1>3. n \in Nat
  OBVIOUS
<1>4. (c + 1) % m = 0 \/ (c + 1) % m = (c % m) + 1
  BY <1>2, ModNext
<1>5. n % m = 0 \/ n % m = (c % m) + 1
  BY <1>4, Zenon
<1>6. n % m \in 0..(m - 1)
  BY <1>2, <1>3, ModRange
<1>7. c % m \in 0..(m - 1)
  BY <1>2, ModRange
<1>8. c % m \in Nat
  BY <1>2, <1>7
<1> QED
  BY <1>1, <1>3, <1>5, <1>6, <1>8, Zenon

\* a handler only changes its place
LEMMA PlaceStep ==
  ASSUME CaptureInv, NEW s \in Sockets, NEW pc \in Capture!Pcs, Capture!Goto(s, pc),
         wsconn[s].pc \notin {"leaving", "closed"} \/ pc = "closed",
         pc # "casting",
         pc \in {"none", "verified"} => s \notin wsregistered',
         pc = "closed" /\ s \in wsregistered' => s \in wsgreetless',
         wsregistered' \subseteq wsregistered \cup {s},
         wsrevoked' = wsrevoked, wsgone' = wsgone, wsgreetless \subseteq wsgreetless'
  PROVE  CaptureInv'
<1>1. wsconn[s] \in Handlers /\ Handles(s, wsconn[s])
  BY DEF CaptureInv
<1>2. PICK h : h = [wsconn[s] EXCEPT !.pc = pc] /\ wsconn' = [wsconn EXCEPT ![s] = h]
  BY DEF Capture!Goto
<1>3. /\ h \in Handlers /\ h.pc = pc /\ h.count = wsconn[s].count /\ h.since = wsconn[s].since
  BY <1>1, <1>2 DEF Handlers
<1>4. Handles(s, h)'
  BY <1>1, <1>3 DEF Handles
<1> QED
  BY <1>2, <1>3, <1>4, HandlerStep

LEMMA CaptureStep == CaptureInv /\ [Capture!Next]_wsVars => CaptureInv'
<1> SUFFICES ASSUME CaptureInv, [Capture!Next]_wsVars PROVE CaptureInv'
  OBVIOUS
<1> USE DEF Capture!At
<1>1. ASSUME NEW s \in Sockets, Capture!Connect(s) PROVE CaptureInv'
  <2>1. wsconn[s].pc = "none" /\ s \notin wsregistered
    BY <1>1 DEF Capture!Connect, CaptureInv, Handles
  <2>2. PICK pc \in {"closed", "verified"} : Capture!Goto(s, pc)
    BY <1>1 DEF Capture!Connect
  <2>3. pc \in Capture!Pcs /\ pc # "casting"
    BY DEF Capture!Pcs
  <2> QED
    BY <1>1, <2>1, <2>2, <2>3, PlaceStep DEF Capture!Connect
<1>2. ASSUME NEW s \in Sockets, Capture!Register(s) PROVE CaptureInv'
  BY <1>2, PlaceStep DEF Capture!Register, Capture!Pcs
<1>3. ASSUME NEW s \in Sockets, Capture!RegisterFails(s) PROVE CaptureInv'
  <2>1. s \notin wsregistered
    BY <1>3 DEF Capture!RegisterFails, CaptureInv, Handles
  <2> QED
    BY <1>3, <2>1, PlaceStep DEF Capture!RegisterFails, Capture!Pcs
<1>4. ASSUME NEW s \in Sockets, Capture!Greet(s) PROVE CaptureInv'
  <2>1. CASE s \in wsgone
    BY <1>4, <2>1, PlaceStep DEF Capture!Greet, Capture!Pcs
  <2>2. CASE s \notin wsgone
    BY <1>4, <2>2, PlaceStep DEF Capture!Greet, Capture!Pcs
  <2> QED
    BY <2>1, <2>2
<1>5. ASSUME NEW s \in Sockets, Capture!Break(s) PROVE CaptureInv'
  BY <1>5, PlaceStep DEF Capture!Break, Capture!Pcs
<1>6. ASSUME NEW s \in Sockets, Capture!Leave(s) PROVE CaptureInv'
  BY <1>6, PlaceStep DEF Capture!Leave, Capture!Pcs
<1>7. ASSUME NEW s \in Sockets, Capture!Message(s) PROVE CaptureInv'
  <2>1. PICK n : n = wsconn[s].count + 1
    OBVIOUS
  <2>2. wsconn[s] \in Handlers /\ Handles(s, wsconn[s]) /\ wsconn[s].pc = "loop"
    BY <1>7 DEF CaptureInv, Capture!Message
  <2>3. UNCHANGED <<wsregistered, wsrevoked, wsgone, wsgreetless>>
    BY <1>7 DEF Capture!Message
  <2>4. n \in Nat /\ wsconn[s].since \in Nat /\ (n % Interval = 0 \/ n % Interval = (wsconn[s].count % Interval) + 1)
        /\ n % Interval \in 0..(Interval - 1) /\ wsconn[s].count % Interval \in Nat
    <3>1. wsconn[s].count \in Nat /\ wsconn[s].since \in Nat
      BY <2>2 DEF Handlers
    <3>2. PICK c \in Nat : c = wsconn[s].count
      BY <3>1
    <3>3. n = c + 1
      BY <2>1, <3>2
    <3> QED
      BY <3>1, <3>2, <3>3, NextCount, Zenon
  <2>5. CASE n % Interval = 0 /\ s \in wsrevoked
    <3>1. PICK h : h = [wsconn[s] EXCEPT !.count = n, !.pc = "leaving"] /\ wsconn' = [wsconn EXCEPT ![s] = h]
      BY <1>7, <2>1, <2>5 DEF Capture!Message, CaptureInv
    <3>2. h \in Handlers /\ h.pc = "leaving" /\ h.since = wsconn[s].since
      BY <2>2, <2>4, <3>1 DEF Handlers, Capture!Pcs
    <3>3. Handles(s, h)'
      BY <2>2, <2>3, <3>2 DEF Handles
    <3> QED
      BY <2>3, <3>1, <3>2, <3>3, HandlerStep
  <2>6. CASE ~(n % Interval = 0 /\ s \in wsrevoked)
    <3> DEFINE since == IF s \in wsrevoked THEN wsconn[s].since + 1 ELSE wsconn[s].since
    <3>1. since \in Nat /\ since <= n % Interval /\ (s \notin wsrevoked => since = 0)
      BY <2>2, <2>4, <2>6 DEF Handles
    <3>2. PICK h : h = [wsconn[s] EXCEPT !.count = n, !.pc = "stored", !.since = since]
                   /\ wsconn' = [wsconn EXCEPT ![s] = h]
      BY <1>7, <2>1, <2>6 DEF Capture!Message, CaptureInv
    <3> HIDE DEF since
    <3>3. h \in Handlers /\ h.pc = "stored" /\ h.count = n /\ h.since = since
      BY <2>2, <2>4, <3>1, <3>2 DEF Handlers, Capture!Pcs
    <3>4. Handles(s, h)'
      BY <2>3, <2>4, <3>1, <3>3, IntervalAssumption DEF Handles
    <3> QED
      BY <2>3, <3>2, <3>3, <3>4, HandlerStep
  <2> QED
    BY <2>5, <2>6
<1>8. ASSUME NEW s \in Sockets, Capture!MessageRefused(s) PROVE CaptureInv'
  <2>1. PICK n : n = wsconn[s].count + 1
    OBVIOUS
  <2>2. /\ wsconn[s] \in Handlers /\ Handles(s, wsconn[s]) /\ wsconn[s].pc = "loop"
        /\ ~(n % Interval = 0 /\ s \in wsrevoked)
    BY <1>8, <2>1 DEF CaptureInv, Capture!MessageRefused
  <2>3. UNCHANGED <<wsregistered, wsrevoked, wsgone, wsgreetless>>
    BY <1>8 DEF Capture!MessageRefused
  <2>4. n \in Nat /\ wsconn[s].since \in Nat /\ (n % Interval = 0 \/ n % Interval = (wsconn[s].count % Interval) + 1)
        /\ n % Interval \in 0..(Interval - 1) /\ wsconn[s].count % Interval \in Nat
    <3>1. wsconn[s].count \in Nat /\ wsconn[s].since \in Nat
      BY <2>2 DEF Handlers
    <3>2. PICK c \in Nat : c = wsconn[s].count
      BY <3>1
    <3>3. n = c + 1
      BY <2>1, <3>2
    <3> QED
      BY <3>1, <3>2, <3>3, NextCount, Zenon
  <2>5. PICK h : h = [wsconn[s] EXCEPT !.count = n] /\ wsconn' = [wsconn EXCEPT ![s] = h]
    BY <1>8, <2>1 DEF Capture!MessageRefused
  <2>6. h \in Handlers /\ h.pc = "loop" /\ h.count = n /\ h.since = wsconn[s].since
    BY <2>2, <2>4, <2>5 DEF Handlers
  <2>7. h.since <= n % Interval
    BY <2>2, <2>4, <2>6 DEF Handles
  <2>8. Handles(s, h)'
    BY <2>2, <2>3, <2>6, <2>7 DEF Handles
  <2> QED
    BY <2>3, <2>5, <2>6, <2>8, HandlerStep
<1>9. ASSUME NEW s \in Sockets, Capture!Confirm(s) PROVE CaptureInv'
  <2>1. CASE s \in wsgone
    BY <1>9, <2>1, PlaceStep DEF Capture!Confirm, Capture!Goto, Capture!Pcs
  <2>2. CASE s \notin wsgone
    <3>1. PICK c : c = [to |-> wsregistered, stale |-> {}, dead |-> wsregistered \cap wsgone]
      OBVIOUS
    <3>2. c \in Casting /\ c.dead \subseteq (c.to \cup c.stale) \cap wsgone
      BY <3>1 DEF Casting, CaptureInv
    <3>3. PICK h : h = [wsconn[s] EXCEPT !.pc = "casting", !.cast = c] /\ wsconn' = [wsconn EXCEPT ![s] = h]
      BY <1>9, <2>2, <3>1 DEF Capture!Confirm, CaptureInv
    <3>4. wsconn[s] \in Handlers /\ Handles(s, wsconn[s]) /\ wsconn[s].pc = "stored"
      BY <1>9 DEF CaptureInv, Capture!Confirm
    <3>5. /\ h \in Handlers /\ h.pc = "casting" /\ h.cast = c /\ h.count = wsconn[s].count
          /\ h.since = wsconn[s].since
      BY <3>2, <3>3, <3>4 DEF Handlers, Capture!Pcs
    <3>6. UNCHANGED <<wsregistered, wsrevoked, wsgone, wsgreetless>>
      BY <1>9 DEF Capture!Confirm
    <3>7. Handles(s, h)'
      BY <3>2, <3>4, <3>5, <3>6 DEF Handles
    <3> QED
      BY <3>3, <3>5, <3>6, <3>7, HandlerStep
  <2> QED
    BY <2>1, <2>2
<1>10. ASSUME NEW s \in Sockets, NEW r \in Sockets, Capture!Send(s, r) PROVE CaptureInv'
  <2>1. wsconn[s] \in Handlers /\ Handles(s, wsconn[s]) /\ wsconn[s].pc = "casting"
    BY <1>10 DEF CaptureInv, Capture!Send
  <2>2. PICK old : old = wsconn[s].cast /\ old \in Casting
    BY <2>1 DEF Handlers
  <2> DEFINE stale == IF r \in wsgone THEN old.stale \cup {r} ELSE old.stale
  <2>3. PICK c : c = [old EXCEPT !.to = old.to \ {r}, !.stale = stale]
    OBVIOUS
  <2>4. c \in Casting /\ c.to = old.to \ {r} /\ c.stale = stale /\ c.dead = old.dead
    <3>1. old.to \ {r} \in SUBSET Sockets /\ stale \in SUBSET Sockets
      BY <2>2 DEF Casting
    <3> HIDE DEF stale
    <3> QED
      BY <2>2, <2>3, <3>1 DEF Casting
  <2>5. PICK h : h = [wsconn[s] EXCEPT !.cast = c] /\ wsconn' = [wsconn EXCEPT ![s] = h]
    <3> HIDE DEF stale
    <3>1. wsconn' = [wsconn EXCEPT ![s].cast.to = old.to \ {r}, ![s].cast.stale = stale]
      BY <1>10, <2>1, <2>2 DEF Capture!Send, CaptureInv, Handlers, Casting, stale
    <3> QED
      BY <2>1, <2>2, <2>3, <3>1 DEF CaptureInv, Handlers, Casting
  <2>6. /\ h \in Handlers /\ h.pc = "casting" /\ h.cast = c /\ h.count = wsconn[s].count
        /\ h.since = wsconn[s].since
    BY <2>1, <2>4, <2>5 DEF Handlers
  <2>7. UNCHANGED <<wsregistered, wsrevoked, wsgone, wsgreetless>>
    BY <1>10 DEF Capture!Send
  <2>8. Handles(s, h)'
    BY <2>1, <2>2, <2>4, <2>6, <2>7 DEF Handles
  <2> QED
    BY <2>5, <2>6, <2>7, <2>8, HandlerStep
<1>11. ASSUME NEW s \in Sockets, Capture!CastEnd(s) PROVE CaptureInv'
  <2>1. wsconn[s] \in Handlers /\ Handles(s, wsconn[s]) /\ wsconn[s].pc = "casting"
    BY <1>11 DEF CaptureInv, Capture!CastEnd
  <2>2. PICK h : h = [wsconn[s] EXCEPT !.pc = "loop", !.cast = Capture!Quiet]
                 /\ wsconn' = [wsconn EXCEPT ![s] = h]
    BY <1>11 DEF Capture!CastEnd, CaptureInv
  <2>3. /\ h \in Handlers /\ h.pc = "loop" /\ h.count = wsconn[s].count
        /\ h.since = wsconn[s].since
    BY <2>1, <2>2 DEF Handlers, Capture!Pcs, Capture!Quiet, Casting
  <2>4. wsregistered' \subseteq wsregistered /\ UNCHANGED <<wsrevoked, wsgone, wsgreetless>>
    BY <1>11 DEF Capture!CastEnd
  <2>5. Handles(s, h)'
    BY <2>1, <2>3, <2>4 DEF Handles
  <2> QED
    BY <2>2, <2>3, <2>4, <2>5, HandlerStep
<1>12. ASSUME NEW s \in Sockets, Capture!Revoke(s) \/ Capture!ClientGone(s) PROVE CaptureInv'
  <2>1. /\ wsconn' = wsconn /\ wsregistered' = wsregistered /\ wsgreetless' = wsgreetless
        /\ wsrevoked \subseteq wsrevoked' /\ wsgone \subseteq wsgone'
    BY <1>12 DEF Capture!Revoke, Capture!ClientGone
  <2> QED
    BY <2>1 DEF CaptureInv, Handles
<1>13. CASE UNCHANGED wsVars
  BY <1>13 DEF wsVars, CaptureInv, Handles
<1> QED
  BY <1>1, <1>2, <1>3, <1>4, <1>5, <1>6, <1>7, <1>8, <1>9, <1>10, <1>11, <1>12, <1>13
     DEF Capture!Next, Capture!Handle

\* only the end of a broadcast leaves it, and drops what was dead when it began
LEMMA CastStep ==
  CaptureInv /\ [Capture!Next]_wsVars =>
    \A s \in Sockets : (Capture!At(s, "casting") /\ ~Capture!At(s, "casting")') =>
      wsconn[s].cast.dead \cap wsregistered' = {}
<1> SUFFICES ASSUME CaptureInv, Capture!Next, NEW s \in Sockets,
                    wsconn[s].pc = "casting", wsconn'[s].pc # "casting"
             PROVE  wsconn[s].cast.dead \cap wsregistered' = {}
  BY DEF wsVars, Capture!At
<1>1. Handles(s, wsconn[s]) /\ wsconn \in [Sockets -> Handlers]
  BY DEF CaptureInv
<1>2. ASSUME NEW v \in Sockets, Capture!CastEnd(v) PROVE wsconn[s].cast.dead \cap wsregistered' = {}
  <2>1. v = s
    BY <1>1, <1>2 DEF Capture!CastEnd
  <2> QED
    BY <1>1, <1>2, <2>1 DEF Capture!CastEnd, Handles
<1>3. ASSUME NEW v \in Sockets, NEW r \in Sockets, Capture!Send(v, r) PROVE FALSE
  BY <1>1, <1>3 DEF Capture!Send, Handlers
<1>4. ASSUME NEW v \in Sockets,
             \/ Capture!Connect(v) \/ Capture!Register(v) \/ Capture!RegisterFails(v) \/ Capture!Greet(v)
             \/ Capture!Message(v) \/ Capture!MessageRefused(v) \/ Capture!Confirm(v) \/ Capture!Break(v)
             \/ Capture!Leave(v)
      PROVE  FALSE
  <2>1. wsconn[v].pc # "casting"
    BY <1>4 DEF Capture!Connect, Capture!Register, Capture!RegisterFails, Capture!Greet, Capture!Message,
                Capture!MessageRefused, Capture!Confirm, Capture!Break, Capture!Leave, Capture!At
  <2>2. wsconn'[s] = wsconn[s]
    BY <1>1, <1>4, <2>1
       DEF Capture!Connect, Capture!Register, Capture!RegisterFails, Capture!Greet, Capture!Message,
           Capture!MessageRefused, Capture!Confirm, Capture!Break, Capture!Leave, Capture!Goto
  <2> QED
    BY <2>2
<1>5. ASSUME NEW v \in Sockets, Capture!Revoke(v) \/ Capture!ClientGone(v) PROVE FALSE
  BY <1>5 DEF Capture!Revoke, Capture!ClientGone
<1> QED
  BY <1>2, <1>3, <1>4, <1>5 DEF Capture!Next, Capture!Handle

LEMMA CaptureMoves == [Next]_vars => [Capture!Next]_wsVars
  BY DEF Next, vars, AccountsKeeps, TeamKeeps, PairingKeeps, OnboardingKeeps, SharedKeeps, LimiterKeeps

\* For every number of connections and every checking interval, a revoked connection stores fewer
\* than Interval messages more, ended connections leave the registry, failed greetings apart, and
\* a broadcast drops the sockets that were dead when it began.
THEOREM CaptureIsSafe == Spec => CaptureSafe
<1>1. Init => CaptureInv
  BY CaptureInit DEF Init
<1>2. CaptureInv /\ [Next]_vars => CaptureInv'
  BY CaptureStep, CaptureMoves
<1>3. CaptureInv => Capture!RevocationLag /\ Capture!NoStaleEntry
  BY DEF CaptureInv, Handles, Capture!RevocationLag, Capture!NoStaleEntry, Capture!At
<1>4. CaptureInv /\ [Next]_vars =>
        [\A s \in Sockets : (Capture!At(s, "casting") /\ ~Capture!At(s, "casting")') =>
           wsconn[s].cast.dead \cap wsregistered' = {}]_Capture!vars
  BY CastStep, CaptureMoves
<1> QED
  BY <1>1, <1>2, <1>3, <1>4, PTL DEF Spec, CaptureSafe, Capture!BroadcastCleans

-------------------------------------------------------------------------------
(* Accounts.  Of a user of whom no increment was overwritten, no token and no   *)
(* row that a request has loaded is newer than the committed one, and one of    *)
(* the same version belongs to the same password.                               *)

LEMMA AccountsCardinality == \A S : Accounts!Cardinality(S) = Cardinality(S)
  BY DEF Accounts!Cardinality, Cardinality

Ops == {"login", "sso", "refresh", "logout", "change_password", "demote", "deactivate"}

\* a request is idle, authenticated or has loaded its row
Requests ==
  {Accounts!Idle}
  \cup [pc : {"authenticated"}, op : Ops, actor : Users, target : Users]
  \cup [pc : {"loaded"}, op : Ops, actor : Users, target : Users, seen : Accounts!Account]

\* what carries this version and password came no later than the row r
NoLater(version, password, r) ==
  version <= r.version /\ (version = r.version => password = r.password)

AccountsTyped ==
  /\ accaccount \in [Users -> Accounts!Account]
  /\ accpairs \subseteq Accounts!Pair /\ IsFiniteSet(accpairs)
  /\ acctx \in [Workers -> Requests]

TokensCurrent == \A p \in accpairs :
  p.user \notin acclost => NoLater(p.version, p.password, accaccount[p.user])

LoadedCurrent == \A w \in Workers :
  acctx[w].pc = "loaded" /\ acctx[w].target \notin acclost =>
    NoLater(acctx[w].seen.version, acctx[w].seen.password, accaccount[acctx[w].target])

AccountsInv == AccountsTyped /\ TokensCurrent /\ LoadedCurrent

LEMMA AccountsInit == Accounts!Init => AccountsInv
<1> SUFFICES ASSUME Accounts!Init PROVE AccountsInv
  OBVIOUS
<1>1. accaccount \in [Users -> Accounts!Account]
  BY DEF Accounts!Init, Accounts!Account, Accounts!NoJti
<1>2. acctx \in [Workers -> Requests] /\ \A w \in Workers : acctx[w].pc = "idle"
  BY DEF Accounts!Init, Accounts!Idle, Requests
<1>3. accpairs = {}
  BY DEF Accounts!Init
<1> QED
  BY <1>1, <1>2, <1>3, FS_EmptySet DEF AccountsInv, AccountsTyped, TokensCurrent, LoadedCurrent

\* a request that has not loaded its row, or that loads it now
LEMMA AccountsGoto ==
  ASSUME AccountsInv, NEW w \in Workers, NEW t \in Requests, acctx' = [acctx EXCEPT ![w] = t],
         UNCHANGED <<accaccount, accpairs, acclost>>,
         t.pc = "loaded" => t.seen = accaccount[t.target]
  PROVE  AccountsInv'
<1>1. AccountsTyped'
  BY DEF AccountsInv, AccountsTyped
<1>2. TokensCurrent'
  BY DEF AccountsInv, TokensCurrent
<1>3. ASSUME NEW v \in Workers, acctx'[v].pc = "loaded", acctx'[v].target \notin acclost
      PROVE  NoLater(acctx'[v].seen.version, acctx'[v].seen.password, accaccount[acctx'[v].target])
  <2>1. CASE v = w
    <3>1. acctx'[v] = t
      BY <2>1 DEF AccountsInv, AccountsTyped
    <3>2. t.target \in Users
      BY <1>3, <3>1 DEF Requests, Accounts!Idle
    <3>3. accaccount[t.target].version \in Nat
      BY <3>2 DEF AccountsInv, AccountsTyped, Accounts!Account
    <3> QED
      BY <1>3, <3>1, <3>3 DEF NoLater
  <2>2. CASE v # w
    BY <1>3, <2>2 DEF AccountsInv, AccountsTyped, LoadedCurrent
  <2> QED
    BY <2>1, <2>2
<1>4. LoadedCurrent'
  BY <1>3 DEF LoadedCurrent
<1> QED
  BY <1>1, <1>2, <1>4 DEF AccountsInv

\* a loaded request has all its parts
LEMMA LoadedRequest ==
  ASSUME AccountsInv, NEW w \in Workers, acctx[w].pc = "loaded"
  PROVE  /\ acctx[w].op \in Ops /\ acctx[w].actor \in Users /\ acctx[w].target \in Users
         /\ acctx[w].seen \in Accounts!Account
  BY DEF AccountsInv, AccountsTyped, Requests, Accounts!Idle

\* the row that a commit leaves
LEMMA RowWritten ==
  ASSUME AccountsInv, NEW w \in Workers, Accounts!Commit(w)
  PROVE  \E u \in Users, op \in Ops, seen \in Accounts!Account :
           /\ u = acctx[w].target /\ op = acctx[w].op /\ seen = acctx[w].seen
           /\ accaccount' \in [Users -> Accounts!Account]
           /\ \A v \in Users : v # u => accaccount'[v] = accaccount[v]
           /\ accaccount'[u].version = IF Accounts!Bumps(op) THEN seen.version + 1
                                      ELSE accaccount[u].version
           /\ accaccount'[u].password = IF op = "change_password" THEN seen.password + 1
                                       ELSE accaccount[u].password
           /\ accaccount'[u].active = (accaccount[u].active /\ op # "deactivate")
<1>1. /\ acctx[w].op \in Ops /\ acctx[w].target \in Users /\ acctx[w].seen \in Accounts!Account
  BY LoadedRequest DEF Accounts!Commit
<1>2. PICK u \in Users, op \in Ops, seen \in Accounts!Account :
        u = acctx[w].target /\ op = acctx[w].op /\ seen = acctx[w].seen
  BY <1>1
<1>3. PICK old \in Accounts!Account : old = accaccount[u]
  BY DEF AccountsInv, AccountsTyped
<1>4. PICK jti \in Nat : jti = Accounts!NextJti
  BY AccountsCardinality, FS_CardinalityType DEF AccountsInv, AccountsTyped, Accounts!NextJti
<1>5. PICK row : /\ accaccount' = [accaccount EXCEPT ![u] = row]
                 /\ row = Accounts!Written(w, old)
  BY <1>2, <1>3 DEF Accounts!Commit, AccountsInv, AccountsTyped
<1>6. row = [old EXCEPT !.version = IF Accounts!Bumps(op) THEN seen.version + 1 ELSE old.version,
                        !.active = old.active /\ op # "deactivate",
                        !.role = IF op = "demote" THEN "member" ELSE old.role,
                        !.password = IF op = "change_password" THEN seen.password + 1 ELSE old.password,
                        !.jti = IF Accounts!Issues(op) THEN jti
                                ELSE IF op = "logout" /\ seen.jti # Accounts!NoJti THEN Accounts!NoJti
                                ELSE old.jti]
  BY <1>2, <1>4, <1>5 DEF Accounts!Written, Accounts!NewVersion, Accounts!Seen
<1>7. /\ row \in Accounts!Account
      /\ row.version = IF Accounts!Bumps(op) THEN seen.version + 1 ELSE old.version
      /\ row.password = IF op = "change_password" THEN seen.password + 1 ELSE old.password
      /\ row.active = (old.active /\ op # "deactivate")
  <2>1. PICK version \in Nat : version = IF Accounts!Bumps(op) THEN seen.version + 1 ELSE old.version
    BY DEF Accounts!Account
  <2>2. PICK password \in Nat : password = IF op = "change_password" THEN seen.password + 1 ELSE old.password
    BY DEF Accounts!Account
  <2>3. PICK active \in BOOLEAN : active = (old.active /\ op # "deactivate")
    OBVIOUS
  <2>4. PICK role \in {"admin", "member"} : role = IF op = "demote" THEN "member" ELSE old.role
    BY DEF Accounts!Account
  <2>5. PICK j \in Nat : j = IF Accounts!Issues(op) THEN jti
                              ELSE IF op = "logout" /\ seen.jti # Accounts!NoJti THEN Accounts!NoJti
                              ELSE old.jti
    BY DEF Accounts!Account, Accounts!NoJti
  <2>6. row = [old EXCEPT !.version = version, !.active = active, !.role = role,
                          !.password = password, !.jti = j]
    BY <1>6, <2>1, <2>2, <2>3, <2>4, <2>5, Zenon
  <2>7. row \in Accounts!Account /\ row.version = version /\ row.password = password /\ row.active = active
    BY <2>6 DEF Accounts!Account
  <2> QED
    BY <2>1, <2>2, <2>3, <2>7, Zenon
<1>8. accaccount'[u] = row /\ accaccount' \in [Users -> Accounts!Account]
      /\ \A v \in Users : v # u => accaccount'[v] = accaccount[v]
  BY <1>5, <1>7 DEF AccountsInv, AccountsTyped
<1>9. /\ accaccount'[u].version = IF Accounts!Bumps(op) THEN seen.version + 1 ELSE accaccount[u].version
      /\ accaccount'[u].password = IF op = "change_password" THEN seen.password + 1
                                  ELSE accaccount[u].password
  BY <1>3, <1>7, <1>8
<1>10. accaccount'[u].active = (accaccount[u].active /\ op # "deactivate")
  BY <1>3, <1>7, <1>8
<1> QED
  BY <1>2, <1>8, <1>9, <1>10

LEMMA CommitStep == ASSUME AccountsInv, NEW w \in Workers, Accounts!Commit(w) PROVE AccountsInv'
<1>1. PICK u \in Users, op \in Ops, seen \in Accounts!Account :
        /\ u = acctx[w].target /\ op = acctx[w].op /\ seen = acctx[w].seen
        /\ accaccount' \in [Users -> Accounts!Account]
        /\ \A v \in Users : v # u => accaccount'[v] = accaccount[v]
        /\ accaccount'[u].version = IF Accounts!Bumps(op) THEN seen.version + 1
                                   ELSE accaccount[u].version
        /\ accaccount'[u].password = IF op = "change_password" THEN seen.password + 1
                                    ELSE accaccount[u].password
        /\ accaccount'[u].active = (accaccount[u].active /\ op # "deactivate")
  BY RowWritten
<1>2. PICK old \in Accounts!Account, row \in Accounts!Account :
        old = accaccount[u] /\ row = accaccount'[u]
  BY <1>1 DEF AccountsInv, AccountsTyped
<1>3. PICK jti \in Nat : jti = Accounts!NextJti
  BY AccountsCardinality, FS_CardinalityType DEF AccountsInv, AccountsTyped, Accounts!NextJti
<1>4. PICK issued : issued = Accounts!IssuedPair(w)
  OBVIOUS
<1>5. /\ acctx' = [acctx EXCEPT ![w] = Accounts!Idle]
      /\ accpairs' = IF Accounts!Issues(op) THEN accpairs \cup {issued} ELSE accpairs
      /\ acclost' = IF Accounts!Bumps(op) /\ seen.version # old.version THEN acclost \cup {u} ELSE acclost
  BY <1>1, <1>2, <1>4 DEF Accounts!Commit, Accounts!Seen
<1>6. /\ issued.user = u /\ issued \in Accounts!Pair
      /\ issued.version = IF Accounts!Bumps(op) THEN seen.version + 1 ELSE seen.version
      /\ issued.password = IF op = "change_password" THEN seen.password + 1 ELSE seen.password
  BY <1>1, <1>3, <1>4 DEF Accounts!IssuedPair, Accounts!NewVersion, Accounts!Seen, Accounts!Pair, Accounts!Account
<1>7. old.version \in Nat /\ seen.version \in Nat /\ row.version \in Nat
  BY DEF Accounts!Account
<1>8. op = "change_password" => Accounts!Bumps(op)
  BY DEF Accounts!Bumps
<1>9. u \notin acclost => NoLater(seen.version, seen.password, old)
  BY <1>1, <1>2 DEF AccountsInv, LoadedCurrent, Accounts!Commit
\* what came no later than the old row came no later than the new one
<1>10. ASSUME NEW version \in Nat, NEW password, u \notin acclost', NoLater(version, password, old)
       PROVE  NoLater(version, password, row)
  <2>1. CASE Accounts!Bumps(op)
    <3>1. row.version = old.version + 1
      BY <1>1, <1>2, <1>5, <1>10, <2>1
    <3> QED
      BY <1>7, <1>10, <3>1 DEF NoLater
  <2>2. CASE ~Accounts!Bumps(op)
    <3>1. row.version = old.version /\ row.password = old.password
      BY <1>1, <1>2, <1>8, <2>2
    <3> QED
      BY <1>10, <3>1 DEF NoLater
  <2> QED
    BY <2>1, <2>2
<1>11. u \notin acclost' => u \notin acclost /\ (Accounts!Bumps(op) => seen.version = old.version)
  BY <1>5
<1>12. u \notin acclost' => NoLater(issued.version, issued.password, row)
  <2>1. CASE Accounts!Bumps(op)
    <3>1. u \notin acclost' => seen.password = old.password /\ seen.version = old.version
      BY <1>9, <1>11, <2>1 DEF NoLater
    <3> QED
      BY <1>1, <1>2, <1>6, <1>7, <2>1, <3>1 DEF NoLater
  <2>2. CASE ~Accounts!Bumps(op)
    BY <1>1, <1>2, <1>6, <1>8, <1>9, <1>11, <2>2 DEF NoLater
  <2> QED
    BY <2>1, <2>2
<1>13. AccountsTyped'
  <2>1. acctx' \in [Workers -> Requests]
    BY <1>5 DEF AccountsInv, AccountsTyped, Requests
  <2>2. accpairs' \subseteq Accounts!Pair /\ IsFiniteSet(accpairs')
    BY <1>5, <1>6, FS_AddElement DEF AccountsInv, AccountsTyped
  <2> QED
    BY <1>1, <2>1, <2>2 DEF AccountsTyped
<1>14. TokensCurrent'
  <2>1. ASSUME NEW p \in accpairs', p.user \notin acclost'
        PROVE  NoLater(p.version, p.password, accaccount'[p.user])
    <3>1. CASE p = issued
      BY <1>2, <1>6, <1>12, <2>1, <3>1
    <3>2. CASE p \in accpairs
      <4>1. p.user \in Users /\ p.version \in Nat /\ NoLater(p.version, p.password, accaccount[p.user])
        BY <1>5, <2>1, <3>2 DEF AccountsInv, AccountsTyped, TokensCurrent, Accounts!Pair
      <4>2. CASE p.user = u
        BY <1>2, <1>10, <2>1, <4>1, <4>2
      <4>3. CASE p.user # u
        <5>1. accaccount'[p.user] = accaccount[p.user]
          BY <1>1, <4>1, <4>3
        <5> QED
          BY <4>1, <5>1
      <4> QED
        BY <4>2, <4>3
    <3> QED
      BY <1>5, <2>1, <3>1, <3>2
  <2> QED
    BY <2>1 DEF TokensCurrent
<1>15. LoadedCurrent'
  <2>1. ASSUME NEW v \in Workers, acctx'[v].pc = "loaded", acctx'[v].target \notin acclost'
        PROVE  NoLater(acctx'[v].seen.version, acctx'[v].seen.password, accaccount'[acctx'[v].target])
    <3>1. acctx'[v] = acctx[v]
      BY <1>5, <2>1 DEF AccountsInv, AccountsTyped, Accounts!Idle
    <3>2. PICK t \in Users, s \in Accounts!Account : t = acctx[v].target /\ s = acctx[v].seen
      BY <2>1, <3>1, LoadedRequest
    <3>3. NoLater(s.version, s.password, accaccount[t])
      BY <1>5, <2>1, <3>1, <3>2 DEF AccountsInv, LoadedCurrent
    <3>4. NoLater(s.version, s.password, accaccount'[t])
      <4>1. CASE t = u
        <5>1. s.version \in Nat
          BY DEF Accounts!Account
        <5> QED
          BY <1>2, <1>10, <2>1, <3>1, <3>2, <3>3, <4>1, <5>1
      <4>2. CASE t # u
        <5>1. accaccount'[t] = accaccount[t]
          BY <1>1, <4>2
        <5> QED
          BY <3>3, <5>1
      <4> QED
        BY <4>1, <4>2
    <3> QED
      BY <3>1, <3>2, <3>4
  <2> QED
    BY <2>1 DEF LoadedCurrent
<1> QED
  BY <1>13, <1>14, <1>15 DEF AccountsInv

LEMMA AccountsStep == AccountsInv /\ [Accounts!Next]_accVars => AccountsInv'
<1> SUFFICES ASSUME AccountsInv, [Accounts!Next]_accVars PROVE AccountsInv'
  OBVIOUS
<1>1. ASSUME NEW w \in Workers, Accounts!Load(w) PROVE AccountsInv'
  <2>1. acctx[w] \in Requests /\ acctx[w].pc = "authenticated"
    BY <1>1 DEF Accounts!Load, AccountsInv, AccountsTyped
  <2>2. PICK op \in Ops, a \in Users, u \in Users :
          op = acctx[w].op /\ a = acctx[w].actor /\ u = acctx[w].target
    BY <2>1 DEF Requests, Accounts!Idle
  <2>3. PICK seen \in Accounts!Account : seen = accaccount[u]
    BY DEF AccountsInv, AccountsTyped
  <2>4. PICK t : /\ t = [pc |-> "loaded", op |-> op, actor |-> a, target |-> u, seen |-> seen]
                 /\ acctx' = [acctx EXCEPT ![w] = t]
    BY <1>1, <2>2, <2>3 DEF Accounts!Load
  <2>5. t \in Requests /\ t.pc = "loaded" /\ t.seen = accaccount[t.target]
    BY <2>3, <2>4 DEF Requests
  <2> QED
    BY <1>1, <2>4, <2>5, AccountsGoto DEF Accounts!Load
<1>2. ASSUME NEW w \in Workers, Accounts!Commit(w) PROVE AccountsInv'
  BY <1>2, CommitStep
<1>3. ASSUME NEW w \in Workers, Accounts!Fail(w) PROVE AccountsInv'
  <2>1. Accounts!Idle \in Requests /\ Accounts!Idle.pc = "idle"
    BY DEF Requests, Accounts!Idle
  <2> QED
    BY <1>3, <2>1, AccountsGoto DEF Accounts!Fail
<1>4. ASSUME NEW w \in Workers, NEW u \in Users, NEW op \in Ops,
             UNCHANGED <<accaccount, accpairs, acclost>>,
             acctx' = [acctx EXCEPT ![w] = [pc |-> "loaded", op |-> op, actor |-> u, target |-> u,
                                            seen |-> accaccount[u]]]
      PROVE  AccountsInv'
  <2>1. PICK seen \in Accounts!Account : seen = accaccount[u]
    BY DEF AccountsInv, AccountsTyped
  <2>2. PICK t : /\ t = [pc |-> "loaded", op |-> op, actor |-> u, target |-> u, seen |-> seen]
                 /\ acctx' = [acctx EXCEPT ![w] = t]
    BY <1>4, <2>1
  <2>3. t \in Requests /\ t.seen = accaccount[t.target]
    BY <2>1, <2>2 DEF Requests
  <2> QED
    BY <1>4, <2>2, <2>3, AccountsGoto
<1>5. ASSUME NEW w \in Workers, NEW p \in accpairs, Accounts!Refresh(w, p) PROVE AccountsInv'
  <2>1. p.user \in Users /\ "refresh" \in Ops
    BY DEF AccountsInv, AccountsTyped, Accounts!Pair, Ops
  <2> QED
    BY <1>4, <1>5, <2>1 DEF Accounts!Refresh
<1>6. ASSUME NEW w \in Workers, NEW u \in Users, NEW op \in {"login", "sso"}, Accounts!Login(w, u, op)
      PROVE  AccountsInv'
  <2>1. op \in Ops
    BY DEF Ops
  <2> QED
    BY <1>4, <1>6, <2>1 DEF Accounts!Login
<1>7. ASSUME NEW w \in Workers, NEW a \in Users, NEW u \in Users, NEW op \in Ops,
             UNCHANGED <<accaccount, accpairs, acclost>>,
             acctx' = [acctx EXCEPT ![w] = [pc |-> "authenticated", op |-> op, actor |-> a, target |-> u]]
      PROVE  AccountsInv'
  <2>1. PICK t : /\ t = [pc |-> "authenticated", op |-> op, actor |-> a, target |-> u]
                 /\ acctx' = [acctx EXCEPT ![w] = t]
    BY <1>7
  <2>2. t \in Requests /\ t.pc # "loaded"
    BY <2>1 DEF Requests
  <2> QED
    BY <1>7, <2>1, <2>2, AccountsGoto
<1>8. ASSUME NEW w \in Workers, NEW p \in accpairs, NEW op \in Accounts!Bearer, Accounts!Authenticate(w, p, op)
      PROVE  AccountsInv'
  <2>1. p.user \in Users /\ op \in Ops
    BY DEF AccountsInv, AccountsTyped, Accounts!Pair, Accounts!Bearer, Ops
  <2> QED
    BY <1>7, <1>8, <2>1 DEF Accounts!Authenticate
<1>9. ASSUME NEW w \in Workers, NEW p \in accpairs, NEW op \in Accounts!OfAdmin, NEW u \in Users,
             Accounts!RequireAdmin(w, p, op, u)
      PROVE  AccountsInv'
  <2>1. p.user \in Users /\ op \in Ops
    BY DEF AccountsInv, AccountsTyped, Accounts!Pair, Accounts!OfAdmin, Ops
  <2> QED
    BY <1>7, <1>9, <2>1 DEF Accounts!RequireAdmin
<1>10. CASE UNCHANGED accVars
  BY <1>10 DEF accVars, AccountsInv, AccountsTyped, TokensCurrent, LoadedCurrent
<1> QED
  BY <1>1, <1>2, <1>3, <1>5, <1>6, <1>8, <1>9, <1>10 DEF Accounts!Next

\* a refused token that is accepted again belongs to a user of whom an increment was overwritten
LEMMA RefusedStep ==
  AccountsInv /\ [Accounts!Next]_accVars =>
    \A p \in accpairs : (~Accounts!Accepted(p) /\ Accounts!Accepted(p)') => p.user \in acclost'
<1> SUFFICES ASSUME AccountsInv, [Accounts!Next]_accVars, NEW p \in accpairs,
                    ~Accounts!Accepted(p), Accounts!Accepted(p)', p.user \notin acclost'
             PROVE  FALSE
  OBVIOUS
<1>1. p.user \in Users /\ p.version \in Nat
  BY DEF AccountsInv, AccountsTyped, Accounts!Pair
<1>2. accaccount'[p.user].version = p.version /\ accaccount'[p.user].active
  BY DEF Accounts!Accepted
<1>3. ASSUME NEW w \in Workers, Accounts!Commit(w) PROVE FALSE
  <2>1. PICK u \in Users, op \in Ops, seen \in Accounts!Account :
          /\ u = acctx[w].target /\ op = acctx[w].op /\ seen = acctx[w].seen
          /\ accaccount' \in [Users -> Accounts!Account]
          /\ \A v \in Users : v # u => accaccount'[v] = accaccount[v]
          /\ accaccount'[u].version = IF Accounts!Bumps(op) THEN seen.version + 1
                                     ELSE accaccount[u].version
          /\ accaccount'[u].password = IF op = "change_password" THEN seen.password + 1
                                      ELSE accaccount[u].password
          /\ accaccount'[u].active = (accaccount[u].active /\ op # "deactivate")
    BY <1>3, RowWritten
  <2>2. CASE p.user = u
    <3>1. /\ p.user \notin acclost /\ (Accounts!Bumps(op) => seen.version = accaccount[u].version)
      BY <1>3, <2>1, <2>2 DEF Accounts!Commit, Accounts!Seen
    <3>2. p.version <= accaccount[u].version /\ accaccount[u].version \in Nat
      BY <2>2, <3>1 DEF AccountsInv, AccountsTyped, TokensCurrent, NoLater, Accounts!Account
    <3>3. accaccount[u].active
      BY <1>2, <2>1, <2>2
    <3>4. p.version # accaccount[u].version
      BY <2>2, <3>3 DEF Accounts!Accepted
    <3> QED
      BY <1>1, <1>2, <2>1, <2>2, <3>1, <3>2, <3>4
  <2>3. CASE p.user # u
    <3>1. accaccount'[p.user] = accaccount[p.user]
      BY <1>1, <2>1, <2>3
    <3> QED
      BY <1>2, <3>1 DEF Accounts!Accepted
  <2> QED
    BY <2>2, <2>3
<1>4. CASE accaccount' = accaccount
  BY <1>2, <1>4 DEF Accounts!Accepted
<1> QED
  BY <1>3, <1>4
     DEF Accounts!Next, accVars, Accounts!Load, Accounts!Fail, Accounts!Refresh, Accounts!Authenticate,
         Accounts!RequireAdmin, Accounts!Login

\* no request brings a deactivated account back
LEMMA DeactivatedStep ==
  AccountsInv /\ [Accounts!Next]_accVars =>
    \A u \in Users : ~accaccount[u].active => ~accaccount'[u].active
<1> SUFFICES ASSUME AccountsInv, [Accounts!Next]_accVars, NEW v \in Users, accaccount'[v].active
             PROVE  accaccount[v].active
  OBVIOUS
<1>1. ASSUME NEW w \in Workers, Accounts!Commit(w) PROVE accaccount[v].active
  <2>1. PICK u \in Users, op \in Ops :
          /\ \A x \in Users : x # u => accaccount'[x] = accaccount[x]
          /\ accaccount'[u].active = (accaccount[u].active /\ op # "deactivate")
    BY <1>1, RowWritten
  <2> QED
    BY <2>1
<1>2. CASE accaccount' = accaccount
  BY <1>2
<1> QED
  BY <1>1, <1>2
     DEF Accounts!Next, accVars, Accounts!Load, Accounts!Fail, Accounts!Refresh, Accounts!Authenticate,
         Accounts!RequireAdmin, Accounts!Login

LEMMA AccountsMoves == [Next]_vars => [Accounts!Next]_accVars
  BY DEF Next, vars, TeamKeeps, PairingKeeps, OnboardingKeeps, SharedKeeps, LimiterKeeps, CaptureKeeps

-------------------------------------------------------------------------------
(* A team whose requests do not overlap.  Whoever demotes or deactivates a      *)
(* member is an administrator, another one, from the check to the commit.       *)

LEMMA TeamCardinality == \A S : Team!Cardinality(S) = Cardinality(S)
  BY DEF Team!Cardinality, Cardinality

LEMMA SameRows == Team!Account = Accounts!Account /\ Team!Idle = Accounts!Idle
  BY DEF Team!Account, Accounts!Account, Team!Idle, Accounts!Idle

TeamTyped ==
  /\ teamaccount \in [Users -> Accounts!Account]
  /\ IsFiniteSet(teampairs) /\ \A p \in teampairs : p.user \in Users
  /\ teamtx \in [{Alone} -> Requests]

\* the request t is that of another administrator when it needs one
Authorised(t) ==
  t.pc # "idle" /\ t.op \in Team!OfAdmin => Team!IsAdmin(t.actor) /\ t.actor # t.target

TeamInv == TeamTyped /\ Authorised(teamtx[Alone]) /\ Team!AdminRemains

LEMMA TeamInit == Team!Init => TeamInv
<1> SUFFICES ASSUME Team!Init PROVE TeamInv
  OBVIOUS
<1>1. teamaccount \in [Users -> Accounts!Account] /\ \A u \in Users : Team!IsAdmin(u)
  BY DEF Team!Init, Accounts!Account, Team!NoJti, Team!IsAdmin
<1>2. teamtx \in [{Alone} -> Requests] /\ teamtx[Alone].pc = "idle" /\ teampairs = {}
  BY DEF Team!Init, Team!Idle, Accounts!Idle, Requests
<1> QED
  BY <1>1, <1>2, FS_EmptySet, UsersAssumption DEF TeamInv, TeamTyped, Authorised, Team!AdminRemains

\* the request goes on, and changes no row
LEMMA TeamGoto ==
  ASSUME TeamInv, NEW t \in Requests, teamtx' = [teamtx EXCEPT ![Alone] = t],
         UNCHANGED <<teamaccount, teampairs>>, Authorised(t)
  PROVE  TeamInv'
<1>1. teamtx'[Alone] = t
  BY DEF TeamInv, TeamTyped
<1>2. TeamTyped'
  BY DEF TeamInv, TeamTyped
<1>3. Authorised(teamtx[Alone])'
  BY <1>1 DEF Authorised, Team!IsAdmin
<1>4. Team!AdminRemains'
  BY DEF TeamInv, Team!AdminRemains, Team!IsAdmin
<1> QED
  BY <1>2, <1>3, <1>4 DEF TeamInv

LEMMA TeamCommit == ASSUME TeamInv, Team!Commit(Alone) PROVE TeamInv'
<1>1. teamtx[Alone] \in Requests /\ teamtx[Alone].pc = "loaded"
  BY DEF TeamInv, TeamTyped, Team!Commit
<1>2. PICK u \in Users, op \in Ops, a \in Users, seen \in Accounts!Account :
        u = teamtx[Alone].target /\ op = teamtx[Alone].op /\ a = teamtx[Alone].actor /\ seen = teamtx[Alone].seen
  BY <1>1 DEF Requests, Accounts!Idle
<1>3. PICK old \in Accounts!Account : old = teamaccount[u]
  BY DEF TeamInv, TeamTyped
<1>4. PICK jti \in Nat : jti = Team!NextJti
  BY TeamCardinality, FS_CardinalityType DEF TeamInv, TeamTyped, Team!NextJti
<1>5. PICK row : /\ teamaccount' = [teamaccount EXCEPT ![u] = row]
                 /\ row = Team!Written(Alone, old)
  BY <1>2, <1>3 DEF Team!Commit, TeamInv, TeamTyped
<1>6. /\ row \in Accounts!Account /\ row.active = (old.active /\ op # "deactivate")
      /\ row.role = IF op = "demote" THEN "member" ELSE old.role
  <2>1. PICK version \in Nat : version = IF Team!Bumps(op) THEN seen.version + 1 ELSE old.version
    BY DEF Accounts!Account
  <2>2. PICK password \in Nat : password = IF op = "change_password" THEN seen.password + 1 ELSE old.password
    BY DEF Accounts!Account
  <2>3. PICK active \in BOOLEAN : active = (old.active /\ op # "deactivate")
    OBVIOUS
  <2>4. PICK role \in {"admin", "member"} : role = IF op = "demote" THEN "member" ELSE old.role
    BY DEF Accounts!Account
  <2>5. PICK j \in Nat : j = IF Team!Issues(op) THEN jti
                              ELSE IF op = "logout" /\ seen.jti # Team!NoJti THEN Team!NoJti
                              ELSE old.jti
    BY DEF Accounts!Account, Team!NoJti
  <2>6. row = [old EXCEPT !.version = IF Team!Bumps(op) THEN seen.version + 1 ELSE old.version,
                          !.active = old.active /\ op # "deactivate",
                          !.role = IF op = "demote" THEN "member" ELSE old.role,
                          !.password = IF op = "change_password" THEN seen.password + 1 ELSE old.password,
                          !.jti = IF Team!Issues(op) THEN jti
                                  ELSE IF op = "logout" /\ seen.jti # Team!NoJti THEN Team!NoJti
                                  ELSE old.jti]
    BY <1>2, <1>4, <1>5 DEF Team!Written, Team!NewVersion, Team!Seen
  <2>7. row = [old EXCEPT !.version = version, !.active = active, !.role = role,
                          !.password = password, !.jti = j]
    BY <2>1, <2>2, <2>3, <2>4, <2>5, <2>6, Zenon
  <2>8. row \in Accounts!Account /\ row.active = active /\ row.role = role
    BY <2>7 DEF Accounts!Account
  <2> QED
    BY <2>3, <2>4, <2>8, Zenon
<1>7. PICK issued : issued = Team!IssuedPair(Alone)
  OBVIOUS
<1>8. /\ teamtx' = [teamtx EXCEPT ![Alone] = Accounts!Idle]
      /\ teampairs' = IF Team!Issues(op) THEN teampairs \cup {issued} ELSE teampairs
      /\ issued.user = u
  BY <1>2, <1>7, SameRows DEF Team!Commit, Team!IssuedPair
<1>9. /\ teamaccount' \in [Users -> Accounts!Account] /\ teamaccount'[u] = row
      /\ \A v \in Users : v # u => teamaccount'[v] = teamaccount[v]
  BY <1>5, <1>6 DEF TeamInv, TeamTyped
<1>10. TeamTyped'
  <2>1. teamtx' \in [{Alone} -> Requests]
    BY <1>8 DEF TeamInv, TeamTyped, Requests
  <2>2. IsFiniteSet(teampairs') /\ \A p \in teampairs' : p.user \in Users
    BY <1>8, FS_AddElement DEF TeamInv, TeamTyped
  <2> QED
    BY <1>9, <2>1, <2>2 DEF TeamTyped
<1>11. Authorised(teamtx[Alone])'
  <2>1. teamtx'[Alone].pc = "idle"
    BY <1>8 DEF TeamInv, TeamTyped, Accounts!Idle
  <2> QED
    BY <2>1 DEF Authorised
<1>12. Team!AdminRemains'
  <2>1. CASE op \in Team!OfAdmin
    <3>1. Team!IsAdmin(a) /\ a # u
      BY <1>1, <1>2, <2>1 DEF TeamInv, Authorised
    <3>2. teamaccount'[a] = teamaccount[a]
      BY <1>9, <3>1
    <3> QED
      BY <3>1, <3>2 DEF Team!AdminRemains, Team!IsAdmin
  <2>2. CASE op \notin Team!OfAdmin
    <3>1. PICK v \in Users : Team!IsAdmin(v)
      BY DEF TeamInv, Team!AdminRemains
    <3>2. row.active = old.active /\ row.role = old.role
      BY <1>6, <2>2 DEF Team!OfAdmin, Accounts!Account
    <3>3. teamaccount'[v].active = teamaccount[v].active /\ teamaccount'[v].role = teamaccount[v].role
      BY <1>3, <1>9, <3>2
    <3> QED
      BY <3>1, <3>3 DEF Team!AdminRemains, Team!IsAdmin
  <2> QED
    BY <2>1, <2>2
<1> QED
  BY <1>10, <1>11, <1>12 DEF TeamInv

LEMMA TeamStep == TeamInv /\ [Team!Next]_teamVars => TeamInv'
<1> SUFFICES ASSUME TeamInv, [Team!Next]_teamVars PROVE TeamInv'
  OBVIOUS
<1>1. CASE Team!Load(Alone)
  <2>1. teamtx[Alone] \in Requests /\ teamtx[Alone].pc = "authenticated" /\ Authorised(teamtx[Alone])
    BY <1>1 DEF Team!Load, TeamInv, TeamTyped
  <2>2. PICK op \in Ops, a \in Users, u \in Users :
          op = teamtx[Alone].op /\ a = teamtx[Alone].actor /\ u = teamtx[Alone].target
    BY <2>1 DEF Requests, Accounts!Idle
  <2>3. PICK seen \in Accounts!Account : seen = teamaccount[u]
    BY DEF TeamInv, TeamTyped
  <2>4. PICK t : /\ t = [pc |-> "loaded", op |-> op, actor |-> a, target |-> u, seen |-> seen]
                 /\ teamtx' = [teamtx EXCEPT ![Alone] = t]
    BY <1>1, <2>2, <2>3 DEF Team!Load
  <2>5. t \in Requests
    BY <2>4 DEF Requests
  <2>6. Authorised(t)
    BY <2>1, <2>2, <2>4 DEF Authorised
  <2> QED
    BY <1>1, <2>4, <2>5, <2>6, TeamGoto DEF Team!Load
<1>2. CASE Team!Commit(Alone)
  BY <1>2, TeamCommit
<1>3. CASE Team!Fail(Alone)
  <2>1. Accounts!Idle \in Requests /\ Authorised(Accounts!Idle)
    BY DEF Requests, Accounts!Idle, Authorised
  <2> QED
    BY <1>3, <2>1, SameRows, TeamGoto DEF Team!Fail
\* a login or a refresh loads its row at once
<1>4. ASSUME NEW u \in Users, NEW op \in Ops, op \notin Team!OfAdmin,
             UNCHANGED <<teamaccount, teampairs>>,
             teamtx' = [teamtx EXCEPT ![Alone] = [pc |-> "loaded", op |-> op, actor |-> u, target |-> u,
                                                  seen |-> teamaccount[u]]]
      PROVE  TeamInv'
  <2>1. PICK seen \in Accounts!Account : seen = teamaccount[u]
    BY DEF TeamInv, TeamTyped
  <2>2. PICK t : /\ t = [pc |-> "loaded", op |-> op, actor |-> u, target |-> u, seen |-> seen]
                 /\ teamtx' = [teamtx EXCEPT ![Alone] = t]
    BY <1>4, <2>1
  <2>3. t \in Requests /\ t.op = op
    BY <2>2 DEF Requests
  <2> QED
    BY <1>4, <2>2, <2>3, TeamGoto DEF Authorised
<1>5. ASSUME NEW p \in teampairs, Team!Refresh(Alone, p) PROVE TeamInv'
  <2>1. p.user \in Users /\ "refresh" \in Ops /\ "refresh" \notin Team!OfAdmin
    BY DEF TeamInv, TeamTyped, Ops, Team!OfAdmin
  <2> QED
    BY <1>4, <1>5, <2>1 DEF Team!Refresh
<1>6. ASSUME NEW u \in Users, NEW op \in {"login", "sso"}, Team!Login(Alone, u, op) PROVE TeamInv'
  <2>1. op \in Ops /\ op \notin Team!OfAdmin
    BY DEF Ops, Team!OfAdmin
  <2> QED
    BY <1>4, <1>6, <2>1 DEF Team!Login
\* the bearer is authenticated, and checked when it needs to be an administrator
<1>7. ASSUME NEW a \in Users, NEW u \in Users, NEW op \in Ops,
             op \in Team!OfAdmin => Team!IsAdmin(a) /\ a # u,
             UNCHANGED <<teamaccount, teampairs>>,
             teamtx' = [teamtx EXCEPT ![Alone] = [pc |-> "authenticated", op |-> op, actor |-> a, target |-> u]]
      PROVE  TeamInv'
  <2>1. PICK t : /\ t = [pc |-> "authenticated", op |-> op, actor |-> a, target |-> u]
                 /\ teamtx' = [teamtx EXCEPT ![Alone] = t]
    BY <1>7
  <2>2. t \in Requests /\ Authorised(t)
    BY <1>7, <2>1 DEF Requests, Authorised
  <2> QED
    BY <1>7, <2>1, <2>2, TeamGoto
<1>8. ASSUME NEW p \in teampairs, NEW op \in Team!Bearer, Team!Authenticate(Alone, p, op) PROVE TeamInv'
  <2>1. p.user \in Users /\ op \in Ops /\ op \notin Team!OfAdmin
    BY DEF TeamInv, TeamTyped, Team!Bearer, Team!OfAdmin, Ops
  <2> QED
    BY <1>7, <1>8, <2>1 DEF Team!Authenticate
<1>9. ASSUME NEW p \in teampairs, NEW op \in Team!OfAdmin, NEW u \in Users, Team!RequireAdmin(Alone, p, op, u)
      PROVE  TeamInv'
  <2>1. p.user \in Users /\ op \in Ops
    BY DEF TeamInv, TeamTyped, Team!OfAdmin, Ops
  <2> QED
    BY <1>7, <1>9, <2>1 DEF Team!RequireAdmin
<1>10. CASE UNCHANGED teamVars
  <2>1. teamtx' = teamtx /\ teamaccount' = teamaccount /\ teampairs' = teampairs
    BY <1>10 DEF teamVars
  <2> QED
    BY <2>1 DEF TeamInv, TeamTyped, Authorised, Team!AdminRemains, Team!IsAdmin
<1> QED
  BY <1>1, <1>2, <1>3, <1>5, <1>6, <1>8, <1>9, <1>10 DEF Team!Next

LEMMA TeamMoves == [Next]_vars => [Team!Next]_teamVars
  BY DEF Next, vars, AccountsKeeps, PairingKeeps, OnboardingKeeps, SharedKeeps, LimiterKeeps, CaptureKeeps

\* However many requests overlap, a refused token stays refused unless they lost an increment of
\* its user's version, accepted tokens belong to the current password, a deactivated account stays
\* so, and a team that is administered by one request at a time keeps an administrator.
THEOREM AccountsAreSafe == Spec => AccountsSafe
<1>1. Init => AccountsInv /\ TeamInv
  BY AccountsInit, TeamInit DEF Init
<1>2. AccountsInv /\ TeamInv /\ [Next]_vars => AccountsInv' /\ TeamInv'
  BY AccountsStep, AccountsMoves, TeamStep, TeamMoves
<1>3. AccountsInv => Accounts!PasswordBound
  BY DEF AccountsInv, TokensCurrent, NoLater, Accounts!PasswordBound, Accounts!Accepted
<1>4. TeamInv => Team!AdminRemains
  BY DEF TeamInv
<1>5. AccountsInv /\ [Next]_vars =>
        [\A p \in accpairs : (~Accounts!Accepted(p) /\ Accounts!Accepted(p)') => p.user \in acclost']_Accounts!vars
  BY RefusedStep, AccountsMoves
<1>6. AccountsInv /\ [Next]_vars =>
        [\A u \in Users : ~accaccount[u].active => ~accaccount'[u].active]_Accounts!vars
  BY DeactivatedStep, AccountsMoves
<1> QED
  BY <1>1, <1>2, <1>3, <1>4, <1>5, <1>6, PTL
     DEF Spec, AccountsSafe, Accounts!RevokedForGood, Accounts!DeactivatedForGood

-------------------------------------------------------------------------------
(* Rate limiters.  What a limiter counts is the end of the log of what it let     *)
(* through, and what it has forgotten is older than the window: so a request and  *)
(* the one Limit places before it are a window apart.                             *)

\* x is what follows the first d items of s
TailOf(x, s, d) == Len(x) = Len(s) - d /\ \A i \in 1..Len(x) : x[i] = s[i + d]

Ascends(s) == \A i, j \in DOMAIN s : i <= j => s[i] <= s[j]

Spaced(s, n, w) == \A i, j \in DOMAIN s : j = i + n => s[i] + w <= s[j]

\* the times b are the end of the log s, and the others have left the window if c
Counts(b, s, now, w, c) ==
  \E d \in 0..Len(s) : TailOf(b, s, d) /\ (c => \A i \in 1..d : s[i] <= now - w)

\* of times in order, those after a are the last ones
LEMMA LatestKept ==
  ASSUME NEW m \in Nat, NEW s \in Seq(0..m), Ascends(s), NEW a \in Int
  PROVE  LET x == Kept(s, (a + 1)..m)
         IN  /\ x \in Seq(0..m) /\ \A i \in 1..Len(x) : x[i] > a
             /\ \E d \in 0..Len(s) : TailOf(x, s, d) /\ \A i \in 1..d : s[i] <= a
<1>1. PICK n \in Nat : n = Len(s) /\ DOMAIN s = 1..n
  OBVIOUS
<1>2. PICK T : T = (a + 1)..m
  OBVIOUS
<1>3. PICK K : Keeps(K, s, T, n) /\ Kept(s, T) = K[n]
  BY <1>1, KeptSteps
<1>4. K[0] = <<>> /\ \A i \in 1..n : K[i] = IF s[i] \in T THEN Append(K[i - 1], s[i]) ELSE K[i - 1]
  BY <1>3 DEF Keeps
<1>5. \A i \in 1..n : s[i] \in 0..m
  BY <1>1
<1> DEFINE Late(x, k, d) == /\ x \in Seq(0..m) /\ Len(x) = k - d
                            /\ \A i \in 1..Len(x) : x[i] = s[i + d] /\ x[i] > a
                            /\ \A i \in 1..d : s[i] <= a
<1> DEFINE P == {k \in Nat : k <= n => \E d \in 0..k : Late(K[k], k, d)}
<1>6. 0 \in P
  <2>1. K[0] \in Seq(0..m) /\ Len(K[0]) = 0 /\ 0 \in 0..0
    BY <1>4, EmptySeq
  <2>2. Late(K[0], 0, 0)
    BY <2>1
  <2> HIDE DEF Late
  <2> QED
    BY <2>1, <2>2
<1>7. ASSUME NEW k \in P PROVE k + 1 \in P
  <2> HIDE DEF Late
  <2> SUFFICES ASSUME k + 1 <= n PROVE \E d \in 0..(k + 1) : Late(K[k + 1], k + 1, d)
    OBVIOUS
  <2>0. PICK d \in 0..k : Late(K[k], k, d)
    OBVIOUS
  <2>1. PICK x : x = K[k] /\ Late(x, k, d)
    BY <2>0
  <2>2. /\ x \in Seq(0..m) /\ Len(x) = k - d /\ \A i \in 1..d : s[i] <= a
        /\ \A i \in 1..Len(x) : x[i] = s[i + d] /\ x[i] > a
    BY <2>1 DEF Late
  <2>3. K[k + 1] = IF s[k + 1] \in T THEN Append(x, s[k + 1]) ELSE x
    BY <1>4, <2>1, k + 1 \in 1..n
  <2>4. PICK e \in 0..m : e = s[k + 1]
    BY <1>5, k + 1 \in 1..n
  <2>5. CASE e \in T
    <3>1. PICK y : y = Append(x, e) /\ y = K[k + 1]
      BY <2>3, <2>4, <2>5
    <3>2. /\ y \in Seq(0..m) /\ Len(y) = Len(x) + 1 /\ y[Len(x) + 1] = e
          /\ \A i \in 1..Len(x) : y[i] = x[i]
      <4>1. PICK S : S = 0..m
        OBVIOUS
      <4>2. x \in Seq(S) /\ e \in S
        BY <2>2, <4>1
      <4>3. /\ Append(x, e) \in Seq(S) /\ Len(Append(x, e)) = Len(x) + 1 /\ Append(x, e)[Len(x) + 1] = e
            /\ \A i \in 1..Len(x) : Append(x, e)[i] = x[i]
        BY <4>2, AppendProperties
      <4> QED
        BY <3>1, <4>1, <4>3
    <3>3. e > a
      BY <1>2, <2>5
    <3>4. \A i \in 1..Len(y) : i \in 1..Len(x) \/ i = Len(x) + 1
      BY <2>2, <3>2
    <3>5. (Len(x) + 1) + d = k + 1
      BY <2>2
    <3>6. \A i \in 1..Len(y) : y[i] = s[i + d] /\ y[i] > a
      BY <2>2, <2>4, <3>2, <3>3, <3>4, <3>5
    <3>7. d \in 0..(k + 1) /\ Len(y) = (k + 1) - d
      BY <2>2, <3>2
    <3>8. Late(y, k + 1, d)
      BY <2>2, <3>2, <3>6, <3>7 DEF Late
    <3> QED
      BY <3>1, <3>7, <3>8
  <2>6. CASE e \notin T
    <3>1. e <= a
      BY <1>2, <2>6
    <3>2. \A i \in 1..(k + 1) : s[i] <= a
      <4>1. ASSUME NEW i \in 1..(k + 1) PROVE s[i] <= a
        <5>1. i \in DOMAIN s /\ k + 1 \in DOMAIN s /\ i <= k + 1 /\ s[i] \in 0..m
          BY <1>1, <1>5
        <5>2. s[i] <= e
          BY <2>4, <5>1 DEF Ascends
        <5> QED
          BY <2>4, <3>1, <5>1, <5>2
      <4> QED
        BY <4>1
    <3>3. Len(x) = 0
      <4>1. ASSUME Len(x) # 0 PROVE FALSE
        <5>1. 1 \in 1..Len(x) /\ 1 + d \in 1..(k + 1)
          BY <2>2, <4>1
        <5>2. x[1] = s[1 + d] /\ x[1] > a /\ s[1 + d] <= a /\ s[1 + d] \in 0..m
          BY <1>5, <2>2, <3>2, <5>1
        <5> QED
          BY <5>2
      <4> QED
        BY <4>1
    <3>4. x = K[k + 1]
      BY <2>3, <2>4, <2>6
    <3>5. Late(x, k + 1, k + 1)
      BY <2>2, <3>2, <3>3 DEF Late
    <3> QED
      BY <3>4, <3>5
  <2> QED
    BY <2>5, <2>6
<1>8. P = Nat
  <2> HIDE DEF P
  <2> QED
    BY <1>6, <1>7, NatSetInduction, P \in SUBSET Nat DEF P
<1>9. PICK d \in 0..n : Late(K[n], n, d)
  <2> HIDE DEF Late
  <2> QED
    BY <1>8
<1>10. PICK x : x = K[n] /\ Late(x, n, d)
  BY <1>9
<1> QED
  BY <1>1, <1>2, <1>3, <1>10 DEF TailOf

Pruned(b, m, v) == Kept(b, (m - v + 1)..m)

Recent(b, m, v) == \A i \in 1..Len(b) : b[i] > m - v

\* what is pruned with a window that is not shorter counts the same requests
LEMMA PrunedCounts ==
  ASSUME NEW m \in Nat, NEW s \in Seq(0..m), Ascends(s), NEW b \in Seq(0..m), NEW w \in Nat, NEW v \in Nat,
         NEW c \in BOOLEAN, Counts(b, s, m, w, c), c => w <= v
  PROVE  /\ Pruned(b, m, v) \in Seq(0..m) /\ Counts(Pruned(b, m, v), s, m, w, c)
         /\ Recent(Pruned(b, m, v), m, v)
<1> USE DEF Pruned, Recent
<1>1. PICK d \in 0..Len(s) : TailOf(b, s, d) /\ (c => \A i \in 1..d : s[i] <= m - w)
  BY DEF Counts
<1>2. /\ Len(b) = Len(s) - d /\ \A i \in 1..Len(b) : b[i] = s[i + d]
      /\ \A i \in 1..Len(s) : s[i] \in 0..m
  BY <1>1 DEF TailOf
<1>3. Ascends(b)
  <2>1. ASSUME NEW i \in 1..Len(b), NEW j \in 1..Len(b), i <= j PROVE b[i] <= b[j]
    <3>1. i + d \in DOMAIN s /\ j + d \in DOMAIN s /\ i + d <= j + d
      BY <1>2, <2>1
    <3>2. s[i + d] <= s[j + d]
      BY <3>1 DEF Ascends
    <3> QED
      BY <1>2, <3>2
  <2> QED
    BY <2>1, DOMAIN b = 1..Len(b) DEF Ascends
<1>4. PICK x : x = Kept(b, (m - v + 1)..m)
  OBVIOUS
<1>5. /\ x \in Seq(0..m) /\ \A i \in 1..Len(x) : x[i] > m - v
      /\ \E e \in 0..Len(b) : TailOf(x, b, e) /\ \A i \in 1..e : b[i] <= m - v
  BY <1>3, <1>4, LatestKept, m - v \in Int
<1>6. PICK e \in 0..Len(b) : /\ Len(x) = Len(b) - e /\ \A i \in 1..Len(x) : x[i] = b[i + e]
                             /\ \A i \in 1..e : b[i] <= m - v
  BY <1>5 DEF TailOf
<1>7. d + e \in 0..Len(s)
  BY <1>2, <1>6
<1>8. TailOf(x, s, d + e)
  <2>1. Len(x) = Len(s) - (d + e)
    BY <1>2, <1>6
  <2>2. ASSUME NEW i \in 1..Len(x) PROVE x[i] = s[i + (d + e)]
    <3>1. i + e \in 1..Len(b) /\ (i + e) + d = i + (d + e)
      BY <1>2, <1>5, <1>6
    <3> QED
      BY <1>2, <1>6, <3>1
  <2> QED
    BY <2>1, <2>2 DEF TailOf
<1>9. ASSUME c, NEW i \in 1..(d + e) PROVE s[i] <= m - w
  <2>1. CASE i <= d
    BY <1>1, <1>9, <2>1
  <2>2. CASE i > d
    <3>1. PICK j \in 1..e : j = i - d /\ j + d = i
      BY <2>2
    <3>2. j \in 1..Len(b) /\ b[j] <= m - v /\ b[j] = s[i]
      <4>1. j \in 1..Len(b)
        BY <1>6, <3>1
      <4>3. b[j] = s[j + d]
        BY <1>2, <4>1
      <4>2. b[j] <= m - v
        BY <1>6, <3>1
      <4> QED
        BY <3>1, <4>1, <4>2, <4>3
    <3>3. s[i] \in 0..m
      BY <1>2, <1>7
    <3> QED
      BY <1>9, <3>2, <3>3
  <2> QED
    BY <2>1, <2>2
<1>10. Counts(x, s, m, w, c)
  BY <1>7, <1>8, <1>9 DEF Counts
<1> QED
  BY <1>4, <1>5, <1>10

\* time passes
LEMMA LaterCounts ==
  ASSUME NEW m \in Nat, NEW s \in Seq(0..m), NEW b, NEW w \in Nat, NEW c \in BOOLEAN, Counts(b, s, m, w, c)
  PROVE  Counts(b, s, m + 1, w, c)
<1>1. PICK d \in 0..Len(s) : TailOf(b, s, d) /\ (c => \A i \in 1..d : s[i] <= m - w)
  BY DEF Counts
<1>2. \A i \in 1..Len(s) : s[i] \in 0..m
  OBVIOUS
<1>3. c => \A i \in 1..d : s[i] <= (m + 1) - w
  BY <1>1, <1>2
<1> QED
  BY <1>1, <1>3 DEF Counts

LEMMA AscendsAppend ==
  ASSUME NEW m \in Nat, NEW s \in Seq(0..m), Ascends(s)
  PROVE  Append(s, m) \in Seq(0..m) /\ Ascends(Append(s, m))
<1>1. PICK k \in Nat : k = Len(s) /\ DOMAIN s = 1..k
  OBVIOUS
<1>2. PICK t : t = Append(s, m)
  OBVIOUS
<1>3. /\ t \in Seq(0..m) /\ DOMAIN t = 1..(k + 1) /\ t[k + 1] = m /\ \A i \in 1..k : t[i] = s[i]
  <2>1. m \in 0..m
    OBVIOUS
  <2> QED
    BY <1>1, <1>2, <2>1, AppendProperties
<1>4. ASSUME NEW i \in 1..(k + 1), NEW j \in 1..(k + 1), i <= j PROVE t[i] <= t[j]
  <2>1. CASE j \in 1..k
    <3>1. i \in 1..k
      BY <1>4, <2>1
    <3>2. s[i] <= s[j]
      BY <1>1, <1>4, <2>1, <3>1 DEF Ascends
    <3> QED
      BY <1>3, <2>1, <3>1, <3>2
  <2>2. CASE j = k + 1
    <3>1. t[i] \in 0..m
      BY <1>3
    <3> QED
      BY <1>3, <2>2, <3>1
  <2> QED
    BY <2>1, <2>2
<1> QED
  BY <1>2, <1>3, <1>4 DEF Ascends

\* a request let through at time m joins both
LEMMA CountsGrow ==
  ASSUME NEW m \in Nat, NEW s \in Seq(0..m), Ascends(s), NEW b \in Seq(0..m), NEW w \in Nat, NEW c \in BOOLEAN,
         Counts(b, s, m, w, c), NEW n \in Nat, Len(b) < n, c => Spaced(s, n, w)
  PROVE  LET t == Append(s, m)
         IN  /\ t \in Seq(0..m) /\ Ascends(t) /\ Append(b, m) \in Seq(0..m)
             /\ Counts(Append(b, m), t, m, w, c) /\ (c => Spaced(t, n, w))
<1>1. PICK d \in 0..Len(s) : TailOf(b, s, d) /\ (c => \A i \in 1..d : s[i] <= m - w)
  BY DEF Counts
<1>2. /\ Len(b) = Len(s) - d /\ \A i \in 1..Len(b) : b[i] = s[i + d]
      /\ \A i \in 1..Len(s) : s[i] \in 0..m
  BY <1>1 DEF TailOf
<1>3. PICK k \in Nat : k = Len(s) /\ DOMAIN s = 1..k
  OBVIOUS
<1>4. PICK t : t = Append(s, m)
  OBVIOUS
<1>5. /\ t \in Seq(0..m) /\ Len(t) = k + 1 /\ DOMAIN t = 1..(k + 1) /\ t[k + 1] = m
      /\ \A i \in 1..k : t[i] = s[i]
  <2>1. m \in 0..m
    OBVIOUS
  <2> QED
    BY <1>3, <1>4, <2>1, AppendProperties
<1>6. PICK y : y = Append(b, m)
  OBVIOUS
<1>7. PICK l \in Nat : l = Len(b)
  OBVIOUS
<1>8. /\ y \in Seq(0..m) /\ Len(y) = l + 1 /\ y[l + 1] = m /\ \A i \in 1..l : y[i] = b[i]
  <2>1. m \in 0..m
    OBVIOUS
  <2> QED
    BY <1>6, <1>7, <2>1, AppendProperties
<1>9. \A i \in 1..(k + 1) : i \in 1..k \/ i = k + 1
  OBVIOUS
<1>10. Ascends(t)
  BY <1>4, AscendsAppend
<1>11. TailOf(y, t, d)
  <2>1. Len(y) = Len(t) - d
    BY <1>2, <1>3, <1>5, <1>7, <1>8
  <2>2. ASSUME NEW i \in 1..Len(y) PROVE y[i] = t[i + d]
    <3>1. CASE i \in 1..l
      <4>1. i + d \in 1..k
        BY <1>2, <1>3, <1>7, <3>1
      <4> QED
        BY <1>2, <1>5, <1>7, <1>8, <3>1, <4>1
    <3>2. CASE i = l + 1
      <4>1. i + d = k + 1
        BY <1>2, <1>3, <1>7, <3>2
      <4> QED
        BY <1>5, <1>8, <3>2, <4>1
    <3> QED
      BY <1>7, <1>8, <3>1, <3>2
  <2> QED
    BY <2>1, <2>2 DEF TailOf
<1>12. Counts(y, t, m, w, c)
  <2>1. d \in 0..Len(t) /\ \A i \in 1..d : t[i] = s[i]
    BY <1>3, <1>5
  <2> QED
    BY <1>1, <1>11, <2>1 DEF Counts
<1>13. ASSUME c PROVE Spaced(t, n, w)
  <2>1. ASSUME NEW i \in 1..(k + 1), NEW j \in 1..(k + 1), j = i + n PROVE t[i] + w <= t[j]
    <3>1. CASE j \in 1..k
      <4>1. i \in 1..k
        BY <2>1, <3>1
      <4>2. s[i] + w <= s[j]
        BY <1>3, <1>13, <2>1, <3>1, <4>1 DEF Spaced
      <4> QED
        BY <1>5, <3>1, <4>1, <4>2
    <3>2. CASE j = k + 1
      <4>1. i \in 1..d /\ i \in 1..k
        BY <1>2, <1>3, <1>7, <2>1, <3>2
      <4>2. s[i] <= m - w /\ s[i] \in 0..m
        BY <1>1, <1>2, <1>3, <1>13, <4>1
      <4> QED
        BY <1>5, <3>2, <4>1, <4>2
    <3> QED
      BY <1>9, <3>1, <3>2
  <2> QED
    BY <1>5, <2>1 DEF Spaced
<1> QED
  BY <1>4, <1>5, <1>6, <1>8, <1>10, <1>12, <1>13

InWindow(s, w, t) == {i \in DOMAIN s : s[i] \in (t - w + 1)..t}

\* requests that are spaced fit the limit in every window
LEMMA SpacedFits ==
  ASSUME NEW m \in Nat, NEW s \in Seq(0..m), Ascends(s), NEW n \in Nat \ {0}, NEW w \in Nat, Spaced(s, n, w), NEW t \in Nat
  PROVE  Cardinality(InWindow(s, w, t)) <= n
<1>1. PICK k \in Nat : k = Len(s) /\ DOMAIN s = 1..k
  OBVIOUS
<1>2. PICK I : I = InWindow(s, w, t) /\ I \in SUBSET (0..k) /\ \A i \in I : i \in 1..k /\ s[i] \in (t - w + 1)..t
  <2>1. PICK I : I = InWindow(s, w, t)
    OBVIOUS
  <2>2. \A i \in I : i \in 1..k /\ s[i] \in (t - w + 1)..t
    BY <1>1, <2>1 DEF InWindow
  <2>3. \A i \in 1..k : i \in 0..k
    BY <1>1
  <2>4. I \in SUBSET (0..k)
    BY <2>2, <2>3
  <2> QED
    BY <2>1, <2>2, <2>4
<1>3. CASE I = {}
  BY <1>2, <1>3, FS_EmptySet
<1>4. CASE I # {}
  <2>1. PICK j \in I : \A i \in I : i <= j
    BY <1>2, <1>4, Greatest
  <2>2. ASSUME NEW i \in I PROVE i \in (j - n + 1)..j
    <3>1. i \in 1..k /\ j \in 1..k /\ i <= j /\ s[i] \in (t - w + 1)..t /\ s[j] \in (t - w + 1)..t
      BY <1>2, <2>1
    <3>2. ASSUME i + n <= j PROVE FALSE
      <4>1. PICK h \in 1..k : h = i + n
        BY <3>1, <3>2
      <4>2. s[i] + w <= s[h] /\ s[h] <= s[j] /\ s[h] \in 0..m
        <5>1. s[i] + w <= s[h]
          BY <1>1, <3>1, <4>1 DEF Spaced
        <5>2. h <= j
          BY <3>1, <3>2, <4>1
        <5>3. s[h] <= s[j]
          BY <1>1, <3>1, <4>1, <5>2 DEF Ascends
        <5>4. s[h] \in 0..m
          BY <1>1, <4>1
        <5> QED
          BY <5>1, <5>3, <5>4
      <4>3. PICK x \in Int, y \in Int, z \in Int : x + w <= y /\ y <= z /\ z <= t /\ t - w + 1 <= x
        <5>1. s[i] \in Int /\ s[h] \in Int /\ s[j] \in Int /\ s[j] <= t /\ t - w + 1 <= s[i]
          BY <3>1, <4>2
        <5> QED
          BY <4>2, <5>1
      <4> QED
        BY <4>3
    <3> QED
      BY <3>1, <3>2
  <2>3. I \subseteq (j - n + 1)..j
    BY <2>2
  <2>4. IsFiniteSet((j - n + 1)..j) /\ Cardinality((j - n + 1)..j) = n
    <3>1. j \in Int /\ j - n + 1 \in Int /\ ~(j - n + 1 > j) /\ j - (j - n + 1) + 1 = n
      BY <1>2
    <3> QED
      BY <3>1, FS_Interval
  <2> QED
    BY <1>2, <2>3, <2>4, FS_Subset
<1> QED
  BY <1>3, <1>4

\* all that is counted lies in the window
LEMMA CountedInWindow ==
  ASSUME NEW m \in Nat, NEW s \in Seq(0..m), NEW b \in Seq(0..m), NEW w \in Nat, NEW c, Counts(b, s, m, w, c),
         Recent(b, m, w)
  PROVE  Len(b) <= Cardinality(InWindow(s, w, m)) /\ Cardinality(InWindow(s, w, m)) \in Nat
<1> USE DEF Recent
<1>1. PICK d \in 0..Len(s) : TailOf(b, s, d)
  BY DEF Counts
<1>2. /\ Len(b) = Len(s) - d /\ \A i \in 1..Len(b) : b[i] = s[i + d]
      /\ \A i \in 1..Len(s) : s[i] \in 0..m
  BY <1>1 DEF TailOf
<1>3. (d + 1)..Len(s) \subseteq InWindow(s, w, m)
  <2>1. ASSUME NEW i \in (d + 1)..Len(s) PROVE i \in InWindow(s, w, m)
    <3>1. PICK j \in 1..Len(b) : j + d = i
      <4>1. i - d \in 1..Len(b) /\ (i - d) + d = i
        BY <1>2
      <4> QED
        BY <4>1
    <3>2. s[i] > m - w /\ i \in 1..Len(s) /\ s[i] \in 0..m
      <4>1. i \in 1..Len(s) /\ s[i] \in 0..m
        BY <1>2
      <4>2. b[j] = s[i] /\ b[j] > m - w
        BY <1>2, <3>1
      <4> QED
        BY <4>1, <4>2
    <3>3. DOMAIN s = 1..Len(s) /\ s[i] \in (m - w + 1)..m
      BY <3>2
    <3> QED
      BY <3>2, <3>3 DEF InWindow
  <2> QED
    BY <2>1
<1>4. IsFiniteSet(InWindow(s, w, m))
  <2>1. InWindow(s, w, m) \subseteq 1..Len(s) /\ IsFiniteSet(1..Len(s))
    BY FS_Interval, DOMAIN s = 1..Len(s) DEF InWindow
  <2> QED
    BY <2>1, FS_Subset
<1>5. Cardinality((d + 1)..Len(s)) = Len(b)
  <2>1. PICK p \in Nat, q \in Nat : p = d + 1 /\ q = Len(s)
    OBVIOUS
  <2>2. Cardinality(p..q) = IF p > q THEN 0 ELSE q - p + 1
    BY FS_Interval
  <2> QED
    BY <1>2, <2>1, <2>2
<1> QED
  BY <1>3, <1>4, <1>5, FS_Subset, FS_CardinalityType

\* a log that grows has not fewer requests in a window
LEMMA WindowGrows ==
  ASSUME NEW m \in Nat, NEW s \in Seq(0..m), NEW w \in Nat, NEW t \in Nat
  PROVE  /\ Cardinality(InWindow(s, w, t)) \in Nat
         /\ Cardinality(InWindow(Append(s, m), w, t)) \in Nat
         /\ Cardinality(InWindow(s, w, t)) <= Cardinality(InWindow(Append(s, m), w, t))
<1>1. PICK y : y = Append(s, m)
  OBVIOUS
<1>2. /\ y \in Seq(0..m) /\ Len(y) = Len(s) + 1 /\ \A i \in 1..Len(s) : y[i] = s[i]
  <2>1. m \in 0..m
    OBVIOUS
  <2> QED
    BY <1>1, <2>1, AppendProperties
<1>3. InWindow(s, w, t) \subseteq InWindow(y, w, t)
  BY <1>2 DEF InWindow
<1>4. IsFiniteSet(InWindow(y, w, t))
  <2>1. InWindow(y, w, t) \subseteq 1..Len(y) /\ IsFiniteSet(1..Len(y))
    BY <1>2, FS_Interval DEF InWindow
  <2> QED
    BY <2>1, FS_Subset
<1> QED
  BY <1>1, <1>3, <1>4, FS_Subset, FS_CardinalityType

\* no key has a shorter window
Shortest(k) == \A j \in LimitedKeys : Windows[k] <= Windows[j]

LimiterTyped ==
  /\ limnow \in 0..MaxTime /\ limgen \in 0..MaxGen /\ limlate \in BOOLEAN
  /\ \A p \in limpending : p.key \in LimitedKeys /\ p.at \in 0..limnow
  /\ limbucket \in [redis : [LimitedKeys -> Seq(0..limnow)], memory : [LimitedKeys -> Seq(0..limnow)]]
  /\ limgranted \in [LimitedKeys -> [0..MaxGen -> Seq(0..limnow)]]
  /\ \A k \in LimitedKeys, g \in 0..MaxGen : g > limgen => limgranted[k][g] = <<>>

\* the log of a limiter, spaced where c says so
Orderly(s, k, c) == Ascends(s) /\ (c => Spaced(s, Limits[k], Windows[k]))

LogsOrderly == /\ \A k \in LimitedKeys : Orderly(limgranted[k][0], k, ~limlate)
               /\ \A k \in LimitedKeys, g \in 1..MaxGen : Orderly(limgranted[k][g], k, Shortest(k))

RedisCounts == ~limlate => \A k \in LimitedKeys :
                 Counts(limbucket.redis[k], limgranted[k][0], limnow, Windows[k], TRUE)

MemoryCounts == limgen > 0 => \A k \in LimitedKeys :
                  Counts(limbucket.memory[k], limgranted[k][limgen], limnow, Windows[k], Shortest(k))

\* the limit of the key was used up in the window before the refusal
UsedUp(k, s, t) == Limits[k] <= Cardinality(InWindow(s, Windows[k], t))

RefusalJust ==
  \/ limdenied = [at |-> -1]
  \/ /\ limdenied \in [key : LimitedKeys, at : 0..limnow, by : 0..MaxGen]
     /\ (limdenied.by = 0 => ~limlate) =>
          UsedUp(limdenied.key, limgranted[limdenied.key][limdenied.by], limdenied.at)

LimiterInv == LimiterTyped /\ LogsOrderly /\ RedisCounts /\ MemoryCounts /\ RefusalJust

LEMMA WindowsNat ==
  /\ MaxTime \in Nat /\ MaxGen \in Nat
  /\ \A k \in LimitedKeys : Windows[k] \in Nat \ {0} /\ Limits[k] \in Nat \ {0}
  BY LimitsAssumption

LEMMA LimiterCardinality == \A S : Limiter!Cardinality(S) = Cardinality(S)
  BY DEF Limiter!Cardinality, Cardinality

LEMMA LimiterKept == \A s, T : Limiter!Kept(s, T) = Kept(s, T)
  BY DEF Limiter!Kept, Kept

LEMMA LogsTyped ==
  ASSUME LimiterTyped, NEW j \in LimitedKeys, NEW h \in 0..MaxGen
  PROVE  limgranted[j][h] \in Seq(0..limnow) /\ limnow \in Nat
<1>1. limgranted[j][h] \in Seq(0..limnow)
  BY DEF LimiterTyped
<1>2. limnow \in Nat
  BY WindowsNat DEF LimiterTyped
<1> QED
  BY <1>1, <1>2

\* the log of limiter g after a request of key k was let through or not
OneLogged(G, k, g) ==
  \/ G = limgranted
  \/ G = [limgranted EXCEPT ![k] = [limgranted[k] EXCEPT ![g] = Append(limgranted[k][g], limnow)]]

\* a limiter of the process decides about a request
LEMMA MemoryDecides ==
  ASSUME LimiterTyped, LogsOrderly, NEW k \in LimitedKeys, NEW g \in 1..MaxGen,
         NEW b \in [LimitedKeys -> Seq(0..limnow)],
         \A j \in LimitedKeys : Counts(b[j], limgranted[j][g], limnow, Windows[j], Shortest(j)),
         NEW d, d = Limiter!Decide(k, b, g)
  PROVE  /\ d.bucket \in [LimitedKeys -> Seq(0..limnow)]
         /\ OneLogged(d.granted, k, g)
         /\ \A j \in LimitedKeys : /\ Counts(d.bucket[j], d.granted[j][g], limnow, Windows[j], Shortest(j))
                                   /\ Orderly(d.granted[j][g], j, Shortest(j))
         /\ \/ d.denied = limdenied
            \/ d.denied = [key |-> k, at |-> limnow, by |-> g] /\ UsedUp(k, d.granted[k][g], limnow)
<1>1. limnow \in Nat /\ Windows[k] \in Nat /\ Limits[k] \in Nat \ {0} /\ g \in 0..MaxGen
  BY WindowsNat DEF LimiterTyped
<1>2. PICK L : L = limgranted[k][g] /\ L \in Seq(0..limnow) /\ Orderly(L, k, Shortest(k))
  <2>1. limgranted[k][g] \in Seq(0..limnow)
    BY <1>1 DEF LimiterTyped
  <2> QED
    BY <2>1 DEF LogsOrderly
<1>3. PICK c \in BOOLEAN : c = Shortest(k)
  BY DEF Shortest
<1>4. PICK x : x = Pruned(b[k], limnow, Windows[k])
  OBVIOUS
<1>5. /\ x \in Seq(0..limnow) /\ Counts(x, L, limnow, Windows[k], c)
      /\ Recent(x, limnow, Windows[k])
  BY <1>1, <1>2, <1>3, <1>4, PrunedCounts DEF Orderly
<1>6. Limiter!Prune(b[k], Windows[k]) = x
  BY <1>4, LimiterKept DEF Limiter!Prune, Pruned
<1>7. CASE Len(x) >= Limits[k]
  <2>1. d = [bucket |-> [b EXCEPT ![k] = x], granted |-> limgranted,
             denied |-> [key |-> k, at |-> limnow, by |-> g]]
    BY <1>6, <1>7 DEF Limiter!Decide
  <2>2. UsedUp(k, L, limnow)
    <3>1. Len(x) <= Cardinality(InWindow(L, Windows[k], limnow))
      BY <1>1, <1>2, <1>5, CountedInWindow
    <3>2. Cardinality(InWindow(L, Windows[k], limnow)) \in Nat
      BY <1>1, <1>2, <1>5, CountedInWindow
    <3> QED
      BY <1>1, <1>5, <1>7, <3>1, <3>2 DEF UsedUp
  <2>3. \A j \in LimitedKeys : Orderly(limgranted[j][g], j, Shortest(j))
    BY DEF LogsOrderly
  <2>4. [b EXCEPT ![k] = x] \in [LimitedKeys -> Seq(0..limnow)]
    BY <1>5
  <2>5. \A j \in LimitedKeys : Counts([b EXCEPT ![k] = x][j], limgranted[j][g], limnow, Windows[j], Shortest(j))
    BY <1>2, <1>3, <1>5
  <2> QED
    BY <1>2, <2>1, <2>2, <2>3, <2>4, <2>5 DEF OneLogged
<1>8. CASE Len(x) < Limits[k]
  <2>1. PICK y, M : y = Append(x, limnow) /\ M = Append(L, limnow)
    OBVIOUS
  <2>2. /\ M \in Seq(0..limnow) /\ y \in Seq(0..limnow) /\ Counts(y, M, limnow, Windows[k], c)
        /\ Orderly(M, k, c)
    BY <1>1, <1>2, <1>3, <1>5, <1>8, <2>1, CountsGrow DEF Orderly
  <2>3. PICK b2 : b2 = [b EXCEPT ![k] = y] /\ b2 \in [LimitedKeys -> Seq(0..limnow)]
    <3>1. PICK S : S = Seq(0..limnow)
      OBVIOUS
    <3>2. [b EXCEPT ![k] = y] \in [LimitedKeys -> S]
      BY <2>2, <3>1
    <3> QED
      BY <3>1, <3>2
  <2>4. PICK G : G = [limgranted EXCEPT ![k] = [limgranted[k] EXCEPT ![g] = M]]
    OBVIOUS
  <2>5. /\ G[k][g] = M /\ \A j \in LimitedKeys : j # k => G[j][g] = limgranted[j][g]
        /\ OneLogged(G, k, g)
    BY <1>1, <1>2, <2>1, <2>4 DEF LimiterTyped, OneLogged
  <2>6. \A j \in LimitedKeys : Counts(b2[j], G[j][g], limnow, Windows[j], Shortest(j))
    BY <1>3, <2>2, <2>3, <2>5
  <2>7. \A j \in LimitedKeys : Orderly(G[j][g], j, Shortest(j))
    BY <1>3, <2>2, <2>5 DEF LogsOrderly
  <2>8. ASSUME NEW j \in LimitedKeys
        PROVE  /\ Pruned(b2[j], limnow, Windows[k]) \in Seq(0..limnow)
               /\ Counts(Pruned(b2[j], limnow, Windows[k]), G[j][g], limnow, Windows[j], Shortest(j))
    <3>1. PICK s : s = G[j][g] /\ s \in Seq(0..limnow) /\ Ascends(s)
      <4>1. limgranted[j][g] \in Seq(0..limnow)
        BY <1>1 DEF LimiterTyped
      <4> QED
        BY <2>2, <2>5, <2>7, <4>1 DEF Orderly
    <3>2. PICK e \in BOOLEAN : e = Shortest(j)
      BY DEF Shortest
    <3>3. e => Windows[j] <= Windows[k]
      BY <3>2 DEF Shortest
    <3>4. b2[j] \in Seq(0..limnow) /\ Windows[j] \in Nat /\ Counts(b2[j], s, limnow, Windows[j], e)
      BY <2>3, <2>6, <3>1, <3>2, WindowsNat
    <3> QED
      BY <1>1, <3>1, <3>2, <3>3, <3>4, PrunedCounts
  <2>9. PICK b3 : b3 = Limiter!Compact(b2, Windows[k])
    OBVIOUS
  <2>10. /\ b3 \in [LimitedKeys -> Seq(0..limnow)]
         /\ \A j \in LimitedKeys : Counts(b3[j], G[j][g], limnow, Windows[j], Shortest(j))
    <3>1. PICK b4 : b4 = [j \in LimitedKeys |-> Pruned(b2[j], limnow, Windows[k])]
      OBVIOUS
    <3>2. b3 = b2 \/ b3 = b4
      BY <2>9, <3>1, LimiterKept DEF Limiter!Compact, Limiter!Prune, Pruned
    <3> QED
      BY <2>3, <2>6, <2>8, <3>1, <3>2
  <2>11. d = [bucket |-> b3, granted |-> G, denied |-> limdenied]
    <3>1. [limgranted EXCEPT ![k][g] = Append(@, limnow)] = G
      BY <1>2, <2>1, <2>4
    <3>2. ~(Len(x) >= Limits[k])
      BY <1>1, <1>5, <1>8
    <3> QED
      BY <1>6, <2>1, <2>3, <2>9, <3>1, <3>2 DEF Limiter!Decide
  <2> QED
    BY <2>5, <2>7, <2>10, <2>11
<1> QED
  BY <1>1, <1>5, <1>7, <1>8

\* the same of the script of Redis, which may run late
LEMMA RedisDecides ==
  ASSUME LimiterTyped, LogsOrderly, RedisCounts, NEW k \in LimitedKeys, NEW at \in 0..limnow,
         NEW d, d = Limiter!Script(k, limbucket.redis, at), NEW late \in BOOLEAN, late <=> (limlate \/ at < limnow)
  PROVE  /\ d.bucket \in [LimitedKeys -> Seq(0..limnow)]
         /\ OneLogged(d.granted, k, 0)
         /\ \A j \in LimitedKeys : /\ ~late => Counts(d.bucket[j], d.granted[j][0], limnow, Windows[j], TRUE)
                                   /\ Orderly(d.granted[j][0], j, ~late)
         /\ \/ d.denied = limdenied
            \/ d.denied = [key |-> k, at |-> limnow, by |-> 0] /\ (~late => UsedUp(k, d.granted[k][0], limnow))
<1>1. limnow \in Nat /\ Windows[k] \in Nat /\ Limits[k] \in Nat \ {0} /\ 0 \in 0..MaxGen
  BY WindowsNat DEF LimiterTyped
<1>2. PICK L : L = limgranted[k][0] /\ L \in Seq(0..limnow) /\ Orderly(L, k, ~limlate)
  <2>1. limgranted[k][0] \in Seq(0..limnow)
    BY <1>1 DEF LimiterTyped
  <2> QED
    BY <2>1 DEF LogsOrderly
<1>3. PICK b : b = limbucket.redis /\ b \in [LimitedKeys -> Seq(0..limnow)]
  BY DEF LimiterTyped
<1>4. PICK x : x = Kept(b[k], (at - Windows[k] + 1)..limnow)
  OBVIOUS
<1>5. x \in Seq(0..limnow)
  BY <1>3, <1>4, ItemsKept
<1>7. ASSUME ~late
      PROVE  /\ at = limnow /\ ~limlate /\ Counts(x, L, limnow, Windows[k], TRUE)
             /\ Recent(x, limnow, Windows[k])
  <2>1. at = limnow /\ ~limlate
    BY <1>1, <1>7
  <2>2. Counts(b[k], L, limnow, Windows[k], TRUE)
    BY <1>2, <1>3, <2>1 DEF RedisCounts
  <2> QED
    <3>1. x = Pruned(b[k], limnow, Windows[k]) /\ b[k] \in Seq(0..limnow)
      BY <1>3, <1>4, <2>1 DEF Pruned
    <3>2. Ascends(L) /\ Windows[k] <= Windows[k]
      BY <1>1, <1>2 DEF Orderly
    <3> QED
      BY <1>1, <1>2, <2>1, <2>2, <3>1, <3>2, PrunedCounts
<1>8. Limiter!Kept(limbucket.redis[k], at - Windows[k] + 1..limnow) = x
  BY <1>3, <1>4, LimiterKept
<1>9. CASE Len(x) >= Limits[k]
  <2>1. d = [bucket |-> [b EXCEPT ![k] = x], granted |-> limgranted,
             denied |-> [key |-> k, at |-> limnow, by |-> 0]]
    BY <1>3, <1>8, <1>9 DEF Limiter!Script
  <2>2. ~late => UsedUp(k, L, limnow)
    <3> SUFFICES ASSUME ~late PROVE UsedUp(k, L, limnow)
      OBVIOUS
    <3>1. Len(x) <= Cardinality(InWindow(L, Windows[k], limnow))
      BY <1>1, <1>2, <1>5, <1>7, CountedInWindow
    <3>2. Cardinality(InWindow(L, Windows[k], limnow)) \in Nat
      BY <1>1, <1>2, <1>5, <1>7, CountedInWindow
    <3> QED
      BY <1>1, <1>5, <1>9, <3>1, <3>2 DEF UsedUp
  <2>3. \A j \in LimitedKeys : Orderly(limgranted[j][0], j, ~late)
    BY <1>7 DEF LogsOrderly, Orderly
  <2>4. [b EXCEPT ![k] = x] \in [LimitedKeys -> Seq(0..limnow)]
    BY <1>3, <1>5
  <2>5. ASSUME ~late, NEW j \in LimitedKeys
        PROVE  Counts([b EXCEPT ![k] = x][j], limgranted[j][0], limnow, Windows[j], TRUE)
    BY <1>2, <1>3, <1>7, <2>5 DEF RedisCounts
  <2>6. /\ d.bucket = [b EXCEPT ![k] = x] /\ d.granted = limgranted
        /\ d.denied = [key |-> k, at |-> limnow, by |-> 0]
    BY <2>1
  <2> QED
    BY <1>2, <2>2, <2>3, <2>4, <2>5, <2>6 DEF OneLogged
<1>10. CASE Len(x) < Limits[k]
  <2>1. PICK y, M : y = Append(x, at) /\ M = Append(L, limnow)
    OBVIOUS
  <2>2. y \in Seq(0..limnow) /\ M \in Seq(0..limnow) /\ Ascends(M)
    BY <1>1, <1>2, <1>5, <2>1, AscendsAppend, AppendProperties DEF Orderly
  <2>3. ASSUME ~late PROVE Counts(y, M, limnow, Windows[k], TRUE) /\ Spaced(M, Limits[k], Windows[k])
    <3>1. Spaced(L, Limits[k], Windows[k]) /\ Ascends(L)
      BY <1>2, <1>7, <2>3 DEF Orderly
    <3>2. Counts(x, L, limnow, Windows[k], TRUE) /\ y = Append(x, limnow)
      BY <1>7, <2>1, <2>3
    <3> QED
      BY <1>1, <1>2, <1>5, <1>10, <2>1, <3>1, <3>2, CountsGrow
  <2>4. PICK b2 : b2 = [b EXCEPT ![k] = y] /\ b2 \in [LimitedKeys -> Seq(0..limnow)]
    <3>1. PICK S : S = Seq(0..limnow)
      OBVIOUS
    <3>2. [b EXCEPT ![k] = y] \in [LimitedKeys -> S]
      BY <1>3, <2>2, <3>1
    <3> QED
      BY <3>1, <3>2
  <2>5. PICK G : G = [limgranted EXCEPT ![k] = [limgranted[k] EXCEPT ![0] = M]]
    OBVIOUS
  <2>6. /\ G[k][0] = M /\ \A j \in LimitedKeys : j # k => G[j][0] = limgranted[j][0]
        /\ OneLogged(G, k, 0)
    BY <1>1, <1>2, <2>1, <2>5 DEF LimiterTyped, OneLogged
  <2>7. ASSUME ~late, NEW j \in LimitedKeys PROVE Counts(b2[j], G[j][0], limnow, Windows[j], TRUE)
    BY <1>3, <1>7, <2>3, <2>4, <2>6, <2>7 DEF RedisCounts
  <2>8. ASSUME NEW j \in LimitedKeys PROVE Orderly(G[j][0], j, ~late)
    <3>1. CASE j = k
      BY <2>2, <2>3, <2>6, <3>1 DEF Orderly
    <3>2. CASE j # k
      BY <1>7, <2>6, <3>2 DEF LogsOrderly, Orderly
    <3> QED
      BY <3>1, <3>2
  <2>9. d = [bucket |-> b2, granted |-> G, denied |-> limdenied]
    <3>1. [limgranted EXCEPT ![k][0] = Append(@, limnow)] = G
      BY <1>2, <2>1, <2>5
    <3>2. ~(Len(x) >= Limits[k])
      BY <1>1, <1>5, <1>10
    <3> QED
      BY <1>3, <1>8, <2>1, <2>4, <3>1, <3>2 DEF Limiter!Script
  <2>10. d.bucket = b2 /\ d.granted = G /\ d.denied = limdenied
    BY <2>9
  <2> QED
    BY <2>4, <2>6, <2>7, <2>8, <2>10
<1>11. Len(x) >= Limits[k] \/ Len(x) < Limits[k]
  BY <1>1, <1>5
<1> QED
  BY <1>9, <1>10, <1>11

LEMMA LimiterInit == Limiter!Init => LimiterInv
<1> SUFFICES ASSUME Limiter!Init PROVE LimiterInv
  OBVIOUS
<1>1. /\ limnow = 0 /\ limgen = 0 /\ limpending = {} /\ limdenied = [at |-> -1] /\ limlate = FALSE
      /\ limgranted = [k \in LimitedKeys |-> [g \in 0..MaxGen |-> <<>>]]
      /\ limbucket = [redis |-> [k \in LimitedKeys |-> <<>>], memory |-> [k \in LimitedKeys |-> <<>>]]
  BY DEF Limiter!Init, Limiter!NoEvents
<1>2. <<>> \in Seq(0..0) /\ MaxGen \in Nat /\ MaxTime \in Nat
  BY WindowsNat
<1>3. LimiterTyped
  <2>1. [k \in LimitedKeys |-> <<>>] \in [LimitedKeys -> Seq(0..0)]
    BY <1>2
  <2>2. [g \in 0..MaxGen |-> <<>>] \in [0..MaxGen -> Seq(0..0)]
    BY <1>2
  <2>3. PICK F, S : F = [LimitedKeys -> Seq(0..0)] /\ S = [0..MaxGen -> Seq(0..0)]
    OBVIOUS
  <2>4. limgranted \in [LimitedKeys -> S]
    BY <1>1, <2>2, <2>3
  <2>5. limbucket \in [redis : F, memory : F]
    BY <1>1, <2>1, <2>3
  <2>6. \A k \in LimitedKeys, g \in 0..MaxGen : limgranted[k][g] = <<>>
    BY <1>1
  <2>7. limnow \in 0..MaxTime /\ limgen \in 0..MaxGen /\ limpending = {}
    BY <1>1, <1>2
  <2>8. limlate \in BOOLEAN
    BY <1>1
  <2> QED
    BY <1>1, <2>3, <2>4, <2>5, <2>6, <2>7, <2>8 DEF LimiterTyped
<1>4. \A c : \A k \in LimitedKeys : Orderly(<<>>, k, c)
  BY DEF Orderly, Ascends, Spaced
<1>5. \A k \in LimitedKeys : Counts(<<>>, <<>>, 0, Windows[k], TRUE)
  <2>1. TailOf(<<>>, <<>>, 0) /\ 0 \in 0..Len(<<>>)
    BY EmptySeq DEF TailOf
  <2> QED
    BY <2>1 DEF Counts
<1>6. LogsOrderly
  BY <1>1, <1>2, <1>4 DEF LogsOrderly
<1>7. RedisCounts
  <2>1. \A k \in LimitedKeys : limbucket.redis[k] = <<>> /\ limgranted[k][0] = <<>>
    BY <1>1, <1>2
  <2> QED
    BY <1>1, <1>5, <2>1 DEF RedisCounts
<1> QED
  BY <1>1, <1>3, <1>6, <1>7 DEF LimiterInv, MemoryCounts, RefusalJust

\* a refusal stays just when a log grows
LEMMA UsedUpGrows ==
  ASSUME LimiterTyped, NEW k \in LimitedKeys, NEW g \in 0..MaxGen, NEW G, OneLogged(G, k, g),
         NEW j \in LimitedKeys, NEW h \in 0..MaxGen, NEW t \in Nat, UsedUp(j, limgranted[j][h], t)
  PROVE  UsedUp(j, G[j][h], t)
<1>1. limgranted[j][h] \in Seq(0..limnow) /\ limnow \in Nat /\ Windows[j] \in Nat /\ Limits[j] \in Nat
  BY WindowsNat, LogsTyped
<1>2. CASE G[j][h] = limgranted[j][h]
  BY <1>2
<1>3. CASE G[j][h] = Append(limgranted[j][h], limnow)
  <2>1. /\ Cardinality(InWindow(limgranted[j][h], Windows[j], t)) \in Nat
        /\ Cardinality(InWindow(Append(limgranted[j][h], limnow), Windows[j], t)) \in Nat
        /\ Cardinality(InWindow(limgranted[j][h], Windows[j], t))
             <= Cardinality(InWindow(Append(limgranted[j][h], limnow), Windows[j], t))
    BY <1>1, WindowGrows
  <2> QED
    BY <1>1, <1>3, <2>1 DEF UsedUp
<1>4. G[j][h] = limgranted[j][h] \/ G[j][h] = Append(limgranted[j][h], limnow)
  <2>1. PICK S : limgranted \in [LimitedKeys -> [0..MaxGen -> S]]
    BY DEF LimiterTyped
  <2>2. PICK L : L = Append(limgranted[k][g], limnow)
    OBVIOUS
  <2>3. CASE G = limgranted
    BY <2>3
  <2>4. CASE G = [limgranted EXCEPT ![k] = [limgranted[k] EXCEPT ![g] = L]]
    BY <2>1, <2>2, <2>4
  <2> QED
    BY <2>2, <2>3, <2>4 DEF OneLogged
<1> QED
  BY <1>2, <1>3, <1>4

\* what one logged request leaves of the logs
LEMMA OthersLogged ==
  ASSUME LimiterTyped, NEW k \in LimitedKeys, NEW g \in 0..MaxGen, NEW G, OneLogged(G, k, g)
  PROVE  /\ G \in [LimitedKeys -> [0..MaxGen -> Seq(0..limnow)]]
         /\ \A j \in LimitedKeys, h \in 0..MaxGen : h # g => G[j][h] = limgranted[j][h]
<1>1. PICK S : S = Seq(0..limnow)
  OBVIOUS
<1>2. limgranted \in [LimitedKeys -> [0..MaxGen -> S]]
  BY <1>1 DEF LimiterTyped
<1>3. PICK L : L = limgranted[k][g] /\ L \in S
  BY <1>2
<1>4. Append(L, limnow) \in S
  BY <1>1, <1>3, AppendProperties DEF LimiterTyped
<1>5. CASE G = limgranted
  BY <1>1, <1>2, <1>5
<1>6. CASE G = [limgranted EXCEPT ![k] = [limgranted[k] EXCEPT ![g] = Append(L, limnow)]]
  <2>1. [limgranted[k] EXCEPT ![g] = Append(L, limnow)] \in [0..MaxGen -> S]
    BY <1>2, <1>4
  <2>2. G \in [LimitedKeys -> [0..MaxGen -> S]]
    BY <1>2, <1>6, <2>1
  <2> QED
    BY <1>1, <1>2, <1>6, <2>2
<1> QED
  BY <1>3, <1>5, <1>6 DEF OneLogged

\* the logs after a decision of limiter g
LEMMA LogsStayOrderly ==
  ASSUME LogsOrderly, NEW g \in 0..MaxGen, MaxGen \in Nat, limlate => limlate',
         \A j \in LimitedKeys, h \in 0..MaxGen : h # g => limgranted'[j][h] = limgranted[j][h],
         \A j \in LimitedKeys : g = 0 => Orderly(limgranted'[j][g], j, ~limlate'),
         \A j \in LimitedKeys : g # 0 => Orderly(limgranted'[j][g], j, Shortest(j))
  PROVE  LogsOrderly'
<1>1. ASSUME NEW j \in LimitedKeys PROVE Orderly(limgranted'[j][0], j, ~limlate')
  <2>1. CASE g = 0
    BY <2>1
  <2>2. CASE g # 0
    <3>1. limgranted'[j][0] = limgranted[j][0]
      BY <2>2, 0 \in 0..MaxGen
    <3>2. Orderly(limgranted[j][0], j, ~limlate)
      BY DEF LogsOrderly
    <3> QED
      BY <3>1, <3>2 DEF Orderly
  <2> QED
    BY <2>1, <2>2
<1>2. ASSUME NEW j \in LimitedKeys, NEW h \in 1..MaxGen PROVE Orderly(limgranted'[j][h], j, Shortest(j))
  <2>1. CASE g = h
    BY <2>1, h # 0
  <2>2. CASE g # h
    <3>1. limgranted'[j][h] = limgranted[j][h]
      BY <2>2, h \in 0..MaxGen
    <3>2. Orderly(limgranted[j][h], j, Shortest(j))
      BY DEF LogsOrderly
    <3> QED
      BY <3>1, <3>2
  <2> QED
    BY <2>1, <2>2
<1> QED
  BY <1>1, <1>2 DEF LogsOrderly, Shortest, Orderly

\* a refusal already given stays just
LEMMA RefusalKept ==
  ASSUME LimiterTyped, RefusalJust, NEW k \in LimitedKeys, NEW g \in 0..MaxGen,
         OneLogged(limgranted', k, g), limdenied' = limdenied, limnow' = limnow, limlate => limlate'
  PROVE  RefusalJust'
<1>1. CASE limdenied = [at |-> -1]
  BY <1>1 DEF RefusalJust
<1>2. CASE limdenied # [at |-> -1]
  <2>1. PICK j \in LimitedKeys, h \in 0..MaxGen, t \in 0..limnow :
          j = limdenied.key /\ h = limdenied.by /\ t = limdenied.at
    BY <1>2 DEF RefusalJust
  <2>2. limdenied \in [key : LimitedKeys, at : 0..limnow, by : 0..MaxGen]
    BY <1>2 DEF RefusalJust
  <2>3. (h = 0 => ~limlate') => UsedUp(j, limgranted[j][h], t)
    BY <1>2, <2>1 DEF RefusalJust
  <2>4. t \in Nat
    OBVIOUS
  <2>5. PICK G : G = limgranted'
    OBVIOUS
  <2>6. UsedUp(j, limgranted[j][h], t) => UsedUp(j, G[j][h], t)
    BY <2>4, <2>5, UsedUpGrows
  <2>7. (h = 0 => ~limlate') => UsedUp(j, limgranted'[j][h], t)
    BY <2>3, <2>5, <2>6
  <2> QED
    BY <2>1, <2>2, <2>7 DEF RefusalJust, UsedUp
<1> QED
  BY <1>1, <1>2

LEMMA MemoryStep == ASSUME LimiterInv, NEW k \in LimitedKeys, Limiter!CheckMemory(k) PROVE LimiterInv'
<1>1. PICK d, b : /\ d = Limiter!Decide(k, b, limgen) /\ b = limbucket.memory
                  /\ limbucket' = [limbucket EXCEPT !["memory"] = d.bucket]
                  /\ limgranted' = d.granted /\ limdenied' = d.denied
  BY DEF Limiter!CheckMemory, Limiter!Apply
<1>2. /\ limgen \in 1..MaxGen /\ limgen > 0
      /\ limnow' = limnow /\ limgen' = limgen /\ limpending' = limpending /\ limlate' = limlate
  BY DEF Limiter!CheckMemory, LimiterInv, LimiterTyped
<1>3. LimiterTyped /\ LogsOrderly
  BY DEF LimiterInv
<1>4. b \in [LimitedKeys -> Seq(0..limnow)]
  BY <1>1, <1>3 DEF LimiterTyped
<1>5. \A j \in LimitedKeys : Counts(b[j], limgranted[j][limgen], limnow, Windows[j], Shortest(j))
  BY <1>1, <1>2 DEF LimiterInv, MemoryCounts
<1>6. /\ d.bucket \in [LimitedKeys -> Seq(0..limnow)]
      /\ OneLogged(d.granted, k, limgen)
      /\ \A j \in LimitedKeys : /\ Counts(d.bucket[j], d.granted[j][limgen], limnow, Windows[j], Shortest(j))
                                /\ Orderly(d.granted[j][limgen], j, Shortest(j))
      /\ \/ d.denied = limdenied
         \/ d.denied = [key |-> k, at |-> limnow, by |-> limgen] /\ UsedUp(k, d.granted[k][limgen], limnow)
  BY <1>1, <1>2, <1>3, <1>4, <1>5, MemoryDecides
<1>7. limgen \in 0..MaxGen /\ MaxGen \in Nat
  BY <1>2, WindowsNat
<1>8. /\ limgranted' \in [LimitedKeys -> [0..MaxGen -> Seq(0..limnow)]]
      /\ \A j \in LimitedKeys, h \in 0..MaxGen : h # limgen => limgranted'[j][h] = limgranted[j][h]
  <2>1. PICK G : G = d.granted
    OBVIOUS
  <2>2. /\ G \in [LimitedKeys -> [0..MaxGen -> Seq(0..limnow)]]
        /\ \A j \in LimitedKeys, h \in 0..MaxGen : h # limgen => G[j][h] = limgranted[j][h]
    <3>1. OneLogged(G, k, limgen)
      BY <1>6, <2>1
    <3> QED
      BY <1>3, <1>7, <3>1, OthersLogged
  <2> QED
    BY <1>1, <2>1, <2>2
<1>9. limbucket' = [redis |-> limbucket.redis, memory |-> d.bucket]
  BY <1>1, <1>3 DEF LimiterTyped
<1>10. LimiterTyped'
  <2>1. \A j \in LimitedKeys, h \in 0..MaxGen : h > limgen => limgranted'[j][h] = <<>>
    <3>1. ASSUME NEW j \in LimitedKeys, NEW h \in 0..MaxGen, h > limgen PROVE limgranted'[j][h] = <<>>
      <4>1. h # limgen
        BY <1>7, <3>1
      <4>2. limgranted[j][h] = <<>>
        BY <1>3, <3>1 DEF LimiterTyped
      <4> QED
        BY <1>8, <4>1, <4>2
    <3> QED
      BY <3>1
  <2>2. PICK F : F = [LimitedKeys -> Seq(0..limnow)]
    OBVIOUS
  <2>3. limbucket' \in [redis : F, memory : F]
    BY <1>3, <1>6, <1>9, <2>2 DEF LimiterTyped
  <2> QED
    BY <1>2, <1>3, <1>8, <2>1, <2>2, <2>3 DEF LimiterTyped
<1>11. LogsOrderly'
  <2>1. \A j \in LimitedKeys : Orderly(limgranted'[j][limgen], j, Shortest(j))
    BY <1>1, <1>6
  <2> QED
    BY <1>2, <1>3, <1>7, <1>8, <2>1, LogsStayOrderly
<1>12. RedisCounts'
  <2>1. \A j \in LimitedKeys : limgranted'[j][0] = limgranted[j][0]
    <3>1. 0 \in 0..MaxGen /\ 0 # limgen
      BY <1>2, <1>7
    <3> QED
      BY <1>8, <3>1
  <2>2. limbucket'.redis = limbucket.redis
    BY <1>9
  <2> QED
    BY <1>2, <2>1, <2>2 DEF RedisCounts, LimiterInv
<1>13. MemoryCounts'
  BY <1>1, <1>2, <1>6, <1>9 DEF MemoryCounts, Shortest
<1>14. RefusalJust'
  <2>1. CASE d.denied = limdenied
    BY <1>1, <1>2, <1>3, <1>6, <1>7, <2>1, RefusalKept DEF LimiterInv
  <2>2. CASE /\ d.denied = [key |-> k, at |-> limnow, by |-> limgen]
             /\ UsedUp(k, d.granted[k][limgen], limnow)
    BY <1>1, <1>2, <1>3, <1>7, <2>2 DEF RefusalJust, LimiterTyped
  <2> QED
    BY <1>6, <2>1, <2>2
<1> QED
  BY <1>10, <1>11, <1>12, <1>13, <1>14 DEF LimiterInv

LEMMA RedisStep == ASSUME LimiterInv, NEW p \in limpending, Limiter!RedisAnswers(p) PROVE LimiterInv'
<1>1. PICK k \in LimitedKeys, at \in 0..limnow : k = p.key /\ at = p.at
  BY DEF LimiterInv, LimiterTyped
<1>2. PICK d : /\ d = Limiter!Script(k, limbucket.redis, at)
               /\ limbucket' = [limbucket EXCEPT !["redis"] = d.bucket]
               /\ limgranted' = d.granted /\ limdenied' = d.denied
  BY <1>1 DEF Limiter!RedisAnswers, Limiter!Apply
<1>3. /\ limnow' = limnow /\ limgen' = limgen /\ limpending' \subseteq limpending
      /\ limlate' \in BOOLEAN /\ (limlate' <=> (limlate \/ at < limnow))
  BY <1>1 DEF Limiter!RedisAnswers, LimiterInv, LimiterTyped
<1>4. LimiterTyped /\ LogsOrderly /\ RedisCounts
  BY DEF LimiterInv
<1>5. /\ d.bucket \in [LimitedKeys -> Seq(0..limnow)]
      /\ OneLogged(d.granted, k, 0)
      /\ \A j \in LimitedKeys : /\ ~limlate' => Counts(d.bucket[j], d.granted[j][0], limnow, Windows[j], TRUE)
                                /\ Orderly(d.granted[j][0], j, ~limlate')
      /\ \/ d.denied = limdenied
         \/ d.denied = [key |-> k, at |-> limnow, by |-> 0] /\ (~limlate' => UsedUp(k, d.granted[k][0], limnow))
  BY <1>2, <1>3, <1>4, RedisDecides
<1>6. 0 \in 0..MaxGen /\ MaxGen \in Nat /\ limgen \in 0..MaxGen
  BY <1>4, WindowsNat DEF LimiterTyped
<1>7. /\ limgranted' \in [LimitedKeys -> [0..MaxGen -> Seq(0..limnow)]]
      /\ \A j \in LimitedKeys, h \in 0..MaxGen : h # 0 => limgranted'[j][h] = limgranted[j][h]
  <2>1. PICK G : G = d.granted
    OBVIOUS
  <2>2. /\ G \in [LimitedKeys -> [0..MaxGen -> Seq(0..limnow)]]
        /\ \A j \in LimitedKeys, h \in 0..MaxGen : h # 0 => G[j][h] = limgranted[j][h]
    <3>1. OneLogged(G, k, 0)
      BY <1>5, <2>1
    <3> QED
      BY <1>4, <1>6, <3>1, OthersLogged
  <2> QED
    BY <1>2, <2>1, <2>2
<1>8. limbucket' = [redis |-> d.bucket, memory |-> limbucket.memory]
  BY <1>2, <1>4 DEF LimiterTyped
<1>9. LimiterTyped'
  <2>1. \A j \in LimitedKeys, h \in 0..MaxGen : h > limgen => limgranted'[j][h] = <<>>
    <3>1. ASSUME NEW j \in LimitedKeys, NEW h \in 0..MaxGen, h > limgen PROVE limgranted'[j][h] = <<>>
      <4>1. h # 0
        BY <1>6, <3>1
      <4>2. limgranted[j][h] = <<>>
        BY <1>4, <3>1 DEF LimiterTyped
      <4> QED
        BY <1>7, <4>1, <4>2
    <3> QED
      BY <3>1
  <2> QED
    BY <1>3, <1>4, <1>5, <1>7, <1>8, <2>1 DEF LimiterTyped
<1>10. LogsOrderly'
  <2>1. \A j \in LimitedKeys : Orderly(limgranted'[j][0], j, ~limlate')
    BY <1>2, <1>5
  <2>2. limlate => limlate'
    BY <1>3
  <2> QED
    BY <1>4, <1>6, <1>7, <2>1, <2>2, LogsStayOrderly
<1>11. RedisCounts'
  BY <1>2, <1>3, <1>5, <1>8 DEF RedisCounts
<1>12. MemoryCounts'
  <2>1. limgen > 0 => limgen # 0
    BY <1>6
  <2> QED
    BY <1>3, <1>6, <1>7, <1>8, <2>1 DEF MemoryCounts, Shortest, LimiterInv
<1>13. RefusalJust'
  <2>1. CASE d.denied = limdenied
    BY <1>2, <1>3, <1>4, <1>5, <1>6, <2>1, RefusalKept DEF LimiterInv
  <2>2. CASE d.denied = [key |-> k, at |-> limnow, by |-> 0] /\ (~limlate' => UsedUp(k, d.granted[k][0], limnow))
    BY <1>2, <1>3, <1>4, <1>6, <2>2 DEF RefusalJust, LimiterTyped
  <2> QED
    BY <1>5, <2>1, <2>2
<1> QED
  BY <1>9, <1>10, <1>11, <1>12, <1>13 DEF LimiterInv

LEMMA FallBackStep == ASSUME LimiterInv, NEW p \in limpending, Limiter!RedisFails(p) PROVE LimiterInv'
<1>1. PICK k \in LimitedKeys : k = p.key
  BY DEF LimiterInv, LimiterTyped
<1>2. PICK d, b, g : /\ b = [j \in LimitedKeys |-> <<>>] /\ g = limgen + 1 /\ d = Limiter!Decide(k, b, g)
                     /\ limbucket' = [limbucket EXCEPT !["memory"] = d.bucket]
                     /\ limgranted' = d.granted /\ limdenied' = d.denied
  BY <1>1 DEF Limiter!RedisFails, Limiter!Apply, Limiter!NoEvents
<1>3. /\ limgen < MaxGen /\ limgen' = g
      /\ limnow' = limnow /\ limpending' \subseteq limpending /\ limlate' = limlate
  BY <1>2 DEF Limiter!RedisFails
<1>4. LimiterTyped /\ LogsOrderly
  BY DEF LimiterInv
<1>5. g \in 1..MaxGen /\ g \in 0..MaxGen /\ g > limgen /\ g # 0 /\ limgen \in Nat /\ MaxGen \in Nat
  BY <1>2, <1>3, <1>4, WindowsNat DEF LimiterTyped
<1>6. b \in [LimitedKeys -> Seq(0..limnow)]
  <2>1. <<>> \in Seq(0..limnow)
    OBVIOUS
  <2> QED
    BY <1>2, <2>1
<1>7. \A j \in LimitedKeys : Counts(b[j], limgranted[j][g], limnow, Windows[j], Shortest(j))
  <2>1. ASSUME NEW j \in LimitedKeys PROVE Counts(b[j], limgranted[j][g], limnow, Windows[j], Shortest(j))
    <3>1. b[j] = <<>> /\ limgranted[j][g] = <<>>
      BY <1>2, <1>4, <1>5 DEF LimiterTyped
    <3>2. TailOf(<<>>, <<>>, 0) /\ 0 \in 0..Len(<<>>)
      BY EmptySeq DEF TailOf
    <3> QED
      BY <3>1, <3>2 DEF Counts
  <2> QED
    BY <2>1
<1>8. /\ d.bucket \in [LimitedKeys -> Seq(0..limnow)]
      /\ OneLogged(d.granted, k, g)
      /\ \A j \in LimitedKeys : /\ Counts(d.bucket[j], d.granted[j][g], limnow, Windows[j], Shortest(j))
                                /\ Orderly(d.granted[j][g], j, Shortest(j))
      /\ \/ d.denied = limdenied
         \/ d.denied = [key |-> k, at |-> limnow, by |-> g] /\ UsedUp(k, d.granted[k][g], limnow)
  BY <1>2, <1>4, <1>5, <1>6, <1>7, MemoryDecides
<1>9. /\ limgranted' \in [LimitedKeys -> [0..MaxGen -> Seq(0..limnow)]]
      /\ \A j \in LimitedKeys, h \in 0..MaxGen : h # g => limgranted'[j][h] = limgranted[j][h]
  <2>1. PICK G : G = d.granted
    OBVIOUS
  <2>2. /\ G \in [LimitedKeys -> [0..MaxGen -> Seq(0..limnow)]]
        /\ \A j \in LimitedKeys, h \in 0..MaxGen : h # g => G[j][h] = limgranted[j][h]
    <3>1. OneLogged(G, k, g)
      BY <1>8, <2>1
    <3> QED
      BY <1>4, <1>5, <3>1, OthersLogged
  <2> QED
    BY <1>2, <2>1, <2>2
<1>10. limbucket' = [redis |-> limbucket.redis, memory |-> d.bucket]
  BY <1>2, <1>4 DEF LimiterTyped
<1>11. LimiterTyped'
  <2>1. \A j \in LimitedKeys, h \in 0..MaxGen : h > g => limgranted'[j][h] = <<>>
    <3>1. ASSUME NEW j \in LimitedKeys, NEW h \in 0..MaxGen, h > g PROVE limgranted'[j][h] = <<>>
      <4>1. h # g /\ h > limgen
        BY <1>5, <3>1
      <4> QED
        BY <1>4, <1>9, <4>1 DEF LimiterTyped
    <3> QED
      BY <3>1
  <2> QED
    BY <1>3, <1>4, <1>5, <1>8, <1>9, <1>10, <2>1 DEF LimiterTyped
<1>12. LogsOrderly'
  <2>1. \A j \in LimitedKeys : Orderly(limgranted'[j][g], j, Shortest(j))
    BY <1>2, <1>8
  <2> QED
    BY <1>3, <1>4, <1>5, <1>9, <2>1, LogsStayOrderly
<1>13. RedisCounts'
  <2>1. \A j \in LimitedKeys : limgranted'[j][0] = limgranted[j][0]
    BY <1>5, <1>9, 0 \in 0..MaxGen
  <2>2. limbucket'.redis = limbucket.redis
    BY <1>10
  <2> QED
    BY <1>3, <2>1, <2>2 DEF RedisCounts, LimiterInv
<1>14. MemoryCounts'
  BY <1>2, <1>3, <1>8, <1>10 DEF MemoryCounts, Shortest
<1>15. RefusalJust'
  <2>1. CASE d.denied = limdenied
    BY <1>2, <1>3, <1>4, <1>5, <1>8, <2>1, RefusalKept DEF LimiterInv
  <2>2. CASE d.denied = [key |-> k, at |-> limnow, by |-> g] /\ UsedUp(k, d.granted[k][g], limnow)
    BY <1>2, <1>3, <1>4, <1>5, <2>2 DEF RefusalJust, LimiterTyped
  <2> QED
    BY <1>8, <2>1, <2>2
<1> QED
  BY <1>11, <1>12, <1>13, <1>14, <1>15 DEF LimiterInv

LEMMA TickStep == ASSUME LimiterInv, Limiter!Tick PROVE LimiterInv'
<1>1. /\ limnow < MaxTime /\ limnow' = limnow + 1
      /\ UNCHANGED <<limgen, limbucket, limpending, limgranted, limdenied, limlate>>
  BY DEF Limiter!Tick
<1>2. LimiterTyped /\ limnow \in Nat /\ MaxTime \in Nat
  BY WindowsNat DEF LimiterInv, LimiterTyped
<1>3. Seq(0..limnow) \subseteq Seq(0..(limnow + 1))
  <2>1. PICK A, B : A = 0..limnow /\ B = 0..(limnow + 1)
    OBVIOUS
  <2>2. A \subseteq B
    BY <1>2, <2>1
  <2>3. Seq(A) \subseteq Seq(B)
    <3>1. ASSUME NEW s \in Seq(A) PROVE s \in Seq(B)
      BY <2>2, ElementOfSeq, SeqDef
    <3> QED
      BY <3>1
  <2> QED
    BY <2>1, <2>3
<1>4. LimiterTyped'
  BY <1>1, <1>2, <1>3 DEF LimiterTyped
<1>5. LogsOrderly'
  BY <1>1 DEF LogsOrderly, Shortest, LimiterInv
<1>6. 0 \in 0..MaxGen /\ limgen \in 0..MaxGen
  BY <1>2, WindowsNat DEF LimiterTyped
<1>7. RedisCounts'
  <2>1. ASSUME ~limlate, NEW k \in LimitedKeys
        PROVE  Counts(limbucket.redis[k], limgranted[k][0], limnow + 1, Windows[k], TRUE)
    <3>1. limgranted[k][0] \in Seq(0..limnow) /\ Windows[k] \in Nat
      BY <1>2, <1>6, WindowsNat DEF LimiterTyped
    <3>2. Counts(limbucket.redis[k], limgranted[k][0], limnow, Windows[k], TRUE)
      BY <2>1 DEF LimiterInv, RedisCounts
    <3> QED
      BY <1>2, <3>1, <3>2, LaterCounts
  <2> QED
    BY <1>1, <2>1 DEF RedisCounts
<1>8. MemoryCounts'
  <2>1. ASSUME limgen > 0, NEW k \in LimitedKeys
        PROVE  Counts(limbucket.memory[k], limgranted[k][limgen], limnow + 1, Windows[k], Shortest(k))
    <3>1. limgranted[k][limgen] \in Seq(0..limnow) /\ Windows[k] \in Nat
      BY <1>2, <1>6, WindowsNat DEF LimiterTyped
    <3>2. PICK c \in BOOLEAN : c = Shortest(k)
      BY DEF Shortest
    <3>3. Counts(limbucket.memory[k], limgranted[k][limgen], limnow, Windows[k], c)
      BY <2>1, <3>2 DEF LimiterInv, MemoryCounts
    <3> QED
      BY <1>2, <3>1, <3>2, <3>3, LaterCounts
  <2> QED
    BY <1>1, <2>1 DEF MemoryCounts, Shortest
<1>9. RefusalJust'
  BY <1>1, <1>2 DEF RefusalJust, LimiterInv
<1> QED
  BY <1>4, <1>5, <1>7, <1>8, <1>9 DEF LimiterInv

LEMMA LimiterStep == LimiterInv /\ [Limiter!Next]_limVars => LimiterInv'
<1> SUFFICES ASSUME LimiterInv, [Limiter!Next]_limVars PROVE LimiterInv'
  OBVIOUS
<1>1. ASSUME NEW k \in LimitedKeys, Limiter!CheckRedis(k) PROVE LimiterInv'
  <2>1. /\ limpending' = limpending \cup {[key |-> k, at |-> limnow]}
        /\ UNCHANGED <<limnow, limgen, limbucket, limgranted, limdenied, limlate>>
    BY <1>1 DEF Limiter!CheckRedis
  <2>2. \A q \in limpending' : q.key \in LimitedKeys /\ q.at \in 0..limnow
    BY <2>1 DEF LimiterInv, LimiterTyped
  <2>3. LimiterTyped'
    BY <2>1, <2>2 DEF LimiterInv, LimiterTyped
  <2> QED
    BY <2>1, <2>3 DEF LimiterInv, LogsOrderly, RedisCounts, MemoryCounts, RefusalJust, Shortest
<1>2. CASE UNCHANGED limVars
  BY <1>2 DEF limVars, LimiterInv, LimiterTyped, LogsOrderly, RedisCounts, MemoryCounts, RefusalJust, Shortest
<1> QED
  BY <1>1, <1>2, MemoryStep, RedisStep, FallBackStep, TickStep DEF Limiter!Next

LEMMA LimiterSafe == LimiterInv => LimiterHonest
<1> SUFFICES ASSUME LimiterInv PROVE LimiterHonest
  OBVIOUS
<1>1. ASSUME NEW k, NEW g, NEW t PROVE Limiter!Through(k, g, t) = Cardinality(InWindow(limgranted[k][g], Windows[k], t))
  BY LimiterCardinality DEF Limiter!Through, InWindow
<1>2. LimiterTyped /\ limnow \in Nat /\ MaxGen \in Nat /\ MaxTime \in Nat
  BY WindowsNat DEF LimiterInv, LimiterTyped
<1>3. ASSUME NEW k \in LimitedKeys, NEW g \in 0..MaxGen, NEW t \in 0..MaxTime, Limiter!Covered(k, g)
      PROVE  Limiter!Through(k, g, t) <= Limits[k]
  <2>1. limgranted[k][g] \in Seq(0..limnow)
    BY <1>2 DEF LimiterTyped
  <2>2. Orderly(limgranted[k][g], k, TRUE)
    <3>1. CASE g = 0
      BY <1>3, <3>1 DEF LimiterInv, LogsOrderly, Limiter!Covered, Orderly
    <3>2. CASE g # 0
      <4>1. g \in 1..MaxGen /\ Shortest(k)
        BY <1>2, <1>3, <3>2 DEF Limiter!Covered, Shortest
      <4> QED
        BY <4>1 DEF LimiterInv, LogsOrderly, Orderly
    <3> QED
      BY <3>1, <3>2
  <2>3. Cardinality(InWindow(limgranted[k][g], Windows[k], t)) <= Limits[k]
    BY <1>2, <2>1, <2>2, SpacedFits, WindowsNat, t \in Nat DEF Orderly
  <2> QED
    BY <1>1, <2>3
<1>4. ASSUME limdenied.at >= 0, limdenied.by = 0 => ~limlate
      PROVE  Limiter!Through(limdenied.key, limdenied.by, limdenied.at) >= Limits[limdenied.key]
  <2>1. limdenied # [at |-> -1]
    BY <1>4
  <2>2. /\ limdenied \in [key : LimitedKeys, at : 0..limnow, by : 0..MaxGen]
        /\ UsedUp(limdenied.key, limgranted[limdenied.key][limdenied.by], limdenied.at)
    BY <1>4, <2>1 DEF LimiterInv, RefusalJust
  <2>3. PICK k \in LimitedKeys, g \in 0..MaxGen, t \in 0..limnow :
          k = limdenied.key /\ g = limdenied.by /\ t = limdenied.at
    BY <2>2
  <2>4. Cardinality(InWindow(limgranted[k][g], Windows[k], t)) \in Nat /\ Limits[k] \in Nat
    <3>1. limgranted[k][g] \in Seq(0..limnow) /\ t \in Nat /\ Windows[k] \in Nat /\ Limits[k] \in Nat
      BY <1>2, WindowsNat DEF LimiterTyped
    <3> QED
      BY <1>2, <3>1, WindowGrows
  <2> QED
    BY <1>1, <2>2, <2>3, <2>4 DEF UsedUp
<1> QED
  BY <1>3, <1>4 DEF LimiterHonest, Limiter!WithinLimit, Limiter!RefusedForCause

LEMMA LimiterMoves == [Next]_vars => [Limiter!Next]_limVars
  BY DEF Next, vars, AccountsKeeps, TeamKeeps, PairingKeeps, OnboardingKeeps, SharedKeeps, CaptureKeeps

\* For every number of keys, every limit and window, in Redis and in any number of limiters of the
\* process after it: no window that no caller shortened exceeds its limit, and who is refused has
\* used the limit up.
THEOREM LimiterIsHonest == Spec => []LimiterHonest
<1>1. Init => LimiterInv
  BY LimiterInit DEF Init
<1>2. LimiterInv /\ [Next]_vars => LimiterInv'
  BY LimiterStep, LimiterMoves
<1> QED
  BY <1>1, <1>2, LimiterSafe, PTL DEF Spec
===============================================================================
