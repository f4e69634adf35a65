------------------------------- MODULE PairingCode -------------------------------
(***************************************************************************)
(* Pairing codes: an administrator mints a code, clients exchange it for   *)
(* API keys at POST /connect/redeem, and the administrator may revoke it.  *)
(*                                                                         *)
(* A redemption SELECTs the pairing_codes row without a lock, checks it,   *)
(* and commits an UPDATE whose counters were computed from the loaded row, *)
(* so redemptions of one code overlap between SELECT and commit.           *)
(***************************************************************************)
EXTENDS Naturals, FiniteSets

CONSTANTS
  Workers,     \* requests in flight
  Codes,       \* pairing codes
  MaxUses,     \* max_uses each code is created with
  MaxAttempts, \* failed attempts that lock a code (5)
  MaxKeys      \* bound: redemptions that begin

VARIABLES
  code,   \* committed pairing_codes rows
  keys,   \* api_keys minted from a code, numbered in their order
  tx,     \* per worker: redemption or revocation
  begun,  \* redemptions begun
  raced   \* codes with a counter increment that was overwritten

vars == <<code, keys, tx, begun, raced>>

-------------------------------------------------------------------------------
Row == [created : BOOLEAN, used : Nat, attempts : Nat, revoked : BOOLEAN, expired : BOOLEAN]

Idle == [pc |-> "idle"]

Seen(w) == tx[w].seen

\* status shown by GET /connect/codes
Status(row) == CASE row.revoked         -> "revoked"
                 [] row.expired         -> "expired"
                 [] row.used >= MaxUses -> "exhausted"
                 [] OTHER               -> "active"

Init == /\ code = [c \in Codes |-> [created |-> FALSE, used |-> 0, attempts |-> 0,
                                    revoked |-> FALSE, expired |-> FALSE]]
        /\ keys = {} /\ begun = 0 /\ raced = {}
        /\ tx = [w \in Workers |-> Idle]

\* POST /connect/codes
Create(c) ==
  /\ ~code[c].created
  /\ code' = [code EXCEPT ![c].created = TRUE]
  /\ UNCHANGED <<keys, tx, begun, raced>>

\* the clock passes expires_at
Expire(c) ==
  /\ code[c].created /\ ~code[c].expired
  /\ code' = [code EXCEPT ![c].expired = TRUE]
  /\ UNCHANGED <<keys, tx, begun, raced>>

\* POST /connect/redeem, up to its SELECT by code hash; an unknown code is a 404
Select(w, c) ==
  /\ tx[w].pc = "idle" /\ code[c].created /\ begun < MaxKeys
  /\ tx' = [tx EXCEPT ![w] = [pc |-> "redeeming", code |-> c, seen |-> code[c]]]
  /\ begun' = begun + 1
  /\ UNCHANGED <<code, keys, raced>>

\* redeem_pairing_code: the key is minted and the use counted, in one commit
Mint(w) ==
  LET c == tx[w].code IN
  /\ tx[w].pc = "redeeming" /\ Status(Seen(w)) = "active"
  /\ code' = [code EXCEPT ![c].used = Seen(w).used + 1]
  /\ keys' = keys \cup {[id |-> Cardinality(keys) + 1, code |-> c]}
  /\ raced' = IF Seen(w).used # code[c].used THEN raced \cup {c} ELSE raced
  /\ tx' = [tx EXCEPT ![w] = Idle]
  /\ UNCHANGED begun

\* mutant: a failure writes the loaded row back whole
RecordFailedWhole(w) ==
  LET c == tx[w].code IN
  /\ tx[w].pc = "redeeming" /\ Status(Seen(w)) # "active"
  /\ code' = [code EXCEPT ![c] = [Seen(w) EXCEPT !.attempts = @ + 1,
                                                 !.revoked = @ \/ Seen(w).attempts + 1 >= MaxAttempts]]
  /\ raced' = IF Seen(w).attempts # code[c].attempts THEN raced \cup {c} ELSE raced
  /\ tx' = [tx EXCEPT ![w] = Idle]
  /\ UNCHANGED <<keys, begun>>

\* _record_failed_attempt: the failure is counted and the code locked at the limit
RecordFailed(w) ==
  LET c == tx[w].code IN
  /\ tx[w].pc = "redeeming" /\ Status(Seen(w)) # "active"
  /\ code' = [code EXCEPT ![c].attempts = Seen(w).attempts + 1,
                          ![c].revoked = @ \/ Seen(w).attempts + 1 >= MaxAttempts]
  /\ raced' = IF Seen(w).attempts # code[c].attempts THEN raced \cup {c} ELSE raced
  /\ tx' = [tx EXCEPT ![w] = Idle]
  /\ UNCHANGED <<keys, begun>>

\* DELETE /connect/codes/{id}: SELECT, then UPDATE and commit
RevokeSelect(w, c) ==
  /\ tx[w].pc = "idle" /\ code[c].created /\ ~code[c].revoked
  /\ tx' = [tx EXCEPT ![w] = [pc |-> "revoking", code |-> c, seen |-> code[c]]]
  /\ UNCHANGED <<code, keys, begun, raced>>

RevokeCommit(w) ==
  /\ tx[w].pc = "revoking"
  /\ code' = [code EXCEPT ![tx[w].code].revoked = TRUE]
  /\ tx' = [tx EXCEPT ![w] = Idle]
  /\ UNCHANGED <<keys, begun, raced>>

\* the request is cut off before its commit
Fail(w) == /\ tx[w].pc # "idle"
           /\ tx' = [tx EXCEPT ![w] = Idle]
           /\ UNCHANGED <<code, keys, begun, raced>>

Next == \/ \E c \in Codes : Create(c) \/ Expire(c)
        \/ \E w \in Workers : Mint(w) \/ RecordFailed(w) \/ RevokeCommit(w) \/ Fail(w)
        \/ \E w \in Workers, c \in Codes : Select(w, c) \/ RevokeSelect(w, c)

Spec == Init /\ [][Next]_vars

-------------------------------------------------------------------------------
Minted(c) == {k \in keys : k.code = c}

\* Type invariant of the pairing codes.
TypeOK == /\ code \in [Codes -> Row]
          /\ \A k \in keys : k.code \in Codes /\ k.id \in 1..MaxKeys
          /\ begun \in 0..MaxKeys /\ raced \subseteq Codes
          /\ \A w \in Workers : tx[w].pc # "idle" => tx[w].code \in Codes /\ tx[w].seen \in Row

\* A code yields no more keys than max_uses, unless redemptions overlapped and one
\* overwrote the use another had counted (the check at pairing_service.py:176 and
\* the increment at :194 are not one step).
UsesBounded == \A c \in Codes : Cardinality(Minted(c)) > MaxUses => c \in raced

\* A lockout cannot be raced away: once a code is revoked, no concurrent redemption
\* or failed attempt that loaded the row before clears it.
RevokedForGood == [][\A c \in Codes : code[c].revoked => code'[c].revoked]_vars

\* Failures accumulate into a lockout: a code whose counter reached the limit is
\* revoked, whichever of several overlapping failures wrote it.
LimitLocks == \A c \in Codes : code[c].attempts >= MaxAttempts => code[c].revoked
===============================================================================
