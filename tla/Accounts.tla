-------------------------------- MODULE Accounts --------------------------------
(***************************************************************************)
(* User accounts of one workspace and the tokens that speak for them:      *)
(* login, SSO login, refresh, logout, password change, and an              *)
(* administrator's role change and deactivation of a member.               *)
(*                                                                         *)
(* A request authenticates its bearer token (get_current_auth_context),    *)
(* later loads the user_accounts row it works on into an ORM object, and   *)
(* commits an UPDATE of the columns it changed, computed from what it had  *)
(* loaded.  Requests overlap between these three steps.                    *)
(***************************************************************************)
EXTENDS Naturals, FiniteSets

CONSTANTS
  Workers,   \* requests in flight
  Users,     \* members of the workspace
  Admins,    \* those that are administrators at the start
  MaxPairs,  \* bound: token pairs issued
  MaxVersion \* bound: token_version of a row

VARIABLES
  account,   \* committed user_accounts rows
  pairs,     \* access and refresh token pairs answered so far
  tx,        \* per worker: request
  lost       \* users of whom a concurrent token_version increment was overwritten

vars == <<account, pairs, tx, lost>>

-------------------------------------------------------------------------------
\* the columns of a row that authentication reads; a password is its generation
Account == [role : {"admin", "member"}, active : BOOLEAN, version : Nat,
            jti : Nat, password : Nat]

\* no refresh token is current
NoJti == 0

\* a pair of tokens carries the user and the version; jti is the refresh token's
Pair == [user : Users, version : Nat, jti : Nat, password : Nat]

Idle == [pc |-> "idle"]

\* get_current_auth_context on the access token of the pair
Accepted(pair) == /\ account[pair.user].version = pair.version
                  /\ account[pair.user].active

IsAdmin(u) == account[u].active /\ account[u].role = "admin"

Seen(w) == tx[w].seen

NextJti == Cardinality(pairs) + 1

Init == /\ account = [u \in Users |->
                       [role |-> IF u \in Admins THEN "admin" ELSE "member", active |-> TRUE,
                        version |-> 0, jti |-> NoJti, password |-> 0]]
        /\ pairs = {} /\ lost = {}
        /\ tx = [w \in Workers |-> Idle]

-------------------------------------------------------------------------------
(* A request is authenticated, then loads its row.                          *)

Bearer == {"logout", "change_password"}
OfAdmin == {"demote", "deactivate"}

Authenticate(w, pair, op) ==
  /\ tx[w].pc = "idle" /\ Accepted(pair) /\ op \in Bearer
  /\ tx' = [tx EXCEPT ![w] = [pc |-> "authenticated", op |-> op, actor |-> pair.user, target |-> pair.user]]
  /\ UNCHANGED <<account, pairs, lost>>

\* require_admin reads the role from the database; nobody demotes or deactivates himself
RequireAdmin(w, pair, op, u) ==
  /\ tx[w].pc = "idle" /\ Accepted(pair) /\ op \in OfAdmin
  /\ IsAdmin(pair.user) /\ pair.user # u
  /\ tx' = [tx EXCEPT ![w] = [pc |-> "authenticated", op |-> op, actor |-> pair.user, target |-> u]]
  /\ UNCHANGED <<account, pairs, lost>>

Load(w) ==
  /\ tx[w].pc = "authenticated"
  /\ tx[w].op = "change_password" => account[tx[w].target].active
  /\ tx' = [tx EXCEPT ![w] = [pc |-> "loaded", op |-> tx[w].op, actor |-> tx[w].actor,
                              target |-> tx[w].target, seen |-> account[tx[w].target]]]
  /\ UNCHANGED <<account, pairs, lost>>

\* login and SSO login: the row is found by name, the password verified by its generation
Login(w, u, op) ==
  /\ tx[w].pc = "idle" /\ op \in {"login", "sso"} /\ account[u].active
  /\ tx' = [tx EXCEPT ![w] = [pc |-> "loaded", op |-> op, actor |-> u, target |-> u, seen |-> account[u]]]
  /\ UNCHANGED <<account, pairs, lost>>

\* POST /auth/refresh: the refresh token carries the current version and jti
Refresh(w, pair) ==
  /\ tx[w].pc = "idle" /\ Accepted(pair) /\ account[pair.user].jti = pair.jti
  /\ tx' = [tx EXCEPT ![w] = [pc |-> "loaded", op |-> "refresh", actor |-> pair.user,
                              target |-> pair.user, seen |-> account[pair.user]]]
  /\ UNCHANGED <<account, pairs, lost>>

-------------------------------------------------------------------------------
(* The UPDATE and commit.                                                    *)

Bumps(op) == op \in {"logout", "change_password", "sso", "deactivate"}
Issues(op) == op \in {"login", "refresh", "change_password", "sso"}

\* token_version = (loaded token_version or 0) + 1
NewVersion(w) == IF Bumps(tx[w].op) THEN Seen(w).version + 1 ELSE Seen(w).version

\* mutant: the loaded row is written back whole
WrittenWhole(w, row) ==
  [Seen(w) EXCEPT !.version = NewVersion(w),
                  !.active = @ /\ tx[w].op # "deactivate",
                  !.role = IF tx[w].op = "demote" THEN "member" ELSE @,
                  !.password = IF tx[w].op = "change_password" THEN @ + 1 ELSE @,
                  !.jti = IF Issues(tx[w].op) THEN NextJti
                          ELSE IF tx[w].op = "logout" THEN NoJti ELSE @]

\* the row after the UPDATE: changed columns from the loaded object, the others kept
Written(w, row) ==
  [row EXCEPT !.version = IF Bumps(tx[w].op) THEN NewVersion(w) ELSE @,
              !.active = @ /\ tx[w].op # "deactivate",
              !.role = IF tx[w].op = "demote" THEN "member" ELSE @,
              !.password = IF tx[w].op = "change_password" THEN Seen(w).password + 1 ELSE @,
              !.jti = IF Issues(tx[w].op) THEN NextJti
                      ELSE IF tx[w].op = "logout" /\ Seen(w).jti # NoJti THEN NoJti ELSE @]

\* issue_token_response: the claims are those of the loaded row, as changed
IssuedPair(w) == [user |-> tx[w].target, version |-> NewVersion(w), jti |-> NextJti,
                  password |-> IF tx[w].op = "change_password" THEN Seen(w).password + 1
                               ELSE Seen(w).password]

Commit(w) ==
  LET u == tx[w].target IN
  /\ tx[w].pc = "loaded"
  /\ Issues(tx[w].op) => Cardinality(pairs) < MaxPairs
  /\ Bumps(tx[w].op) => Seen(w).version < MaxVersion
  /\ account' = [account EXCEPT ![u] = Written(w, @)]
  /\ pairs' = IF Issues(tx[w].op) THEN pairs \cup {IssuedPair(w)} ELSE pairs
  /\ lost' = IF Bumps(tx[w].op) /\ Seen(w).version # account[u].version THEN lost \cup {u} ELSE lost
  /\ tx' = [tx EXCEPT ![w] = Idle]

\* a wrong password, a database error, the client gone: the session is closed
Fail(w) == /\ tx[w].pc # "idle"
           /\ tx' = [tx EXCEPT ![w] = Idle]
           /\ UNCHANGED <<account, pairs, lost>>

Next == \E w \in Workers :
          \/ Load(w) \/ Commit(w) \/ Fail(w)
          \/ \E pair \in pairs : \/ Refresh(w, pair)
                                 \/ \E op \in Bearer : Authenticate(w, pair, op)
                                 \/ \E op \in OfAdmin, u \in Users : RequireAdmin(w, pair, op, u)
          \/ \E u \in Users, op \in {"login", "sso"} : Login(w, u, op)

Spec == Init /\ [][Next]_vars

-------------------------------------------------------------------------------
\* Type invariant of the accounts.
TypeOK == /\ account \in [Users -> Account]
          /\ pairs \subseteq Pair
          /\ lost \subseteq Users
          /\ \A w \in Workers : tx[w].pc = "loaded" => tx[w].seen \in Account

\* A token refused once is refused for ever, unless a concurrent increment of the
\* user's token_version was overwritten: auth.py:223 "logout and password changes
\* increment user.token_version, making all prior tokens invalid".
RevokedForGood == [][\A p \in pairs : (~Accepted(p) /\ Accepted(p)') => p.user \in lost']_vars

\* No accepted token was issued under an earlier password than the current one, a
\* login that overlapped the change included (same exception).
PasswordBound ==
  \A p \in pairs : (Accepted(p) /\ p.user \notin lost) => p.password = account[p.user].password

\* A login, refresh or logout in flight while the account is deactivated does not
\* bring it back: only changed columns are written.
DeactivatedForGood == [][\A u \in Users : ~account[u].active => ~account'[u].active]_vars

\* While requests do not overlap (one worker) the workspace keeps an administrator.
AdminRemains == \E u \in Users : IsAdmin(u)

===============================================================================
