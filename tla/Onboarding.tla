------------------------------- MODULE Onboarding -------------------------------
(***************************************************************************)
(* How accounts come into being: the first-run setup page, the seeded      *)
(* administrator of a starting replica, self-registration, and invites;    *)
(* with the setup guard that redirects requests until an account exists,   *)
(* and the key-value store that holds invites and SSO states.              *)
(*                                                                         *)
(* A request is a transaction of its own; the setup request takes an       *)
(* advisory lock of PostgreSQL and checks again under it.  Usernames are   *)
(* unique: an insert waits for an uncommitted insert of its name.          *)
(***************************************************************************)
EXTENDS Naturals, FiniteSets

CONSTANTS
  Workers,   \* requests and starting replicas
  Names,     \* usernames that requests choose
  SeedName,  \* ADMIN_SEED_USERNAME
  Tokens,    \* invite tokens and SSO states handed out
  Shared     \* REDIS_URL is set: the store is remote and each call awaits

VARIABLES
  users,     \* committed accounts: name and how it came
  store,     \* one-time tokens in the key-value store
  holder,    \* worker that holds the advisory lock
  tx,        \* per worker: request
  complete   \* app.state.setup_complete

vars == <<users, store, holder, tx, complete>>

NoWorker == "nobody"

Idle == [pc |-> "idle"]

Taken(n) == \E u \in users : u.name = n

\* an uncommitted insert of the name by another session
Pending(w, n) == \E v \in Workers \ {w} : tx[v].pc = "inserted" /\ tx[v].name = n

Init == /\ users = {} /\ store = Tokens /\ holder = NoWorker /\ complete = FALSE
        /\ tx = [w \in Workers |-> Idle]

Goto(w, t) == tx' = [tx EXCEPT ![w] = t]

-------------------------------------------------------------------------------
\* run_setup: first check, before the lock
SetupBegin(w, n) ==
  /\ tx[w].pc = "idle" /\ users = {}
  /\ Goto(w, [pc |-> "waiting", via |-> "setup", name |-> n])
  /\ UNCHANGED <<users, store, holder, complete>>

\* mutant: no second check under the lock
SetupLockOnly(w) ==
  /\ tx[w].pc = "waiting" /\ holder = NoWorker
  /\ holder' = w
  /\ Goto(w, [tx[w] EXCEPT !.pc = "ready"])
  /\ UNCHANGED <<users, store, complete>>

\* pg_advisory_xact_lock and is_setup_complete again
SetupLock(w) ==
  /\ tx[w].pc = "waiting" /\ holder = NoWorker
  /\ IF users = {} THEN holder' = w /\ Goto(w, [tx[w] EXCEPT !.pc = "ready"])
                   ELSE holder' = holder /\ Goto(w, Idle)
  /\ UNCHANGED <<users, store, complete>>

\* _seed_admin_user at the start of a replica
SeedBegin(w) ==
  /\ tx[w].pc = "idle" /\ users = {}
  /\ Goto(w, [pc |-> "ready", via |-> "seed", name |-> SeedName])
  /\ UNCHANGED <<users, store, holder, complete>>

\* POST /auth/register
RegisterBegin(w, n) ==
  /\ tx[w].pc = "idle"
  /\ Goto(w, [pc |-> "ready", via |-> "register", name |-> n])
  /\ UNCHANGED <<users, store, holder, complete>>

\* accept_invite, consume_state_async: kv_store.get, then kv_store.delete; the
\* in-process store does both without a suspension in between
Accept(w, n, t) ==
  /\ tx[w].pc = "idle" /\ t \in store
  /\ IF Shared THEN /\ store' = store
                    /\ Goto(w, [pc |-> "got", via |-> t, name |-> n])
               ELSE /\ store' = store \ {t}
                    /\ Goto(w, [pc |-> "ready", via |-> t, name |-> n])
  /\ UNCHANGED <<users, holder, complete>>

AcceptDelete(w) ==
  /\ tx[w].pc = "got"
  /\ store' = store \ {tx[w].via}
  /\ Goto(w, [tx[w] EXCEPT !.pc = "ready"])
  /\ UNCHANGED <<users, holder, complete>>

\* flush of the user_accounts row
Insert(w) ==
  /\ tx[w].pc = "ready" /\ ~Taken(tx[w].name) /\ ~Pending(w, tx[w].name)
  /\ Goto(w, [tx[w] EXCEPT !.pc = "inserted"])
  /\ UNCHANGED <<users, store, holder, complete>>

Release(w) == holder' = IF holder = w THEN NoWorker ELSE holder

\* IntegrityError: rollback and 409 (a seeding replica fails to start)
InsertConflict(w) ==
  /\ tx[w].pc = "ready" /\ Taken(tx[w].name)
  /\ Goto(w, Idle) /\ Release(w)
  /\ UNCHANGED <<users, store, complete>>

\* commit; the setup route then marks the process
Commit(w) ==
  /\ tx[w].pc = "inserted"
  /\ users' = users \cup {[name |-> tx[w].name, via |-> tx[w].via, by |-> w]}
  /\ IF tx[w].via = "setup" THEN Goto(w, [pc |-> "answer"]) ELSE Goto(w, Idle)
  /\ Release(w)
  /\ UNCHANGED <<store, complete>>

Answer(w) ==
  /\ tx[w].pc = "answer"
  /\ complete' = TRUE /\ Goto(w, Idle)
  /\ UNCHANGED <<users, store, holder>>

\* a weak password, a database error or a stopped process: rollback
Fail(w) ==
  /\ tx[w].pc \in {"waiting", "ready", "inserted", "got"}
  /\ Goto(w, Idle) /\ Release(w)
  /\ UNCHANGED <<users, store, complete>>

\* SetupGuardMiddleware: count the accounts once and remember that there is one
Guard ==
  /\ ~complete /\ users # {}
  /\ complete' = TRUE
  /\ UNCHANGED <<users, store, holder, tx>>

\* the process stops: open transactions roll back, the in-process store is empty
Restart == /\ complete' = FALSE
           /\ store' = IF Shared THEN store ELSE {}
           /\ holder' = NoWorker /\ tx' = [w \in Workers |-> Idle]
           /\ UNCHANGED users

Serve(w) == SetupLock(w) \/ AcceptDelete(w) \/ Insert(w) \/ InsertConflict(w) \/ Commit(w) \/ Answer(w)

Next == \/ \E w \in Workers : Serve(w) \/ Fail(w) \/ SeedBegin(w)
        \/ \E w \in Workers, n \in Names : \/ SetupBegin(w, n) \/ RegisterBegin(w, n)
                                           \/ \E t \in Tokens : Accept(w, n, t)
        \/ Guard \/ Restart

Spec == Init /\ [][Next]_vars

-------------------------------------------------------------------------------
Via(v) == {u \in users : u.via = v}

\* Type invariant of onboarding.
TypeOK == /\ \A u \in users : u.name \in Names \cup {SeedName} /\ u.by \in Workers
          /\ store \subseteq Tokens /\ holder \in Workers \cup {NoWorker}
          /\ complete \in BOOLEAN
          /\ \A w \in Workers : tx[w].pc \in {"idle", "waiting", "got", "ready", "inserted", "answer"}

\* However many setup requests overlap, with each other and with registrations, the
\* setup page creates one administrator at most (setup.py:68).
OneSetup == Cardinality(Via("setup")) <= 1

\* Replicas that start together seed one administrator.
OneSeed == Cardinality(Via("seed")) <= 1

\* A one-time token creates one account at most: auth.py:399 "so concurrent accepts
\* cannot both succeed".
TokenOnce == \A t \in Tokens : Cardinality(Via(t)) <= 1

\* The guard opens the server only when an account is committed, setups that fail
\* late and restarts included.
GuardHonest == complete => users # {}
===============================================================================
