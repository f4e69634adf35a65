------------------------------- MODULE MCAccess -------------------------------
(* The components that decide who may call the backend, side by side for TLC.  *)
(* They share no state, so each behaviour lets one of them move (focus) and    *)
(* the state spaces add up instead of multiplying.                             *)
EXTENDS Naturals, Sequences, FiniteSets

CONSTANTS
  Workers,      \* requests in flight
  Alone,        \* the only request in flight of a team that is administered by one at a time
  Replicas,     \* requests and starting replicas over a shared store
  Users,        \* members of the workspace
  Admins,       \* those that are administrators at the start
  MaxVersion,   \* bound: token_version of a row
  MaxPairs,     \* bound: token pairs issued
  MaxTeamPairs, \* the same, of the team
  Codes,        \* pairing codes
  MaxUses,      \* max_uses of each code
  MaxAttempts,  \* failed attempts that lock a code
  MaxKeys,      \* bound: redemptions
  SeedName,     \* ADMIN_SEED_USERNAME
  Tokens,       \* invite tokens and SSO states handed out
  LimitedKeys,  \* keys of the rate limiter
  Limits,       \* requests per window, by key
  Windows,      \* window in ticks, by key
  MaxTracked,   \* keys beyond which the in-memory limiter compacts
  MaxTime,      \* bound: ticks
  MaxGen,       \* bound: limiters that replace one another
  Sockets,      \* capture connections
  Interval,     \* messages between two checks of the token
  MaxMessages   \* bound: messages of a connection

ASSUME WorkersAssumption  == "nobody" \notin Workers
ASSUME UsersAssumption    == Users # {}
ASSUME UsesAssumption     == MaxUses \in Nat
ASSUME AttemptsAssumption == MaxAttempts \in Nat \ {0}
ASSUME TokensAssumption   == Tokens \cap {"setup", "seed", "register"} = {}
\* check() takes at least 1 for both
ASSUME LimitsAssumption   == /\ Limits \in [LimitedKeys -> Nat \ {0}] /\ Windows \in [LimitedKeys -> Nat \ {0}]
                             /\ MaxTime \in Nat /\ MaxGen \in Nat
ASSUME IntervalAssumption == Interval \in Nat \ {0}

\* values for TLC: two keys of the same window
TwoKeys == [http |-> 2, auth |-> 1]
SameWindow == [http |-> 2, auth |-> 2]

VARIABLES
  focus,  \* the component that moves
  accaccount, accpairs, acctx, acclost,
  teamaccount, teampairs, teamtx, teamlost,
  paircode, pairkeys, pairtx, pairbegun, pairraced,
  onbusers, onbstore, onbholder, onbtx, onbcomplete,
  shrusers, shrstore, shrholder, shrtx, shrcomplete,
  limnow, limgen, limbucket, limpending, limgranted, limdenied, limlate,
  wsconn, wsregistered, wsrevoked, wsgone, wsgreetless

Accounts == INSTANCE Accounts WITH
  account <- accaccount, pairs <- accpairs, tx <- acctx, lost <- acclost

Team == INSTANCE Accounts WITH
  Workers <- {Alone}, Admins <- Users, MaxPairs <- MaxTeamPairs,
  account <- teamaccount, pairs <- teampairs, tx <- teamtx, lost <- teamlost

Pairing == INSTANCE PairingCode WITH
  code <- paircode, keys <- pairkeys, tx <- pairtx, begun <- pairbegun, raced <- pairraced

Onboarding == INSTANCE Onboarding WITH
  Names <- Users, Shared <- FALSE,
  users <- onbusers, store <- onbstore, holder <- onbholder, tx <- onbtx, complete <- onbcomplete

Shared == INSTANCE Onboarding WITH
  Workers <- Replicas, Names <- Admins, Shared <- TRUE,
  users <- shrusers, store <- shrstore, holder <- shrholder, tx <- shrtx, complete <- shrcomplete

Limiter == INSTANCE RateLimit WITH
  Keys <- LimitedKeys, Limit <- Limits, Window <- Windows, Remote <- TRUE, now <- limnow, gen <- limgen, bucket <- limbucket, pending <- limpending,
  granted <- limgranted, denied <- limdenied, late <- limlate

Capture == INSTANCE WsCapture WITH
  conn <- wsconn, registered <- wsregistered,
  revoked <- wsrevoked, gone <- wsgone, greetless <- wsgreetless

accVars == <<accaccount, accpairs, acctx, acclost>>
teamVars == <<teamaccount, teampairs, teamtx, teamlost>>
pairVars == <<paircode, pairkeys, pairtx, pairbegun, pairraced>>
onbVars == <<onbusers, onbstore, onbholder, onbtx, onbcomplete>>
shrVars == <<shrusers, shrstore, shrholder, shrtx, shrcomplete>>
limVars == <<limnow, limgen, limbucket, limpending, limgranted, limdenied, limlate>>
wsVars == <<wsconn, wsregistered, wsrevoked, wsgone, wsgreetless>>

vars == <<focus, accVars, teamVars, pairVars, onbVars, shrVars, limVars, wsVars>>

Init == /\ focus \in {"acc", "team", "pair", "onb", "shr", "lim", "ws"}
        /\ Accounts!Init
        /\ Team!Init
        /\ Pairing!Init
        /\ Onboarding!Init
        /\ Shared!Init
        /\ Limiter!Init
        /\ Capture!Init

\* only the component in focus moves
AccountsKeeps == UNCHANGED <<focus, teamVars, pairVars, onbVars, shrVars, limVars, wsVars>>
TeamKeeps == UNCHANGED <<focus, accVars, pairVars, onbVars, shrVars, limVars, wsVars>>
PairingKeeps == UNCHANGED <<focus, accVars, teamVars, onbVars, shrVars, limVars, wsVars>>
OnboardingKeeps == UNCHANGED <<focus, accVars, teamVars, pairVars, shrVars, limVars, wsVars>>
SharedKeeps == UNCHANGED <<focus, accVars, teamVars, pairVars, onbVars, limVars, wsVars>>
LimiterKeeps == UNCHANGED <<focus, accVars, teamVars, pairVars, onbVars, shrVars, wsVars>>
CaptureKeeps == UNCHANGED <<focus, accVars, teamVars, pairVars, onbVars, shrVars, limVars>>

Next == \/ focus = "acc" /\ Accounts!Next /\ AccountsKeeps
        \/ focus = "team" /\ Team!Next /\ TeamKeeps
        \/ focus = "pair" /\ Pairing!Next /\ PairingKeeps
        \/ focus = "onb" /\ Onboarding!Next /\ OnboardingKeeps
        \/ focus = "shr" /\ Shared!Next /\ SharedKeeps
        \/ focus = "lim" /\ Limiter!Next /\ LimiterKeeps
        \/ focus = "ws" /\ Capture!Next /\ CaptureKeeps

Spec == Init /\ [][Next]_vars

-------------------------------------------------------------------------------
\* Every component keeps to its types.
TypeOK == /\ Accounts!TypeOK
          /\ Pairing!TypeOK
          /\ Onboarding!TypeOK
          /\ Limiter!TypeOK
          /\ Capture!TypeOK

(* Accounts *)
\* A refused token stays refused unless overlapping requests lost an increment, a
\* deactivated account stays deactivated, accepted tokens belong to the current password,
\* and one request at a time never leaves the workspace without an administrator.
AccountsSafe == /\ Accounts!RevokedForGood /\ Accounts!DeactivatedForGood
                /\ []Accounts!PasswordBound /\ []Team!AdminRemains

(* Pairing codes *)
\* A code hands out more keys than it has uses only when redemptions overlapped, one that
\* reached the limit of failures is revoked, and a revoked code stays so.
PairingLimits == /\ []Pairing!UsesBounded /\ []Pairing!LimitLocks /\ Pairing!RevokedForGood

(* Onboarding with the in-process store *)
\* The setup page and the replicas that start create one administrator each, a one-time
\* token creates one account, and the guard opens only once an account exists.
OnboardingCreatedOnce == /\ Onboarding!OneSetup /\ Onboarding!OneSeed
                         /\ Onboarding!TokenOnce /\ Onboarding!GuardHonest

(* Rate limiters *)
\* No window exceeds its limit, and a refusal has a limit that was used up.
LimiterHonest == Limiter!WithinLimit /\ Limiter!RefusedForCause

(* Capture sockets *)
\* A revoked connection stores fewer than Interval messages more, ended connections leave
\* the registry, failed greetings apart, and a broadcast drops the sockets that were dead.
CaptureSafe == /\ []Capture!RevocationLag /\ []Capture!NoStaleEntry /\ Capture!BroadcastCleans


===============================================================================
