------------------------------ MODULE RoutingCache ------------------------------
(***************************************************************************)
(* The proxy's cache of the routing policy of one workspace and provider.  *)
(* Fetches are started by the refresh loop, by requests that find the entry *)
(* stale, and, awaited, by requests that find none.  The backend returns   *)
(* enabled policies only, and an entry is replaced, never removed.         *)
(***************************************************************************)
EXTENDS Naturals

CONSTANTS
  Fetches,    \* fetches under way at a time
  MaxVersion  \* bound: updates of the policy

VARIABLES
  policy,    \* the row of the backend: version and enabled
  cache,     \* 0 or the version in _cache
  stale,     \* the entry is older than ROUTING_CACHE_TTL_SECONDS
  fetch,     \* fetches: what the backend returned
  looping    \* the refresh loop waits for a fetch of its own

vars == <<policy, cache, stale, fetch, looping>>

Free == [pc |-> "free"]

Init == /\ policy \in [version : {1}, enabled : BOOLEAN]
        /\ cache = 0 /\ stale = FALSE /\ looping = FALSE
        /\ fetch = [f \in Fetches |-> Free]

\* upsert_routing_policy
Update == /\ policy.version < MaxVersion
          /\ policy' \in [version : {policy.version + 1}, enabled : BOOLEAN]
          /\ UNCHANGED <<cache, stale, fetch, looping>>

Begin(f, for) ==
  /\ fetch[f] = Free
  /\ fetch' = [fetch EXCEPT ![f] = [pc |-> "asked", for |-> for, version |-> 0]]

\* _refresh_loop: one refresh at a time
RefreshTick(f) == /\ ~looping /\ looping' = TRUE
                  /\ Begin(f, "loop")
                  /\ UNCHANGED <<policy, cache, stale>>

\* get_policy: no entry, the request fetches and waits
RequestMiss(f) == /\ cache = 0
                  /\ Begin(f, "request")
                  /\ UNCHANGED <<policy, cache, stale, looping>>

\* get_policy: every request that finds the entry stale starts a refresh and uses it
RequestStale(f) == /\ cache # 0 /\ stale
                   /\ Begin(f, "task")
                   /\ UNCHANGED <<policy, cache, stale, looping>>

\* get_routing_policies_internal
Serve(f) ==
  /\ fetch[f].pc = "asked"
  /\ fetch' = [fetch EXCEPT ![f] = [@ EXCEPT !.pc = "got",
                                  !.version = IF policy.enabled THEN policy.version ELSE 0]]
  /\ UNCHANGED <<policy, cache, stale, looping>>

Done(f) == /\ fetch' = [fetch EXCEPT ![f] = Free]
           /\ looping' = (looping /\ fetch[f].for # "loop")

\* mutant: an entry that is there is kept
StoreFirst(f) ==
  /\ fetch[f].pc = "got"
  /\ IF fetch[f].version = 0 \/ cache # 0 THEN UNCHANGED <<cache, stale>>
     ELSE cache' = fetch[f].version /\ stale' = FALSE
  /\ Done(f)
  /\ policy' = policy

\* refresh_all, get_policy: what was returned replaces the entry, nothing removes it
Store(f) ==
  /\ fetch[f].pc = "got"
  /\ IF fetch[f].version = 0 THEN UNCHANGED <<cache, stale>>
     ELSE cache' = fetch[f].version /\ stale' = FALSE
  /\ Done(f)
  /\ policy' = policy

\* the backend does not answer, or answers 404: no policies, the loop goes on
FetchFails(f) == /\ fetch[f].pc = "asked"
                 /\ Done(f)
                 /\ UNCHANGED <<policy, cache, stale>>

Expire == /\ cache # 0 /\ ~stale /\ stale' = TRUE
          /\ UNCHANGED <<policy, cache, fetch, looping>>

Next == \/ Update \/ Expire
        \/ \E f \in Fetches : \/ RefreshTick(f) \/ RequestMiss(f) \/ RequestStale(f)
                              \/ Serve(f) \/ Store(f) \/ FetchFails(f)

\* the loop runs for ever and the backend answers again and again
Refreshes == /\ WF_vars(\E f \in Fetches : RefreshTick(f))
             /\ \A f \in Fetches : SF_vars(Serve(f)) /\ WF_vars(Store(f))

Spec == Init /\ [][Next]_vars /\ Refreshes

-------------------------------------------------------------------------------
\* Type invariant.
TypeOK == /\ policy.version \in 1..MaxVersion /\ cache \in 0..policy.version
          /\ \A f \in Fetches : fetch[f].pc = "got" => fetch[f].version <= policy.version

\* A policy that stays enabled comes into force in the last version, however many
\* fetches fail or arrive out of order.
Converges == <>[](policy.enabled) => []<>(cache = policy.version)
===============================================================================
