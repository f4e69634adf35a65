-------------------------------- MODULE RateLimit --------------------------------
(***************************************************************************)
(* The sliding-window rate limiters of the backend: requests of several    *)
(* keys ("http:ip", "auth:ip", "ws-message:...") share one limiter, in     *)
(* Redis or in the process; when Redis fails the middleware replaces the   *)
(* limiter of the process by a new in-memory one, for good.                *)
(***************************************************************************)
EXTENDS Integers, Sequences, FiniteSets, Filters

CONSTANTS
  Keys,
  Limit,       \* requests per window
  Window,      \* window of each key, in ticks (60 s for all by default)
  MaxTracked,  \* keys beyond which the in-memory limiter compacts
  Remote,      \* REDIS_URL is set and Redis answered at the start
  MaxTime,     \* bound: ticks
  MaxGen       \* bound: limiters that replace one another

VARIABLES
  now,
  gen,      \* limiter of the process: 0 is Redis, each replacement a new one
  bucket,   \* timestamps kept by Redis and by the current in-memory limiter
  pending,  \* requests that await the Redis script
  granted,  \* times of the requests let through, by key and limiter
  denied,   \* the last request refused
  late      \* a script ran after the clock its caller had read

vars == <<now, gen, bucket, pending, granted, denied, late>>

-------------------------------------------------------------------------------
\* mutant: an event is dropped when it still counts
PruneEarly(times, window) == Kept(times, now - window + 2..now)

\* _prune: drop what left the window
Prune(times, window) == Kept(times, now - window + 1..now)

NoEvents == [k \in Keys |-> <<>>]

Tracked(b) == {k \in Keys : b[k] # <<>>}

\* _compact_if_necessary: every bucket is pruned by the window of the caller
Compact(b, window) == IF Cardinality(Tracked(b)) <= MaxTracked THEN b
                      ELSE [k \in Keys |-> Prune(b[k], window)]

Init == /\ now = 0
        /\ gen = IF Remote THEN 0 ELSE 1
        /\ bucket = [redis |-> NoEvents, memory |-> NoEvents]
        /\ pending = {}
        /\ granted = [k \in Keys |-> [g \in 0..MaxGen |-> <<>>]]
        /\ denied = [at |-> -1] /\ late = FALSE

Tick == /\ now < MaxTime
        /\ now' = now + 1
        /\ UNCHANGED <<gen, bucket, pending, granted, denied, late>>

\* InMemoryRateLimiter.check
Decide(k, b, g) ==
  LET kept == Prune(b[k], Window[k]) IN
  IF Len(kept) >= Limit[k]
  THEN [bucket |-> [b EXCEPT ![k] = kept], granted |-> granted,
        denied |-> [key |-> k, at |-> now, by |-> g]]
  ELSE [bucket |-> Compact([b EXCEPT ![k] = Append(kept, now)], Window[k]),
        granted |-> [granted EXCEPT ![k][g] = Append(@, now)],
        denied |-> denied]

\* the Lua script of Redis: the same decision at the time "at" that the caller had
\* read, with no compaction
Script(k, b, at) ==
  LET kept == Kept(b[k], at - Window[k] + 1..now) IN
  IF Len(kept) >= Limit[k]
  THEN [bucket |-> [b EXCEPT ![k] = kept], granted |-> granted,
        denied |-> [key |-> k, at |-> now, by |-> 0]]
  ELSE [bucket |-> [b EXCEPT ![k] = Append(kept, at)],
        granted |-> [granted EXCEPT ![k][0] = Append(@, now)],
        denied |-> denied]

Apply(d, side) == /\ bucket' = [bucket EXCEPT ![side] = d.bucket]
                  /\ granted' = d.granted /\ denied' = d.denied

\* a request of the key with the in-memory limiter: no suspension
CheckMemory(k) ==
  /\ gen > 0
  /\ Apply(Decide(k, bucket.memory, gen), "memory")
  /\ UNCHANGED <<now, gen, pending, late>>

\* mutant: the caller rounds the time it read up
CheckRedisCeil(k) ==
  /\ gen = 0 /\ \A p \in pending : p.key # k
  /\ pending' = pending \cup {[key |-> k, at |-> now + 1]}
  /\ UNCHANGED <<now, gen, bucket, granted, denied, late>>

\* a request that took the Redis limiter, read the clock and awaits the script
CheckRedis(k) ==
  /\ gen = 0 /\ \A p \in pending : p.key # k
  /\ pending' = pending \cup {[key |-> k, at |-> now]}
  /\ UNCHANGED <<now, gen, bucket, granted, denied, late>>

RedisAnswers(p) ==
  /\ p \in pending
  /\ pending' = pending \ {p}
  /\ Apply(Script(p.key, bucket.redis, p.at), "redis")
  /\ late' = (late \/ p.at < now)
  /\ UNCHANGED <<now, gen>>

\* the call raises: this request installs a new limiter, whatever is installed now,
\* and is decided by it
RedisFails(p) ==
  /\ p \in pending /\ gen < MaxGen
  /\ pending' = pending \ {p}
  /\ gen' = gen + 1
  /\ Apply(Decide(p.key, NoEvents, gen + 1), "memory")
  /\ UNCHANGED <<now, late>>

Next == \/ Tick
        \/ \E k \in Keys : CheckMemory(k) \/ CheckRedis(k)
        \/ \E p \in pending : RedisAnswers(p) \/ RedisFails(p)

Spec == Init /\ [][Next]_vars

-------------------------------------------------------------------------------
\* number of requests of the key that limiter g let through in the window that ends at t
Through(k, g, t) ==
  Cardinality({i \in DOMAIN granted[k][g] : granted[k][g][i] \in t - Window[k] + 1..t})

\* Type invariant of the limiter.
TypeOK == /\ now \in 0..MaxTime /\ gen \in 0..MaxGen /\ late \in BOOLEAN
          /\ \A p \in pending : p.key \in Keys /\ p.at \in 0..now
          /\ bucket \in [{"redis", "memory"} -> [Keys -> Seq(0..MaxTime)]]
          /\ granted \in [Keys -> [0..MaxGen -> Seq(0..MaxTime)]]
          /\ denied.at >= 0 => denied.key \in Keys

\* the scripts ran on time, or no caller that compacts has a shorter window than the key
Covered(k, g) == IF g = 0 THEN ~late ELSE \A j \in Keys : Window[k] <= Window[j]

\* In every window no limiter lets more than the limit of a key through, compaction
\* by callers of other keys included, unless their window is shorter (all are 60 s by
\* default); a fail-over starts the count anew, and Redis counts by the clocks of its
\* callers, so a script that ran late is not covered.
WithinLimit == \A k \in Keys, g \in 0..MaxGen, t \in 0..MaxTime :
                 Covered(k, g) => Through(k, g, t) <= Limit[k]

\* A request is refused only when the limit was really used up in its window: refused
\* requests do not prolong the refusal (same exception).
RefusedForCause ==
  (denied.at >= 0 /\ (denied.by = 0 => ~late)) => Through(denied.key, denied.by, denied.at) >= Limit[denied.key]
===============================================================================
