---------------------------- MODULE RateLimiter ----------------------------
(***************************************************************************)
(* The token-bucket RateLimiter of oxihttp-server/src/middleware.rs.  One  *)
(* check() is one critical section of its mutex, the reading of the clock  *)
(* included.  Tokens are counted in fractions of 1/Grain, which stands for *)
(* the f64 of the code; time is counted in ticks.                          *)
(***************************************************************************)
EXTENDS Integers, Sequences, FiniteSets

CONSTANTS
  Key,             \* client identifiers
  MaxTokens,       \* max_tokens: the burst
  Grain,           \* fractions of a token
  RefillRate,      \* refill_rate, in fractions of a token per tick
  IdleTimeout,     \* idle_timeout, in ticks
  MaxBuckets,      \* max_buckets, as given to with_limits
  SWEEP_INTERVAL,  \* checks between two sweeps
  MaxTime          \* bound: the last tick

ASSUME LimiterAssumption ==
  /\ IsFiniteSet(Key)
  /\ Grain \in Nat \ {0} /\ SWEEP_INTERVAL \in Nat \ {0}
  /\ {MaxTokens, RefillRate, IdleTimeout, MaxBuckets, MaxTime} \subseteq Nat

VARIABLES
  now,                 \* Instant::now()
  buckets,             \* RateLimiterInner::buckets
  checks_since_sweep,  \* RateLimiterInner::checks_since_sweep
  grants,              \* history: when each key was granted a token
  forgotten            \* history: how many of them came before the key's bucket was
                       \* last dropped although it was not full

limiterVars == <<now, buckets, checks_since_sweep, grants, forgotten>>

Capacity == MaxTokens * Grain
max_buckets == IF MaxBuckets < 1 THEN 1 ELSE MaxBuckets

Lesser(a, b) == IF a < b THEN a ELSE b

-----------------------------------------------------------------------------

\* Mutant: the sweep drops buckets idle for half the timeout.
Stale_TooSoon(b) == 2 * (now - b.last_refill) >= IdleTimeout

Stale(b) == now - b.last_refill >= IdleTimeout

SweepDue == checks_since_sweep + 1 >= SWEEP_INTERVAL

\* The buckets that survive the periodic sweep, when it is due.
Swept ==
  {k \in DOMAIN buckets : ~(SweepDue /\ Stale(buckets[k]))}

\* Mutant: one bucket too many.
Full_OffByOne(live) == Cardinality(live) > max_buckets

Full(live) == Cardinality(live) >= max_buckets

\* What may be evicted to make room for k: any one bucket, if none is k's.
Evicted(live, k) ==
  IF k \notin live /\ Full(live) THEN {{e} : e \in live} ELSE {{}}

\* Mutant: the refill is not capped.
Refilled_Uncapped(b) ==
  [tokens |-> b.tokens + (now - b.last_refill) * RefillRate, last_refill |-> now]

Refilled(b) ==
  [tokens |-> Lesser(b.tokens + (now - b.last_refill) * RefillRate, Capacity),
   last_refill |-> now]

\* or_insert: a key without a bucket gets a full one.
BucketOf(live, k) ==
  Refilled(IF k \in live THEN buckets[k]
                         ELSE [tokens |-> Capacity, last_refill |-> now])

\* What the sweep drops before it would have been full again: its key's next bucket
\* is a gift.
Gifted ==
  {x \in DOMAIN buckets \ Swept : Refilled(buckets[x]).tokens < Capacity}

\* check(k) returns ok: sweep, evict, insert, refill, take.
Check(k, ok) ==
  /\ checks_since_sweep' = IF SweepDue THEN 0 ELSE checks_since_sweep + 1
  /\ \E gone \in Evicted(Swept, k) :
       LET live == Swept \ gone
           mine == BucketOf(live, k)
       IN  /\ ok <=> mine.tokens >= Grain
           /\ buckets' = [x \in live \cup {k} |->
                IF x = k
                  THEN [mine EXCEPT !.tokens = IF ok THEN @ - Grain ELSE @]
                  ELSE buckets[x]]
           /\ grants' = [grants EXCEPT ![k] = IF ok THEN Append(@, now) ELSE @]
           /\ forgotten' = [x \in Key |-> IF x \in gone \cup Gifted THEN Len(grants[x])
                                                                 ELSE forgotten[x]]
  /\ UNCHANGED now

Tick ==
  /\ now < MaxTime
  /\ now' = now + 1
  /\ UNCHANGED <<buckets, checks_since_sweep, grants, forgotten>>

LimiterInit ==
  /\ now = 0
  /\ buckets = [k \in {} |-> [tokens |-> 0, last_refill |-> 0]]
  /\ checks_since_sweep = 0
  /\ grants = [k \in Key |-> <<>>]
  /\ forgotten = [k \in Key |-> 0]

LimiterNext == Tick \/ \E k \in Key, ok \in BOOLEAN : Check(k, ok)

LimiterSpec == LimiterInit /\ [][LimiterNext]_limiterVars

-----------------------------------------------------------------------------
(* Properties                                                               *)

Bucket == [tokens : 0..Capacity, last_refill : Nat]

\* Every variable keeps its type; a bucket never holds more than the burst.
LimiterTypeOK ==
  /\ now \in Nat
  /\ DOMAIN buckets \subseteq Key
  /\ \A k \in DOMAIN buckets :
       buckets[k] \in Bucket /\ buckets[k].last_refill <= now
  /\ checks_since_sweep \in 0..(SWEEP_INTERVAL - 1)
  /\ grants \in [Key -> Seq(Nat)]
  /\ \A k \in Key : forgotten[k] \in 0..Len(grants[k])

\* bucket_count() is bounded at all times by max_buckets.
BucketsBounded == Cardinality(DOMAIN buckets) <= max_buckets

\* The grants the limiter still answers for when it decides on a check of k.
Account(k) == SubSeq(grants[k], forgotten[k] + 1, Len(grants[k]))
Standing(k) == SubSeq(grants[k], forgotten'[k] + 1, Len(grants[k]))

\* The rate a sequence of grants may not exceed: over every interval that ends
\* with the last one, the burst and what was refilled meanwhile.
Conforms(log) ==
  LET n == Len(log)
  IN  \A i \in 1..n :
        (n - i + 1) * Grain <= Capacity + (log[n] - log[i]) * RefillRate

\* A bucket idle for idle_timeout would be full again, so that dropping it is no
\* gift.  with_limits() does not ask for it.
SweepIsNeutral == Capacity <= IdleTimeout * RefillRate

\* Nothing was granted to x in the last idle_timeout.
Dormant(x) == \A i \in DOMAIN grants[x] : now - grants[x][i] >= IdleTimeout

\* The limiter is exact: a check is granted if, and only if, the grants of that
\* key alone stay within the rate, whatever other keys do and whichever buckets the
\* sweep drops.  Two things start a key's account afresh, and no other: an eviction,
\* which takes as many keys as there may be buckets, and, where the idle timeout is
\* too short for a bucket to fill, a sweep after a time without grants that long.
CheckIsExact ==
  [][\A k \in Key, ok \in BOOLEAN : Check(k, ok) =>
       /\ ok <=> Conforms(Append(Standing(k), now))
       /\ \A x \in Key : forgotten'[x] # forgotten[x] =>
            \/ x # k /\ Cardinality(DOMAIN buckets') >= max_buckets
            \/ ~SweepIsNeutral /\ Dormant(x)]_limiterVars
=============================================================================
