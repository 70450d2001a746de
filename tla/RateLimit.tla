----------------------------- MODULE RateLimit -----------------------------
(***************************************************************************)
(* The RateLimit middleware (middleware/ratelimit.go): a token bucket per  *)
(* key behind one mutex, with idle buckets evicted.                        *)
(*                                                                         *)
(* A request reads the clock before it takes the mutex, so the decisions   *)
(* may be taken in another order than the clock readings they use.  Time   *)
(* passes in ticks.  Tokens are counted in the ticks it takes to refill    *)
(* them: a whole token, 1 / Rate, is Cost.                                 *)
(***************************************************************************)
EXTENDS Integers

CONSTANTS
  Requests,        \* the goroutines that call the middleware
  Keys,            \* what KeyFunc may return
  Cost,            \* ticks it takes to refill one token: 1 / Rate
  BurstConfig,     \* RateLimitConfig.Burst
  TicksPerSecond,
  sweepInterval,   \* sweepInterval, in ticks
  MaxDelay,        \* bound: ticks a goroutine waits for the mutex
  MaxTime,         \* bound: ticks the clock runs
  None

ASSUME RateAssumption ==
  /\ Cost \in Nat \ {0} /\ TicksPerSecond \in Nat \ {0}
  /\ BurstConfig \in Int /\ sweepInterval \in Nat \ {0}
  /\ MaxDelay \in Nat /\ MaxTime \in Nat

ASSUME NoneAssumption ==
  None \notin [tokens : Int, last : Int] \cup [key : Keys, at : Int] \cup Int

VARIABLES
  now,         \* the monotonic clock
  buckets,     \* rateLimiter.buckets; None where the map has no entry
  lastSweep,   \* rateLimiter.lastSweep
  waiting,     \* the key and clock reading of a request at the mutex
  answer,      \* the last decision each goroutine got
  retryAfter,  \* the Retry-After header of that answer
  \* history, read only by the properties
  from,        \* when an observer began to count, None before
  since,       \* the tokens each key was granted since, in ticks
  promise      \* when a key that was only denied was told to come back

limiter == <<buckets, lastSweep, waiting, answer, retryAfter>>
vars == <<now, limiter, from, since, promise>>

Bucket == [tokens : Int, last : Int]
Reading == [key : Keys, at : Int]
Answer == [key : Keys, at : Int, ok : BOOLEAN]

Least(a, b) == IF a <= b THEN a ELSE b
Most(a, b) == IF a >= b THEN a ELSE b
CeilDiv(a, b) == (a + b - 1) \div b

\* A Burst below one means ceil(Rate), and one at least.
burst ==
  IF BurstConfig < 1 THEN Most(1, CeilDiv(TicksPerSecond, Cost)) ELSE BurstConfig

Capacity == burst * Cost

-----------------------------------------------------------------------------
\* Mutant of Sweep: buckets are evicted however recently they were used.
SweepAll(bs, t) == [k \in Keys |-> None]

\* rateLimiter.sweep
Sweep(bs, t) ==
  [k \in Keys |-> IF bs[k] # None /\ t - bs[k].last >= sweepInterval
                  THEN None ELSE bs[k]]

\* Mutant of Refill: a new bucket does not know when it was made.
RefillNoTime(b, t) ==
  IF b = None THEN [tokens |-> Capacity, last |-> None]
  ELSE [tokens |-> Least(Capacity, b.tokens + (t - b.last)), last |-> t]

\* Mutant of Refill: the time of the refill is not recorded.
RefillForgets(b, t) ==
  IF b = None THEN [tokens |-> Capacity, last |-> t]
  ELSE [b EXCEPT !.tokens = Least(Capacity, @ + (t - b.last))]

\* The bucket as allow finds it: a new one is full, another gains what the
\* elapsed time is worth, which is negative for a reading older than last.
Refill(b, t) ==
  IF b = None THEN [tokens |-> Capacity, last |-> t]
  ELSE [tokens |-> Least(Capacity, b.tokens + (t - b.last)), last |-> t]

\* Mutant of RetryAfter: rounded down.
RetryAfterFloor(b) == (Cost - b.tokens) \div TicksPerSecond

\* The Retry-After header, in whole seconds.
RetryAfter(b) == CeilDiv(Cost - b.tokens, TicksPerSecond)

\* The middleware calls time.Now(), then waits for the mutex.
Arrive(r, k) ==
  /\ waiting[r] = None
  /\ waiting' = [waiting EXCEPT ![r] = [key |-> k, at |-> now]]
  /\ UNCHANGED <<now, buckets, lastSweep, answer, retryAfter,
                 from, since, promise>>

\* rateLimiter.allow, under the mutex, and what the middleware makes of it.
Allow(r) ==
  LET k == waiting[r].key
      t == waiting[r].at
      sweeps == t - lastSweep >= sweepInterval
      kept == IF sweeps THEN Sweep(buckets, t) ELSE buckets
      b == Refill(kept[k], t)
      ok == b.tokens >= Cost
      back == t + RetryAfter(b) * TicksPerSecond
  IN  /\ waiting[r] # None
      /\ waiting' = [waiting EXCEPT ![r] = None]
      /\ lastSweep' = IF sweeps THEN t ELSE lastSweep
      /\ buckets' = [kept EXCEPT ![k] =
                       IF ok THEN [b EXCEPT !.tokens = @ - Cost] ELSE b]
      /\ answer' = [answer EXCEPT ![r] = [key |-> k, at |-> t, ok |-> ok]]
      /\ retryAfter' = [retryAfter EXCEPT ![r] =
                          IF ok THEN None ELSE RetryAfter(b)]
      /\ since' = IF ok /\ from # None
                  THEN [since EXCEPT ![k] = @ + Cost] ELSE since
      /\ promise' = [promise EXCEPT ![k] =
                       IF ok THEN None
                       ELSE IF @ = None THEN back ELSE Least(@, back)]
      /\ UNCHANGED <<now, from>>

\* Time passes, no further than the goroutines at the mutex allow.
Tick ==
  /\ now < MaxTime
  /\ \A r \in Requests :
       waiting[r] # None => now + 1 - waiting[r].at <= MaxDelay
  /\ now' = now + 1
  /\ UNCHANGED <<limiter, from, since, promise>>

\* An observer begins to count what is admitted.
Observe ==
  /\ from = None
  /\ from' = now
  /\ UNCHANGED <<now, limiter, since, promise>>

Init ==
  /\ now = 0
  /\ buckets = [k \in Keys |-> None]
  /\ lastSweep = 0
  /\ waiting = [r \in Requests |-> None]
  /\ answer = [r \in Requests |-> None]
  /\ retryAfter = [r \in Requests |-> None]
  /\ from = None
  /\ since = [k \in Keys |-> 0]
  /\ promise = [k \in Keys |-> None]

Next ==
  \/ Tick
  \/ Observe
  \/ \E r \in Requests :
       \/ \E k \in Keys : Arrive(r, k)
       \/ Allow(r)

Spec == Init /\ [][Next]_vars

-----------------------------------------------------------------------------
(* Properties.                                                             *)

\* Every variable holds a value of its type.
TypeOK ==
  /\ now \in Nat
  /\ buckets \in [Keys -> Bucket \cup {None}]
  /\ lastSweep \in Nat
  /\ waiting \in [Requests -> Reading \cup {None}]
  /\ answer \in [Requests -> Answer \cup {None}]
  /\ retryAfter \in [Requests -> Int \cup {None}]
  /\ from \in Nat \cup {None}
  /\ since \in [Keys -> Nat]
  /\ promise \in [Keys -> Int \cup {None}]

\* Over any stretch of time a key is granted no more than the burst plus what
\* the rate refills meanwhile, whatever the order in which goroutines get the
\* mutex and whatever is evicted (allow, sweep).
RateBound ==
  from # None =>
    \A k \in Keys : since[k] <= Capacity + (now - from) + MaxDelay

\* A client that was denied and comes back when Retry-After says is not
\* denied again, unless a token of its key has been taken meanwhile.
RetryAfterHonest ==
  [][\A r \in Requests :
       answer'[r] # answer[r] /\ ~answer'[r].ok =>
         LET k == answer'[r].key
         IN  promise[k] # None => answer'[r].at < promise[k]]_vars

\* Eviction is safe to do: a bucket idle for sweepInterval has filled up.
SweepIsLate == sweepInterval >= Capacity + 2 * MaxDelay

\* When the bucket b will be full, as far as clock readings that are still
\* possible at time n can tell.
DebtOf(b, n) ==
  IF b = None THEN n - MaxDelay
  ELSE Most(b.last + Capacity - b.tokens, n - MaxDelay)

Debt(k) == DebtOf(buckets[k], now)

Contract == INSTANCE RateContract WITH debt <- [k \in Keys |-> Debt(k)]

\* Every decision is the one of a bucket that is never evicted, although
\* buckets come and go and clock readings arrive out of order.
ImplementsContract == Contract!Spec
=============================================================================
