-------------------------- MODULE RateLimitProofs --------------------------
(***************************************************************************)
(* Proofs about RateLimit, for every set of goroutines and keys and every  *)
(* rate, burst and delay.  Where eviction matters the theorems assume      *)
(* SweepIsLate: a bucket is then full before cleanup may delete it.        *)
(***************************************************************************)
EXTENDS RateLimit, TLAPS

-----------------------------------------------------------------------------
(* Arithmetic.                                                             *)

\* The quotient that rounds up is an integer.
LEMMA CeilDivInt ==
  ASSUME NEW a \in Int, NEW b \in Nat \ {0}
  PROVE  CeilDiv(a, b) \in Int
BY DEF CeilDiv

\* A product with a factor of at least one is at least the other factor.
LEMMA ProductGrows ==
  ASSUME NEW a \in Nat \ {0}, NEW b \in Nat \ {0}
  PROVE  a * b \in Nat /\ a * b >= b
<1>1. PICK c \in Nat : a = c + 1
  <2> a - 1 \in Nat
    OBVIOUS
  <2> QED
    OBVIOUS
<1>2. a * b = c * b + b
  BY <1>1
<1>3. c * b \in Nat
  OBVIOUS
<1> QED
  BY <1>2, <1>3

\* RateLimitWithConfig never makes a bucket that cannot hold one token.
LEMMA CapacityHoldsToken == Capacity \in Nat /\ Cost \in Nat \ {0} /\ Capacity >= Cost
<1>1. Cost \in Nat \ {0} /\ BurstConfig \in Int /\ TicksPerSecond \in Int
  BY RateAssumption
<1>2. CeilDiv(TicksPerSecond, Cost) \in Int
  BY <1>1, CeilDivInt
<1>3. burst \in Nat \ {0}
  BY <1>1, <1>2 DEF burst, Most
<1> QED
  BY <1>1, <1>3, ProductGrows DEF Capacity

-----------------------------------------------------------------------------
(* One bucket.                                                             *)

\* allow refills a bucket to what its debt leaves of the capacity.
LEMMA RefillPaysDebt ==
  ASSUME NEW b \in Bucket \cup {None}, NEW t \in Nat, NEW n \in Nat,
         t <= n, n - t <= MaxDelay
  PROVE  /\ Refill(b, t) \in Bucket
         /\ Refill(b, t).last = t
         /\ DebtOf(b, n) \in Int
         /\ DebtOf(b, n) >= n - MaxDelay
         /\ Refill(b, t).tokens = Capacity - (Most(DebtOf(b, n), t) - t)
<1>1. MaxDelay \in Nat /\ Capacity \in Nat
  BY RateAssumption, CapacityHoldsToken
<1>2. CASE b = None
  BY <1>1, <1>2 DEF Refill, DebtOf, Most, Bucket
<1>3. CASE b # None
  <2>1. b \in Bucket /\ b.tokens \in Int /\ b.last \in Int
    BY <1>3 DEF Bucket
  <2>2. Refill(b, t) = [tokens |-> Least(Capacity, b.tokens + (t - b.last)),
                        last |-> t]
    BY <1>3 DEF Refill
  <2>3. DebtOf(b, n) = Most(b.last + Capacity - b.tokens, n - MaxDelay)
    BY <1>3 DEF DebtOf
  <2> QED
    BY <1>1, <2>1, <2>2, <2>3 DEF Most, Least, Bucket
<1> QED
  BY <1>2, <1>3

\* The bucket that allow stores after it has decided.
Stored(b) == IF b.tokens >= Cost THEN [b EXCEPT !.tokens = @ - Cost] ELSE b

\* Admitting a request adds one token to the debt, denying one leaves it, and
\* it is admitted iff there is room for the token.
LEMMA DecisionOnDebt ==
  ASSUME NEW b \in Bucket \cup {None}, NEW t \in Nat, NEW n \in Nat,
         t <= n, n - t <= MaxDelay
  PROVE  LET c == Refill(b, t)
             start == Most(DebtOf(b, n), t)
         IN  /\ Stored(c) \in Bucket
             /\ Stored(c).last = t
             /\ c.tokens \in Int
             /\ c.tokens >= Cost <=> start + Cost <= t + Capacity
             /\ DebtOf(Stored(c), n) = IF c.tokens >= Cost THEN start + Cost
                                       ELSE DebtOf(b, n)
<1> DEFINE c == Refill(b, t)
           start == Most(DebtOf(b, n), t)
<1>1. /\ MaxDelay \in Nat /\ Capacity \in Nat /\ Cost \in Nat \ {0}
      /\ Capacity >= Cost
  BY RateAssumption, CapacityHoldsToken
<1>2. /\ c \in Bucket /\ c.last = t /\ DebtOf(b, n) \in Int
      /\ DebtOf(b, n) >= n - MaxDelay
      /\ c.tokens = Capacity - (start - t)
  BY RefillPaysDebt
<1>3. c.tokens \in Int /\ c # None
  BY <1>2, NoneAssumption DEF Bucket
<1>4. start \in Int /\ start >= t /\ start >= DebtOf(b, n)
      /\ (start = t \/ start = DebtOf(b, n))
  BY <1>2 DEF Most
<1>5. c.tokens >= Cost <=> start + Cost <= t + Capacity
  BY <1>1, <1>2, <1>4
<1>6. CASE c.tokens >= Cost
  <2>1. Stored(c) = [tokens |-> c.tokens - Cost, last |-> t]
    BY <1>2, <1>6 DEF Stored, Bucket
  <2>2. Stored(c) \in Bucket /\ Stored(c).last = t /\ Stored(c) # None
        /\ Stored(c).tokens = c.tokens - Cost
    BY <2>1, <1>1, <1>3, NoneAssumption DEF Bucket
  <2>3. DebtOf(Stored(c), n) = Most(t + Capacity - (c.tokens - Cost),
                                    n - MaxDelay)
    BY <2>2 DEF DebtOf
  <2>4. DebtOf(Stored(c), n) = start + Cost
    BY <2>3, <1>1, <1>2, <1>4 DEF Most
  <2> QED
    BY <1>3, <1>5, <1>6, <2>2, <2>4
<1>7. CASE ~(c.tokens >= Cost)
  <2>1. Stored(c) = c
    BY <1>7 DEF Stored
  <2>2. start = DebtOf(b, n)
    BY <1>1, <1>2, <1>3, <1>4, <1>7
  <2>3. DebtOf(c, n) = Most(t + Capacity - c.tokens, n - MaxDelay)
    BY <1>2, <1>3 DEF DebtOf
  <2>4. DebtOf(c, n) = start
    BY <2>3, <1>1, <1>2, <1>4 DEF Most
  <2> QED
    BY <1>2, <1>3, <1>5, <1>7, <2>1, <2>2, <2>4
<1> QED
  BY <1>6, <1>7
-----------------------------------------------------------------------------
(* The inductive invariant.                                                *)

\* A request at the mutex read the clock, not too long ago.
ReadingsRecent ==
  \A r \in Requests : waiting[r] # None =>
    /\ waiting[r].at \in Nat
    /\ waiting[r].at <= now
    /\ now - waiting[r].at <= MaxDelay

\* No bucket is further in debt than its capacity, and a clock reading from
\* the past takes away no more than MaxDelay.
BucketsBounded ==
  \A k \in Keys : buckets[k] # None =>
    /\ buckets[k].last - buckets[k].tokens <= now
    /\ -buckets[k].tokens <= MaxDelay

IInv == TypeOK /\ ReadingsRecent /\ BucketsBounded

\* The facts about a request r at the mutex that the proofs need.
LEMMA AtMutex ==
  ASSUME IInv, NEW r \in Requests, waiting[r] # None
  PROVE  /\ waiting[r].key \in Keys
         /\ waiting[r].at \in Nat
         /\ waiting[r].at <= now
         /\ now - waiting[r].at <= MaxDelay
         /\ now \in Nat
  BY DEF IInv, TypeOK, ReadingsRecent, Reading

\* The buckets as allow finds them once it has swept, if it does.
Kept(t) == IF t - lastSweep >= sweepInterval THEN Sweep(buckets, t) ELSE buckets

\* A sweep removes buckets and changes none.
LEMMA KeptBuckets ==
  ASSUME IInv, NEW t \in Nat
  PROVE  /\ Kept(t) \in [Keys -> Bucket \cup {None}]
         /\ \A k \in Keys : \/ Kept(t)[k] = buckets[k]
                            \/ /\ Kept(t)[k] = None
                               /\ buckets[k] # None
                               /\ t - buckets[k].last >= sweepInterval
<1>1. buckets \in [Keys -> Bucket \cup {None}]
  BY DEF IInv, TypeOK
<1>2. CASE t - lastSweep >= sweepInterval
  <2>1. Kept(t) = [k \in Keys |->
                     IF buckets[k] # None /\ t - buckets[k].last >= sweepInterval
                     THEN None ELSE buckets[k]]
    BY <1>2 DEF Kept, Sweep
  <2> QED
    BY <1>1, <2>1
<1>3. CASE ~(t - lastSweep >= sweepInterval)
  BY <1>1, <1>3 DEF Kept
<1> QED
  BY <1>2, <1>3

\* What Allow does to the state, said with Kept and Stored.
LEMMA AllowStep ==
  ASSUME IInv, NEW r \in Requests, Allow(r)
  PROVE  LET k == waiting[r].key
             t == waiting[r].at
             b == Refill(Kept(t)[k], t)
         IN  /\ waiting[r] # None
             /\ waiting' = [waiting EXCEPT ![r] = None]
             /\ buckets' = [Kept(t) EXCEPT ![k] = Stored(b)]
             /\ answer' = [answer EXCEPT ![r] =
                             [key |-> k, at |-> t, ok |-> b.tokens >= Cost]]
             /\ since' = IF b.tokens >= Cost /\ from # None
                         THEN [since EXCEPT ![k] = @ + Cost] ELSE since
             /\ UNCHANGED <<now, from>>
  BY DEF Allow, Kept, Stored

\* Every step keeps the types (allow and its callers).
LEMMA TypeStep == IInv /\ [Next]_vars => TypeOK'
<1> SUFFICES ASSUME IInv, [Next]_vars
             PROVE  TypeOK'
  OBVIOUS
<1> USE DEF IInv, TypeOK
<1>1. CASE Tick
  BY <1>1 DEF Tick, limiter
<1>2. CASE Observe
  BY <1>2 DEF Observe, limiter
<1>3. ASSUME NEW r \in Requests, NEW k \in Keys, Arrive(r, k)
      PROVE  TypeOK'
  <2>1. [key |-> k, at |-> now] \in Reading
    BY DEF Reading
  <2> QED
    BY <1>3, <2>1 DEF Arrive
<1>4. ASSUME NEW r \in Requests, Allow(r)
      PROVE  TypeOK'
  <2> DEFINE k == waiting[r].key
             t == waiting[r].at
             b == Refill(Kept(t)[k], t)
             back == t + RetryAfter(b) * TicksPerSecond
  <2>1. waiting[r] # None
    BY <1>4 DEF Allow
  <2>2. /\ k \in Keys /\ t \in Nat /\ t <= now /\ now - t <= MaxDelay
        /\ now \in Nat
    BY <2>1, AtMutex
  <2>3. Kept(t) \in [Keys -> Bucket \cup {None}]
    BY <2>2, KeptBuckets
  <2>4. Stored(b) \in Bucket /\ b.tokens \in Int
    BY <2>2, <2>3, DecisionOnDebt
  <2>5. RetryAfter(b) \in Int /\ back \in Int
    <3>1. Cost - b.tokens \in Int /\ TicksPerSecond \in Nat \ {0}
      BY <2>4, RateAssumption
    <3>2. RetryAfter(b) \in Int
      BY <3>1, CeilDivInt DEF RetryAfter
    <3> QED
      BY <2>2, <3>1, <3>2
  <2>6. buckets' \in [Keys -> Bucket \cup {None}]
    BY <1>4, <2>2, <2>3, <2>4, AllowStep
  <2>7. lastSweep' \in Nat
    BY <1>4, <2>2 DEF Allow
  <2>8. waiting' \in [Requests -> Reading \cup {None}]
    BY <1>4 DEF Allow
  <2>9. answer' \in [Requests -> Answer \cup {None}]
    <3>1. [key |-> k, at |-> t, ok |-> b.tokens >= Cost] \in Answer
      BY <2>2 DEF Answer
    <3> QED
      BY <1>4, <3>1, AllowStep
  <2>10. retryAfter' \in [Requests -> Int \cup {None}]
    <3>1. \/ retryAfter' = [retryAfter EXCEPT ![r] = None]
          \/ retryAfter' = [retryAfter EXCEPT ![r] = RetryAfter(b)]
      BY <1>4 DEF Allow, Kept
    <3> QED
      BY <2>5, <3>1
  <2>11. since' \in [Keys -> Nat]
    <3>1. since' = since \/ since' = [since EXCEPT ![k] = @ + Cost]
      BY <1>4, AllowStep
    <3> QED
      BY <2>2, <3>1, RateAssumption
  <2>12. promise' \in [Keys -> Int \cup {None}]
    <3>1. \/ promise' = [promise EXCEPT ![k] = None]
          \/ promise' = [promise EXCEPT ![k] =
                           IF @ = None THEN back ELSE Least(@, back)]
      BY <1>4 DEF Allow, Kept
    <3> QED
      BY <2>2, <2>5, <3>1 DEF Least
  <2> QED
    BY <1>4, <2>6, <2>7, <2>8, <2>9, <2>10, <2>11, <2>12, AllowStep
<1>5. CASE UNCHANGED vars
  BY <1>5 DEF vars, limiter
<1> QED
  BY <1>1, <1>2, <1>3, <1>4, <1>5 DEF Next
\* What BucketsBounded says of one bucket.
Bounded(b, n) == b # None => b.last - b.tokens <= n /\ -b.tokens <= MaxDelay

\* A bounded bucket has a bounded debt, and is bounded after a decision.
LEMMA DecisionBounded ==
  ASSUME NEW b \in Bucket \cup {None}, NEW t \in Nat, NEW n \in Nat,
         t <= n, n - t <= MaxDelay, Bounded(b, n)
  PROVE  /\ DebtOf(b, n) \in Int
         /\ DebtOf(b, n) <= n + Capacity
         /\ Bounded(Stored(Refill(b, t)), n)
<1> DEFINE c == Refill(b, t)
           start == Most(DebtOf(b, n), t)
<1>1. /\ MaxDelay \in Nat /\ Capacity \in Nat /\ Cost \in Nat \ {0}
      /\ Capacity >= Cost
  BY RateAssumption, CapacityHoldsToken
<1>2. /\ c \in Bucket /\ c.last = t /\ DebtOf(b, n) \in Int
      /\ c.tokens = Capacity - (start - t)
  BY RefillPaysDebt
<1>3. DebtOf(b, n) <= n + Capacity
  <2>1. CASE b = None
    BY <1>1, <2>1 DEF DebtOf
  <2>2. CASE b # None
    <3>1. b.last \in Int /\ b.tokens \in Int
      BY <2>2 DEF Bucket
    <3> QED
      BY <1>1, <2>2, <3>1 DEF DebtOf, Most, Bounded
  <2> QED
    BY <2>1, <2>2
<1>4. start \in Int /\ start >= t /\ start <= n + Capacity
  BY <1>1, <1>2, <1>3 DEF Most
<1>5. CASE c.tokens >= Cost
  <2>1. Stored(c) = [tokens |-> c.tokens - Cost, last |-> t]
    BY <1>2, <1>5 DEF Stored, Bucket
  <2> QED
    BY <1>1, <1>2, <1>3, <1>4, <1>5, <2>1 DEF Bounded
<1>6. CASE ~(c.tokens >= Cost)
  <2>1. Stored(c) = c
    BY <1>6 DEF Stored
  <2> QED
    BY <1>1, <1>2, <1>3, <1>4, <2>1 DEF Bounded
<1> QED
  BY <1>5, <1>6

\* The clock readings at the mutex stay recent.
LEMMA ReadingsStep == IInv /\ [Next]_vars => ReadingsRecent'
<1> SUFFICES ASSUME IInv, [Next]_vars
             PROVE  ReadingsRecent'
  OBVIOUS
<1> USE RateAssumption DEF ReadingsRecent
<1>0. /\ now \in Nat /\ waiting \in [Requests -> Reading \cup {None}]
      /\ ReadingsRecent
  BY DEF IInv, TypeOK
<1>1. CASE Tick
  BY <1>0, <1>1 DEF Tick, limiter
<1>2. CASE Observe
  BY <1>0, <1>2 DEF Observe, limiter
<1>3. ASSUME NEW r \in Requests, NEW k \in Keys, Arrive(r, k)
      PROVE  ReadingsRecent'
  BY <1>0, <1>3 DEF Arrive
<1>4. ASSUME NEW r \in Requests, Allow(r)
      PROVE  ReadingsRecent'
  <2>1. waiting' = [waiting EXCEPT ![r] = None] /\ now' = now
    BY <1>4, AllowStep
  <2> QED
    BY <1>0, <2>1
<1>5. CASE UNCHANGED vars
  BY <1>0, <1>5 DEF vars, limiter
<1> QED
  BY <1>1, <1>2, <1>3, <1>4, <1>5 DEF Next

\* Buckets stay bounded, in a decision by DecisionBounded.
LEMMA BucketsStep == IInv /\ [Next]_vars => BucketsBounded'
<1> SUFFICES ASSUME IInv, [Next]_vars
             PROVE  BucketsBounded'
  OBVIOUS
<1> USE RateAssumption
<1>0. /\ now \in Nat /\ buckets \in [Keys -> Bucket \cup {None}]
      /\ BucketsBounded
  BY DEF IInv, TypeOK
<1>1. CASE Tick
  BY <1>0, <1>1 DEF Tick, limiter, BucketsBounded, Bucket
<1>2. CASE Observe
  BY <1>0, <1>2 DEF Observe, limiter, BucketsBounded
<1>3. ASSUME NEW r \in Requests, NEW k \in Keys, Arrive(r, k)
      PROVE  BucketsBounded'
  BY <1>0, <1>3 DEF Arrive, BucketsBounded
<1>4. ASSUME NEW r \in Requests, Allow(r)
      PROVE  BucketsBounded'
  <2> DEFINE k == waiting[r].key
             t == waiting[r].at
             b == Refill(Kept(t)[k], t)
  <2>1. /\ waiting[r] # None /\ now' = now
        /\ buckets' = [Kept(t) EXCEPT ![k] = Stored(b)]
    BY <1>4, AllowStep
  <2>2. /\ k \in Keys /\ t \in Nat /\ t <= now /\ now - t <= MaxDelay
    BY <2>1, AtMutex
  <2>3. /\ Kept(t) \in [Keys -> Bucket \cup {None}]
        /\ \A j \in Keys : Kept(t)[j] = buckets[j] \/ Kept(t)[j] = None
    BY <2>2, KeptBuckets
  <2>4. \A j \in Keys : Bounded(Kept(t)[j], now)
    BY <1>0, <2>3 DEF Bounded, BucketsBounded
  <2>5. Bounded(Stored(b), now)
    BY <1>0, <2>2, <2>3, <2>4, DecisionBounded
  <2>6. \A j \in Keys : Bounded(buckets'[j], now)
    BY <2>1, <2>2, <2>3, <2>4, <2>5
  <2> QED
    BY <2>1, <2>6 DEF Bounded, BucketsBounded
<1>5. CASE UNCHANGED vars
  BY <1>0, <1>5 DEF vars, limiter, BucketsBounded
<1> QED
  BY <1>1, <1>2, <1>3, <1>4, <1>5 DEF Next

\* The inductive invariant holds from the start.
LEMMA InitIInv == Init => IInv
  BY RateAssumption DEF Init, IInv, TypeOK, ReadingsRecent, BucketsBounded

\* The inductive invariant holds in every reachable state.
LEMMA Invariance == Spec => []IInv
<1>1. IInv /\ [Next]_vars => IInv'
  BY TypeStep, ReadingsStep, BucketsStep DEF IInv
<1> QED
  BY InitIInv, <1>1, PTL DEF Spec

\* The types hold in every reachable state (RateLimitWithConfig and allow).
THEOREM TypeCorrect == Spec => []TypeOK
<1>1. IInv => TypeOK
  BY DEF IInv
<1> QED
  BY Invariance, <1>1, PTL

-----------------------------------------------------------------------------
(* Eviction does not show.                                                 *)

\* A sweep leaves every debt as it was when buckets fill up within
\* sweepInterval.
LEMMA SweepKeepsDebts ==
  ASSUME IInv, SweepIsLate, NEW t \in Nat, t <= now, NEW k \in Keys
  PROVE  DebtOf(Kept(t)[k], now) = Debt(k)
<1>1. /\ now \in Nat /\ MaxDelay \in Nat /\ Capacity \in Nat
      /\ sweepInterval \in Nat
      /\ buckets \in [Keys -> Bucket \cup {None}]
  BY RateAssumption, CapacityHoldsToken DEF IInv, TypeOK
<1>2. CASE Kept(t)[k] = buckets[k]
  BY <1>2 DEF Debt
<1>3. CASE Kept(t)[k] # buckets[k]
  <2>1. /\ Kept(t)[k] = None /\ buckets[k] # None
        /\ t - buckets[k].last >= sweepInterval
    BY <1>3, KeptBuckets
  <2>2. buckets[k].last \in Int /\ buckets[k].tokens \in Int
    BY <1>1, <2>1 DEF Bucket
  <2>3. -buckets[k].tokens <= MaxDelay
    BY <2>1 DEF IInv, BucketsBounded
  <2>4. buckets[k].last + Capacity - buckets[k].tokens <= now - MaxDelay
    BY <1>1, <2>1, <2>2, <2>3 DEF SweepIsLate
  <2> QED
    BY <1>1, <2>1, <2>2, <2>4 DEF Debt, DebtOf, Most
<1> QED
  BY <1>2, <1>3

\* A decision, in terms of the debts.
LEMMA AllowOnDebts ==
  ASSUME IInv, SweepIsLate, NEW r \in Requests, Allow(r)
  PROVE  LET k == waiting[r].key
             t == waiting[r].at
             start == Most(Debt(k), t)
             ok == start + Cost <= t + Capacity
         IN  /\ k \in Keys /\ t \in Nat /\ t <= now /\ now - t <= MaxDelay
             /\ Debt(k) \in Int
             /\ DebtOf(buckets'[k], now) = IF ok THEN start + Cost ELSE Debt(k)
             /\ \A j \in Keys \ {k} : DebtOf(buckets'[j], now) = Debt(j)
             /\ answer' = [answer EXCEPT ![r] =
                             [key |-> k, at |-> t, ok |-> ok]]
             /\ since' = IF ok /\ from # None
                         THEN [since EXCEPT ![k] = @ + Cost] ELSE since
             /\ UNCHANGED <<now, from>>
<1> DEFINE k == waiting[r].key
           t == waiting[r].at
           b == Refill(Kept(t)[k], t)
           start == Most(Debt(k), t)
           ok == start + Cost <= t + Capacity
<1>1. /\ waiting[r] # None
      /\ buckets' = [Kept(t) EXCEPT ![k] = Stored(b)]
      /\ answer' = [answer EXCEPT ![r] =
                      [key |-> k, at |-> t, ok |-> b.tokens >= Cost]]
      /\ since' = IF b.tokens >= Cost /\ from # None
                  THEN [since EXCEPT ![k] = @ + Cost] ELSE since
      /\ UNCHANGED <<now, from>>
  BY AllowStep
<1>2. /\ k \in Keys /\ t \in Nat /\ t <= now /\ now - t <= MaxDelay
      /\ now \in Nat
  BY <1>1, AtMutex
<1>3. Kept(t) \in [Keys -> Bucket \cup {None}]
  BY <1>2, KeptBuckets
<1>4. \A j \in Keys : DebtOf(Kept(t)[j], now) = Debt(j)
  BY <1>2, SweepKeepsDebts
<1>5. /\ b.tokens >= Cost <=> ok
      /\ DebtOf(Stored(b), now) = IF b.tokens >= Cost THEN start + Cost
                                  ELSE Debt(k)
  <2>1. Kept(t)[k] \in Bucket \cup {None} /\ DebtOf(Kept(t)[k], now) = Debt(k)
    BY <1>2, <1>3, <1>4
  <2> HIDE DEF k, t
  <2> QED
    BY <1>2, <2>1, DecisionOnDebt
<1>6. Debt(k) \in Int
  <2>1. Kept(t)[k] \in Bucket \cup {None} /\ DebtOf(Kept(t)[k], now) = Debt(k)
    BY <1>2, <1>3, <1>4
  <2> HIDE DEF k, t
  <2> QED
    BY <1>2, <2>1, RefillPaysDebt
<1>7. buckets'[k] = Stored(b) /\ \A j \in Keys \ {k} : buckets'[j] = Kept(t)[j]
  BY <1>1, <1>2, <1>3
<1>8. DebtOf(buckets'[k], now) = IF ok THEN start + Cost ELSE Debt(k)
  BY <1>1, <1>5, <1>7 DEF Debt
<1>9. \A j \in Keys \ {k} : DebtOf(buckets'[j], now) = Debt(j)
  BY <1>1, <1>4, <1>7 DEF Debt
<1>10. (b.tokens >= Cost) = ok
  BY <1>5
<1> HIDE DEF b, ok, start
<1>11. /\ answer' = [answer EXCEPT ![r] = [key |-> k, at |-> t, ok |-> ok]]
       /\ since' = IF ok /\ from # None
                   THEN [since EXCEPT ![k] = @ + Cost] ELSE since
  BY <1>1, <1>10
<1> QED
  BY <1>1, <1>2, <1>6, <1>8, <1>9, <1>11 DEF ok, start
\* As long as buckets fill up within sweepInterval, the limiter decides every
\* request as the contract does: evicting buckets and using clock readings
\* out of order does not show.
THEOREM LimiterImplementsContract ==
  ASSUME SweepIsLate
  PROVE  Spec => ImplementsContract
<1> USE DEF Contract!contractVars
<1>1. Init => Contract!Init
  <2> SUFFICES ASSUME Init PROVE Contract!Init
    OBVIOUS
  <2>1. \A k \in Keys : Debt(k) = -MaxDelay
    BY RateAssumption DEF Init, Debt, DebtOf
  <2> QED
    BY <2>1 DEF Init, Contract!Init
<1>2. IInv /\ [Next]_vars => [Contract!Next]_(Contract!contractVars)
  <2> SUFFICES ASSUME IInv, [Next]_vars
               PROVE  [Contract!Next]_(Contract!contractVars)
    OBVIOUS
  <2>0. /\ now \in Nat /\ MaxDelay \in Nat /\ Capacity \in Nat
        /\ buckets \in [Keys -> Bucket \cup {None}]
    BY RateAssumption, CapacityHoldsToken DEF IInv, TypeOK
  <2>1. CASE Tick
    <3>1. now' = now + 1 /\ buckets' = buckets /\ answer' = answer
      BY <2>1 DEF Tick, limiter
    <3>2. ASSUME NEW k \in Keys
          PROVE  DebtOf(buckets[k], now + 1)
                   = Contract!Later(DebtOf(buckets[k], now), now + 1 - MaxDelay)
      <4>1. CASE buckets[k] = None
        BY <2>0, <4>1 DEF DebtOf, Contract!Later
      <4>2. CASE buckets[k] # None
        <5>1. buckets[k].last \in Int /\ buckets[k].tokens \in Int
          BY <2>0, <4>2 DEF Bucket
        <5> QED
          BY <2>0, <4>2, <5>1 DEF DebtOf, Most, Contract!Later
      <4> QED
        BY <4>1, <4>2
    <3>3. [j \in Keys |-> Debt(j)]' = [j \in Keys |-> DebtOf(buckets[j], now + 1)]
      BY <3>1 DEF Debt
    <3>4. [j \in Keys |-> DebtOf(buckets[j], now + 1)]
            = [j \in Keys |-> Contract!Later([i \in Keys |-> Debt(i)][j],
                                            now' - MaxDelay)]
      <4>1. ASSUME NEW j \in Keys
            PROVE  DebtOf(buckets[j], now + 1)
                     = Contract!Later([i \in Keys |-> Debt(i)][j], now' - MaxDelay)
        <5>1. [i \in Keys |-> Debt(i)][j] = DebtOf(buckets[j], now)
          BY <4>1 DEF Debt
        <5>2. now' - MaxDelay = now + 1 - MaxDelay
          BY <2>0, <3>1
        <5> QED
          BY <3>2, <4>1, <5>1, <5>2 DEF Contract!Later
      <4> QED
        BY <4>1, Zenon
    <3>5. Contract!Tick
      BY <3>1, <3>3, <3>4 DEF Contract!Tick
    <3> QED
      BY <3>5 DEF Contract!Next
  <2>2. CASE Observe
    BY <2>2 DEF Observe, limiter, Debt
  <2>3. ASSUME NEW r \in Requests, NEW k \in Keys, Arrive(r, k)
        PROVE  [Contract!Next]_(Contract!contractVars)
    BY <2>3 DEF Arrive, Debt
  <2>4. ASSUME NEW r \in Requests, Allow(r)
        PROVE  [Contract!Next]_(Contract!contractVars)
    <3> DEFINE k == waiting[r].key
               t == waiting[r].at
               start == Most(Debt(k), t)
               ok == start + Cost <= t + Capacity
    <3>1. /\ k \in Keys /\ t \in Nat /\ t <= now /\ now - t <= MaxDelay
          /\ Debt(k) \in Int
          /\ DebtOf(buckets'[k], now) = IF ok THEN start + Cost ELSE Debt(k)
          /\ \A j \in Keys \ {k} : DebtOf(buckets'[j], now) = Debt(j)
          /\ answer' = [answer EXCEPT ![r] = [key |-> k, at |-> t, ok |-> ok]]
          /\ now' = now
      BY <2>4, AllowOnDebts
    <3>2. t \in now - MaxDelay .. now
      BY <2>0, <3>1
    <3>3. start = Contract!Later(Debt(k), t)
      BY DEF Most, Contract!Later
    <3>4. [j \in Keys |-> DebtOf(buckets'[j], now)]
            = IF ok THEN [[j \in Keys |-> Debt(j)] EXCEPT ![k] = start + Cost]
              ELSE [j \in Keys |-> Debt(j)]
      BY <3>1
    <3> HIDE DEF k, t, start, ok
    <3>5. [j \in Keys |-> Debt(j)]' = [j \in Keys |-> DebtOf(buckets'[j], now)]
      BY <3>1 DEF Debt
    <3>6. [j \in Keys |-> Debt(j)][k] = Debt(k)
      BY <3>1
    <3>7. Contract!Decide(r, k, t)
      BY <3>1, <3>3, <3>4, <3>5, <3>6 DEF Contract!Decide, ok
    <3> QED
      BY <3>1, <3>2, <3>7 DEF Contract!Next
  <2>5. CASE UNCHANGED vars
    BY <2>5 DEF vars, limiter, Debt
  <2> QED
    BY <2>1, <2>2, <2>3, <2>4, <2>5 DEF Next
<1> QED
  BY <1>1, <1>2, Invariance, PTL DEF Spec, ImplementsContract, Contract!Spec

-----------------------------------------------------------------------------
(* The rate.                                                               *)

\* What a key was granted since the observer began is part of its debt.
GrantsAreDebts ==
  /\ from = None => \A k \in Keys : since[k] = 0
  /\ from # None => /\ from <= now
                    /\ \A k \in Keys : since[k] <= Debt(k) - from + MaxDelay

\* Over any stretch of time a key is granted at most the burst and what the
\* rate refills meanwhile, if buckets fill up within sweepInterval.
THEOREM RateIsBounded ==
  ASSUME SweepIsLate
  PROVE  Spec => []RateBound
<1>1. Init => GrantsAreDebts
  BY DEF Init, GrantsAreDebts
<1>2. IInv /\ GrantsAreDebts /\ [Next]_vars => GrantsAreDebts'
  <2> SUFFICES ASSUME IInv, GrantsAreDebts, [Next]_vars
               PROVE  GrantsAreDebts'
    OBVIOUS
  <2>0. /\ now \in Nat /\ MaxDelay \in Nat /\ Capacity \in Nat
        /\ Cost \in Nat /\ from \in Nat \cup {None}
        /\ buckets \in [Keys -> Bucket \cup {None}]
        /\ since \in [Keys -> Nat] /\ None \notin Nat
    BY RateAssumption, NoneAssumption, CapacityHoldsToken DEF IInv, TypeOK
  <2>1. ASSUME NEW k \in Keys, NEW n \in Nat, n = now \/ n = now + 1
        PROVE  /\ DebtOf(buckets[k], n) \in Int /\ Debt(k) \in Int
               /\ DebtOf(buckets[k], n) >= Debt(k)
               /\ DebtOf(buckets[k], n) >= n - MaxDelay
    <3>1. CASE buckets[k] = None
      BY <2>0, <2>1, <3>1 DEF Debt, DebtOf
    <3>2. CASE buckets[k] # None
      <4>1. buckets[k].last \in Int /\ buckets[k].tokens \in Int
        BY <2>0, <3>2 DEF Bucket
      <4> QED
        BY <2>0, <2>1, <3>2, <4>1 DEF Debt, DebtOf, Most
    <3> QED
      BY <3>1, <3>2
  <2>2. CASE Tick
    <3>1. /\ now' = now + 1 /\ buckets' = buckets /\ from' = from
          /\ since' = since
      BY <2>2 DEF Tick, limiter
    <3>2. \A k \in Keys : Debt(k)' = DebtOf(buckets[k], now + 1)
      BY <3>1 DEF Debt
    <3>3. \A k \in Keys : Debt(k) \in Int /\ Debt(k)' \in Int /\ Debt(k)' >= Debt(k)
      BY <2>0, <2>1, <3>2
    <3> QED
      BY <2>0, <3>1, <3>3 DEF GrantsAreDebts
  <2>3. CASE Observe
    <3>1. /\ from = None /\ from' = now /\ now' = now /\ since' = since
          /\ buckets' = buckets
      BY <2>3 DEF Observe, limiter
    <3>2. \A k \in Keys : Debt(k)' = Debt(k) /\ Debt(k) \in Int
                          /\ Debt(k) >= now - MaxDelay
      BY <2>0, <2>1, <3>1 DEF Debt
    <3> QED
      BY <2>0, <3>1, <3>2 DEF GrantsAreDebts
  <2>4. ASSUME NEW r \in Requests, NEW k \in Keys, Arrive(r, k)
        PROVE  GrantsAreDebts'
    BY <2>4 DEF Arrive, Debt, GrantsAreDebts
  <2>5. ASSUME NEW r \in Requests, Allow(r)
        PROVE  GrantsAreDebts'
    <3> DEFINE k == waiting[r].key
               t == waiting[r].at
               start == Most(Debt(k), t)
               ok == start + Cost <= t + Capacity
    <3>1. /\ k \in Keys /\ t \in Nat /\ Debt(k) \in Int
          /\ DebtOf(buckets'[k], now) = IF ok THEN start + Cost ELSE Debt(k)
          /\ \A j \in Keys \ {k} : DebtOf(buckets'[j], now) = Debt(j)
          /\ since' = IF ok /\ from # None
                      THEN [since EXCEPT ![k] = @ + Cost] ELSE since
          /\ now' = now /\ from' = from
      BY <2>5, AllowOnDebts
    <3>2. start \in Int /\ start >= Debt(k)
      BY <3>1 DEF Most
    <3>3. \A j \in Keys : Debt(j)' = DebtOf(buckets'[j], now)
      BY <3>1 DEF Debt
    <3>4. CASE from = None
      BY <3>1, <3>4, <2>0 DEF GrantsAreDebts
    <3>5. CASE from # None
      <4>1. ASSUME NEW j \in Keys
            PROVE  since'[j] <= Debt(j)' - from + MaxDelay
        <5>1. since[j] <= Debt(j) - from + MaxDelay
          BY <3>5 DEF GrantsAreDebts
        <5>2. CASE j # k
          BY <2>0, <3>1, <3>3, <5>1, <5>2
        <5>3. CASE j = k /\ ok
          <6>1. since'[j] = since[j] + Cost /\ Debt(j)' = start + Cost
            BY <2>0, <3>1, <3>3, <3>5, <5>3
          <6> HIDE DEF k, t, start, ok
          <6> QED
            BY <2>0, <3>1, <3>2, <3>5, <5>1, <5>3, <6>1
        <5>4. CASE j = k /\ ~ok
          <6>1. since'[j] = since[j] /\ Debt(j)' = Debt(j)
            BY <2>0, <3>1, <3>3, <5>4
          <6> QED
            BY <5>1, <6>1
        <5> QED
          BY <5>2, <5>3, <5>4
      <4> QED
        BY <3>1, <3>5, <4>1 DEF GrantsAreDebts
    <3> QED
      BY <3>4, <3>5
  <2>6. CASE UNCHANGED vars
    BY <2>6 DEF vars, limiter, Debt, GrantsAreDebts
  <2> QED
    BY <2>2, <2>3, <2>4, <2>5, <2>6 DEF Next
<1>3. IInv /\ GrantsAreDebts => RateBound
  <2> SUFFICES ASSUME IInv, GrantsAreDebts, from # None, NEW k \in Keys
               PROVE  since[k] <= Capacity + (now - from) + MaxDelay
    BY DEF RateBound
  <2>1. /\ now \in Nat /\ from \in Nat /\ since[k] \in Nat
        /\ MaxDelay \in Nat /\ Capacity \in Nat
        /\ buckets[k] \in Bucket \cup {None}
    BY RateAssumption, CapacityHoldsToken DEF IInv, TypeOK
  <2>2. Bounded(buckets[k], now)
    BY DEF IInv, BucketsBounded, Bounded
  <2>3. Debt(k) \in Int /\ Debt(k) <= now + Capacity
    <3>1. now <= now /\ now - now <= MaxDelay
      BY <2>1
    <3>2. /\ DebtOf(buckets[k], now) \in Int
          /\ DebtOf(buckets[k], now) <= now + Capacity
      BY <2>1, <2>2, <3>1, DecisionBounded
    <3> QED
      BY <3>2 DEF Debt
  <2>4. since[k] <= Debt(k) - from + MaxDelay
    BY DEF GrantsAreDebts
  <2> QED
    BY <2>1, <2>3, <2>4
<1> QED
  BY <1>1, <1>2, <1>3, Invariance, PTL DEF Spec

-----------------------------------------------------------------------------
(* Retry-After.                                                            *)

\* The quotient that rounds up is never too small.
LEMMA CeilDivCovers ==
  ASSUME NEW a \in Int, NEW b \in Nat \ {0}
  PROVE  CeilDiv(a, b) * b \in Int /\ CeilDiv(a, b) * b >= a
<1> DEFINE x == a + b - 1
           q == x \div b
<1>1. x \in Int /\ q \in Int
  OBVIOUS
<1>2. q * b \in Int /\ x % b \in 0 .. b - 1 /\ x = b * q + (x % b)
  OBVIOUS
<1>3. b * q = q * b
  BY <1>1
<1> HIDE DEF q
<1>4. q * b >= a
  BY <1>2, <1>3
<1> QED
  BY <1>2, <1>4 DEF CeilDiv, q

\* When b has gained enough for the next token.
NextToken(b) == b.last + Cost - b.tokens

\* Nobody was told to come back before there is a token.
PromisesKept ==
  \A k \in Keys : promise[k] # None /\ buckets[k] # None =>
    promise[k] >= NextToken(buckets[k])

\* A bucket that denies a request had no token at that time, and it is no
\* later that it will have one.
LEMMA DeniedTooEarly ==
  ASSUME NEW b \in Bucket \cup {None}, NEW t \in Int,
         ~(Refill(b, t).tokens >= Cost)
  PROVE  /\ b # None /\ Refill(b, t) \in Bucket
         /\ NextToken(b) \in Int /\ t < NextToken(b)
         /\ NextToken(Refill(b, t)) = NextToken(b)
         /\ RetryAfter(Refill(b, t)) * TicksPerSecond \in Int
         /\ t + RetryAfter(Refill(b, t)) * TicksPerSecond >= NextToken(b)
<1>1. Capacity \in Nat /\ Cost \in Nat /\ Capacity >= Cost
  BY CapacityHoldsToken
<1>2. b # None
  BY <1>1 DEF Refill
<1>3. b.tokens \in Int /\ b.last \in Int
  BY <1>2 DEF Bucket
<1> DEFINE c == Refill(b, t)
<1>4. /\ c = [tokens |-> b.tokens + (t - b.last), last |-> t]
      /\ b.tokens + (t - b.last) < Cost
  BY <1>1, <1>2, <1>3 DEF Refill, Least
<1> HIDE DEF c
<1>5. c \in Bucket /\ c.last = t /\ c.tokens = b.tokens + (t - b.last)
  BY <1>3, <1>4 DEF Bucket
<1>6. NextToken(c) = NextToken(b) /\ NextToken(b) \in Int /\ t < NextToken(b)
  BY <1>1, <1>3, <1>4, <1>5 DEF NextToken
<1>7. /\ RetryAfter(c) * TicksPerSecond \in Int
      /\ RetryAfter(c) * TicksPerSecond >= Cost - c.tokens
  <2>1. Cost - c.tokens \in Int
    BY <1>1, <1>3, <1>5
  <2> QED
    BY <2>1, RateAssumption, CeilDivCovers DEF RetryAfter
<1>8. t + RetryAfter(c) * TicksPerSecond >= t + (Cost - c.tokens)
  BY <1>1, <1>3, <1>5, <1>7
<1>9. t + (Cost - c.tokens) = NextToken(c)
  BY <1>1, <1>3, <1>5 DEF NextToken
<1> QED
  BY <1>2, <1>5, <1>6, <1>7, <1>8, <1>9 DEF c

\* The decision on a request that waits at the mutex.
LEMMA AllowPromises ==
  ASSUME IInv, PromisesKept, NEW r \in Requests, Allow(r)
  PROVE  /\ PromisesKept'
         /\ ~answer'[r].ok =>
              LET k == answer'[r].key
              IN  promise[k] # None => answer'[r].at < promise[k]
         /\ \A q \in Requests : q # r => answer'[q] = answer[q]
<1> DEFINE k == waiting[r].key
           t == waiting[r].at
           b == Refill(Kept(t)[k], t)
           ok == b.tokens >= Cost
           back == t + RetryAfter(b) * TicksPerSecond
<1>1. /\ waiting[r] # None
      /\ buckets' = [Kept(t) EXCEPT ![k] = Stored(b)]
      /\ answer' = [answer EXCEPT ![r] = [key |-> k, at |-> t, ok |-> ok]]
  BY AllowStep
<1>2. promise' = [promise EXCEPT ![k] =
                    IF ok THEN None
                    ELSE IF promise[k] = None THEN back ELSE Least(promise[k], back)]
  BY DEF Allow, Kept
<1>3. k \in Keys /\ t \in Nat
  BY <1>1, AtMutex
<1>4. /\ Kept(t) \in [Keys -> Bucket \cup {None}]
      /\ \A j \in Keys : Kept(t)[j] = buckets[j] \/ Kept(t)[j] = None
  BY <1>3, KeptBuckets
<1>5. /\ answer \in [Requests -> Answer \cup {None}]
      /\ promise \in [Keys -> Int \cup {None}] /\ None \notin Int
  BY NoneAssumption DEF IInv, TypeOK
<1>6. ~ok => /\ Kept(t)[k] = buckets[k] /\ buckets[k] # None /\ b \in Bucket
             /\ NextToken(buckets[k]) \in Int /\ t < NextToken(buckets[k])
             /\ NextToken(b) = NextToken(buckets[k])
             /\ back \in Int /\ back >= NextToken(buckets[k])
  <2> SUFFICES ASSUME ~ok
               PROVE  /\ Kept(t)[k] = buckets[k] /\ buckets[k] # None /\ b \in Bucket
                      /\ NextToken(buckets[k]) \in Int /\ t < NextToken(buckets[k])
                      /\ NextToken(b) = NextToken(buckets[k])
                      /\ back \in Int /\ back >= NextToken(buckets[k])
    OBVIOUS
  <2> DEFINE a == Kept(t)[k]
  <2>1. a \in Bucket \cup {None} /\ t \in Int
    BY <1>3, <1>4
  <2> HIDE DEF a
  <2>2. ~(Refill(a, t).tokens >= Cost)
    BY DEF a
  <2>3. /\ a # None /\ Refill(a, t) \in Bucket
        /\ NextToken(a) \in Int /\ t < NextToken(a)
        /\ NextToken(Refill(a, t)) = NextToken(a)
        /\ RetryAfter(Refill(a, t)) * TicksPerSecond \in Int
        /\ t + RetryAfter(Refill(a, t)) * TicksPerSecond >= NextToken(a)
    BY <2>1, <2>2, DeniedTooEarly
  <2>4. a = buckets[k]
    BY <1>3, <1>4, <2>3 DEF a
  <2> USE DEF a
  <2> QED
    BY <2>1, <2>3, <2>4
<1> HIDE DEF k, t, b, ok, back
<1>7. PromisesKept'
  <2> SUFFICES ASSUME NEW j \in Keys, promise'[j] # None, buckets'[j] # None
               PROVE  promise'[j] >= NextToken(buckets'[j])
    BY DEF PromisesKept, NextToken
  <2>1. CASE j # k
    <3>1. promise'[j] = promise[j] /\ buckets'[j] = Kept(t)[j]
      BY <1>1, <1>2, <1>3, <1>4, <1>5, <2>1
    <3>2. buckets'[j] = buckets[j]
      BY <1>4, <3>1
    <3> QED
      BY <3>1, <3>2 DEF PromisesKept
  <2>2. CASE j = k
    <3>1. /\ promise'[k] = IF ok THEN None
                           ELSE IF promise[k] = None THEN back
                           ELSE Least(promise[k], back)
          /\ buckets'[k] = Stored(b)
      BY <1>1, <1>2, <1>3, <1>4, <1>5
    <3>2. ~ok
      BY <2>2, <3>1
    <3>3. Stored(b) = b
      BY <3>2 DEF Stored, ok
    <3>4. promise[k] # None => promise[k] \in Int /\ promise[k] >= NextToken(buckets[k])
      BY <1>3, <1>5, <1>6, <3>2 DEF PromisesKept
    <3>5. promise'[k] >= NextToken(buckets[k])
      BY <1>6, <3>1, <3>2, <3>4 DEF Least
    <3> QED
      BY <1>6, <2>2, <3>1, <3>2, <3>3, <3>5
  <2> QED
    BY <2>1, <2>2
<1>8. /\ answer'[r] = [key |-> k, at |-> t, ok |-> ok]
      /\ \A q \in Requests : q # r => answer'[q] = answer[q]
  BY <1>1, <1>5
<1>9. ASSUME ~ok, promise[k] # None PROVE t < promise[k]
  <2>1. promise[k] \in Int /\ promise[k] >= NextToken(buckets[k])
    BY <1>3, <1>5, <1>6, <1>9 DEF PromisesKept
  <2> QED
    BY <1>3, <1>6, <1>9, <2>1
<1> QED
  BY <1>7, <1>8, <1>9

\* A client that was denied and comes back at the time Retry-After gave is not
\* denied again unless a token of its key was taken meanwhile: for any rate and
\* burst, any order at the mutex, and whatever cleanup deletes (allow, sweep,
\* Retry-After of RateLimitWithConfig).
THEOREM RetryAfterIsHonest == Spec => RetryAfterHonest
<1> DEFINE Honest == \A r \in Requests :
             answer'[r] # answer[r] /\ ~answer'[r].ok =>
               LET k == answer'[r].key
               IN  promise[k] # None => answer'[r].at < promise[k]
<1>1. Init => PromisesKept
  BY DEF Init, PromisesKept
<1>2. IInv /\ PromisesKept /\ [Next]_vars => PromisesKept' /\ [Honest]_vars
  <2> SUFFICES ASSUME IInv, PromisesKept, [Next]_vars
               PROVE  PromisesKept' /\ Honest
    OBVIOUS
  <2>1. ASSUME UNCHANGED <<promise, buckets, answer>>
        PROVE  PromisesKept' /\ Honest
    BY <2>1 DEF PromisesKept, NextToken
  <2>2. ASSUME NEW r \in Requests, Allow(r)
        PROVE  PromisesKept' /\ Honest
    BY <2>2, AllowPromises
  <2> HIDE DEF Honest
  <2>3. CASE Tick
    BY <2>1, <2>3 DEF Tick, limiter
  <2>4. CASE Observe
    BY <2>1, <2>4 DEF Observe, limiter
  <2>5. ASSUME NEW r \in Requests, NEW k \in Keys, Arrive(r, k)
        PROVE  PromisesKept' /\ Honest
    BY <2>1, <2>5 DEF Arrive
  <2>6. CASE UNCHANGED vars
    BY <2>1, <2>6 DEF vars, limiter
  <2> QED
    BY <2>2, <2>3, <2>4, <2>5, <2>6 DEF Next
<1> QED
  BY <1>1, <1>2, Invariance, PTL DEF Spec, RetryAfterHonest
=============================================================================
