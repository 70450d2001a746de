---------------------------- MODULE RateContract ----------------------------
(***************************************************************************)
(* What the RateLimit middleware promises, per key: a request is admitted  *)
(* exactly when a token bucket of the configured rate and burst that has   *)
(* lived for ever holds a token.  The bucket is a single number, debt[k],  *)
(* the time at which it will be full again; a token is worth Cost ticks.   *)
(* Nothing of eviction, of missing buckets or of fractional tokens shows.  *)
(***************************************************************************)
EXTENDS Integers

CONSTANTS
  Requests,   \* the goroutines that call the middleware
  Keys,       \* rate limiting keys (client addresses)
  Cost,       \* ticks it takes to refill one token
  Capacity,   \* ticks it takes to fill the bucket
  MaxDelay,   \* ticks between time.Now() and the decision, at most
  None

VARIABLES
  now,     \* the monotonic clock
  debt,    \* when the bucket of a key is full, never in the distant past
  answer   \* the last decision each goroutine got

contractVars == <<now, debt, answer>>

Later(s, t) == IF s >= t THEN s ELSE t

Init ==
  /\ now = 0
  /\ debt = [k \in Keys |-> -MaxDelay]
  /\ answer = [r \in Requests |-> None]

Tick ==
  /\ now' = now + 1
  /\ debt' = [k \in Keys |-> Later(debt[k], now' - MaxDelay)]
  /\ UNCHANGED answer

\* A request for k that read the clock at t is admitted iff the bucket then
\* holds at least one token.
Decide(r, k, t) ==
  LET start == Later(debt[k], t)
      ok == start + Cost <= t + Capacity
  IN  /\ debt' = IF ok THEN [debt EXCEPT ![k] = start + Cost] ELSE debt
      /\ answer' = [answer EXCEPT ![r] = [key |-> k, at |-> t, ok |-> ok]]
      /\ UNCHANGED now

Next ==
  \/ Tick
  \/ \E r \in Requests, k \in Keys, t \in now - MaxDelay .. now : Decide(r, k, t)

Spec == Init /\ [][Next]_contractVars
=============================================================================
