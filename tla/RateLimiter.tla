---------------------------- MODULE RateLimiter ----------------------------
(***************************************************************************)
(* The sliding-window limiter (rate_limit.py): one window of request times *)
(* per key, evicted on each check and swept by a cleanup task.  Time is    *)
(* counted in fractions of a second, TicksPerSecond of them; a request is  *)
(* kept as its age.  check() holds its lock without awaiting, so it is one *)
(* step.                                                                   *)
(***************************************************************************)
EXTENDS Naturals, Sequences, FiniteSets

CONSTANTS
  Key,             \* identities: a valid API key or a client address
  MaxRequests,     \* max_requests
  WindowSeconds,   \* window_seconds
  TicksPerSecond   \* bound: resolution of the clock

ASSUME RateAssumption ==
  {MaxRequests, WindowSeconds, TicksPerSecond} \subseteq Nat \ {0}

VARIABLES
  limiter,      \* "on", or "off" (RATE_LIMIT_ENABLED)
  windows,      \* ages of the requests under each key, oldest first
  sweepAge,     \* age of the last cleanup
  granted,      \* read by properties only: ages of the requests let through
  retryIn       \* and what is left of the Retry-After a key was told last

rateVars == <<limiter, windows, sweepAge, granted, retryIn>>

WindowTicks == WindowSeconds * TicksPerSecond

RateInit(on) ==
  /\ limiter = IF on THEN "on" ELSE "off"
  /\ windows = [k \in Key |-> <<>>]
  /\ granted = [k \in Key |-> <<>>]
  /\ sweepAge = 0
  /\ retryIn = [k \in Key |-> 0]

\* The eviction pops from the left while the oldest request has expired.
Expired(ages) ==
  CHOOSE n \in 0..Len(ages) :
    /\ \A i \in 1..n : ages[i] >= WindowTicks
    /\ n < Len(ages) => ages[n + 1] < WindowTicks
Live(ages) == SubSeq(ages, Expired(ages) + 1, Len(ages))

\* broken: rounded down
RetryAfterFloor(age) == (WindowTicks - age) \div TicksPerSecond
\* int(window - age of the oldest) + 1, in seconds.
RetryAfter(age) == (WindowTicks - age) \div TicksPerSecond + 1

Check(k) ==
  /\ limiter = "on"
  /\ LET live == Live(windows[k]) IN
       IF Len(live) >= MaxRequests
       THEN /\ windows' = [windows EXCEPT ![k] = live]
            /\ retryIn' = [retryIn EXCEPT ![k] = RetryAfter(live[1]) * TicksPerSecond]
            /\ UNCHANGED granted
       ELSE /\ windows' = [windows EXCEPT ![k] = Append(live, 0)]
            /\ granted' = [granted EXCEPT ![k] = Append(@, 0)]
            /\ retryIn' = [retryIn EXCEPT ![k] = 0]
  /\ UNCHANGED <<limiter, sweepAge>>

Stale(ages) == ages = <<>> \/ ages[Len(ages)] >= WindowTicks

\* _run_cleanup: the windows whose newest request has expired are deleted.
RunCleanup ==
  /\ limiter = "on"
  /\ sweepAge >= WindowTicks
  /\ windows' = [k \in Key |-> IF Stale(windows[k]) THEN <<>> ELSE windows[k]]
  /\ sweepAge' = 0
  /\ UNCHANGED <<limiter, granted, retryIn>>

Older(ages) == [i \in DOMAIN ages |-> IF ages[i] < WindowTicks THEN ages[i] + 1 ELSE ages[i]]

RateTick ==
  /\ limiter = "on"
  /\ windows' = [k \in Key |-> Older(windows[k])]
  /\ granted' = [k \in Key |-> Live(Older(granted[k]))]
  /\ sweepAge' = IF sweepAge < WindowTicks THEN sweepAge + 1 ELSE sweepAge
  /\ retryIn' = [k \in Key |-> IF retryIn[k] > 0 THEN retryIn[k] - 1 ELSE 0]
  /\ UNCHANGED limiter

RateNext == RateTick \/ RunCleanup \/ \E k \in Key : Check(k)
RateSpec == RateInit(TRUE) /\ [][RateNext]_rateVars

-----------------------------------------------------------------------------
\* RateLimiter.check: no key gets more than max_requests through in any stretch
\* of one window, however its checks fall against the eviction of old requests
\* and the cleanup task.
RateHeld == \A k \in Key : Len(granted[k]) <= MaxRequests

\* The Retry-After a refused client is told is long enough: when it has passed
\* and the client kept quiet, fewer than max_requests are left in its window.
RetryAfterHonest ==
  \A k \in Key :
    retryIn[k] > 0 =>
      Cardinality({i \in DOMAIN windows[k] : windows[k][i] + retryIn[k] < WindowTicks})
        < MaxRequests

\* The limiter is fair to both sides: it lets no client exceed the rate, and it
\* refuses none that did what it was told.
LimiterFair == RateHeld /\ RetryAfterHonest
=============================================================================
