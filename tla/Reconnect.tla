----------------------------- MODULE Reconnect -----------------------------
(***************************************************************************)
(* The reconnect loop shared by the chain-sync client and the mempool      *)
(* monitor (ingestion/resilience.py: circuit breaker, exponential backoff, *)
(* run_with_reconnect) under its supervisor (main.py: _supervised).  Time  *)
(* passes in ticks while the loop awaits; a moment of the code is kept as  *)
(* its age, up to the largest age any comparison tells apart.              *)
(***************************************************************************)
EXTENDS Naturals, Sequences, FiniteSets, SeqFilter

CONSTANTS
  Base, MaxDelay,        \* ExponentialBackoff: base_delay, max_delay
  Jitter,                \* its jitter_factor, in percent
  Threshold, Window, Cooldown,   \* CircuitBreaker
  Poll,                  \* OGMIOS_CIRCUIT_OPEN_POLL_SECONDS
  StableReset,           \* OGMIOS_SESSION_STABLE_RESET_SECONDS
  SupBase, SupMax, SupStable,    \* SUPERVISOR_*_SECONDS
  MaxAttempt,            \* bound: the attempt counter saturates here
  MaxStreak              \* bound: failures in a window

ASSUME ReconnectAssumption ==
  /\ {Base, MaxDelay, Threshold, Poll, StableReset, SupBase, SupMax, MaxAttempt} \subseteq Nat \ {0}
  /\ {Jitter, Window, Cooldown, SupStable, MaxStreak} \subseteq Nat

VARIABLES
  rpc,         \* "start", "gate", "poll", "connect", "session", "backoff",
               \* "close", "crashed", "stopped"
  timer,       \* what is left of the sleep
  breaker,     \* CircuitBreaker.state
  failures,    \* ages of CircuitBreaker._failures
  openedAge,   \* age of _opened_at
  attempt,     \* ExponentialBackoff.attempt
  sessionAge,  \* age of session_start
  supDelay, runAge,   \* _supervised: delay, age of started
  restAge, streak     \* read by properties only: time since the last attempt
                      \* ended; ages of the quick failures since a stable session

reconnectVars == <<rpc, timer, breaker, failures, openedAge, attempt, sessionAge,
                   supDelay, runAge, restAge, streak>>

AtMost(x, n) == IF x < n THEN x ELSE n
MaxRest == CHOOSE n \in {Base, MaxDelay, Cooldown} : \A k \in {Base, MaxDelay, Cooldown} : k <= n

ReconnectInit(on) ==
  /\ rpc = (IF on THEN "start" ELSE "stopped") /\ timer = 0
  /\ breaker = "CLOSED" /\ failures = <<>> /\ openedAge = 0
  /\ attempt = 0 /\ sessionAge = 0
  /\ supDelay = SupBase /\ runAge = 0
  /\ restAge = MaxRest /\ streak = <<>>

-----------------------------------------------------------------------------
(* ExponentialBackoff                                                      *)

\* The smallest exponent at which the delay reaches its ceiling.
ExponentCeiling ==
  IF MaxDelay <= Base THEN 0
  ELSE CHOOSE e \in 0..MaxDelay :
         /\ Base * 2^e >= MaxDelay
         /\ \A d \in 0..(e - 1) : Base * 2^d < MaxDelay

Delay(n) == AtMost(Base * 2^AtMost(n, ExponentCeiling), MaxDelay)

-----------------------------------------------------------------------------
(* CircuitBreaker                                                          *)

\* broken: an open breaker lets an attempt through as soon as it is polled
CanAttemptAtPoll == TRUE
\* broken: only a closed breaker lets an attempt through
CanAttemptClosed == breaker = "CLOSED"
\* can_attempt; an open breaker becomes half open when the cooldown is over.
CanAttempt == breaker = "OPEN" => openedAge >= Cooldown

InWindow(ages) == Keep(ages, 0..Window)

RecordFailure ==
  LET kept == InWindow(Append(failures, 0)) IN
  /\ failures' = kept
  /\ IF breaker = "HALF_OPEN" \/ Len(kept) >= Threshold
     THEN breaker' = "OPEN" /\ openedAge' = 0
     ELSE UNCHANGED <<breaker, openedAge>>

\* _reset_if_stable: the time is counted from before the connect.
SelfHeals == sessionAge >= StableReset

-----------------------------------------------------------------------------
(* run_with_reconnect                                                      *)

Gate ==
  /\ rpc \in {"start", "gate"}
  /\ IF CanAttempt
     THEN /\ breaker' = IF breaker = "OPEN" THEN "HALF_OPEN" ELSE breaker
          /\ rpc' = "connect" /\ sessionAge' = 0
          /\ UNCHANGED timer
     ELSE /\ rpc' = "poll" /\ timer' = Poll
          /\ UNCHANGED <<breaker, sessionAge>>
  /\ runAge' = IF rpc = "start" THEN 0 ELSE runAge
  /\ UNCHANGED <<failures, openedAge, attempt, supDelay, restAge, streak>>

Connected ==
  /\ rpc = "connect"
  /\ rpc' = "session"
  /\ UNCHANGED <<timer, breaker, failures, openedAge, attempt, sessionAge, supDelay,
                 runAge, restAge, streak>>

\* The connect or the session raises: heal or record, then wait.
Fails ==
  /\ rpc \in {"connect", "session"}
  /\ Len(failures) < MaxStreak
  /\ IF SelfHeals
     THEN /\ breaker' = "CLOSED" /\ failures' = <<>> /\ attempt' = 0
          /\ UNCHANGED openedAge
     ELSE RecordFailure /\ UNCHANGED attempt
  /\ streak' = IF sessionAge >= StableReset THEN <<>> ELSE InWindow(Append(streak, 0))
  /\ restAge' = 0
  /\ rpc' = "backoff"
  /\ LET delay == Delay(attempt') IN
       \E j \in 0..((delay * Jitter) \div 100) : timer' = delay + j
  /\ UNCHANGED <<sessionAge, supDelay, runAge>>

SupervisorDoubles == AtMost(supDelay * 2, SupMax)

\* The backoff counts the attempt, then close() runs in the finally block.
Wake ==
  /\ timer = 0
  /\ \/ rpc = "poll" /\ rpc' = "gate" /\ UNCHANGED attempt
     \/ rpc = "backoff" /\ rpc' = "close" /\ attempt' = AtMost(attempt + 1, MaxAttempt)
     \/ rpc = "crashed" /\ rpc' = "start" /\ UNCHANGED attempt
  /\ supDelay' = IF rpc = "crashed" THEN SupervisorDoubles ELSE supDelay
  /\ UNCHANGED <<timer, breaker, failures, openedAge, sessionAge, runAge, restAge, streak>>

Close ==
  /\ rpc = "close"
  /\ rpc' = "gate"
  /\ UNCHANGED <<timer, breaker, failures, openedAge, attempt, sessionAge, supDelay,
                 runAge, restAge, streak>>

SupervisedDelay == IF runAge >= SupStable THEN SupBase ELSE supDelay

\* close() raises out of the loop: the supervisor restarts it after its delay.
CloseRaises ==
  /\ rpc = "close"
  /\ rpc' = "crashed"
  /\ supDelay' = SupervisedDelay
  /\ timer' = SupervisedDelay
  /\ UNCHANGED <<breaker, failures, openedAge, attempt, sessionAge, runAge, restAge, streak>>

\* disconnect() and the cancellation of the task.
Disconnect ==
  /\ rpc # "stopped"
  /\ rpc' = "stopped"
  /\ UNCHANGED <<timer, breaker, failures, openedAge, attempt, sessionAge, supDelay,
                 runAge, restAge, streak>>

Aged(ages) == [i \in DOMAIN ages |-> AtMost(ages[i] + 1, Window + 1)]

Tick ==
  /\ rpc \in {"poll", "connect", "session", "backoff", "crashed"}
  /\ timer' = IF timer = 0 THEN 0 ELSE timer - 1
  /\ failures' = Aged(failures)
  /\ streak' = Aged(streak)
  /\ openedAge' = AtMost(openedAge + 1, Cooldown)
  /\ sessionAge' = AtMost(sessionAge + 1, StableReset)
  /\ runAge' = AtMost(runAge + 1, SupStable)
  /\ restAge' = IF rpc \in {"connect", "session"} THEN restAge
                                                  ELSE AtMost(restAge + 1, MaxRest)
  /\ UNCHANGED <<rpc, breaker, attempt, supDelay>>

LoopStep == Gate \/ Wake \/ Close
ReconnectNext == LoopStep \/ Connected \/ Fails \/ CloseRaises \/ Disconnect \/ Tick

\* The event loop resumes the coroutine and time passes; sessions may last.
ReconnectFairness == WF_reconnectVars(LoopStep) /\ WF_reconnectVars(Tick)
ReconnectSpec == ReconnectInit(TRUE) /\ [][ReconnectNext]_reconnectVars /\ ReconnectFairness

-----------------------------------------------------------------------------
ReconnectTypeOK ==
  /\ rpc \in {"start", "gate", "poll", "connect", "session", "backoff", "close",
              "crashed", "stopped"}
  /\ breaker \in {"CLOSED", "OPEN", "HALF_OPEN"}
  /\ timer \in Nat /\ openedAge \in 0..Cooldown
  /\ attempt \in 0..MaxAttempt /\ sessionAge \in 0..StableReset
  /\ \A s \in {failures, streak} : Len(s) <= MaxStreak /\ \A i \in DOMAIN s : s[i] \in 0..(Window + 1)
  /\ supDelay \in 1..(IF SupMax > SupBase THEN SupMax ELSE SupBase) /\ runAge \in 0..SupStable
  /\ restAge \in 0..MaxRest

\* CircuitBreaker: once Threshold attempts in a row died quickly within the
\* window, whether at the handshake or soon after it, and however the waits,
\* polls and supervisor restarts fell, the next attempt comes only after the
\* dependency was left alone for the whole cooldown.
OutageRests == rpc = "connect" /\ Len(streak) >= Threshold => restAge >= Cooldown

\* ExponentialBackoff._exponent_ceiling: capping the exponent changes no wait:
\* when the loop goes on it has rested as long as the uncapped doubling asks.
CapChangesNoWait ==
  rpc = "close" => restAge >= AtMost(Base * 2^(attempt - 1), MaxDelay)

\* The pace of the attempts: the breaker's cooldown and the backoff's doubling.
AttemptsPaced == ReconnectTypeOK /\ OutageRests /\ CapChangesNoWait

\* run_with_reconnect and _supervised promise a paced retrier that never gives
\* up: at least Base, or the ceiling if that is less, between two attempts, and
\* another attempt after every loss, through open breakers and crashes of the
\* loop, until it is stopped.
Retrier == INSTANCE PacedRetry WITH
  MinRest <- AtMost(Base, MaxDelay),
  link <- IF rpc = "stopped" THEN "stopped"
          ELSE IF rpc \in {"connect", "session"} THEN "busy" ELSE "resting",
  rested <- AtMost(restAge, AtMost(Base, MaxDelay))
KeepsTrying == Retrier!Spec
=============================================================================
