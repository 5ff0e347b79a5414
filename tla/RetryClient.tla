------------------------------ MODULE RetryClient ------------------------------
(***************************************************************************)
(* HttpTestClient::run_with_retry of src/http_test_client.cpp: attempts,   *)
(* exponential backoff with jitter and the circuit breaker, against a      *)
(* server that a kill fault takes down, a supervisor restarts within       *)
(* RestartWindow, and a latency fault makes slower than the read timeout.  *)
(*                                                                         *)
(* One request runs at a time; time may pass between any two of its steps. *)
(***************************************************************************)
EXTENDS Integers

CONSTANTS FailureThreshold, SuccessThreshold, OpenDuration,  \* CircuitBreakerConfig
          MaxRetries, BaseDelay, MaxDelay, BackoffMult,      \* RetryPolicy
          RestartWindow  \* longest outage: the supervisor's restart time

ASSUME PolicyIsSane ==
  /\ FailureThreshold \in Int /\ SuccessThreshold \in Int /\ OpenDuration \in Nat
  /\ MaxRetries \in Int
  /\ BaseDelay \in Nat /\ MaxDelay \in Nat /\ BackoffMult \in Nat
  /\ RestartWindow \in Nat

VARIABLES state, consecutiveFailures, halfOpenSuccesses, sinceOpened,  \* breaker
          pc,       \* "idle", "ask" the breaker, on the "wire", or "sleep"
          attempt,  \* loop index of the current request
          timer,    \* what is left of the backoff sleep
          result,   \* of the last request: "reply", "no_reply" ({0, {}}), or "none" yet
          server,   \* "up", "down", or "slow" (no reply before the read timeout)
          downFor,  \* length of the current outage
          broken    \* the outage cut the connection of the call on the wire

\* History of the current request, for the properties only.
VARIABLES disturbances,  \* outages it met, counted to 2; a slow server counts 2
          denied         \* the breaker refused one of its calls

breakerVars == <<state, consecutiveFailures, halfOpenSuccesses, sinceOpened>>
serverVars == <<server, downFor>>
vars == <<state, consecutiveFailures, halfOpenSuccesses, sinceOpened, pc, attempt,
          timer, result, server, downFor, broken, disturbances, denied>>

Breaker == INSTANCE CircuitBreaker WITH
  inFlight <- IF pc = "wire" THEN 1 ELSE 0

\* max(1, max_retries + 1)
Total == IF MaxRetries < 0 THEN 1 ELSE MaxRetries + 1

\* base * mult^attempt, one multiplication per attempt
Grown[a \in Nat] == IF a = 0 THEN BaseDelay ELSE Grown[a - 1] * BackoffMult
\* min(base * mult^attempt, cap)
Nominal(a) == IF Grown[a] < MaxDelay THEN Grown[a] ELSE MaxDelay

\* Jitter that may shrink a delay to nothing: uniform(0, 1.5).
FullJitter(a) == 0 .. ((3 * Nominal(a)) \div 2)
\* times uniform(0.5, 1.5), truncated to whole units
Jittered(a) == (Nominal(a) \div 2) .. ((3 * Nominal(a)) \div 2)

Met(n) == IF disturbances + n > 2 THEN 2 ELSE disturbances + n

Init ==
  /\ Breaker!BreakerInit
  /\ pc = "idle" /\ attempt = 0 /\ timer = 0 /\ result = "none"
  /\ server = "up" /\ downFor = 0 /\ broken = FALSE
  /\ disturbances = 0 /\ denied = FALSE

-------------------------------------------------------------------------------
(* run_with_retry(). *)

\* get(), post() or del() is called: the loop starts.
Request ==
  /\ pc = "idle"
  /\ pc' = "ask" /\ attempt' = 0 /\ result' = "none"
  /\ disturbances' = CASE server = "up" -> 0 [] server = "down" -> 1 [] OTHER -> 2
  /\ denied' = FALSE
  /\ UNCHANGED <<breakerVars, timer, serverVars, broken>>

\* The breaker lets the call through to the socket.
Send ==
  /\ pc = "ask" /\ Breaker!Allow
  /\ pc' = "wire" /\ broken' = FALSE
  /\ UNCHANGED <<attempt, timer, result, serverVars, disturbances, denied>>

\* The breaker refuses: {0, {}} at once, whatever attempts are left.
ShortCircuit ==
  /\ pc = "ask" /\ Breaker!Deny
  /\ pc' = "idle" /\ result' = "no_reply" /\ denied' = TRUE
  /\ UNCHANGED <<attempt, timer, serverVars, broken, disturbances>>

\* Any HTTP response, 4xx and 5xx included, is returned as it is.
Reply ==
  /\ pc = "wire" /\ server = "up" /\ ~broken
  /\ Breaker!RecordSuccess
  /\ pc' = "idle" /\ result' = "reply"
  /\ UNCHANGED <<attempt, timer, serverVars, broken, disturbances, denied>>

\* The call has no response: refused, reset, or past the read timeout.
CallLost == pc = "wire" /\ (server # "up" \/ broken)

\* The last attempt: no sleep after it.
GiveUp ==
  /\ CallLost /\ attempt = Total - 1
  /\ Breaker!RecordFailure
  /\ pc' = "idle" /\ result' = "no_reply"
  /\ UNCHANGED <<attempt, timer, serverVars, broken, disturbances, denied>>

\* Backing off without telling the breaker of the failure.
BackOffUnrecorded ==
  /\ CallLost /\ attempt < Total - 1
  /\ pc' = "sleep" /\ timer' \in Jittered(attempt)
  /\ UNCHANGED <<breakerVars, attempt, result, serverVars, broken, disturbances, denied>>

\* Backing off after the last attempt too.
BackOffAlways ==
  /\ CallLost
  /\ Breaker!RecordFailure
  /\ pc' = "sleep" /\ timer' \in Jittered(attempt)
  /\ UNCHANGED <<attempt, result, serverVars, broken, disturbances, denied>>

BackOff ==
  /\ CallLost /\ attempt < Total - 1
  /\ Breaker!RecordFailure
  /\ pc' = "sleep" /\ timer' \in Jittered(attempt)
  /\ UNCHANGED <<attempt, result, serverVars, broken, disturbances, denied>>

\* A loop that does not count its attempts.
WakeUncounted ==
  /\ pc = "sleep" /\ timer = 0
  /\ pc' = "ask"
  /\ UNCHANGED <<breakerVars, attempt, timer, result, serverVars, broken, disturbances, denied>>

Wake ==
  /\ pc = "sleep" /\ timer = 0
  /\ pc' = "ask" /\ attempt' = attempt + 1
  /\ UNCHANGED <<breakerVars, timer, result, serverVars, broken, disturbances, denied>>

Client == Send \/ ShortCircuit \/ Reply \/ GiveUp \/ BackOff \/ Wake

-------------------------------------------------------------------------------
(* The server, its supervisor and the clock (external). *)

\* A kill fault; a call on the wire is cut.
Kill ==
  /\ server = "up"
  /\ server' = "down" /\ downFor' = 0
  /\ broken' = (pc = "wire")
  /\ disturbances' = Met(1)
  /\ UNCHANGED <<breakerVars, pc, attempt, timer, result, denied>>

Restart ==
  /\ server = "down"
  /\ server' = "up" /\ downFor' = 0
  /\ UNCHANGED <<breakerVars, pc, attempt, timer, result, broken, disturbances, denied>>

\* A latency fault longer than the read timeout, and its removal.
SlowDown ==
  /\ server = "up"
  /\ server' = "slow" /\ disturbances' = Met(2)
  /\ UNCHANGED <<breakerVars, pc, attempt, timer, result, downFor, broken, denied>>

SpeedUp ==
  /\ server = "slow"
  /\ server' = "up"
  /\ UNCHANGED <<breakerVars, pc, attempt, timer, result, downFor, broken, disturbances, denied>>

\* One unit of time; an outage does not outlive the supervisor's window.
Tick ==
  /\ server = "down" => downFor < RestartWindow
  /\ Breaker!Elapse
  /\ timer' = IF timer > 0 THEN timer - 1 ELSE 0
  /\ downFor' = IF server = "down" THEN downFor + 1 ELSE 0
  /\ UNCHANGED <<pc, attempt, result, server, broken, disturbances, denied>>

Next == Request \/ Client \/ Kill \/ Restart \/ SlowDown \/ SpeedUp \/ Tick

Spec == Init /\ [][Next]_vars

\* The test's thread keeps running, its socket timeouts end every call, time
\* passes and the supervisor restarts what was killed.
Fairness == WF_vars(Client) /\ WF_vars(Tick) /\ WF_vars(Restart)

FairSpec == Spec /\ Fairness

-------------------------------------------------------------------------------
(* Properties. *)

TypeOK ==
  /\ Breaker!TypeOK
  /\ pc \in {"idle", "ask", "wire", "sleep"}
  /\ attempt \in 0 .. Total - 1
  /\ timer \in 0 .. (3 * MaxDelay) \div 2
  /\ result \in {"none", "reply", "no_reply"}
  /\ server \in {"up", "down", "slow"}
  /\ downFor \in 0 .. RestartWindow
  /\ broken \in BOOLEAN /\ denied \in BOOLEAN
  /\ disturbances \in 0 .. 2

\* kChaosResilientPolicy is "sized to cover" a supervisor's restart window
\* even at the jitter floor: a request that met a single outage, and was not
\* refused by the breaker, comes back with a reply.
RidesOutOneRestart == result = "no_reply" /\ ~denied => disturbances = 2

\* The retry loop uses the breaker as its caller should: every call on the
\* wire was allowed, and reported its outcome exactly once.
UsesBreaker == Breaker!Spec

\* Every request comes back to its caller, whatever the server does.
RequestsReturn == (pc # "idle") ~> (pc = "idle")

\* Once the server stays up and the client keeps asking, the breaker closes
\* and stays closed: no state of the counters locks the client out for good.
BreakerHeals ==
  <>[](server = "up") /\ []<>(pc = "ask") => <>[](state = "closed")
===============================================================================
