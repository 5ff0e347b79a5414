---------------------------- MODULE CircuitBreaker ----------------------------
(***************************************************************************)
(* HttpTestClient::CircuitBreaker of src/http_test_client.cpp, driven by   *)
(* one caller: a client is not thread-safe and every test thread builds    *)
(* its own, so at most one call is on the wire.                            *)
(*                                                                         *)
(* steady_clock is read only to compare now - opened_at_ with              *)
(* open_duration_ms, so the two are kept as one variable that stops        *)
(* counting at OpenDuration, where the comparison no longer changes.       *)
(***************************************************************************)
EXTENDS Integers

CONSTANTS FailureThreshold,  \* failure_threshold; <= 0 disables the breaker
          SuccessThreshold,  \* success_threshold
          OpenDuration       \* open_duration_ms, in the clock's unit

ASSUME BreakerConfig ==
  FailureThreshold \in Int /\ SuccessThreshold \in Int /\ OpenDuration \in Nat

VARIABLES state,                \* state_
          consecutiveFailures,  \* consecutive_failures_
          halfOpenSuccesses,    \* half_open_successes_
          sinceOpened,          \* now - opened_at_, up to OpenDuration
          inFlight              \* calls between allow_call() and record_*(): 0 or 1

breakerVars == <<state, consecutiveFailures, halfOpenSuccesses, sinceOpened>>
cbVars == <<state, consecutiveFailures, halfOpenSuccesses, sinceOpened, inFlight>>

BreakerState == {"closed", "open", "half_open"}

Disabled == FailureThreshold <= 0

BreakerInit ==
  /\ state = "closed"
  /\ consecutiveFailures = 0
  /\ halfOpenSuccesses = 0
  /\ sinceOpened = 0

-------------------------------------------------------------------------------
(* allow_call(): TRUE is Allow, FALSE is Deny. *)

\* Off by one: the window counts as over one unit early.
WindowAlmostElapsed == sinceOpened + 1 >= OpenDuration

WindowElapsed == sinceOpened >= OpenDuration

\* Every probe starts the count of successes over, not only the first.
AllowForgettingSuccesses ==
  \/ /\ Disabled \/ state = "closed"
     /\ UNCHANGED breakerVars
  \/ /\ ~Disabled /\ (state = "half_open" \/ (state = "open" /\ WindowElapsed))
     /\ state' = "half_open"
     /\ halfOpenSuccesses' = 0
     /\ UNCHANGED <<consecutiveFailures, sinceOpened>>

Allow ==
  \/ /\ Disabled \/ state # "open"
     /\ UNCHANGED breakerVars
  \/ /\ ~Disabled /\ state = "open" /\ WindowElapsed
     /\ state' = "half_open"
     /\ halfOpenSuccesses' = 0
     /\ UNCHANGED <<consecutiveFailures, sinceOpened>>

Deny ==
  /\ ~Disabled /\ state = "open" /\ ~WindowElapsed
  /\ UNCHANGED breakerVars

-------------------------------------------------------------------------------
(* record_success() and record_failure(). *)

\* Closing without clearing the failures that opened the circuit.
CloseKeepingFailures ==
  /\ state' = "closed"
  /\ halfOpenSuccesses' = 0
  /\ UNCHANGED consecutiveFailures

CloseCircuit ==
  /\ state' = "closed"
  /\ consecutiveFailures' = 0
  /\ halfOpenSuccesses' = 0

RecordSuccess ==
  \/ /\ Disabled
     /\ UNCHANGED breakerVars
  \/ /\ ~Disabled /\ state = "half_open"
     /\ IF halfOpenSuccesses + 1 >= SuccessThreshold
        THEN CloseCircuit
        ELSE /\ halfOpenSuccesses' = halfOpenSuccesses + 1
             /\ UNCHANGED <<state, consecutiveFailures>>
     /\ UNCHANGED sinceOpened
  \/ /\ ~Disabled /\ state # "half_open"
     /\ consecutiveFailures' = 0
     /\ UNCHANGED <<state, halfOpenSuccesses, sinceOpened>>

\* A failed call trips a closed circuit when it brings the count to `limit`.
FailAt(limit) ==
  \/ /\ Disabled
     /\ UNCHANGED breakerVars
  \/ /\ ~Disabled /\ state = "half_open"
     /\ state' = "open"
     /\ sinceOpened' = 0
     /\ halfOpenSuccesses' = 0
     /\ UNCHANGED consecutiveFailures
  \/ /\ ~Disabled /\ state # "half_open"
     /\ consecutiveFailures' = consecutiveFailures + 1
     /\ IF consecutiveFailures + 1 >= limit
        THEN state' = "open" /\ sinceOpened' = 0
        ELSE UNCHANGED <<state, sinceOpened>>
     /\ UNCHANGED halfOpenSuccesses

\* > in place of >=: the circuit opens one failure late.
RecordFailureLate == FailAt(FailureThreshold + 1)

\* A failed probe re-opens the circuit but leaves the old timer running.
ReopenWithOldTimer ==
  IF ~Disabled /\ state = "half_open"
  THEN /\ state' = "open"
       /\ halfOpenSuccesses' = 0
       /\ UNCHANGED <<consecutiveFailures, sinceOpened>>
  ELSE FailAt(FailureThreshold)

RecordFailure == FailAt(FailureThreshold)

\* steady_clock advances by one unit.
Elapse ==
  /\ sinceOpened' = IF WindowElapsed THEN sinceOpened ELSE sinceOpened + 1
  /\ UNCHANGED <<state, consecutiveFailures, halfOpenSuccesses>>

-------------------------------------------------------------------------------
(* One caller, every order of outcomes and delays. *)

Init == BreakerInit /\ inFlight = 0

AllowCall == inFlight = 0 /\ Allow /\ inFlight' = 1
CallSucceeds == inFlight = 1 /\ RecordSuccess /\ inFlight' = 0
CallFails == inFlight = 1 /\ RecordFailure /\ inFlight' = 0
Tick == Elapse /\ UNCHANGED inFlight

Next == AllowCall \/ CallSucceeds \/ CallFails \/ Tick

Spec == Init /\ [][Next]_cbVars

-------------------------------------------------------------------------------
(* Properties. *)

\* The types of the breaker's fields; consecutive_failures_ never passes
\* failure_threshold, so it cannot overflow however long a client lives.
TypeOK ==
  /\ state \in BreakerState
  /\ consecutiveFailures \in 0 .. (IF Disabled THEN 0 ELSE FailureThreshold)
  /\ halfOpenSuccesses \in Nat
  /\ sinceOpened \in 0 .. OpenDuration
  /\ inFlight \in 0 .. 1

\* The three modes agree with the counters: a closed circuit is short of its
\* threshold, an open or half-open one still carries the count that opened
\* it (only closing clears it), and successes are counted in half-open
\* alone, below the number that would have closed the circuit.
ModesAgreeWithCounters ==
  IF Disabled
  THEN state = "closed"
  ELSE /\ (state = "closed") <=> (consecutiveFailures < FailureThreshold)
       /\ halfOpenSuccesses > 0 =>
            state = "half_open" /\ halfOpenSuccesses < SuccessThreshold

\* "a single HALF_OPEN probe is allowed" (CircuitBreakerConfig): an open
\* circuit has nothing on the wire, and a half-open one is either waiting for
\* its probe or has seen one succeed; no half-open circuit is left unprobed.
OneProbeAtATime ==
  /\ state = "open" => inFlight = 0
  /\ state = "half_open" =>
       /\ sinceOpened >= OpenDuration
       /\ inFlight = 1 \/ halfOpenSuccesses > 0

\* The breaker limits the calls it lets through as CallBudget says: no run of
\* lost calls is longer than failure_threshold without a silence of
\* open_duration_ms, and after it one lost probe exhausts the budget again.
Limit == INSTANCE CallBudget WITH
  Budget <- FailureThreshold,
  Quiet <- OpenDuration,
  budget <- IF Disabled \/ state = "closed"
            THEN FailureThreshold - consecutiveFailures
            ELSE IF halfOpenSuccesses > 0 THEN 1 ELSE 0,
  silent <- sinceOpened

KeepsToBudget == Limit!Spec
===============================================================================
