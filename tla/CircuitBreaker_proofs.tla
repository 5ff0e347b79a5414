------------------------- MODULE CircuitBreaker_proofs -------------------------
(***************************************************************************)
(* For every threshold and window: the breaker's counters agree with its   *)
(* modes, it probes one call at a time, and it keeps to its CallBudget.    *)
(***************************************************************************)
EXTENDS CircuitBreaker, TLAPS

USE BreakerConfig DEF BreakerConfig

\* The inductive invariant: the three invariants of the runs, together.
BreakerInv == TypeOK /\ ModesAgreeWithCounters /\ OneProbeAtATime

\* A new breaker is closed with its counters at zero.
LEMMA InitBreakerInv == Init => BreakerInv
BY DEF Init, BreakerInit, BreakerInv, TypeOK, BreakerState, ModesAgreeWithCounters,
       OneProbeAtATime, Disabled

\* Each operation, and each tick, keeps the invariant.
LEMMA StepBreakerInv == BreakerInv /\ [Next]_cbVars => BreakerInv'
<1> SUFFICES ASSUME BreakerInv, [Next]_cbVars PROVE BreakerInv'
  OBVIOUS
<1> USE DEF BreakerInv, TypeOK, BreakerState, ModesAgreeWithCounters, OneProbeAtATime,
            Disabled
<1>1. CASE AllowCall
  BY <1>1 DEF AllowCall, Allow, WindowElapsed, breakerVars
<1>2. CASE CallSucceeds
  BY <1>2 DEF CallSucceeds, RecordSuccess, CloseCircuit, breakerVars
<1>3. CASE CallFails
  BY <1>3 DEF CallFails, RecordFailure, FailAt, breakerVars
<1>4. CASE Tick
  BY <1>4 DEF Tick, Elapse, WindowElapsed
<1>5. CASE UNCHANGED cbVars
  BY <1>5 DEF cbVars
<1> QED
  BY <1>1, <1>2, <1>3, <1>4, <1>5 DEF Next

\* The breaker's fields keep their types.
THEOREM TypeCorrect == Spec => []TypeOK
<1>1. BreakerInv => TypeOK
  BY DEF BreakerInv
<1> QED
  BY <1>1, InitBreakerInv, StepBreakerInv, PTL DEF Spec

\* A closed circuit is short of its threshold, any other carries exactly the
\* count that opened it, and successes are counted in half-open only.
THEOREM CountersAgree == Spec => []ModesAgreeWithCounters
<1>1. BreakerInv => ModesAgreeWithCounters
  BY DEF BreakerInv
<1> QED
  BY <1>1, InitBreakerInv, StepBreakerInv, PTL DEF Spec

\* An open circuit has no call on the wire and a half-open one is never left
\* without a probe under way or already answered.
THEOREM SingleProbe == Spec => []OneProbeAtATime
<1>1. BreakerInv => OneProbeAtATime
  BY DEF BreakerInv
<1> QED
  BY <1>1, InitBreakerInv, StepBreakerInv, PTL DEF Spec

-------------------------------------------------------------------------------
(* Refinement of CallBudget. *)

\* A new breaker has its whole budget.
LEMMA InitKeepsBudget == Init => Limit!Init
BY DEF Init, BreakerInit, Limit!Init, Disabled

\* Each step of the breaker is a step that its budget allows, or a stutter.
LEMMA StepKeepsBudget == BreakerInv /\ [Next]_cbVars => [Limit!Next]_(Limit!vars)
<1> SUFFICES ASSUME BreakerInv, [Next]_cbVars PROVE [Limit!Next]_(Limit!vars)
  OBVIOUS
<1> USE DEF BreakerInv, TypeOK, BreakerState, ModesAgreeWithCounters, OneProbeAtATime,
            Disabled, Limit!Unlimited
<1>1. CASE AllowCall
  <2>1. Limit!Begin
    BY <1>1 DEF AllowCall, Allow, WindowElapsed, breakerVars, Limit!Begin
  <2> QED
    BY <2>1 DEF Limit!Next
<1>2. CASE CallSucceeds
  <2>1. Limit!Answered
    BY <1>2 DEF CallSucceeds, RecordSuccess, CloseCircuit, breakerVars, Limit!Answered
  <2> QED
    BY <2>1 DEF Limit!Next
<1>3. CASE CallFails
  <2>1. Limit!Lost
    BY <1>3 DEF CallFails, RecordFailure, FailAt, breakerVars, Limit!Lost
  <2> QED
    BY <2>1 DEF Limit!Next
<1>4. CASE Tick
  <2>1. Limit!Wait
    BY <1>4 DEF Tick, Elapse, WindowElapsed, Limit!Wait
  <2> QED
    BY <2>1 DEF Limit!Next
<1>5. CASE UNCHANGED cbVars
  BY <1>5 DEF cbVars, Limit!vars
<1> QED
  BY <1>1, <1>2, <1>3, <1>4, <1>5 DEF Next

\* The breaker implements the limit on calls that CallBudget states: a run of
\* failure_threshold lost calls is followed by open_duration_ms of silence.
THEOREM RefinesCallBudget == Spec => KeepsToBudget
<1> QED
  BY InitBreakerInv, StepBreakerInv, InitKeepsBudget, StepKeepsBudget, PTL
     DEF Spec, KeepsToBudget, Limit!Spec
===============================================================================
