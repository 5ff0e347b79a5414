-------------------------- MODULE MCCircuitBreaker --------------------------
(* The breaker with several failures to open it, several successes to close  *)
(* it, and a window that the clock crosses in several steps.                 *)
EXTENDS CircuitBreaker
=============================================================================
