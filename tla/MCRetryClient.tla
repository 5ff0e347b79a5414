--------------------------- MODULE MCRetryClient ---------------------------
(* run_with_retry under the policies the fixtures and unit tests use; the   *)
(* unit of time is 200 ms.                                                  *)
EXTENDS RetryClient
============================================================================
