\* kChaosResilientPolicy (400 ms base, x2, 2000 ms cap, 3 retries), a restart
\* window of one second, and a breaker that no single request opens: it opens
\* between two attempts of the next one.
SPECIFICATION FairSpec
CONSTANTS
  FailureThreshold = 5
  SuccessThreshold = 2
  OpenDuration = 3
  MaxRetries = 3
  BaseDelay = 2
  MaxDelay = 10
  BackoffMult = 2
  RestartWindow = 5
INVARIANTS
  TypeOK
  RidesOutOneRestart
PROPERTIES
  RequestsReturn
  UsesBreaker
  BreakerHeals
