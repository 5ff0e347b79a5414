SPECIFICATION Spec
CONSTANTS
  FailureThreshold = 4
  SuccessThreshold = 3
  OpenDuration = 10
INVARIANTS
  TypeOK
  ModesAgreeWithCounters
  OneProbeAtATime
PROPERTY
  KeepsToBudget
