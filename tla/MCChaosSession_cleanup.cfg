SPECIFICATION Spec
CONSTANTS
  f1 = f1
  f2 = f2
  f3 = f3
  f4 = f4
  Id <- Ids
  NoId = NoId
  MaxRetries = 1
  MaxFaults = 1
  MaxTests = 1
  Backlog = 2
INVARIANT
  CleansUpAfterItself
SYMMETRY IdSymmetry
CHECK_DEADLOCK FALSE
