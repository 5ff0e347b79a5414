SPECIFICATION Spec
CONSTANTS
  f1 = f1
  f2 = f2
  f3 = f3
  f4 = f4
  Id <- Ids
  NoId = NoId
  MaxRetries = 1
  MaxFaults = 2
  MaxTests = 2
  Backlog = 2
INVARIANTS
  TypeOK
  NoSilentLeak
  AnsweredDeleteIsFinal
  LoggedUnlessLost
SYMMETRY IdSymmetry
CHECK_DEADLOCK FALSE
