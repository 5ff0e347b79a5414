SPECIFICATION FairSpec
CONSTANTS
  f1 = f1
  f2 = f2
  f3 = f3
  f4 = f4
  Id <- Ids
  NoId = NoId
  MaxRetries = 2
  MaxFaults = 1
  MaxTests = 1
  Backlog = 3
INVARIANT
  RetriesBoundDuplicates
PROPERTY
  TestsEnd
CHECK_DEADLOCK FALSE
