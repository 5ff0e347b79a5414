SPECIFICATION Spec
CONSTANTS
  PR = {1, 2, 3}
  Forks = {3}
  Editor = 1
  Flaws <- SomeFlaws
  Edits <- AllEdits
  Validators <- EXPECTED_REQUIRED_JOB_IDS
  Contexts <- AllContexts
  Tags = {"v1"}
  Branches = {"main"}
  MaxPushes = 0
  MaxReleases = 0
  MaxEntriesToBuild = 2
  MaxEntriesToMerge = 2
CHECK_DEADLOCK FALSE
INVARIANTS TypeOK PolicyIsSound FlawsStayOut QueueIsNoLaxer
PROPERTIES EveryEntryLeaves
