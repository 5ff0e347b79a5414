SPECIFICATION Spec
CONSTANTS
  PR = {1}
  Forks = {}
  Editor = 1
  Flaws <- NoFlaws
  Edits = {"none"}
  Validators = {}
  Contexts = {"package"}
  Tags = {"v1"}
  Branches = {"main", "v1"}
  MaxPushes = 0
  MaxReleases = 2
  MaxEntriesToBuild = 1
  MaxEntriesToMerge = 1
CHECK_DEADLOCK FALSE
INVARIANTS SbomDescribesItsSubject
