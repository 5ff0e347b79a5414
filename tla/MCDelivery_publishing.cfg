SPECIFICATION Spec
CONSTANTS
  PR = {1}
  Forks = {}
  Editor = 1
  Flaws <- NoFlaws
  Edits = {"none", "headPublishes"}
  Validators = {}
  Contexts = {"package"}
  Tags = {"v1"}
  Branches = {"main", "v1", "latest"}
  MaxPushes = 1
  MaxReleases = 2
  MaxEntriesToBuild = 1
  MaxEntriesToMerge = 1
CHECK_DEADLOCK FALSE
INVARIANTS SbomIsOfANamesake ReleaseIsAttested
