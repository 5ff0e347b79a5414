SPECIFICATION Spec
INVARIANTS
  TypeOK
  GatedPathIsFiltered
  RefusedBeforeSending
  LogTellsTheCall
