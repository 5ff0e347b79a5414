CONSTANTS
  Tests = {"R01", "R02", "R03", "R04", "R05", "E01", "E02", "E03", "E04", "C10", "TaskState", "Malformed", "TestEmpty"}
  MaxTests = 2
  MaxMishaps = 1
  Leftovers <- MCLeftovers
  ReadTimeout = 20
  ConnectTimeout = 10
  Backlog = 5
  Backoff <- MCBackoff
  None = None
SPECIFICATION FairSpec
INVARIANTS TypeOK CleanTestsPass GivesUpForAReason DiagnosticsAreHarmless
PROPERTIES CleanTestsStayClean TestsEnd
CHECK_DEADLOCK FALSE
