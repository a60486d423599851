SPECIFICATION Spec
CONSTANTS
  Names = {1}
  Prios = {5000}
  MaxScripts = 2
  MaxPrograms = 1
  MaxCrashes = 0
  MaxRetries = 0
  MaxMoveFailures = 0
INVARIANT RunsItsOwnCode
CHECK_DEADLOCK FALSE
