SPECIFICATION FairSpec
CONSTANTS
  Names = {1, 2}
  Prios = {100, 5000}
  MaxScripts = 2
  MaxPrograms = 2
  MaxCrashes = 1
  MaxRetries = 1
  MaxMoveFailures = 1
INVARIANTS TypeOK RepeatsExplained NoScriptLost SentinelMeansFinished
PROPERTIES RunsInOrder EveryScriptRuns
CHECK_DEADLOCK FALSE
