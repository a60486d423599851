SPECIFICATION FairSpec
CONSTANTS
  NrDomains = 3
  OptionP = 0
  EstimatedThreads = 3
  MAX_THREADS = 12
  NoThread = NoThread
  MaxFailures = 1
  MaxPthreadFailures = 1
  MaxSpurious = 1
INVARIANTS TypeOK NoLostWakeup AnswerIsHonest
PROPERTIES ImplementsInOrder ReturnsUndisturbed
CHECK_DEADLOCK FALSE
