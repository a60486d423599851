SPECIFICATION FairSpec
CONSTANTS
  NrDomains = 2
  OptionP = 2
  EstimatedThreads = 1
  MAX_THREADS = 12
  NoThread = NoThread
  MaxFailures = 1
  MaxPthreadFailures = 0
  MaxSpurious = 0
PROPERTY EventuallyReturns
CHECK_DEADLOCK FALSE
