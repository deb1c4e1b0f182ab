SPECIFICATION YieldingSpec
CONSTANTS
  MaxThreads = 4
  Policies <- OnlyFIFO
  Estimates <- OneEstimate
  SupportedJoins = TRUE
  ThreadsTerminate = FALSE
INVARIANTS
  TypeOK
  NoThreadLost
  MainJoinFinished
PROPERTIES
  KeepsPromise
  ReadyRuns
