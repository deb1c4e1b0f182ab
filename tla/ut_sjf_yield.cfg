SPECIFICATION Spec
CONSTANTS
  MaxThreads = 3
  Policies <- OnlySJF
  Estimates <- ShortAndLong
  SupportedJoins = TRUE
  ThreadsTerminate = FALSE
INVARIANTS
  MainJoinFinished
