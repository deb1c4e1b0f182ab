SPECIFICATION ReturningSpec
CONSTANTS
  MaxThreads = 3
  Policies <- BothPolicies
  Estimates <- OneEstimate
  SupportedJoins = FALSE
  ThreadsTerminate = TRUE
INVARIANTS
  QueuedOnce
  CurrentLive
PROPERTIES
  JoinReturnsAfterFinish
  MainResumes
\* After a thread's thread_libterminate nothing more is defined.
CHECK_DEADLOCK FALSE
