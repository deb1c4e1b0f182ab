SPECIFICATION FairSpec
CONSTANTS
  MaxThreads = 3
  Priorities = {0, 1}
INVARIANTS
  TypeOK
  QueuedOnce
  SuccessAtTheEnd
PROPERTIES
  JoinReturnsAfterFinish
  KeepsPromise
  ReadyRuns
\* The model stops where the process does.
CHECK_DEADLOCK FALSE
