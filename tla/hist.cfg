SPECIFICATION Spec
CONSTANTS
  HISTSIZE = 2
  MaxCommands = 4
  RecallsOldest = FALSE
INVARIANTS
  TypeOK
  ListLinked
  ListedLive
  NothingLeaks
PROPERTIES
  KeepsLog
  RecallsNth
