SPECIFICATION Spec
CONSTANTS
  HISTSIZE = 2
  MaxCommands = 4
  RecallsOldest = TRUE
INVARIANTS
  CalledLive
