SPECIFICATION Spec
CONSTANTS
  Regions = {16, 72}
  Sizes = {5, 11, 48}
  MaxCalls = 6
INVARIANTS
  BlocksLinked
  LiveFit
  FreeListExact
  LargestIsFree
CHECK_DEADLOCK FALSE
