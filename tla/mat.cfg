SPECIFICATION FairSpec
CONSTANTS
  N = 3
  DigitsA <- Bits
  DigitsB <- Ones
INVARIANTS
  ProductExact
  MaxCoversRows
PROPERTIES
  MainEnds
