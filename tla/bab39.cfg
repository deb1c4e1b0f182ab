SPECIFICATION FairSpec
CONSTANT Baboon = {b1, b2, b3}
INVARIANTS
  TypeOK39
  OneDirection
  CounterExact
  CompleteMeansClean
PROPERTIES
  EveryBaboonCrosses
