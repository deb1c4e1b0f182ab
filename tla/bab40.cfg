SPECIFICATION FairSpec40
CONSTANT Baboon = {b1, b2, b3}
INVARIANTS
  OneDirection
  CompleteMeansClean40
PROPERTIES
  NoOvertaking
  EveryBaboonCrosses
