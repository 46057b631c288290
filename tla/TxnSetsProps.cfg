SPECIFICATION FairSpec
CONSTANTS
  Pk = {1, 2, 3}
  MAX_ROW_PER_TXN = 3
  MaxRefused = 1
  NULL = NULL
INVARIANTS
  TypeOK
  PositionsAgree
  RwSetsMatchCounts
  FreesAreExact
  OnlyReleaseUsesFreed
PROPERTIES
  KeepsAccessSet
  FinishEnds
