SPECIFICATION Spec
CONSTANTS
  t1 = t1
  t2 = t2
  t3 = t3
  Tables <- MCTables
  Contents <- MCContents
  MaxCalls = 2
SYMMETRY MCSymmetry
CHECK_DEADLOCK FALSE
INVARIANTS
  TypeOK
  DepthBounded
  EmbeddedOnce
  ReachableEmbedded
  OnlyFractionsLost
  RefsReleased
