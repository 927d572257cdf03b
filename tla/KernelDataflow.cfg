CONSTANTS
  HKv = 2
  Ratio = 2
  Ffn = 2
  Vocab = 3
  TileM = 2
  QTile = 2
  FifoD = 1
  Launches <- MCLaunches
  RunLmHead = TRUE
SPECIFICATION Spec
INVARIANTS TypeOK InOrder NothingLeft EndsAsHeld
PROPERTIES Completes MoreRowsMixedUp
CHECK_DEADLOCK FALSE
