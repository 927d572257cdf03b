CONSTANTS
  Threads = {t1, t2}
  Tensors <- MCTensors
  K <- MCK
  N <- MCN
  IsQ8 = {"c", "x"}
  Sidecar = {"c", "f"}
  Supported <- MCSupported
  TileM = 2
  MaxM = 2
  Graphs <- MCGraphs
SPECIFICATION FairSpec
INVARIANTS TypeOK WeightIsItsOwn LaunchedInBuffersThatFit ReadsOwnProduct
PROPERTIES GraphEnds
