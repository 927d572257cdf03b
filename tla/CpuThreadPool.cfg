CONSTANTS
  MaxThreads = 3
  Nodes = 2
  Chunks = 3
  Spread = 1
  MaxGraphs = 2
SPECIFICATION FairSpec
INVARIANTS TypeOK ChunkOnce WholeBeforeNext NoWorkerInGraph
PROPERTY CallerReturns
CHECK_DEADLOCK FALSE
