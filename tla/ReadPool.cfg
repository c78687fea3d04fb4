SPECIFICATION FairSpec
CONSTANTS
  Threads = 3
  UntilCounts = {2, 7, 10, 32}
  ManyCounts = {2, 7}
  Sizes = {2, 8}
  MaxPasses = 3
  Faults = {"spawnFails", "slowStart", "evictFails", "openRaises", "readRaises"}
INVARIANTS TypeOK AllWorkersAtStart ReadOnce PassesAddUp NoForeignRead
PROPERTY CellEnds
CHECK_DEADLOCK FALSE
