SPECIFICATION FairSpec
CONSTANTS
  j1 = j1 j2 = j2
  Job = {j1, j2}
  Nodes <- ThreeRanks
  Arms = 2
  Faults = {"killJob", "rankDies", "writeFails", "readFails"}
  MaxLaunches <- Requeued
  MaxFaults = 1
INVARIANTS TypeOK NobodyReadsEarly RowsOfOneLaunch OwnMarkerStays
PROPERTY EveryRankEnds
CHECK_DEADLOCK FALSE
