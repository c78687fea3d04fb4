SPECIFICATION Spec
CONSTANTS
  j1 = j1 j2 = j2
  Job = {j1}
  Nodes <- TwoRanks
  Arms = 2
  Faults = {"writeFails"}
  MaxLaunches <- Once
  MaxFaults = 1
INVARIANT NobodyReadsAlone
CHECK_DEADLOCK FALSE
