SPECIFICATION Spec
CONSTANTS
  a = a b = b c = c d = d e = e
  j1 = j1 j2 = j2 j3 = j3 NoJob = NoJob
  p1 = p1 p2 = p2 NoPartition = NoPartition
  Garbage = Garbage Summary = Summary
  Cell = {a, b, c, d, e}
  Partition = {p1, p2, NoPartition}
  Job = {j1, j2, j3, NoJob}
  Experiment = {"sweep", "latency", "scaling", "neighbour"}
  Writer <- OverlapWriter
  Plan <- OverlapPlan
  Overlap = TRUE
  Faults = {"tornKill"}
  MaxLaunches = 1
  MaxFaults = 1
INVARIANT FinishedReadable
PROPERTIES KeepsRows SkipWarned
CHECK_DEADLOCK FALSE
