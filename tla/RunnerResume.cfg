SPECIFICATION FairSpec
CONSTANTS
  a = a b = b c = c d = d e = e
  j1 = j1 j2 = j2 j3 = j3 NoJob = NoJob
  p1 = p1 p2 = p2 NoPartition = NoPartition
  Garbage = Garbage Summary = Summary
  Cell = {a, b, c, d, e}
  Partition = {p1, p2, NoPartition}
  Job = {j1, j2, j3, NoJob}
  Experiment = {"sweep", "latency", "scaling", "neighbour"}
  Writer <- ResumeWriter
  Plan <- ResumePlan
  Overlap = FALSE
  Faults = {"kill", "escape", "summary", "writeError"}
  MaxLaunches = 3
  MaxFaults = 2
INVARIANTS TypeOK OneRowPerCell
PROPERTIES ExitReport MeasuredOnce Completes
CHECK_DEADLOCK FALSE
