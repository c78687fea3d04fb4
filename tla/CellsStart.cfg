CONSTANTS
  Proc = {1, 2}
  Workload <- Starting
  PerDir = 2
  Faults = {}
  MaxLaunches = 1
SPECIFICATION Spec
INVARIANT NobodyRefused
CHECK_DEADLOCK FALSE
