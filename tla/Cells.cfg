CONSTANTS
  Proc = {1, 2}
  Workload <- Plans
  PerDir = 2
  Faults = {"kill", "raise", "escape", "leftover", "redo"}
  MaxLaunches = 2
SPECIFICATION Spec
INVARIANTS TypeOK OwnFiles ColdRead NoLeftovers EpochsAgree OwnCores
CHECK_DEADLOCK FALSE
