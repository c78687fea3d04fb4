CONSTANTS
  Arms = 3
  Repeats = 3
  Values = {1, 3}
  MaxSample = 210
SPECIFICATION Spec
INVARIANTS  MissingArmNeverWins LoadedAreMeasured NearestRank
CHECK_DEADLOCK FALSE
