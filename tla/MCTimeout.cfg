SPECIFICATION TimeoutFairSpec
CONSTANTS
  Durations = {0, 1, 2, 3}
  UnitSuffixes = {"s", "none"}
  Interval = 2
  Codes = {0, 3, 124}
  MaxTime = 7
INVARIANTS StatusTellsTheEnd
PROPERTIES Termination
