SPECIFICATION FairSpec
CONSTANTS
  Wrap = 3
  MaxPings = 4
  Foreign <- OneForeign
  Versions <- BothVersions
  Builds <- BothBuilds
INVARIANTS RepliesFindTheirSlot PoisonOnlyAfterWrap
PROPERTIES CtrlCEnds PoisonEndsPing
