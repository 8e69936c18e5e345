SPECIFICATION Spec
CONSTANTS
  Size = 1
  NoJob = NoJob
  Line <- MCLine
  LineLen <- MCLineLen
  Fronts <- MCFront
  Backs <- MCBack
  Payloads <- MCPayloads
  NWayMerge = 2
  Profiles <- BothProfiles
INVARIANT OutputSorted
