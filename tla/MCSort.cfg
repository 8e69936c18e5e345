\* NWayMerge = 2: every third batch starts merge jobs, and the jobs of one merge
\* fill the channel.
SPECIFICATION Spec
CONSTANTS
  Size = 2
  NoJob = NoJob
  Line <- MCLine
  LineLen <- MCLineLen
  Fronts <- MCFront
  Backs <- MCBack
  Payloads <- MCPayloads
  NWayMerge = 2
  Profiles <- BothProfiles
INVARIANTS LinesConserved PrintsEverything SortedWithoutEmptyChunks NobodyWaitsForEver
