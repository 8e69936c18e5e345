SPECIFICATION PipelineSpec
CONSTANTS
  Byte <- MCByte
  Commands <- MCCommands
  Targets <- MCTargets
  FileSystems <- MCFiles
  Block = 3
  MaxUsize = 7
INVARIANTS SoaksUpFirst FileIsComplete  SuccessIsComplete
