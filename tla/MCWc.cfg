SPECIFICATION WcSpec
CONSTANTS
  Size = 2
  NoJob = NoJob
  Byte = {"nl", "ws", "sp", "a", "lead", "cont"}
  Delim = "nl"
  MaxChunkSize = 3
  Files <- MCFiles
  Profiles <- BothProfiles
INVARIANTS EveryChunkCounted BytesModeOffByOne ChunkingKeepsWords BoundariesRespected
