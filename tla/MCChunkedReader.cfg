SPECIFICATION Spec
CONSTANTS
  Byte <- MCByte
  Delim = "nl"
  MaxChunkSize = 3
  MaxLen = 6
  Texts <- MCTexts
INVARIANTS LeftoverFits NothingLeftBehind ItemsAsSplit
