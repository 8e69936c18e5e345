SPECIFICATION FairSpec
CONSTANTS
  Byte <- MCByte
  Block = 2
  Texts <- MCTexts
  NumLines = {0, 1, 2}
  Sources <- BothSources
  MaxSize = 4
  MaxText = 5
INVARIANTS LastLinesPrinted NothingMissed
PROPERTIES AppendedIsPrinted
