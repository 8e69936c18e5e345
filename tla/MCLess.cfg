SPECIFICATION LessSpec
CONSTANTS
  Texts <- MCTexts
  Chars <- MCChars
  OtherKeys <- MCOtherKeys
  Columns = {0, 80}
  Rows = 2
  Bottom = 2
  MaxPattern = 2
  MaxI64 = 9
INVARIANTS ScreenInSync CursorOnScreen PanicsExplained IncrementalFindsFirst
