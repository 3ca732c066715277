SPECIFICATION KSpec
CONSTANTS
  W = 5
  BufferBytes = 6
  Columns = 3
  Rows = 2
  Formats <- SomeFormats
  Texts <- SomeTexts
INVARIANTS ResultCorrect PrintedAsAsked ScreenShowsText
CHECK_DEADLOCK FALSE
