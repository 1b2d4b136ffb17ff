CONSTANTS
  Width = 3
  Height = 2
  TabSpaces = 2
  Glyphs = {"x", "y"}
  Blank = "blank"
  Alphabet <- MCAlphabet
  MaxText = 7
SPECIFICATION Spec
INVARIANTS TypeOK ScreenShowsText
PROPERTY AboveUntouched
CHECK_DEADLOCK FALSE
