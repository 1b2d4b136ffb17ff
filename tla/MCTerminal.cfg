CONSTANTS
  Entry = {glyph, tab, newline, backspace, vtab}
  Tab = tab
  Newline = newline
  Return = return
  Backspace = backspace
  VTab = vtab
  MaxEntries = 2
  NoChar = NoChar
  MaxTyped = 5
  Width = 3
  Height = 2
  TabSpaces = 3
  Bytes = 8
  MessageLength = 2
SPECIFICATION TSpec
INVARIANT KTypeOK
INVARIANT InOrder
INVARIANT LagExact
INVARIANT CursorBack
INVARIANT WritesNear
PROPERTY Drains
