CONSTANTS
  Entry = {a, b}
  MaxEntries = 3
SPECIFICATION Spec
INVARIANT PositionsAgree
PROPERTY IsQueue
