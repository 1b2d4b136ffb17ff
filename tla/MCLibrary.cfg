CONSTANTS
  Bits = 8
  LongBits = 16
  Directives <- MCDirectives
  MaxDirectives = 2
  StringSize = 5
  Byte = {0, 1, 2}
  Images <- MCImages
  TaskSize = 8
SPECIFICATION MCSpec
INVARIANTS  Loaded
PROPERTY CallsKept
CHECK_DEADLOCK FALSE
