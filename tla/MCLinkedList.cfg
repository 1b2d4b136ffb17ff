SPECIFICATION Spec
CONSTANTS
  Data = {c, d}
  Node = {n1, n2, n3, n4}
  NULL = NULL
INVARIANTS Agree
PROPERTY IsDataList
CHECK_DEADLOCK FALSE
