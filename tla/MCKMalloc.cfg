CONSTANTS
  HeapSize = 15
  Requests = {0, 2}
  Roomy = TRUE
  Fill = 5
SPECIFICATION Spec
INVARIANT ListsOK
PROPERTY PayloadKept
PROPERTY IsRegionHeap
