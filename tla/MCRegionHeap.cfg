CONSTANTS
  HeapSize = 24
  Header = 3
  Requests = {0, 1, 3}
  Roomy = TRUE
SPECIFICATION Spec
INVARIANT Tiling
PROPERTY IsHeap
