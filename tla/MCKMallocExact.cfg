CONSTANTS
  HeapSize = 12
  Requests = {1, 3}
  Roomy = FALSE
  Fill = 5
SPECIFICATION Spec
INVARIANT HeadersIntact
