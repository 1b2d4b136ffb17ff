CONSTANTS
  Irqs = {1, 6, 12}
  MaxDepth = 3
SPECIFICATION FairSpec
INVARIANT TypeOK
INVARIANT HandlersExclusive
INVARIANT InServiceOfTop
PROPERTY HighestServed
