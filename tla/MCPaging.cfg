CONSTANTS
  WordBits = 4
  PageUnits = 2
  AddrUnits = 32
  LowPages = 1
  KernelStart = 6
  KernelEnd = 9
  Afters <- MCAfters
  MaxHanded = 8
  Maps <- MCMaps
  Entries = 4
  Dirs = {kernel, user}
  Kernel = kernel
  Garbage <- MCGarbage
  Virtuals <- MCVirtuals
  Frames <- MCFrames
  MaxMaps = 2
SPECIFICATION PSpec
INVARIANTS PagesOwned LostOnlyWhenFull CountExact Translates Identity
PROPERTY AfterKept
CHECK_DEADLOCK FALSE
