CONSTANTS
  HEAP_START = 1
  HEAP_END = 19
  R_HEADER_SIZE = 2
  Sizes = {0, 1, 3}
SPECIFICATION LinksSpec
INVARIANTS
  IInv
  FailsOnlyWhenFull
  AllFreedIsInitial
PROPERTIES
  ImplementsAllocator
  ImplementsHeap
