SPECIFICATION Spec
CONSTANTS
  TOTAL_PAGES = 6
  MAX_ALLOCATIONS = 4
  PAGE_SIZE = 4
  WORD = 32
  Sizes <- AllSizes
  Offsets <- AllOffsets
INVARIANTS HeapInv LoopFindsFirstFit
PROPERTY PoolSpec
