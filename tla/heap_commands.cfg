SPECIFICATION FairRaceSpec
CONSTANTS
  TOTAL_PAGES = 4
  MAX_ALLOCATIONS = 2
  BYTE = 2
  WORD = 5
  PAGES_A = 1
  PAGES_B = 2
  PAGES_C = 2
  Overlapping = {"memtest"}
  OVERLAPS = 3
INVARIANT HeapRestored
PROPERTIES RacePoolSpec CommandReturns
