SPECIFICATION TestSpec
CONSTANTS
  DIRECTORY_SLOTS = 6
  INITIAL_PAGE_TABLES = 4
  MAX_DYNAMIC_TABLES = 2
  TABLE_ENTRIES = 2
  VirtualAddresses = {}
  PhysicalAddresses = {}
  FlagArgs = {}
  TLB_SIZE = 1
  TypeAhead = TRUE
INVARIANTS NoTestFails TlbFresh MapAsBooted LeakBounded
