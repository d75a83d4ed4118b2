SPECIFICATION Spec
CONSTANTS
  DIRECTORY_SLOTS = 3
  INITIAL_PAGE_TABLES = 1
  MAX_DYNAMIC_TABLES = 2
  TABLE_ENTRIES = 2
  VirtualAddresses <- MCVirtual
  PhysicalAddresses <- MCPhysical
  FlagArgs <- MCFlags
  TLB_SIZE = 1
INVARIANTS PagingInv PoolSuffices
PROPERTY AddressSpaceSpec
