SPECIFICATION FairSpec
CONSTANTS
  Sectors = {100, 200}
  Words = {0, 1}
  LENGTH = 2
  DISK_TEST_SECTOR = 100
  Pattern <- MCPattern
  Zeros <- MCZeros
  Payloads <- MCPayloads
  TIMEOUT = 2
  TypeAhead = TRUE
PROPERTIES StoreUntilTrouble ErrorSticks CallReturns
