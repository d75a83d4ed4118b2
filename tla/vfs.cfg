SPECIFICATION KeptSpec
CONSTANTS
  VFS_MAX_ENTRIES = 3
  VFS_DATA_SECTORS = 3
  First <- MCFirst
  Text <- MCText
  Last <- MCLast
  DefaultFiles = {2}
  Names = {"p1", "longer", "hello.txt", ".."}
  LongNames = {"p1", "longer"}
  Cut = {"longer"}
  Stored <- MCStored
  Texts = {"L"}
  LongTexts = {"L"}
  ReadFails = FALSE
INVARIANTS TableOK NoDuplicates Durable OneEntryAtRisk KeptOnDisk
