SPECIFICATION KeptSpec
CONSTANTS
  VFS_MAX_ENTRIES = 3
  VFS_DATA_SECTORS = 3
  First <- MCFirst
  Text <- MCText
  Last <- MCLast
  DefaultFiles = {1}
  Names = {"f"}
  LongNames = {}
  Cut = {}
  Stored <- MCStored
  Texts = {"L"}
  LongTexts = {"L"}
  ReadFails = TRUE
INVARIANT FilesRetained
