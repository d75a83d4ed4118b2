SPECIFICATION FairSpec
CONSTANTS
  MAX_LINE = 2
  Chars = {"a"}
  QUEUE = 1
  Spaced = TRUE
INVARIANTS InBounds KeySeen
PROPERTY PromptReturns
