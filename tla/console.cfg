SPECIFICATION Spec
CONSTANTS
  ROWS = 2
  COLS = 4
  MAX_LINE = 2
  PROMPT <- MCPrompt
  Chars = {"a", "b"}
  Outputs <- MCOutputs
  QUEUE = 2
INVARIANTS BufferOK LineIsTyped ScreenShowsLine
PROPERTY ExecutesTheLine
