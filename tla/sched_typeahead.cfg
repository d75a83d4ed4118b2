SPECIFICATION Spec
CONSTANTS
  MAX_USER_PROCESSES = 3
  Ops <- AllOps
  KillPids <- TypeAheadPids
  TypeAhead = TRUE
INVARIANTS PidsDistinct
PROPERTY NoResurrection
CHECK_DEADLOCK FALSE
