SPECIFICATION FairSpec
CONSTANTS
  MAX_USER_PROCESSES = 4
  Ops <- PromptOps
  KillPids <- PromptPids
  TypeAhead = FALSE
INVARIANTS SchedInv ProcessesTracked
PROPERTIES LifecycleSpec NoStarvation ShellRunReturns
CHECK_DEADLOCK FALSE
