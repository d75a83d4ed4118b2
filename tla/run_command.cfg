SPECIFICATION RunSpec
CONSTANTS
  PAGE = 16
  WORD = 2
  TEXT = 6
  MAX_COMMAND_ARGS = 3
  MAX_COMMAND_ARG_LEN = 6
  Files <- MCFiles
  hello <- A1
  TypeAhead = FALSE
  Letters = {"a", "p", "r"}
  COMMAND_LEN = 3
  LineLength = 5
  Meanings <- MCMeanings
  run <- MCRun
  selftest <- MCSelftest
INVARIANTS TypesOK StackInPage RunsWhatWasAsked ArgumentsArrive
PROPERTY CommandEnds
