SPECIFICATION CommandSpec
CONSTANTS
  Sessions <- MCSessions
  PromptFits = TRUE
  PipeSize = 1
  MaxPieces = 2
CHECK_DEADLOCK FALSE
INVARIANTS ResultIsTrue
PROPERTIES CommandReturns
