SPECIFICATION LiveSpec
CONSTANTS
  f1 = f1
  f2 = f2
  Ids = {f1, f2}
  MaxLoops = 2
  MaxFindings = 2
  Blocked = Blocked
  SchemaInvalid = SchemaInvalid
INVARIANTS
  BlockersAnswered
  DeferredIsOnRecord
PROPERTIES
  LoopEnds
  LoopAdvances
  MergedReviewContinues
  ImplementsConvergence
CHECK_DEADLOCK FALSE
