SPECIFICATION LiveSpec
CONSTANTS
  e1 = e1
  e2 = e2
  r1 = r1
  placeholder = placeholder
  Names <- MCNames
  NoEpic = NoEpic
  Epics = {e1, e2}
  Placeholder = placeholder
  ReleaseOf <- EpicReleaseId
  HasStore = TRUE
  Finalize = TRUE
  StopOnFailure = TRUE
  PlanningOnly = TRUE
  MayAbort = TRUE
  TornSaves = TRUE
  EpicCount = 2
  MaxRuns = 3
INVARIANTS
  StoreInv
  OnlyAfterSuccess
PROPERTIES
  NoSilentRerun
  HandedOverSettles
  ImplementsLifecycle
CHECK_DEADLOCK FALSE
