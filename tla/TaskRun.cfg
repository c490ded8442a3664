SPECIFICATION Spec
CONSTANTS
  MaxAttempts = 3
  Options <- MCOptions
  Changes <- MCChanges
  Seconds = {0}
  MaxSuffix = 6
  MaxReleases = 2
  NoRun = NoRun
INVARIANTS
  EvidenceIsFresh
  AcceptedWorkIsKept
PROPERTIES
  ImplementsAttempts
CHECK_DEADLOCK FALSE
