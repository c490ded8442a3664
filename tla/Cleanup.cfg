SPECIFICATION Spec
CONSTANTS
  r1 = r1  r2 = r2  t1 = t1  t2 = t2  t3 = t3
  Base = Base
  Releases = {r1, r2}
  Tasks = {t1, t2, t3}
  ReleaseOf <- MCReleaseOf
  NamedFor <- MCAlike
  SummarizedFor <- MCAlike
  MaxRuns = 2
  MaxCleanups = 1
SYMMETRY Twins
CHECK_DEADLOCK FALSE
INVARIANTS CommitsSurvive CompletedWorkIsThere
PROPERTIES CleanupIsThorough
