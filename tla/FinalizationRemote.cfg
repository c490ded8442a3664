SPECIFICATION LiveSpec
CONSTANTS
  t1 = t1
  t2 = t2
  t3 = t3
  r1 = r1
  p1 = p1
  p2 = p2
  ext = ext
  External = ext
  Integration = feature
  Main = main
  Nobody = Nobody
  Tasks = {t1, t2}
  Releases = {r1}
  Procs = {p1, p2}
  ProcOf <- TwoProcesses
  Conflicts <- RemoteConflicts
  Mode = "push"
  HasRemote = TRUE
  ConfigBound = TRUE
  GitMayFail = FALSE
  MayCrash = TRUE
  SecondStart = TRUE
INVARIANTS
  ReportIsTrue
PROPERTIES
  MergesOnlyIntoTarget
  FinalizationEnds
  FinalizerAdvances
  ImplementsTurns
CHECK_DEADLOCK FALSE
