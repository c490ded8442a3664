SPECIFICATION Spec
CONSTANTS
  t1 = t1
  t2 = t2
  t3 = t3
  r1 = r1
  p1 = p1
  p2 = p2
  ext = ext
  External = ext
  Integration = feature
  Main = main
  Nobody = Nobody
  Tasks = {t1, t2, t3}
  Releases = {}
  Procs = {p1}
  ProcOf <- OneProcess
  Conflicts <- LocalConflicts
  Mode = "merge"
  HasRemote = FALSE
  ConfigBound = FALSE
  GitMayFail = TRUE
  MayCrash = TRUE
  SecondStart = TRUE
INVARIANTS
  MergeIsFastForward
PROPERTIES
  WorkIsNeverLost
CHECK_DEADLOCK FALSE
