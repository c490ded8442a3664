SPECIFICATION Spec
CONSTANTS
  r1 = r1  r2 = r2
  d1 = d1  d2 = d2  review = review  t1 = t1  t2 = t2
  p1 = p1  p2 = p2
  Names = {d1, d2, review, t1, t2}
  Releases = {r1, r2}
  Absent = Absent
  Torn = Torn
  FileBudget = 2
  HasRuntime = TRUE
  Procs = {p1, p2}
  Draft <- MCDraft
  Review = review
  ReviewIsQuoted = FALSE
  UsualProfiles = FALSE
  Directories <- MCDirectories
  Outputs <- MCOutputs
  MaxCalls = 1
  MaxStarts = 2
SYMMETRY Commanders
INVARIANTS RunsOnlyAdmitted RunsItsOwnPlan BudgetKept GivenContractsAreKept
CHECK_DEADLOCK FALSE
