SPECIFICATION Spec
CONSTANTS
  t1 = t1  t2 = t2  f1 = f1
  Tasks = {t1, t2}
  Repairs = {f1}
  Whole = Whole
  Overlapping = TRUE
  Mode = "parallel"
  ReviewLimit = 2
  Constrained = FALSE
  MaxRuns = 3
  MaxWrites = 2
SYMMETRY Alike
CHECK_DEADLOCK FALSE
INVARIANTS OverageIsAnswered CapsAlternate
