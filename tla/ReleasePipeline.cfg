\* Several runs of small releases, with kills, exceptions and reruns in between.
CONSTANTS
    Tasks <- MCTasks
    Plans <- MCPlans
    Options <- MCOptions
    Selections <- MCSelections
    RepairWork = repair
    MaxReruns = 1
    MaxRuns = 2
SPECIFICATION LiveSpec
INVARIANTS RememberedWorkIsThere DependencyWorkVisible OverlapsNeverConcurrent
    AcceptedReleaseIsWhole
PROPERTIES ImplementsLedger RunAdvances MergedRunsAreVerified EveryRunEnds
CHECK_DEADLOCK FALSE
