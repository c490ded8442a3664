------------------------------ MODULE MCRelease ------------------------------
(* Instances of Release for TLC.                                           *)
EXTENDS Release

MCTasks == 1..3

Plan(depends, minor, unsafe, reviewer) ==
    [dependsOn |-> depends, minor |-> minor, unsafe |-> unsafe,
     reviewer |-> reviewer, handsOver |-> TRUE]

\* Three tasks whose edges form: a join, an edge against the contract order, a cycle.
Join     == <<{}, {}, {1, 2}>>
Backward == <<{2}, {}, {}>>
Cycle    == <<{2}, {1}, {}>>

\* Next to them: a reported overlap that adds an edge, and one more with a blocking overlap that
\* leaves only part of the release runnable.
MCPlans ==
    { Plan(Join, {}, {}, TRUE), Plan(Join, {{1, 2}}, {}, FALSE), Plan(Cycle, {}, {}, FALSE),
      Plan(Backward, {{2, 3}}, {{1, 3}}, FALSE) }

Flags(parallel, stop, accept) ==
    [parallel |-> parallel, stop |-> stop, accept |-> accept, finalize |-> TRUE]

MCOptions == { Flags(TRUE, TRUE, "merge"), Flags(FALSE, TRUE, "merge"),
               Flags(TRUE, FALSE, "keep"), Flags(FALSE, FALSE, "commit") }
MCSelections == {{1, 2}, {1, 2, 3}}
=============================================================================
