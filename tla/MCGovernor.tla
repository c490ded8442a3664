----------------------------- MODULE MCGovernor -----------------------------
(***************************************************************************)
(* Instances of Governor for TLC.  Two epics let one be run, skipped or    *)
(* completed while the other is under way; two runs let a run find what an *)
(* earlier one left behind.                                                *)
(***************************************************************************)
EXTENDS Governor

CONSTANTS e1, e2, r1, placeholder

MCNames == {e1, e2, r1, placeholder}

\* A release id is anything the planner suggests.
EpicReleaseId == [e \in Epics |-> IF e = e1 THEN r1 ELSE e1]
=============================================================================
