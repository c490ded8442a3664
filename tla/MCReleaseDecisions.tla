------------------------ MODULE MCReleaseDecisions ------------------------
(***************************************************************************)
(* An instance of ReleaseDecisions for TLC: tasks and a repair task as     *)
(* model values, tasks being alike.                                        *)
(***************************************************************************)
EXTENDS ReleaseDecisions, TLC

CONSTANTS t1, t2, f1

Alike == Permutations({t1, t2})
=============================================================================
