--------------------------- MODULE MCFinalization ---------------------------
(***************************************************************************)
(* Instances of Finalization for TLC.  Three tasks are enough for a task   *)
(* to meet a holder, a task that was merged and a task that was not; two   *)
(* of them clash with each other.                                          *)
(***************************************************************************)
EXTENDS Finalization

CONSTANTS t1, t2, t3, r1, p1, p2, ext

\* All tasks are threads of one parallel release.
OneProcess == [f \in Finalizers |-> p1]

\* t1 and the release that merges it run in one process, the others elsewhere.
TwoProcesses == [f \in Finalizers |-> IF f \in {t1, r1} THEN p1 ELSE p2]

LocalConflicts  == {{t1, t2}}
RemoteConflicts == {{t1, t2}, {t1, ext}}

=============================================================================
