----------------------------- MODULE MCTaskRun ------------------------------
(***************************************************************************)
(* An instance of TaskRun for TLC.  Three attempts allow three runs; two   *)
(* starts of the release let a run meet what another one left; one reading *)
(* of the clock makes every run id clash.                                  *)
(***************************************************************************)
EXTENDS TaskRun

Plain == [mode |-> "none", supervised |-> TRUE, hasSrc |-> TRUE, keep |-> FALSE]

\* Each option is met in each of its values.
MCOptions ==
  {Plain, [Plain EXCEPT !.mode = "commit", !.hasSrc = FALSE],
   [Plain EXCEPT !.mode = "merge", !.supervised = FALSE],
   [Plain EXCEPT !.mode = "merge"], [Plain EXCEPT !.keep = TRUE]}

\* One thing at a time, and two together.
MCChanges ==
  {[NoWork EXCEPT !.scope = s] : s \in Scopes}
    \cup {[NoWork EXCEPT !.violations = TRUE], [NoWork EXCEPT !.overage = "severe"]}
    \cup {[NoWork EXCEPT !.scope = s, !.overage = "modest"] : s \in {"inside", "outside"}}

=============================================================================
