---------------------------- MODULE TaskAttempts ----------------------------
(***************************************************************************)
(* What the execution of one task promises its release: the task is tried  *)
(* in runs, at most MaxRuns of them; a run accepts the work it stands on   *)
(* exactly when the work is sound, and refuses it otherwise; only a refused *)
(* task is tried again without somebody starting the release again; what   *)
(* cannot be executed or finalized is escalated and left to that somebody. *)
(* TaskRun implements this specification.                                  *)
(***************************************************************************)
EXTENDS Integers

CONSTANT MaxRuns   \* runs of the task within one release

VARIABLES
  status,   \* waiting, working, accepted, refused, escalated or broken
  sound,    \* the work passed its checks as it stands
  runs      \* runs started since the release was started

vars == <<status, sound, runs>>

Init ==
  /\ status = "waiting"
  /\ sound = FALSE
  /\ runs = 0

Begin ==
  /\ status \in {"waiting", "refused"}
  /\ runs < MaxRuns
  /\ status' = "working"
  /\ sound' = FALSE
  /\ runs' = runs + 1

\* The worker, and the checks, go on.
Work ==
  /\ status = "working"
  /\ sound' \in BOOLEAN
  /\ UNCHANGED <<status, runs>>

Accept ==
  /\ status = "working"
  /\ sound
  /\ status' = "accepted"
  /\ UNCHANGED <<sound, runs>>

Refuse ==
  /\ status = "working"
  /\ ~sound
  /\ status' = "refused"
  /\ UNCHANGED <<sound, runs>>

Escalate ==
  /\ status \in {"working", "accepted"}
  /\ status' = "escalated"
  /\ UNCHANGED <<sound, runs>>

\* An exception or a kill, at any time.
Break ==
  /\ status' = "broken"
  /\ UNCHANGED <<sound, runs>>

\* Somebody starts the release again.
Again ==
  /\ status # "working"
  /\ status' = "waiting"
  /\ sound' = FALSE
  /\ runs' = 0

Next == Begin \/ Work \/ Accept \/ Refuse \/ Escalate \/ Break \/ Again

Spec == Init /\ [][Next]_vars

=============================================================================
