---------------------------- MODULE ReleaseLedger ----------------------------
(***************************************************************************)
(* What a release promises over its runs, whoever schedules the tasks, in  *)
(* whatever order they finish and wherever a run breaks off.  Work that is *)
(* on the branch stays there.  A run does no contract again that an earlier*)
(* one has recorded, and under --merge-on-accept accepts none whose work   *)
(* does not reach the branch.  After the last task the branch is handed    *)
(* over at most once, as it stands, and only if no contract is missing.    *)
(* What a run records is what it accepted itself and the branch holds; a   *)
(* run that breaks off records nothing.  Release implements this           *)
(* specification.                                                          *)
(***************************************************************************)

CONSTANTS
    Tasks,        \* the tasks of the release
    Selections    \* the sets of contracts a run may be started with

VARIABLES
    run,          \* off, working, judging or closing
    merging,      \* accepted work is merged
    wanted,       \* the contracts of the run
    accepted,     \* those it has accepted so far
    work,         \* what the branch holds
    done,         \* what is recorded as done
    delivered     \* what was handed over last

vars == <<run, merging, wanted, accepted, work, done, delivered>>

Init ==
    /\ run = "off"
    /\ merging \in BOOLEAN
    /\ wanted = {} /\ accepted = {}
    /\ work = {} /\ done = {} /\ delivered = {}

Begin ==
    /\ run = "off"
    /\ run' = "working"
    /\ merging' \in BOOLEAN
    /\ wanted' \in Selections
    /\ UNCHANGED <<accepted, work, done, delivered>>

Accept(t) ==
    /\ run = "working"
    /\ t \in wanted \ (done \union accepted)
    /\ accepted' = accepted \union {t}
    /\ work' \in {work, work \union {t}}
    /\ merging => t \in work'
    /\ UNCHANGED <<run, merging, wanted, done, delivered>>

\* The last task has its result.
Judge ==
    /\ run = "working"
    /\ run' = "judging"
    /\ UNCHANGED <<merging, wanted, accepted, work, done, delivered>>

Whole ==
    /\ wanted \subseteq accepted \union done
    /\ merging => wanted \subseteq work

\* The branch is handed over if the release is whole, or it is not.
Deliver ==
    /\ run = "judging"
    /\ run' = "closing"
    /\ delivered' = delivered \/ (Whole /\ delivered' = work)
    /\ UNCHANGED <<merging, wanted, accepted, work, done>>

Clear == run' = "off" /\ wanted' = {} /\ accepted' = {}

Close ==
    /\ run = "closing"
    /\ Clear
    /\ \E kept \in SUBSET (accepted \intersect work) : done' = done \union kept
    /\ UNCHANGED <<merging, work, delivered>>

\* The run raises or is killed.
Abandon ==
    /\ run # "off"
    /\ Clear
    /\ UNCHANGED <<merging, work, done, delivered>>

Next ==
    \/ Begin
    \/ \E t \in Tasks : Accept(t)
    \/ Judge
    \/ Deliver
    \/ Close
    \/ Abandon

Spec == Init /\ [][Next]_vars
=============================================================================
