------------------------------ MODULE Governor ------------------------------
(***************************************************************************)
(* The governor loop: run_epics of governor.py calls run_one_epic once per *)
(* cycle, applies the post-cycle refresh and decides whether another cycle *)
(* follows.  What it remembers between cycles, and between runs, is the    *)
(* state file of StateStore.  The objective run is the environment here:   *)
(* it ends with any result the code below it can return, or raises.        *)
(*                                                                         *)
(* One process runs at a time.  It may be killed, and an exception may end *)
(* it, at any point; the state file is what the next run finds.            *)
(***************************************************************************)
EXTENDS StateStore, Naturals

CONSTANTS
  Epics,            \* the epics of the backlog plans
  Placeholder,      \* "no-actionable-work"
  ReleaseOf,        \* the release id an epic suggests
  HasStore,         \* the project has a repo_state_path
  Finalize,         \* release_finalize is not "none"
  StopOnFailure,
  PlanningOnly,     \* the selector may choose a strategy without contracts
  MayAbort,         \* a cycle may end by an exception or a kill
  TornSaves,        \* a kill may leave the file truncated: save is write_text
  EpicCount,        \* epic_count
  MaxRuns           \* bound: the governor runs looked at

ASSUME GovernorAssumption ==
  /\ Epics \subseteq Names
  /\ Placeholder \in Names \ Epics
  /\ ReleaseOf \in [Epics -> Names]
  /\ {HasStore, Finalize, StopOnFailure, PlanningOnly, MayAbort, TornSaves} \subseteq BOOLEAN
  /\ EpicCount \in Nat \ {0}
  /\ MaxRuns \in Nat

VARIABLES
  pc,         \* where run_epics and run_one_epic are
  store,      \* backlog_state.yaml
  cycle,      \* cycle_index
  request,    \* --epic-id, or NoEpic
  seen,       \* seen_epic_ids
  epic,       \* selected_epic_id of the cycle
  result,     \* what the cycle says of the release
  stop,       \* the stop reason of the last run
  runs,       \* the runs started so far
  executed,   \* history: the epics handed to run_objective, over all runs, as
              \* long as the file was not lost
  attempts    \* history: how often an epic was handed over in this run

vars == <<pc, store, cycle, request, seen, epic, result, stop, runs, executed, attempts>>

Decisions == {"accepted", "needs_revision", "failed", "escalated"}

StopReasons ==
  {"none", "requested_epic_count_reached", "repeated_epic_selected",
   "planning_only_strategy", "release_not_accepted", "no_actionable_work",
   "blocked_finalization", "state_refresh_failed", "exception"}

\* A cycle without a release: nothing to do, or a plan and no contracts.
NoRelease(kind) ==
  [kind |-> kind, decision |-> "none", allowed |-> FALSE, finalization |-> "none"]

\* run_release: the gate allows accepted releases only, and only an allowed one
\* is finalized.  "handoff" is the policy pr_preparation: the handoff is written
\* and the finalization is None, as it is for a missing policy.
Releases ==
  {r \in [kind : {"release"}, decision : Decisions, allowed : BOOLEAN,
          finalization : {"none", "done", "failed", "handoff"}] :
     /\ r.allowed => r.decision = "accepted"
     /\ r.finalization # "none" => r.allowed /\ Finalize}

Outcomes ==
  Releases \cup (IF PlanningOnly THEN {NoRelease("planning_only")} ELSE {})

Results == Outcomes \cup {NoRelease("no_actionable")}

Explicit == IF cycle = 1 THEN request ELSE NoEpic

Accepted(r) == r.kind = "release" /\ r.decision = "accepted"

\* _blocked_finalization_result.
BlockedFinalization(r) ==
  /\ Finalize
  /\ Accepted(r)
  /\ ~r.allowed \/ r.finalization \in {"none", "handoff", "failed"}

\* Without a repo_state_path there is no store to write to.
Save(s) == store' = IF HasStore THEN s ELSE store

(***************************************************************************)
(* One cycle                                                               *)
(***************************************************************************)

\* Variant for checking: records of earlier attempts are not looked at.
NoActionableReasonWithoutMemory(e) ==
  /\ HasStore
  /\ Explicit = NoEpic
  /\ Lifecycle(store, e) \in {"skipped", "completed", "blocked"}

\* Variant for checking: a completed epic may be selected again.
NoActionableReasonUnlessCompleted(e) ==
  /\ HasStore
  /\ Explicit = NoEpic
  /\ Lifecycle(store, e) \notin {"new", "completed"}

\* _no_actionable_reason_for_selected_epic.
NoActionableReason(e) ==
  /\ HasStore
  /\ Explicit = NoEpic
  /\ Lifecycle(store, e) # "new"

\* The planner names any epic of its plan, or none.
SelectEpic ==
  /\ pc = "planning"
  /\ \/ /\ Explicit = NoEpic
        /\ epic' = Placeholder
        /\ result' = NoRelease("no_actionable")
        /\ pc' = "refresh"
        /\ UNCHANGED store
     \/ \E e \in Epics :
          /\ Explicit \in {NoEpic, e}
          /\ epic' = e
          /\ IF NoActionableReason(e)
             THEN /\ Save(MarkSkipped(store, e))
                  /\ result' = NoRelease("no_actionable")
                  /\ pc' = "refresh"
             ELSE /\ Save(MarkActive(store, e))
                  /\ pc' = "activated"
                  /\ UNCHANGED result
  /\ UNCHANGED <<cycle, request, seen, stop, runs, executed, attempts>>

\* The objective is written and run_objective is called.
BeginObjective ==
  /\ pc = "activated"
  /\ pc' = "running"
  /\ executed' = executed \cup {epic}
  /\ attempts' = [attempts EXCEPT ![epic] = @ + 1]
  /\ UNCHANGED <<store, cycle, request, seen, epic, result, stop, runs>>

\* run_objective returns.  A release may have left follow-up memory behind,
\* which is kept under the id of the release.
FinishObjective ==
  /\ pc = "running"
  /\ pc' = "returned"
  /\ result' \in Outcomes
  /\ \/ UNCHANGED store
     \/ result'.kind = "release" /\ Save(GetOrCreate(store, ReleaseOf[epic]))
  /\ UNCHANGED <<cycle, request, seen, epic, stop, runs, executed, attempts>>

Mark(s, e, r) ==
  IF BlockedFinalization(r) THEN MarkBlocked(s, e)
  ELSE IF Accepted(r) THEN MarkCompleted(s, e)
  ELSE IF r.kind = "planning_only" THEN MarkReviewed(s, e)
  ELSE MarkBlocked(s, e)

MarkOutcome ==
  /\ pc = "returned"
  /\ pc' = "refresh"
  /\ Save(Mark(store, epic, result))
  /\ UNCHANGED <<cycle, request, seen, epic, result, stop, runs, executed, attempts>>

(***************************************************************************)
(* After the cycle                                                         *)
(***************************************************************************)

\* Variant for checking: a failed release is taken for one in progress.
RefreshStateOptimistic(r) ==
  IF r.kind = "no_actionable" THEN "skipped"
  ELSE IF BlockedFinalization(r) THEN "blocked"
  ELSE IF r.decision = "accepted" THEN "completed"
  ELSE "active"

\* _lifecycle_and_reason, and build_no_actionable_post_cycle_state_refresh.
RefreshState(r) ==
  IF r.kind = "no_actionable" THEN "skipped"
  ELSE IF BlockedFinalization(r) THEN "blocked"
  ELSE IF r.decision = "accepted" THEN "completed"
  ELSE IF r.decision = "none" THEN "active"
  ELSE "blocked"

EndRun(reason) == pc' = "idle" /\ stop' = reason

PostCycleRefresh ==
  /\ pc = "refresh"
  /\ Save(ApplyRefresh(store, epic, RefreshState(result)))
  /\ pc' = "deciding"
  /\ UNCHANGED <<cycle, request, seen, epic, result, stop, runs, executed, attempts>>

\* Building or writing the artifact, or the update, raises.
RefreshFails ==
  /\ pc = "refresh"
  /\ HasStore /\ MayAbort
  /\ EndRun("state_refresh_failed")
  /\ UNCHANGED <<store, cycle, request, seen, epic, result, runs, executed, attempts>>

\* Variant for checking: a release that was not accepted never stops the loop.
StopReasonIgnoringFailure ==
  IF result.kind = "no_actionable" THEN "no_actionable_work"
  ELSE IF epic \in seen THEN "repeated_epic_selected"
  ELSE IF result.kind = "planning_only" THEN "planning_only_strategy"
  ELSE IF cycle = EpicCount THEN "requested_epic_count_reached"
  ELSE "none"

\* Why run_epics stops after a cycle, in the order it looks, or "none".
StopReason ==
  IF result.kind = "no_actionable" THEN "no_actionable_work"
  ELSE IF epic \in seen THEN "repeated_epic_selected"
  ELSE IF result.kind = "planning_only" THEN "planning_only_strategy"
  ELSE IF BlockedFinalization(result) THEN "blocked_finalization"
  ELSE IF ~Accepted(result) /\ StopOnFailure THEN "release_not_accepted"
  ELSE IF cycle = EpicCount THEN "requested_epic_count_reached"
  ELSE "none"

StopAfterCycle ==
  /\ pc = "deciding"
  /\ StopReason # "none"
  /\ EndRun(StopReason)
  /\ IF StopReason = "repeated_epic_selected"
     THEN Save(MarkSkipped(store, epic))
     ELSE UNCHANGED store
  /\ seen' = IF StopReason \in {"no_actionable_work", "repeated_epic_selected"}
             THEN seen ELSE seen \cup {epic}
  /\ UNCHANGED <<cycle, request, epic, result, runs, executed, attempts>>

\* The release summary goes to recent_run_summaries, and the next cycle starts.
NextCycle ==
  /\ pc = "deciding"
  /\ StopReason = "none"
  /\ seen' = seen \cup {epic}
  /\ cycle' = cycle + 1
  /\ pc' = "planning"
  /\ UNCHANGED <<store, request, epic, result, stop, runs, executed, attempts>>

(***************************************************************************)
(* The runs                                                                *)
(***************************************************************************)

StartRun ==
  /\ pc = "idle"
  /\ runs < MaxRuns
  /\ pc' = "planning"
  /\ request' \in Epics \cup {NoEpic}
  /\ cycle' = 1
  /\ seen' = {}
  /\ stop' = "none"
  /\ runs' = runs + 1
  /\ attempts' = [e \in Epics |-> 0]
  /\ UNCHANGED <<store, epic, result, executed>>

\* An exception in the planner, in ensure_objective_for_epic, in run_objective
\* or in what follows it; or the process is killed.
Abort ==
  /\ MayAbort
  /\ pc # "idle"
  /\ EndRun("exception")
  /\ UNCHANGED <<store, cycle, request, seen, epic, result, runs, executed, attempts>>

\* Killed in write_text between the truncation and the write: load takes the
\* empty file for an empty state.
TornSave ==
  /\ TornSaves /\ HasStore
  /\ pc \in {"planning", "running", "returned", "refresh"}
  /\ store' = EmptyState
  /\ executed' = {}
  /\ EndRun("exception")
  /\ UNCHANGED <<cycle, request, seen, epic, result, runs, attempts>>

\* A state file with a history, in which ids may have no record.
History(completed, blocked, recorded) ==
  [EmptyState EXCEPT !.completed_epics = completed, !.blocked_epics = blocked,
                     !.records = [@ EXCEPT !["completed"] = recorded, !["blocked"] = blocked]]

\* The state files a project may bring along.
InitialStore ==
  IF HasStore
  THEN /\ \E c, b, r \in SUBSET Epics : store = History(c, b, r)
       /\ Consistent(store)
  ELSE store = EmptyState

Init ==
  /\ pc = "idle"
  /\ InitialStore
  /\ cycle = 1
  /\ request = NoEpic
  /\ seen = {}
  /\ epic = Placeholder
  /\ result = NoRelease("no_actionable")
  /\ stop = "none"
  /\ runs = 0
  /\ executed = {}
  /\ attempts = [e \in Epics |-> 0]

Step == SelectEpic \/ BeginObjective \/ FinishObjective \/ MarkOutcome
        \/ PostCycleRefresh \/ StopAfterCycle \/ NextCycle

Next == StartRun \/ Step \/ RefreshFails \/ Abort \/ TornSave

Spec == Init /\ [][Next]_vars

\* A process that is not killed goes on, and run_objective returns: executors,
\* verification commands and planners run under timeouts.
LiveSpec == Spec /\ WF_vars(Step)

(***************************************************************************)
(* Properties                                                              *)
(***************************************************************************)

TypeOK ==
  /\ pc \in {"idle", "planning", "activated", "running", "returned", "refresh", "deciding"}
  /\ store \in BacklogState
  /\ cycle \in 1..EpicCount
  /\ request \in Epics \cup {NoEpic}
  /\ seen \subseteq Epics
  /\ epic \in Epics \cup {Placeholder}
  /\ result \in Results
  /\ stop \in StopReasons
  /\ runs \in 0..MaxRuns
  /\ executed \subseteq Epics
  /\ attempts \in [Epics -> Nat]

\* What state_store.py keeps twice stays in step: an epic has one record, and
\* completed_epics, blocked_epics and active_epic agree with the list it is in,
\* through every sequence of the mark_* operations, the follow-up memory of a
\* release, kills between two saves and old files (state_store.py:236-555).
StoreInv == Consistent(store)

\* While a cycle runs, its epic is the one the file calls active: whatever the
\* objective run itself adds to the file (governor.py:403-468).
RunningIsActive ==
  HasStore /\ pc \in {"activated", "running", "returned"} =>
    store.active_epic = epic /\ Lifecycle(store, epic) = "active"

\* With stop_on_failure, the governor looks for another epic only while every
\* epic of the run is durably completed; a release that was not accepted, or
\* not finalized, is never built upon (governor.py:221-285).
OnlyAfterSuccess ==
  HasStore /\ StopOnFailure /\ pc \in {"planning", "activated", "running", "returned"} =>
    \A e \in seen : Lifecycle(store, e) = "completed"

\* In one run no epic is handed over twice; without a state file, which is all
\* that seen_epic_ids has to go by, not more than twice (governor.py:251-261).
AttemptsBounded ==
  \A e \in Epics : attempts[e] <= IF HasStore THEN 1 ELSE 2

\* Over all runs, kills included, an epic that was handed to run_objective is
\* handed over again only if the operator names it, or if the state file was
\* lost to a torn save since (governor.py:668-689).
NoSilentRerun ==
  [][pc = "activated" /\ pc' = "running" => epic \notin executed \/ Explicit = epic]_vars

\* The refresh of governor.py:221-228 finds the epic as run_one_epic left it
\* (governor.py:452-468): the two derive the same state from the same result.
RefreshConfirmsMark ==
  [][pc = "refresh" /\ pc' = "deciding" /\ HasStore =>
       epic = Placeholder \/ Lifecycle(store', epic) = Lifecycle(store, epic)]_vars

\* An accepted release that is handed over for a manual merge completes its epic
\* (docs/USER_GUIDE.md:896).  Not so of the code: without a finalization result
\* the governor blocks it.
HandoffIsCompleted ==
  pc = "deciding" /\ HasStore /\ result.finalization = "handoff" =>
    Lifecycle(store, epic) = "completed"

\* An epic that was handed over reaches the decision about the next cycle, or the
\* process died, and at that decision it is durably completed or blocked, never
\* left active, unless only a plan was made of it (governor.py:446-468, 596-666).
HandedOverSettles ==
  /\ \A e \in Epics : pc = "running" /\ epic = e ~> pc \in {"deciding", "idle"}
  /\ [](pc = "deciding" /\ HasStore /\ result.kind = "release" =>
          Lifecycle(store, epic) \in {"completed", "blocked"})

\* What the state file promises of an epic, whatever happens to the governor.
Lifecycles == INSTANCE EpicLifecycle WITH
  status <- [e \in Epics |-> Lifecycle(store, e)],
  wanted <- IF Explicit = NoEpic THEN {} ELSE {Explicit},
  MayForget <- TornSaves

ImplementsLifecycle == Lifecycles!Spec
=============================================================================
