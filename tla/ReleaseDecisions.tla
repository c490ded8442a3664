------------------------- MODULE ReleaseDecisions -------------------------
(***************************************************************************)
(* The decision artifacts of run-release: the scheduling decision, the     *)
(* cost-runtime governance decision and the scope-risk decisions, which    *)
(* the run builds itself or finds written in its run directory.            *)
(*                                                                         *)
(* What the decisions are about is cut down to what they depend on: tasks  *)
(* that are accepted and merged, and whether their diff is over the budget;*)
(* a review loop by the number of its repair waves; the earlier runs by the*)
(* metrics in the newest run directory and by the completed tasks of their *)
(* summaries.  The supervisor, a person or a program, writes artifacts into*)
(* the directory at any time.  Dates order the scope decisions.            *)
(***************************************************************************)
EXTENDS Naturals, FiniteSets

CONSTANTS
  Tasks,        \* of the contracts of the release
  Repairs,      \* tasks its feature reviews propose
  Whole,        \* the scope of a decision that is about the whole release
  Overlapping,  \* whether contracts overlap in normal source files
  Mode,         \* execution_mode
  ReviewLimit,  \* feature_review_max_repair_loops
  Constrained,  \* whether the budget class of the model is XS or S
  MaxRuns,      \* bound: runs that are started
  MaxWrites     \* bound: artifacts the supervisor writes in a run

ASSUME DecisionsAssumption ==
  /\ Tasks \cap Repairs = {}
  /\ IsFiniteSet(Tasks)
  /\ Whole \notin Tasks
  /\ Overlapping \in BOOLEAN
  /\ Mode \in {"sequential", "parallel"}
  /\ ReviewLimit \in Nat
  /\ Constrained \in BOOLEAN
  /\ MaxRuns \in Nat
  /\ MaxWrites \in Nat

VARIABLES
  pc,          \* what the run does next; "off" when none is on
  schedule,    \* the scheduling artifact of the run directory
  governance,  \* the governance artifact of the run directory
  scope,       \* its scope-risk artifacts
  corrupt,     \* whether one of them does not load
  action,      \* the scheduling action of the run
  cap,         \* the repair loops the review may take
  done,        \* the tasks this run merged
  over,        \* those of them whose diff is over the budget
  missing,     \* over-budget tasks without a decision when it looked
  dated,       \* the date of the placeholders, later the date of the gate
  decision,    \* task_decision
  metrics,     \* what release_metrics.json of this run says
  evidence,    \* what that of the newest other run directory says
  integration, \* the tasks in the integration branch
  base,        \* the tasks in the base branch
  completed,   \* the tasks that summaries call accepted and merged
  heavy,       \* every task that was ever merged over the budget
  condoned,    \* every task the supervisor ever accepted over the budget
  relapsed,    \* whether the churn of a capped run capped the next one
  runs,
  writes

artifacts == <<schedule, governance, scope, corrupt>>
run       == <<action, cap, done, over, missing, dated, decision, metrics>>
work      == <<evidence, integration, base, completed>>
history   == <<heavy, condoned, relapsed>>
bounds    == <<runs, writes>>
vars == <<pc, artifacts, run, work, history, bounds>>

Phases ==
  {"off", "schedule", "govern", "tasks", "ensure", "place", "gate", "review", "finalize", "summarize"}

Actions == {"sequential", "parallel", "other"}   \* other: stacked, replan or stop

Absent == [form |-> "absent", action |-> "other", fresh |-> FALSE]

\* loose: not a valid decision, but one in the eyes of the normalization.
\* fresh: made for the contracts, the overlaps and the base commit of this run.
Schedules ==
  {Absent} \cup [form : {"whole", "loose", "broken"}, action : Actions, fresh : BOOLEAN]

Metrics == [there : BOOLEAN, churn : BOOLEAN, pressure : BOOLEAN, capped : BOOLEAN]

NoMetrics == [there |-> FALSE, churn |-> FALSE, pressure |-> FALSE, capped |-> FALSE]

Records == [of : Tasks \cup {Whole}, accepts : BOOLEAN, at : Nat, by : {"supervisor", "kernel"}]

TypeOK ==
  /\ pc \in Phases
  /\ schedule \in Schedules
  /\ governance \in {"absent", "review_capped", "other"}
  /\ scope \subseteq Records
  /\ corrupt \in BOOLEAN
  /\ action \in Actions
  /\ cap \in 0..ReviewLimit
  /\ done \subseteq Tasks
  /\ over \subseteq done
  /\ missing \subseteq over
  /\ dated \in Nat
  /\ decision \in {"accepted", "failed", "needs_revision"}
  /\ metrics \in Metrics
  /\ evidence \in Metrics
  /\ integration \subseteq Tasks \cup Repairs
  /\ base \subseteq integration
  /\ completed \subseteq Tasks \cap integration
  /\ heavy \subseteq integration
  /\ condoned \subseteq Tasks
  /\ relapsed \in BOOLEAN
  /\ runs \in 0..MaxRuns
  /\ writes \in 0..MaxWrites

Init ==
  /\ pc = "off"
  /\ schedule = Absent /\ governance = "absent" /\ scope = {} /\ corrupt = FALSE
  /\ action = "other" /\ cap = ReviewLimit /\ decision = "failed" /\ metrics = NoMetrics
  /\ done = {} /\ over = {} /\ missing = {} /\ dated = 0
  /\ evidence = NoMetrics
  /\ integration = {} /\ base = {} /\ completed = {}
  /\ heavy = {} /\ condoned = {} /\ relapsed = FALSE
  /\ runs = 0 /\ writes = 0

\* The run directory is new, and so are the branches of the tasks.
StartRun ==
  /\ pc = "off"
  /\ runs < MaxRuns
  /\ pc' = "schedule"
  /\ runs' = runs + 1
  /\ UNCHANGED <<artifacts, run, work, history, writes>>

\* The run ends.  Its directory is the newest from now on, but only the metrics
\* in it are ever read.
Stop ==
  /\ pc' = "off"
  /\ evidence' = metrics
  /\ schedule' = Absent /\ governance' = "absent" /\ scope' = {} /\ corrupt' = FALSE
  /\ action' = "other" /\ cap' = ReviewLimit /\ decision' = "failed" /\ metrics' = NoMetrics
  /\ done' = {} /\ over' = {} /\ missing' = {} /\ dated' = 0
  /\ writes' = 0

-----------------------------------------------------------------------------
(***************************************************************************)
(* The supervisor                                                          *)
(***************************************************************************)

\* Each artifact may be there before the run gets to it; what is written after
\* it was read is not read.
Supervises ==
  /\ writes < MaxWrites
  /\ writes' = writes + 1
  /\ UNCHANGED <<pc, run, work, relapsed, runs>>

WriteSchedule ==
  /\ pc = "schedule"
  /\ \E s \in Schedules \ {Absent} : schedule' = s
  /\ Supervises
  /\ UNCHANGED <<governance, scope, corrupt, heavy, condoned>>

WriteGovernance ==
  /\ pc \in {"schedule", "govern"}
  /\ \E g \in {"review_capped", "other"} : governance' = g
  /\ Supervises
  /\ UNCHANGED <<schedule, scope, corrupt, heavy, condoned>>

WriteScope(of, accepts) ==
  /\ pc \in {"tasks", "ensure", "place", "gate"}
  /\ Supervises
  /\ scope' = scope \cup
       {[of |-> of, accepts |-> accepts, at |-> Cardinality(scope) + 1, by |-> "supervisor"]}
  /\ condoned' = IF accepts /\ of # Whole THEN condoned \cup {of} ELSE condoned
  /\ UNCHANGED <<schedule, governance, corrupt, heavy>>

\* A file that is torn, or breaks a rule of ScopeRiskBudgetPolicyDecision.
WriteCorrupt ==
  /\ pc \in {"tasks", "ensure", "place", "gate"}
  /\ Supervises
  /\ corrupt' = TRUE
  /\ UNCHANGED <<schedule, governance, scope, heavy, condoned>>

\* Somebody commits to the base branch.
MoveBase ==
  /\ pc = "schedule"
  /\ schedule.fresh
  /\ schedule' = [schedule EXCEPT !.fresh = FALSE]
  /\ UNCHANGED <<pc, governance, scope, corrupt, run, work, history, bounds>>

-----------------------------------------------------------------------------
(***************************************************************************)
(* Scheduling                                                              *)
(***************************************************************************)

Supported == {"sequential", "parallel"}

\* _release_scheduling_action_for_execution_mode
Scheduled == IF Overlapping \/ Mode = "sequential" THEN "sequential" ELSE "parallel"

\* _bounded_normalize_release_scheduling_payload
Normalizable(s) == s.form = "loose" /\ s.action \in Supported

\* The normalization says that the inputs are those of this run, whatever they were.
Repaired(s) == IF Normalizable(s) THEN [s EXCEPT !.form = "whole", !.fresh = TRUE] ELSE s

\* _build_release_scheduling_decision
Built == [form |-> "whole", action |-> Scheduled, fresh |-> TRUE]

\* _load_or_build_release_scheduling_decision
Loaded == IF schedule = Absent THEN Built ELSE Repaired(schedule)

\* The decision loads, its staleness inputs are those of this run, and its action
\* is one that is implemented.
Usable(s) == s.form = "whole" /\ s.fresh /\ s.action \in Supported

Schedule ==
  /\ pc = "schedule"
  /\ Usable(Loaded)
  /\ schedule' = Loaded
  /\ action' = Loaded.action
  /\ pc' = "govern"
  /\ UNCHANGED <<governance, scope, corrupt, cap, done, over, missing, dated, decision, metrics,
                 work, history, bounds>>

\* run_release raises at a decision that does not load, is stale or not supported.
RefuseSchedule ==
  /\ pc = "schedule"
  /\ ~Usable(Loaded)
  /\ Stop
  /\ UNCHANGED <<integration, base, completed, history, runs>>

-----------------------------------------------------------------------------
(***************************************************************************)
(* Cost-runtime governance                                                 *)
(***************************************************************************)

\* build_cost_runtime_governance_decision: churn together with pressure asks for
\* one shot, which nothing in the release acts on.
Governed ==
  IF evidence.there /\ ~Constrained /\ evidence.churn /\ ~evidence.pressure
  THEN "review_capped" ELSE "other"

\* _load_or_build_cost_runtime_governance_decision and the override it gives.
Govern ==
  /\ pc = "govern"
  /\ LET g == IF governance = "absent" THEN Governed ELSE governance IN
     /\ governance' = g
     /\ cap' = IF g = "review_capped" /\ ReviewLimit > 1 THEN 1 ELSE ReviewLimit
     /\ relapsed' = (relapsed \/ (governance = "absent" /\ g = "review_capped" /\ evidence.capped))
  /\ pc' = "tasks"
  /\ UNCHANGED <<schedule, scope, corrupt, action, done, over, missing, dated, decision, metrics,
                 work, heavy, condoned, bounds>>

-----------------------------------------------------------------------------
(***************************************************************************)
(* The tasks and the scope-risk gate                                       *)
(***************************************************************************)

\* Completed tasks are skipped.  A task that is run again after a kill may find
\* its work done and have no diff.
RunTasks ==
  /\ pc = "tasks"
  /\ \E d \in SUBSET (Tasks \ completed) : \E o \in SUBSET d :
       /\ done' = d /\ over' = o
       /\ integration' = integration \cup d
       /\ heavy' = heavy \cup o
       /\ decision' = IF d = Tasks \ completed /\ Tasks # {} THEN "accepted" ELSE "failed"
       /\ pc' = IF o = {} THEN "review" ELSE "ensure"
  /\ UNCHANGED <<artifacts, action, cap, missing, dated, metrics, evidence, base, completed,
                 condoned, relapsed, bounds>>

Of(x) == {r \in scope : r.of = x}

\* _ensure_scope_risk_budget_policy_decisions looks for decisions on tasks; a
\* file that does not load makes the gate refuse.
Ensure ==
  /\ pc = "ensure"
  /\ missing' = IF corrupt THEN {} ELSE {t \in over : Of(t) = {}}
  /\ dated' = Cardinality(scope)
  /\ pc' = IF corrupt THEN "gate" ELSE "place"
  /\ UNCHANGED <<artifacts, action, cap, done, over, decision, metrics, work, history, bounds>>

\* Variant for checking: no placeholder where the release has a decision.
PlaceholdersUnlessWhole ==
  IF Of(Whole) # {} THEN {} ELSE
    {[of |-> t, accepts |-> FALSE, at |-> dated, by |-> "kernel"] : t \in missing}

\* The placeholders do not accept.
Placeholders ==
  {[of |-> t, accepts |-> FALSE, at |-> dated, by |-> "kernel"] : t \in missing}

Place ==
  /\ pc = "place"
  /\ scope' = scope \cup Placeholders
  /\ pc' = "gate"
  /\ UNCHANGED <<schedule, governance, corrupt, run, work, history, bounds>>

\* _select_most_recent
Newest(S) == {r \in S : \A s \in S : s.at <= r.at}

\* A decision on the task comes before one on the release.
Selected(t) == IF Of(t) # {} THEN Newest(Of(t)) ELSE Newest(Of(Whole))

\* _scope_risk_budget_policy_gate
Allowed ==
  /\ ~corrupt
  /\ \A t \in over : Selected(t) # {} /\ \A r \in Selected(t) : r.accepts

Gate ==
  /\ pc = "gate"
  /\ decision' = IF ~Allowed /\ decision = "accepted" THEN "needs_revision" ELSE decision
  /\ dated' = Cardinality(scope)
  /\ pc' = "review"
  /\ UNCHANGED <<artifacts, action, cap, done, over, missing, metrics, work, history, bounds>>

-----------------------------------------------------------------------------
(***************************************************************************)
(* Review, finalization, summary                                           *)
(***************************************************************************)

\* Variant for checking: one wave of repairs is churn.
ChurnEarly(waves) == waves >= 1

\* review_wave_count >= 3, one more than the waves of repairs, or >= 2 of these.
Churn(waves) == waves >= 2

\* The review loop is FeatureReviewLoop; the tasks of its repair waves do not
\* come before the scope-risk gate.  The metrics are written after it.
Review ==
  /\ pc = "review"
  /\ IF decision = "accepted"
     THEN \E waves \in 0..cap, pressure \in BOOLEAN :
          \E repairs \in SUBSET (Repairs \ integration) : \E o \in SUBSET repairs :
            /\ waves = 0 => repairs = {}
            /\ integration' = integration \cup repairs
            /\ heavy' = heavy \cup o
            /\ decision' \in {"accepted", "needs_revision"}
            /\ metrics' = [there |-> TRUE, churn |-> Churn(waves), pressure |-> pressure,
                           capped |-> cap < ReviewLimit]
     ELSE /\ UNCHANGED <<integration, heavy, decision>>
          /\ metrics' = [NoMetrics EXCEPT !.there = TRUE, !.capped = cap < ReviewLimit]
  /\ pc' = "finalize"
  /\ UNCHANGED <<artifacts, action, cap, done, over, missing, dated, evidence, base, completed,
                 condoned, relapsed, bounds>>

\* An accepted release may be merged into the base branch, with all that its
\* integration branch holds.
Finalize ==
  /\ pc = "finalize"
  /\ \/ decision = "accepted" /\ base' = integration
     \/ UNCHANGED base
  /\ pc' = "summarize"
  /\ UNCHANGED <<artifacts, run, evidence, integration, completed, history, bounds>>

\* _completed_release_task_ids, by the summary of this run: accepted and merged.
Completed == done

Summarize ==
  /\ pc = "summarize"
  /\ completed' = completed \cup Completed
  /\ Stop
  /\ UNCHANGED <<integration, base, history, runs>>

\* The run is killed, or dies of an error; its directory stays.
Kill ==
  /\ pc # "off"
  /\ Stop
  /\ UNCHANGED <<integration, base, completed, history, runs>>

Next ==
  \/ StartRun
  \/ WriteSchedule \/ WriteGovernance \/ WriteCorrupt \/ MoveBase
  \/ \E of \in Tasks \cup {Whole}, accepts \in BOOLEAN : WriteScope(of, accepts)
  \/ Schedule \/ RefuseSchedule \/ Govern \/ RunTasks \/ Ensure \/ Place \/ Gate
  \/ Review \/ Finalize \/ Summarize
  \/ Kill

Spec == Init /\ [][Next]_vars

-----------------------------------------------------------------------------
(***************************************************************************)
(* Correctness                                                             *)
(***************************************************************************)

\* The newest word of the supervisor on a task, as of date d, is yes.
SaysYes(t, d) ==
  \E r \in Of(t) : /\ r.by = "supervisor" /\ r.accepts /\ r.at <= d
                   /\ \A s \in Of(t) : s.at > r.at => s.at > d

\* A run goes on to review and finalize the over-budget work of its tasks only
\* if the supervisor accepted each of these tasks, by name, in the directory of
\* this run, and did not take it back before the gate; a decision on the whole
\* release never does it, however the writes fall between the steps of the gate
\* (_ensure_scope_risk_budget_policy_decisions, _scope_risk_budget_policy_gate).
OverageIsAnswered ==
  pc \in {"review", "finalize", "summarize"} /\ decision = "accepted" =>
    \A t \in over : SaysYes(t, dated)

\* The churn of a run whose reviews were capped on the evidence of an earlier one
\* does not cap the next: caps come every other run at most
\* (build_cost_runtime_governance_decision over the metrics of the run before).
CapsAlternate == ~relapsed

\* No work over the budget is in the base branch unless the supervisor accepted
\* its task (docs/USER_GUIDE.md, "blocks finalization until an explicit acceptance
\* decision is present").  Not so: a later run skips completed tasks and its gate
\* looks only at what it ran itself, and repair tasks of a review never pass it.
OverageIsAdjudicated == heavy \cap base \subseteq condoned
=============================================================================
