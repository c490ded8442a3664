------------------------------ MODULE TaskRun -------------------------------
(***************************************************************************)
(* The execution of one task: orchestrator.run_task from the run id to the *)
(* decision, the cleanup of release._run_one_release_task, and the runtime *)
(* supervisor of a sequential release that runs a failed task again.       *)
(*                                                                         *)
(* A run works in a worktree and on a branch of its own and leaves an      *)
(* evidence bundle; the branch has the same name in every run of the task. *)
(* A run is named <<second it was started in, suffix>>.  The finalization  *)
(* itself is module Finalization; here it is done, fails or raises.        *)
(***************************************************************************)
EXTENDS Integers

CONSTANTS
  MaxAttempts,    \* budget.max_executor_attempts_per_task
  Options,        \* the ways the release may be started
  Changes,        \* what workers and checks may make of a worktree
  Seconds,        \* the readings of the clock; it may stand still or go back
  MaxSuffix,      \* bound: suffixes of one run id
  MaxReleases,    \* bound: times the release is started
  NoRun           \* no run

Runs == Seconds \X (1 .. MaxSuffix)

\* The changed files against allowed_files: the two checks of the program judge
\* a path that begins with a dot differently (see InScope).
Scopes == {"inside", "outside", "dot_inside", "dot_outside"}

ASSUME TaskRunAssumption ==
  /\ MaxAttempts \in Nat \ {0}
  /\ Options \subseteq [mode : {"none", "commit", "merge"},   \* the *-on-accept flags
                       supervised : BOOLEAN,    \* the tasks run one after another
                       hasSrc : BOOLEAN,        \* the repository has a directory src/
                       keep : BOOLEAN]          \* --debug-keep-artifacts
  /\ Changes \subseteq [scope : Scopes,
                       violations : BOOLEAN,      \* the scientific review has some
                       overage : {"none", "modest", "severe"}]   \* of the size budgets
  /\ MaxSuffix \in Nat
  /\ MaxReleases \in Nat
  /\ NoRun \notin Runs

VARIABLES
  pc,           \* where the current run is
  releases,     \* times the release was started
  opts,         \* and how, the last time
  run,          \* number of the current run in this release
  id,           \* its run id
  attempt,      \* executor attempts in it
  work,         \* what it changed
  tested,       \* the verification of this work: no, passed, failed
  cause,        \* what the failed verification command looks like
  repair,       \* repair of the verification environment: none, refused, applied
  repairs,      \* environment repairs of the task in this release
  decision,     \* the ReviewDecision of the run
  diagnosis,    \* the category in failure_diagnosis.yaml
  record,       \* what runs_dir holds of a run: absent, scratch, or its decision
  finalized,    \* finalization.yaml of a run: none, committed, merged or failed
  worktrees,    \* runs whose worktree exists
  branch        \* the run whose work agent/<release>/<task> is for, NoRun: no branch

checkVars == <<work, tested, cause, repair, repairs>>
diskVars  == <<record, finalized, worktrees, branch>>
vars == <<pc, releases, opts, run, id, attempt, checkVars, decision, diagnosis, diskVars>>

(***************************************************************************)
(* Types                                                                   *)
(***************************************************************************)

\* At work in a worktree.
Working == {"created", "executing", "verifying", "repairing", "reviewing"}
Stopped == {"settled", "raised", "killed"}
PCs     == {"waiting", "finalizing", "cleaning", "deciding"} \cup Working \cup Stopped

NoWork == [scope |-> "inside", violations |-> FALSE, overage |-> "none"]
Work   == Changes \cup {NoWork}

Causes == {"unknown", "stale_editable_install", "command_not_found", "missing_pythonpath",
           "runtime_dependency_drift"}
Decisions  == {"accepted", "needs_revision", "failed", "escalated"}
Categories == {"contract_mismatch", "verification_failure", "timeout", "model_quota",
               "executor_error"}

TypeOK ==
  /\ pc \in PCs
  /\ releases \in Nat
  /\ opts \in Options
  /\ run \in Nat
  /\ id \in Runs \cup {NoRun}
  /\ attempt \in 0 .. MaxAttempts
  /\ work \in Work
  /\ tested \in {"no", "passed", "failed"}
  /\ cause \in Causes \cup {"none"}
  /\ repair \in {"none", "refused", "applied"}
  /\ repairs \in Nat
  /\ decision \in Decisions \cup {"none"}
  /\ diagnosis \in Categories \cup {"none"}
  /\ record \in [Runs -> Decisions \cup {"absent", "scratch"}]
  /\ finalized \in [Runs -> {"none", "committed", "merged", "failed"}]
  /\ worktrees \in SUBSET Runs
  /\ branch \in Runs \cup {NoRun}

Init ==
  /\ pc = "waiting"
  /\ releases = 1
  /\ opts \in Options
  /\ run = 0
  /\ id = NoRun
  /\ attempt = 0
  /\ work = NoWork
  /\ tested = "no"
  /\ cause = "none"
  /\ repair = "none"
  /\ repairs = 0
  /\ decision = "none"
  /\ diagnosis = "none"
  /\ record = [i \in Runs |-> "absent"]
  /\ finalized = [i \in Runs |-> "none"]
  /\ worktrees = {}
  /\ branch = NoRun

(***************************************************************************)
(* What the program computes                                               *)
(***************************************************************************)

\* Variant for checking: only the worktree root is asked for the run id.
TakenByWorktree(i) == i \in worktrees

\* _unique_run_id: the directory of the run or its worktree exists.
Taken(i) == record[i] # "absent" \/ i \in worktrees

\* The first free suffix of the second the run starts in.
UniqueRunId(i) ==
  /\ ~Taken(i)
  /\ \A n \in 1 .. MaxSuffix : n < i[2] => Taken(<<i[1], n>>)

\* review._is_allowed matches the path as git prints it.
InScope == work.scope \in {"inside", "dot_inside"}

\* release._path_allowed strips leading dots first.
InScopeForSupervisor == work.scope \in {"inside", "dot_outside"}

\* Variant for checking: the size is looked at before the scope.
VerdictBySize ==
  IF tested = "failed" THEN "failed"
  ELSE IF work.overage = "modest" THEN "accepted"
  ELSE IF InScope /\ ~work.violations /\ work.overage = "none"
       THEN "accepted" ELSE "needs_revision"

\* Modest overage is accepted with a mitigation, severe overage sent back.
SoftGateAccepts == work.overage # "severe"

\* deterministic_review, then the soft gate on the size of the change.
Verdict ==
  IF tested = "failed" THEN "failed"
  ELSE IF InScope /\ ~work.violations /\ SoftGateAccepts
       THEN "accepted" ELSE "needs_revision"

\* decide_verification_environment_repair under the policy of run_task, which
\* allows two actions: the PYTHONPATH prefix (if there is a src/) and the capture.
Remedy ==
  CASE cause = "unknown" -> "none"
    [] cause = "stale_editable_install" -> "refused"
    [] cause = "missing_pythonpath" -> IF opts.hasSrc THEN "applied" ELSE "refused"
    [] OTHER -> "applied"

\* _classify_failure.  The log of every verification contains timeout_seconds=,
\* so the last categories are left to executions that were not verified.
FailureCategories ==
  IF ~InScope THEN {"contract_mismatch"}
  ELSE CASE tested = "failed" -> {"verification_failure"}
         [] tested = "passed" -> {"timeout"}
         [] tested = "no"     -> {"timeout", "model_quota", "executor_error"}

\* _diagnose_failure
DiagnoseFailure == diagnosis' \in FailureCategories

\* _runtime_supervisor_classification_for_task_result: the failure is release_resumable.
Resumable ==
  /\ decision \in {"needs_revision", "failed"}
  /\ diagnosis \in {"none", "executor_error", "verification_failure"}
  /\ diagnosis = "verification_failure" => repair = "none"

\* supervisor_max_retries; the first run counts.
MaxRuns == IF MaxAttempts < 3 THEN MaxAttempts ELSE 3

\* RuntimeSupervisor.decide retries while attempt < max_retries; the attempt is the
\* number of the run.
RetryBudgetLeft == run < MaxRuns

(***************************************************************************)
(* run_task                                                                *)
(***************************************************************************)

\* git worktree add -b: the branch must not exist.
CreateWorktree ==
  /\ pc = "waiting"
  /\ branch = NoRun
  /\ \E i \in Runs :
       /\ UniqueRunId(i)
       /\ id' = i
       /\ worktrees' = worktrees \cup {i}
       /\ branch' = i
  /\ pc' = "created"
  /\ run' = run + 1
  /\ attempt' = 0
  /\ work' = NoWork
  /\ tested' = "no"
  /\ cause' = "none"
  /\ repair' = "none"
  /\ decision' = "none"
  /\ diagnosis' = "none"
  /\ UNCHANGED <<releases, opts, repairs, record, finalized>>

\* An exception, which nothing in run_task catches: WorktreeError when the branch
\* exists, when the main checkout is not clean or when git fails; ContextBudgetError;
\* an executor that cannot be started.  Worktree and branch are left behind.
RunRaises ==
  /\ pc \in {"waiting"} \cup Working
  /\ pc' = "raised"
  /\ UNCHANGED <<releases, opts, run, id, attempt, checkVars, decision, diagnosis, diskVars>>

WriteExecutorPrompt ==
  /\ pc = "created"
  /\ pc' = "executing"
  /\ record' = [record EXCEPT ![id] = IF @ = "absent" THEN "scratch" ELSE @]
  /\ UNCHANGED <<releases, opts, run, id, attempt, checkVars, decision, diagnosis, finalized,
                 worktrees, branch>>

\* One attempt of _run_executor_attempts, with the next model; the attempts share
\* the worktree, so a failed one may have changed it too.
ExecutorAttempt ==
  /\ pc = "executing"
  /\ attempt < MaxAttempts
  /\ attempt' = attempt + 1
  /\ work' \in Work
  /\ pc' \in {"executing", "verifying"}
  /\ UNCHANGED <<releases, opts, run, id, tested, cause, repair, repairs, decision, diagnosis,
                 diskVars>>

\* EvidenceCollector.collect would find a bundle and raise FileExistsError.  That this
\* never happens is EvidenceIsFresh.
BundleExists == record[id] # "scratch"

\* All attempts failed: the work is not verified, and not reviewed.
Escalate ==
  /\ pc = "executing"
  /\ attempt = MaxAttempts
  /\ ~BundleExists
  /\ decision' = "escalated"
  /\ DiagnoseFailure
  /\ record' = [record EXCEPT ![id] = "escalated"]
  /\ pc' = "cleaning"
  /\ UNCHANGED <<releases, opts, run, id, attempt, checkVars, finalized, worktrees, branch>>

\* The verification commands, which may change files themselves.
Verify ==
  /\ pc = "verifying"
  /\ work' \in Work
  /\ \/ /\ tested' = "passed"
        /\ cause' = "none"
        /\ pc' = "reviewing"
     \/ /\ tested' = "failed"
        /\ cause' \in Causes
        /\ pc' = "repairing"
  /\ UNCHANGED <<releases, opts, run, id, attempt, repair, repairs, decision, diagnosis, diskVars>>

\* _maybe_apply_verification_environment_repair without a repair.
LeaveEnvironment ==
  /\ pc = "repairing"
  /\ Remedy # "applied"
  /\ repair' = Remedy
  /\ pc' = "reviewing"
  /\ UNCHANGED <<releases, opts, run, id, attempt, work, tested, cause, repairs, decision, diagnosis,
                 diskVars>>

\* The prefix is set or the environment captured; in both cases the whole
\* verification is run once more, and its result replaces the first.
RepairEnvironment ==
  /\ pc = "repairing"
  /\ Remedy = "applied"
  /\ repair' = "applied"
  /\ repairs' = repairs + 1
  /\ work' \in Work
  /\ tested' \in {"passed", "failed"}
  /\ pc' = "reviewing"
  /\ UNCHANGED <<releases, opts, run, id, attempt, cause, decision, diagnosis, diskVars>>

\* Evidence, decision, and a diagnosis if a verification failed, now or before the
\* repair.
Review ==
  /\ pc = "reviewing"
  /\ ~BundleExists
  /\ decision' = Verdict
  /\ IF repair # "none" \/ tested = "failed" THEN DiagnoseFailure ELSE UNCHANGED diagnosis
  /\ record' = [record EXCEPT ![id] = Verdict]
  /\ pc' = IF Verdict = "accepted" /\ opts.mode # "none" THEN "finalizing" ELSE "cleaning"
  /\ UNCHANGED <<releases, opts, run, id, attempt, checkVars, finalized, worktrees, branch>>

FinalizationDone ==
  /\ pc = "finalizing"
  /\ finalized' = [finalized EXCEPT ![id] = IF opts.mode = "merge" THEN "merged" ELSE "committed"]
  /\ pc' = "cleaning"
  /\ UNCHANGED <<releases, opts, run, id, attempt, checkVars, decision, diagnosis, record, worktrees,
                 branch>>

\* GitFinalizeError: the decision is made again, and written again.
FinalizationFails ==
  /\ pc = "finalizing"
  /\ finalized' = [finalized EXCEPT ![id] = "failed"]
  /\ decision' = "escalated"
  /\ record' = [record EXCEPT ![id] = "escalated"]
  /\ pc' = "cleaning"
  /\ UNCHANGED <<releases, opts, run, id, attempt, checkVars, diagnosis, worktrees, branch>>

\* The conflict repair raises (see Finalization).
FinalizationRaises ==
  /\ pc = "finalizing"
  /\ opts.mode = "merge"
  /\ pc' = "raised"
  /\ UNCHANGED <<releases, opts, run, id, attempt, checkVars, decision, diagnosis, diskVars>>

(***************************************************************************)
(* The release around it                                                   *)
(***************************************************************************)

\* Variant for checking: only a failed finalization preserves the worktree.
KeepFailedOnly == finalized[id] = "failed"

\* _should_preserve_task_worktree
PreserveWorktree ==
  IF finalized[id] = "none" THEN decision = "accepted" ELSE finalized[id] = "failed"

\* _should_preserve_task_branch
PreserveBranch ==
  IF finalized[id] = "committed" THEN TRUE ELSE PreserveWorktree

\* cleanup_task_artifacts: a command that fails is only reported, and git keeps a
\* branch that is checked out.
Cleanup ==
  /\ pc = "cleaning"
  /\ \/ UNCHANGED worktrees
     \/ /\ ~opts.keep /\ ~PreserveWorktree
        /\ worktrees' = worktrees \ {id}
  /\ \/ UNCHANGED branch
     \/ /\ ~opts.keep /\ ~PreserveBranch
        /\ id \notin worktrees'
        /\ branch' = NoRun
  /\ pc' = "deciding"
  /\ UNCHANGED <<releases, opts, run, id, attempt, checkVars, decision, diagnosis, record, finalized>>

\* _attempt_runtime_supervisor_repair_and_resume: one more run of the same contract.
MayRunAgain ==
  /\ opts.supervised
  /\ decision # "accepted"
  /\ Resumable
  /\ RetryBudgetLeft
  /\ InScopeForSupervisor

Supervise ==
  /\ pc = "deciding"
  /\ pc' = IF MayRunAgain THEN "waiting" ELSE "settled"
  /\ UNCHANGED <<releases, opts, run, id, attempt, checkVars, decision, diagnosis, diskVars>>

Kill ==
  /\ pc \notin Stopped
  /\ pc' = "killed"
  /\ UNCHANGED <<releases, opts, run, id, attempt, checkVars, decision, diagnosis, diskVars>>

\* The release is started again with the same contract: all but the disk is new.
StartAgain ==
  /\ pc \in Stopped
  /\ releases < MaxReleases
  /\ releases' = releases + 1
  /\ opts' \in Options
  /\ pc' = "waiting"
  /\ run' = 0
  /\ id' = NoRun
  /\ attempt' = 0
  /\ work' = NoWork
  /\ tested' = "no"
  /\ cause' = "none"
  /\ repair' = "none"
  /\ repairs' = 0
  /\ decision' = "none"
  /\ diagnosis' = "none"
  /\ UNCHANGED diskVars

\* A run whose work somebody accepted, or failed to finalize, and nobody merged.
Owed(i) ==
  /\ record[i] = "accepted" \/ finalized[i] = "failed"
  /\ finalized[i] # "merged"

\* The operator removes the worktrees and the branch no work is owed from.
Tidy ==
  /\ pc \in Stopped
  /\ worktrees' = {i \in worktrees : Owed(i)}
  /\ branch' = IF branch # NoRun /\ Owed(branch) THEN branch ELSE NoRun
  /\ UNCHANGED <<pc, releases, opts, run, id, attempt, checkVars, decision, diagnosis, record,
                 finalized>>

RunTask ==
  \/ CreateWorktree \/ RunRaises \/ WriteExecutorPrompt
  \/ ExecutorAttempt \/ Escalate \/ Verify \/ LeaveEnvironment \/ RepairEnvironment
  \/ Review
  \/ FinalizationDone \/ FinalizationFails \/ FinalizationRaises

Next == RunTask \/ Cleanup \/ Supervise \/ Kill \/ StartAgain \/ Tidy

Spec == Init /\ [][Next]_vars

(***************************************************************************)
(* Properties                                                              *)
(***************************************************************************)

\* No run finds evidence of another: however the clock behaves, and whatever was
\* killed or removed before, the collector never meets a bundle, and never raises
\* (orchestrator.py:344-348, evidence.py:54-57).
EvidenceIsFresh == pc \in Working \ {"created"} => record[id] = "scratch"

\* Work that was accepted, or could not be finalized, is in a worktree, or on the
\* task branch of its own run, or merged, through all later runs of the task
\* (release.py:6137-6148 decides after each run, worktree.py:12-38 guards the next).
AcceptedWorkIsKept ==
  \A i \in Runs :
    Owed(i) => i \in worktrees \/ (finalized[i] = "committed" /\ branch = i)

\* The environment of a task is repaired at most once in a release, although the
\* supervisor may run the task three times: the diagnosis of a repaired run must
\* never look resumable (orchestrator.py:1130-1187, release.py:2094-2136).
EnvironmentRepairedOnce == repairs <= 1

\* Verified as it stands, in scope, and of a size that may be accepted.
Sound == tested = "passed" /\ InScope /\ ~work.violations /\ SoftGateAccepts

\* What the execution of a task is for its release.
Status ==
  CASE pc = "waiting" -> IF run = 0 THEN "waiting" ELSE "refused"
    [] pc \in Working -> "working"
    [] pc \in {"raised", "killed"} -> "broken"
    [] OTHER -> IF decision \in {"needs_revision", "failed"} THEN "refused" ELSE decision

Attempts == INSTANCE TaskAttempts
  WITH status <- Status, sound <- Sound, runs <- run

\* The task keeps what TaskAttempts promises: accepted exactly when sound, run
\* again only when refused, at most MaxRuns times (review.py:37-133 with the soft
\* gate, and release.py:1682-1979).
ImplementsAttempts == Attempts!Spec

=============================================================================
