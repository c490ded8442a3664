# A verification of agentic-devloop

agentic-devloop is a Python command-line program that develops software with
agents. From documents and a state file it plans *epics*; from an epic it plans
*task contracts*; it runs the contracts of a *release* in isolated git worktrees,
one by one or on a thread pool; it verifies, reviews and merges what the agents
did into an integration branch `feature/<release>`; it has the integrated branch
reviewed by another agent and repaired; and it finalizes the release by a merge,
a push or a handoff. All of its state is in files and in git: nothing but the
working directories and the branches survives the process.

This directory holds TLA+ models of that program, TLC configurations that check
them on small instances, and theorems about them that TLAPS checks for every
value of the constants. Paths without a directory (`release.py:2536`) are in
`src/agentic_devloop/`; documents are named by their path in the repository.

Contents: [components](#components) · [interactions](#how-the-components-interact) ·
[what is hard](#what-is-hard) · [modules](#modules-and-the-code) ·
[runs and bounds](#runs-and-bounds) · [fairness](#fairness) · [proofs](#proofs) ·
[disagreements](#where-the-code-disagrees-with-what-is-said-of-it) ·
[behaviours worth knowing](#behaviours-worth-knowing) · [not modelled](#not-modelled) ·
[what is left](#what-is-left)

## Components

| component | files | state | operations | what makes it correct |
|---|---|---|---|---|
| finalization | `git_finalize.py`, `artifacts.py`, `worktree.py`, `conflict_repair.py` | the one main checkout, the branches, the lock file `.git/agent-main.lock`, a worktree and a branch per task | commit, switch, rebase, merge, push, repair of a rebase conflict, cleanup | one finalizer at a time; the reported result is true; accepted work is never made unreachable; a merge lands where it is meant to |
| state store | `state_store.py` | `backlog_state.yaml`: five lists of epic records and three redundant id fields | `mark_*`, refresh, follow-up memory, load with normalization | one record per epic; the redundant fields agree with the lists |
| governor loop | `governor.py`, `state_refresh.py`, `objective.py`, `backlog.py` | cycle counter, `seen_epic_ids`, the state file | select, activate, run the objective, mark, refresh, stop or go on | no epic is rerun unasked; nothing is built on a failure; every epic begun settles |
| release scheduler and pipeline | `release.py` | contracts, dependencies, overlaps, task results, the integration branch, the release summary | schedule, run, collect, rerun, decide, review, check the budget, verify, finalize, summarise | dependencies are visible; overlaps are not concurrent; the decision is about the whole release; what is handed over is verified; what is remembered is there |
| feature review loop | `release.py`, `feature_review.py` | the current review, the earlier ones, repair contracts, verification results, adjudications, proposals | review, classify, repair, verify, adjudicate, gate, continuation | every blocker is answered or named; the loop ends; what it accepts can be carried on |
| task run | `orchestrator.py`, `executor.py`, `review.py`, `scientific.py` | one worktree, executor attempts, verification results, the decision | attempts with fallback models, verification, environment repair, deterministic review, soft gate, diagnosis | no attempt or repair beyond its budget; no acceptance past a hard failure |
| verification, environment repair | `verification.py`, `environment_repair.py`, `repair_policy.py` | command results | run until the first failure; one rerun after a repair | a repair never hides a failure |
| runtime supervisor | `runtime_supervisor.py`, `supervisor_decisions.py`, `failure_diagnosis.py` | decision artifacts | choose retry, rescope or stop | a retry is bounded; an invalid decision stops |
| planning | `planning.py`, `planner_backend.py`, `contracts.py`, `execution_strategy.py` | the contracts directory, plan artifacts, the call ledger | plan, reserve a call, parse, normalize, admit, write contracts, choose a strategy | only admitted contracts are run, and they are the ones planned; contracts of people are kept |
| backlog planner | `backlog.py` | backlog plan | extract, score, rank | an epic keeps its identity over plans |
| cost and budget | `budget.py`, `cost_runtime_governance.py`, decisions of `release.py` | the call ledger, decision artifacts, metrics of earlier runs | reserve, evaluate, govern, adjudicate over-budget work | no more strong-model calls than the budget; no over-budget work without consent; a cap is lifted again |
| cleanup | `cleanup.py` | worktrees, branches and summaries of finished runs | survey, delete | nothing is deleted that was not integrated; what stops the next run is gone |
| process runner | `process.py` | subprocesses, pipes, reader threads | run with timeout, stream, capture | a timeout ends it; its result is true |
| evidence and logs | `evidence.py`, `state_review.py`, `context.py`, `governor_log.py`, `status.py` | files for readers | write | – |
| models, configuration, CLI | `models.py`, `config.py`, `paths.py`, `yaml_io.py`, `doctor.py`, `cli.py` | – | validate, load, print | – |

`PROJECT.json` says of each whether it is modelled, in part, or not.

## How the components interact

```
governor ──run_objective──▶ planning ──contracts──▶ release scheduler
   │  ▲                                               │  thread pool
   │  └── decision, gate, finalization, continuation  ▼
state store ◀── follow-up memory ── review loop ◀── task run ──▶ finalization
   (backlog_state.yaml)              │  repair tasks ▲  │            (main checkout,
                                     └───────────────┘  └─ worktree   lock, branches)
```

* Calls: the governor calls the release in its own thread; the release calls
  `run_task`, in pool threads when it runs in parallel. `run_task` finalizes its own
  result before it returns. The review loop calls `run_task` again for repairs.
* Shared state: the main checkout is shared by every task of a release and by every
  process that works on the repository. The lock file is what protects it;
  `ensure_branch_from_base`, which switches the checkout at the start of a release,
  does not take it.
* Files from one run to the next: `backlog_state.yaml`, the contracts directory, the
  ledger of strong-model calls, release summaries and metrics, branches and leftover
  worktrees. A killed run leaves whatever it had written. None of these has a
  lock; the main checkout has.
* The supervisor, a person or a program, writes decision artifacts into the directory of
  a run while it is on; the run reads each of them once, at a point of its own choosing.
* `cleanup` runs beside everything else, and reads summaries to decide on branches.
* Messages: the recheck record, the finalization gate and the continuation decision
  are records one component writes and another validates.

## What is hard

The hazards in `PROJECT.json` give the line of each. In short: several threads and
processes on one checkout, with steps of git in between; a kill between any two
writes, with a lock, a worktree or a half-written file left behind; a push that fails
after its merge; a second attempt after a conflict repair; tasks that finish in any
order while others depend on them; exceptions that end the scheduler while its threads
go on; a second run that trusts what the first wrote down; a loop of review and repair
that has to end with every finding accounted for; records validated long after the
decision that fixed them; commands that plan the same release at once; a subprocess that
prints, hangs, or leaves its pipe to a process of its own; and a cleanup that takes what a
summary says for what git has.

## Modules and the code

### Finalization and MergeTurns

`Finalization.tla` models `finalize_accepted_task`, the part of `run_task` around it
(`orchestrator.py:603-660`), the conflict repair, `cleanup_task_artifacts`, and
`_finalize_release` with the policy `local_merge`. A branch is the set of changes it
contains, a change is named by its task, and a conflict is a pair of changes git cannot
combine. Each git command is an action and may fail; a process may be killed at any
point. `pc[f]` is the place of a finalizer, `lock` the owner named in the lock file,
`checkout` and `head` the state of the main checkout, `res` the `FinalizeResult`.
`ExternalPush` is another clone that pushes; `StartCheck` and `EnsureBranchFromBase` are
a second `run-release` that switches the checkout without the lock.

`MergeTurns.tla` is the abstract specification: one finalizer has the turn at a time, a
turn is good for one merge, which brings the owner's own work and what was published, into
the branch the owner means unless the checkout was switched, and the turn of a dead owner is
never passed on. It knows neither lock file nor checkout, rebase, push or error path;
Finalization implements it (`ImplementsTurns`).

Two choices need a word. `ConfigBound` says whether the name `config` is bound at
`orchestrator.py:1433`. In the code it is not ([below](#where-the-code-disagrees-with-what-is-said-of-it));
`finalization_remote` sets it to TRUE to check the rest of the repair path as it was
meant, since otherwise the second call of `finalize_accepted_task` could not be reached.
And `ReportIsTrue` and `MergesOnlyIntoTarget` are stated for behaviours in which the
second `run-release` has not switched the checkout (`starter # "done"`); after that
switch both are false of the code ([below](#behaviours-worth-knowing)).

### StateStore, Governor and EpicLifecycle

`StateStore.tla` has no variables: each operation of the class `StateStore` is a
function from the loaded to the saved state, so that every module that uses the file
shares one definition. A list of records is a set of ids, since no operation looks at
the position; `Consistent` is the invariant of the file.

`Governor.tla` extends it with `run_epics` and `run_one_epic`: the selection, the
activation (with its explicit `--epic-id` path), the objective run as a choice among
all results the code below can return, the mark by outcome, the post-cycle refresh, the
stop reasons, and several runs over one file. `Abort` is an exception or a kill between
two saves; `TornSave` a kill in the middle of `write_text`, after which the file is
lost. The planner is the environment: it may name any epic that the selection admits.

`EpicLifecycle.tla` is the abstract specification: one state per epic, an epic begins
only when new or asked for, and settles only after it began. Governor implements it
(`ImplementsLifecycle`), with the status of an epic read off the file.

### Release and ReleaseLedger

`Release.tla` models `run_release` over several runs of one release: admission,
scheduling (sequential and pool), the worker threads, collection, reruns by the
supervisor, the decision, review, budget, final verification, finalization, summary, and
a crash anywhere. `branch` is what the integration branch holds, `remembered` what the
summaries say is done, `startedOn[t]` what was on the branch when the worktree of `t`
was cut, `proof` the verdict of the last final verification of the branch *as it is*.
`Finalization` is abstracted here to: an accepted task lands, or its finalization fails;
`FeatureReviewLoop` to: the review accepts or rejects, with or without repairs and a
verification of its own.

`ReleaseLedger.tla` is the abstract specification, of all the runs together: what is on the
branch stays there, no contract that was recorded is done again, the branch is handed over
at most once in a run, as it stands and if no contract is missing, and only what the run
accepted and the branch holds is recorded. There is no scheduler, pool or pipeline in it;
Release implements it (`ImplementsLedger`).

Not modelled: the exact order in which ready tasks are submitted (any ready task may be
next), `debug_keep_artifacts`, `--push-on-accept` as something other than merge, the
content of the base branch, the branches of repair tasks, and which of the finalization
policies it is (`handsOver`: it acts or it does not).

### FeatureReviewLoop and ReviewConvergence

`FeatureReviewLoop.tla` opens what is one step in Release: `_run_feature_review_and_repair_loop`,
then what `run_release` makes of it (budget, verification, gate, continuation decision)
and what the governor validates. A review is, for each finding id, one of six kinds,
which are the distinctions the code makes (see the module's head). `fate` is a history
variable: what became of every blocking finding.

`ReviewConvergence.tla` is the abstract specification: rounds that answer all that is
open, at most `MaxRounds` of them, acceptance only with nothing open, except that after
the last round mere checks may be settled. The loop implements it.

Two properties are about the joints between the loop, `run_release` and the governor.
`GateFollowsDecision`, that the gate allows exactly what the run accepted, is what Release
takes for granted. `MergedReviewContinues` is the part of `AcceptedReviewIsCarried`
([below](#where-the-code-disagrees-with-what-is-said-of-it)) that holds: with merging, the
validators of the continuation find the evidence they want.

What it takes for granted: finding ids within one review are distinct (nothing in the
code enforces it; with a repeated id the adjudication at the limit, which goes by id,
could settle a change under the id of a check); at least one task of the release ran;
no files of an earlier run of the same release under `feature_review/`, where the
continuation looks for repair contracts and verification logs; and a required repair
that reads "none" asks for no check. Unreachable and left out: the branches for missing
evidence and malformed records at the limit, "no contracts generated", the second test
of the limit (`release.py:3069-3115`) and the code after the loop
(`release.py:3227-3236`).

### TaskRun and TaskAttempts

`TaskRun.tla` opens what Release takes for one step and what comes before Finalization:
one task, from its run id to the decision, through the reruns of the runtime supervisor
and through further starts of the release. The module composes what lies in five files:
`run_task` (`orchestrator.py:356-660`), the verification, the environment repair, the
diagnosis, and the cleanup and supervisor of a sequential release (`release.py:1682-1979`,
`2251-2295`). `pc` is the place in `run_task`; `run`, `attempt` and `repairs` are the three
counters that bound retries, each kept in another place of the code; `record`, `finalized`,
`worktrees` and `branch` are what the disk and git keep and a later run finds.

* A run id is a pair of the second it was started in and a suffix (`_unique_run_id`); the
  clock may stand still or go back. The branch of a task has one name for all its runs, so
  `branch` says which run it belongs to.
* What a worker changed is a record: whether its files are in scope, whether it violates
  the scientific rules, and by how much it exceeds the size budgets. Verification commands
  may change files too. There are four scopes, because the review matches a path as git
  prints it and the supervisor strips leading dots first.
* A failed verification has one of the five classes of `environment_repair.py`; which words
  put an output there is left out.
* The finalization is done, fails or raises; module Finalization says when.
* Evidence, decision and diagnosis are one step each for a run. The collector's
  `FileExistsError` is the guard `~BundleExists`; that it is never in the way is
  `EvidenceIsFresh`. All other exceptions are `RunRaises`.
* `Tidy` is the operator, who removes leftovers but never work that was accepted and not
  merged (`Owed`). Who removes such work by hand is on his own.

`TaskAttempts.tla` is the abstract specification, and what the other modules rely on: work
is accepted exactly when it is sound as it stands, only a refused task is run again within
a release, at most `MaxRuns` times, and anything else waits for another start.

Not modelled: `--allow-dirty`, which models the attempts use, walltime, the contents of the
artifacts, and the actions of the supervisor that run nothing again.

### ContractAdmission and Planning

`ContractAdmission.tla` has no variables. It is the pure part of planning: the parsing and
filling of a model's answer (`normalize_planner_contract_plan_payload`, the repairs of
`contracts.py`), the normalization that runs only where the gate refuses, and the gate
`validate_generated_contracts`, as functions of the answer and of the release asked for. A
contract keeps the nine fields the gate or a repair looks at.

`Planning.tla` extends it with `plan-release` and `run-objective`: commands of any release,
side by side, that read the contracts directory, choose a strategy, draft without a model
or reserve a call in the ledger and make it, normalize, check, and write contract files one
by one. A file is opened, which empties it, and then filled: `Torn` is what a kill between
the two leaves, of a contract as of a ledger. `run_objective` then reads the directory
*again*, which is why what is run need not be what was planned. `raced` marks the releases
that two commands worked on at the same time, for which the code promises less. A plan of the
model passes the gate twice, after parsing and before the writing, with the normalization in
between; `SecondGateAgrees` says that the second has nothing to refuse. It is proved and not
in a run, since it holds by the functions of ContractAdmission.

Not modelled: prompts, the planning context, the plan artifacts for readers, and the text
of a strategy decision beyond its seven inputs.

### CommandRun

`run_process`, streamed and captured, and its callers: `VerificationRunner` with its loop
over commands, which stops at a failure or (`probe`, the capture of the environment) does
not, the executor attempt, the planner call. Output is counted in pieces
through a pipe of `PipeSize`; a child writes, reads its prompt or does not, exits, hangs,
and may leave a helper that holds the pipe. The caller, the reader thread, the child and the
clock are separate actors, so the exit of the child, the last piece, the deadline and the
kill come in any order. `PromptFits` says that the prompt fits the input pipe. The
module's names (`CommandSpec`, `at`) differ from those of TaskRun, so that `TaskRunProofs` can
extend both.

### Cleanup

`cleanup --force` beside the runs of the releases whose worktrees and branches it removes.
A run is reduced to what it leaves: worktrees, task branches, the integration branch, and a
summary that a killed run does not write. A branch is the set of tasks whose commits it
holds. The survey is one step, the deletions are one each. `NamedFor` and `SummarizedFor`
say which releases a match by part of a name takes for this one. `hasty` marks a cleanup
during a run of the same release, `trusted` an integration branch deleted on the word of a
summary.

### ReleaseDecisions

The three sorts of decision artifacts of `run-release`: scheduling, cost-runtime governance
and scope risk. Each is built by the run unless it is found in the run directory, where the
supervisor may write well-formed, malformed or torn ones at any moment. What the decisions
are about is cut down: tasks are merged, over budget or not; a review loop is its number of
waves. Release and FeatureReviewLoop have the rest. `dated` is what the gate saw, `heavy`
and `condoned` are history.

## Runs and bounds

All runs finish in about two minutes or less. `CHECK_DEADLOCK FALSE` everywhere: a finished
program has no next step (finalizers settle, runs are bounded by `MaxRuns`, the review
loop and the commands end).

| run | module, configuration | instance | what it shows |
|---|---|---|---|
| `finalization_local` | MCFinalization, FinalizationLocal | 3 threads of one process, one pair clashes, no remote, failing git, kills, a second start | `MergeIsFastForward`, `WorkIsNeverLost` |
| `finalization_remote` | MCFinalization, FinalizationRemote | 2 tasks and the final merge, in 2 processes; a remote somebody else pushes to; conflict repair; kills | `ReportIsTrue` on the push and repair paths, `MergesOnlyIntoTarget`, `FinalizationEnds`, `FinalizerAdvances`, refinement of MergeTurns (85,033 states) |
| `governor` | MCGovernor, Governor | 2 epics, one with the id of the other's release; 3 runs of 2 cycles; exceptions, kills, torn saves; every initial file that old versions could leave (41,912 states) | `StoreInv`, `OnlyAfterSuccess`, `NoSilentRerun`, `HandedOverSettles`, refinement of EpicLifecycle |
| `release_pipeline` | MCRelease, ReleasePipeline | 3 tasks; plans with a join, a backward edge, a cycle, minor and blocking overlaps; 4 command lines; 2 selections; 2 runs; one rerun per task; kills and exceptions | `RememberedWorkIsThere`, `DependencyWorkVisible`, `OverlapsNeverConcurrent`, `AcceptedReleaseIsWhole`, `MergedRunsAreVerified`, `EveryRunEnds`, `RunAdvances`, refinement of ReleaseLedger |
| `review_loop` | MCFeatureReviewLoop, FeatureReview | 2 finding ids of any kind, limit 2 (the default), merging or not | `BlockersAnswered`, `DeferredIsOnRecord`, `MergedReviewContinues`, `LoopEnds`, `LoopAdvances`, refinement of ReviewConvergence |
| `task_run` | MCTaskRun, TaskRun | one task, 3 attempts and so 3 runs, 2 starts of the release, 5 command lines, 8 kinds of change, one reading of the clock; failures, repairs, exceptions, kills | `EvidenceIsFresh`, `AcceptedWorkIsKept`, refinement of TaskAttempts |
| `planning` | MCPlanning, Planning | 2 commands, at once or one after the other, on 2 releases, a budget of 1 call, all answers of the model that are off in at most 2 respects, a directory with and without a contract of somebody else (321,871 states) | `RunsOnlyAdmitted`, `RunsItsOwnPlan`, `BudgetKept`, `GivenContractsAreKept` |
| `command_run` | MCCommandRun, CommandRun | an attempt, a planner call, two verification commands; 2 pieces of output through a pipe for 1 (2,309 states) | `ResultIsTrue`, `CommandReturns` |
| `cleanup` | MCCleanup, Cleanup | 3 tasks in 2 releases with alike ids, 2 runs, a cleanup that may be killed (1,854,617 states) | `CommitsSurvive`, `CompletedWorkIsThere`, `CleanupIsThorough` |
| `release_decisions` | MCReleaseDecisions, ReleaseDecisions | 2 tasks and a repair, limit 2, 3 runs with 2 artifacts each (5.3 million states) | `OverageIsAnswered`, `CapsAlternate` |
| `cleanup_evidence`, `release_scope_risk` | | the instances of `cleanup`, with ids that are not alike, and of `release_decisions` | each violates one property that a test or a document states |

Why the bounds are enough for the cases to happen:

* Three tasks: one holds the lock, one finds it held, one comes after; two clash and
  one does not. In Release three tasks make a join, and a cycle with a bystander.
* Two epics and three runs: one epic can be left behind by a kill, found by the next run
  in any state, skipped or completed while the other runs, and found again.
* Two runs of a release: all that matters between runs is in `branch`, `remembered`,
  `worktrees`, `taskBranches`; the second run starts from whatever the first can leave.
* Two findings and three reviews: a finding is answered while another is not, raised
  again after its repair, dropped as a duplicate, or new in a later round.
* Two planning commands: the second finds what the first or its kill left, or is in between
  its steps; a budget of one call is reached by the first. An answer with two faults has
  one normalized and the other refused, or both.
* Two pieces through a pipe for one: a child blocks on a full pipe, output is cut short by a
  kill, and is still in the pipe when the child exits. Two verification commands: the
  second runs, or does not because of the first.
* Two releases, one with an id that ends with the other's: a worktree or summary is taken
  for that of the other. Two runs leave a summary that is older than the branch.
* Three runs with decisions: a run with churn, one that is capped for it, and the next.
* Three attempts make three runs of a task (`min(3, budget)`), the most there can be; the
  second start meets what any number of runs left. All run ids clash in the one second,
  and six suffixes are as many as two starts with three runs each can use.

The bounds are `MaxRuns`, `MaxStarts`, `EpicCount`, `MaxReruns`, `MaxLoops`, `MaxFindings`,
`MaxAttempts`, `MaxSuffix`, `MaxReleases`, `MaxPieces`, `MaxCleanups` and `MaxWrites`; of these
`EpicCount`, `MaxReruns`, `MaxLoops` and `MaxAttempts` are parameters of the program as
well. The proofs hold for all values of all of them. Symmetry is used where no liveness
is checked and the specification treats the values alike: the two commands of Planning,
two tasks of one release in Cleanup and in ReleaseDecisions.

Every property of a passing run is checked to be about the code by a mutant: a variant
of a mapped definition, marked *variant for checking* in the modules, under which TLC
finds the property violated.

The type invariants (`TypeOK`, `CommandTypeOK`) are in no configuration: they are proved for
all instances, as a conjunct of every inductive invariant.

## Fairness

* Finalization: weak fairness of the steps of each finalizer. Each waits only for git
  commands, never for the lock (`_merge_lock` raises at once); a killed one has no
  step. The check `FinalizationEnds` therefore also holds when the owner of the lock is
  dead.
* Governor: weak fairness of the loop. `run_objective` returns because executors,
  planners and verification commands run under timeouts. Starting a run is not fair.
* Release: weak fairness of each worker thread, of the scheduler thread and of the
  pipeline. Starting, tidying and crashing are not fair.
* Review loop: weak fairness of the one thread; repairs, reviewers and verifications
  have timeouts. Which of its outcomes a step has is never subject to fairness, so the
  loop must end whatever the reviewer keeps finding.
* CommandRun: weak fairness of the calling thread, of the reader thread and of time. A
  command need not do anything, not even exit: it is the timeout that ends it.
* Planning, Cleanup, ReleaseDecisions and TaskRun have safety properties only; they are
  straight-line programs between calls that are timed.

## Proofs

`tlapm` proves all of the following for any values of the constants that meet the
`ASSUME`s of the modules. The assumptions are of three sorts: sets of ids do not contain
the markers used beside them; the records that come from the command line and from the
configuration are well formed; bounds are natural numbers.

| module | theorems | argument |
|---|---|---|
| `FinalizationProofs` | `TypeCorrect`, `LockSafe`, `MutualExclusion`, `StaleLockIsFinal`, `FastForward`, `WorkIsTracked`, `NothingIsLost`, `MergesLandAsMeant`, `ReportsAreTrue`, `DirtyCheckoutStays`, `FinalizationTakesTurns`, `FinalizersOnlyAdvance` | `LockInv` is inductive: whoever is in the block owns the file, and a file is owned by one in the block or one that died; mutual exclusion follows. `WorkInv` says where the change of each task is at each `pc`; it is needed because `WorkIsNeverLost` is about two steps far apart: the cleanup deletes the branch by a result that was fixed before, so the invariant must carry what that result implies. Branches only grow, which with `WorkInv` gives the action property. `HeadInv` says where the checkout is between switch and merge. The report needs both directions: `ToldInv`, that a reported merge is there, and `ApartInv`, that before its merge nobody but the task has its change, on no branch, remote or upstream of another task. The refinement of MergeTurns needs `SourcesInv` besides: what the remote, a task branch or its upstream holds was published already, but for the task's own change, so that a merge, whatever was rebased onto what, publishes one change. Each step then maps to one turn taken, used, spent or given, or to a stutter. `CallInv`: a repair comes of the first call |
| `GovernorProofs` | `GovernorType`, `StoreConsistent`, `RunningEpicIsActive`, `NoEpicIsRerunSilently`, `RefreshAgreesWithMark`, `AttemptsAreBounded`, `BuildsOnCompletedEpics`, `GovernorImplementsLifecycle` | First, of StateStore: `Moves` says what every operation has in common, the epic ends up in one list, the id fields follow, all other epics stay; nothing else of the operations is used. `Inv` (types, a consistent file, the running epic is the active one) is inductive. `RerunInv` adds that an epic once handed over is new in the file only if the file was lost; `RefreshInv` that between mark and refresh the file says what the result says; `AttemptInv` and `SuccessInv` tie `seen` to the file. The refinement maps each step to one move of one epic. Where a theorem needs it, it assumes `HasStore`, or `PlanningOnly = FALSE` |
| `ReleaseProofs` | `ReleaseType`, `RememberedIsThere`, `DependenciesVisible`, `OverlapsApart`, `AcceptedIsWhole`, `EveryTaskTried`, `HandOverVerified`, `EveryStepAdvances`, `ReleaseImplementsLedger` | `ReleaseInv`, a conjunction of types, what a stage implies (`SchedInv`), what a decision implies (`DecisionInv`) and what `merges`, `checked` and `proof` imply of each other (`VerificationInv`); the last is needed because the hand-over reads a verdict reached several steps before. The ledger follows from it: a landing is an acceptance, a hand-over happens only with an acceptance that is whole, and the summary keeps what is on the branch. `EveryStepAdvances` is over phases, stages and reruns |
| `FeatureReviewLoopProofs` | `LoopInvariant`, `TypeCorrect`, `EveryBlockerIsAnswered`, `HandOverIsVerified`, `GateIsHonest`, `RecordIsComplete`, `DeferredIsRecorded`, `GateAgreesWithDecision`, `LoopOnlyAdvances`, `MergedContinues`, `LoopConverges` | `LoopInv`: at each phase the open findings are exactly the blocking ones (`FateInv`), an acceptance means nothing is open (`AcceptInv`), a verification that was made is of the branch as it stands (`TestedInv`), a verdict comes with a complete record (`NamesInv`). `VerifiedInv`, on top of it: an acceptance of a merging run comes with a verification, which the continuation asks for afterwards. Every step then maps to a step of ReviewConvergence or a stutter |
| `TaskRunProofs` | `RecordedResultsAreTrue` of CommandRun; `RunInvariant`, `RunType`, `EvidenceNeverCollides`, `AcceptedWorkSurvives`, `OneEnvironmentRepair`, `TaskRunImplementsAttempts` | `Inv` joins the types and the two properties with four parts. `RunIsPlaced`: from its creation to the cleanup a run has its worktree and its branch. `DiskIsCurrent`: what is recorded of a run is what it has done so far, and a run without a decision has no finalization; a fresh id therefore owes nothing, and the cleanup acts on the record it reads. `VerdictStands`: when a verdict exists, and that a task that waits again was refused. `RepairIsFinal`: after a repair the diagnosis is none that is rerun; it ties the diagnosis to scope and verification and bounds `repairs` over any number of runs. For the commands, `ChildIsKnown` and `OutputIsTrue` say what the caller has made of the process so far, `MoreToRun` that nothing failed before. The refinement then maps each action to a step of TaskAttempts or a stutter |
| `PlanningProofs` | `PlanningType`, `BudgetIsKept`, `OnlyAdmittedIsRun`, `GivenIsKept`, `ItsOwnPlanIsRun`, `AdmissionIsStable`, `GatesAgree` | types with `Progress`, what each place of a command implies. The budget: while no two commands share a ledger, the one that works on it has read what it holds (`Exclusive`), and a call comes with a claim (`Claim`). The gate (`GateInv`): what a command is about to write was admitted (`PlanOK`), and every file nobody gave is sound and carries its name (`WrittenOK`). `ItsOwnPlanIsRun` adds that the files of a release nobody else works on are those of the plan. `AdmissionIsStable`: a repair leaves what neither it nor the gate would touch again, fault by fault; `GatesAgree` follows, also for contracts a repair did not touch |
| `CleanupProofs` | `CleanupType`, `CommittedWorkSurvives`, `SkippedWorkIsThere`, `EndedCleanupIsThorough` | `Held`: whose work a branch can hold. `Kept`: committed work is on the task branch, the integration branch or the base. `Cleaning`: what the survey found stays true until the deletion, as long as the release is not run, so that a decision may be older than the deletion |
| `ReleaseDecisionsProofs` | `DecisionsType`, `CapsDoNotFeedThemselves`, `OverageHasConsent` | `CapInv`: a cap allows one wave, one wave is no churn, and no churn is no cap. `ScopeInv`: no record is dated later than the gate, the kernel never accepts, and at the gate every over-budget task has a record of its own; the newest of them is then the supervisor's |

Each proof is laid out the same way: the initial states satisfy the invariant, one step
per action, and a temporal conclusion by `PTL`. `PROJECT.json` lists the theorems; the
lemmas are in the modules.

Every safety property, action property and refinement of the passing runs is proved. Only
model-checked is what is about liveness (`FinalizationEnds`, `HandedOverSettles`,
`EveryRunEnds`, `LoopEnds`, `CommandReturns`), since the prover has no rules for fairness and
`ENABLED`. For three of them the safety half is proved: `FinalizerAdvances`, `RunAdvances`
and `LoopAdvances` say that every step goes forward under a bound, so that all that is left
to fairness is that a next step is taken. The functions of
ContractAdmission are used in proofs by their definitions; nothing is proved of recursive
definitions, of which there are none. The properties the code violates have
counterexamples instead.

## Where the code disagrees with what is said of it

Two runs end in a counterexample; `PROJECT.json` quotes the sentences.

1. `cleanup_evidence`: `cleanup --force --include-integration-branch` deletes an integration
   branch that is merged nowhere, because the newest summary it finds, of an older run or of
   a release with a similar id, says merged. `tests/test_cleanup.py:140` says it refuses.
2. `release_scope_risk`: over-budget work reaches the base branch without the acceptance
   `docs/USER_GUIDE.md:502` asks for: as a repair task, which never passes the gate, or
   completed in an earlier run, which later runs skip.

The following are stated in the modules beside the properties that hold. TLC refutes each
of them when it is put into the configuration of its module (FinalizationLocal for the
first, where `ConfigBound` is as in the code); they are not kept as runs.

| property, module | what the code does | what is said of it |
|---|---|---|
| `ConflictRepairIsAnswered`, Finalization | after the executor resolved a rebase conflict, the code reads a name bound nowhere (`orchestrator.py:1433`), and the accepted task ends in a `NameError` | one bounded repair attempt, `docs/README.md:69` |
| `HandoffIsCompleted`, Governor | an accepted release with the policy `pr_preparation` writes a handoff, its finalization result is none, and the epic is blocked | `docs/USER_GUIDE.md:896` |
| `FailedVerificationBlocksHandOver`, Release | a release whose final verification failed is accepted by starting it again: the second run finds all tasks done and merges nothing, so that nothing is verified (`release.py:1357`) | `README.md:3` |
| `CompletedOnlyContinuationAccepted`, Release | with a reviewer, a run that finds all its contracts completed is failed after the review (`release.py:1303`) | `tests/test_release.py:1466` |
| `AcceptedReviewIsCarried`, FeatureReviewLoop | an accepted optional finding in a run that merges nothing has no verification evidence, and the continuation decision does not validate (`release.py:4439`, `models.py:950`); the governor refuses an acceptance whose findings are all deferred | `tests/test_release.py:3853` |
| `TimeoutIsRecorded`, CommandRun | a captured command that times out after some output hands it over as bytes (`process.py:76`); writing it as text raises, and there is neither result nor log | "timeout for each verification command", `docs/USER_GUIDE.md:769` |
| `CoverageReviewIsAdmitted`, Planning | the coverage reviews the deterministic planner drafts have no stop condition with a word the gate wants, so that planning a release that already has contracts is refused (`planning.py:890`) | `docs/design/TECHNICAL_SPECIFICATION.md:430` |
| `BudgetIsHeld`, Planning | of two commands that read the ledger before either reserves, both call (`budget.py:30`) | "Enforce maximum strong-model calls per release", `docs/design/ROADMAP_AND_BACKLOG.md:79` |

## Behaviours worth knowing

Found while modelling; no sentence in the repository denies them.

* A task that finds the lock held is escalated at once and its branch is kept, although
  nothing failed (`git_finalize.py:175`). In a parallel release this is a matter of
  timing.
* A second `run-release` on the same repository switches the main checkout without the
  lock (`git_finalize.py:45-50`). Between the switch and the merge of a task it sends
  the merge to another branch, and the result still says it is merged.
* A stale lock file is never taken over; the operator has to remove it.
* The edge that a reported overlap adds follows the contract order; together with a
  `depends_on` against that order it closes a cycle, and the release raises.
* With `--continue-on-failure` the pool submits the dependents of a failed task: they
  start from a branch without the work they depend on.
* A completed epic that is selected again is moved to the skipped records. Epic ids are
  given out afresh by every backlog plan, so `epic-0001` of a new plan is the completed
  one of the old.
* Under keep or commit the repairs of the review loop stay on branches of their own: the
  next review and the verification see the branch without them, and a second wave finds
  the branches of the first in its way and raises.
* A finding with a required repair that reads "none" and a follow-up is accepted or
  dropped without being in any list of the recheck record.
* Follow-ups that the adjudication at the limit defers are left out of the continuation
  when earlier rounds made proposals; and only adjudications reach the state file.
* The continuation says `accepted_risk` also if the final verification failed afterwards.
* An epic of which only a plan was made is marked reviewed (`tests/test_backlog.py:1086`
  tests `run_one_epic` alone), and the refresh of the same cycle makes it active again.
* With `--debug-keep-artifacts` a refused run keeps its branch, so that the rerun of the
  supervisor raises `WorktreeError` and ends the release.
* The worktree and the branch of a killed or raising run stay and block the task until
  somebody removes them: a restart alone does not help.
* A run whose environment was repaired and whose verification then passed, but which is
  refused for its size or content, is not run again only because the diagnosis finds the
  words `timeout_seconds=`, which every verification log contains, and calls it a timeout.
* The environment repair that only captures the environment runs the verification again as
  well, although docs/USER_GUIDE.md:560 says it captures without retrying. Both reruns use
  600 seconds, whatever timeout was configured.
* The review and the supervisor disagree about paths that begin with a dot: `review.py:24`
  matches the path as it is, `release.py:2159` without its leading dots and slashes.
* Planning: an answer that spells `requiredEvidence` cannot be repaired, since
  `required_evidence` is filled in before and the alias is then ambiguous.
* A contract file torn by a kill stops the planning of every release of the directory; a
  torn ledger freezes the budget of its release until somebody removes it. Plan directories
  have the resolution of a second.
* The stop decision of planner admission names a file `in_memory_planner_output.json` that
  does not exist.
* The kill at a timeout reaches only the direct child. A helper that keeps the pipe open
  makes a finished captured command wait for the timeout, and count as timed out.
* The streamed runner writes the whole prompt before it looks at the clock: a child that
  never reads a prompt larger than the pipe hangs it without a deadline (`PromptFits`
  FALSE; `CommandReturns` is checked for prompts that fit).
* The cleanup's check of a top-level `decision` in the evidence is dead, nothing writes it
  (`cleanup.py:245`). Worktrees are matched by the release id anywhere in their name.
  Accepted work that is only in a worktree goes with it, as `docs/USER_GUIDE.md:1128` warns.
* The normalization of a malformed scheduling decision fills in the staleness inputs of the
  current run, so that a stale decision passes if it is malformed (`release.py:5853`).
* A scope-risk acceptance for the whole release never takes effect: the run writes a
  refusing placeholder for each task, and a decision on the task comes first.
* In cost governance, `stop` and one-shot change nothing. A killed run without metrics hides
  the churn of the one before; the newest run directory is found by the end of its name,
  and may be another release's.

## Not modelled

* The backlog planner: extraction, scoring and ranking of candidate epics is text
  processing. Governor lets it name any epic the selection admits.
* Evidence bundles, state snapshots, context bundles, governor log and status: they are
  written for readers, and no transition reads them back.
* Configuration, models, paths, doctor and the command line: no state. The validators that
  other components run into are modelled there, the flags are constants.
* Prompts and the work of the executor, reviewer and planner models: a choice among all
  results the code tells apart.
* Two processes that write the state file at once (`state_store.py:236`): each save is a
  consistent file, one of the updates is lost, and nothing in the repository promises
  otherwise. The identity of epics across plans (`backlog.py:744`).
* The remaining actions of the runtime supervisor, which run nothing again in the release:
  their artifacts are written and validated, and a person acts on them.

## What is left

1. A second writer of the state file, with Governor's proofs over the interleaving.
2. Release with the decisions of ReleaseDecisions and the rounds of FeatureReviewLoop in
   place of its choices. `GateFollowsDecision` and ReleaseLedger are the interface; that the
   outcomes Release gives to the review are those the loop can have is not proved.
3. Abstract specifications of Planning and Cleanup, which have invariants only.
4. The pass over admission repairs of a failed planner, artifact by artifact.

## Running it

```
tlc -workers 2 -config FeatureReview.cfg MCFeatureReviewLoop
tlapm FeatureReviewLoopProofs.tla
```

The MC modules give the constants values; the `.cfg` files name the properties.
