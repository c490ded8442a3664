------------------------------- MODULE Release -------------------------------
(***************************************************************************)
(* run_release: the task scheduler and the pipeline that judges, reviews,  *)
(* verifies, finalizes and records one release, over several runs of it.   *)
(*                                                                         *)
(* A release is a plan of task contracts.  A run skips the tasks that an   *)
(* earlier run recorded as done, runs the others in an isolated worktree   *)
(* each, one by one or on a thread pool, merges the accepted ones into the *)
(* integration branch, and then takes one decision for the whole release.  *)
(* What a run leaves behind for the next one is the integration branch, the*)
(* release summaries, and the worktrees and task branches it kept.  A run  *)
(* may raise, or be killed, at any point; only its last step records it.   *)
(*                                                                         *)
(* Tasks are numbers: their order is the order of the contracts.  Work is  *)
(* identified with the task that did it: `branch` holds t once the branch  *)
(* has an accepted result of t, which may be that t has nothing to change. *)
(***************************************************************************)
EXTENDS Integers, FiniteSets

CONSTANTS
    Tasks,        \* the tasks of the release, in contract order
    Plans,        \* the release plans and project configurations considered
    Options,      \* the command lines a run may be started with
    Selections,   \* the sets of contracts a run may be started with
    RepairWork,   \* the worktree of a review repair task, which is no task of the plan
    MaxReruns,    \* supervisor reruns of one failed task (budget.max_executor_attempts_per_task - 1)
    MaxRuns       \* bound: runs of the release that are started

Pairs == { pair \in SUBSET Tasks : Cardinality(pair) = 2 }

ASSUME TasksAssumption == Tasks \subseteq Nat /\ IsFiniteSet(Tasks)
ASSUME PlansAssumption ==
    Plans \subseteq [dependsOn : [Tasks -> SUBSET Tasks],
                     minor : SUBSET SUBSET Tasks,     \* overlapping pairs that are only reported
                     unsafe : SUBSET SUBSET Tasks,    \* overlapping pairs that block the release
                     reviewer : BOOLEAN,              \* model_roles names a reviewer
                     handsOver : BOOLEAN]             \* the finalization policy acts, its credentials are set
ASSUME OptionsAssumption ==
    Options \subseteq [parallel : BOOLEAN,            \* --execution-mode parallel
                       stop : BOOLEAN,                \* no --continue-on-failure
                       accept : {"keep", "commit", "merge"},   \* the *-on-accept flags
                       finalize : BOOLEAN]            \* --release-finalize
ASSUME SelectionsAssumption == Selections \subseteq (SUBSET Tasks) \ {{}}
ASSUME RepairAssumption == RepairWork \notin Tasks
ASSUME BoundsAssumption == MaxReruns \in Nat /\ MaxRuns \in Nat

VARIABLES
    plan,         \* contracts and configuration; no run changes them
    branch,       \* the tasks whose accepted result the integration branch holds
    proof,        \* verdict of the last final verification of the branch as it stands
    published,    \* the tasks whose work the last finalization handed over
    remembered,   \* _completed_release_task_ids: what the release summaries say is done
    worktrees,    \* worktrees left under the project's worktree root
    taskBranches, \* agent/<release>/<task> branches that exist
    runs,         \* runs started so far
    phase,        \* where the current run is
    opts,         \* its command line
    selected,     \* its contracts
    stage,        \* where each of its tasks is
    result,       \* the decision of each task's last attempt
    reruns,       \* reruns the supervisor has granted each task
    startedOn,    \* what the branch held when the worktree of a task at work was created from it
    landed,       \* accepted tasks that are merged, or that changed no file
    merges,       \* some result of this run was merged
    checked,      \* the review loop already ran the final verification
    decision      \* the release decision so far

taskVars == <<stage, result, reruns, startedOn>>
runVars  == <<opts, selected>>
vars == <<plan, branch, proof, published, remembered, worktrees, taskBranches, runs, phase,
          runVars, taskVars, landed, merges, checked, decision>>

-----------------------------------------------------------------------------
(* What a run derives from the plan before it executes anything.           *)

\* analyze_contract_overlaps over the selected contracts, skipped ones included.
BlockingOverlaps(chosen) == { pair \in plan.unsafe : pair \subseteq chosen }
Overlaps(chosen) == { pair \in plan.minor \union plan.unsafe : pair \subseteq chosen }

\* The findings outrank the requested execution mode.
ParallelAction(o, chosen) == o.parallel /\ Overlaps(chosen) = {}
Parallel == ParallelAction(opts, selected)

\* The selected tasks no earlier run has completed.
Remaining(chosen) == chosen \ remembered

\* _release_dependency_map: explicit dependencies, plus an edge from the later to the earlier
\* contract of every minor overlap, less what is already completed.
Needs(chosen, t) ==
    (plan.dependsOn[t] \union
        { u \in chosen : u < t /\ {u, t} \in Overlaps(chosen) \ BlockingOverlaps(chosen) })
    \ remembered

DependenciesKnown(chosen) ==
    \A t \in Remaining(chosen) : plan.dependsOn[t] \subseteq Remaining(chosen) \union remembered

\* _ordered_release_task_inputs: only the sequential scheduler looks for a cycle beforehand.
\* There is none if every nonempty set of contracts has a member that waits for no other.
Orderable(o, chosen) ==
    \/ ParallelAction(o, chosen)
    \/ \A part \in SUBSET Remaining(chosen) :
           part # {} => \E t \in part : Needs(chosen, t) \intersect part = {}

\* The checks run_release raises on before it executes a task.
Admissible(o, chosen) ==
    /\ worktrees = {}                              \* _ensure_no_existing_worktrees
    /\ taskBranches \intersect chosen = {}         \* _ensure_no_existing_task_branches
    /\ BlockingOverlaps(chosen) = {}
    /\ DependenciesKnown(chosen)
    /\ Orderable(o, chosen)

-----------------------------------------------------------------------------
(* The scheduler.                                                          *)

InFlight == { t \in Tasks : stage[t] \in {"submitted", "working", "returned"} }
Pending  == { t \in Tasks : stage[t] = "pending" }

\* Some collected result is not accepted.
SomeFailed(st) == \E t \in Tasks : st[t] = "collected" /\ result[t] # "accepted"

\* Variant: a dependency counts as soon as it was handed to the pool.
ReadyWhenSubmitted(st) ==
    { t \in Tasks : /\ st[t] = "pending"
                    /\ ~ (opts.stop /\ SomeFailed(st))
                    /\ \A d \in Needs(selected, t) : st[d] # "pending" }

\* The tasks the scheduler may start, given what it has collected.
Ready(st) ==
    { t \in Tasks : /\ st[t] = "pending"
                    /\ ~ (opts.stop /\ SomeFailed(st))
                    /\ \A d \in Needs(selected, t) : st[d] = "collected" }

\* The pool takes every ready task at once; the sequential scheduler submits none.
Submit(st) ==
    [t \in Tasks |-> IF Parallel /\ t \in Ready(st) THEN "submitted" ELSE st[t]]

-----------------------------------------------------------------------------
Nothing == [t \in Tasks |-> {}]
All(value) == [t \in Tasks |-> value]

Init ==
    /\ plan \in Plans
    /\ opts \in Options
    /\ branch = {} /\ published = {} /\ remembered = {}
    /\ proof = "none"
    /\ worktrees = {} /\ taskBranches = {}
    /\ runs = 0
    /\ phase = "idle"
    /\ selected = {}
    /\ stage = All("out") /\ result = All("none") /\ reruns = All(0) /\ startedOn = Nothing
    /\ landed = {} /\ merges = FALSE /\ checked = FALSE
    /\ decision = "none"

\* run_release up to the choice of the scheduler.  A run that fails a check raises and leaves
\* the release as it was, which is no step at all.
StartRun(o, chosen) ==
    /\ phase = "idle"
    /\ runs < MaxRuns
    /\ Admissible(o, chosen)
    /\ runs' = runs + 1
    /\ phase' = "executing"
    /\ opts' = o
    /\ selected' = chosen
    /\ stage' = [t \in Tasks |->
                   IF t \notin Remaining(chosen) THEN "out"
                   ELSE IF ParallelAction(o, chosen) /\ Needs(chosen, t) = {}
                        THEN "submitted" ELSE "pending"]
    /\ UNCHANGED <<plan, branch, proof, published, remembered, worktrees, taskBranches,
                   result, reruns, startedOn, landed, merges, checked, decision>>

\* run_task creates the worktree and the task branch from the head of the integration branch.
Begin(t) ==
    /\ stage' = [stage EXCEPT ![t] = "working"]
    /\ startedOn' = [startedOn EXCEPT ![t] = branch]
    /\ worktrees' = worktrees \union {t}
    /\ taskBranches' = taskBranches \union {t}
    /\ UNCHANGED <<plan, branch, proof, published, remembered, runs, phase, runVars,
                   landed, merges, checked, decision>>

\* The sequential scheduler takes the next task of its topological order.  The code fixes one
\* such order; every one is allowed here.
TakeNext(t) ==
    /\ phase = "executing"
    /\ ~ Parallel
    /\ InFlight = {}
    /\ t \in Ready(stage)
    /\ Begin(t)
    /\ UNCHANGED <<result, reruns>>

\* A thread of the pool begins a submitted task.
WorkerBegins(t) ==
    /\ phase \in {"executing", "draining"}
    /\ stage[t] = "submitted"
    /\ Begin(t)
    /\ UNCHANGED <<result, reruns>>

\* Variant: the retry budget is not counted down.
RerunUnbounded(t) ==
    /\ phase = "executing"
    /\ ~ Parallel
    /\ stage[t] = "returned"
    /\ result[t] = "failed"
    /\ reruns' = [reruns EXCEPT ![t] = @ + 1]
    /\ result' = [result EXCEPT ![t] = "none"]
    /\ Begin(t)

\* The supervisor reruns a task that failed for a recoverable reason (sequential runs only).
Rerun(t) ==
    /\ phase = "executing"
    /\ ~ Parallel
    /\ stage[t] = "returned"
    /\ result[t] = "failed"
    /\ reruns[t] < MaxReruns
    /\ reruns' = [reruns EXCEPT ![t] = @ + 1]
    /\ result' = [result EXCEPT ![t] = "none"]
    /\ Begin(t)

Returns(t, verdict) ==
    /\ phase \in {"executing", "draining"}
    /\ stage[t] = "working"
    /\ stage' = [stage EXCEPT ![t] = "returned"]
    /\ result' = [result EXCEPT ![t] = verdict]
    /\ startedOn' = [startedOn EXCEPT ![t] = {}]
    /\ UNCHANGED <<plan, published, remembered, runs, phase, runVars, reruns, checked, decision>>

\* The task is accepted, finalized as the flags say, and its artifacts cleaned up: the worktree
\* is kept when nothing finalized it, the branch also when its commit is not merged.
Accept(t, changed) ==
    /\ Returns(t, "accepted")
    /\ LET merged == opts.accept = "merge"
       IN  /\ landed' = IF merged \/ ~ changed THEN landed \union {t} ELSE landed
           /\ branch' = IF merged \/ ~ changed THEN branch \union {t} ELSE branch
           /\ proof' = IF merged /\ changed THEN "none" ELSE proof
           /\ merges' = (merges \/ merged)
    /\ worktrees' = IF opts.accept = "keep" THEN worktrees ELSE worktrees \ {t}
    /\ taskBranches' = IF opts.accept = "keep" \/ (opts.accept = "commit" /\ changed)
                       THEN taskBranches ELSE taskBranches \ {t}

\* The executor, the verification or the review rejects the task: nothing of it is kept.
Fail(t, verdict) ==
    /\ Returns(t, verdict)
    /\ worktrees' = worktrees \ {t}
    /\ taskBranches' = taskBranches \ {t}
    /\ UNCHANGED <<branch, proof, landed, merges>>

\* Accepted work could not be finalized: escalated, with its worktree and branch kept.
FailToFinalize(t) ==
    /\ opts.accept # "keep"
    /\ Returns(t, "escalated")
    /\ UNCHANGED <<branch, proof, landed, merges, worktrees, taskBranches>>

\* run_task raises (the worktree cannot be created, a contract or a config does not load).
RaiseInTask(t, begun) ==
    /\ Returns(t, "raised")
    /\ worktrees' = IF begun THEN worktrees ELSE worktrees \ {t}
    /\ taskBranches' = IF begun THEN taskBranches ELSE taskBranches \ {t}
    /\ UNCHANGED <<branch, proof, landed, merges>>

\* The scheduler wakes up with some finished tasks, notes their results, and submits what has
\* become ready.  A raised exception leaves the scheduler; the pool waits for the other threads.
Collect(done) ==
    /\ phase = "executing"
    /\ done # {}
    /\ \A t \in done : stage[t] = "returned"
    /\ LET noted == [t \in Tasks |-> IF t \in done THEN "collected" ELSE stage[t]]
           raised == \E t \in done : result[t] = "raised"
       IN  /\ stage' = IF raised THEN noted ELSE Submit(noted)
           /\ phase' = IF raised THEN "draining" ELSE phase
    /\ reruns' = [t \in Tasks |-> IF t \in done THEN 0 ELSE reruns[t]]
    /\ UNCHANGED <<plan, branch, proof, published, remembered, worktrees, taskBranches, runs,
                   runVars, result, startedOn, landed, merges, checked, decision>>

-----------------------------------------------------------------------------
(* The decision on the release.                                            *)

Ran == { t \in Tasks : stage[t] = "collected" }

\* Variant: one accepted result is enough.
ReleaseDecisionAny(repaired) ==
    IF repaired \/ \E t \in Ran : result[t] = "accepted" THEN "accepted"
    ELSE IF \E t \in Ran : result[t] = "escalated" THEN "escalated" ELSE "failed"

\* _release_decision over the results that there are; `repaired` adds accepted repair results.
ReleaseDecision(repaired) ==
    IF /\ Ran # {} \/ repaired
       /\ \A t \in Ran : result[t] = "accepted"
    THEN "accepted"
    ELSE IF \E t \in Ran : result[t] = "escalated" THEN "escalated" ELSE "failed"

TaskDecision ==
    IF Ran = {} /\ selected \intersect remembered # {} THEN "accepted" ELSE ReleaseDecision(FALSE)

\* Variant: the scheduler ends when nothing is ready any more.
SchedulerIdle == InFlight = {} /\ Ready(stage) = {}

SchedulerDone ==
    /\ InFlight = {}
    /\ Ready(stage) = {}
    /\ Pending = {} \/ (opts.stop /\ SomeFailed(stage))

\* Every task has its result, or a failure stopped the scheduler.  The scope-risk gate may turn
\* an acceptance with oversized changes into NEEDS_REVISION.
EndExecution(scopeAllowed) ==
    /\ phase = "executing"
    /\ SchedulerDone
    /\ scopeAllowed \/ Ran # {}
    /\ decision' = IF TaskDecision = "accepted" /\ ~ scopeAllowed
                   THEN "needs_revision" ELSE TaskDecision
    /\ phase' = IF decision' = "accepted" /\ plan.reviewer THEN "review" ELSE "verify"
    /\ UNCHANGED <<plan, branch, proof, published, remembered, worktrees, taskBranches, runs,
                   runVars, taskVars, landed, merges, checked>>

Reset ==
    /\ phase' = "idle"
    /\ selected' = {}
    /\ stage' = All("out") /\ result' = All("none") /\ reruns' = All(0) /\ startedOn' = Nothing
    /\ landed' = {} /\ merges' = FALSE /\ checked' = FALSE
    /\ decision' = "none"
    /\ UNCHANGED <<plan, branch, proof, published, worktrees, taskBranches, runs, opts>>

\* Variant: blocked tasks are an error only after a failure.
RaiseUnsatisfiedAfterFailure ==
    /\ phase = "executing"
    /\ InFlight = {} /\ Ready(stage) = {}
    /\ Pending # {} /\ ~ opts.stop /\ SomeFailed(stage)
    /\ Reset
    /\ UNCHANGED remembered

\* "release execution DAG has unsatisfied dependencies", raised by the parallel scheduler after
\* it has run everything else.
RaiseUnsatisfied ==
    /\ phase = "executing"
    /\ InFlight = {} /\ Ready(stage) = {}
    /\ Pending # {} /\ ~ (opts.stop /\ SomeFailed(stage))
    /\ Reset
    /\ UNCHANGED remembered

\* The exception of a task reaches the caller once the pool is empty.
Drained ==
    /\ phase = "draining"
    /\ \A t \in InFlight : stage[t] = "returned"
    /\ Reset
    /\ UNCHANGED remembered

\* The feature review accepts the branch: at once, after accepted repair tasks, or, when the
\* repair budget is spent, on a passing final verification of its own.
ReviewAccepts(repaired, verified) ==
    /\ phase = "review"
    /\ decision' = ReleaseDecision(repaired)
    /\ merges' = (merges \/ (repaired /\ opts.accept = "merge"))
    /\ worktrees' = IF repaired /\ opts.accept = "keep" THEN worktrees \union {RepairWork} ELSE worktrees
    /\ proof' = IF verified THEN "passed"
                ELSE IF repaired /\ opts.accept = "merge" THEN "none" ELSE proof
    /\ checked' = verified
    /\ phase' = "verify"
    /\ UNCHANGED <<plan, branch, published, remembered, taskBranches, runs, runVars, taskVars, landed>>

\* The review loop ends blocked or escalated, possibly after repairs were merged, with a repair
\* worktree left behind, or on findings that its own final verification did not settle.
ReviewRejects(verdict, repaired, left, final) ==
    /\ phase = "review"
    /\ decision' = verdict
    /\ merges' = (merges \/ (repaired /\ opts.accept = "merge"))
    /\ worktrees' = IF left THEN worktrees \union {RepairWork} ELSE worktrees
    /\ proof' = IF final # "none" THEN final
                ELSE IF repaired /\ opts.accept = "merge" THEN "none" ELSE proof
    /\ checked' = (final # "none")
    /\ phase' = "verify"
    /\ UNCHANGED <<plan, branch, published, remembered, taskBranches, runs, runVars, taskVars, landed>>

\* A severe budget violation fails an accepted release.
OverBudget ==
    /\ phase = "verify"
    /\ decision = "accepted"
    /\ decision' = "failed"
    /\ phase' = "finalize"
    /\ UNCHANGED <<plan, branch, proof, published, remembered, worktrees, taskBranches, runs,
                   runVars, taskVars, landed, merges, checked>>

\* Variant: a reviewed release counts as verified.
VerificationDueUnreviewed == decision = "accepted" /\ merges /\ ~ plan.reviewer

\* The final verification of the integration branch is due.
VerificationDue == decision = "accepted" /\ merges /\ ~ checked

Verify(passes) ==
    /\ phase = "verify"
    /\ VerificationDue
    /\ proof' = IF passes THEN "passed" ELSE "failed"
    /\ decision' = IF passes THEN decision ELSE "failed"
    /\ phase' = "finalize"
    /\ UNCHANGED <<plan, branch, published, remembered, worktrees, taskBranches, runs,
                   runVars, taskVars, landed, merges, checked>>

SkipVerification ==
    /\ phase = "verify"
    /\ ~ VerificationDue
    /\ phase' = "finalize"
    /\ UNCHANGED <<plan, branch, proof, published, remembered, worktrees, taskBranches, runs,
                   runVars, taskVars, landed, merges, checked, decision>>

\* _finalize_release.  The gate lets only an accepted release through, since the review loop
\* accepts with nothing unresolved; git may still refuse.
Finalize(gitWorks) ==
    /\ phase = "finalize"
    /\ published' = IF opts.finalize /\ decision = "accepted" /\ plan.handsOver /\ gitWorks
                    THEN branch ELSE published
    /\ phase' = "summary"
    /\ UNCHANGED <<plan, branch, proof, remembered, worktrees, taskBranches, runs,
                   runVars, taskVars, landed, merges, checked, decision>>

\* Variant: every accepted task is recorded as done.
WriteSummaryOfAccepted ==
    /\ phase = "summary"
    /\ remembered' = remembered \union { t \in Ran : result[t] = "accepted" }
    /\ Reset

\* release_summary.json: whatever the decision, the next run skips the tasks that landed.
WriteSummary ==
    /\ phase = "summary"
    /\ remembered' = remembered \union { t \in Ran : result[t] = "accepted" /\ t \in landed }
    /\ Reset

\* The process is killed, or run_release raises between two of its steps.
Crash ==
    /\ phase # "idle"
    /\ Reset
    /\ UNCHANGED remembered

\* The operator removes the worktrees and task branches that block the next run.
Tidy ==
    /\ phase = "idle"
    /\ worktrees # {} \/ taskBranches # {}
    /\ worktrees' = {} /\ taskBranches' = {}
    /\ UNCHANGED <<plan, branch, proof, published, remembered, runs, phase, runVars, taskVars,
                   landed, merges, checked, decision>>

-----------------------------------------------------------------------------
WorkerStep(t) ==
    \/ WorkerBegins(t)
    \/ \E changed \in BOOLEAN : Accept(t, changed)
    \/ \E verdict \in {"failed", "escalated"} : Fail(t, verdict)
    \/ FailToFinalize(t)
    \/ \E begun \in BOOLEAN : RaiseInTask(t, begun)

SchedulerStep ==
    \/ \E t \in Tasks : TakeNext(t) \/ Rerun(t)
    \/ \E done \in SUBSET Tasks : Collect(done)
    \/ \E scopeAllowed \in BOOLEAN : EndExecution(scopeAllowed)
    \/ RaiseUnsatisfied
    \/ Drained

JudgeStep ==
    \/ \E repaired, verified \in BOOLEAN : ReviewAccepts(repaired, verified)
    \/ \E verdict \in {"needs_revision", "escalated"}, repaired, left \in BOOLEAN,
          final \in {"none", "passed", "failed"} : ReviewRejects(verdict, repaired, left, final)
    \/ OverBudget
    \/ \E passes \in BOOLEAN : Verify(passes)
    \/ SkipVerification
    \/ \E gitWorks \in BOOLEAN : Finalize(gitWorks)
    \/ WriteSummary

Next ==
    \/ \E o \in Options, chosen \in Selections : StartRun(o, chosen)
    \/ \E t \in Tasks : WorkerStep(t)
    \/ SchedulerStep
    \/ JudgeStep
    \/ Crash
    \/ Tidy

Spec == Init /\ [][Next]_vars

\* Every task ends: the executor and every command it runs have a timeout.  The scheduler thread
\* and the pipeline behind it never block for anything else.
Fairness ==
    /\ \A t \in Tasks : WF_vars(WorkerStep(t))
    /\ WF_vars(SchedulerStep)
    /\ WF_vars(JudgeStep)

LiveSpec == Spec /\ Fairness

-----------------------------------------------------------------------------
(* Properties.                                                             *)

Stages  == {"out", "pending", "submitted", "working", "returned", "collected"}
Results == {"none", "accepted", "failed", "escalated", "raised"}
Phases  == {"idle", "executing", "draining", "review", "verify", "finalize", "summary"}

\* Every variable has the values the code can give it; a task is rerun at most MaxReruns times.
TypeOK ==
    /\ plan \in Plans
    /\ branch \subseteq Tasks /\ published \subseteq Tasks /\ remembered \subseteq Tasks
    /\ proof \in {"none", "passed", "failed"}
    /\ worktrees \subseteq Tasks \union {RepairWork} /\ taskBranches \subseteq Tasks
    /\ runs \in 0..MaxRuns
    /\ phase \in Phases
    /\ opts \in Options
    /\ selected \subseteq Tasks
    /\ stage \in [Tasks -> Stages]
    /\ result \in [Tasks -> Results]
    /\ reruns \in [Tasks -> 0..MaxReruns]
    /\ startedOn \in [Tasks -> SUBSET Tasks]
    /\ landed \subseteq Tasks
    /\ merges \in BOOLEAN /\ checked \in BOOLEAN
    /\ decision \in {"none", "accepted", "needs_revision", "failed", "escalated"}

\* What the summaries call done is on the integration branch: a task that a later run skips,
\* and that the dependencies of a later task are reduced by, has left its work there, however
\* the runs before were stopped, killed or started with other flags.
RememberedWorkIsThere == remembered \subseteq branch

\* Under --merge-on-accept a task starts from a branch that holds the work of everything it
\* depends on, whichever run did it and in whichever order the pool finished (unless the
\* operator asked to continue after failures).
DependencyWorkVisible ==
    \A t \in Tasks :
        stage[t] = "working" /\ opts.stop /\ opts.accept = "merge"
            => plan.dependsOn[t] \subseteq startedOn[t]

\* Two tasks whose contracts allow the same files are never at work at the same time.
OverlapsNeverConcurrent ==
    \A t, u \in Tasks :
        t # u /\ stage[t] = "working" /\ stage[u] = "working"
            => {t, u} \notin plan.minor \union plan.unsafe

\* A release is accepted only if every contract it was started with is accepted, now or in a
\* recorded run, and under --merge-on-accept only if the branch holds all of them; a scheduler
\* that was stopped half-way never passes the decision with the results it happens to have.
AcceptedReleaseIsWhole ==
    decision = "accepted" =>
        \A t \in selected : /\ t \in remembered \/ result[t] = "accepted"
                            /\ opts.accept = "merge" => t \in branch

\* With --continue-on-failure a run that reaches a decision has tried every one of its tasks.
ContinueTriesEveryTask ==
    phase \in {"review", "verify", "finalize", "summary"} /\ ~ opts.stop
        => \A t \in Remaining(selected) : result[t] # "none"

\* A run that merged anything hands over the branch only after the final verification passed on
\* the branch as it is then: nothing is merged between that verification and the hand-over.
MergedRunsAreVerified ==
    [][published' # published /\ merges => proof = "passed"]_vars

\* Every run ends, with a decision or with an exception.
EveryRunEnds == phase # "idle" ~> phase = "idle"

\* The order of the phases of a run, and of the stages of a task.
PhaseRank == [executing |-> 1, draining |-> 2, review |-> 3, verify |-> 4, finalize |-> 5,
              summary |-> 6]
StageRank == [out |-> 0, pending |-> 1, submitted |-> 2, working |-> 3, returned |-> 4,
              collected |-> 5]

\* A task whose result was not collected yet moves on, or begins one of its reruns.
Advances(t) ==
    /\ stage[t] # "collected"
    /\ \/ stage'[t] = "collected"
       \/ reruns'[t] = reruns[t] /\ StageRank[stage'[t]] > StageRank[stage[t]]
       \/ reruns'[t] = reruns[t] + 1 /\ reruns'[t] <= MaxReruns

\* Why every run ends: no step of it goes back.  Each takes the run to a later phase, or some
\* tasks forward and none back; a rerun takes a task back, but its budget is counted down, and
\* the scheduler does not forget the budget before it has the last result (run_release, the
\* supervised rerun, the two scheduling loops).
RunAdvances ==
    [][phase # "idle" /\ phase' # "idle" =>
           \/ PhaseRank[phase'] > PhaseRank[phase]
           \/ /\ phase' = phase
              /\ \A t \in Tasks : Advances(t) \/ (stage'[t] = stage[t] /\ reruns'[t] = reruns[t])
              /\ \E t \in Tasks : Advances(t)]_vars

\* README: hard gates remain non-bypassable for "unrepaired verification failures".  A branch
\* that failed its final verification is not handed over before it changed or passed.
\* Not so of the code: a run that merges nothing verifies nothing.
FailedVerificationBlocksHandOver ==
    [][published' # published => proof # "failed"]_vars

\* test_run_release_accepts_completed_only_continuation: a run whose contracts are all completed
\* by earlier runs is accepted.  Such a run has no result that could make it FAILED, and a review
\* that accepts the branch does not make it so.  It does.
CompletedOnlyContinuationAccepted ==
    [][phase = "review" /\ phase' = "verify" /\ Ran = {} => decision' # "failed"]_vars

-----------------------------------------------------------------------------
(* What the release promises, whichever scheduler runs it.                 *)

\* Between its start and its last task a run works, then it is judged, then it is recorded.
Standing ==
    IF phase = "idle" THEN "off"
    ELSE IF phase \in {"executing", "draining"} THEN "working"
    ELSE IF phase = "summary" THEN "closing" ELSE "judging"

Accepted == { t \in Tasks : result[t] = "accepted" }

Ledger == INSTANCE ReleaseLedger
    WITH run <- Standing, merging <- (opts.accept = "merge"), wanted <- selected,
         accepted <- Accepted, work <- branch, done <- remembered, delivered <- published

\* Both schedulers, the reruns, the reviews and the exceptions, and a kill at any point, keep
\* the promise of ReleaseLedger: no contract is done twice, none is recorded whose work is not
\* on the branch, and the branch is handed over once, whole, after the last task.
ImplementsLedger == Ledger!Spec
=============================================================================
