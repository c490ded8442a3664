---------------------------- MODULE Finalization ----------------------------
(***************************************************************************)
(* Finalisation of accepted work: how git_finalize.py, and the part of     *)
(* orchestrator.run_task that calls it, move the change of an accepted     *)
(* task from its worktree to the integration branch, and how a release     *)
(* moves the integration branch to the base branch.  Several threads (one  *)
(* per task of a parallel release) and several CLI processes work on one   *)
(* main checkout and one lock file.                                        *)
(*                                                                         *)
(* A branch is the set of changes it contains; a change is named after the *)
(* task that made it.  Two changes that touch the same lines form a member *)
(* of Conflicts.                                                           *)
(***************************************************************************)
EXTENDS Naturals, FiniteSets

CONSTANTS
  Tasks,          \* accepted tasks; a task names its own change
  Releases,       \* releases that finish with the policy local_merge
  Procs,          \* operating-system processes (one CLI invocation each)
  ProcOf,         \* the process a task or a release runs in
  Integration,    \* the branch the tasks are merged into: feature/<release>
  Main,           \* the default base branch of the project
  External,       \* a change somebody else pushed to origin/<Integration>
  Conflicts,      \* the pairs of changes git cannot combine on its own
  Mode,           \* which of the *_on_accept flags is set
  HasRemote,      \* a remote called origin is configured
  ConfigBound,    \* FALSE: _attempt_conflict_repair reads the name config,
                  \* which is bound neither there nor in its module
  GitMayFail,     \* git commands may fail for reasons of their own
  MayCrash,       \* processes may be killed
  SecondStart,    \* another run-release starts on the same repository
  Nobody          \* no owner of the lock file

Finalizers == Tasks \cup Releases
Branches   == {Integration, Main}
Changes    == Tasks \cup {External}
Modes      == {"none", "commit", "merge", "push"}

ASSUME FinalizationAssumption ==
  /\ IsFiniteSet(Tasks)
  /\ Tasks \cap Releases = {}
  /\ External \notin Tasks
  /\ Nobody \notin Finalizers
  /\ Integration # Main
  /\ ProcOf \in [Finalizers -> Procs]
  /\ Conflicts \subseteq SUBSET Changes
  /\ Mode \in Modes
  /\ {HasRemote, ConfigBound, GitMayFail, MayCrash, SecondStart} \subseteq BOOLEAN

VARIABLES
  pc,         \* where a finalizer is
  lock,       \* the owner named in .git/agent-main.lock, Nobody: no such file
  head,       \* the branch the main checkout is on
  checkout,   \* the main checkout: clean, merging (git is at it) or dirty
  branches,   \* the contents of the integration branch and of the base branch
  origin,     \* the contents of origin/<Integration>
  tree,       \* the worktree of a task
  branch,     \* the contents of the branch of a task, {}: no such branch
  onto,       \* the upstream the last rebase of a task was started on
  attempt,    \* 1, or 2: the call after a conflict repair
  res,        \* the FinalizeResult under construction, then the final one
  starter     \* the second run-release: idle, checked (worktree root), done

vars == <<pc, lock, head, checkout, branches, origin, tree, branch, onto,
          attempt, res, starter>>

(***************************************************************************)
(* Types                                                                   *)
(***************************************************************************)

\* Inside the with-block of _merge_lock.
Holding == {"commit", "ensure", "rebase", "merge", "merging", "push", "exit"}
Settled == {"done", "raised", "crashed"}
PCs     == {"idle", "accepted", "repair", "cleanup"} \cup Holding \cup Settled

NoStep == "none"
Steps  == {"lock", "git", "clean-check", "rebase", "merge"}

FinalizeResult == [commit : BOOLEAN, merged : BOOLEAN, pushed : BOOLEAN,
                   step : Steps \cup {NoStep}]
EmptyResult    == [commit |-> FALSE, merged |-> FALSE, pushed |-> FALSE,
                   step |-> NoStep]

TypeOK ==
  /\ pc \in [Finalizers -> PCs]
  /\ lock \in Finalizers \cup {Nobody}
  /\ head \in Branches
  /\ checkout \in {"clean", "merging", "dirty"}
  /\ branches \in [Branches -> SUBSET Changes]
  /\ origin \in SUBSET Changes
  /\ tree \in [Tasks -> {"absent", "dirty", "clean", "rebasing"}]
  /\ branch \in [Tasks -> SUBSET Changes]
  /\ onto \in [Tasks -> SUBSET Changes]
  /\ attempt \in [Finalizers -> {1, 2}]
  /\ res \in [Finalizers -> FinalizeResult]
  /\ starter \in {"idle", "checked", "done"}

(***************************************************************************)
(* Helpers                                                                 *)
(***************************************************************************)

ShouldMerge == Mode \in {"merge", "push"}
ShouldPush  == Mode = "push"

\* Git refuses to combine two histories when a change only one has clashes
\* with a change only the other has.
Clash(ours, theirs) ==
  \E c \in ours \ theirs, d \in theirs \ ours : {c, d} \in Conflicts

\* The branch a finalizer merges into, and the branch it merges.
Target(f)  == IF f \in Tasks THEN Integration ELSE Main
Payload(f) == IF f \in Tasks THEN branch[f] ELSE branches[Integration]

\* Variant for checking: the remote ref is used without asking whether it exists.
UpstreamsUnchecked == {origin}

\* _rebase_worktree_onto: origin/<base> after a successful fetch of an existing
\* ref, else the local branch.
Upstreams ==
  {branches[Integration]} \cup (IF HasRemote /\ origin # {} THEN {origin} ELSE {})

\* Variant for checking: the lock of a process that died is taken over.
LockFreeUnlessAlive == lock = Nobody \/ (lock \in Finalizers /\ pc[lock] = "crashed")

\* The lock file is created with O_CREAT | O_EXCL: whoever wrote it, and
\* whether that process still lives, is not looked at.
LockFree == lock = Nobody

\* _ensure_clean on the main checkout.
EnsureClean == checkout = "clean"

\* Variant for checking: the main checkout stays where it is.
CurrentBranch(f) == head

\* _ensure_base_branch: the branch the main checkout is switched to.
SwitchTo(f) == Target(f)

\* Variant for checking: the failed result claims the merge that was asked for.
FailedFinalizeResultOptimistic(f, step) ==
  [EmptyResult EXCEPT !.step = step, !.merged = ShouldMerge]

\* _failed_finalize_result: whatever was done before the error is not reported.
FailedFinalizeResult(f, step) == [EmptyResult EXCEPT !.step = step]

\* A GitFinalizeError inside the with-block: the block is left.
Raise(f, step) ==
  /\ pc' = [pc EXCEPT ![f] = "exit"]
  /\ res' = [res EXCEPT ![f].step = step]

Goto(f, label) == pc' = [pc EXCEPT ![f] = label]

(***************************************************************************)
(* A task is run up to its acceptance; a release up to its finalization    *)
(***************************************************************************)

\* create_worktree refuses (WorktreeError, which nothing catches) when the main
\* checkout is not clean; else the task branch forks from the integration
\* branch, the executor works in the worktree and the review accepts.
StartTask(t) ==
  /\ pc[t] = "idle"
  /\ IF ~EnsureClean
     THEN /\ Goto(t, "raised")
          /\ UNCHANGED <<tree, branch>>
     ELSE /\ Goto(t, IF Mode = "none" THEN "cleanup" ELSE "accepted")
          /\ tree' = [tree EXCEPT ![t] = "dirty"]
          /\ branch' = [branch EXCEPT ![t] = branches[Integration]]
  /\ UNCHANGED <<lock, head, checkout, branches, origin, onto, attempt, res, starter>>

\* _finalize_release comes after every task of the release's own run.
StartRelease(r) ==
  /\ pc[r] = "idle"
  /\ \A t \in Tasks : ProcOf[t] = ProcOf[r] => pc[t] = "done"
  /\ Goto(r, "accepted")
  /\ UNCHANGED <<lock, head, checkout, branches, origin, tree, branch, onto,
                 attempt, res, starter>>

(***************************************************************************)
(* finalize_accepted_task and merge_integration_branch_to_base             *)
(***************************************************************************)

\* _merge_lock.__enter__ succeeds.
EnterLock(f) ==
  /\ pc[f] = "accepted"
  /\ LockFree
  /\ lock' = f
  /\ Goto(f, IF f \in Tasks THEN "commit" ELSE "ensure")
  /\ res' = [res EXCEPT ![f] = EmptyResult]
  /\ UNCHANGED <<head, checkout, branches, origin, tree, branch, onto, attempt, starter>>

\* Variant for checking: whichever call fails, a repair is attempted.
AfterAnyFailure(f) == IF f \in Tasks THEN "repair" ELSE "cleanup"

\* A task whose second call fails is finished, a release has no second call.
AfterFailure(f) == IF f \in Tasks /\ attempt[f] = 1 THEN "repair" ELSE "cleanup"

\* Variant for checking: the contender waits for the lock file to disappear.
LockHeldWaits(f) ==
  /\ pc[f] = "accepted"
  /\ ~LockFree
  /\ UNCHANGED vars

\* The file exists: the error is raised at once, nobody waits for the lock.
LockHeld(f) ==
  /\ pc[f] = "accepted"
  /\ ~LockFree
  /\ Goto(f, AfterFailure(f))
  /\ res' = [res EXCEPT ![f] = FailedFinalizeResult(f, "lock")]
  /\ UNCHANGED <<lock, head, checkout, branches, origin, tree, branch, onto,
                 attempt, starter>>

\* commit_worktree_changes: git add --all and git commit, or nothing to commit.
CommitWorktreeChanges(t) ==
  /\ pc[t] = "commit"
  /\ Goto(t, IF ShouldMerge THEN "ensure" ELSE "exit")
  /\ IF tree[t] = "dirty"
     THEN /\ tree' = [tree EXCEPT ![t] = "clean"]
          /\ branch' = [branch EXCEPT ![t] = @ \cup {t}]
          /\ res' = [res EXCEPT ![t].commit = TRUE]
     ELSE UNCHANGED <<tree, branch, res>>
  /\ UNCHANGED <<lock, head, checkout, branches, origin, onto, attempt, starter>>

\* _ensure_base_branch: a clean main checkout, switched when it is elsewhere.
EnsureBaseBranch(f) ==
  /\ pc[f] = "ensure"
  /\ IF ~EnsureClean
     THEN Raise(f, "clean-check") /\ UNCHANGED head
     ELSE /\ head' = SwitchTo(f)
          /\ Goto(f, IF f \in Tasks THEN "rebase" ELSE "merge")
          /\ UNCHANGED res
  /\ UNCHANGED <<lock, checkout, branches, origin, tree, branch, onto, attempt, starter>>

\* _rebase_worktree_onto: a conflict leaves the worktree in the middle of the
\* rebase, the branch still at its old commit.
RebaseWorktreeOnto(t) ==
  /\ pc[t] = "rebase"
  /\ \E up \in Upstreams :
       /\ onto' = [onto EXCEPT ![t] = up]
       /\ IF Clash(branch[t], up)
          THEN /\ Raise(t, "rebase")
               /\ tree' = [tree EXCEPT ![t] = "rebasing"]
               /\ UNCHANGED branch
          ELSE /\ Goto(t, "merge")
               /\ branch' = [branch EXCEPT ![t] = @ \cup up]
               /\ UNCHANGED <<tree, res>>
  /\ UNCHANGED <<lock, head, checkout, branches, origin, attempt, starter>>

\* merge_branch, first half: the checkout is clean and git merge begins to
\* rewrite it, which every other user of the checkout can see.
MergeBegin(f) ==
  /\ pc[f] = "merge"
  /\ IF ~EnsureClean
     THEN Raise(f, "clean-check") /\ UNCHANGED checkout
     ELSE Goto(f, "merging") /\ checkout' = "merging" /\ UNCHANGED res
  /\ UNCHANGED <<lock, head, branches, origin, tree, branch, onto, attempt, starter>>

\* merge_branch, second half: the branch that is checked out advances, or the
\* conflict stays in the main checkout, where nothing in the code aborts it.
MergeEnd(f) ==
  /\ pc[f] = "merging"
  /\ IF Clash(Payload(f), branches[head])
     THEN /\ Raise(f, "merge")
          /\ checkout' = "dirty"
          /\ UNCHANGED branches
     ELSE /\ Goto(f, IF f \in Tasks /\ ShouldPush THEN "push" ELSE "exit")
          /\ checkout' = "clean"
          /\ branches' = [branches EXCEPT ![head] = @ \cup Payload(f)]
          /\ res' = [res EXCEPT ![f].merged = TRUE]
  /\ UNCHANGED <<lock, head, origin, tree, branch, onto, attempt, starter>>

\* push_branch: origin accepts nothing but a fast-forward.
PushBranch(t) ==
  /\ pc[t] = "push"
  /\ IF HasRemote /\ origin \subseteq branches[Integration]
     THEN /\ origin' = branches[Integration]
          /\ Goto(t, "exit")
          /\ res' = [res EXCEPT ![t].pushed = TRUE]
     ELSE Raise(t, "git") /\ UNCHANGED origin
  /\ UNCHANGED <<lock, head, checkout, branches, tree, branch, onto, attempt, starter>>

\* Any git command run under the lock may fail without an effect.
StepOf(label) == IF label \in {"rebase", "merge"} THEN label ELSE "git"

GitFails(f) ==
  /\ GitMayFail
  /\ pc[f] \in {"commit", "ensure", "rebase", "merge", "push"}
  /\ Raise(f, StepOf(pc[f]))
  /\ UNCHANGED <<lock, head, checkout, branches, origin, tree, branch, onto,
                 attempt, starter>>

\* _merge_lock.__exit__ unlinks the file; the result or the error propagates.
ExitLock(f) ==
  /\ pc[f] = "exit"
  /\ lock' = Nobody
  /\ IF res[f].step = NoStep
     THEN Goto(f, "cleanup") /\ UNCHANGED res
     ELSE /\ Goto(f, AfterFailure(f))
          /\ res' = [res EXCEPT ![f] = FailedFinalizeResult(f, res[f].step)]
  /\ UNCHANGED <<head, checkout, branches, origin, tree, branch, onto, attempt, starter>>

(***************************************************************************)
(* The error path of run_task                                              *)
(***************************************************************************)

\* _attempt_conflict_repair asks the worktree, not the main checkout, for
\* conflicted files.
Repairable(t) == res[t].step \in {"rebase", "merge"} /\ tree[t] = "rebasing"

\* Not attempted, or the executor or the verification left it unresolved: the
\* decision becomes ESCALATED and the error is recorded.
ConflictStays(t) ==
  /\ pc[t] = "repair"
  /\ Goto(t, "cleanup")
  /\ UNCHANGED <<lock, head, checkout, branches, origin, tree, branch, onto,
                 attempt, res, starter>>

\* The executor resolved every conflict.  Verification is called with
\* config.verification_runtime; if config is bound and it passes, the rebase is
\* continued and finalize_accepted_task is called for the second and last time.
ConflictRepaired(t) ==
  /\ pc[t] = "repair"
  /\ Repairable(t)
  /\ IF ConfigBound
     THEN /\ Goto(t, "accepted")
          /\ attempt' = [attempt EXCEPT ![t] = 2]
          /\ tree' = [tree EXCEPT ![t] = "clean"]
          /\ branch' = [branch EXCEPT ![t] = @ \cup onto[t]]
     ELSE Goto(t, "raised") /\ UNCHANGED <<attempt, tree, branch>>
  /\ UNCHANGED <<lock, head, checkout, branches, origin, onto, res, starter>>

\* cleanup_task_artifacts with the two _should_preserve_* predicates.
PreserveWorktree(t) == Mode = "none" \/ res[t].step # NoStep

\* Variant for checking: the error is not considered.
PreserveBranchIgnoringError(t) ==
  Mode = "none" \/ (res[t].commit /\ ~res[t].merged)

PreserveBranch(t) ==
  \/ Mode = "none"
  \/ res[t].step # NoStep
  \/ res[t].commit /\ ~res[t].merged

CleanupTaskArtifacts(t) ==
  /\ pc[t] = "cleanup"
  /\ Goto(t, "done")
  /\ tree' = [tree EXCEPT ![t] = IF PreserveWorktree(t) THEN @ ELSE "absent"]
  /\ branch' = [branch EXCEPT ![t] = IF PreserveBranch(t) THEN @ ELSE {}]
  /\ UNCHANGED <<lock, head, checkout, branches, origin, onto, attempt, res, starter>>

FinishRelease(r) ==
  /\ pc[r] = "cleanup"
  /\ Goto(r, "done")
  /\ UNCHANGED <<lock, head, checkout, branches, origin, tree, branch, onto,
                 attempt, res, starter>>

(***************************************************************************)
(* The environment                                                         *)
(***************************************************************************)

\* A process dies: the lock file and a merge in progress stay behind.
Crash(p) ==
  /\ MayCrash
  /\ \E f \in Finalizers : ProcOf[f] = p /\ pc[f] \notin Settled \cup {"idle"}
  /\ checkout' = IF \E f \in Finalizers : ProcOf[f] = p /\ pc[f] = "merging"
                 THEN "dirty" ELSE checkout
  /\ pc' = [f \in Finalizers |->
              IF ProcOf[f] = p /\ pc[f] \notin Settled THEN "crashed" ELSE pc[f]]
  /\ UNCHANGED <<lock, head, branches, origin, tree, branch, onto, attempt, res, starter>>

\* Somebody else pushes to the integration branch on the remote.
ExternalPush ==
  /\ HasRemote
  /\ External \notin origin
  /\ origin' = origin \cup {External}
  /\ UNCHANGED <<pc, lock, head, checkout, branches, tree, branch, onto,
                 attempt, res, starter>>

\* run_release checks that the worktree root is empty...
StartCheck ==
  /\ SecondStart
  /\ starter = "idle"
  /\ \A t \in Tasks : tree[t] = "absent"
  /\ starter' = "checked"
  /\ UNCHANGED <<pc, lock, head, checkout, branches, origin, tree, branch,
                 onto, attempt, res>>

\* ... and later ensure_branch_from_base switches the main checkout to the base
\* branch to fork its own integration branch, without the merge lock.
EnsureBranchFromBase ==
  /\ starter = "checked"
  /\ starter' = "done"
  /\ head' = IF EnsureClean THEN Main ELSE head
  /\ UNCHANGED <<pc, lock, checkout, branches, origin, tree, branch, onto,
                 attempt, res>>

-----------------------------------------------------------------------------

Init ==
  /\ pc = [f \in Finalizers |-> "idle"]
  /\ lock = Nobody
  /\ head \in Branches
  /\ checkout = "clean"
  /\ \E ahead \in SUBSET {External} :
       branches = [b \in Branches |-> IF b = Main THEN ahead ELSE {}]
  /\ origin = {}
  /\ tree = [t \in Tasks |-> "absent"]
  /\ branch = [t \in Tasks |-> {}]
  /\ onto = [t \in Tasks |-> {}]
  /\ attempt = [f \in Finalizers |-> 1]
  /\ res = [f \in Finalizers |-> EmptyResult]
  /\ starter = "idle"

\* What a finalizer that has been started does next.
Step(f) ==
  \/ EnterLock(f)
  \/ LockHeld(f)
  \/ EnsureBaseBranch(f)
  \/ MergeBegin(f)
  \/ MergeEnd(f)
  \/ GitFails(f)
  \/ ExitLock(f)
  \/ f \in Releases /\ FinishRelease(f)
  \/ f \in Tasks /\ ( \/ CommitWorktreeChanges(f)
                      \/ RebaseWorktreeOnto(f)
                      \/ PushBranch(f)
                      \/ ConflictStays(f)
                      \/ ConflictRepaired(f)
                      \/ CleanupTaskArtifacts(f) )

Next ==
  \/ \E t \in Tasks : StartTask(t)
  \/ \E r \in Releases : StartRelease(r)
  \/ \E f \in Finalizers : Step(f)
  \/ \E p \in Procs : Crash(p)
  \/ ExternalPush
  \/ StartCheck
  \/ EnsureBranchFromBase

\* A thread that has begun to finalize keeps being scheduled.
Fairness == \A f \in Finalizers : WF_vars(Step(f))

Spec == Init /\ [][Next]_vars
LiveSpec == Spec /\ Fairness

-----------------------------------------------------------------------------
(***************************************************************************)
(* Properties                                                              *)
(***************************************************************************)

\* Whoever is inside the with-block of _merge_lock owns the lock file, and a
\* lock file is owned by somebody inside the block or by a process that died.
LockInv ==
  /\ \A f \in Finalizers : pc[f] \in Holding => lock = f
  /\ lock # Nobody => pc[lock] \in Holding \cup {"crashed"}

\* At most one finalizer, over all threads and processes, is between
\* _merge_lock.__enter__ and __exit__ (git_finalize.py:165-185).
OneFinalizer ==
  \A f, g \in Finalizers : pc[f] \in Holding /\ pc[g] \in Holding => f = g

\* From its rebase to its merge the integration branch does not move under a
\* task: when there is no remote, the merge of git_finalize.py:94-99 is a
\* fast-forward, whatever the other threads did while the task was worked on.
MergeIsFastForward ==
  ~HasRemote =>
    \A t \in Tasks :
      pc[t] \in {"merge", "merging"} => branches[Integration] \subseteq branch[t]

\* The recorded FinalizeResult says the truth about the integration branch and
\* the remote: merged and pushed work is there, and a step before the merge
\* named as failed means the work is not there, also on the second call.  (As
\* long as no other run-release switched the checkout.)
ReportIsTrue ==
  \A t \in Tasks : pc[t] = "done" /\ starter # "done" =>
    /\ res[t].merged => t \in branches[Integration]
    /\ res[t].pushed => t \in origin
    /\ res[t].step \in Steps \ {"git"} => t \notin branches[Integration]

\* The change of t can still be found: in a branch, or uncommitted in its worktree.
Reachable(t) ==
  \/ \E b \in Branches : t \in branches[b]
  \/ t \in branch[t]
  \/ tree[t] = "dirty"

\* What keeps the change of t findable at every point of the finalization:
\* uncommitted in the worktree, then on the task branch, and given up there only
\* for a result that says merged, which the branch merged into bears out.
WorkOf(t) ==
  /\ pc[t] \notin {"idle"} \cup Settled => tree[t] = "dirty" \/ t \in branch[t]
  /\ pc[t] \in {"ensure", "rebase", "merge", "merging", "push"} =>
       ShouldMerge /\ tree[t] # "dirty"
  /\ pc[t] = "push" => res[t].merged
  /\ pc[t] = "repair" => res[t].step # NoStep
  /\ pc[t] \in {"accepted", "commit"} /\ tree[t] # "dirty" => ShouldMerge
  /\ tree[t] = "rebasing" => ShouldMerge
  /\ pc[t] \in {"exit", "cleanup"} /\ res[t].step = NoStep /\ Mode # "none" =>
       t \in branch[t] /\ (res[t].commit \/ res[t].merged)
  /\ res[t].merged => \E b \in Branches : t \in branches[b]

WorkInv == \A t \in Tasks : WorkOf(t)

\* No step, cleanup after any failed step and crashes included, makes accepted
\* work unreachable (release.py:6137-6148, artifacts.py:18-54).
WorkIsNeverLost ==
  [][\A t \in Tasks : Reachable(t) => Reachable(t)']_vars

\* A merge lands in the branch it was meant for: a task in the integration
\* branch, a release in the base branch, although all of them merge into
\* whatever branch the one main checkout is on (git_finalize.py:36-38).  It is
\* only another run-release, switching the checkout outside the merge lock
\* (git_finalize.py:45-50), that can send it elsewhere.
MergesOnlyIntoTarget ==
  [][\A f \in Finalizers, b \in Branches :
       pc[f] = "merging" /\ starter # "done" /\ b # Target(f) =>
         branches'[b] = branches[b]]_vars

\* A main checkout left in the middle of a merge, or edited by the user, is
\* neither switched, merged into nor cleaned (git_finalize.py:118-127).
DirtyCheckoutIsLeftAlone ==
  [][checkout = "dirty" => UNCHANGED <<checkout, head, branches>>]_vars

\* After the owner of the lock died, nothing is merged and the lock is not taken
\* over: the half-finished finalization stays as it was for the operator.
StaleLockFreezesMerges ==
  [][lock # Nobody /\ pc[lock] = "crashed" => UNCHANGED <<lock, branches>>]_vars

\* An accepted task, or a release, that begins to finalize comes to an end,
\* whoever holds the lock and even if its owner died: nobody waits for it.
FinalizationEnds ==
  \A f \in Finalizers : pc[f] = "accepted" ~> pc[f] \in Settled

StageOf == [idle |-> 0, accepted |-> 1, commit |-> 2, ensure |-> 3, rebase |-> 4, merge |-> 5,
            merging |-> 6, push |-> 7, exit |-> 8, repair |-> 9, cleanup |-> 10,
            done |-> 11, raised |-> 11, crashed |-> 11]

\* Why it does: nobody goes back, whatever the others do, except for the one call
\* that a repaired conflict allows; a second conflict is not repaired again
\* (orchestrator.py:616-657, git_finalize.py:165-185).
FinalizerAdvances ==
  [][\A f \in Finalizers :
       \/ pc'[f] = pc[f] /\ attempt'[f] = attempt[f]
       \/ attempt'[f] = attempt[f] /\ StageOf[pc'[f]] > StageOf[pc[f]]
       \/ attempt[f] = 1 /\ attempt'[f] = 2]_vars

\* docs/README.md:69 promises one bounded conflict-repair attempt for a rebase
\* conflict inside the contract: such an attempt ends in a decision, not in an
\* exception that ends the run.  Not so of the code: `config` is not bound.
ConflictRepairIsAnswered ==
  [][\A t \in Tasks : pc[t] = "repair" => pc'[t] # "raised"]_vars

\* The steps of the owner of the lock before its merge is done or has failed.
Undecided == {"commit", "ensure", "rebase", "merge", "merging"}

\* What the turn of the owner of the lock may still be used for.
TurnUse ==
  IF lock = Nobody THEN "none" ELSE IF pc[lock] \in Undecided THEN "open" ELSE "spent"

Killed == { f \in Finalizers : pc[f] = "crashed" }

Turns == INSTANCE MergeTurns WITH
  Source   <- Integration,
  Goal     <- [f \in Finalizers |-> Target(f)],
  turn     <- lock,
  use      <- TurnUse,
  dead     <- Killed,
  diverted <- starter = "done"

\* Finalization implements the turns it promises: the lock file, the state of the
\* one main checkout, the rebases and the error paths add up to one finalizer at a
\* time that merges its own work, once, where it belongs (git_finalize.py:30-185).
ImplementsTurns == Turns!Spec

=============================================================================
