------------------------------ MODULE Cleanup ------------------------------
(***************************************************************************)
(* agent-loop cleanup --force: cleanup.py beside the runs of releases whose*)
(* worktrees and branches it removes, and the summaries it reads.          *)
(*                                                                         *)
(* A run is what Release makes of it, cut down to what it leaves behind:   *)
(* worktrees, task branches, the integration branch and a summary, which a *)
(* killed run does not write.  A branch is the set of tasks whose commits  *)
(* it holds.  The dry run changes nothing and is left out; the survey is   *)
(* one step, since only a run of the same release could change what it     *)
(* reads, and a cleanup during such a run is marked as `hasty` anyway.     *)
(***************************************************************************)
EXTENDS Naturals, FiniteSets

CONSTANTS
  Tasks,
  Releases,
  ReleaseOf,      \* the release of a task
  NamedFor,       \* the releases whose worktrees have the id of this one in their names
  SummarizedFor,  \* the releases whose summaries *_<id>_release finds
  Base,           \* the base branch
  MaxRuns,        \* bound: runs that are started
  MaxCleanups     \* bound: cleanups that are started

ASSUME CleanupAssumption ==
  /\ Tasks \cap Releases = {}
  /\ Releases # {}
  /\ Base \notin Tasks \cup Releases
  /\ ReleaseOf \in [Tasks -> Releases]
  /\ NamedFor \in [Releases -> SUBSET Releases]
  /\ SummarizedFor \in [Releases -> SUBSET Releases]
  /\ \A r \in Releases : r \in NamedFor[r] \cap SummarizedFor[r]
  /\ MaxRuns \in Nat
  /\ MaxCleanups \in Nat

VARIABLES
  branches,    \* the branches there are: Base, agent/<release>/<task>, feature/<release>
  tip,         \* the work a branch holds
  worktrees,   \* the tasks that have a worktree, which is on the branch of the task
  current,     \* the branch the repository is on
  live,        \* the releases that are being run
  busy,        \* the tasks that are being run
  evidence,    \* outcome in the newest summary that the glob of a release finds
  completed,   \* tasks whose results are summarized as accepted and merged
  cleanup,     \* the cleanup that is on, with what it has still to remove
  committed,   \* tasks whose work was ever committed
  hasty,       \* releases that were cleaned up while they were being run
  trusted,     \* releases whose integration branch went on the evidence alone
  runs,
  cleanups

repository == <<branches, tip, worktrees, current>>
memory     == <<evidence, completed>>
history    == <<committed, hasty, trusted>>
bounds     == <<runs, cleanups>>
vars == <<repository, live, busy, memory, cleanup, history, bounds>>

\* The branches of bs are deleted.
Delete(bs) ==
  /\ branches' = branches \ bs
  /\ tip' = [b \in DOMAIN tip |-> IF b \in bs THEN {} ELSE tip[b]]

TasksOf(r) == {t \in Tasks : ReleaseOf[t] = r}

Idle == [on |-> FALSE, release |-> CHOOSE r \in Releases : TRUE, vouched |-> FALSE,
         worktrees |-> {}, branches |-> {}, spared |-> {}]

Cleanups ==
  [on : BOOLEAN, release : Releases,
   vouched : BOOLEAN,                       \* the evidence says merged
   worktrees : SUBSET Tasks, branches : SUBSET (Tasks \cup Releases),
   spared : SUBSET (Tasks \cup Releases)]   \* reported as checked out

TypeOK ==
  /\ branches \subseteq Tasks \cup Releases \cup {Base}
  /\ Base \in branches
  /\ tip \in [Tasks \cup Releases \cup {Base} -> SUBSET Tasks]
  /\ worktrees \subseteq Tasks
  /\ current \in branches
  /\ live \subseteq Releases
  /\ busy \subseteq {t \in Tasks : ReleaseOf[t] \in live}
  /\ evidence \in [Releases -> {"none", "merged", "other"}]
  /\ completed \subseteq committed
  /\ cleanup \in Cleanups
  /\ committed \subseteq Tasks
  /\ hasty \subseteq Releases
  /\ trusted \subseteq Releases
  /\ runs \in 0..MaxRuns
  /\ cleanups \in 0..MaxCleanups

Init ==
  /\ branches = {Base}
  /\ tip = [b \in Tasks \cup Releases \cup {Base} |-> {}]
  /\ worktrees = {}
  /\ current = Base
  /\ live = {}
  /\ busy = {}
  /\ evidence = [r \in Releases |-> "none"]
  /\ completed = {}
  /\ cleanup = Idle
  /\ committed = {}
  /\ hasty = {}
  /\ trusted = {}
  /\ runs = 0
  /\ cleanups = 0

(***************************************************************************)
(* The runs                                                                *)
(***************************************************************************)

\* A release starts in an empty worktree root and without task branches of the
\* tasks it will run; its integration branch is made from the base branch
\* unless there is one.
StartRun(r) ==
  /\ r \notin live
  /\ runs < MaxRuns
  /\ worktrees = {}
  /\ TasksOf(r) \cap branches = {}
  /\ live' = live \cup {r}
  /\ runs' = runs + 1
  /\ branches' = branches \cup {r}
  /\ IF r \in branches
     THEN UNCHANGED <<tip, current>>
     ELSE tip' = [tip EXCEPT ![r] = tip[Base]] /\ current' = Base
  /\ hasty' = IF cleanup.on /\ cleanup.release = r THEN hasty \cup {r} ELSE hasty
  /\ UNCHANGED <<worktrees, busy, memory, cleanup, committed, trusted, cleanups>>

BeginTask(t) ==
  /\ ReleaseOf[t] \in live \cap branches
  /\ t \notin completed \cup branches \cup worktrees
  /\ branches' = branches \cup {t}
  /\ tip' = [tip EXCEPT ![t] = tip[ReleaseOf[t]]]
  /\ worktrees' = worktrees \cup {t}
  /\ busy' = busy \cup {t}
  /\ UNCHANGED <<current, live, memory, cleanup, history, bounds>>

CommitTask(t) ==
  /\ t \in busy \cap worktrees
  /\ t \notin tip[t]
  /\ tip' = [tip EXCEPT ![t] = @ \cup {t}]
  /\ committed' = committed \cup {t}
  /\ UNCHANGED <<branches, worktrees, current, live, busy, memory, cleanup, hasty, trusted, bounds>>

\* The commit is rebased onto the integration branch, which then takes it.
MergeTask(t) ==
  LET r == ReleaseOf[t] IN
  /\ t \in busy \cap worktrees
  /\ t \in tip[t]
  /\ r \in branches
  /\ tip' = [tip EXCEPT ![t] = @ \cup tip[r], ![r] = @ \cup tip[t]]
  /\ current' = r
  /\ UNCHANGED <<branches, worktrees, live, busy, memory, cleanup, history, bounds>>

\* cleanup_task_artifacts: a merged or refused task leaves nothing, one that is
\* committed its branch, one that failed or is not finalized both.
LeaveTask(t) ==
  LET keeps == t \in tip[t] \ tip[ReleaseOf[t]] IN
  /\ t \in busy
  /\ busy' = busy \ {t}
  /\ \/ UNCHANGED <<branches, tip, worktrees>>
     \/ worktrees' = worktrees \ {t} /\ Delete(IF keeps THEN {} ELSE {t})
  /\ UNCHANGED <<current, live, memory, cleanup, history, bounds>>

\* run_release waits for the tasks it has handed out.
Settled(r) == TasksOf(r) \cap busy = {}

\* _find_release_summary_path: the newest that the glob of a release matches.
Summarized(r, outcome) ==
  [s \in Releases |-> IF r \in SummarizedFor[s] THEN outcome ELSE evidence[s]]

\* What a summary of the release may make _completed_release_task_ids skip.
Results(r) == TasksOf(r) \cap tip[r] \cap committed

\* The summary is written last, with the results of this run: some of the tasks
\* whose work is in.  The finalization may have merged the release, if some task
\* of it was accepted.
EndRun(r) ==
  /\ r \in live
  /\ Settled(r)
  /\ live' = live \ {r}
  /\ \E outcome \in {"merged", "other"} :
       /\ evidence' = Summarized(r, outcome)
       /\ IF outcome = "merged"
          THEN /\ r \in branches /\ tip[r] # {}
               /\ tip' = [tip EXCEPT ![Base] = @ \cup tip[r]]
               /\ current' = Base
          ELSE UNCHANGED <<tip, current>>
  /\ \E results \in SUBSET Results(r) : completed' = completed \cup results
  /\ UNCHANGED <<branches, worktrees, busy, cleanup, history, bounds>>

KillRun(r) ==
  /\ r \in live
  /\ live' = live \ {r}
  /\ busy' = busy \ TasksOf(r)
  /\ UNCHANGED <<repository, memory, cleanup, history, bounds>>

\* Whoever works in the repository goes to another branch, between commands.
Switch(b) ==
  /\ live = {} /\ ~cleanup.on
  /\ b \in branches \ worktrees
  /\ current' = b
  /\ UNCHANGED <<branches, tip, worktrees, live, busy, memory, cleanup, history, bounds>>

(***************************************************************************)
(* The cleanup                                                             *)
(***************************************************************************)

\* git merge-base --is-ancestor
Merged(b, into) == into \in branches /\ tip[b] \subseteq tip[into]

\* Variant for checking: worktrees of unmerged branches are kept with them.
WorktreesMerged(r) ==
  {t \in worktrees : ReleaseOf[t] \in NamedFor[r] /\ Merged(t, Base)}

\* _release_worktree_paths: whatever a worktree holds.
Worktrees(r) == {t \in worktrees : ReleaseOf[t] \in NamedFor[r]}

MergeTarget(r, include) == IF include /\ r \in branches THEN r ELSE Base

\* Variant for checking: a branch that is not checked out will do.
TaskBranchesNotInUse(r, include) ==
  {t \in TasksOf(r) \cap branches : t # current}

\* _branch_skip_reason.  The evidence has no "decision" at its top level, so
\* nothing of it comes into this.
TaskBranches(r, include) ==
  {t \in TasksOf(r) \cap branches : t # current /\ Merged(t, MergeTarget(r, include))}

\* Variant for checking: a branch that is written down as merged or not will do.
IntegrationBranchSummarized(r, include) ==
  IF include /\ r \in branches /\ r # current /\ evidence[r] # "none" THEN {r} ELSE {}

\* _integration_branch_skip_reason: merged, or said to be.
IntegrationBranch(r, include) ==
  IF /\ include /\ r \in branches /\ r # current
     /\ Merged(r, Base) \/ evidence[r] = "merged"
  THEN {r} ELSE {}

Survey(r, include) ==
  /\ ~cleanup.on
  /\ cleanups < MaxCleanups
  /\ cleanups' = cleanups + 1
  /\ cleanup' = [on |-> TRUE, release |-> r, vouched |-> evidence[r] = "merged",
                 worktrees |-> Worktrees(r),
                 branches  |-> TaskBranches(r, include) \cup IntegrationBranch(r, include),
                 spared    |-> {current} \cap TasksOf(r)]
  /\ hasty' = IF r \in live THEN hasty \cup {r} ELSE hasty
  /\ UNCHANGED <<repository, live, busy, memory, committed, trusted, runs>>

\* _remove_worktree: --force, also over what is not committed.
RemoveWorktree(t) ==
  /\ cleanup.on /\ t \in cleanup.worktrees
  /\ cleanup' = [cleanup EXCEPT !.worktrees = @ \ {t}]
  /\ worktrees' = worktrees \ {t}
  /\ UNCHANGED <<branches, tip, current, live, busy, memory, history, bounds>>

\* _delete_branch asks for the current branch again; git refuses branches that
\* are checked out.
InUse(b) == b = current \/ b \in worktrees

\* Worktrees come first, the integration branch last.
DeleteBranch(b) ==
  /\ cleanup.on /\ cleanup.worktrees = {}
  /\ b \in cleanup.branches
  /\ b \in Releases => cleanup.branches = {b}
  /\ cleanup' = [cleanup EXCEPT !.branches = @ \ {b},
                                !.spared = IF InUse(b) THEN @ \cup {b} ELSE @]
  /\ Delete(IF InUse(b) THEN {} ELSE {b})
  /\ trusted' = IF b \in Releases \ {current} /\ ~Merged(b, Base) /\ cleanup.vouched
                THEN trusted \cup {b} ELSE trusted
  /\ UNCHANGED <<worktrees, current, live, busy, memory, committed, hasty, bounds>>

EndCleanup ==
  /\ cleanup.on /\ cleanup.worktrees = {} /\ cleanup.branches = {}
  /\ cleanup' = Idle
  /\ UNCHANGED <<repository, live, busy, memory, history, bounds>>

KillCleanup ==
  /\ cleanup.on
  /\ cleanup' = Idle
  /\ UNCHANGED <<repository, live, busy, memory, history, bounds>>

Next ==
  \/ \E r \in Releases : StartRun(r) \/ EndRun(r) \/ KillRun(r)
  \/ \E t \in Tasks : BeginTask(t) \/ CommitTask(t) \/ MergeTask(t) \/ LeaveTask(t)
  \/ \E b \in branches : Switch(b)
  \/ \E r \in Releases, include \in BOOLEAN : Survey(r, include)
  \/ \E t \in Tasks : RemoveWorktree(t)
  \/ \E b \in Tasks \cup Releases : DeleteBranch(b)
  \/ EndCleanup \/ KillCleanup

Spec == Init /\ [][Next]_vars

-----------------------------------------------------------------------------
(***************************************************************************)
(* Correctness                                                             *)
(***************************************************************************)

\* What was ever committed stays on some branch, over runs that are killed,
\* branches that are kept and cleanups of this and other releases, unless the
\* release was being run meanwhile or its integration branch was taken on the
\* evidence alone (_branch_skip_reason, _should_preserve_task_branch).
CommitsSurvive ==
  \A t \in committed :
    ReleaseOf[t] \notin hasty \cup trusted => \E b \in branches : t \in tip[b]

\* A task that later runs skip as completed is in what they start from: the
\* integration branch, or the base branch it is made from again
\* (_completed_release_task_ids against _integration_branch_skip_reason).
CompletedWorkIsThere ==
  \A t \in completed :
    ReleaseOf[t] \notin hasty \cup trusted =>
      t \in tip[IF ReleaseOf[t] \in branches THEN ReleaseOf[t] ELSE Base]

\* A cleanup that comes to its end leaves of a release that is not being run no
\* worktree, and no task branch but for work that is merged nowhere and one that
\* was checked out: what is left is what stops the next run for a reason
\* (_release_worktree_paths, _ensure_no_existing_task_branches).
CleanupIsThorough ==
  [][EndCleanup /\ cleanup.release \notin hasty =>
       LET r == cleanup.release IN
       /\ \A t \in TasksOf(r) : t \notin worktrees'
       /\ \A t \in TasksOf(r) \cap branches' : t \in cleanup.spared \/ ~Merged(t, Base)]_vars

\* An integration branch that is not merged into the base branch is not deleted,
\* unless its release is being run.  Not so: a summary of an older run, or of a
\* release with a similar id, says merged, and git branch -D asks no more
\* (tests/test_cleanup.py, "refuses_unmerged_integration_branch_deletion").
UnmergedIntegrationIsKept == trusted \subseteq hasty
=============================================================================
