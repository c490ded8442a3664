--------------------------- MODULE CleanupProofs ---------------------------
(***************************************************************************)
(* Safety of the cleanup for any tasks, releases, names that match too     *)
(* much, and numbers of runs and cleanups: types, where committed work is, *)
(* and what a cleanup that comes to its end has left.                      *)
(***************************************************************************)
EXTENDS Cleanup, TLAPS

All == Tasks \cup Releases \cup {Base}

LEMMA IdleType == Idle \in Cleanups /\ ~Idle.on
  BY CleanupAssumption DEF Idle, Cleanups

LEMMA TaskRelease == \A t \in Tasks : ReleaseOf[t] \in Releases /\ t \in TasksOf(ReleaseOf[t])
  BY CleanupAssumption DEF TasksOf

LEMMA Apart ==
  /\ \A t \in Tasks, r \in Releases : t # r
  /\ \A b \in Tasks \cup Releases : b # Base
  BY CleanupAssumption

-----------------------------------------------------------------------------
(* Types.                                                                  *)

\* The branch of a task that is being run is not checked out in the repository,
\* and a worktree has its branch.
TypeInv ==
  /\ TypeOK
  /\ current \notin busy
  /\ worktrees \subseteq branches

LEMMA TypeInit == Init => TypeInv
  BY IdleType, CleanupAssumption DEF Init, TypeInv, TypeOK

LEMMA TypeStep == ASSUME TypeInv, [Next]_vars PROVE TypeInv'
<1> USE DEF TypeInv
<1>1. CASE UNCHANGED vars
  BY <1>1 DEF vars, repository, memory, history, bounds, TypeOK
<1>2. ASSUME NEW r \in Releases, StartRun(r) PROVE TypeInv'
  BY <1>2, CleanupAssumption DEF TypeOK, StartRun, memory
<1>3. ASSUME NEW r \in Releases, EndRun(r) PROVE TypeInv'
  <2>1. evidence' \in [Releases -> {"none", "merged", "other"}]
    BY <1>3 DEF EndRun, Summarized, TypeOK
  <2>2. completed' \subseteq committed
    BY <1>3 DEF EndRun, Results, TypeOK
  <2>3. tip' \in [All -> SUBSET Tasks] /\ current' \in {current, Base}
    BY <1>3 DEF EndRun, TypeOK, All
  <2>4. \A t \in busy : ReleaseOf[t] \in live'
    BY <1>3 DEF EndRun, Settled, TasksOf, TypeOK
  <2>5. Base \notin busy
    BY CleanupAssumption DEF TypeOK
  <2> QED BY <1>3, <2>1, <2>2, <2>3, <2>4, <2>5 DEF EndRun, TypeOK, All, history, bounds
<1>4. ASSUME NEW r \in Releases, KillRun(r) PROVE TypeInv'
  BY <1>4 DEF TypeOK, KillRun, TasksOf, repository, memory, history, bounds
<1>5. ASSUME NEW t \in Tasks, BeginTask(t) PROVE TypeInv'
  BY <1>5, TaskRelease DEF TypeOK, BeginTask, memory, history, bounds
<1>6. ASSUME NEW t \in Tasks, CommitTask(t) PROVE TypeInv'
  BY <1>6 DEF TypeOK, CommitTask, memory, bounds
<1>7. ASSUME NEW t \in Tasks, MergeTask(t) PROVE TypeInv'
  BY <1>7, TaskRelease, Apart DEF TypeOK, MergeTask, memory, history, bounds
<1>8. ASSUME NEW t \in Tasks, LeaveTask(t) PROVE TypeInv'
  <2>1. \/ UNCHANGED <<branches, tip, worktrees>>
        \/ worktrees' = worktrees \ {t} /\ (Delete({}) \/ Delete({t}))
    BY <1>8 DEF LeaveTask
  <2>2. /\ tip' \in [All -> SUBSET Tasks]
        /\ branches' \in {branches, branches \ {t}} /\ worktrees' \subseteq worktrees
        /\ worktrees' \subseteq branches'
    <3>1. CASE UNCHANGED <<branches, tip, worktrees>>
      BY <3>1 DEF TypeOK, All
    <3>2. CASE worktrees' = worktrees \ {t} /\ Delete({})
      BY <3>2 DEF TypeOK, Delete, All
    <3>3. CASE worktrees' = worktrees \ {t} /\ Delete({t})
      BY <3>3 DEF TypeOK, Delete, All
    <3> QED BY <2>1, <3>1, <3>2, <3>3
  <2>3. t \in busy /\ t # Base /\ t # current
    BY <1>8, Apart DEF LeaveTask
  <2> QED BY <1>8, <2>2, <2>3 DEF TypeOK, LeaveTask, All, memory, history, bounds
<1>9. ASSUME NEW b \in branches, Switch(b) PROVE TypeInv'
  BY <1>9 DEF TypeOK, Switch, memory, history, bounds
<1>10. ASSUME NEW r \in Releases, NEW include \in BOOLEAN, Survey(r, include) PROVE TypeInv'
  <2>1. cleanup' \in Cleanups
    BY <1>10, CleanupAssumption
       DEF Survey, Worktrees, TaskBranches, IntegrationBranch, TasksOf, Cleanups, TypeOK
  <2> QED BY <1>10, <2>1, CleanupAssumption DEF TypeOK, Survey, repository, memory
<1>11. ASSUME NEW t \in Tasks, RemoveWorktree(t) PROVE TypeInv'
  BY <1>11 DEF TypeOK, RemoveWorktree, Cleanups, memory, history, bounds
<1>12. ASSUME NEW b \in Tasks \cup Releases, DeleteBranch(b) PROVE TypeInv'
  <2>1. Delete({}) \/ (b # current /\ b \notin worktrees /\ Delete({b}))
    BY <1>12 DEF DeleteBranch, InUse
  <2>2. /\ tip' \in [All -> SUBSET Tasks]
        /\ branches' = branches \/ (b # current /\ b \notin worktrees /\ branches' = branches \ {b})
    <3>1. CASE Delete({})
      BY <3>1 DEF TypeOK, Delete, All
    <3>2. CASE b # current /\ b \notin worktrees /\ Delete({b})
      BY <3>2 DEF TypeOK, Delete, All
    <3> QED BY <2>1, <3>1, <3>2
  <2>3. cleanup' \in Cleanups
    BY <1>12 DEF DeleteBranch, Cleanups, TypeOK
  <2>4. trusted' \subseteq Releases
    BY <1>12 DEF DeleteBranch, TypeOK
  <2> QED BY <1>12, <2>2, <2>3, <2>4, Apart DEF TypeOK, DeleteBranch, All, memory, bounds
<1>13. CASE EndCleanup
  BY <1>13, IdleType DEF TypeOK, EndCleanup, repository, memory, history, bounds
<1>14. CASE KillCleanup
  BY <1>14, IdleType DEF TypeOK, KillCleanup, repository, memory, history, bounds
<1> QED BY <1>1, <1>2, <1>3, <1>4, <1>5, <1>6, <1>7, <1>8, <1>9, <1>10, <1>11, <1>12, <1>13,
           <1>14 DEF Next

\* Runs and cleanups beside each other keep the types: a branch that is checked
\* out exists, only tasks of running releases are run, results are of commits
\* (cleanup_release_artifacts, run_release).
THEOREM CleanupType == Spec => []TypeOK
<1>1. TypeInv => TypeOK
  BY DEF TypeInv
<1> QED BY <1>1, TypeInit, TypeStep, PTL DEF Spec

LEMMA AlwaysTyped == Spec => []TypeInv
  BY TypeInit, TypeStep, PTL DEF Spec

-----------------------------------------------------------------------------
(* What the steps do to the branches.                                      *)

Same == branches' = branches /\ tip' = tip

Creates(r) ==
  /\ r \notin branches /\ branches' = branches \cup {r}
  /\ tip' = [tip EXCEPT ![r] = tip[Base]]

Begins(t) ==
  /\ t \notin branches /\ ReleaseOf[t] \in branches /\ branches' = branches \cup {t}
  /\ tip' = [tip EXCEPT ![t] = tip[ReleaseOf[t]]]

Commits(t) ==
  /\ t \in branches /\ branches' = branches
  /\ tip' = [tip EXCEPT ![t] = tip[t] \cup {t}]

Merges(t) ==
  LET r == ReleaseOf[t] IN
  /\ t \in branches /\ r \in branches /\ branches' = branches
  /\ tip' = [tip EXCEPT ![t] = tip[t] \cup tip[r], ![r] = tip[r] \cup tip[t]]

Lands(r) ==
  /\ r \in branches /\ branches' = branches
  /\ tip' = [tip EXCEPT ![Base] = tip[Base] \cup tip[r]]

Drops(b) ==
  /\ branches' = branches \ {b}
  /\ tip' = [tip EXCEPT ![b] = {}]

LEMMA LeaveEffect ==
  ASSUME TypeInv, NEW t \in Tasks, LeaveTask(t)
  PROVE  /\ worktrees' \subseteq worktrees
         /\ \/ Same
            \/ Drops(t) /\ t \notin tip[t] \ tip[ReleaseOf[t]]
<1>1. CASE UNCHANGED <<branches, tip, worktrees>>
  BY <1>1 DEF Same
<1>2. CASE worktrees' = worktrees \ {t} /\ t \in tip[t] \ tip[ReleaseOf[t]] /\ Delete({})
  BY <1>2 DEF Same, Delete, TypeInv, TypeOK
<1>3. CASE worktrees' = worktrees \ {t} /\ t \notin tip[t] \ tip[ReleaseOf[t]] /\ Delete({t})
  BY <1>3 DEF Drops, Delete, TypeInv, TypeOK
<1> QED BY <1>1, <1>2, <1>3 DEF LeaveTask

LEMMA DeleteEffect ==
  ASSUME TypeInv, NEW b \in Tasks \cup Releases, DeleteBranch(b)
  PROVE  \/ InUse(b) /\ Same
         \/ ~InUse(b) /\ Drops(b)
<1>1. CASE InUse(b) /\ Delete({})
  BY <1>1 DEF Same, Delete, TypeInv, TypeOK
<1>2. CASE ~InUse(b) /\ Delete({b})
  BY <1>2 DEF Drops, Delete, TypeInv, TypeOK
<1> QED BY <1>1, <1>2 DEF DeleteBranch

LEMMA BranchStep ==
  ASSUME TypeInv, [Next]_vars
  PROVE  \/ Same
         \/ \E r \in Releases : Creates(r) \/ Lands(r)
         \/ \E t \in Tasks : Begins(t) \/ Commits(t) \/ Merges(t)
         \/ \E b \in Tasks \cup Releases : Drops(b)
<1> USE DEF TypeInv
<1>1. CASE UNCHANGED vars
  BY <1>1 DEF vars, repository, Same
<1>2. ASSUME NEW r \in Releases, StartRun(r) PROVE Same \/ Creates(r)
  BY <1>2 DEF StartRun, Same, Creates
<1>3. ASSUME NEW r \in Releases, EndRun(r) PROVE Same \/ Lands(r)
  BY <1>3 DEF EndRun, Same, Lands
<1>4. ASSUME NEW t \in Tasks, BeginTask(t) PROVE Begins(t)
  BY <1>4 DEF BeginTask, Begins
<1>5. ASSUME NEW t \in Tasks, CommitTask(t) PROVE Commits(t)
  BY <1>5 DEF CommitTask, Commits
<1>6. ASSUME NEW t \in Tasks, MergeTask(t) PROVE Merges(t)
  BY <1>6, TaskRelease, Apart DEF MergeTask, Merges, TypeOK
<1>7. ASSUME NEW t \in Tasks, LeaveTask(t) PROVE Same \/ Drops(t)
  BY <1>7, LeaveEffect
<1>8. ASSUME NEW b \in Tasks \cup Releases, DeleteBranch(b) PROVE Same \/ Drops(b)
  BY <1>8, DeleteEffect
<1>9. CASE \/ \E r \in Releases : KillRun(r)
           \/ \E b \in branches : Switch(b)
           \/ \E r \in Releases, include \in BOOLEAN : Survey(r, include)
           \/ \E t \in Tasks : RemoveWorktree(t)
           \/ EndCleanup \/ KillCleanup
  BY <1>9 DEF KillRun, Switch, Survey, RemoveWorktree, EndCleanup, KillCleanup, repository, Same
<1> QED BY <1>1, <1>2, <1>3, <1>4, <1>5, <1>6, <1>7, <1>8, <1>9 DEF Next

-----------------------------------------------------------------------------
(* Whose work a branch holds.                                              *)

Held ==
  /\ \A b \in Tasks \cup Releases : b \notin branches => tip[b] = {}
  /\ \A r \in Releases : tip[r] \subseteq TasksOf(r) \cup tip[Base]
  /\ \A t \in Tasks : tip[t] \subseteq TasksOf(ReleaseOf[t]) \cup tip[Base]
  /\ \A r \in Releases \cap branches : TasksOf(r) \cap tip[Base] \subseteq tip[r]
  /\ \A t \in Tasks :
       ReleaseOf[t] \in branches => tip[t] \cap tip[Base] \subseteq tip[ReleaseOf[t]]

LEMMA OneRelease ==
  ASSUME NEW r \in Releases, NEW s \in Releases, NEW t \in TasksOf(r), t \in TasksOf(s)
  PROVE  r = s
  BY DEF TasksOf

LEMMA HeldStep == ASSUME TypeInv, Held, [Next]_vars PROVE Held'
<1>0. /\ tip \in [All -> SUBSET Tasks] /\ Base \in branches
      /\ \A t \in Tasks : ReleaseOf[t] \in Releases /\ t \in TasksOf(ReleaseOf[t])
      /\ \A t \in Tasks, r \in Releases : t # r
      /\ \A b \in Tasks \cup Releases : b # Base
      /\ Tasks \cup Releases \cup {Base} = All
  BY TaskRelease, Apart DEF TypeInv, TypeOK, All
<1>1. CASE Same
  BY <1>1 DEF Same, Held
<1>2. ASSUME NEW r \in Releases, Creates(r) PROVE Held'
  BY <1>0, <1>2 DEF Creates, Held
<1>3. ASSUME NEW r \in Releases, Lands(r) PROVE Held'
  <2>1. /\ \A b \in Tasks \cup Releases : tip'[b] = tip[b]
        /\ tip'[Base] = tip[Base] \cup tip[r] /\ branches' = branches /\ r \in branches
    BY <1>0, <1>3 DEF Lands
  <2>2. ASSUME NEW s \in Releases \cap branches, NEW x \in TasksOf(s), x \in tip'[Base]
        PROVE  x \in tip[s]
    BY <2>1, <2>2, OneRelease DEF Held
  <2>3. ASSUME NEW t \in Tasks, ReleaseOf[t] \in branches, NEW x \in tip[t], x \in tip'[Base]
        PROVE  x \in tip[ReleaseOf[t]]
    <3>1. x \in TasksOf(ReleaseOf[t]) \/ x \in tip[Base]
      BY <2>3 DEF Held
    <3>2. CASE x \in tip[Base]
      BY <2>3, <3>2 DEF Held
    <3>3. CASE x \in TasksOf(ReleaseOf[t])
      BY <1>0, <2>2, <2>3, <3>3
    <3> QED BY <3>1, <3>2, <3>3
  <2> QED BY <1>0, <2>1, <2>2, <2>3 DEF Held
<1>4. ASSUME NEW t \in Tasks, Begins(t) PROVE Held'
  BY <1>0, <1>4 DEF Begins, Held
<1>5. ASSUME NEW t \in Tasks, Commits(t) PROVE Held'
  BY <1>0, <1>5 DEF Commits, Held
<1>6. ASSUME NEW t \in Tasks, Merges(t) PROVE Held'
  <2> DEFINE r == ReleaseOf[t]
  <2>1. /\ \A b \in All \ {t, r} : tip'[b] = tip[b]
        /\ tip'[t] = tip[t] \cup tip[r] /\ tip'[r] = tip[r] \cup tip[t]
        /\ branches' = branches /\ {t, r} \subseteq branches
    BY <1>0, <1>6 DEF Merges
  <2> QED BY <1>0, <2>1 DEF Held
<1>7. ASSUME NEW b \in Tasks \cup Releases, Drops(b) PROVE Held'
  <2>1. /\ \A c \in All \ {b} : tip'[c] = tip[c]
        /\ tip'[b] = {} /\ branches' = branches \ {b} /\ b # Base
    BY <1>0, <1>7 DEF Drops
  <2> QED BY <1>0, <2>1 DEF Held
<1> QED BY <1>1, <1>2, <1>3, <1>4, <1>5, <1>6, <1>7, BranchStep

-----------------------------------------------------------------------------
(* What a cleanup found out stays so while its release is not run.         *)

Cleaning ==
  cleanup.on =>
    LET r == cleanup.release IN
    /\ r \in live => r \in hasty
    /\ cleanup.branches \subseteq TasksOf(r) \cup {r}
    /\ r \notin hasty =>
         /\ \A t \in cleanup.branches \cap Tasks : tip[t] \subseteq tip[r] \cup tip[Base]
         /\ r \in cleanup.branches /\ ~cleanup.vouched => tip[r] \subseteq tip[Base]
         /\ TasksOf(r) \cap worktrees \subseteq cleanup.worktrees
         /\ \A t \in TasksOf(r) \cap branches :
              t \in cleanup.branches \cup cleanup.spared \/ ~(tip[t] \subseteq tip[Base])

\* Steps that leave the release of the cleanup alone.
LEMMA CleaningFrame ==
  ASSUME TypeInv, Held, Cleaning, cleanup' = cleanup, hasty \subseteq hasty', cleanup.on,
         cleanup.release \in live' => cleanup.release \in live \cup hasty',
         \/ cleanup.release \in hasty'
         \/ /\ \A b \in TasksOf(cleanup.release) \cup {cleanup.release} : tip'[b] = tip[b]
            /\ TasksOf(cleanup.release) \cap worktrees' \subseteq worktrees
            /\ TasksOf(cleanup.release) \cap branches' \subseteq branches
            /\ tip[Base] \subseteq tip'[Base]
            /\ TasksOf(cleanup.release) \cap tip'[Base] \subseteq tip[Base]
  PROVE  Cleaning'
<1> DEFINE r == cleanup.release
<1>1. r \in Releases /\ TasksOf(r) \subseteq Tasks /\ \A t \in TasksOf(r) : ReleaseOf[t] = r
  BY DEF TypeInv, TypeOK, Cleanups, TasksOf
<1>2. r \in live' => r \in hasty'
  BY DEF Cleaning
<1>3. ASSUME r \notin hasty'
      PROVE  /\ \A t \in cleanup.branches \cap Tasks : tip'[t] \subseteq tip'[r] \cup tip'[Base]
             /\ r \in cleanup.branches /\ ~cleanup.vouched => tip'[r] \subseteq tip'[Base]
             /\ TasksOf(r) \cap worktrees' \subseteq cleanup.worktrees
             /\ \A t \in TasksOf(r) \cap branches' :
                  t \in cleanup.branches \cup cleanup.spared \/ ~(tip'[t] \subseteq tip'[Base])
  <2>1. \A t \in cleanup.branches \cap Tasks : t \in TasksOf(r)
    BY <1>1, Apart DEF Cleaning
  <2>2. \A t \in TasksOf(r) : tip[t] \subseteq TasksOf(r) \cup tip[Base]
    BY <1>1 DEF Held
  <2>3. \A t \in TasksOf(r) \cap branches :
          tip'[t] \subseteq tip'[Base] => tip[t] \subseteq tip[Base]
    BY <1>3, <2>2
  <2> QED BY <1>3, <2>1, <2>3 DEF Cleaning
<1> QED BY <1>2, <1>3 DEF Cleaning

LEMMA CleaningStep == ASSUME TypeInv, Held, Cleaning, [Next]_vars PROVE Cleaning'
<1>0. /\ tip \in [All -> SUBSET Tasks]
      /\ \A t \in Tasks : ReleaseOf[t] \in Releases /\ t \in TasksOf(ReleaseOf[t])
      /\ \A t \in Tasks, r \in Releases : t # r
      /\ \A b \in Tasks \cup Releases : b # Base
      /\ Tasks \cup Releases \cup {Base} = All
      /\ \A r \in Releases : TasksOf(r) \subseteq Tasks
      /\ cleanup.release \in Releases
      /\ \A t \in busy : ReleaseOf[t] \in live
  BY TaskRelease, Apart DEF TypeInv, TypeOK, All, Cleanups, TasksOf
<1>a. SUFFICES ASSUME cleanup'.on PROVE Cleaning'
  BY DEF Cleaning
<1> DEFINE c == cleanup.release
           Mine == TasksOf(c) \cup {c}
\* The runs.
<1>b. ASSUME NEW r \in Releases, r \in live, r = c, cleanup.on PROVE c \in hasty
  BY <1>b DEF Cleaning
<1>1. CASE UNCHANGED vars
  BY <1>1 DEF vars, repository, memory, history, Cleaning
<1>2. ASSUME NEW r \in Releases, StartRun(r) PROVE Cleaning'
  <2>1. CASE r = c
    BY <1>a, <1>2, <2>1, CleaningFrame DEF StartRun
  <2>2. CASE r # c
    <3>1. \A b \in All \ {r} : tip'[b] = tip[b]
      BY <1>0, <1>2 DEF StartRun
    <3> QED BY <1>0, <1>a, <1>2, <2>2, <3>1, CleaningFrame DEF StartRun
  <2> QED BY <2>1, <2>2
<1>3. ASSUME NEW r \in Releases, EndRun(r) PROVE Cleaning'
  <2>1. CASE r = c
    BY <1>a, <1>3, <1>b, <2>1, CleaningFrame DEF EndRun, history
  <2>2. CASE r # c
    <3>1. /\ \A b \in All \ {Base} : tip'[b] = tip[b]
          /\ tip'[Base] = tip[Base] \/ tip'[Base] = tip[Base] \cup tip[r]
      BY <1>0, <1>3 DEF EndRun
    <3>2. TasksOf(c) \cap tip[r] \subseteq tip[Base]
      BY <1>0, <2>2, OneRelease DEF Held
    <3> QED BY <1>0, <1>a, <1>3, <2>2, <3>1, <3>2, CleaningFrame DEF EndRun, history
  <2> QED BY <2>1, <2>2
<1>4. ASSUME NEW r \in Releases, KillRun(r) PROVE Cleaning'
  BY <1>0, <1>a, <1>4, CleaningFrame DEF KillRun, repository, history
<1>5. ASSUME NEW t \in Tasks, BeginTask(t) PROVE Cleaning'
  BY <1>0, <1>a, <1>b, <1>5, CleaningFrame DEF BeginTask, history, TasksOf
<1>6. ASSUME NEW t \in Tasks, CommitTask(t) PROVE Cleaning'
  BY <1>0, <1>a, <1>b, <1>6, CleaningFrame DEF CommitTask, TasksOf
<1>7. ASSUME NEW t \in Tasks, MergeTask(t) PROVE Cleaning'
  BY <1>0, <1>a, <1>b, <1>7, CleaningFrame DEF MergeTask, history, TasksOf
<1>8. ASSUME NEW t \in Tasks, LeaveTask(t) PROVE Cleaning'
  <2>1. /\ \A b \in All \ {t} : tip'[b] = tip[b]
        /\ worktrees' \subseteq worktrees /\ branches' \subseteq branches
    BY <1>0, <1>8, LeaveEffect DEF Same, Drops
  <2> QED BY <1>0, <1>a, <1>b, <1>8, <2>1, CleaningFrame DEF LeaveTask, history, TasksOf
<1>9. ASSUME NEW b \in branches, Switch(b) PROVE Cleaning'
  BY <1>a, <1>9 DEF Switch
\* The cleanup.
<1>10. ASSUME NEW r \in Releases, NEW include \in BOOLEAN, Survey(r, include) PROVE Cleaning'
  <2>1. /\ cleanup'.release = r /\ cleanup'.vouched = (evidence[r] = "merged")
        /\ cleanup'.worktrees = Worktrees(r)
        /\ cleanup'.branches = TaskBranches(r, include) \cup IntegrationBranch(r, include)
        /\ cleanup'.spared = {current} \cap TasksOf(r)
        /\ UNCHANGED <<branches, tip, worktrees, current, live, evidence>>
        /\ r \in live' => r \in hasty'
    BY <1>10 DEF Survey, repository, memory
  <2>2. TasksOf(r) \cap worktrees \subseteq Worktrees(r)
    BY CleanupAssumption DEF TasksOf, Worktrees
  <2>3. /\ TaskBranches(r, include) \subseteq TasksOf(r)
        /\ \A t \in TaskBranches(r, include) : tip[t] \subseteq tip[r] \cup tip[Base]
    BY DEF TaskBranches, Merged, MergeTarget
  <2>4. /\ IntegrationBranch(r, include) \subseteq {r}
        /\ r \in IntegrationBranch(r, include) /\ evidence[r] # "merged" => tip[r] \subseteq tip[Base]
    BY DEF IntegrationBranch, Merged
  <2>5. ASSUME NEW t \in TasksOf(r) \cap branches, t # current, tip[t] \subseteq tip[Base]
        PROVE  t \in TaskBranches(r, include)
    <3>1. ReleaseOf[t] = r /\ t \in Tasks /\ Base \in branches
      BY DEF TasksOf, TypeInv, TypeOK
    <3>2. r \in branches => tip[t] \subseteq tip[r]
      BY <2>5, <3>1 DEF Held
    <3> QED BY <2>5, <3>1, <3>2 DEF TaskBranches, Merged, MergeTarget
  <2>6. r \notin Tasks /\ r \notin TasksOf(r)
    BY <1>0
  <2>7. \A t \in cleanup'.branches \cap Tasks : tip'[t] \subseteq tip'[r] \cup tip'[Base]
    BY <2>1, <2>3, <2>4, <2>6
  <2>8. r \in cleanup'.branches /\ ~cleanup'.vouched => tip'[r] \subseteq tip'[Base]
    BY <2>1, <2>3, <2>4, <2>6
  <2>9. \A t \in TasksOf(r) \cap branches' :
          t \in cleanup'.branches \cup cleanup'.spared \/ ~(tip'[t] \subseteq tip'[Base])
    BY <2>1, <2>5
  <2>10. /\ cleanup'.branches \subseteq TasksOf(r) \cup {r}
         /\ TasksOf(r) \cap worktrees' \subseteq cleanup'.worktrees
    BY <2>1, <2>2, <2>3, <2>4
  <2> QED BY <2>1, <2>7, <2>8, <2>9, <2>10 DEF Cleaning
<1>11. ASSUME NEW t \in Tasks, RemoveWorktree(t) PROVE Cleaning'
  <2>1. /\ cleanup.on /\ cleanup' = [cleanup EXCEPT !.worktrees = cleanup.worktrees \ {t}]
        /\ worktrees' = worktrees \ {t}
        /\ UNCHANGED <<branches, tip, live, hasty>>
    BY <1>11 DEF RemoveWorktree, history
  <2>2. /\ cleanup'.release = c /\ cleanup'.branches = cleanup.branches
        /\ cleanup'.vouched = cleanup.vouched /\ cleanup'.spared = cleanup.spared
        /\ cleanup'.worktrees = cleanup.worktrees \ {t}
    BY <2>1 DEF TypeInv, TypeOK, Cleanups
  <2> QED BY <2>1, <2>2 DEF Cleaning
<1>12. ASSUME NEW b \in Tasks \cup Releases, DeleteBranch(b) PROVE Cleaning'
  <2>1. /\ cleanup.on /\ b \in cleanup.branches
        /\ b \in Releases => cleanup.branches = {b}
        /\ UNCHANGED <<worktrees, live, hasty>>
    BY <1>12 DEF DeleteBranch
  <2>2. /\ cleanup'.release = c /\ cleanup'.branches = cleanup.branches \ {b}
        /\ cleanup'.vouched = cleanup.vouched /\ cleanup'.worktrees = cleanup.worktrees
        /\ cleanup'.spared = IF InUse(b) THEN cleanup.spared \cup {b} ELSE cleanup.spared
    BY <1>12 DEF DeleteBranch, TypeInv, TypeOK, Cleanups
  <2>3. /\ \A a \in All \ {b} : tip'[a] = tip[a]
        /\ branches' \subseteq branches
        /\ InUse(b) \/ b \notin branches'
        /\ tip'[b] \subseteq tip[b]
    BY <1>0, <1>12, DeleteEffect DEF Same, Drops
  <2>4. b \in TasksOf(c) \cup {c}
    BY <2>1 DEF Cleaning
  <2>5. ASSUME c \notin hasty, NEW t \in cleanup'.branches \cap Tasks
        PROVE  tip'[t] \subseteq tip'[c] \cup tip'[Base]
    <3>1. b # c
      BY <1>0, <2>1, <2>2, <2>5
    <3> QED BY <1>0, <2>1, <2>2, <2>3, <2>5, <3>1 DEF Cleaning
  <2>6. c \notin hasty /\ c \in cleanup'.branches /\ ~cleanup'.vouched => tip'[c] \subseteq tip'[Base]
    BY <1>0, <2>1, <2>2, <2>3 DEF Cleaning
  <2>7. ASSUME c \notin hasty, NEW t \in TasksOf(c) \cap branches'
        PROVE  t \in cleanup'.branches \cup cleanup'.spared \/ ~(tip'[t] \subseteq tip'[Base])
    BY <1>0, <2>1, <2>2, <2>3, <2>7 DEF Cleaning
  <2> QED BY <2>1, <2>2, <2>5, <2>6, <2>7 DEF Cleaning
<1>13. CASE EndCleanup \/ KillCleanup
  BY <1>a, <1>13, IdleType DEF EndCleanup, KillCleanup
<1> QED BY <1>1, <1>2, <1>3, <1>4, <1>5, <1>6, <1>7, <1>8, <1>9, <1>10, <1>11, <1>12, <1>13
        DEF Next

-----------------------------------------------------------------------------
(* Where committed and completed work is.                                  *)

\* The property says nothing of these releases any more.
Bad == hasty \cup trusted

Kept ==
  /\ \A t \in Tasks :
       ReleaseOf[t] \notin Bad => tip[t] \subseteq {t} \cup tip[ReleaseOf[t]] \cup tip[Base]
  /\ CommitsSurvive
  /\ CompletedWorkIsThere

\* What goes with a branch is also elsewhere.
Spare(b) ==
  \/ b \in Releases /\ (b \in Bad' \/ tip[b] \subseteq tip[Base])
  \/ b \in Tasks /\ (ReleaseOf[b] \in Bad' \/ tip[b] \subseteq tip[ReleaseOf[b]] \cup tip[Base])

LEMMA BranchFacts ==
  ASSUME TypeInv
  PROVE  /\ tip \in [All -> SUBSET Tasks] /\ Base \in branches
         /\ committed \subseteq Tasks /\ completed \subseteq committed
         /\ \A t \in Tasks : ReleaseOf[t] \in Releases /\ t \in TasksOf(ReleaseOf[t])
         /\ \A t \in Tasks, r \in Releases : t # r
         /\ \A b \in Tasks \cup Releases : b # Base
         /\ Tasks \cup Releases \cup {Base} = All
         /\ \A r \in Releases : \A t \in TasksOf(r) : ReleaseOf[t] = r
  BY TaskRelease, Apart DEF TypeInv, TypeOK, All, TasksOf

LEMMA DropKept ==
  ASSUME TypeInv, Held, Kept, NEW b \in Tasks \cup Releases, Drops(b), Spare(b),
         Bad \subseteq Bad', committed' = committed, completed' = completed
  PROVE  Kept'
<1>1. /\ \A a \in All \ {b} : tip'[a] = tip[a]
      /\ tip'[b] = {} /\ branches' = branches \ {b} /\ b # Base
  BY BranchFacts DEF Drops
<1>2. ASSUME NEW t \in Tasks, ReleaseOf[t] \notin Bad'
      PROVE  tip'[t] \subseteq {t} \cup tip'[ReleaseOf[t]] \cup tip'[Base]
  BY <1>1, <1>2, BranchFacts DEF Kept, Spare
<1>3. ASSUME NEW t \in committed, ReleaseOf[t] \notin Bad'
      PROVE  \E a \in branches' : t \in tip'[a]
  <2> DEFINE r == ReleaseOf[t]
  <2>1. PICK a \in branches : t \in tip[a]
    BY <1>3, BranchFacts DEF Kept, CommitsSurvive, Bad
  <2>2. CASE a # b
    BY <1>1, <2>1, <2>2, BranchFacts DEF TypeInv, TypeOK, All
  <2>3. CASE t \in tip[Base]
    BY <1>1, <2>3, BranchFacts
  <2>4. CASE a = b /\ t \notin tip[Base]
    <3>1. t \in Tasks /\ r \in Releases
      BY BranchFacts
    <3>2. b = r \/ (b \in Tasks /\ ReleaseOf[b] = r)
      BY <2>1, <2>4, BranchFacts DEF Held
    <3>3. b # r
      BY <1>3, <2>1, <2>4, BranchFacts DEF Spare
    <3>4. b \in Tasks /\ ReleaseOf[b] = r /\ t \in tip[r]
      BY <1>3, <2>1, <2>4, <3>2, <3>3, BranchFacts DEF Spare
    <3>5. r \in branches
      BY <3>1, <3>4 DEF Held
    <3> QED BY <1>1, <3>1, <3>3, <3>4, <3>5, BranchFacts
  <2> QED BY <2>2, <2>3, <2>4
<1>4. ASSUME NEW t \in completed, ReleaseOf[t] \notin Bad'
      PROVE  t \in tip'[IF ReleaseOf[t] \in branches' THEN ReleaseOf[t] ELSE Base]
  <2>1. t \in tip[IF ReleaseOf[t] \in branches THEN ReleaseOf[t] ELSE Base]
    BY <1>4, BranchFacts DEF Kept, CompletedWorkIsThere, Bad
  <2>2. t \in Tasks /\ ReleaseOf[t] \in Releases
    BY BranchFacts
  <2>3. CASE b = ReleaseOf[t]
    BY <1>1, <1>4, <2>1, <2>2, <2>3, BranchFacts DEF Spare
  <2>4. CASE b # ReleaseOf[t]
    BY <1>1, <2>1, <2>2, <2>4, BranchFacts
  <2> QED BY <2>3, <2>4
<1> QED BY <1>2, <1>3, <1>4 DEF Kept, CommitsSurvive, CompletedWorkIsThere, Bad

\* Steps that take nothing from a branch.
LEMMA GrowKept ==
  ASSUME TypeInv, Held, Kept, Bad \subseteq Bad', committed' = committed, completed' = completed,
         \/ Same
         \/ \E r \in Releases : Creates(r) \/ Lands(r)
         \/ \E t \in Tasks : Begins(t) \/ Merges(t)
  PROVE  Kept'
<1>1. CASE Same
  BY <1>1 DEF Same, Kept, CommitsSurvive, CompletedWorkIsThere, Bad
<1>2. ASSUME NEW r \in Releases, Creates(r) PROVE Kept'
  <2>1. /\ \A a \in All \ {r} : tip'[a] = tip[a]
        /\ tip[r] = {} /\ tip'[r] = tip[Base] /\ branches' = branches \cup {r} /\ r \notin branches
    BY <1>2, BranchFacts DEF Creates, Held
  <2>2. \A a \in All : tip[a] \subseteq tip'[a]
    BY <2>1
  <2>3. \A t \in Tasks :
          ReleaseOf[t] \notin Bad' => tip'[t] \subseteq {t} \cup tip'[ReleaseOf[t]] \cup tip'[Base]
    BY <2>1, BranchFacts DEF Kept
  <2>4. CommitsSurvive'
    BY <2>1, <2>2, BranchFacts DEF Kept, CommitsSurvive, Bad, TypeInv, TypeOK, All
  <2>5. CompletedWorkIsThere'
    BY <2>1, BranchFacts DEF Kept, CompletedWorkIsThere, Bad
  <2> QED BY <2>3, <2>4, <2>5 DEF Kept
<1>3. ASSUME NEW r \in Releases, Lands(r) PROVE Kept'
  <2>1. /\ \A a \in All \ {Base} : tip'[a] = tip[a]
        /\ tip'[Base] = tip[Base] \cup tip[r] /\ branches' = branches
    BY <1>3, BranchFacts DEF Lands
  <2>2. CommitsSurvive'
    BY <2>1, BranchFacts DEF Kept, CommitsSurvive, Bad, TypeInv, TypeOK, All
  <2>3. CompletedWorkIsThere'
    BY <2>1, BranchFacts DEF Kept, CompletedWorkIsThere, Bad
  <2> QED BY <2>1, <2>2, <2>3, BranchFacts DEF Kept
<1>4. ASSUME NEW t \in Tasks, Begins(t) PROVE Kept'
  <2>1. /\ \A a \in All \ {t} : tip'[a] = tip[a]
        /\ tip[t] = {} /\ tip'[t] = tip[ReleaseOf[t]] /\ branches' = branches \cup {t}
    BY <1>4, BranchFacts DEF Begins, Held
  <2>2. CommitsSurvive'
    BY <2>1, BranchFacts DEF Kept, CommitsSurvive, Bad, TypeInv, TypeOK, All
  <2>3. CompletedWorkIsThere'
    BY <2>1, BranchFacts DEF Kept, CompletedWorkIsThere, Bad
  <2> QED BY <2>1, <2>2, <2>3, BranchFacts DEF Kept
<1>5. ASSUME NEW t \in Tasks, Merges(t) PROVE Kept'
  <2> DEFINE r == ReleaseOf[t]
  <2>1. /\ \A a \in All \ {t, r} : tip'[a] = tip[a]
        /\ tip'[t] = tip[t] \cup tip[r] /\ tip'[r] = tip[r] \cup tip[t] /\ branches' = branches
    BY <1>5, BranchFacts DEF Merges
  <2>2. CommitsSurvive'
    BY <2>1, BranchFacts DEF Kept, CommitsSurvive, Bad, TypeInv, TypeOK, All
  <2>3. CompletedWorkIsThere'
    BY <2>1, BranchFacts DEF Kept, CompletedWorkIsThere, Bad
  <2> QED BY <2>1, <2>2, <2>3, BranchFacts DEF Kept
<1> QED BY <1>1, <1>2, <1>3, <1>4, <1>5

LEMMA KeptStep == ASSUME TypeInv, Held, Cleaning, Kept, [Next]_vars PROVE Kept'
<1>1. CASE UNCHANGED vars
  BY <1>1, GrowKept DEF vars, repository, memory, history, Same, Bad
<1>2. ASSUME NEW r \in Releases, StartRun(r) PROVE Kept'
  BY <1>2, GrowKept DEF StartRun, memory, Same, Creates, Bad
<1>3. ASSUME NEW r \in Releases, EndRun(r) PROVE Kept'
  <2>1. PICK results \in SUBSET Results(r) : completed' = completed \cup results
    BY <1>3 DEF EndRun
  <2>2. Same \/ Lands(r)
    BY <1>3 DEF EndRun, Same, Lands
  <2>3. \A a \in All : tip[a] \subseteq tip'[a] /\ (a # Base => tip'[a] = tip[a])
    BY <2>2, BranchFacts DEF Same, Lands
  <2>4. branches' = branches /\ committed' = committed /\ Bad' = Bad
    BY <1>3 DEF EndRun, history, Bad
  <2>5. \A t \in Tasks :
          ReleaseOf[t] \notin Bad' => tip'[t] \subseteq {t} \cup tip'[ReleaseOf[t]] \cup tip'[Base]
    BY <2>3, <2>4, BranchFacts DEF Kept
  <2>6. CommitsSurvive'
    BY <2>3, <2>4, BranchFacts DEF Kept, CommitsSurvive, Bad, TypeInv, TypeOK, All
  <2>7. ASSUME NEW t \in completed', ReleaseOf[t] \notin Bad'
        PROVE  t \in tip'[IF ReleaseOf[t] \in branches' THEN ReleaseOf[t] ELSE Base]
    <3>1. CASE t \in completed
      <4>1. t \in tip[IF ReleaseOf[t] \in branches THEN ReleaseOf[t] ELSE Base]
        BY <2>4, <2>7, <3>1 DEF Kept, CompletedWorkIsThere, Bad
      <4> QED BY <2>3, <2>4, <3>1, <4>1, BranchFacts
    <3>2. CASE t \in Results(r)
      <4>1. ReleaseOf[t] = r /\ t \in tip[r] /\ r \in branches
        BY <3>2, BranchFacts DEF Results, Held
      <4> QED BY <2>3, <2>4, <4>1, BranchFacts
    <3> QED BY <2>1, <2>7, <3>1, <3>2
  <2> QED BY <2>5, <2>6, <2>7 DEF Kept, CompletedWorkIsThere, Bad
<1>4. ASSUME NEW t \in Tasks, BeginTask(t) PROVE Kept'
  <2>1. Begins(t)
    BY <1>4 DEF BeginTask, Begins
  <2> QED BY <1>4, <2>1, GrowKept DEF BeginTask, memory, history, Bad
<1>5. ASSUME NEW t \in Tasks, CommitTask(t) PROVE Kept'
  <2>1. /\ t \in branches /\ branches' = branches /\ committed' = committed \cup {t}
        /\ tip'[t] = tip[t] \cup {t} /\ \A a \in All \ {t} : tip'[a] = tip[a]
        /\ completed' = completed /\ Bad' = Bad
    BY <1>5, BranchFacts DEF CommitTask, TypeInv, memory, Bad
  <2>2. CommitsSurvive'
    BY <2>1, BranchFacts DEF Kept, CommitsSurvive, Bad, TypeInv, TypeOK, All
  <2>3. CompletedWorkIsThere'
    BY <2>1, BranchFacts DEF Kept, CompletedWorkIsThere, Bad
  <2> QED BY <2>1, <2>2, <2>3, BranchFacts DEF Kept
<1>6. ASSUME NEW t \in Tasks, MergeTask(t) PROVE Kept'
  <2>1. Merges(t)
    BY <1>6, BranchFacts DEF MergeTask, Merges, TypeInv
  <2> QED BY <1>6, <2>1, GrowKept DEF MergeTask, memory, history, Bad
<1>7. ASSUME NEW t \in Tasks, LeaveTask(t) PROVE Kept'
  <2>1. Bad \subseteq Bad' /\ committed' = committed /\ completed' = completed
    BY <1>7 DEF LeaveTask, memory, history, Bad
  <2>2. CASE Same
    BY <2>1, <2>2, GrowKept
  <2>3. CASE Drops(t) /\ t \notin tip[t] \ tip[ReleaseOf[t]]
    <3>1. Spare(t)
      BY <2>1, <2>3 DEF Kept, Spare
    <3> QED BY <2>1, <2>3, <3>1, DropKept
  <2> QED BY <1>7, <2>2, <2>3, LeaveEffect
<1>8. ASSUME NEW b \in Tasks \cup Releases, DeleteBranch(b) PROVE Kept'
  <2>1. Bad \subseteq Bad' /\ committed' = committed /\ completed' = completed
    BY <1>8 DEF DeleteBranch, memory, Bad
  <2>2. CASE Same
    BY <2>1, <2>2, GrowKept
  <2>3. CASE ~InUse(b) /\ Drops(b)
    <3> DEFINE c == cleanup.release
    <3>1. /\ cleanup.on /\ b \in cleanup.branches /\ c \in Releases
          /\ b \in TasksOf(c) \cup {c} /\ hasty' = hasty
      BY <1>8 DEF DeleteBranch, Cleaning, TypeInv, TypeOK, Cleanups
    <3>2. Spare(b)
      <4>1. CASE c \in hasty
        BY <3>1, <4>1, BranchFacts DEF Spare, Bad, TasksOf
      <4>2. CASE c \notin hasty /\ b = c /\ Merged(b, Base)
        BY <3>1, <4>2 DEF Spare, Merged
      <4>3. CASE c \notin hasty /\ b = c /\ ~Merged(b, Base) /\ cleanup.vouched
        BY <1>8, <2>3, <3>1, <4>3 DEF DeleteBranch, InUse, Spare, Bad
      <4>4. CASE c \notin hasty /\ b = c /\ ~cleanup.vouched
        BY <3>1, <4>4 DEF Cleaning, Spare
      <4>5. CASE c \notin hasty /\ b \in TasksOf(c)
        BY <3>1, <4>5, BranchFacts DEF Cleaning, Spare, TasksOf
      <4> QED BY <3>1, <4>1, <4>2, <4>3, <4>4, <4>5
    <3> QED BY <2>1, <2>3, <3>2, DropKept
  <2> QED BY <1>8, <2>2, <2>3, DeleteEffect
<1>9. CASE \/ \E r \in Releases : KillRun(r)
           \/ \E b \in branches : Switch(b)
           \/ \E r \in Releases, include \in BOOLEAN : Survey(r, include)
           \/ \E t \in Tasks : RemoveWorktree(t)
           \/ EndCleanup \/ KillCleanup
  <2>1. Same /\ Bad \subseteq Bad' /\ committed' = committed /\ completed' = completed
    BY <1>9 DEF KillRun, Switch, Survey, RemoveWorktree, EndCleanup, KillCleanup, repository,
                memory, history, Same, Bad
  <2> QED BY <2>1, GrowKept
<1> QED BY <1>1, <1>2, <1>3, <1>4, <1>5, <1>6, <1>7, <1>8, <1>9 DEF Next

Inv == Held /\ Cleaning /\ Kept

LEMMA InvInit == Init => Inv
<1> SUFFICES ASSUME Init PROVE Inv  OBVIOUS
<1>1. \A b \in All : tip[b] = {}
  BY DEF Init, All
<1>2. \A t \in Tasks : ReleaseOf[t] \in Releases
  BY TaskRelease
<1>3. Held
  BY <1>1, <1>2 DEF Held, All
<1>4. Cleaning
  BY IdleType DEF Init, Cleaning
<1>5. Kept
  BY <1>1, <1>2 DEF Init, Kept, CommitsSurvive, CompletedWorkIsThere, All
<1> QED BY <1>3, <1>4, <1>5 DEF Inv

LEMMA InvStep == ASSUME TypeInv, Inv, [Next]_vars PROVE Inv'
  BY HeldStep, CleaningStep, KeptStep DEF Inv

\* Committed work stays on some branch, whatever is killed, kept or cleaned up,
\* unless its release was run during a cleanup of it, or its integration branch
\* went on the evidence alone (_branch_skip_reason, _should_preserve_task_branch).
THEOREM CommittedWorkSurvives == Spec => []CommitsSurvive
<1>1. Inv => CommitsSurvive
  BY DEF Inv, Kept
<1>2. TypeInv /\ Inv /\ [Next]_vars => Inv'
  BY InvStep
<1> QED BY <1>1, <1>2, AlwaysTyped, InvInit, PTL DEF Spec

\* Under the same exceptions, what later runs skip as completed is on the branch
\* they start from (_completed_release_task_ids).
THEOREM SkippedWorkIsThere == Spec => []CompletedWorkIsThere
<1>1. Inv => CompletedWorkIsThere
  BY DEF Inv, Kept
<1>2. TypeInv /\ Inv /\ [Next]_vars => Inv'
  BY InvStep
<1> QED BY <1>1, <1>2, AlwaysTyped, InvInit, PTL DEF Spec

\* A cleanup that comes to its end leaves no worktree of the release, and no task
\* branch but for a reason (_release_worktree_paths, _branch_skip_reason).
THEOREM EndedCleanupIsThorough == Spec => CleanupIsThorough
<1> DEFINE Left ==
      EndCleanup /\ cleanup.release \notin hasty =>
        LET r == cleanup.release IN
        /\ \A t \in TasksOf(r) : t \notin worktrees'
        /\ \A t \in TasksOf(r) \cap branches' : t \in cleanup.spared \/ ~Merged(t, Base)
<1>1. TypeInv /\ Inv /\ [Next]_vars => [Left]_vars
  <2> SUFFICES ASSUME TypeInv, Inv, EndCleanup, cleanup.release \notin hasty
               PROVE  LET r == cleanup.release IN
                      /\ \A t \in TasksOf(r) : t \notin worktrees'
                      /\ \A t \in TasksOf(r) \cap branches' : t \in cleanup.spared \/ ~Merged(t, Base)
    OBVIOUS
  <2> QED BY DEF Inv, Cleaning, EndCleanup, repository, Merged
<1>2. TypeInv /\ Inv /\ [Next]_vars => Inv'
  BY InvStep
<1> QED BY <1>1, <1>2, AlwaysTyped, InvInit, PTL DEF Spec, CleanupIsThorough
=============================================================================
