------------------------- MODULE FinalizationProofs -------------------------
(***************************************************************************)
(* Proofs about Finalization, for any sets of tasks, releases and          *)
(* processes, any conflicts between changes and any setting of the flags.  *)
(***************************************************************************)
EXTENDS Finalization, TLAPS

USE DEF Holding, Settled, PCs, Steps, NoStep, FinalizeResult, EmptyResult

\* The error paths keep the result a FinalizeResult.
LEMMA FailedResultType ==
  ASSUME NEW f, NEW step \in Steps
  PROVE  FailedFinalizeResult(f, step) \in FinalizeResult
BY DEF FailedFinalizeResult

LEMMA RaiseType ==
  ASSUME TypeOK, NEW f \in Finalizers, NEW step \in Steps, Raise(f, step)
  PROVE  /\ pc' \in [Finalizers -> PCs]
         /\ res' \in [Finalizers -> FinalizeResult]
BY DEF TypeOK, Raise

\* The flags of a result are set one at a time.
LEMMA FlagType ==
  ASSUME TypeOK, NEW f \in Finalizers
  PROVE  /\ [res EXCEPT ![f].commit = TRUE] \in [Finalizers -> FinalizeResult]
         /\ [res EXCEPT ![f].merged = TRUE] \in [Finalizers -> FinalizeResult]
         /\ [res EXCEPT ![f].pushed = TRUE] \in [Finalizers -> FinalizeResult]
<1>1. res \in [Finalizers -> FinalizeResult] /\ res[f] \in FinalizeResult
  BY DEF TypeOK
<1>2. \A r \in FinalizeResult : [res EXCEPT ![f] = r] \in [Finalizers -> FinalizeResult]
  BY <1>1
<1>3. /\ [res[f] EXCEPT !.commit = TRUE] \in FinalizeResult
      /\ [res[f] EXCEPT !.merged = TRUE] \in FinalizeResult
      /\ [res[f] EXCEPT !.pushed = TRUE] \in FinalizeResult
  BY <1>1
<1>4. /\ [res EXCEPT ![f].commit = TRUE] = [res EXCEPT ![f] = [res[f] EXCEPT !.commit = TRUE]]
      /\ [res EXCEPT ![f].merged = TRUE] = [res EXCEPT ![f] = [res[f] EXCEPT !.merged = TRUE]]
      /\ [res EXCEPT ![f].pushed = TRUE] = [res EXCEPT ![f] = [res[f] EXCEPT !.pushed = TRUE]]
  OBVIOUS
<1> QED
  BY <1>2, <1>3, <1>4

LEMMA GotoType ==
  ASSUME TypeOK, NEW f \in Finalizers, NEW label \in PCs, Goto(f, label)
  PROVE  pc' \in [Finalizers -> PCs]
BY DEF TypeOK, Goto

LEMMA UpstreamsType ==
  ASSUME TypeOK
  PROVE  Upstreams \subseteq SUBSET Changes
BY DEF TypeOK, Upstreams, Branches

LEMMA PayloadType ==
  ASSUME TypeOK, NEW f \in Finalizers
  PROVE  Payload(f) \in SUBSET Changes
BY DEF TypeOK, Payload, Branches, Finalizers

-----------------------------------------------------------------------------

LEMMA InitType == Init => TypeOK
<1> SUFFICES ASSUME Init PROVE TypeOK
  OBVIOUS
<1>1. branches \in [Branches -> SUBSET Changes]
  BY DEF Init, Changes
<1> QED
  BY <1>1 DEF Init, TypeOK, Branches

\* One step of a finalizer keeps the types.
LEMMA StepType ==
  ASSUME TypeOK, NEW f \in Finalizers, Step(f)
  PROVE  TypeOK'
<1> USE DEF Goto, Branches
<1>1. CASE EnterLock(f)
  BY <1>1 DEF EnterLock, TypeOK
<1>2. CASE LockHeld(f)
  <2>1. AfterFailure(f) \in PCs
    BY DEF AfterFailure
  <2>2. res' \in [Finalizers -> FinalizeResult]
    BY <1>2, FailedResultType DEF LockHeld, TypeOK
  <2> QED
    BY <1>2, <2>1, <2>2 DEF LockHeld, TypeOK
<1>3. CASE EnsureBaseBranch(f)
  <2>1. SwitchTo(f) \in Branches
    BY DEF SwitchTo, Target
  <2>2. CASE ~EnsureClean
    BY <1>3, <2>2, RaiseType DEF EnsureBaseBranch, TypeOK
  <2>3. CASE EnsureClean
    BY <1>3, <2>1, <2>3 DEF EnsureBaseBranch, TypeOK
  <2> QED
    BY <2>2, <2>3
<1>4. CASE MergeBegin(f)
  <2>1. CASE ~EnsureClean
    BY <1>4, <2>1, RaiseType DEF MergeBegin, TypeOK
  <2>2. CASE EnsureClean
    BY <1>4, <2>2 DEF MergeBegin, TypeOK
  <2> QED
    BY <2>1, <2>2
<1>5. CASE MergeEnd(f)
  <2>1. CASE Clash(Payload(f), branches[head])
    BY <1>5, <2>1, RaiseType DEF MergeEnd, TypeOK
  <2>2. CASE ~Clash(Payload(f), branches[head])
    <3>0. Payload(f) \in SUBSET Changes
      BY PayloadType
    <3>1. branches' \in [Branches -> SUBSET Changes]
      BY <1>5, <2>2, <3>0 DEF MergeEnd, TypeOK
    <3>2. res' \in [Finalizers -> FinalizeResult]
      <4>1. res' = [res EXCEPT ![f].merged = TRUE]
        BY <1>5, <2>2 DEF MergeEnd
      <4> QED
        BY <4>1, FlagType
    <3>3. pc' \in [Finalizers -> PCs]
      BY <1>5, <2>2 DEF MergeEnd, TypeOK
    <3> QED
      BY <1>5, <2>2, <3>1, <3>2, <3>3 DEF MergeEnd, TypeOK
  <2> QED
    BY <2>1, <2>2
<1>6. CASE GitFails(f)
  <2>1. StepOf(pc[f]) \in Steps
    BY DEF StepOf
  <2> QED
    BY <1>6, <2>1, RaiseType DEF GitFails, TypeOK
<1>7. CASE ExitLock(f)
  <2>1. CASE res[f].step = NoStep
    BY <1>7, <2>1 DEF ExitLock, TypeOK
  <2>2. CASE res[f].step # NoStep
    <3>1. res[f].step \in Steps
      BY <2>2 DEF TypeOK
    <3>2. res' \in [Finalizers -> FinalizeResult]
      BY <1>7, <2>2, <3>1, FailedResultType DEF ExitLock, TypeOK
    <3>3. AfterFailure(f) \in PCs
      BY DEF AfterFailure
    <3> QED
      BY <1>7, <2>2, <3>2, <3>3 DEF ExitLock, TypeOK
  <2> QED
    BY <2>1, <2>2
<1>8. CASE FinishRelease(f)
  BY <1>8 DEF FinishRelease, TypeOK
<1>9. ASSUME f \in Tasks, CommitWorktreeChanges(f)
      PROVE  TypeOK'
  <2>1. CASE tree[f] = "dirty"
    <3>1. res' = [res EXCEPT ![f].commit = TRUE]
      BY <1>9, <2>1 DEF CommitWorktreeChanges
    <3>2. res' \in [Finalizers -> FinalizeResult]
      BY <3>1, FlagType
    <3>3. branch' \in [Tasks -> SUBSET Changes]
      BY <1>9, <2>1 DEF CommitWorktreeChanges, TypeOK, Changes
    <3> QED
      BY <1>9, <2>1, <3>2, <3>3 DEF CommitWorktreeChanges, TypeOK
  <2>2. CASE tree[f] # "dirty"
    BY <1>9, <2>2 DEF CommitWorktreeChanges, TypeOK
  <2> QED
    BY <2>1, <2>2
<1>10. ASSUME f \in Tasks, RebaseWorktreeOnto(f)
       PROVE  TypeOK'
  <2>1. PICK up \in Upstreams : RebaseWorktreeOnto(f)!2!(up)
    BY <1>10 DEF RebaseWorktreeOnto
  <2>2. up \in SUBSET Changes
    BY UpstreamsType
  <2>3. CASE Clash(branch[f], up)
    BY <1>10, <2>1, <2>2, <2>3, RaiseType DEF RebaseWorktreeOnto, TypeOK
  <2>4. CASE ~Clash(branch[f], up)
    BY <1>10, <2>1, <2>2, <2>4 DEF RebaseWorktreeOnto, TypeOK
  <2> QED
    BY <2>3, <2>4
<1>11. ASSUME f \in Tasks, PushBranch(f)
       PROVE  TypeOK'
  <2>1. CASE HasRemote /\ origin \subseteq branches[Integration]
    <3>1. res' = [res EXCEPT ![f].pushed = TRUE]
      BY <1>11, <2>1 DEF PushBranch
    <3>2. res' \in [Finalizers -> FinalizeResult]
      BY <3>1, FlagType
    <3> QED
      BY <1>11, <2>1, <3>2 DEF PushBranch, TypeOK
  <2>2. CASE ~(HasRemote /\ origin \subseteq branches[Integration])
    BY <1>11, <2>2, RaiseType DEF PushBranch, TypeOK
  <2> QED
    BY <2>1, <2>2
<1>12. ASSUME f \in Tasks, ConflictStays(f)
       PROVE  TypeOK'
  BY <1>12 DEF ConflictStays, TypeOK
<1>13. ASSUME f \in Tasks, ConflictRepaired(f)
       PROVE  TypeOK'
  <2>1. CASE ConfigBound
    <3>1. branch' \in [Tasks -> SUBSET Changes]
      BY <1>13, <2>1 DEF ConflictRepaired, TypeOK
    <3> QED
      BY <1>13, <2>1, <3>1 DEF ConflictRepaired, TypeOK
  <2>2. CASE ~ConfigBound
    BY <1>13, <2>2 DEF ConflictRepaired, TypeOK
  <2> QED
    BY <2>1, <2>2
<1>14. ASSUME f \in Tasks, CleanupTaskArtifacts(f)
       PROVE  TypeOK'
  BY <1>14 DEF CleanupTaskArtifacts, TypeOK
<1> QED
  BY <1>1, <1>2, <1>3, <1>4, <1>5, <1>6, <1>7, <1>8, <1>9, <1>10, <1>11,
     <1>12, <1>13, <1>14 DEF Step

\* A start, a crash, a push by somebody else or another run-release keep the types.
LEMMA NextType == TypeOK /\ [Next]_vars => TypeOK'
<1> SUFFICES ASSUME TypeOK, [Next]_vars PROVE TypeOK'
  OBVIOUS
<1> USE DEF Goto, Branches, Finalizers
<1>1. ASSUME NEW t \in Tasks, StartTask(t) PROVE TypeOK'
  BY <1>1 DEF StartTask, TypeOK
<1>2. ASSUME NEW r \in Releases, StartRelease(r) PROVE TypeOK'
  BY <1>2 DEF StartRelease, TypeOK
<1>3. ASSUME NEW f \in Finalizers, Step(f) PROVE TypeOK'
  BY <1>3, StepType
<1>4. ASSUME NEW p \in Procs, Crash(p) PROVE TypeOK'
  BY <1>4 DEF Crash, TypeOK
<1>5. CASE ExternalPush
  BY <1>5 DEF ExternalPush, TypeOK, Changes
<1>6. CASE StartCheck
  BY <1>6 DEF StartCheck, TypeOK
<1>7. CASE EnsureBranchFromBase
  BY <1>7 DEF EnsureBranchFromBase, TypeOK
<1>8. CASE UNCHANGED vars
  BY <1>8 DEF vars, TypeOK
<1> QED
  BY <1>1, <1>2, <1>3, <1>4, <1>5, <1>6, <1>7, <1>8 DEF Next

\* Every variable of the finalization keeps its type.
THEOREM TypeCorrect == Spec => []TypeOK
BY InitType, NextType, PTL DEF Spec

-----------------------------------------------------------------------------
(***************************************************************************)
(* The lock.                                                               *)
(***************************************************************************)

\* A finalizer that moves on inside the with-block stays the owner.
LEMMA MoveInside ==
  ASSUME TypeOK, LockInv, NEW f \in Finalizers, NEW label \in Holding,
         pc[f] \in Holding, Goto(f, label), lock' = lock
  PROVE  LockInv'
BY DEF TypeOK, LockInv, Goto

\* A finalizer that moves on outside of it cannot be the owner.
LEMMA MoveOutside ==
  ASSUME TypeOK, LockInv, NEW f \in Finalizers, NEW label \in PCs \ Holding,
         pc[f] \notin Holding \cup {"crashed"}, Goto(f, label), lock' = lock
  PROVE  LockInv'
BY DEF TypeOK, LockInv, Goto

LEMMA RaiseInside ==
  ASSUME TypeOK, LockInv, NEW f \in Finalizers, NEW step,
         pc[f] \in Holding, Raise(f, step), lock' = lock
  PROVE  LockInv'
<1>1. Goto(f, "exit")
  BY DEF Raise, Goto
<1> QED
  BY <1>1, MoveInside

LEMMA StepLock ==
  ASSUME TypeOK, LockInv, NEW f \in Finalizers, Step(f)
  PROVE  LockInv'
<1>1. CASE EnterLock(f)
  <2>1. \A g \in Finalizers : pc[g] \notin Holding
    BY <1>1, FinalizationAssumption DEF EnterLock, LockFree, LockInv
  <2>2. pc' = [pc EXCEPT ![f] = IF f \in Tasks THEN "commit" ELSE "ensure"]
        /\ lock' = f
    BY <1>1 DEF EnterLock, Goto
  <2> QED
    BY <2>1, <2>2 DEF TypeOK, LockInv
<1>2. CASE LockHeld(f)
  BY <1>2, MoveOutside DEF LockHeld, AfterFailure
<1>3. CASE EnsureBaseBranch(f)
  BY <1>3, MoveInside, RaiseInside DEF EnsureBaseBranch
<1>4. CASE MergeBegin(f)
  BY <1>4, MoveInside, RaiseInside DEF MergeBegin
<1>5. CASE MergeEnd(f)
  BY <1>5, MoveInside, RaiseInside DEF MergeEnd
<1>6. CASE GitFails(f)
  BY <1>6, RaiseInside DEF GitFails
<1>7. CASE ExitLock(f)
  <2>1. /\ lock' = Nobody
        /\ \E label \in {"cleanup", "repair"} : pc' = [pc EXCEPT ![f] = label]
    BY <1>7 DEF ExitLock, Goto, AfterFailure
  <2>2. \A g \in Finalizers : pc[g] \in Holding => g = f
    BY <1>7 DEF ExitLock, LockInv
  <2> QED
    BY <2>1, <2>2 DEF TypeOK, LockInv
<1>8. CASE FinishRelease(f)
  BY <1>8, MoveOutside DEF FinishRelease
<1>9. CASE CommitWorktreeChanges(f)
  BY <1>9, MoveInside DEF CommitWorktreeChanges
<1>10. CASE RebaseWorktreeOnto(f)
  BY <1>10, MoveInside, RaiseInside DEF RebaseWorktreeOnto
<1>11. CASE PushBranch(f)
  BY <1>11, MoveInside, RaiseInside DEF PushBranch
<1>12. CASE ConflictStays(f)
  BY <1>12, MoveOutside DEF ConflictStays
<1>13. CASE ConflictRepaired(f)
  BY <1>13, MoveOutside DEF ConflictRepaired
<1>14. CASE CleanupTaskArtifacts(f)
  BY <1>14, MoveOutside DEF CleanupTaskArtifacts
<1> QED
  BY <1>1, <1>2, <1>3, <1>4, <1>5, <1>6, <1>7, <1>8, <1>9, <1>10, <1>11,
     <1>12, <1>13, <1>14 DEF Step

LEMMA NextLock == TypeOK /\ LockInv /\ [Next]_vars => LockInv'
<1> SUFFICES ASSUME TypeOK, LockInv, [Next]_vars PROVE LockInv'
  OBVIOUS
<1>1. ASSUME NEW t \in Tasks, StartTask(t) PROVE LockInv'
  <2>1. t \in Finalizers
    BY DEF Finalizers
  <2> QED
    BY <1>1, <2>1, MoveOutside DEF StartTask
<1>2. ASSUME NEW r \in Releases, StartRelease(r) PROVE LockInv'
  <2>1. r \in Finalizers
    BY DEF Finalizers
  <2> QED
    BY <1>2, <2>1, MoveOutside DEF StartRelease
<1>3. ASSUME NEW f \in Finalizers, Step(f) PROVE LockInv'
  BY <1>3, StepLock
<1>4. ASSUME NEW p \in Procs, Crash(p) PROVE LockInv'
  BY <1>4 DEF Crash, TypeOK, LockInv
<1>5. CASE ExternalPush \/ StartCheck \/ EnsureBranchFromBase \/ UNCHANGED vars
  BY <1>5 DEF ExternalPush, StartCheck, EnsureBranchFromBase, vars, LockInv
<1> QED
  BY <1>1, <1>2, <1>3, <1>4, <1>5 DEF Next

\* The lock file exists exactly while its owner is inside the with-block, or
\* forever after the owner died there.
THEOREM LockSafe == Spec => []LockInv
<1>1. Init => LockInv
  BY DEF Init, LockInv
<1> QED
  BY <1>1, InitType, NextType, NextLock, PTL DEF Spec

\* Mutual exclusion: finalizations are serialised over all threads and processes.
THEOREM MutualExclusion == Spec => []OneFinalizer
<1>1. LockInv => OneFinalizer
  BY DEF LockInv, OneFinalizer
<1> QED
  BY <1>1, LockSafe, PTL

\* A lock left by a dead owner is never removed or taken over, and nothing merges.
THEOREM StaleLockIsFinal == Spec => StaleLockFreezesMerges
<1>1. TypeOK /\ LockInv /\ [Next]_vars
      => [lock # Nobody /\ pc[lock] = "crashed" => UNCHANGED <<lock, branches>>]_vars
  <2> SUFFICES ASSUME TypeOK, LockInv, Next, lock # Nobody, pc[lock] = "crashed"
               PROVE  UNCHANGED <<lock, branches>>
    OBVIOUS
  <2>1. \A f \in Finalizers : pc[f] \notin Holding
    BY DEF LockInv
  <2>2. ASSUME NEW f \in Finalizers, Step(f)
        PROVE  UNCHANGED <<lock, branches>>
    BY <2>1, <2>2 DEF Step, EnterLock, LockFree, LockHeld, EnsureBaseBranch,
       MergeBegin, MergeEnd, GitFails, ExitLock, FinishRelease,
       CommitWorktreeChanges, RebaseWorktreeOnto, PushBranch, ConflictStays,
       ConflictRepaired, CleanupTaskArtifacts
  <2> QED
    BY <2>2 DEF Next, StartTask, StartRelease, Crash, ExternalPush, StartCheck,
       EnsureBranchFromBase
<1> QED
  BY <1>1, TypeCorrect, LockSafe, PTL DEF Spec, StaleLockFreezesMerges

-----------------------------------------------------------------------------
(***************************************************************************)
(* The rebase under the lock makes the merge a fast-forward.               *)
(***************************************************************************)

LEMMA StepFastForward ==
  ASSUME TypeOK, LockInv, MergeIsFastForward, NEW f \in Finalizers, Step(f)
  PROVE  MergeIsFastForward'
<1> SUFFICES ASSUME ~HasRemote, NEW t \in Tasks, pc'[t] \in {"merge", "merging"}
             PROVE  branches'[Integration] \subseteq branch'[t]
  BY DEF MergeIsFastForward
<1>t. t \in Finalizers
  BY DEF Finalizers
<1>1. CASE RebaseWorktreeOnto(f)
  <2>1. branches' = branches
    BY <1>1 DEF RebaseWorktreeOnto
  <2>2. PICK up \in Upstreams : RebaseWorktreeOnto(f)!2!(up)
    BY <1>1 DEF RebaseWorktreeOnto
  <2>3. up = branches[Integration]
    BY <2>2 DEF Upstreams
  <2>4. CASE f = t
    BY <1>t, <2>1, <2>2, <2>3, <2>4 DEF Raise, Goto, TypeOK
  <2>5. CASE f # t
    BY <1>t, <2>1, <2>2, <2>5 DEF Raise, Goto, TypeOK, MergeIsFastForward
  <2> QED
    BY <2>4, <2>5
<1>2. CASE MergeEnd(f)
  <2>1. pc[f] \in Holding /\ pc'[f] \in {"exit", "push"} /\ f # t
    BY <1>2 DEF MergeEnd, Raise, Goto, TypeOK
  <2>2. pc'[t] = pc[t]
    BY <1>2, <1>t, <2>1 DEF MergeEnd, Raise, Goto, TypeOK
  <2>3. lock = f /\ lock = t
    BY <1>t, <2>1, <2>2 DEF LockInv
  <2> QED
    BY <2>1, <2>3
<1>3. CASE MergeBegin(f)
  BY <1>3, <1>t DEF MergeBegin, Raise, Goto, TypeOK, MergeIsFastForward
<1>4. CASE CleanupTaskArtifacts(f)
  BY <1>4, <1>t DEF CleanupTaskArtifacts, Goto, TypeOK, MergeIsFastForward
<1>5. CASE CommitWorktreeChanges(f)
  BY <1>5, <1>t DEF CommitWorktreeChanges, Goto, TypeOK, MergeIsFastForward
<1>6. CASE ConflictRepaired(f)
  BY <1>6, <1>t DEF ConflictRepaired, Goto, TypeOK, MergeIsFastForward
<1>7. CASE EnsureBaseBranch(f)
  BY <1>7, <1>t DEF EnsureBaseBranch, Raise, Goto, TypeOK, MergeIsFastForward
<1>8. CASE EnterLock(f) \/ LockHeld(f) \/ GitFails(f) \/ ExitLock(f)
           \/ FinishRelease(f) \/ PushBranch(f) \/ ConflictStays(f)
  BY <1>8, <1>t DEF EnterLock, LockHeld, AfterFailure, GitFails, ExitLock,
     FinishRelease, PushBranch, ConflictStays, Raise, Goto, TypeOK, MergeIsFastForward
<1> QED
  BY <1>1, <1>2, <1>3, <1>4, <1>5, <1>6, <1>7, <1>8 DEF Step

LEMMA NextFastForward ==
  TypeOK /\ LockInv /\ MergeIsFastForward /\ [Next]_vars => MergeIsFastForward'
<1> SUFFICES ASSUME TypeOK, LockInv, MergeIsFastForward, [Next]_vars
             PROVE  MergeIsFastForward'
  OBVIOUS
<1>1. ASSUME NEW t \in Tasks, StartTask(t) PROVE MergeIsFastForward'
  BY <1>1 DEF StartTask, Goto, TypeOK, MergeIsFastForward, Finalizers
<1>2. ASSUME NEW r \in Releases, StartRelease(r) PROVE MergeIsFastForward'
  BY <1>2 DEF StartRelease, Goto, TypeOK, MergeIsFastForward, Finalizers
<1>3. ASSUME NEW f \in Finalizers, Step(f) PROVE MergeIsFastForward'
  BY <1>3, StepFastForward
<1>4. ASSUME NEW p \in Procs, Crash(p) PROVE MergeIsFastForward'
  BY <1>4 DEF Crash, TypeOK, MergeIsFastForward, Finalizers
<1>5. CASE ExternalPush \/ StartCheck \/ EnsureBranchFromBase \/ UNCHANGED vars
  BY <1>5 DEF ExternalPush, StartCheck, EnsureBranchFromBase, vars, MergeIsFastForward
<1> QED
  BY <1>1, <1>2, <1>3, <1>4, <1>5 DEF Next

\* Without a remote, what a task merges contains all that was merged before it.
THEOREM FastForward == Spec => []MergeIsFastForward
<1>1. Init => MergeIsFastForward
  BY DEF Init, MergeIsFastForward, Finalizers
<1> QED
  BY <1>1, TypeCorrect, LockSafe, NextFastForward, PTL DEF Spec

-----------------------------------------------------------------------------
(***************************************************************************)
(* Accepted work is never lost.                                            *)
(***************************************************************************)

\* A step that leaves a task alone, and takes nothing out of a branch.
LEMMA WorkUntouched ==
  ASSUME NEW t \in Tasks, WorkOf(t), pc'[t] = pc[t], tree'[t] = tree[t],
         branch'[t] = branch[t], res'[t] = res[t],
         \A b \in Branches : branches[b] \subseteq branches'[b]
  PROVE  WorkOf(t)'
BY DEF WorkOf

\* Merging adds to one branch and takes nothing from any.
LEMMA BranchesGrow ==
  ASSUME TypeOK, [Next]_vars
  PROVE  \A b \in Branches : branches[b] \subseteq branches'[b]
<1>1. ASSUME NEW f \in Finalizers, Step(f)
      PROVE  \A b \in Branches : branches[b] \subseteq branches'[b]
  BY <1>1 DEF Step, EnterLock, LockHeld, EnsureBaseBranch, MergeBegin, MergeEnd,
     GitFails, ExitLock, FinishRelease, CommitWorktreeChanges, RebaseWorktreeOnto,
     PushBranch, ConflictStays, ConflictRepaired, CleanupTaskArtifacts, TypeOK
<1> QED
  BY <1>1 DEF Next, vars, StartTask, StartRelease, Crash, ExternalPush, StartCheck,
     EnsureBranchFromBase

\* A step of f says nothing about another task.
LEMMA StepLocal ==
  ASSUME TypeOK, NEW f \in Finalizers, Step(f), NEW t \in Tasks, t # f
  PROVE  /\ pc'[t] = pc[t]
         /\ tree'[t] = tree[t]
         /\ branch'[t] = branch[t]
         /\ res'[t] = res[t]
<1>t. t \in Finalizers
  BY DEF Finalizers
<1>1. CASE EnterLock(f) \/ LockHeld(f) \/ EnsureBaseBranch(f) \/ MergeBegin(f)
           \/ MergeEnd(f) \/ GitFails(f)
  BY <1>t, <1>1 DEF TypeOK, EnterLock, LockHeld, EnsureBaseBranch, MergeBegin,
     MergeEnd, GitFails, Goto, Raise
<1>2. CASE ExitLock(f) \/ FinishRelease(f) \/ CommitWorktreeChanges(f) \/ PushBranch(f)
  BY <1>t, <1>2 DEF TypeOK, ExitLock, FinishRelease, CommitWorktreeChanges,
     PushBranch, Goto, Raise
<1>3. CASE RebaseWorktreeOnto(f)
  BY <1>t, <1>3 DEF TypeOK, RebaseWorktreeOnto, Goto, Raise
<1>4. CASE ConflictStays(f) \/ ConflictRepaired(f) \/ CleanupTaskArtifacts(f)
  BY <1>t, <1>4 DEF TypeOK, ConflictStays, ConflictRepaired, CleanupTaskArtifacts, Goto
<1> QED
  BY <1>1, <1>2, <1>3, <1>4 DEF Step

LEMMA StepWork ==
  ASSUME TypeOK, WorkInv, NEW t \in Tasks, Step(t)
  PROVE  WorkOf(t)'
<1>f. t \in Finalizers /\ t \notin Releases
  BY FinalizationAssumption DEF Finalizers
<1>w. WorkOf(t)
  BY DEF WorkInv
<1>g. \A b \in Branches : branches[b] \subseteq branches'[b]
  BY <1>f, BranchesGrow DEF Next
<1>1. CASE EnterLock(t)
  BY <1>1, <1>f, <1>w DEF EnterLock, Goto, TypeOK, WorkOf
<1>2. CASE LockHeld(t)
  BY <1>2, <1>f, <1>w DEF LockHeld, AfterFailure, FailedFinalizeResult, Goto, TypeOK, WorkOf
<1>3. CASE EnsureBaseBranch(t)
  BY <1>3, <1>f, <1>w DEF EnsureBaseBranch, Raise, Goto, TypeOK, WorkOf
<1>4. CASE MergeBegin(t)
  BY <1>4, <1>f, <1>w DEF MergeBegin, Raise, Goto, TypeOK, WorkOf
<1>5. CASE MergeEnd(t)
  <2>1. CASE Clash(Payload(t), branches[head])
    BY <1>5, <2>1, <1>f, <1>w DEF MergeEnd, Raise, TypeOK, WorkOf
  <2>2. CASE ~Clash(Payload(t), branches[head])
    <3>1. Payload(t) = branch[t] /\ t \in branch[t]
      BY <1>5, <1>w DEF Payload, MergeEnd, WorkOf
    <3>2. head \in Branches /\ t \in branches'[head]
      BY <1>5, <2>2, <3>1 DEF MergeEnd, TypeOK
    <3>3. /\ res' = [res EXCEPT ![t].merged = TRUE]
          /\ \E label \in {"push", "exit"} : pc' = [pc EXCEPT ![t] = label]
          /\ UNCHANGED <<tree, branch>>
      BY <1>5, <2>2 DEF MergeEnd, Goto
    <3>4. res'[t].merged /\ pc'[t] \in {"push", "exit"}
      BY <3>3, <1>f DEF TypeOK
    <3>5. ShouldMerge /\ tree[t] # "dirty"
      BY <1>5, <1>w DEF MergeEnd, WorkOf
    <3> QED
      BY <3>1, <3>2, <3>3, <3>4, <3>5 DEF WorkOf
  <2> QED
    BY <2>1, <2>2
<1>6. CASE GitFails(t)
  BY <1>6, <1>f, <1>w DEF GitFails, StepOf, Raise, TypeOK, WorkOf
<1>7. CASE ExitLock(t)
  <2>1. CASE res[t].step = NoStep
    BY <1>7, <2>1, <1>f, <1>w DEF ExitLock, Goto, TypeOK, WorkOf
  <2>2. CASE res[t].step # NoStep
    BY <1>7, <2>2, <1>f, <1>w DEF ExitLock, AfterFailure, FailedFinalizeResult,
       Goto, TypeOK, WorkOf
  <2> QED
    BY <2>1, <2>2
<1>8. CASE CommitWorktreeChanges(t)
  <2>1. CASE tree[t] = "dirty"
    BY <1>8, <2>1, <1>f, <1>w DEF CommitWorktreeChanges, Goto, TypeOK, WorkOf
  <2>2. CASE tree[t] # "dirty"
    BY <1>8, <2>2, <1>f, <1>w DEF CommitWorktreeChanges, Goto, TypeOK, WorkOf
  <2> QED
    BY <2>1, <2>2
<1>9. CASE RebaseWorktreeOnto(t)
  <2>1. PICK up \in Upstreams : RebaseWorktreeOnto(t)!2!(up)
    BY <1>9 DEF RebaseWorktreeOnto
  <2>2. pc[t] = "rebase" /\ branches' = branches
    BY <1>9 DEF RebaseWorktreeOnto
  <2>3. CASE Clash(branch[t], up)
    BY <2>1, <2>2, <2>3, <1>f, <1>w DEF Raise, TypeOK, WorkOf
  <2>4. CASE ~Clash(branch[t], up)
    BY <2>1, <2>2, <2>4, <1>f, <1>w DEF Goto, TypeOK, WorkOf
  <2> QED
    BY <2>3, <2>4
<1>10. CASE PushBranch(t)
  BY <1>10, <1>f, <1>w DEF PushBranch, Raise, Goto, TypeOK, WorkOf
<1>11. CASE ConflictStays(t)
  BY <1>11, <1>f, <1>w DEF ConflictStays, Goto, TypeOK, WorkOf
<1>12. CASE ConflictRepaired(t)
  <2>1. pc[t] = "repair" /\ tree[t] = "rebasing" /\ ShouldMerge /\ t \in branch[t]
    BY <1>12, <1>w DEF ConflictRepaired, Repairable, WorkOf
  <2>2. CASE ConfigBound
    BY <1>12, <2>1, <2>2, <1>f, <1>w DEF ConflictRepaired, Goto, TypeOK, WorkOf
  <2>3. CASE ~ConfigBound
    BY <1>12, <2>1, <2>3, <1>f, <1>w DEF ConflictRepaired, Goto, TypeOK, WorkOf
  <2> QED
    BY <2>2, <2>3
<1>13. CASE CleanupTaskArtifacts(t)
  BY <1>13, <1>f, <1>w DEF CleanupTaskArtifacts, Goto, TypeOK, WorkOf
<1> QED
  BY <1>1, <1>2, <1>3, <1>4, <1>5, <1>6, <1>7, <1>8, <1>9, <1>10, <1>11,
     <1>12, <1>13, <1>f DEF Step

LEMMA NextWork == TypeOK /\ WorkInv /\ [Next]_vars => WorkInv'
<1> SUFFICES ASSUME TypeOK, WorkInv, [Next]_vars, NEW t \in Tasks
             PROVE  WorkOf(t)'
  BY DEF WorkInv
<1>w. WorkOf(t) /\ t \in Finalizers /\ t \notin Releases
  BY FinalizationAssumption DEF WorkInv, Finalizers
<1>g. \A b \in Branches : branches[b] \subseteq branches'[b]
  BY BranchesGrow
<1>1. ASSUME NEW u \in Tasks, StartTask(u) PROVE WorkOf(t)'
  <2>1. CASE u = t
    BY <1>1, <2>1, <1>w DEF StartTask, Goto, TypeOK, WorkOf
  <2>2. CASE u # t
    <3>1. /\ pc'[t] = pc[t] /\ tree'[t] = tree[t]
          /\ branch'[t] = branch[t] /\ res'[t] = res[t]
      BY <1>1, <2>2, <1>w DEF StartTask, Goto, TypeOK
    <3> QED
      BY <3>1, <1>w, <1>g, WorkUntouched
  <2> QED
    BY <2>1, <2>2
<1>2. ASSUME NEW r \in Releases, StartRelease(r) PROVE WorkOf(t)'
  BY <1>2, <1>w, <1>g, WorkUntouched DEF StartRelease, Goto, TypeOK
<1>3. ASSUME NEW f \in Finalizers, Step(f) PROVE WorkOf(t)'
  BY <1>3, <1>w, <1>g, StepLocal, StepWork, WorkUntouched
<1>4. ASSUME NEW p \in Procs, Crash(p) PROVE WorkOf(t)'
  BY <1>4, <1>w DEF Crash, TypeOK, WorkOf
<1>5. CASE ExternalPush \/ StartCheck \/ EnsureBranchFromBase \/ UNCHANGED vars
  BY <1>5, <1>w DEF ExternalPush, StartCheck, EnsureBranchFromBase, vars, WorkOf
<1> QED
  BY <1>1, <1>2, <1>3, <1>4, <1>5 DEF Next

THEOREM WorkIsTracked == Spec => []WorkInv
<1>1. Init => WorkInv
  BY DEF Init, WorkInv, WorkOf, Finalizers
<1> QED
  BY <1>1, TypeCorrect, NextWork, PTL DEF Spec

\* Whatever fails, and wherever a process dies, the change of an accepted task
\* stays in its worktree, on its branch or in a branch it was merged into.
THEOREM NothingIsLost == Spec => WorkIsNeverLost
<1>1. TypeOK /\ WorkInv /\ [Next]_vars
      => [\A t \in Tasks : Reachable(t) => Reachable(t)']_vars
  <2> SUFFICES ASSUME TypeOK, WorkInv, Next, NEW t \in Tasks, Reachable(t)
               PROVE  Reachable(t)'
    OBVIOUS
  <2>w. WorkOf(t) /\ t \in Finalizers /\ t \notin Releases
    BY FinalizationAssumption DEF WorkInv, Finalizers
  <2>g. \A b \in Branches : branches[b] \subseteq branches'[b]
    BY BranchesGrow
  <2>1. ASSUME NEW u \in Tasks, StartTask(u) PROVE Reachable(t)'
    BY <2>1, <2>w, <2>g DEF StartTask, Goto, TypeOK, WorkOf, Reachable
  <2>2. ASSUME NEW f \in Finalizers, Step(f), f # t PROVE Reachable(t)'
    BY <2>2, <2>g, StepLocal DEF Reachable
  <2>3. CASE Step(t)
    <3>1. CASE CleanupTaskArtifacts(t)
      <4>1. CASE Mode = "none" \/ res[t].step # NoStep
        BY <3>1, <4>1, <2>g DEF CleanupTaskArtifacts, PreserveWorktree,
           PreserveBranch, TypeOK, Reachable
      <4>2. CASE Mode # "none" /\ res[t].step = NoStep /\ res[t].merged
        BY <4>2, <2>g, <2>w DEF WorkOf, Reachable
      <4>3. CASE Mode # "none" /\ res[t].step = NoStep /\ ~res[t].merged
        <5>1. t \in branch[t] /\ res[t].commit
          BY <3>1, <4>3, <2>w DEF CleanupTaskArtifacts, WorkOf
        <5> QED
          BY <3>1, <4>3, <5>1 DEF CleanupTaskArtifacts, PreserveBranch, TypeOK, Reachable
      <4> QED
        BY <4>1, <4>2, <4>3
    <3>2. CASE CommitWorktreeChanges(t)
      BY <3>2, <2>w, <2>g DEF CommitWorktreeChanges, TypeOK, WorkOf, Reachable
    <3>3. CASE RebaseWorktreeOnto(t)
      <4>1. t \in branch[t]
        BY <3>3, <2>w DEF RebaseWorktreeOnto, WorkOf
      <4>2. t \in branch'[t]
        BY <3>3, <4>1 DEF RebaseWorktreeOnto, TypeOK
      <4> QED
        BY <4>2 DEF Reachable
    <3>4. CASE ConflictRepaired(t)
      <4>1. t \in branch[t]
        BY <3>4, <2>w DEF ConflictRepaired, Repairable, WorkOf
      <4>2. t \in branch'[t]
        BY <3>4, <4>1 DEF ConflictRepaired, TypeOK
      <4> QED
        BY <4>2 DEF Reachable
    <3>5. CASE UNCHANGED <<tree, branch>>
      BY <3>5, <2>g DEF Reachable
    <3> QED
      BY <2>3, <2>w, <3>1, <3>2, <3>3, <3>4, <3>5 DEF Step, EnterLock, LockHeld,
         EnsureBaseBranch, MergeBegin, MergeEnd, GitFails, ExitLock, PushBranch,
         ConflictStays
  <2>4. CASE UNCHANGED <<tree, branch>>
    BY <2>4, <2>g DEF Reachable
  <2> QED
    BY <2>1, <2>2, <2>3, <2>4 DEF Next, StartRelease, Crash, ExternalPush,
       StartCheck, EnsureBranchFromBase
<1> QED
  BY <1>1, TypeCorrect, WorkIsTracked, PTL DEF Spec, WorkIsNeverLost

-----------------------------------------------------------------------------
(***************************************************************************)
(* A merge goes where it is meant to, and the result tells it.             *)
(***************************************************************************)

\* Until another run-release switched it, the checkout is on the branch that the
\* owner of the lock is about to merge into.
HeadInv ==
  starter # "done" =>
    \A f \in Finalizers : pc[f] \in {"rebase", "merge", "merging"} => head = Target(f)

LEMMA StepHead ==
  ASSUME TypeOK, LockInv, HeadInv, NEW f \in Finalizers, Step(f) PROVE HeadInv'
<1> SUFFICES ASSUME starter' # "done", NEW g \in Finalizers,
                    pc'[g] \in {"rebase", "merge", "merging"}
             PROVE  head' = Target(g)
  BY DEF HeadInv, Target
<1>1. CASE EnsureBaseBranch(f)
  <2>1. CASE g = f
    BY <1>1, <2>1 DEF EnsureBaseBranch, SwitchTo, Raise, Goto, TypeOK
  <2>2. CASE g # f
    <3>1. pc[g] = pc'[g]
      BY <1>1, <2>2 DEF EnsureBaseBranch, Raise, Goto, TypeOK
    <3> QED
      BY <1>1, <2>2, <3>1 DEF EnsureBaseBranch, LockInv
  <2> QED
    BY <2>1, <2>2
<1>2. CASE head' = head /\ starter' = starter /\ pc[g] \in {"rebase", "merge", "merging"}
  BY <1>2 DEF HeadInv
<1>3. CASE EnterLock(f) \/ LockHeld(f) \/ MergeBegin(f) \/ MergeEnd(f) \/ GitFails(f)
  BY <1>2, <1>3 DEF EnterLock, LockHeld, AfterFailure, MergeBegin, MergeEnd, GitFails, Raise,
     Goto, TypeOK
<1>4. CASE ExitLock(f) \/ FinishRelease(f) \/ CommitWorktreeChanges(f) \/ PushBranch(f)
  BY <1>2, <1>4 DEF ExitLock, AfterFailure, FinishRelease, CommitWorktreeChanges, PushBranch,
     Raise, Goto, TypeOK
<1>5. CASE RebaseWorktreeOnto(f)
  <2>1. head' = head /\ starter' = starter /\ pc[f] = "rebase"
    BY <1>5 DEF RebaseWorktreeOnto
  <2>2. g # f => pc'[g] = pc[g]
    BY <1>5 DEF RebaseWorktreeOnto, Raise, Goto, TypeOK
  <2> QED
    BY <1>2, <2>1, <2>2
<1>6. CASE ConflictStays(f) \/ ConflictRepaired(f) \/ CleanupTaskArtifacts(f)
  BY <1>2, <1>6 DEF ConflictStays, ConflictRepaired, CleanupTaskArtifacts, Goto, TypeOK
<1> QED
  BY <1>1, <1>3, <1>4, <1>5, <1>6 DEF Step

LEMMA NextHead == TypeOK /\ LockInv /\ HeadInv /\ [Next]_vars => HeadInv'
<1> SUFFICES ASSUME TypeOK, LockInv, HeadInv, [Next]_vars PROVE HeadInv'
  OBVIOUS
<1> USE DEF HeadInv, Target
<1>1. ASSUME NEW t \in Tasks, StartTask(t) PROVE HeadInv'
  BY <1>1 DEF StartTask, Goto, TypeOK
<1>2. ASSUME NEW r \in Releases, StartRelease(r) PROVE HeadInv'
  BY <1>2 DEF StartRelease, Goto, TypeOK
<1>3. ASSUME NEW f \in Finalizers, Step(f) PROVE HeadInv'
  BY <1>3, StepHead
<1>4. ASSUME NEW p \in Procs, Crash(p) PROVE HeadInv'
  BY <1>4 DEF Crash, TypeOK
<1>5. CASE ExternalPush \/ StartCheck \/ EnsureBranchFromBase \/ UNCHANGED vars
  BY <1>5 DEF ExternalPush, StartCheck, EnsureBranchFromBase, vars
<1> QED
  BY <1>1, <1>2, <1>3, <1>4, <1>5 DEF Next

LEMMA HeadIsTarget == Spec => []HeadInv
<1>1. Init => HeadInv
  BY DEF Init, HeadInv
<1> QED
  BY <1>1, TypeCorrect, LockSafe, NextHead, PTL DEF Spec

\* Only the switch of another run-release can send a merge to another branch:
\* for any threads, processes, failures and kills it lands where it was meant to.
THEOREM MergesLandAsMeant == Spec => MergesOnlyIntoTarget
<1>1. TypeOK /\ LockInv /\ HeadInv /\ [Next]_vars
      => [\A f \in Finalizers, b \in Branches :
            pc[f] = "merging" /\ starter # "done" /\ b # Target(f) =>
              branches'[b] = branches[b]]_vars
  <2> SUFFICES ASSUME TypeOK, LockInv, HeadInv, Next,
                      NEW f \in Finalizers, NEW b \in Branches,
                      pc[f] = "merging", starter # "done", b # Target(f)
               PROVE  branches'[b] = branches[b]
    OBVIOUS
  <2>1. ASSUME NEW g \in Finalizers, MergeEnd(g) PROVE branches'[b] = branches[b]
    <3>1. g = f
      BY <2>1 DEF MergeEnd, LockInv
    <3>2. head # b
      BY <3>1 DEF HeadInv
    <3> QED
      BY <2>1, <3>2 DEF MergeEnd, TypeOK
  <2>2. ASSUME NEW g \in Finalizers, Step(g), ~MergeEnd(g) PROVE branches' = branches
    BY <2>2 DEF Step, EnterLock, LockHeld, EnsureBaseBranch, MergeBegin, GitFails, ExitLock,
       FinishRelease, CommitWorktreeChanges, RebaseWorktreeOnto, PushBranch, ConflictStays,
       ConflictRepaired, CleanupTaskArtifacts
  <2> QED
    BY <2>1, <2>2 DEF Next, StartTask, StartRelease, Crash, ExternalPush, StartCheck,
       EnsureBranchFromBase
<1> QED
  BY <1>1, TypeCorrect, LockSafe, HeadIsTarget, PTL DEF Spec, MergesOnlyIntoTarget

\* What says that the change of t may have been merged: where the task is, and
\* at which step it failed.
MayBeMerged(t) ==
  \/ pc[t] \in {"push", "raised", "crashed"}
  \/ pc[t] \in {"exit", "repair", "cleanup", "done"} /\ res[t].step \in {NoStep, "git"}

\* Otherwise nobody but t has the change; and no failure is on record before it
\* ends the block.
ApartOf(t) ==
  /\ pc[t] \in Holding \ {"exit"} => res[t].step = NoStep
  /\ pc[t] = "repair" => res[t].step # NoStep
  /\ ~MayBeMerged(t) => /\ \A b \in Branches : t \notin branches[b]
                        /\ t \notin origin
                        /\ \A u \in Tasks : t \notin onto[u] /\ (u # t => t \notin branch[u])

ApartInv == \A t \in Tasks : ApartOf(t)

\* A step of another finalizer hands on only what it has.
LEMMA ApartOther ==
  ASSUME TypeOK, NEW t \in Tasks, ApartOf(t), NEW f \in Finalizers, f # t, Step(f)
  PROVE  ApartOf(t)'
<1>t. t \in Finalizers /\ t \notin Releases
  BY FinalizationAssumption DEF Finalizers
<1>1. pc'[t] = pc[t] /\ res'[t] = res[t] /\ branch'[t] = branch[t]
  BY StepLocal
<1> SUFFICES ASSUME ~MayBeMerged(t)
             PROVE  /\ \A b \in Branches : t \notin branches'[b]
                    /\ t \notin origin'
                    /\ \A u \in Tasks : t \notin onto'[u] /\ (u # t => t \notin branch'[u])
  BY <1>1 DEF ApartOf, MayBeMerged
<1>a. /\ \A b \in Branches : t \notin branches[b]
      /\ t \notin origin
      /\ \A u \in Tasks : t \notin onto[u] /\ (u # t => t \notin branch[u])
  BY DEF ApartOf
<1>2. CASE MergeEnd(f)
  <2>1. t \notin Payload(f)
    BY <1>a DEF Payload, Branches, Finalizers
  <2> QED
    BY <1>2, <1>a, <2>1 DEF MergeEnd, TypeOK
<1>3. CASE CommitWorktreeChanges(f)
  BY <1>3, <1>a DEF CommitWorktreeChanges, TypeOK
<1>4. CASE RebaseWorktreeOnto(f)
  <2>1. PICK up \in Upstreams : RebaseWorktreeOnto(f)!2!(up)
    BY <1>4 DEF RebaseWorktreeOnto
  <2>2. t \notin up
    BY <2>1, <1>a DEF Upstreams, Branches
  <2> QED
    BY <1>4, <1>a, <2>1, <2>2 DEF RebaseWorktreeOnto, TypeOK
<1>5. CASE PushBranch(f)
  BY <1>5, <1>a DEF PushBranch, Branches
<1>6. CASE ConflictRepaired(f)
  BY <1>6, <1>a DEF ConflictRepaired, TypeOK
<1>7. CASE CleanupTaskArtifacts(f)
  BY <1>7, <1>a DEF CleanupTaskArtifacts, TypeOK
<1>8. CASE UNCHANGED <<branches, origin, onto, branch>>
  BY <1>8, <1>a
<1> QED
  BY <1>2, <1>3, <1>4, <1>5, <1>6, <1>7, <1>8 DEF Step, EnterLock, LockHeld, EnsureBaseBranch,
     MergeBegin, GitFails, ExitLock, FinishRelease, ConflictStays

\* A step of t itself: its change leaves the worktree and its branch only by the
\* merge, after which it is at a place that says so.
LEMMA ApartOwn ==
  ASSUME TypeOK, NEW t \in Tasks, ApartOf(t), Step(t)
  PROVE  ApartOf(t)'
<1>t. t \in Finalizers /\ t \notin Releases
  BY FinalizationAssumption DEF Finalizers
<1> USE DEF ApartOf, MayBeMerged, TypeOK
<1>1. CASE EnterLock(t)
  BY <1>1, <1>t DEF EnterLock, Goto
<1>2. CASE LockHeld(t)
  BY <1>2, <1>t DEF LockHeld, AfterFailure, FailedFinalizeResult, Goto
<1>3. CASE EnsureBaseBranch(t)
  BY <1>3, <1>t DEF EnsureBaseBranch, Raise, Goto
<1>4. CASE MergeBegin(t)
  BY <1>4, <1>t DEF MergeBegin, Raise, Goto
<1>5. CASE MergeEnd(t)
  <2>1. CASE Clash(Payload(t), branches[head])
    BY <1>5, <2>1, <1>t DEF MergeEnd, Raise
  <2>2. CASE ~Clash(Payload(t), branches[head])
    <3>1. pc'[t] \in {"push", "exit"} /\ res'[t].step = NoStep
      BY <1>5, <2>2, <1>t DEF MergeEnd, Goto
    <3> QED
      BY <3>1
  <2> QED
    BY <2>1, <2>2
<1>6. CASE GitFails(t)
  BY <1>6, <1>t DEF GitFails, StepOf, Raise
<1>7. CASE ExitLock(t)
  <2>1. CASE res[t].step = NoStep
    BY <1>7, <2>1, <1>t DEF ExitLock, Goto
  <2>2. CASE res[t].step # NoStep
    BY <1>7, <2>2, <1>t DEF ExitLock, AfterFailure, FailedFinalizeResult, Goto
  <2> QED
    BY <2>1, <2>2
<1>8. CASE CommitWorktreeChanges(t)
  BY <1>8, <1>t DEF CommitWorktreeChanges, Goto
<1>9. CASE RebaseWorktreeOnto(t)
  <2>1. PICK up \in Upstreams : RebaseWorktreeOnto(t)!2!(up)
    BY <1>9 DEF RebaseWorktreeOnto
  <2>2. ~MayBeMerged(t)
    BY <1>9 DEF RebaseWorktreeOnto
  <2>3. t \notin up
    BY <2>1, <2>2 DEF Upstreams, Branches
  <2>4. \A u \in Tasks : t \notin onto'[u] /\ (u # t => t \notin branch'[u])
    BY <1>9, <2>1, <2>2, <2>3 DEF RebaseWorktreeOnto
  <2>5. pc'[t] \in {"exit", "merge"} /\ (pc'[t] = "merge" => res'[t] = res[t])
    BY <1>9, <1>t DEF RebaseWorktreeOnto, Raise, Goto
  <2> QED
    BY <1>9, <2>2, <2>4, <2>5 DEF RebaseWorktreeOnto
<1>10. CASE PushBranch(t)
  BY <1>10, <1>t DEF PushBranch, Raise, Goto
<1>11. CASE ConflictStays(t)
  BY <1>11, <1>t DEF ConflictStays, Goto
<1>12. CASE ConflictRepaired(t)
  <2>1. ~MayBeMerged(t)
    BY <1>12 DEF ConflictRepaired, Repairable
  <2>2. pc'[t] \in {"accepted", "raised"}
    BY <1>12, <1>t DEF ConflictRepaired, Goto
  <2>3. \A u \in Tasks : u # t => branch'[u] = branch[u]
    BY <1>12 DEF ConflictRepaired
  <2> QED
    BY <1>12, <2>1, <2>2, <2>3 DEF ConflictRepaired
<1>13. CASE CleanupTaskArtifacts(t)
  BY <1>13, <1>t DEF CleanupTaskArtifacts, Goto
<1> QED
  BY <1>1, <1>2, <1>3, <1>4, <1>5, <1>6, <1>7, <1>8, <1>9, <1>10, <1>11, <1>12, <1>13, <1>t
     DEF Step

LEMMA NextApart == TypeOK /\ ApartInv /\ [Next]_vars => ApartInv'
<1> SUFFICES ASSUME TypeOK, [Next]_vars, NEW t \in Tasks, ApartOf(t) PROVE ApartOf(t)'
  BY DEF ApartInv
<1>t. t \in Finalizers /\ t \notin Releases
  BY FinalizationAssumption DEF Finalizers
<1> USE DEF ApartOf, MayBeMerged, TypeOK
<1>1. ASSUME NEW u \in Tasks, StartTask(u) PROVE ApartOf(t)'
  BY <1>1, <1>t DEF StartTask, Goto, Branches
<1>2. ASSUME NEW r \in Releases, StartRelease(r) PROVE ApartOf(t)'
  BY <1>2, <1>t DEF StartRelease, Goto
<1>3. ASSUME NEW f \in Finalizers, Step(f) PROVE ApartOf(t)'
  BY <1>3, ApartOwn, ApartOther
<1>4. ASSUME NEW p \in Procs, Crash(p) PROVE ApartOf(t)'
  BY <1>4, <1>t DEF Crash
<1>5. CASE ExternalPush
  <2>1. t # External
    BY FinalizationAssumption
  <2> QED
    BY <1>5, <2>1 DEF ExternalPush
<1>6. CASE StartCheck \/ EnsureBranchFromBase \/ UNCHANGED vars
  BY <1>6 DEF StartCheck, EnsureBranchFromBase, vars
<1> QED
  BY <1>1, <1>2, <1>3, <1>4, <1>5, <1>6 DEF Next

\* As long as the checkout was not switched, a result that says merged or pushed
\* is borne out.
ToldOf(t) ==
  starter # "done" => /\ res[t].merged => t \in branches[Integration]
                      /\ res[t].pushed => t \in origin

ToldInv == \A t \in Tasks : ToldOf(t)

LEMMA StepTold ==
  ASSUME TypeOK, WorkInv, HeadInv, NEW t \in Tasks, ToldOf(t), NEW f \in Finalizers, Step(f)
  PROVE  ToldOf(t)'
<1>t. t \in Finalizers /\ WorkOf(t)
  BY DEF Finalizers, WorkInv
<1>g. branches[Integration] \subseteq branches'[Integration]
  BY BranchesGrow DEF Next, Branches
<1>1. CASE MergeEnd(f)
  <2>1. CASE f = t /\ ~Clash(Payload(f), branches[head]) /\ starter # "done"
    <3>1. head = Integration
      BY <1>1, <1>t, <2>1 DEF MergeEnd, HeadInv, Target
    <3>2. t \in Payload(f)
      BY <1>1, <1>t, <2>1 DEF MergeEnd, WorkOf, Payload
    <3>3. t \in branches'[Integration]
      BY <1>1, <2>1, <3>1, <3>2 DEF MergeEnd, TypeOK
    <3>4. res'[t].pushed = res[t].pushed /\ UNCHANGED <<origin, starter>>
      BY <1>1, <1>t, <2>1 DEF MergeEnd, TypeOK
    <3> QED
      BY <3>3, <3>4 DEF ToldOf
  <2>2. CASE f # t \/ Clash(Payload(f), branches[head])
    <3>1. res'[t].merged = res[t].merged /\ res'[t].pushed = res[t].pushed
      BY <1>1, <1>t, <2>2 DEF MergeEnd, Raise, TypeOK
    <3> QED
      BY <1>1, <1>g, <3>1 DEF MergeEnd, ToldOf
  <2>3. CASE starter = "done"
    BY <1>1, <2>3 DEF MergeEnd, ToldOf
  <2> QED
    BY <2>1, <2>2, <2>3
<1>2. CASE PushBranch(f)
  <2>1. CASE f = t /\ HasRemote /\ origin \subseteq branches[Integration]
    <3>1. res[t].merged
      BY <1>2, <1>t, <2>1 DEF PushBranch, WorkOf
    <3>2. res'[t].merged /\ origin' = branches[Integration] /\ UNCHANGED <<branches, starter>>
      BY <1>2, <1>t, <2>1, <3>1 DEF PushBranch, TypeOK
    <3> QED
      BY <3>1, <3>2 DEF ToldOf
  <2>2. CASE f # t \/ ~(HasRemote /\ origin \subseteq branches[Integration])
    <3>1. res'[t].merged = res[t].merged /\ res'[t].pushed = res[t].pushed
      BY <1>2, <1>t, <2>2 DEF PushBranch, Raise, TypeOK
    <3>2. origin \subseteq origin' /\ UNCHANGED <<branches, starter>>
      BY <1>2 DEF PushBranch
    <3> QED
      BY <3>1, <3>2 DEF ToldOf
  <2> QED
    BY <2>1, <2>2
<1>3. CASE /\ UNCHANGED <<branches, origin, starter>>
           /\ res'[t].merged => res[t].merged
           /\ res'[t].pushed => res[t].pushed
  BY <1>3 DEF ToldOf
<1>4. CASE EnterLock(f) \/ LockHeld(f) \/ ExitLock(f)
  <2>1. UNCHANGED <<branches, origin, starter>>
    BY <1>4 DEF EnterLock, LockHeld, ExitLock
  <2>2. res'[t] = res[t] \/ (~res'[t].merged /\ ~res'[t].pushed)
    BY <1>4, <1>t DEF EnterLock, LockHeld, ExitLock, FailedFinalizeResult, TypeOK
  <2> QED
    BY <1>3, <2>1, <2>2
<1>5. CASE EnsureBaseBranch(f) \/ MergeBegin(f) \/ GitFails(f) \/ FinishRelease(f)
           \/ CommitWorktreeChanges(f)
  BY <1>3, <1>5, <1>t DEF EnsureBaseBranch, MergeBegin, GitFails, FinishRelease,
     CommitWorktreeChanges, Raise, TypeOK
<1>6. CASE RebaseWorktreeOnto(f)
  <2>1. res'[t].merged = res[t].merged /\ res'[t].pushed = res[t].pushed
    BY <1>6, <1>t DEF RebaseWorktreeOnto, Raise, TypeOK
  <2> QED
    BY <1>3, <1>6, <2>1 DEF RebaseWorktreeOnto
<1>7. CASE ConflictStays(f) \/ ConflictRepaired(f) \/ CleanupTaskArtifacts(f)
  BY <1>3, <1>7 DEF ConflictStays, ConflictRepaired, CleanupTaskArtifacts
<1> QED
  BY <1>1, <1>2, <1>4, <1>5, <1>6, <1>7 DEF Step

LEMMA NextTold == TypeOK /\ WorkInv /\ HeadInv /\ ToldInv /\ [Next]_vars => ToldInv'
<1> SUFFICES ASSUME TypeOK, WorkInv, HeadInv, [Next]_vars, NEW t \in Tasks, ToldOf(t)
             PROVE  ToldOf(t)'
  BY DEF ToldInv
<1>1. ASSUME NEW f \in Finalizers, Step(f) PROVE ToldOf(t)'
  BY <1>1, StepTold
<1>2. CASE /\ UNCHANGED <<branches, res>> /\ origin \subseteq origin'
           /\ starter' # "done" => starter # "done"
  BY <1>2 DEF ToldOf
<1> QED
  BY <1>1, <1>2 DEF Next, vars, StartTask, StartRelease, Crash, ExternalPush, StartCheck,
     EnsureBranchFromBase

\* For any tasks, processes, conflicts, failures and kills, on the first call or
\* on the second: what a finished task reports of the integration branch and of
\* the remote is so, as long as no other run-release switched the checkout.
THEOREM ReportsAreTrue == Spec => []ReportIsTrue
<1>1. Init => ApartInv /\ ToldInv
  BY FinalizationAssumption DEF Init, ApartInv, ApartOf, MayBeMerged, ToldInv, ToldOf, Finalizers,
     Branches
<1>2. ApartInv /\ ToldInv => ReportIsTrue
  BY DEF ApartInv, ApartOf, MayBeMerged, ToldInv, ToldOf, ReportIsTrue, Branches
<1> QED
  BY <1>1, <1>2, TypeCorrect, WorkIsTracked, HeadIsTarget, NextApart, NextTold, PTL DEF Spec

-----------------------------------------------------------------------------
(***************************************************************************)
(* What a killed merge leaves in the checkout stays there.                 *)
(***************************************************************************)

\* Git is at the checkout as long as somebody merges.
MergingInv == \A f \in Finalizers : pc[f] = "merging" => checkout = "merging"

LEMMA NextMerging == TypeOK /\ LockInv /\ MergingInv /\ [Next]_vars => MergingInv'
<1> SUFFICES ASSUME TypeOK, LockInv, MergingInv, [Next]_vars, NEW g \in Finalizers,
                    pc'[g] = "merging"
             PROVE  checkout' = "merging"
  BY DEF MergingInv
<1>1. CASE pc[g] = "merging" /\ UNCHANGED checkout
  BY <1>1 DEF MergingInv
<1>2. ASSUME NEW f \in Finalizers, MergeBegin(f) PROVE checkout' = "merging"
  BY <1>1, <1>2 DEF MergeBegin, Raise, Goto, TypeOK
<1>3. ASSUME NEW f \in Finalizers, MergeEnd(f) PROVE checkout' = "merging"
  <2>1. pc'[f] # "merging"
    BY <1>3 DEF MergeEnd, Raise, Goto, TypeOK
  <2>2. f # g /\ pc[g] = "merging" /\ pc[f] = "merging"
    BY <1>3, <2>1 DEF MergeEnd, Raise, Goto, TypeOK
  <2> QED
    BY <2>2 DEF LockInv
<1>4. ASSUME NEW f \in Finalizers, Step(f), ~MergeBegin(f), ~MergeEnd(f)
      PROVE  checkout' = "merging"
  <2>1. UNCHANGED checkout
    BY <1>4 DEF Step, EnterLock, LockHeld, EnsureBaseBranch, GitFails, ExitLock, FinishRelease,
       CommitWorktreeChanges, RebaseWorktreeOnto, PushBranch, ConflictStays, ConflictRepaired,
       CleanupTaskArtifacts
  <2>2. CASE RebaseWorktreeOnto(f)
    BY <1>1, <2>1, <2>2 DEF RebaseWorktreeOnto, Raise, Goto, TypeOK
  <2>3. CASE ~RebaseWorktreeOnto(f)
    BY <1>1, <1>4, <2>1, <2>3 DEF Step, EnterLock, LockHeld, AfterFailure, EnsureBaseBranch,
       GitFails, ExitLock, FinishRelease, CommitWorktreeChanges, PushBranch, ConflictStays,
       ConflictRepaired, CleanupTaskArtifacts, Raise, Goto, TypeOK
  <2> QED
    BY <2>2, <2>3
<1>5. ASSUME NEW p \in Procs, Crash(p) PROVE checkout' = "merging"
  <2>1. pc[g] = "merging" /\ ProcOf[g] # p
    BY <1>5 DEF Crash
  <2>2. \A f \in Finalizers : pc[f] = "merging" => f = g
    BY <2>1 DEF LockInv
  <2> QED
    BY <1>1, <1>5, <2>1, <2>2 DEF Crash
<1>6. ASSUME NEW t \in Tasks, StartTask(t) PROVE checkout' = "merging"
  BY <1>1, <1>6 DEF StartTask, Goto, TypeOK
<1>7. ASSUME NEW r \in Releases, StartRelease(r) PROVE checkout' = "merging"
  BY <1>1, <1>7 DEF StartRelease, Goto, TypeOK
<1>8. CASE ExternalPush \/ StartCheck \/ EnsureBranchFromBase \/ UNCHANGED vars
  BY <1>1, <1>8 DEF ExternalPush, StartCheck, EnsureBranchFromBase, vars
<1> QED
  BY <1>2, <1>3, <1>4, <1>5, <1>6, <1>7, <1>8 DEF Next

\* A main checkout with a conflict or a killed merge in it is left as it is by
\* every thread and process, the switch without the lock included.
THEOREM DirtyCheckoutStays == Spec => DirtyCheckoutIsLeftAlone
<1>1. Init => MergingInv
  BY DEF Init, MergingInv
<1>2. MergingInv /\ [Next]_vars
      => [checkout = "dirty" => UNCHANGED <<checkout, head, branches>>]_vars
  <2> SUFFICES ASSUME MergingInv, Next, checkout = "dirty"
               PROVE  UNCHANGED <<checkout, head, branches>>
    OBVIOUS
  <2>1. \A f \in Finalizers : pc[f] # "merging"
    BY DEF MergingInv
  <2>2. ASSUME NEW f \in Finalizers, Step(f) PROVE UNCHANGED <<checkout, head, branches>>
    BY <2>1, <2>2 DEF Step, EnterLock, LockHeld, EnsureBaseBranch, EnsureClean, MergeBegin,
       MergeEnd, GitFails, ExitLock, FinishRelease, CommitWorktreeChanges, RebaseWorktreeOnto,
       PushBranch, ConflictStays, ConflictRepaired, CleanupTaskArtifacts
  <2> QED
    BY <2>1, <2>2 DEF Next, StartTask, StartRelease, Crash, ExternalPush, StartCheck,
       EnsureBranchFromBase, EnsureClean
<1> QED
  BY <1>1, <1>2, TypeCorrect, LockSafe, NextMerging, PTL DEF Spec, DirtyCheckoutIsLeftAlone

-----------------------------------------------------------------------------
(***************************************************************************)
(* Finalization implements MergeTurns.                                     *)
(***************************************************************************)

\* What is on a branch, or somebody else's.
Everything == {External} \cup branches[Integration] \cup branches[Main]

\* Nothing but the change of the task itself comes from elsewhere: neither the
\* remote, nor the upstream of a rebase that is to be continued, nor the task
\* branch has a change of another task that is on no branch yet.
SourcesInv ==
  /\ origin \subseteq Everything
  /\ \A t \in Tasks : onto[t] \subseteq Everything /\ branch[t] \subseteq {t} \cup Everything

LEMMA EverythingGrows ==
  ASSUME TypeOK, [Next]_vars PROVE Everything \subseteq Everything'
<1>1. branches[Integration] \subseteq branches'[Integration]
      /\ branches[Main] \subseteq branches'[Main]
  BY BranchesGrow DEF Branches
<1> QED
  BY <1>1 DEF Everything

LEMMA NextSources == TypeOK /\ SourcesInv /\ [Next]_vars => SourcesInv'
<1> SUFFICES ASSUME TypeOK, SourcesInv, [Next]_vars PROVE SourcesInv'
  OBVIOUS
<1>g. Everything \subseteq Everything'
  BY EverythingGrows
<1>1. ASSUME NEW t \in Tasks, StartTask(t) PROVE SourcesInv'
  <2>1. branch' \in {branch, [branch EXCEPT ![t] = branches[Integration]]}
        /\ UNCHANGED <<origin, onto>>
    BY <1>1 DEF StartTask
  <2>2. branches[Integration] \subseteq Everything
    BY DEF Everything
  <2> QED
    BY <1>g, <2>1, <2>2 DEF SourcesInv, TypeOK
<1>2. ASSUME NEW t \in Tasks, CommitWorktreeChanges(t) PROVE SourcesInv'
  <2>1. branch' \in {branch, [branch EXCEPT ![t] = @ \cup {t}]} /\ UNCHANGED <<origin, onto>>
    BY <1>2 DEF CommitWorktreeChanges
  <2> QED
    BY <1>g, <2>1 DEF SourcesInv, TypeOK
<1>3. ASSUME NEW t \in Tasks, RebaseWorktreeOnto(t) PROVE SourcesInv'
  <2>1. PICK up \in Upstreams :
          /\ onto' = [onto EXCEPT ![t] = up]
          /\ branch' \in {branch, [branch EXCEPT ![t] = @ \cup up]}
          /\ UNCHANGED origin
    BY <1>3 DEF RebaseWorktreeOnto
  <2>2. up \subseteq Everything
    BY DEF Upstreams, SourcesInv, Everything
  <2> QED
    BY <1>g, <2>1, <2>2 DEF SourcesInv, TypeOK
<1>4. ASSUME NEW t \in Tasks, PushBranch(t) PROVE SourcesInv'
  <2>1. origin' \in {origin, branches[Integration]} /\ UNCHANGED <<branch, onto>>
    BY <1>4 DEF PushBranch
  <2>2. branches[Integration] \subseteq Everything
    BY DEF Everything
  <2> QED
    BY <1>g, <2>1, <2>2 DEF SourcesInv
<1>5. ASSUME NEW t \in Tasks, ConflictRepaired(t) PROVE SourcesInv'
  <2>1. branch' \in {branch, [branch EXCEPT ![t] = @ \cup onto[t]]} /\ UNCHANGED <<origin, onto>>
    BY <1>5 DEF ConflictRepaired
  <2> QED
    BY <1>g, <2>1 DEF SourcesInv, TypeOK
<1>6. ASSUME NEW t \in Tasks, CleanupTaskArtifacts(t) PROVE SourcesInv'
  <2>1. branch' = [branch EXCEPT ![t] = IF PreserveBranch(t) THEN @ ELSE {}]
        /\ UNCHANGED <<origin, onto>>
    BY <1>6 DEF CleanupTaskArtifacts
  <2> QED
    BY <1>g, <2>1 DEF SourcesInv, TypeOK
<1>7. CASE ExternalPush
  <2>1. origin' = origin \cup {External} /\ UNCHANGED <<branch, onto, branches>>
    BY <1>7 DEF ExternalPush
  <2> QED
    BY <2>1 DEF SourcesInv, Everything
<1>8. ASSUME UNCHANGED <<origin, onto, branch>> PROVE SourcesInv'
  BY <1>g, <1>8 DEF SourcesInv
<1>9. ASSUME NEW f \in Finalizers, Step(f) PROVE SourcesInv'
  <2>1. CASE EnterLock(f) \/ LockHeld(f) \/ EnsureBaseBranch(f) \/ MergeBegin(f) \/ MergeEnd(f)
    BY <1>8, <2>1 DEF EnterLock, LockHeld, EnsureBaseBranch, MergeBegin, MergeEnd
  <2>2. CASE GitFails(f) \/ ExitLock(f) \/ FinishRelease(f) \/ ConflictStays(f)
    BY <1>8, <2>2 DEF GitFails, ExitLock, FinishRelease, ConflictStays
  <2> QED
    BY <1>2, <1>3, <1>4, <1>5, <1>6, <1>9, <2>1, <2>2 DEF Step
<1>10. ASSUME NEW r \in Releases, StartRelease(r) PROVE SourcesInv'
  BY <1>8, <1>10 DEF StartRelease
<1>11. ASSUME NEW p \in Procs, Crash(p) PROVE SourcesInv'
  BY <1>8, <1>11 DEF Crash
<1>12. CASE StartCheck \/ EnsureBranchFromBase \/ UNCHANGED vars
  BY <1>8, <1>12 DEF StartCheck, EnsureBranchFromBase, vars
<1> QED
  BY <1>1, <1>7, <1>9, <1>10, <1>11, <1>12 DEF Next

LEMMA SourcesArePublished == Spec => []SourcesInv
<1>1. Init => SourcesInv
  BY DEF Init, SourcesInv
<1> QED
  BY <1>1, TypeCorrect, NextSources, PTL DEF Spec

LEMMA PublishedIs == TypeOK => Turns!Published = Everything
BY DEF Turns!Published, Everything, Branches, TypeOK

\* A step that decides nothing about the turn of its finalizer.
LEMMA Undisturbed ==
  ASSUME TypeOK, NEW f \in Finalizers, NEW label \in PCs \ {"crashed"}, Goto(f, label),
         pc[f] # "crashed", pc[f] \in Undecided <=> label \in Undecided,
         UNCHANGED <<lock, starter, branches>>
  PROVE  UNCHANGED Turns!vars
<1>1. pc' = [pc EXCEPT ![f] = label] /\ pc \in [Finalizers -> PCs]
  BY DEF Goto, TypeOK
<1>2. Killed' = Killed
  BY <1>1 DEF Killed
<1>3. CASE lock = Nobody
  BY <1>2, <1>3 DEF TurnUse, Turns!vars
<1>4. CASE lock # Nobody
  <2>1. lock \in Finalizers
    BY <1>4 DEF TypeOK
  <2>2. pc'[lock] \in Undecided <=> pc[lock] \in Undecided
    BY <1>1, <2>1
  <2> QED
    BY <1>2, <2>2 DEF TurnUse, Turns!vars
<1> QED
  BY <1>3, <1>4

\* The owner leaves the steps before its merge for those behind it.
LEMMA Spends ==
  ASSUME TypeOK, LockInv, NEW f \in Finalizers, NEW label \in {"push", "exit"}, Goto(f, label),
         pc[f] \in Undecided, lock' = lock
  PROVE  lock = f /\ TurnUse = "open" /\ TurnUse' = "spent" /\ Killed' = Killed
<1>1. pc' = [pc EXCEPT ![f] = label] /\ pc \in [Finalizers -> PCs]
  BY DEF Goto, TypeOK
<1>2. lock = f
  BY DEF LockInv, Undecided
<1>3. f # Nobody
  BY FinalizationAssumption
<1>4. Killed' = Killed
  BY <1>1 DEF Killed, Undecided
<1> QED
  BY <1>1, <1>2, <1>3, <1>4 DEF TurnUse, Undecided

LEMMA Forgoes ==
  ASSUME TypeOK, LockInv, NEW f \in Finalizers, Goto(f, "exit"), pc[f] \in Undecided,
         UNCHANGED <<lock, starter, branches>>
  PROVE  Turns!Forgo
BY Spends DEF Turns!Forgo

LEMMA RaiseForgoes ==
  ASSUME TypeOK, LockInv, NEW f \in Finalizers, NEW step, Raise(f, step), pc[f] \in Undecided,
         UNCHANGED <<lock, starter, branches>>
  PROVE  Turns!Forgo
BY Forgoes DEF Raise, Goto

LEMMA EnterTakes ==
  ASSUME TypeOK, NEW f \in Finalizers, EnterLock(f) PROVE Turns!Take(f)
<1>1. \E label \in Undecided : pc' = [pc EXCEPT ![f] = label]
  BY DEF EnterLock, Goto, Undecided
<1>2. pc \in [Finalizers -> PCs] /\ pc[f] = "accepted"
  BY DEF TypeOK, EnterLock
<1>3. Killed' = Killed /\ f \notin Killed
  BY <1>1, <1>2 DEF Killed, Undecided
<1>4. TurnUse' = "open"
  BY <1>1, <1>2, FinalizationAssumption DEF TurnUse, EnterLock
<1> QED
  BY <1>3, <1>4 DEF Turns!Take, EnterLock, LockFree

LEMMA ExitGives ==
  ASSUME TypeOK, LockInv, NEW f \in Finalizers, ExitLock(f) PROVE Turns!Give
<1>1. \E label \in {"cleanup", "repair"} : pc' = [pc EXCEPT ![f] = label]
  BY DEF ExitLock, Goto, AfterFailure
<1>2. pc \in [Finalizers -> PCs] /\ pc[f] = "exit" /\ lock' = Nobody
  BY DEF TypeOK, ExitLock
<1>3. lock = f
  BY <1>2 DEF LockInv
<1>4. Killed' = Killed /\ lock \notin Killed
  BY <1>1, <1>2, <1>3 DEF Killed
<1>5. TurnUse = "spent" /\ TurnUse' = "none"
  BY <1>2, <1>3, FinalizationAssumption DEF TurnUse, Undecided
<1> QED
  BY <1>4, <1>5 DEF Turns!Give, ExitLock

\* What a finalizer merges: its own change and what was published, or the
\* integration branch; and, unless the checkout was switched, where it should.
LEMMA MergeBrings ==
  ASSUME TypeOK, WorkInv, SourcesInv, NEW f \in Finalizers, pc[f] = "merging"
  PROVE  Payload(f) \in Turns!Brought(f)
<1>1. CASE f \in Tasks
  <2>1. f \in branch[f]
    BY <1>1 DEF WorkInv, WorkOf
  <2>2. branch[f] \ {f} \in SUBSET Turns!Published
    BY <1>1, PublishedIs DEF SourcesInv
  <2>3. Payload(f) = {f} \union (branch[f] \ {f})
    BY <1>1, <2>1 DEF Payload
  <2> QED
    BY <1>1, <2>2, <2>3 DEF Turns!Brought
<1>2. CASE f \notin Tasks
  BY <1>2 DEF Payload, Turns!Brought
<1> QED
  BY <1>1, <1>2

LEMMA MergeTurnStep ==
  ASSUME TypeOK, LockInv, HeadInv, WorkInv, SourcesInv, NEW f \in Finalizers, MergeEnd(f)
  PROVE  Turns!Forgo \/ Turns!Merge(f, head)
<1>0. pc[f] = "merging" /\ UNCHANGED <<lock, starter>>
  BY DEF MergeEnd
<1>1. CASE Clash(Payload(f), branches[head])
  BY <1>0, <1>1, RaiseForgoes DEF MergeEnd, Undecided
<1>2. CASE ~Clash(Payload(f), branches[head])
  <2>1. PICK label \in {"push", "exit"} : Goto(f, label)
    BY <1>2 DEF MergeEnd
  <2>2. branches' = [branches EXCEPT ![head] = @ \union Payload(f)]
    BY <1>2 DEF MergeEnd
  <2>3. lock = f /\ TurnUse = "open" /\ TurnUse' = "spent" /\ Killed' = Killed
    BY <1>0, <2>1, Spends DEF Undecided
  <2>4. head = [g \in Finalizers |-> Target(g)][f] \/ starter = "done"
    BY <1>0 DEF HeadInv
  <2> QED
    BY <1>0, <2>2, <2>3, <2>4, MergeBrings DEF Turns!Merge
<1> QED
  BY <1>1, <1>2

\* A kill spends the turn, if the process had it, and leaves it where it is.
LEMMA CrashKills ==
  ASSUME TypeOK, LockInv, NEW p \in Procs, Crash(p)
  PROVE  \E F \in SUBSET Finalizers : Turns!Die(F)
<1> DEFINE F == { f \in Finalizers : ProcOf[f] = p /\ pc[f] \notin Settled }
<1>1. pc' = [f \in Finalizers |-> IF f \in F THEN "crashed" ELSE pc[f]]
  BY DEF Crash
<1>2. Killed' = Killed \union F
  BY <1>1 DEF Killed
<1>3. lock' = lock /\ UNCHANGED <<starter, branches>>
  BY DEF Crash
<1>4. TurnUse' = IF lock \in F THEN "spent" ELSE TurnUse
  <2>1. CASE lock = Nobody
    BY <1>3, <2>1, FinalizationAssumption DEF TurnUse
  <2>2. CASE lock # Nobody
    <3>1. lock \in Finalizers
      BY <2>2 DEF TypeOK
    <3>2. pc'[lock] = IF lock \in F THEN "crashed" ELSE pc[lock]
      BY <1>1, <3>1
    <3> QED
      BY <1>3, <2>2, <3>2 DEF TurnUse, Undecided
  <2> QED
    BY <2>1, <2>2
<1> QED
  BY <1>2, <1>3, <1>4 DEF Turns!Die

LEMMA StepTurn ==
  ASSUME TypeOK, LockInv, HeadInv, WorkInv, SourcesInv, NEW f \in Finalizers, Step(f)
  PROVE  Turns!Next \/ UNCHANGED Turns!vars
<1> USE DEF Undecided
<1>1. CASE EnterLock(f)
  BY <1>1, EnterTakes DEF Turns!Next, Turns!Finalizers, Finalizers
<1>2. CASE ExitLock(f)
  BY <1>2, ExitGives DEF Turns!Next
<1>3. CASE MergeEnd(f)
  <2>1. head \in Branches /\ f \in Turns!Finalizers
    BY DEF TypeOK, Turns!Finalizers, Finalizers
  <2> QED
    BY <1>3, <2>1, MergeTurnStep DEF Turns!Next
<1>4. CASE LockHeld(f)
  BY <1>4, Undisturbed DEF LockHeld, AfterFailure
<1>5. CASE EnsureBaseBranch(f)
  <2>1. CASE ~EnsureClean
    BY <1>5, <2>1, RaiseForgoes DEF EnsureBaseBranch, Turns!Next
  <2>2. CASE EnsureClean
    BY <1>5, <2>2, Undisturbed DEF EnsureBaseBranch
  <2> QED
    BY <2>1, <2>2
<1>6. CASE MergeBegin(f)
  <2>1. CASE ~EnsureClean
    BY <1>6, <2>1, RaiseForgoes DEF MergeBegin, Turns!Next
  <2>2. CASE EnsureClean
    BY <1>6, <2>2, Undisturbed DEF MergeBegin
  <2> QED
    BY <2>1, <2>2
<1>7. CASE GitFails(f)
  <2>1. CASE pc[f] = "push"
    BY <1>7, <2>1, Undisturbed DEF GitFails, Raise, Goto
  <2>2. CASE pc[f] # "push"
    BY <1>7, <2>2, RaiseForgoes DEF GitFails, Turns!Next
  <2> QED
    BY <2>1, <2>2
<1>8. CASE CommitWorktreeChanges(f)
  <2>1. CASE ShouldMerge
    BY <1>8, <2>1, Undisturbed DEF CommitWorktreeChanges
  <2>2. CASE ~ShouldMerge
    BY <1>8, <2>2, Forgoes DEF CommitWorktreeChanges, Turns!Next
  <2> QED
    BY <2>1, <2>2
<1>9. CASE RebaseWorktreeOnto(f)
  <2>1. pc[f] = "rebase" /\ UNCHANGED <<lock, starter, branches>>
    BY <1>9 DEF RebaseWorktreeOnto
  <2>2. Raise(f, "rebase") \/ Goto(f, "merge")
    BY <1>9 DEF RebaseWorktreeOnto
  <2> QED
    BY <2>1, <2>2, RaiseForgoes, Undisturbed DEF Turns!Next
<1>10. CASE PushBranch(f)
  <2>1. pc[f] = "push" /\ Goto(f, "exit") /\ UNCHANGED <<lock, starter, branches>>
    BY <1>10 DEF PushBranch, Raise, Goto
  <2> QED
    BY <2>1, Undisturbed
<1>11. CASE ConflictStays(f) \/ CleanupTaskArtifacts(f) \/ FinishRelease(f)
  BY <1>11, Undisturbed DEF ConflictStays, CleanupTaskArtifacts, FinishRelease
<1>12. CASE ConflictRepaired(f)
  BY <1>12, Undisturbed DEF ConflictRepaired
<1> QED
  BY <1>1, <1>2, <1>3, <1>4, <1>5, <1>6, <1>7, <1>8, <1>9, <1>10, <1>11, <1>12 DEF Step

LEMMA NextTurn ==
  TypeOK /\ LockInv /\ HeadInv /\ WorkInv /\ SourcesInv /\ [Next]_vars
  => [Turns!Next]_(Turns!vars)
<1> SUFFICES ASSUME TypeOK, LockInv, HeadInv, WorkInv, SourcesInv, [Next]_vars
             PROVE  Turns!Next \/ UNCHANGED Turns!vars
  OBVIOUS
<1>1. ASSUME NEW t \in Tasks, StartTask(t) PROVE UNCHANGED Turns!vars
  <2>1. t \in Finalizers /\ pc[t] = "idle" /\ UNCHANGED <<lock, starter, branches>>
    BY <1>1 DEF StartTask, Finalizers
  <2>2. \E label \in {"raised", "cleanup", "accepted"} : Goto(t, label)
    BY <1>1 DEF StartTask
  <2> QED
    BY <2>1, <2>2, Undisturbed DEF Undecided
<1>2. ASSUME NEW r \in Releases, StartRelease(r) PROVE UNCHANGED Turns!vars
  <2>1. r \in Finalizers /\ pc[r] = "idle" /\ Goto(r, "accepted")
        /\ UNCHANGED <<lock, starter, branches>>
    BY <1>2 DEF StartRelease, Finalizers
  <2> QED
    BY <2>1, Undisturbed DEF Undecided
<1>3. ASSUME NEW f \in Finalizers, Step(f) PROVE Turns!Next \/ UNCHANGED Turns!vars
  BY <1>3, StepTurn
<1>4. ASSUME NEW p \in Procs, Crash(p) PROVE Turns!Next
  <2>1. PICK F \in SUBSET Finalizers : Turns!Die(F)
    BY <1>4, CrashKills
  <2> QED
    BY <2>1 DEF Turns!Next, Turns!Finalizers, Finalizers
<1>5. CASE EnsureBranchFromBase
  <2>1. UNCHANGED <<pc, lock, branches>> /\ starter' = "done"
    BY <1>5 DEF EnsureBranchFromBase
  <2>2. Turns!Divert
    BY <2>1 DEF Turns!Divert, TurnUse, Killed
  <2> QED
    BY <2>2 DEF Turns!Next
<1>6. CASE StartCheck
  <2>1. UNCHANGED <<pc, lock, branches>> /\ starter' = "checked" /\ starter = "idle"
    BY <1>6 DEF StartCheck
  <2> QED
    BY <2>1 DEF Turns!vars, TurnUse, Killed
<1>7. CASE ExternalPush \/ UNCHANGED vars
  <2>1. UNCHANGED <<pc, lock, branches, starter>>
    BY <1>7 DEF ExternalPush, vars
  <2> QED
    BY <2>1 DEF Turns!vars, TurnUse, Killed
<1> QED
  BY <1>1, <1>2, <1>3, <1>4, <1>5, <1>6, <1>7 DEF Next

\* For any tasks, releases, processes and conflicts, whatever fails and whoever is
\* killed: one finalizer at a time has the turn, merges once, its own work and
\* what was published, where it means to; and the turn of the dead is not passed on.
THEOREM FinalizationTakesTurns == Spec => ImplementsTurns
<1>1. Init => Turns!Init
  <2> SUFFICES ASSUME Init PROVE Turns!Init
    OBVIOUS
  <2>1. branches \in [Branches -> SUBSET {External}]
    BY DEF Init
  <2>2. Killed = {} /\ TurnUse = "none" /\ lock = Nobody /\ starter # "done"
    BY DEF Init, Killed, TurnUse
  <2> QED
    BY <2>1, <2>2 DEF Turns!Init
<1> QED
  BY <1>1, NextTurn, TypeCorrect, LockSafe, HeadIsTarget, WorkIsTracked, SourcesArePublished,
     PTL DEF Spec, ImplementsTurns, Turns!Spec

-----------------------------------------------------------------------------
(***************************************************************************)
(* Why finalization ends.                                                  *)
(***************************************************************************)

\* The error path of run_task is that of the first call.
CallInv == \A f \in Finalizers : pc[f] = "repair" => attempt[f] = 1

LEMMA StepCalls ==
  ASSUME TypeOK, CallInv, NEW f \in Finalizers, Step(f)
  PROVE  /\ \/ attempt' = attempt /\ StageOf[pc'[f]] > StageOf[pc[f]]
            \/ attempt[f] = 1 /\ attempt' = [attempt EXCEPT ![f] = 2]
         /\ pc'[f] = "repair" => attempt'[f] = 1
         /\ \A g \in Finalizers \ {f} : pc'[g] = pc[g]
<1> USE DEF StageOf, Goto, Raise, TypeOK
<1>1. CASE EnterLock(f)
  BY <1>1 DEF EnterLock
<1>2. CASE LockHeld(f)
  BY <1>2 DEF LockHeld, AfterFailure
<1>3. CASE EnsureBaseBranch(f) \/ MergeBegin(f) \/ MergeEnd(f)
  BY <1>3 DEF EnsureBaseBranch, MergeBegin, MergeEnd
<1>4. CASE GitFails(f)
  BY <1>4 DEF GitFails
<1>5. CASE ExitLock(f)
  BY <1>5 DEF ExitLock, AfterFailure
<1>6. CASE FinishRelease(f) \/ ConflictStays(f) \/ CleanupTaskArtifacts(f)
  BY <1>6 DEF FinishRelease, ConflictStays, CleanupTaskArtifacts
<1>7. CASE CommitWorktreeChanges(f) \/ PushBranch(f)
  BY <1>7 DEF CommitWorktreeChanges, PushBranch
<1>8. CASE RebaseWorktreeOnto(f)
  BY <1>8 DEF RebaseWorktreeOnto
<1>9. CASE ConflictRepaired(f)
  BY <1>9 DEF ConflictRepaired, CallInv
<1> QED
  BY <1>1, <1>2, <1>3, <1>4, <1>5, <1>6, <1>7, <1>8, <1>9 DEF Step

LEMMA NextCalls == TypeOK /\ CallInv /\ [Next]_vars => CallInv'
<1> SUFFICES ASSUME TypeOK, CallInv, [Next]_vars PROVE CallInv'
  OBVIOUS
<1>1. ASSUME NEW f \in Finalizers, Step(f) PROVE CallInv'
  BY <1>1, StepCalls DEF CallInv, TypeOK
<1>2. ASSUME NEW t \in Tasks, StartTask(t) PROVE CallInv'
  BY <1>2 DEF StartTask, Goto, CallInv, TypeOK, Finalizers
<1>3. ASSUME NEW r \in Releases, StartRelease(r) PROVE CallInv'
  BY <1>3 DEF StartRelease, Goto, CallInv, TypeOK, Finalizers
<1>4. ASSUME NEW p \in Procs, Crash(p) PROVE CallInv'
  BY <1>4 DEF Crash, CallInv
<1>5. CASE ExternalPush \/ StartCheck \/ EnsureBranchFromBase \/ UNCHANGED vars
  BY <1>5 DEF ExternalPush, StartCheck, EnsureBranchFromBase, vars, CallInv
<1> QED
  BY <1>1, <1>2, <1>3, <1>4, <1>5 DEF Next

\* For any tasks and processes: a finalizer goes back for its second call only, and
\* there is no third, whatever the others hold, merge or leave behind.
THEOREM FinalizersOnlyAdvance == Spec => FinalizerAdvances
<1>1. Init => CallInv
  BY DEF Init, CallInv
<1>2. Spec => []CallInv
  BY <1>1, TypeCorrect, NextCalls, PTL DEF Spec
<1>3. TypeOK /\ CallInv /\ [Next]_vars =>
        [\A f \in Finalizers :
           \/ pc'[f] = pc[f] /\ attempt'[f] = attempt[f]
           \/ attempt'[f] = attempt[f] /\ StageOf[pc'[f]] > StageOf[pc[f]]
           \/ attempt[f] = 1 /\ attempt'[f] = 2]_vars
  <2> SUFFICES ASSUME TypeOK, CallInv, Next, NEW g \in Finalizers
               PROVE  \/ pc'[g] = pc[g] /\ attempt'[g] = attempt[g]
                      \/ attempt'[g] = attempt[g] /\ StageOf[pc'[g]] > StageOf[pc[g]]
                      \/ attempt[g] = 1 /\ attempt'[g] = 2
    OBVIOUS
  <2>1. ASSUME NEW f \in Finalizers, Step(f), f = g
        PROVE  \/ attempt'[g] = attempt[g] /\ StageOf[pc'[g]] > StageOf[pc[g]]
               \/ attempt[g] = 1 /\ attempt'[g] = 2
    BY <2>1, StepCalls DEF TypeOK
  <2>2. ASSUME NEW f \in Finalizers, Step(f), f # g PROVE pc'[g] = pc[g] /\ attempt'[g] = attempt[g]
    BY <2>2, StepCalls DEF TypeOK
  <2>3. ASSUME attempt' = attempt, pc[g] \in PCs \ Settled, pc'[g] \in Settled
        PROVE  attempt'[g] = attempt[g] /\ StageOf[pc'[g]] > StageOf[pc[g]]
    BY <2>3 DEF StageOf
  <2>4. ASSUME attempt' = attempt, pc[g] = "idle", pc'[g] \in {"accepted", "cleanup", "raised"}
        PROVE  attempt'[g] = attempt[g] /\ StageOf[pc'[g]] > StageOf[pc[g]]
    BY <2>4 DEF StageOf
  <2>7. ASSUME NEW t \in Tasks, StartTask(t)
        PROVE  \/ pc'[g] = pc[g] /\ attempt'[g] = attempt[g]
               \/ attempt'[g] = attempt[g] /\ StageOf[pc'[g]] > StageOf[pc[g]]
    <3>1. attempt' = attempt /\ pc[t] = "idle"
          /\ \E label \in {"accepted", "cleanup", "raised"} : pc' = [pc EXCEPT ![t] = label]
      BY <2>7 DEF StartTask, Goto
    <3>2. CASE g = t
      BY <2>4, <3>1, <3>2 DEF TypeOK
    <3>3. ASSUME g # t PROVE pc'[g] = pc[g] /\ attempt'[g] = attempt[g]
      BY <3>1, <3>3 DEF TypeOK
    <3> QED
      BY <3>2, <3>3
  <2>8. ASSUME NEW r \in Releases, StartRelease(r)
        PROVE  \/ pc'[g] = pc[g] /\ attempt'[g] = attempt[g]
               \/ attempt'[g] = attempt[g] /\ StageOf[pc'[g]] > StageOf[pc[g]]
    <3>1. attempt' = attempt /\ pc[r] = "idle" /\ pc' = [pc EXCEPT ![r] = "accepted"]
      BY <2>8 DEF StartRelease, Goto
    <3>2. CASE g = r
      BY <2>4, <3>1, <3>2 DEF TypeOK
    <3>3. ASSUME g # r PROVE pc'[g] = pc[g] /\ attempt'[g] = attempt[g]
      BY <3>1, <3>3 DEF TypeOK
    <3> QED
      BY <3>2, <3>3
  <2>9. ASSUME NEW p \in Procs, Crash(p)
        PROVE  \/ pc'[g] = pc[g] /\ attempt'[g] = attempt[g]
               \/ attempt'[g] = attempt[g] /\ StageOf[pc'[g]] > StageOf[pc[g]]
    <3>1. attempt' = attempt
          /\ pc'[g] = IF ProcOf[g] = p /\ pc[g] \notin Settled THEN "crashed" ELSE pc[g]
      BY <2>9 DEF Crash
    <3>2. CASE ProcOf[g] = p /\ pc[g] \notin Settled
      BY <2>3, <3>1, <3>2 DEF TypeOK
    <3>3. ASSUME ~(ProcOf[g] = p /\ pc[g] \notin Settled)
          PROVE  pc'[g] = pc[g] /\ attempt'[g] = attempt[g]
      BY <3>1, <3>3
    <3> QED
      BY <3>2, <3>3
  <2>6. CASE ExternalPush \/ StartCheck \/ EnsureBranchFromBase
    BY <2>6 DEF ExternalPush, StartCheck, EnsureBranchFromBase
  <2> QED
    BY <2>1, <2>2, <2>6, <2>7, <2>8, <2>9 DEF Next
<1> QED
  BY <1>2, <1>3, TypeCorrect, PTL DEF Spec, FinalizerAdvances

=============================================================================
