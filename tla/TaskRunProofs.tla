--------------------------- MODULE TaskRunProofs ----------------------------
(***************************************************************************)
(* Proofs about TaskRun and CommandRun.  For a run, one inductive          *)
(* invariant, Inv, says which run the worktree and the branch belong to,   *)
(* what the disk holds of it, and what the diagnosis keeps the supervisor  *)
(* from.  For the commands of a run, CommandInv says what their caller has *)
(* made of the process so far.  The properties follow from the two.        *)
(***************************************************************************)
EXTENDS TaskRun, CommandRun, SequenceTheorems, TLAPS

(***************************************************************************)
(* The inductive invariant                                                 *)
(***************************************************************************)

UpToCleanup == Working \cup {"finalizing", "cleaning"}

\* A run that is under way has its worktree, and the branch is its own.
RunIsPlaced ==
  /\ pc \in UpToCleanup => id \in worktrees /\ branch = id
  /\ pc \in UpToCleanup \cup {"deciding"} => id \in Runs /\ run > 0
  /\ pc = "waiting" => run < MaxRuns

\* The disk knows of a run what it has done so far.
DiskIsCurrent ==
  /\ \A i \in Runs : record[i] \in {"absent", "scratch"} => finalized[i] = "none"
  /\ pc = "created" => record[id] = "absent"
  /\ pc \in Working \ {"created"} => record[id] = "scratch"
  /\ pc \in {"finalizing", "cleaning"} => record[id] = decision
  /\ pc = "finalizing" => finalized[id] = "none" /\ decision = "accepted"

\* The verdict of a run that was reviewed; a task that waits again was refused.
VerdictStands ==
  /\ pc \in {"repairing", "reviewing"} => tested # "no"
  /\ pc \in {"finalizing", "cleaning", "deciding", "settled"} => decision \in Decisions
  /\ pc = "waiting" /\ run > 0 => decision \in {"needs_revision", "failed"}

\* After an environment repair the diagnosis is none the supervisor reruns on.
RepairIsFinal ==
  /\ pc \in {"waiting", "created", "executing", "verifying", "repairing"} => repairs = 0
  /\ pc \in {"created", "executing", "verifying", "repairing"} => repair = "none"
  /\ pc \in {"reviewing", "finalizing", "cleaning", "deciding"} /\ repairs # 0 =>
       repair = "applied"
  /\ pc \in {"finalizing", "cleaning", "deciding"} /\ repair = "applied" =>
       diagnosis \in {"contract_mismatch", "verification_failure", "timeout"}

Inv ==
  /\ TypeOK
  /\ RunIsPlaced
  /\ DiskIsCurrent
  /\ VerdictStands
  /\ RepairIsFinal
  /\ EnvironmentRepairedOnce
  /\ AcceptedWorkIsKept

(***************************************************************************)
(* The invariant holds                                                     *)
(***************************************************************************)

LEMMA Initially == Init => Inv
BY TaskRunAssumption
   DEF Init, Inv, TypeOK, RunIsPlaced, DiskIsCurrent, VerdictStands, RepairIsFinal,
       EnvironmentRepairedOnce, AcceptedWorkIsKept, Owed, PCs, Working, Stopped, UpToCleanup,
       Work, MaxRuns

\* Every action of the program keeps the type.
LEMMA TypeStep == ASSUME Inv, [Next]_vars PROVE TypeOK'
<1> USE TaskRunAssumption
    DEF TypeOK, PCs, Working, Stopped, Work, Decisions, Categories, Causes
<1>1. CASE CreateWorktree
  BY <1>1 DEF Inv, CreateWorktree, NoWork
<1>2. CASE RunRaises \/ Kill \/ FinalizationRaises \/ Supervise
  BY <1>2 DEF Inv, RunRaises, Kill, FinalizationRaises, Supervise, checkVars, diskVars
<1>3. CASE WriteExecutorPrompt \/ FinalizationDone \/ FinalizationFails
  BY <1>3 DEF Inv, WriteExecutorPrompt, FinalizationDone, FinalizationFails, checkVars
<1>4. CASE ExecutorAttempt \/ Verify \/ LeaveEnvironment \/ RepairEnvironment
  BY <1>4 DEF Inv, ExecutorAttempt, Verify, LeaveEnvironment, RepairEnvironment, Remedy, diskVars
<1>5. CASE Escalate \/ Review
  BY <1>5 DEF Inv, Escalate, Review, Verdict, DiagnoseFailure, FailureCategories, checkVars
<1>6. CASE Cleanup \/ Tidy
  BY <1>6 DEF Inv, Cleanup, Tidy, checkVars
<1>7. CASE StartAgain
  BY <1>7 DEF Inv, StartAgain, NoWork, diskVars
<1>8. CASE UNCHANGED vars
  BY <1>8 DEF Inv, vars, checkVars, diskVars
<1> QED
  BY <1>1, <1>2, <1>3, <1>4, <1>5, <1>6, <1>7, <1>8 DEF Next, RunTask

\* No action but these touches what a run is placed in.
LEMMA PlacedStep == ASSUME Inv, [Next]_vars PROVE RunIsPlaced'
<1> USE TaskRunAssumption DEF Inv, RunIsPlaced, UpToCleanup, Working, Stopped
<1> TypeOK OBVIOUS
<1>1. CASE CreateWorktree
  <2>1. PICK i \in Runs : id' = i /\ worktrees' = worktrees \cup {i} /\ branch' = i
    BY <1>1 DEF CreateWorktree
  <2> QED BY <1>1, <2>1 DEF CreateWorktree, TypeOK
<1>2. CASE RunRaises \/ Kill \/ FinalizationRaises
  BY <1>2 DEF RunRaises, Kill, FinalizationRaises, checkVars, diskVars
<1>3. CASE WriteExecutorPrompt \/ FinalizationDone \/ FinalizationFails
  BY <1>3 DEF WriteExecutorPrompt, FinalizationDone, FinalizationFails, checkVars
<1>4. CASE ExecutorAttempt \/ Verify \/ LeaveEnvironment \/ RepairEnvironment
  BY <1>4 DEF ExecutorAttempt, Verify, LeaveEnvironment, RepairEnvironment, diskVars
<1>5. CASE Escalate \/ Review
  BY <1>5 DEF Escalate, Review, checkVars
<1>6. CASE Cleanup \/ Tidy
  BY <1>6 DEF Cleanup, Tidy, checkVars
<1>7. CASE Supervise
  BY <1>7 DEF Supervise, MayRunAgain, RetryBudgetLeft, checkVars, diskVars
<1>8. CASE StartAgain
  BY <1>8 DEF StartAgain, MaxRuns
<1>9. CASE UNCHANGED vars
  BY <1>9 DEF vars, checkVars, diskVars
<1> QED
  BY <1>1, <1>2, <1>3, <1>4, <1>5, <1>6, <1>7, <1>8, <1>9 DEF Next, RunTask

LEMMA DiskStep == ASSUME Inv, [Next]_vars PROVE DiskIsCurrent'
<1> USE TaskRunAssumption DEF Inv, DiskIsCurrent, Working, Stopped
<1> TypeOK /\ RunIsPlaced OBVIOUS
<1>1. CASE CreateWorktree
  <2>1. PICK i \in Runs : ~Taken(i) /\ id' = i
    BY <1>1 DEF CreateWorktree, UniqueRunId
  <2> QED BY <1>1, <2>1 DEF CreateWorktree, Taken
<1>2. CASE RunRaises \/ Kill \/ FinalizationRaises \/ Supervise
  BY <1>2 DEF RunRaises, Kill, FinalizationRaises, Supervise, checkVars, diskVars
<1>3. CASE WriteExecutorPrompt
  BY <1>3 DEF WriteExecutorPrompt, RunIsPlaced, UpToCleanup, TypeOK
<1>4. CASE ExecutorAttempt \/ Verify \/ LeaveEnvironment \/ RepairEnvironment
  BY <1>4 DEF ExecutorAttempt, Verify, LeaveEnvironment, RepairEnvironment, diskVars
<1>5. CASE Escalate
  BY <1>5 DEF Escalate, RunIsPlaced, UpToCleanup, TypeOK
<1>6. CASE Review
  BY <1>6 DEF Review, Verdict, RunIsPlaced, UpToCleanup, TypeOK
<1>7. CASE FinalizationDone \/ FinalizationFails
  BY <1>7 DEF FinalizationDone, FinalizationFails, RunIsPlaced, UpToCleanup, TypeOK
<1>8. CASE Cleanup \/ Tidy
  BY <1>8 DEF Cleanup, Tidy
<1>9. CASE StartAgain
  BY <1>9 DEF StartAgain, diskVars
<1>10. CASE UNCHANGED vars
  BY <1>10 DEF vars, checkVars, diskVars
<1> QED
  BY <1>1, <1>2, <1>3, <1>4, <1>5, <1>6, <1>7, <1>8, <1>9, <1>10 DEF Next, RunTask

LEMMA VerdictStep == ASSUME Inv, [Next]_vars PROVE VerdictStands'
<1> USE DEF Inv, VerdictStands, Working, Stopped, Decisions
<1> TypeOK OBVIOUS
<1>1. CASE CreateWorktree \/ RunRaises \/ Kill \/ WriteExecutorPrompt
  BY <1>1 DEF CreateWorktree, RunRaises, Kill, WriteExecutorPrompt, checkVars, diskVars
<1>2. CASE ExecutorAttempt \/ Verify \/ RepairEnvironment
  BY <1>2 DEF ExecutorAttempt, Verify, RepairEnvironment
<1>3. CASE LeaveEnvironment
  BY <1>3 DEF LeaveEnvironment
<1>4. CASE Escalate \/ Review
  BY <1>4 DEF Escalate, Review, Verdict, checkVars
<1>5. CASE FinalizationDone \/ FinalizationFails \/ FinalizationRaises \/ Cleanup
  BY <1>5 DEF FinalizationDone, FinalizationFails, FinalizationRaises, Cleanup, checkVars
<1>6. CASE Supervise
  BY <1>6 DEF Supervise, MayRunAgain, Resumable, checkVars
<1>7. CASE StartAgain \/ Tidy
  BY <1>7 DEF StartAgain, Tidy, checkVars
<1>8. CASE UNCHANGED vars
  BY <1>8 DEF vars, checkVars, diskVars
<1> QED
  BY <1>1, <1>2, <1>3, <1>4, <1>5, <1>6, <1>7, <1>8 DEF Next, RunTask

LEMMA RepairStep == ASSUME Inv, [Next]_vars PROVE RepairIsFinal' /\ EnvironmentRepairedOnce'
<1> USE DEF Inv, RepairIsFinal, EnvironmentRepairedOnce, Working, Stopped
<1> TypeOK /\ VerdictStands OBVIOUS
<1>1. CASE CreateWorktree \/ RunRaises \/ Kill \/ WriteExecutorPrompt
  BY <1>1 DEF CreateWorktree, RunRaises, Kill, WriteExecutorPrompt, checkVars, diskVars
<1>2. CASE ExecutorAttempt \/ Verify
  BY <1>2 DEF ExecutorAttempt, Verify
<1>3. CASE LeaveEnvironment \/ RepairEnvironment
  BY <1>3 DEF LeaveEnvironment, RepairEnvironment, Remedy
<1>4. CASE Escalate
  BY <1>4 DEF Escalate, checkVars
<1>5. CASE Review
  <2>1. repair' = "applied" => diagnosis' \in {"contract_mismatch", "verification_failure", "timeout"}
    BY <1>5 DEF Review, DiagnoseFailure, FailureCategories, VerdictStands, TypeOK, checkVars
  <2> QED BY <1>5, <2>1 DEF Review, Verdict, checkVars
<1>6. CASE FinalizationDone \/ FinalizationFails \/ FinalizationRaises \/ Cleanup
  BY <1>6 DEF FinalizationDone, FinalizationFails, FinalizationRaises, Cleanup, checkVars
<1>7. CASE Supervise
  <2>1. MayRunAgain => repair # "applied"
    BY <1>7 DEF Supervise, MayRunAgain, Resumable
  <2> QED BY <1>7, <2>1 DEF Supervise, checkVars, TypeOK
<1>8. CASE StartAgain \/ Tidy
  BY <1>8 DEF StartAgain, Tidy, checkVars
<1>9. CASE UNCHANGED vars
  BY <1>9 DEF vars, checkVars, diskVars
<1> QED
  BY <1>1, <1>2, <1>3, <1>4, <1>5, <1>6, <1>7, <1>8, <1>9 DEF Next, RunTask

LEMMA KeptStep == ASSUME Inv, [Next]_vars PROVE AcceptedWorkIsKept'
<1> USE TaskRunAssumption DEF Inv, AcceptedWorkIsKept, Owed
<1> TypeOK /\ RunIsPlaced /\ DiskIsCurrent OBVIOUS
<1>1. CASE CreateWorktree
  BY <1>1 DEF CreateWorktree
<1>2. CASE RunRaises \/ Kill \/ FinalizationRaises \/ Supervise
  BY <1>2 DEF RunRaises, Kill, FinalizationRaises, Supervise, checkVars, diskVars
<1>3. CASE WriteExecutorPrompt
  BY <1>3 DEF WriteExecutorPrompt, TypeOK
<1>4. CASE ExecutorAttempt \/ Verify \/ LeaveEnvironment \/ RepairEnvironment
  BY <1>4 DEF ExecutorAttempt, Verify, LeaveEnvironment, RepairEnvironment, diskVars
\* Only the current run changes what it is owed, and its worktree exists.
<1>5. CASE Escalate \/ Review \/ FinalizationDone \/ FinalizationFails
  <2>1. id \in worktrees /\ worktrees' = worktrees /\ branch' = branch
    BY <1>5 DEF Escalate, Review, FinalizationDone, FinalizationFails, RunIsPlaced, UpToCleanup,
                Working
  <2>2. \A i \in Runs : i # id => record'[i] = record[i] /\ finalized'[i] = finalized[i]
    BY <1>5 DEF Escalate, Review, FinalizationDone, FinalizationFails, TypeOK
  <2> QED BY <2>1, <2>2
\* What is still owed keeps its worktree, or its branch if it was committed.
<1>6. CASE Cleanup
  <2>1. id \in worktrees /\ branch = id /\ record[id] = decision
    BY <1>6 DEF Cleanup, RunIsPlaced, DiskIsCurrent, UpToCleanup
  <2>2. record' = record /\ finalized' = finalized
    BY <1>6 DEF Cleanup
  <2>3. ASSUME Owed(id) PROVE id \in worktrees' \/ (finalized[id] = "committed" /\ branch' = id)
    BY <1>6, <2>1, <2>3 DEF Cleanup, PreserveWorktree, PreserveBranch, DiskIsCurrent, TypeOK,
       RunIsPlaced, UpToCleanup
  <2>4. \A i \in Runs : i # id /\ i \in worktrees => i \in worktrees'
    BY <1>6 DEF Cleanup
  <2> QED BY <2>1, <2>2, <2>3, <2>4
<1>7. CASE StartAgain
  BY <1>7 DEF StartAgain, diskVars
<1>8. CASE Tidy
  BY <1>8 DEF Tidy
<1>9. CASE UNCHANGED vars
  BY <1>9 DEF vars, diskVars
<1> QED
  BY <1>1, <1>2, <1>3, <1>4, <1>5, <1>6, <1>7, <1>8, <1>9 DEF Next, RunTask

\* The invariant of the execution of a task, for any budget, clock, start options
\* and number of starts.
THEOREM RunInvariant == Spec => []Inv
<1>1. Inv /\ [Next]_vars => Inv'
  BY TypeStep, PlacedStep, DiskStep, VerdictStep, RepairStep, KeptStep DEF Inv
<1> QED BY Initially, <1>1, PTL DEF Spec

(***************************************************************************)
(* The properties                                                          *)
(***************************************************************************)

\* Every variable keeps its type; in particular no run makes more executor attempts
\* than its budget.
THEOREM RunType == Spec => []TypeOK
<1>1. Inv => TypeOK BY DEF Inv
<1> QED BY RunInvariant, <1>1, PTL

\* No run ever finds a bundle where it collects its evidence.
THEOREM EvidenceNeverCollides == Spec => []EvidenceIsFresh
<1>1. Inv => EvidenceIsFresh BY DEF Inv, DiskIsCurrent, EvidenceIsFresh
<1> QED BY RunInvariant, <1>1, PTL

\* Work that is owed survives every later run, cleanup, kill and restart.
THEOREM AcceptedWorkSurvives == Spec => []AcceptedWorkIsKept
<1>1. Inv => AcceptedWorkIsKept BY DEF Inv
<1> QED BY RunInvariant, <1>1, PTL

\* However many runs the supervisor grants, the environment is repaired once.
THEOREM OneEnvironmentRepair == Spec => []EnvironmentRepairedOnce
<1>1. Inv => EnvironmentRepairedOnce BY DEF Inv
<1> QED BY RunInvariant, <1>1, PTL

(***************************************************************************)
(* TaskRun implements TaskAttempts                                         *)
(***************************************************************************)

\* A verified run gets the verdict accepted exactly when its work is sound, and is
\* refused otherwise.
LEMMA VerdictIsSound ==
  ASSUME tested \in {"passed", "failed"}
  PROVE  /\ Verdict \in {"accepted", "needs_revision", "failed"}
         /\ Verdict = "accepted" <=> Sound
<1>1. CASE tested = "failed"
  BY <1>1 DEF Verdict, Sound
<1>2. CASE tested = "passed" /\ InScope /\ ~work.violations /\ SoftGateAccepts
  BY <1>2 DEF Verdict, Sound
<1>3. CASE tested = "passed" /\ ~(InScope /\ ~work.violations /\ SoftGateAccepts)
  BY <1>3 DEF Verdict, Sound
<1> QED BY <1>1, <1>2, <1>3

LEMMA AttemptsInit == Init => Attempts!Init
<1>1. Init => Sound = FALSE BY DEF Init, Sound
<1>2. Init => Status = "waiting" /\ run = 0 BY DEF Init, Status, Working
<1> QED BY <1>1, <1>2 DEF Attempts!Init

LEMMA AttemptsStep == ASSUME Inv, [Next]_vars PROVE [Attempts!Next]_(Attempts!vars)
<1> USE DEF Status, Working, Stopped
<1> TypeOK /\ RunIsPlaced /\ VerdictStands BY DEF Inv
<1>1. CASE CreateWorktree
  <2>1. Status \in {"waiting", "refused"} /\ Status' = "working"
    BY <1>1 DEF CreateWorktree
  <2>2. run < MaxRuns /\ run' = run + 1 /\ Sound' = FALSE
    BY <1>1 DEF CreateWorktree, RunIsPlaced, Sound
  <2> QED BY <2>1, <2>2 DEF Attempts!Next, Attempts!Begin
<1>2. CASE RunRaises \/ Kill \/ FinalizationRaises
  <2>1. Status' = "broken" /\ run' = run /\ Sound' = Sound
    BY <1>2 DEF RunRaises, Kill, FinalizationRaises, checkVars, Sound, InScope, SoftGateAccepts
  <2> QED BY <2>1 DEF Attempts!Next, Attempts!Break
\* The worker and the checks: the run goes on working.
<1>3. CASE WriteExecutorPrompt \/ ExecutorAttempt \/ Verify \/ LeaveEnvironment \/ RepairEnvironment
  <2>1. Status = "working" /\ Status' = "working" /\ run' = run
    BY <1>3 DEF WriteExecutorPrompt, ExecutorAttempt, Verify, LeaveEnvironment, RepairEnvironment
  <2>2. Sound' \in BOOLEAN
    BY DEF Sound
  <2> QED BY <2>1, <2>2 DEF Attempts!Next, Attempts!Work
<1>4. CASE Escalate
  <2>1. Status = "working" /\ Status' = "escalated" /\ run' = run /\ Sound' = Sound
    BY <1>4 DEF Escalate, checkVars, Sound, InScope, SoftGateAccepts
  <2> QED BY <2>1 DEF Attempts!Next, Attempts!Escalate
<1>5. CASE Review
  <2>1. tested \in {"passed", "failed"}
    BY <1>5 DEF Review, VerdictStands, TypeOK
  <2>2. Status = "working" /\ run' = run /\ Sound' = Sound
    BY <1>5 DEF Review, checkVars, Sound, InScope, SoftGateAccepts
  <2>3. decision' = Verdict /\ pc' \in {"finalizing", "cleaning"}
    BY <1>5 DEF Review
  <2>4. CASE Verdict = "accepted"
    <3>1. Sound /\ Status' = "accepted" BY <2>1, <2>3, <2>4, VerdictIsSound
    <3> QED BY <2>2, <3>1 DEF Attempts!Next, Attempts!Accept
  <2>5. CASE Verdict # "accepted"
    <3>1. ~Sound /\ Status' = "refused" BY <2>1, <2>3, <2>5, VerdictIsSound
    <3> QED BY <2>2, <3>1 DEF Attempts!Next, Attempts!Refuse
  <2> QED BY <2>4, <2>5
<1>6. CASE FinalizationFails
  <2>1. Status = "accepted" /\ Status' = "escalated" /\ run' = run /\ Sound' = Sound
    BY <1>6 DEF Inv, DiskIsCurrent, FinalizationFails, checkVars, Sound, InScope, SoftGateAccepts
  <2> QED BY <2>1 DEF Attempts!Next, Attempts!Escalate
\* A refused task that waits for another run is still refused.
<1>7. CASE FinalizationDone \/ Cleanup \/ Supervise \/ Tidy
  <2>1. Status' = Status /\ run' = run /\ Sound' = Sound
    BY <1>7 DEF FinalizationDone, Cleanup, Supervise, Tidy, MayRunAgain, Resumable, checkVars,
       RunIsPlaced, UpToCleanup, Sound, InScope, SoftGateAccepts, TypeOK
  <2> QED BY <2>1 DEF Attempts!vars
<1>8. CASE StartAgain
  <2>1. Status # "working" /\ Status' = "waiting" /\ run' = 0 /\ Sound' = FALSE
    BY <1>8 DEF StartAgain, Sound, VerdictStands, Decisions
  <2> QED BY <2>1 DEF Attempts!Next, Attempts!Again
<1>9. CASE UNCHANGED vars
  BY <1>9 DEF vars, checkVars, Attempts!vars, Sound, InScope, SoftGateAccepts
<1> QED
  BY <1>1, <1>2, <1>3, <1>4, <1>5, <1>6, <1>7, <1>8, <1>9 DEF Next, RunTask

\* The execution of a task keeps the promise of TaskAttempts.
THEOREM TaskRunImplementsAttempts == Spec => ImplementsAttempts
BY RunInvariant, AttemptsInit, AttemptsStep, PTL DEF Spec, ImplementsAttempts, Attempts!Spec

(***************************************************************************)
(* The commands the task runs                                              *)
(***************************************************************************)

\* The child that was started, and what the caller has made of it so far.
ChildIsKnown ==
  /\ at \in {"feed", "wait"} => child \in {"running", "exited"}
  /\ at \in {"join", "record"} => child \in {"exited", "killed"}

OutputIsTrue ==
  /\ at = "join" => Streamed
  /\ at \in {"join", "record"} =>
       /\ output.timedOut => output.code = 124
       /\ child = "killed" => output.timedOut
       /\ ~output.timedOut => output.code = code
  /\ at = "record" /\ ~Streamed /\ ~output.timedOut => output.pieces = wrote

\* There is a command left to run, and nothing stopped the rest.
MoreToRun ==
  at \notin {"done", "raised"} =>
    /\ Len(results) < Len(session)
    /\ \A i \in DOMAIN results : results[i].code = 0 \/ results[i].kind = "probe"

CommandInv == CommandTypeOK /\ ChildIsKnown /\ OutputIsTrue /\ MoreToRun /\ ResultIsTrue

LEMMA KindIsKnown == ASSUME CommandTypeOK, MoreToRun, at \notin {"done", "raised"} PROVE Kind \in Kinds
BY CommandAssumption DEF CommandTypeOK, MoreToRun, Kind

LEMMA CommandInitially == CommandInit => CommandInv
<1> SUFFICES ASSUME CommandInit PROVE CommandInv
  OBVIOUS
<1> USE CommandAssumption DEF CommandInit
<1>1. CommandTypeOK
  <2>1. NoOutput \in Outputs BY DEF NoOutput, Outputs
  <2>2. results \in Seq(Results) BY EmptySeq
  <2>3. 0 \in 0..0 /\ 0 \in 0..MaxPieces OBVIOUS
  <2> QED BY <2>1, <2>2, <2>3, Zenon DEF CommandTypeOK
<1>2. ChildIsKnown /\ OutputIsTrue /\ ResultIsTrue
  BY DEF ChildIsKnown, OutputIsTrue, ResultIsTrue
<1>3. Len(session) \in Nat /\ Len(session) # 0
  <2>1. session \in Seq(Kinds) /\ session # <<>>
    OBVIOUS
  <2> QED BY <2>1, EmptySeq
<1>4. MoreToRun
  BY <1>3 DEF MoreToRun
<1> QED BY <1>1, <1>2, <1>4 DEF CommandInv

\* The command itself, and time, touch nothing the caller has noted.
LEMMA CommandRunsOn ==
  ASSUME CommandInv, ReadPrompt \/ Write \/ StartHelper \/ HelperEnds \/ Exit \/ TimePasses
  PROVE  CommandInv'
<1> USE CommandAssumption DEF CommandInv, own
<1>1. CommandTypeOK'
  <2>1. CASE ReadPrompt BY <2>1 DEF CommandTypeOK, ReadPrompt
  <2>2. CASE Write BY <2>2 DEF CommandTypeOK, Write
  <2>3. CASE StartHelper BY <2>3 DEF CommandTypeOK, StartHelper
  <2>4. CASE HelperEnds BY <2>4 DEF CommandTypeOK, HelperEnds
  <2>5. CASE Exit BY <2>5 DEF CommandTypeOK, Exit
  <2>6. CASE TimePasses BY <2>6 DEF CommandTypeOK, TimePasses, process
  <2> QED BY <2>1, <2>2, <2>3, <2>4, <2>5, <2>6
<1>2. ChildIsKnown' /\ OutputIsTrue'
  BY DEF CommandTypeOK, ChildIsKnown, OutputIsTrue, Streamed, Kind, ReadPrompt, Write, StartHelper,
         HelperEnds, Exit, TimePasses, process
<1>3. MoreToRun' /\ ResultIsTrue'
  BY DEF MoreToRun, ResultIsTrue, ReadPrompt, Write, StartHelper, HelperEnds, Exit, TimePasses, process
<1> QED BY <1>1, <1>2, <1>3

\* What the runner and its reader thread do up to the record.
LEMMA RunnerStep ==
  ASSUME CommandInv,
         \/ Spawn \/ Feed \/ Poll \/ Join \/ Reader
         \/ CommunicateTakes \/ CommunicateEnds \/ CommunicateExpires
  PROVE  CommandInv'
<1> USE CommandAssumption DEF CommandInv, process
<1>1. CommandTypeOK'
  <2> USE DEF CommandTypeOK
  <2>1. CASE Spawn
    <3>1. 0 \in 0..0 /\ 0 \in 0..MaxPieces OBVIOUS
    <3>2. reader' \in {"none", "reading", "finished", "broken"} /\ at' \in {"feed", "wait"}
      BY <2>1 DEF Spawn
    <3> QED BY <2>1, <3>1, <3>2 DEF Spawn
  <2>8. CASE Feed BY <2>8 DEF Feed
  <2>2. CASE Poll
    <3>1. ASSUME Ended PROVE output' \in Outputs
      <4>1. output' = [code |-> code, timedOut |-> FALSE, pieces |-> 0, bytes |-> FALSE]
        BY <2>2, <3>1 DEF Poll, NoOutput
      <4> QED BY <4>1 DEF Outputs
    <3>2. ASSUME ~Ended PROVE output' \in Outputs
      <4>1. output' = [code |-> 124, timedOut |-> TRUE, pieces |-> 0, bytes |-> FALSE]
        BY <2>2, <3>2 DEF Poll, NoOutput
      <4> QED BY <4>1 DEF Outputs
    <3>3. output' \in Outputs BY <3>1, <3>2
    <3> QED BY <2>2, <3>3 DEF Poll, Killed
  <2>3. CASE Join
    <3>1. output' \in Outputs BY <2>3 DEF Join, Outputs
    <3> QED BY <2>3, <3>1 DEF Join
  <2>4. CASE Reader BY <2>4 DEF Reader, ReaderTakes, ReaderEnds
  <2>5. CASE CommunicateTakes BY <2>5 DEF CommunicateTakes, own
  <2>6. CASE CommunicateEnds
    <3>1. output' = [code |-> code, timedOut |-> FALSE, pieces |-> got, bytes |-> FALSE]
      BY <2>6 DEF CommunicateEnds, NoOutput
    <3>2. output' \in Outputs BY <3>1 DEF Outputs
    <3> QED BY <2>6, <3>2 DEF CommunicateEnds
  <2>7. CASE CommunicateExpires
    <3>1. output' \in Outputs BY <2>7 DEF CommunicateExpires, Outputs
    <3> QED BY <2>7, <3>1 DEF CommunicateExpires, Killed
  <2> QED BY <2>1, <2>2, <2>3, <2>4, <2>5, <2>6, <2>7, <2>8
<1>2. ChildIsKnown'
  BY DEF CommandTypeOK, ChildIsKnown, Killed, Ended, Spawn, Feed, Poll, Join, Reader, ReaderTakes,
         ReaderEnds, CommunicateTakes, CommunicateEnds, CommunicateExpires, own
<1>3. OutputIsTrue'
  <2> USE DEF OutputIsTrue, Streamed, Kind
  <2>1. CASE Spawn \/ Feed BY <2>1 DEF Spawn, Feed
  <2>2. CASE Poll BY <2>2 DEF Poll, CommandTypeOK, Outputs, NoOutput, Killed, Ended, ChildIsKnown
  <2>3. CASE Join BY <2>3 DEF Join, CommandTypeOK, Outputs
  <2>4. CASE Reader BY <2>4 DEF Reader, ReaderTakes, ReaderEnds
  <2>5. CASE CommunicateTakes BY <2>5 DEF CommunicateTakes, own
  <2>6. CASE CommunicateEnds
    BY <2>6 DEF CommunicateEnds, CommandTypeOK, ChildIsKnown, NoOutput, EndOfFile
  <2>7. CASE CommunicateExpires BY <2>7 DEF CommunicateExpires
  <2> QED BY <2>1, <2>2, <2>3, <2>4, <2>5, <2>6, <2>7
<1>4. MoreToRun' /\ ResultIsTrue'
  BY DEF MoreToRun, ResultIsTrue, Spawn, Feed, Poll, Join, Reader, ReaderTakes, ReaderEnds,
         CommunicateTakes, CommunicateEnds, CommunicateExpires, own
<1> QED BY <1>1, <1>2, <1>3, <1>4

\* The caller appends what it knows of the command, or raises.
LEMMA RecordStep == ASSUME CommandInv, Record PROVE CommandInv'
<1> USE CommandAssumption DEF CommandInv
<1>1. CASE output.bytes
  BY <1>1 DEF Record, process, CommandTypeOK, Outputs, ChildIsKnown, OutputIsTrue, MoreToRun, ResultIsTrue
<1>2. CASE ~output.bytes
  <2> DEFINE r == [kind |-> Kind, code |-> output.code, timedOut |-> output.timedOut,
                   pieces |-> output.pieces, child |-> child, with |-> code, wrote |-> wrote]
             n == Len(results)
             over == StopsTheRest \/ n + 1 = Len(session)
  <2>1. /\ results' = Append(results, r)
        /\ at' = IF over THEN "done" ELSE "spawn"
        /\ at = "record" /\ session' = session
    BY <1>2 DEF Record
  <2>2. r \in Results
    BY <2>1, KindIsKnown DEF CommandTypeOK, ChildIsKnown, Outputs, Results
  <2>3. /\ n \in Nat /\ Len(results') = n + 1 /\ n < Len(session) /\ Len(session) \in Nat
        /\ DOMAIN results = 1..n /\ DOMAIN results' = 1..(n + 1)
        /\ \A i \in 1..n : results'[i] = results[i]
        /\ results'[n + 1] = r
    BY <2>1, <2>2 DEF CommandTypeOK, MoreToRun
  <2>4. CommandTypeOK'
    BY <1>2, <2>1, <2>2 DEF CommandTypeOK, Record, process, Outputs
  <2>5. ChildIsKnown' /\ OutputIsTrue'
    BY <2>1 DEF ChildIsKnown, OutputIsTrue
  <2>6. r.timedOut => r.code = 124
    BY <2>1 DEF OutputIsTrue
  <2>7. /\ r.kind = session[n + 1]
        /\ r.child = "killed" => r.timedOut
        /\ ~r.timedOut => r.code = r.with
        /\ ~r.timedOut /\ r.kind # "stream" => r.pieces = r.wrote
    BY <2>1 DEF OutputIsTrue, Kind, Streamed
  <2>8. \A i \in 1..n : results[i].code = 0 \/ results[i].kind = "probe"
    BY <2>1, <2>3 DEF MoreToRun
  <2>9. ~over => r.code = 0 \/ r.kind = "probe"
    BY DEF StopsTheRest
  <2>10. over => n + 1 = Len(session) \/ r.code # 0
    BY DEF StopsTheRest
  <2> HIDE DEF r, over
  <2>11. MoreToRun'
    <3> SUFFICES ASSUME ~over PROVE Len(results') < Len(session') /\ \A i \in DOMAIN results' :
                                       results'[i].code = 0 \/ results'[i].kind = "probe"
      BY <2>1 DEF MoreToRun
    <3>1. n + 1 # Len(session)
      BY DEF over
    <3> QED BY <2>1, <2>3, <2>8, <2>9, <3>1
  <2>12. ResultIsTrue'
    BY <2>1, <2>3, <2>6, <2>7, <2>8, <2>10 DEF ResultIsTrue
  <2> QED BY <2>4, <2>5, <2>11, <2>12
<1> QED BY <1>1, <1>2

THEOREM CommandInvariant == CommandSpec => []CommandInv
<1>1. CommandInv /\ UNCHANGED commandVars => CommandInv'
  BY DEF CommandInv, CommandTypeOK, ChildIsKnown, OutputIsTrue, MoreToRun, ResultIsTrue, Streamed, Kind,
         commandVars, own, process
<1>2. CommandInv /\ [CommandNext]_commandVars => CommandInv'
  BY <1>1, CommandRunsOn, RunnerStep, RecordStep DEF CommandNext, Caller
<1> QED BY CommandInitially, <1>2, PTL DEF CommandSpec

\* Every variable of the process runner keeps its type: what is recorded of a
\* command has the fields and the values its callers read.
THEOREM CommandType == CommandSpec => []CommandTypeOK
<1>1. CommandInv => CommandTypeOK BY DEF CommandInv
<1> QED BY CommandInvariant, <1>1, PTL

\* What is recorded of a command is what happened, for any number of commands of
\* any kind, any size of a pipe and any amount of output.
THEOREM RecordedResultsAreTrue == CommandSpec => []ResultIsTrue
<1>1. CommandInv => ResultIsTrue BY DEF CommandInv
<1> QED BY CommandInvariant, <1>1, PTL

=============================================================================
