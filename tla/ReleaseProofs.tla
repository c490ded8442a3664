---------------------------- MODULE ReleaseProofs ----------------------------
(***************************************************************************)
(* Safety of the release scheduler and pipeline for every plan, every mix  *)
(* of command lines, any number of runs and any bound on reruns.           *)
(***************************************************************************)
EXTENDS Release, TLAPS

-----------------------------------------------------------------------------
(* Type correctness.                                                       *)

RunOK ==
    /\ selected \subseteq Tasks
    /\ stage \in [Tasks -> Stages]
    /\ result \in [Tasks -> Results]
    /\ reruns \in [Tasks -> 0..MaxReruns]
    /\ startedOn \in [Tasks -> SUBSET Tasks]
    /\ landed \subseteq Tasks
    /\ merges \in BOOLEAN /\ checked \in BOOLEAN
    /\ decision \in {"none", "accepted", "needs_revision", "failed", "escalated"}

ReleaseOK ==
    /\ plan \in Plans
    /\ branch \subseteq Tasks /\ published \subseteq Tasks /\ remembered \subseteq Tasks
    /\ proof \in {"none", "passed", "failed"}
    /\ worktrees \subseteq Tasks \union {RepairWork} /\ taskBranches \subseteq Tasks
    /\ runs \in 0..MaxRuns
    /\ phase \in Phases
    /\ opts \in Options

\* TypeOK in two halves, so that a step is checked against the half it touches.
LEMMA TypeSplit == TypeOK <=> ReleaseOK /\ RunOK
  BY DEF TypeOK, ReleaseOK, RunOK

LEMMA SubmitType ==
  ASSUME NEW st \in [Tasks -> Stages]
  PROVE  Submit(st) \in [Tasks -> Stages]
  BY DEF Submit, Stages

LEMMA BlankTypes ==
    /\ All("out") \in [Tasks -> Stages]
    /\ All("none") \in [Tasks -> Results]
    /\ All(0) \in [Tasks -> 0..MaxReruns]
    /\ Nothing \in [Tasks -> SUBSET Tasks]
  BY BoundsAssumption DEF Stages, Results, All, Nothing

LEMMA TypeInit == Init => TypeOK
<1> SUFFICES ASSUME Init PROVE TypeOK  OBVIOUS
<1>1. RunOK  BY BlankTypes DEF Init, RunOK
<1>2. ReleaseOK  BY BoundsAssumption DEF Init, ReleaseOK, Phases
<1> QED BY <1>1, <1>2, TypeSplit

LEMMA ResetType == ASSUME Reset PROVE RunOK' /\ phase' = "idle"
  BY BlankTypes DEF Reset, RunOK

LEMMA TypeAfterReset ==
  ASSUME TypeOK, Reset, remembered' \subseteq Tasks PROVE TypeOK'
<1>1. RunOK' /\ phase' = "idle"  BY ResetType
<1>2. ReleaseOK'  BY <1>1 DEF Reset, TypeOK, ReleaseOK, Phases
<1> QED BY <1>1, <1>2 DEF TypeOK, RunOK, ReleaseOK

LEMMA WorkerType ==
  ASSUME TypeOK, NEW t \in Tasks, WorkerStep(t) PROVE TypeOK'
<1> USE DEF TypeOK, Stages, Results, Phases, runVars, taskVars
<1>1. CASE WorkerBegins(t)  BY <1>1 DEF WorkerBegins, Begin
<1>2. ASSUME NEW changed \in BOOLEAN, Accept(t, changed) PROVE TypeOK'
  BY <1>2 DEF Accept, Returns
<1>3. ASSUME NEW verdict \in {"failed", "escalated"}, Fail(t, verdict) PROVE TypeOK'
  BY <1>3 DEF Fail, Returns
<1>4. CASE FailToFinalize(t)  BY <1>4 DEF FailToFinalize, Returns
<1>5. ASSUME NEW begun \in BOOLEAN, RaiseInTask(t, begun) PROVE TypeOK'
  BY <1>5 DEF RaiseInTask, Returns
<1> QED BY <1>1, <1>2, <1>3, <1>4, <1>5 DEF WorkerStep

LEMMA SchedulerType == ASSUME TypeOK, SchedulerStep PROVE TypeOK'
<1>1. ASSUME NEW t \in Tasks, TakeNext(t) PROVE TypeOK'
  BY <1>1 DEF TakeNext, Begin, TypeOK, Stages, Results, Phases, runVars, taskVars
<1>2. ASSUME NEW t \in Tasks, Rerun(t) PROVE TypeOK'
  BY <1>2, BoundsAssumption
     DEF Rerun, Begin, TypeOK, Stages, Results, Phases, runVars, taskVars
<1>3. ASSUME NEW done \in SUBSET Tasks, Collect(done) PROVE TypeOK'
  <2> DEFINE noted == [t \in Tasks |-> IF t \in done THEN "collected" ELSE stage[t]]
  <2>1. noted \in [Tasks -> Stages]  BY DEF TypeOK, Stages
  <2>2. Submit(noted) \in [Tasks -> Stages]  BY <2>1, SubmitType
  <2>3. stage' \in [Tasks -> Stages]  BY <1>3, <2>1, <2>2 DEF Collect
  <2>4. reruns' \in [Tasks -> 0..MaxReruns]
    BY <1>3, BoundsAssumption DEF Collect, TypeOK
  <2>5. phase' \in Phases  BY <1>3 DEF Collect, TypeOK, Phases
  <2> QED BY <1>3, <2>3, <2>4, <2>5 DEF Collect, TypeOK, runVars
<1>4. ASSUME NEW scopeAllowed \in BOOLEAN, EndExecution(scopeAllowed) PROVE TypeOK'
  <2>1. TaskDecision \in {"accepted", "failed", "escalated"}
    BY DEF TaskDecision, ReleaseDecision
  <2>2. decision' \in {"accepted", "needs_revision", "failed", "escalated"}
    BY <1>4, <2>1 DEF EndExecution
  <2>3. phase' \in Phases  BY <1>4 DEF EndExecution, Phases
  <2> QED BY <1>4, <2>2, <2>3 DEF EndExecution, TypeOK, runVars, taskVars
<1>5. CASE RaiseUnsatisfied
  <2>1. Reset /\ remembered' = remembered  BY <1>5 DEF RaiseUnsatisfied
  <2> QED BY <2>1, TypeAfterReset DEF TypeOK
<1>6. CASE Drained
  <2>1. Reset /\ remembered' = remembered  BY <1>6 DEF Drained
  <2> QED BY <2>1, TypeAfterReset DEF TypeOK
<1> QED BY <1>1, <1>2, <1>3, <1>4, <1>5, <1>6 DEF SchedulerStep

LEMMA JudgeType == ASSUME TypeOK, JudgeStep PROVE TypeOK'
<1>0. \A repaired \in BOOLEAN : ReleaseDecision(repaired) \in {"accepted", "failed", "escalated"}
  BY DEF ReleaseDecision
<1>1. ASSUME NEW repaired \in BOOLEAN, NEW verified \in BOOLEAN, ReviewAccepts(repaired, verified)
      PROVE  TypeOK'
  BY <1>0, <1>1 DEF ReviewAccepts, TypeOK, Phases, runVars, taskVars
<1>2. ASSUME NEW verdict \in {"needs_revision", "escalated"}, NEW repaired \in BOOLEAN,
             NEW left \in BOOLEAN, NEW final \in {"none", "passed", "failed"},
             ReviewRejects(verdict, repaired, left, final)
      PROVE  TypeOK'
  BY <1>2 DEF ReviewRejects, TypeOK, Phases, runVars, taskVars
<1>3. CASE OverBudget  BY <1>3 DEF OverBudget, TypeOK, Phases, runVars, taskVars
<1>4. ASSUME NEW passes \in BOOLEAN, Verify(passes) PROVE TypeOK'
  BY <1>4 DEF Verify, TypeOK, Phases, runVars, taskVars
<1>5. CASE SkipVerification  BY <1>5 DEF SkipVerification, TypeOK, Phases, runVars, taskVars
<1>6. ASSUME NEW gitWorks \in BOOLEAN, Finalize(gitWorks) PROVE TypeOK'
  BY <1>6 DEF Finalize, TypeOK, Phases, runVars, taskVars
<1>7. CASE WriteSummary
  <2>1. Reset /\ remembered' \subseteq Tasks  BY <1>7 DEF WriteSummary, Ran, TypeOK
  <2> QED BY <2>1, TypeAfterReset DEF TypeOK
<1> QED BY <1>1, <1>2, <1>3, <1>4, <1>5, <1>6, <1>7 DEF JudgeStep

LEMMA TypeStep == TypeOK /\ [Next]_vars => TypeOK'
<1> SUFFICES ASSUME TypeOK, [Next]_vars PROVE TypeOK'  OBVIOUS
<1>1. ASSUME NEW o \in Options, NEW chosen \in Selections, StartRun(o, chosen) PROVE TypeOK'
  <2>1. chosen \subseteq Tasks  BY SelectionsAssumption
  <2>2. stage' \in [Tasks -> Stages]  BY <1>1 DEF StartRun, Stages
  <2>3. runs' \in 0..MaxRuns  BY <1>1, BoundsAssumption DEF StartRun, TypeOK
  <2> QED BY <1>1, <2>1, <2>2, <2>3 DEF StartRun, TypeOK, Phases
<1>2. ASSUME NEW t \in Tasks, WorkerStep(t) PROVE TypeOK'  BY <1>2, WorkerType
<1>3. CASE SchedulerStep  BY <1>3, SchedulerType
<1>4. CASE JudgeStep  BY <1>4, JudgeType
<1>5. CASE Crash
  <2>1. Reset /\ remembered' = remembered  BY <1>5 DEF Crash
  <2> QED BY <2>1, TypeAfterReset DEF TypeOK
<1>6. CASE Tidy  BY <1>6 DEF Tidy, TypeOK, runVars, taskVars
<1>7. CASE UNCHANGED vars  BY <1>7 DEF vars, TypeOK, runVars, taskVars
<1> QED BY <1>1, <1>2, <1>3, <1>4, <1>5, <1>6, <1>7 DEF Next

\* Every variable keeps to its type, whatever the plan, the flags and the interruptions.
THEOREM ReleaseType == Spec => []TypeOK
  BY TypeInit, TypeStep, PTL DEF Spec

-----------------------------------------------------------------------------
(* The scheduler: what is recorded, what a task starts from, who runs with *)
(* whom.                                                                   *)

Begun == {"submitted", "working", "returned"}

\* What the summaries, and the landed tasks of this run, claim is on the branch.
WorkIsThere == remembered \subseteq branch /\ landed \subseteq branch

\* The stages of the tasks tell which contracts the run executes.
StagesFit ==
    /\ \A t \in Tasks : stage[t] # "out" => t \in selected
    /\ \A t \in Remaining(selected) : stage[t] # "out"
    /\ \A t \in Tasks : stage[t] \in {"returned", "collected"} => result[t] # "none"

\* A task that was begun has all its dependencies behind it, accepted if failures stop the run.
DependenciesBehind ==
    \A t \in Tasks : stage[t] \in Begun =>
        \A d \in Needs(selected, t) :
            stage[d] = "collected" /\ (opts.stop => result[d] = "accepted")

\* An accepted result is on the branch if the run merges.
AcceptedIsThere ==
    \A t \in Tasks :
        stage[t] \in {"returned", "collected"} /\ result[t] = "accepted" /\ opts.accept = "merge"
            => t \in branch

\* The sequential scheduler has at most one task in hand.
OneAtATime ==
    ~ Parallel => \A t, u \in Tasks : stage[t] \in Begun /\ stage[u] \in Begun => t = u

SchedInv ==
    /\ WorkIsThere /\ StagesFit /\ DependenciesBehind /\ AcceptedIsThere /\ OneAtATime
    /\ DependencyWorkVisible

\* Between runs no task has a stage.
Blank == selected = {} /\ stage = All("out") /\ result = All("none") /\ landed = {}

LEMMA BlankSched ==
  ASSUME Blank, remembered \subseteq branch PROVE SchedInv
<1>1. \A t \in Tasks : stage[t] = "out"  BY DEF Blank, All
<1> QED BY <1>1 DEF Blank, SchedInv, WorkIsThere, StagesFit, DependenciesBehind, AcceptedIsThere,
              OneAtATime, DependencyWorkVisible, Remaining, Begun

LEMMA ResetBlank == ASSUME Reset PROVE Blank' /\ branch' = branch
  BY DEF Reset, Blank, All

LEMMA SchedReset ==
  ASSUME Reset, remembered' \subseteq branch PROVE SchedInv'
<1>1. Blank' /\ remembered' \subseteq branch'  BY ResetBlank
<1>2. \A t \in Tasks : stage'[t] = "out"  BY <1>1 DEF Blank, All
<1> QED BY <1>1, <1>2 DEF Blank, SchedInv, WorkIsThere, StagesFit, DependenciesBehind,
              AcceptedIsThere, OneAtATime, DependencyWorkVisible, Remaining, Begun

\* A step that changes neither the scheduler's state nor what the runs before left.
LEMMA SchedFrame ==
  ASSUME SchedInv,
         UNCHANGED <<plan, branch, remembered, opts, selected, stage, result, startedOn, landed>>
  PROVE  SchedInv'
  BY DEF SchedInv, WorkIsThere, StagesFit, DependenciesBehind, AcceptedIsThere, OneAtATime,
         DependencyWorkVisible, Remaining, Begun, Needs, Overlaps, BlockingOverlaps, Parallel,
         ParallelAction

\* What a run skips and what its tasks wait for does not change while it lasts.
Fixed == UNCHANGED <<plan, remembered, opts, selected>>

LEMMA FixedNeeds ==
  ASSUME Fixed
  PROVE  /\ \A t \in Tasks : Needs(selected, t)' = Needs(selected, t)
         /\ Parallel' = Parallel
         /\ Remaining(selected)' = Remaining(selected)
  BY DEF Fixed, Needs, Parallel, ParallelAction, Overlaps, BlockingOverlaps, Remaining

\* The dependencies of a task are what it waits for and what is recorded.
LEMMA DependsOnNeeds ==
  ASSUME TypeOK, NEW t \in Tasks
  PROVE  /\ Needs(selected, t) \subseteq Tasks
         /\ plan.dependsOn[t] \subseteq Needs(selected, t) \union remembered
<1>1. plan.dependsOn[t] \subseteq Tasks
  BY PlansAssumption DEF TypeOK
<1> QED BY <1>1 DEF Needs, TypeOK

\* A task that begins finds the work of everything it depends on.
LEMMA BranchHoldsDependencies ==
  ASSUME TypeOK, SchedInv, NEW t \in Tasks, opts.stop, opts.accept = "merge",
         \A d \in Needs(selected, t) : stage[d] = "collected" /\ result[d] = "accepted"
  PROVE  plan.dependsOn[t] \subseteq branch
<1>1. Needs(selected, t) \subseteq branch
  BY DependsOnNeeds DEF SchedInv, AcceptedIsThere
<1> QED BY <1>1, DependsOnNeeds DEF SchedInv, WorkIsThere

LEMMA ReadyFacts ==
  ASSUME TypeOK, NEW st \in [Tasks -> Stages], NEW t \in Ready(st)
  PROVE  /\ t \in Tasks /\ st[t] = "pending"
         /\ \A d \in Needs(selected, t) : st[d] = "collected" /\ (opts.stop => result[d] = "accepted")
  BY DependsOnNeeds DEF Ready, SomeFailed

LEMMA StartSched ==
  ASSUME TypeOK, SchedInv, Blank, NEW o \in Options, NEW chosen \in Selections, StartRun(o, chosen)
  PROVE  SchedInv'
<1> USE DEF StartRun
<1>1. /\ \A t \in Tasks : stage'[t] \in {"out", "pending", "submitted"}
      /\ \A t \in Tasks : stage'[t] = "out" <=> t \notin Remaining(chosen)
      /\ \A t \in Tasks : stage'[t] = "submitted" =>
             ParallelAction(o, chosen) /\ Needs(chosen, t) = {}
  OBVIOUS
<1>2. chosen \subseteq Tasks  BY SelectionsAssumption
<1>3. /\ Remaining(selected)' = Remaining(chosen)
      /\ Parallel' = ParallelAction(o, chosen)
      /\ \A t \in Tasks : Needs(selected, t)' = Needs(chosen, t)
  BY DEF Remaining, Parallel, ParallelAction, Overlaps, BlockingOverlaps, Needs
<1>4. WorkIsThere'  BY DEF SchedInv, WorkIsThere
<1>5. StagesFit'  BY <1>1, <1>2, <1>3 DEF StagesFit, Remaining
<1>6. DependenciesBehind'  BY <1>1, <1>3 DEF DependenciesBehind, Begun
<1>7. AcceptedIsThere'  BY <1>1 DEF AcceptedIsThere
<1>8. OneAtATime'  BY <1>1, <1>3 DEF OneAtATime, Begun
<1>9. DependencyWorkVisible'  BY <1>1 DEF DependencyWorkVisible
<1> QED BY <1>4, <1>5, <1>6, <1>7, <1>8, <1>9 DEF SchedInv

\* Creating a worktree, by either scheduler.
LEMMA BeginSched ==
  ASSUME TypeOK, SchedInv, NEW t \in Tasks, Begin(t),
         stage[t] \in {"pending", "submitted", "returned"},
         \A u \in Tasks \ {t} : result'[u] = result[u],
         \A d \in Needs(selected, t) : stage[d] = "collected" /\ (opts.stop => result[d] = "accepted"),
         ~ Parallel => \A u \in Tasks : stage[u] \in Begun => u = t
  PROVE  SchedInv'
<1>0. /\ stage' = [stage EXCEPT ![t] = "working"] /\ startedOn' = [startedOn EXCEPT ![t] = branch]
      /\ UNCHANGED <<plan, branch, remembered, opts, selected, landed>>
  BY DEF Begin, runVars
<1>1. /\ stage'[t] = "working" /\ startedOn'[t] = branch
      /\ \A u \in Tasks \ {t} : stage'[u] = stage[u] /\ startedOn'[u] = startedOn[u]
  BY <1>0 DEF TypeOK
<1>2. Fixed  BY <1>0 DEF Fixed
<1>3. \A d \in Tasks : stage[d] = "collected" => d # t  OBVIOUS
<1>4. WorkIsThere'  BY <1>0 DEF SchedInv, WorkIsThere
<1>5. StagesFit'  BY <1>0, <1>1, <1>2, FixedNeeds DEF SchedInv, StagesFit, Remaining
<1>6. DependenciesBehind'
  <2> SUFFICES ASSUME NEW u \in Tasks, stage'[u] \in Begun, NEW d \in Needs(selected, u)
               PROVE  stage'[d] = "collected" /\ (opts.stop => result'[d] = "accepted")
    BY <1>0, <1>2, FixedNeeds DEF DependenciesBehind
  <2>1. d \in Tasks  BY DependsOnNeeds
  <2>2. stage[d] = "collected" /\ (opts.stop => result[d] = "accepted")
    BY <1>1 DEF SchedInv, DependenciesBehind
  <2> QED BY <1>1, <1>3, <2>1, <2>2
<1>7. AcceptedIsThere'  BY <1>0, <1>1 DEF SchedInv, AcceptedIsThere
<1>8. OneAtATime'  BY <1>1, <1>2, FixedNeeds DEF SchedInv, OneAtATime
<1>9. DependencyWorkVisible'
  <2>1. opts.stop /\ opts.accept = "merge" => plan.dependsOn[t] \subseteq branch
    BY BranchHoldsDependencies
  <2> QED BY <1>0, <1>1, <2>1 DEF SchedInv, DependencyWorkVisible
<1> QED BY <1>4, <1>5, <1>6, <1>7, <1>8, <1>9 DEF SchedInv

\* A task that returns with a result, the branch having grown by nothing but that task.
LEMMA ReturnSched ==
  ASSUME TypeOK, SchedInv, NEW t \in Tasks, NEW verdict \in Results \ {"none"}, Returns(t, verdict),
         branch \subseteq branch', landed' \subseteq landed \union {t}, t \in landed' => t \in branch',
         verdict = "accepted" /\ opts.accept = "merge" => t \in branch'
  PROVE  SchedInv'
<1>0. /\ stage[t] = "working" /\ stage' = [stage EXCEPT ![t] = "returned"]
      /\ result' = [result EXCEPT ![t] = verdict] /\ startedOn' = [startedOn EXCEPT ![t] = {}]
      /\ UNCHANGED <<plan, remembered, opts, selected>>
  BY DEF Returns, runVars
<1>1. /\ stage'[t] = "returned" /\ result'[t] = verdict
      /\ \A u \in Tasks \ {t} : /\ stage'[u] = stage[u] /\ result'[u] = result[u]
                                 /\ startedOn'[u] = startedOn[u]
  BY <1>0 DEF TypeOK
<1>2. Fixed  BY <1>0 DEF Fixed
<1>4. WorkIsThere'  BY <1>0 DEF SchedInv, WorkIsThere
<1>5. StagesFit'  BY <1>0, <1>1, <1>2, FixedNeeds DEF SchedInv, StagesFit, Remaining
<1>6. DependenciesBehind'
  <2> SUFFICES ASSUME NEW u \in Tasks, stage'[u] \in Begun, NEW d \in Needs(selected, u)
               PROVE  stage'[d] = "collected" /\ (opts.stop => result'[d] = "accepted")
    BY <1>0, <1>2, FixedNeeds DEF DependenciesBehind
  <2>1. d \in Tasks  BY DependsOnNeeds
  <2>2. stage[u] \in Begun  BY <1>0, <1>1 DEF Begun
  <2>3. stage[d] = "collected" /\ (opts.stop => result[d] = "accepted")
    BY <2>2 DEF SchedInv, DependenciesBehind
  <2> QED BY <1>0, <1>1, <2>1, <2>3
<1>7. AcceptedIsThere'  BY <1>0, <1>1 DEF SchedInv, AcceptedIsThere
<1>8. OneAtATime'  BY <1>0, <1>1, <1>2, FixedNeeds DEF SchedInv, OneAtATime, Begun
<1>9. DependencyWorkVisible'  BY <1>0, <1>1 DEF SchedInv, DependencyWorkVisible
<1> QED BY <1>4, <1>5, <1>6, <1>7, <1>8, <1>9 DEF SchedInv

LEMMA WorkerSched ==
  ASSUME TypeOK, SchedInv, NEW t \in Tasks, WorkerStep(t) PROVE SchedInv'
<1>1. CASE WorkerBegins(t)
  <2>1. Begin(t) /\ stage[t] = "submitted" /\ result' = result  BY <1>1 DEF WorkerBegins
  <2>2. \A d \in Needs(selected, t) : stage[d] = "collected" /\ (opts.stop => result[d] = "accepted")
    BY <2>1 DEF SchedInv, DependenciesBehind, Begun
  <2>3. ~ Parallel => \A u \in Tasks : stage[u] \in Begun => u = t
    BY <2>1 DEF SchedInv, OneAtATime, Begun
  <2> QED BY <2>1, <2>2, <2>3, BeginSched
<1>2. ASSUME NEW changed \in BOOLEAN, Accept(t, changed) PROVE SchedInv'
  <2>1. /\ Returns(t, "accepted") /\ branch \subseteq branch' /\ landed' \subseteq landed \union {t}
        /\ opts.accept = "merge" => t \in branch'
    BY <1>2 DEF Accept
  <2>2. t \in landed' => t \in branch'  BY <1>2 DEF Accept, SchedInv, WorkIsThere
  <2> QED BY <2>1, <2>2, ReturnSched DEF Results
<1>3. ASSUME NEW verdict \in {"failed", "escalated"}, Fail(t, verdict) PROVE SchedInv'
  BY <1>3, ReturnSched DEF Fail, Results, SchedInv, WorkIsThere
<1>4. CASE FailToFinalize(t)
  BY <1>4, ReturnSched DEF FailToFinalize, Results, SchedInv, WorkIsThere
<1>5. ASSUME NEW begun \in BOOLEAN, RaiseInTask(t, begun) PROVE SchedInv'
  BY <1>5, ReturnSched DEF RaiseInTask, Results, SchedInv, WorkIsThere
<1> QED BY <1>1, <1>2, <1>3, <1>4, <1>5 DEF WorkerStep

\* The scheduler notes results: begun tasks become collected ones, ready ones are submitted.
LEMMA CollectSched ==
  ASSUME TypeOK, SchedInv, NEW done \in SUBSET Tasks, Collect(done) PROVE SchedInv'
<1> DEFINE noted == [t \in Tasks |-> IF t \in done THEN "collected" ELSE stage[t]]
<1>0. /\ stage' = noted \/ stage' = Submit(noted)
      /\ \A t \in done : stage[t] = "returned"
      /\ UNCHANGED <<plan, branch, remembered, opts, selected, result, startedOn, landed>>
  BY DEF Collect, runVars
<1>1. noted \in [Tasks -> Stages]  BY DEF TypeOK, Stages
<1>2. \A t \in Tasks : noted[t] = IF t \in done THEN "collected" ELSE stage[t]  OBVIOUS
<1> HIDE DEF noted
<1>3. ASSUME NEW t \in Tasks
      PROVE  stage'[t] = noted[t] \/ (stage'[t] = "submitted" /\ Parallel /\ t \in Ready(noted))
  BY <1>0 DEF Submit
<1>4. ASSUME NEW t \in Tasks, t \in Ready(noted)
      PROVE  /\ stage[t] = "pending"
             /\ \A d \in Needs(selected, t) :
                    noted[d] = "collected" /\ (opts.stop => result[d] = "accepted")
  BY <1>1, <1>2, <1>4, ReadyFacts
<1>5. ASSUME NEW t \in Tasks PROVE noted[t] = "collected" => stage'[t] = "collected"
  BY <1>3, ReadyFacts, <1>1
<1>6. Fixed  BY <1>0 DEF Fixed
<1>7. WorkIsThere'  BY <1>0 DEF SchedInv, WorkIsThere
<1>8. StagesFit'
  <2>1. ASSUME NEW t \in Tasks PROVE stage[t] = "out" <=> stage'[t] = "out"
    BY <1>0, <1>2, <1>3, <1>4
  <2>2. ASSUME NEW t \in Tasks PROVE stage'[t] \in {"returned", "collected"} => result'[t] # "none"
    BY <1>0, <1>2, <1>3 DEF SchedInv, StagesFit
  <2>3. Remaining(selected) \subseteq Tasks  BY DEF Remaining, TypeOK
  <2> QED BY <1>0, <1>6, <2>1, <2>2, <2>3, FixedNeeds DEF SchedInv, StagesFit
<1>9. DependenciesBehind'
  <2> SUFFICES ASSUME NEW u \in Tasks, stage'[u] \in Begun, NEW d \in Needs(selected, u)
               PROVE  stage'[d] = "collected" /\ (opts.stop => result'[d] = "accepted")
    BY <1>0, <1>6, FixedNeeds DEF DependenciesBehind
  <2>1. d \in Tasks  BY DependsOnNeeds
  <2>2. noted[d] = "collected" /\ (opts.stop => result[d] = "accepted")
    <3>1. CASE u \in Ready(noted)  BY <3>1, <1>4
    <3>2. CASE u \notin Ready(noted)
      <4>1. stage[u] \in Begun  BY <3>2, <1>2, <1>3 DEF Begun
      <4> QED BY <4>1, <2>1, <1>2 DEF SchedInv, DependenciesBehind
    <3> QED BY <3>1, <3>2
  <2> QED BY <1>0, <1>5, <2>1, <2>2
<1>10. AcceptedIsThere'  BY <1>0, <1>2, <1>3 DEF SchedInv, AcceptedIsThere
<1>11. OneAtATime'
  <2>1. ASSUME NEW t \in Tasks, ~ Parallel, stage'[t] \in Begun PROVE stage[t] \in Begun
    BY <2>1, <1>2, <1>3 DEF Begun
  <2> QED BY <1>6, <2>1, FixedNeeds DEF SchedInv, OneAtATime
<1>12. DependencyWorkVisible'  BY <1>0, <1>2, <1>3 DEF SchedInv, DependencyWorkVisible
<1> QED BY <1>7, <1>8, <1>9, <1>10, <1>11, <1>12 DEF SchedInv

LEMMA SchedulerSched ==
  ASSUME TypeOK, SchedInv, SchedulerStep PROVE SchedInv'
<1>1. ASSUME NEW t \in Tasks, TakeNext(t) PROVE SchedInv'
  <2>1. Begin(t) /\ result' = result /\ t \in Ready(stage) /\ InFlight = {}
    BY <1>1 DEF TakeNext
  <2>2. /\ stage[t] = "pending"
        /\ \A d \in Needs(selected, t) : stage[d] = "collected" /\ (opts.stop => result[d] = "accepted")
    BY <2>1, ReadyFacts DEF TypeOK
  <2>3. \A u \in Tasks : stage[u] \notin Begun  BY <2>1 DEF InFlight, Begun
  <2> QED BY <2>1, <2>2, <2>3, BeginSched
<1>2. ASSUME NEW t \in Tasks, Rerun(t) PROVE SchedInv'
  <2>1. Begin(t) /\ stage[t] = "returned" /\ result' = [result EXCEPT ![t] = "none"]
    BY <1>2 DEF Rerun
  <2>2. \A u \in Tasks \ {t} : result'[u] = result[u]  BY <2>1 DEF TypeOK
  <2>3. \A d \in Needs(selected, t) : stage[d] = "collected" /\ (opts.stop => result[d] = "accepted")
    BY <2>1 DEF SchedInv, DependenciesBehind, Begun
  <2>4. ~ Parallel => \A u \in Tasks : stage[u] \in Begun => u = t
    BY <2>1 DEF SchedInv, OneAtATime, Begun
  <2> QED BY <2>1, <2>2, <2>3, <2>4, BeginSched
<1>3. ASSUME NEW done \in SUBSET Tasks, Collect(done) PROVE SchedInv'  BY <1>3, CollectSched
<1>4. ASSUME NEW scopeAllowed \in BOOLEAN, EndExecution(scopeAllowed) PROVE SchedInv'
  BY <1>4, SchedFrame DEF EndExecution, runVars, taskVars
<1>5. CASE RaiseUnsatisfied
  BY <1>5, SchedReset DEF RaiseUnsatisfied, SchedInv, WorkIsThere
<1>6. CASE Drained
  BY <1>6, SchedReset DEF Drained, SchedInv, WorkIsThere
<1> QED BY <1>1, <1>2, <1>3, <1>4, <1>5, <1>6 DEF SchedulerStep

\* What judges the release leaves the scheduler's state alone until the summary is written.
LEMMA JudgeFrame ==
  ASSUME JudgeStep, ~ WriteSummary
  PROVE  UNCHANGED <<plan, branch, remembered, opts, selected, stage, result, startedOn, landed>>
  BY DEF JudgeStep, ReviewAccepts, ReviewRejects, OverBudget, Verify, SkipVerification, Finalize,
         runVars, taskVars

LEMMA JudgeSched ==
  ASSUME TypeOK, SchedInv, JudgeStep PROVE SchedInv'
<1>1. CASE WriteSummary
  BY <1>1, SchedReset DEF WriteSummary, SchedInv, WorkIsThere
<1>2. CASE ~ WriteSummary  BY <1>2, JudgeFrame, SchedFrame
<1> QED BY <1>1, <1>2

-----------------------------------------------------------------------------
(* The decision: what the phase of a run says about it.                    *)

DecisionInv ==
    /\ phase = "idle" => Blank
    /\ phase \in {"idle", "executing", "draining"} => decision = "none"
    /\ phase = "review" => decision = "accepted"
    /\ AcceptedReleaseIsWhole
    /\ ContinueTriesEveryTask

VerificationInv ==
    /\ phase \in {"idle", "executing", "draining", "review"} => ~ checked
    /\ phase = "verify" /\ decision = "accepted" /\ checked => proof = "passed"
    /\ phase = "finalize" /\ decision = "accepted" /\ merges => proof = "passed"

ReleaseInv == TypeOK /\ SchedInv /\ DecisionInv /\ VerificationInv

LEMMA ResetDecision == ASSUME Reset PROVE DecisionInv' /\ VerificationInv'
<1>1. phase' = "idle" /\ decision' = "none" /\ checked' = FALSE  BY DEF Reset
<1>2. Blank'  BY ResetBlank
<1> QED BY <1>1, <1>2
        DEF DecisionInv, VerificationInv, AcceptedReleaseIsWhole, ContinueTriesEveryTask

\* While tasks are executed there is no decision and no verification.
LEMMA ExecutingDecision ==
  ASSUME DecisionInv, VerificationInv, phase \in {"idle", "executing", "draining"},
         phase' \in {"executing", "draining"}, UNCHANGED <<decision, checked>>
  PROVE  DecisionInv' /\ VerificationInv'
<1>1. phase' \notin {"idle", "review", "verify", "finalize", "summary"}  OBVIOUS
<1>2. decision' = "none" /\ ~ checked'  BY DEF DecisionInv, VerificationInv
<1> QED BY <1>1, <1>2
        DEF DecisionInv, VerificationInv, AcceptedReleaseIsWhole, ContinueTriesEveryTask

\* When the scheduler is done, every contract of the run is recorded or collected, unless a
\* failure stopped it.
LEMMA EveryTaskCollected ==
  ASSUME TypeOK, SchedInv, SchedulerDone
  PROVE  (opts.stop /\ SomeFailed(stage)) \/ \A t \in Remaining(selected) : t \in Ran
<1> SUFFICES ASSUME Pending = {}, NEW t \in Remaining(selected) PROVE t \in Ran
  BY DEF SchedulerDone
<1>1. t \in Tasks  BY DEF Remaining, TypeOK
<1>2. stage[t] \in Stages \ {"out"}  BY <1>1 DEF SchedInv, StagesFit, TypeOK
<1> QED BY <1>1, <1>2 DEF Pending, SchedulerDone, InFlight, Ran, Stages

\* An accepting decision over the results leaves out no contract.
LEMMA WholeWhenDecided ==
  ASSUME TypeOK, SchedInv, SchedulerDone, TaskDecision = "accepted"
  PROVE  \A t \in selected : /\ t \in remembered \/ result[t] = "accepted"
                             /\ opts.accept = "merge" => t \in branch
<1>1. \A t \in Ran : t \in Tasks /\ stage[t] = "collected" /\ result[t] = "accepted"
  BY DEF TaskDecision, ReleaseDecision, Ran
<1>2. ~ SomeFailed(stage)  BY <1>1 DEF SomeFailed, Ran
<1>3. \A t \in Remaining(selected) : t \in Ran  BY <1>2, EveryTaskCollected
<1> SUFFICES ASSUME NEW t \in selected
             PROVE  /\ t \in remembered \/ result[t] = "accepted"
                    /\ opts.accept = "merge" => t \in branch
  OBVIOUS
<1>4. CASE t \in remembered  BY <1>4 DEF SchedInv, WorkIsThere
<1>5. CASE t \notin remembered
  <2>1. t \in Ran  BY <1>3, <1>5 DEF Remaining
  <2> QED BY <1>1, <2>1 DEF SchedInv, AcceptedIsThere
<1> QED BY <1>4, <1>5

LEMMA EndDecision ==
  ASSUME ReleaseInv, NEW scopeAllowed \in BOOLEAN, EndExecution(scopeAllowed)
  PROVE  DecisionInv' /\ VerificationInv'
<1>0. /\ SchedulerDone /\ phase = "executing" /\ phase' \in {"review", "verify"}
      /\ phase' = "review" => decision' = "accepted"
      /\ decision' = "accepted" => TaskDecision = "accepted"
      /\ UNCHANGED <<plan, branch, remembered, opts, selected, stage, result, checked>>
  BY DEF EndExecution, runVars, taskVars
<1>1. AcceptedReleaseIsWhole'
  BY <1>0, WholeWhenDecided DEF ReleaseInv, AcceptedReleaseIsWhole
<1>2. ContinueTriesEveryTask'
  <2> SUFFICES ASSUME ~ opts.stop, NEW t \in Remaining(selected) PROVE result[t] # "none"
    BY <1>0 DEF ContinueTriesEveryTask, Remaining
  <2>1. t \in Ran  BY <1>0, EveryTaskCollected DEF ReleaseInv
  <2> QED BY <2>1 DEF Ran, ReleaseInv, SchedInv, StagesFit
<1>3. ~ checked'  BY <1>0 DEF ReleaseInv, VerificationInv
<1> QED BY <1>0, <1>1, <1>2, <1>3 DEF DecisionInv, VerificationInv

\* A judging step keeps an accepted release whole, since it accepts none that was not.
LEMMA JudgeWhole ==
  ASSUME ReleaseInv, phase \in {"review", "verify", "finalize", "summary"},
         phase' \in {"verify", "finalize", "summary"},
         decision' = "accepted" => decision = "accepted",
         UNCHANGED <<plan, branch, remembered, opts, selected, result>>
  PROVE  DecisionInv'
<1>1. AcceptedReleaseIsWhole'  BY DEF ReleaseInv, DecisionInv, AcceptedReleaseIsWhole
<1>2. ContinueTriesEveryTask'
  BY DEF ReleaseInv, DecisionInv, ContinueTriesEveryTask, Remaining
<1> QED BY <1>1, <1>2 DEF DecisionInv

LEMMA JudgeDecision ==
  ASSUME ReleaseInv, JudgeStep PROVE DecisionInv' /\ VerificationInv'
<1> USE DEF VerificationInv, runVars, taskVars
<1>1. ASSUME NEW repaired \in BOOLEAN, NEW verified \in BOOLEAN, ReviewAccepts(repaired, verified)
      PROVE  DecisionInv' /\ VerificationInv'
  <2>1. DecisionInv'  BY <1>1, JudgeWhole DEF ReviewAccepts, ReleaseInv, DecisionInv
  <2> QED BY <1>1, <2>1 DEF ReviewAccepts
<1>2. ASSUME NEW verdict \in {"needs_revision", "escalated"}, NEW repaired \in BOOLEAN,
             NEW left \in BOOLEAN, NEW final \in {"none", "passed", "failed"},
             ReviewRejects(verdict, repaired, left, final)
      PROVE  DecisionInv' /\ VerificationInv'
  <2>1. DecisionInv'  BY <1>2, JudgeWhole DEF ReviewRejects
  <2> QED BY <1>2, <2>1 DEF ReviewRejects
<1>3. CASE OverBudget
  <2>1. DecisionInv'  BY <1>3, JudgeWhole DEF OverBudget
  <2> QED BY <1>3, <2>1 DEF OverBudget
<1>4. ASSUME NEW passes \in BOOLEAN, Verify(passes) PROVE DecisionInv' /\ VerificationInv'
  <2>1. DecisionInv'  BY <1>4, JudgeWhole DEF Verify, VerificationDue
  <2> QED BY <1>4, <2>1 DEF Verify
<1>5. CASE SkipVerification
  <2>1. DecisionInv'  BY <1>5, JudgeWhole DEF SkipVerification
  <2> QED BY <1>5, <2>1 DEF SkipVerification, VerificationDue, ReleaseInv, TypeOK
<1>6. ASSUME NEW gitWorks \in BOOLEAN, Finalize(gitWorks) PROVE DecisionInv' /\ VerificationInv'
  <2>1. DecisionInv'  BY <1>6, JudgeWhole DEF Finalize
  <2> QED BY <1>6, <2>1 DEF Finalize
<1>7. CASE WriteSummary  BY <1>7, ResetDecision DEF WriteSummary
<1> QED BY <1>1, <1>2, <1>3, <1>4, <1>5, <1>6, <1>7 DEF JudgeStep

LEMMA InvInit == Init => ReleaseInv
<1> SUFFICES ASSUME Init PROVE ReleaseInv  OBVIOUS
<1>1. Blank /\ remembered \subseteq branch  BY DEF Init, Blank
<1>2. DecisionInv /\ VerificationInv
  BY <1>1 DEF Init, DecisionInv, VerificationInv, AcceptedReleaseIsWhole, ContinueTriesEveryTask
<1> QED BY <1>1, <1>2, BlankSched, TypeInit DEF ReleaseInv

LEMMA InvStep == ReleaseInv /\ [Next]_vars => ReleaseInv'
<1> SUFFICES ASSUME ReleaseInv, [Next]_vars PROVE ReleaseInv'  OBVIOUS
<1>0. TypeOK'  BY TypeStep DEF ReleaseInv
<1>1. ASSUME NEW o \in Options, NEW chosen \in Selections, StartRun(o, chosen)
      PROVE  SchedInv' /\ DecisionInv' /\ VerificationInv'
  <2>1. phase = "idle" /\ phase' = "executing" /\ UNCHANGED <<decision, checked>>
    BY <1>1 DEF StartRun
  <2>2. Blank  BY <2>1 DEF ReleaseInv, DecisionInv
  <2> QED BY <1>1, <2>1, <2>2, StartSched, ExecutingDecision DEF ReleaseInv
<1>2. ASSUME NEW t \in Tasks, WorkerStep(t) PROVE SchedInv' /\ DecisionInv' /\ VerificationInv'
  <2>1. /\ phase \in {"executing", "draining"} /\ UNCHANGED <<phase, decision, checked>>
    BY <1>2 DEF WorkerStep, WorkerBegins, Begin, Accept, Fail, FailToFinalize, RaiseInTask, Returns
  <2> QED BY <1>2, <2>1, WorkerSched, ExecutingDecision DEF ReleaseInv
<1>3. ASSUME SchedulerStep PROVE SchedInv' /\ DecisionInv' /\ VerificationInv'
  <2>1. SchedInv'  BY <1>3, SchedulerSched DEF ReleaseInv
  <2>2. ASSUME NEW t \in Tasks, TakeNext(t) \/ Rerun(t) PROVE DecisionInv' /\ VerificationInv'
    <3>1. phase = "executing" /\ UNCHANGED <<phase, decision, checked>>
      BY <2>2 DEF TakeNext, Rerun, Begin
    <3> QED BY <3>1, ExecutingDecision DEF ReleaseInv
  <2>3. ASSUME NEW done \in SUBSET Tasks, Collect(done) PROVE DecisionInv' /\ VerificationInv'
    <3>1. /\ phase = "executing" /\ phase' \in {"executing", "draining"}
          /\ UNCHANGED <<decision, checked>>
      BY <2>3 DEF Collect
    <3> QED BY <3>1, ExecutingDecision DEF ReleaseInv
  <2>4. ASSUME NEW scopeAllowed \in BOOLEAN, EndExecution(scopeAllowed)
        PROVE  DecisionInv' /\ VerificationInv'
    BY <2>4, EndDecision
  <2>5. ASSUME RaiseUnsatisfied \/ Drained PROVE DecisionInv' /\ VerificationInv'
    BY <2>5, ResetDecision DEF RaiseUnsatisfied, Drained
  <2> QED BY <1>3, <2>1, <2>2, <2>3, <2>4, <2>5 DEF SchedulerStep
<1>4. ASSUME JudgeStep PROVE SchedInv' /\ DecisionInv' /\ VerificationInv'
  BY <1>4, JudgeSched, JudgeDecision DEF ReleaseInv
<1>5. ASSUME Crash PROVE SchedInv' /\ DecisionInv' /\ VerificationInv'
  <2>1. Reset /\ remembered' \subseteq branch
    BY <1>5 DEF Crash, ReleaseInv, SchedInv, WorkIsThere
  <2> QED BY <2>1, SchedReset, ResetDecision
<1>6. ASSUME Tidy \/ UNCHANGED vars PROVE SchedInv' /\ DecisionInv' /\ VerificationInv'
  <2>1. UNCHANGED <<plan, branch, remembered, opts, selected, stage, result, startedOn, landed,
                    phase, decision, merges, checked, proof>>
    BY <1>6 DEF Tidy, vars, runVars, taskVars
  <2>2. SchedInv'  BY <2>1, SchedFrame DEF ReleaseInv
  <2>3. DecisionInv'
    BY <2>1 DEF ReleaseInv, DecisionInv, Blank, AcceptedReleaseIsWhole, ContinueTriesEveryTask,
                Remaining
  <2> QED BY <2>1, <2>2, <2>3 DEF ReleaseInv, VerificationInv
<1> QED BY <1>0, <1>1, <1>2, <1>3, <1>4, <1>5, <1>6 DEF Next, ReleaseInv

-----------------------------------------------------------------------------
(* The theorems.                                                           *)

LEMMA InvAlways == Spec => []ReleaseInv
  BY InvInit, InvStep, PTL DEF Spec

\* A task recorded as done in any summary has its work on the integration branch, however the
\* runs were interrupted and whatever flags the next ones are started with.
THEOREM RememberedIsThere == Spec => []RememberedWorkIsThere
<1>1. ReleaseInv => RememberedWorkIsThere
  BY DEF ReleaseInv, SchedInv, WorkIsThere, RememberedWorkIsThere
<1> QED BY <1>1, InvAlways, PTL

\* Under --merge-on-accept every task starts from the work of everything it depends on.
THEOREM DependenciesVisible == Spec => []DependencyWorkVisible
<1>1. ReleaseInv => DependencyWorkVisible  BY DEF ReleaseInv, SchedInv
<1> QED BY <1>1, InvAlways, PTL

\* Tasks with overlapping contracts never run at the same time: a parallel run has no overlap
\* among its contracts, and a sequential one has one task in hand.
THEOREM OverlapsApart == Spec => []OverlapsNeverConcurrent
<1>1. ASSUME ReleaseInv PROVE OverlapsNeverConcurrent
  <2> SUFFICES ASSUME NEW t \in Tasks, NEW u \in Tasks, t # u, stage[t] = "working",
                      stage[u] = "working", {t, u} \in plan.minor \union plan.unsafe
               PROVE  FALSE
    BY DEF OverlapsNeverConcurrent
  <2>1. Parallel  BY <1>1 DEF ReleaseInv, SchedInv, OneAtATime, Begun
  <2>2. t \in selected /\ u \in selected  BY <1>1 DEF ReleaseInv, SchedInv, StagesFit
  <2>3. {t, u} \subseteq selected  BY <2>2
  <2>4. {t, u} \in Overlaps(selected)  BY <2>3 DEF Overlaps
  <2> QED BY <2>1, <2>4 DEF Parallel, ParallelAction
<1> QED BY <1>1, InvAlways, PTL

\* No release is accepted with a contract left out.
THEOREM AcceptedIsWhole == Spec => []AcceptedReleaseIsWhole
<1>1. ReleaseInv => AcceptedReleaseIsWhole  BY DEF ReleaseInv, DecisionInv
<1> QED BY <1>1, InvAlways, PTL

\* A run told to continue after failures has a result for every task when it decides.
THEOREM EveryTaskTried == Spec => []ContinueTriesEveryTask
<1>1. ReleaseInv => ContinueTriesEveryTask  BY DEF ReleaseInv, DecisionInv
<1> QED BY <1>1, InvAlways, PTL

\* A run that merged hands over only what its final verification passed.
THEOREM HandOverVerified == Spec => MergedRunsAreVerified
<1>1. ASSUME ReleaseInv, [Next]_vars, published' # published, merges PROVE proof = "passed"
  <2>1. \E gitWorks \in BOOLEAN : Finalize(gitWorks)
    BY <1>1 DEF Next, vars, runVars, StartRun, WorkerStep, WorkerBegins, Begin, Accept, Fail,
                FailToFinalize, RaiseInTask, Returns, SchedulerStep, TakeNext, Rerun, Collect,
                EndExecution, RaiseUnsatisfied, Drained, Reset, JudgeStep, ReviewAccepts,
                ReviewRejects, OverBudget, Verify, SkipVerification, WriteSummary, Crash, Tidy
  <2>2. phase = "finalize" /\ decision = "accepted"  BY <1>1, <2>1 DEF Finalize
  <2> QED BY <1>1, <2>2 DEF ReleaseInv, VerificationInv
<1>2. ReleaseInv /\ [Next]_vars => [published' # published /\ merges => proof = "passed"]_vars
  BY <1>1
<1> QED BY <1>2, InvAlways, PTL DEF Spec, MergedRunsAreVerified

-----------------------------------------------------------------------------
(* Why a run ends.                                                         *)

\* A step of one task alone, up or into its next rerun.
LEMMA OneAdvances ==
  ASSUME TypeOK, NEW t \in Tasks, phase' = phase, stage[t] # "collected",
         \A u \in Tasks \ {t} : stage'[u] = stage[u] /\ reruns'[u] = reruns[u],
         \/ reruns'[t] = reruns[t] /\ StageRank[stage'[t]] > StageRank[stage[t]]
         \/ reruns'[t] = reruns[t] + 1 /\ reruns'[t] <= MaxReruns
  PROVE  /\ phase' = phase
         /\ \A u \in Tasks : Advances(u) \/ (stage'[u] = stage[u] /\ reruns'[u] = reruns[u])
         /\ \E u \in Tasks : Advances(u)
<1>1. Advances(t)  BY DEF Advances
<1> QED BY <1>1

LEMMA RunStepAdvances ==
  ASSUME TypeOK, [Next]_vars, phase # "idle", phase' # "idle", ~ UNCHANGED vars
  PROVE  \/ PhaseRank[phase'] > PhaseRank[phase]
         \/ /\ phase' = phase
            /\ \A t \in Tasks : Advances(t) \/ (stage'[t] = stage[t] /\ reruns'[t] = reruns[t])
            /\ \E t \in Tasks : Advances(t)
<1> DEFINE Goal == \/ PhaseRank[phase'] > PhaseRank[phase]
                   \/ /\ phase' = phase
                      /\ \A t \in Tasks : \/ Advances(t)
                                          \/ stage'[t] = stage[t] /\ reruns'[t] = reruns[t]
                      /\ \E t \in Tasks : Advances(t)
<1>1. ASSUME NEW t \in Tasks, WorkerStep(t) PROVE Goal
  <2>1. /\ phase' = phase /\ reruns' = reruns
        /\ \/ stage[t] = "submitted" /\ stage' = [stage EXCEPT ![t] = "working"]
           \/ stage[t] = "working" /\ stage' = [stage EXCEPT ![t] = "returned"]
    BY <1>1 DEF WorkerStep, WorkerBegins, Begin, Accept, Fail, FailToFinalize, RaiseInTask, Returns
  <2>2. /\ \A u \in Tasks \ {t} : stage'[u] = stage[u]
        /\ \/ stage[t] = "submitted" /\ stage'[t] = "working"
           \/ stage[t] = "working" /\ stage'[t] = "returned"
    BY <2>1 DEF TypeOK
  <2>3. StageRank[stage'[t]] > StageRank[stage[t]]  BY <2>2 DEF StageRank
  <2> QED BY <2>1, <2>2, <2>3, OneAdvances
<1>2. ASSUME NEW t \in Tasks, TakeNext(t) PROVE Goal
  <2>1. /\ phase' = phase /\ reruns' = reruns /\ stage[t] = "pending"
        /\ stage' = [stage EXCEPT ![t] = "working"]
    BY <1>2 DEF TakeNext, Begin, Ready
  <2>2. stage'[t] = "working" /\ \A u \in Tasks \ {t} : stage'[u] = stage[u]
    BY <2>1 DEF TypeOK
  <2>3. StageRank[stage'[t]] > StageRank[stage[t]]  BY <2>1, <2>2 DEF StageRank
  <2> QED BY <2>1, <2>2, <2>3, OneAdvances
<1>3. ASSUME NEW t \in Tasks, Rerun(t) PROVE Goal
  <2>1. /\ phase' = phase /\ stage[t] = "returned" /\ stage' = [stage EXCEPT ![t] = "working"]
        /\ reruns' = [reruns EXCEPT ![t] = @ + 1] /\ reruns[t] < MaxReruns
    BY <1>3 DEF Rerun, Begin
  <2>2. /\ \A u \in Tasks \ {t} : stage'[u] = stage[u] /\ reruns'[u] = reruns[u]
        /\ reruns'[t] = reruns[t] + 1 /\ reruns'[t] <= MaxReruns
    BY <2>1, BoundsAssumption DEF TypeOK
  <2> QED BY <2>1, <2>2, OneAdvances
<1>4. ASSUME NEW done \in SUBSET Tasks, Collect(done) PROVE Goal
  <2>1. CASE \E t \in done : result[t] = "raised"
    BY <1>4, <2>1 DEF Collect, PhaseRank
  <2>2. CASE ~ \E t \in done : result[t] = "raised"
    <3> DEFINE noted == [t \in Tasks |-> IF t \in done THEN "collected" ELSE stage[t]]
    <3>1. phase' = phase /\ stage' = Submit(noted)  BY <1>4, <2>2 DEF Collect
    <3>2. ASSUME NEW t \in done PROVE Advances(t)
      <4>1. t \in Tasks /\ stage[t] = "returned" /\ noted[t] = "collected"  BY <1>4 DEF Collect
      <4>2. stage'[t] = "collected"  BY <3>1, <4>1 DEF Submit, Ready
      <4> QED BY <4>1, <4>2 DEF Advances
    <3>3. ASSUME NEW t \in Tasks \ done
          PROVE  Advances(t) \/ (stage'[t] = stage[t] /\ reruns'[t] = reruns[t])
      <4>1. noted[t] = stage[t] /\ reruns'[t] = reruns[t]  BY <1>4 DEF Collect
      <4>2. CASE stage'[t] = stage[t]  BY <4>1, <4>2
      <4>3. CASE stage'[t] # stage[t]
        <5>1. stage[t] = "pending" /\ stage'[t] = "submitted"
          BY <3>1, <4>1, <4>3 DEF Submit, Ready
        <5> QED BY <4>1, <5>1 DEF Advances, StageRank
      <4> QED BY <4>2, <4>3
    <3>4. done # {}  BY <1>4 DEF Collect
    <3> QED BY <3>1, <3>2, <3>3, <3>4
  <2> QED BY <2>1, <2>2
<1>5. ASSUME NEW scopeAllowed \in BOOLEAN, EndExecution(scopeAllowed) PROVE Goal
  BY <1>5 DEF EndExecution, PhaseRank
<1>6. CASE JudgeStep
  BY <1>6 DEF JudgeStep, ReviewAccepts, ReviewRejects, OverBudget, Verify, SkipVerification,
              Finalize, WriteSummary, Reset, PhaseRank
<1>7. CASE SchedulerStep
  BY <1>2, <1>3, <1>4, <1>5, <1>7 DEF SchedulerStep, RaiseUnsatisfied, Drained, Reset
<1> QED BY <1>1, <1>6, <1>7 DEF Next, StartRun, Crash, Reset, Tidy

\* No step of a run goes back, for any plan and any budget of reruns: a run has at most as many
\* steps as its phases and the stages of its tasks, times their reruns, leave room for.
THEOREM EveryStepAdvances == Spec => RunAdvances
<1>1. TypeOK /\ [Next]_vars =>
        [phase # "idle" /\ phase' # "idle" =>
           \/ PhaseRank[phase'] > PhaseRank[phase]
           \/ /\ phase' = phase
              /\ \A t \in Tasks : Advances(t) \/ (stage'[t] = stage[t] /\ reruns'[t] = reruns[t])
              /\ \E t \in Tasks : Advances(t)]_vars
  BY RunStepAdvances
<1> QED BY <1>1, ReleaseType, PTL DEF Spec, RunAdvances

-----------------------------------------------------------------------------
(* The refinement of ReleaseLedger.                                        *)

\* A task the run executes is one that no earlier run has recorded, and has no result yet
\* before it returns.
TaskInv ==
    /\ \A t \in Tasks : stage[t] # "out" => t \notin remembered
    /\ \A t \in Tasks : stage[t] \in {"pending", "submitted", "working"} => result[t] = "none"

LEMMA TaskInvReset == ASSUME Reset PROVE TaskInv'
<1>1. \A t \in Tasks : stage'[t] = "out"  BY DEF Reset, All
<1> QED BY <1>1 DEF TaskInv

LEMMA TaskInvInit == Init => TaskInv
  BY DEF Init, TaskInv, All

\* The steps of one task, and those of the scheduler.
LEMMA TaskInvTask ==
  ASSUME ReleaseInv, TaskInv, NEW t \in Tasks, WorkerStep(t) \/ TakeNext(t) \/ Rerun(t)
  PROVE  TaskInv'
<1> USE DEF ReleaseInv, TypeOK
<1>1. stage[t] # "out" /\ remembered' = remembered /\ \A u \in Tasks \ {t} :
        stage'[u] = stage[u] /\ result'[u] = result[u]
  BY DEF WorkerStep, WorkerBegins, Begin, Accept, Fail, FailToFinalize, RaiseInTask, Returns,
         TakeNext, Rerun, Ready
<1>2. stage'[t] = "returned" \/ result'[t] = "none"
  BY DEF WorkerStep, WorkerBegins, Begin, Accept, Fail, FailToFinalize, RaiseInTask, Returns,
         TakeNext, Rerun, Ready, TaskInv
<1> QED BY <1>1, <1>2 DEF TaskInv

LEMMA TaskInvCollect ==
  ASSUME TaskInv, NEW done \in SUBSET Tasks, Collect(done) PROVE TaskInv'
<1>1. remembered' = remembered /\ result' = result  BY DEF Collect
<1>2. ASSUME NEW t \in Tasks
      PROVE  \/ stage'[t] = stage[t]
             \/ stage[t] \in {"pending", "returned"} /\ stage'[t] \in {"submitted", "collected"}
                /\ (stage'[t] = "submitted" => stage[t] = "pending")
  BY DEF Collect, Submit, Ready
<1> QED BY <1>1, <1>2 DEF TaskInv

LEMMA TaskInvStep == ReleaseInv /\ TaskInv /\ [Next]_vars => TaskInv'
<1> SUFFICES ASSUME ReleaseInv, TaskInv, [Next]_vars PROVE TaskInv'  OBVIOUS
<1>1. ASSUME NEW o \in Options, NEW chosen \in Selections, StartRun(o, chosen) PROVE TaskInv'
  <2>1. Blank  BY <1>1 DEF StartRun, ReleaseInv, DecisionInv
  <2>2. \A t \in Tasks : result'[t] = "none"  BY <1>1, <2>1 DEF StartRun, Blank, All
  <2>3. \A t \in Tasks : stage'[t] # "out" => t \notin remembered'
    BY <1>1 DEF StartRun, Remaining
  <2> QED BY <2>2, <2>3 DEF TaskInv
<1>2. ASSUME NEW t \in Tasks, WorkerStep(t) \/ TakeNext(t) \/ Rerun(t) PROVE TaskInv'
  BY <1>2, TaskInvTask
<1>3. ASSUME NEW done \in SUBSET Tasks, Collect(done) PROVE TaskInv'  BY <1>3, TaskInvCollect
<1>4. CASE RaiseUnsatisfied \/ Drained \/ WriteSummary \/ Crash
  BY <1>4, TaskInvReset DEF RaiseUnsatisfied, Drained, WriteSummary, Crash
<1>5. ASSUME UNCHANGED <<stage, result, remembered>> PROVE TaskInv'  BY <1>5 DEF TaskInv
<1>6. ASSUME NEW scopeAllowed \in BOOLEAN, EndExecution(scopeAllowed) PROVE TaskInv'
  BY <1>5, <1>6 DEF EndExecution, taskVars
<1>7. CASE JudgeStep /\ ~ WriteSummary
  BY <1>5, <1>7, JudgeFrame
<1>8. CASE Tidy \/ UNCHANGED vars  BY <1>5, <1>8 DEF Tidy, vars, taskVars
<1> QED BY <1>1, <1>2, <1>3, <1>4, <1>6, <1>7, <1>8 DEF Next, SchedulerStep

LEMMA LedgerInit == Init => Ledger!Init
<1> SUFFICES ASSUME Init PROVE Ledger!Init  OBVIOUS
<1>1. Accepted = {}  BY DEF Init, Accepted, All
<1> QED BY <1>1 DEF Init, Standing, Ledger!Init

\* A step that the ledger does not see.
LEMMA LedgerStutters ==
  ASSUME Standing' = Standing,
         UNCHANGED <<opts, selected, branch, remembered, published>>, Accepted' = Accepted
  PROVE  UNCHANGED Ledger!vars
  BY DEF Ledger!vars

LEMMA SameAccepted == ASSUME result' = result PROVE Accepted' = Accepted
  BY DEF Accepted

\* The end of a run, if it records nothing.
LEMMA LedgerAbandon ==
  ASSUME Reset, phase # "idle", TypeOK, remembered' = remembered PROVE Ledger!Abandon
<1>1. Standing' = "off" /\ Standing # "off"
  BY DEF Reset, Standing, TypeOK, Phases
<1>2. Accepted' = {}  BY DEF Reset, Accepted, All
<1> QED BY <1>1, <1>2 DEF Reset, Ledger!Abandon, Ledger!Clear

\* A task begins, returns accepted, or returns with another verdict.
LEMMA LedgerTask ==
  ASSUME ReleaseInv, TaskInv, NEW t \in Tasks, WorkerStep(t) PROVE Ledger!Next \/ UNCHANGED Ledger!vars
<1> USE DEF ReleaseInv, TypeOK
<1>0. Standing = "working" /\ phase' = phase /\ UNCHANGED <<opts, selected, remembered, published>>
  BY DEF WorkerStep, WorkerBegins, Begin, Accept, Fail, FailToFinalize, RaiseInTask, Returns,
         Standing, runVars
<1>1. Standing' = Standing  BY <1>0 DEF Standing
<1>2. CASE WorkerBegins(t)
  <2>1. branch' = branch /\ Accepted' = Accepted
    BY <1>2, SameAccepted DEF WorkerBegins, Begin
  <2> QED BY <1>0, <1>1, <2>1, LedgerStutters
<1>3. ASSUME NEW changed \in BOOLEAN, Accept(t, changed) PROVE Ledger!Accept(t)
  <2>1. stage[t] = "working" /\ result' = [result EXCEPT ![t] = "accepted"]
    BY <1>3 DEF Accept, Returns
  <2>2. t \in selected /\ t \notin remembered /\ result[t] = "none"
    BY <2>1 DEF SchedInv, StagesFit, TaskInv
  <2>3. Accepted' = Accepted \union {t} /\ t \notin Accepted
    BY <2>1, <2>2 DEF Accepted
  <2>4. /\ branch' \in {branch, branch \union {t}}
        /\ opts.accept = "merge" => t \in branch'
    BY <1>3 DEF Accept
  <2> QED BY <1>0, <1>1, <2>2, <2>3, <2>4 DEF Ledger!Accept
<1>4. ASSUME NEW verdict \in {"failed", "escalated", "raised"}, Returns(t, verdict), branch' = branch
      PROVE  UNCHANGED Ledger!vars
  <2>1. stage[t] = "working" /\ result' = [result EXCEPT ![t] = verdict]
    BY <1>4 DEF Returns
  <2>2. result[t] = "none"  BY <2>1 DEF TaskInv
  <2>3. Accepted' = Accepted  BY <2>1, <2>2 DEF Accepted
  <2> QED BY <1>0, <1>1, <1>4, <2>3, LedgerStutters
<1>5. CASE \E verdict \in {"failed", "escalated"} : Fail(t, verdict)
  BY <1>4, <1>5 DEF Fail
<1>6. CASE FailToFinalize(t)  BY <1>4, <1>6 DEF FailToFinalize
<1>7. CASE \E begun \in BOOLEAN : RaiseInTask(t, begun)  BY <1>4, <1>7 DEF RaiseInTask
<1>8. CASE \E changed \in BOOLEAN : Accept(t, changed)  BY <1>3, <1>8 DEF Ledger!Next
<1> QED BY <1>2, <1>5, <1>6, <1>7, <1>8 DEF WorkerStep

LEMMA LedgerScheduler ==
  ASSUME ReleaseInv, TaskInv, SchedulerStep PROVE Ledger!Next \/ UNCHANGED Ledger!vars
<1> USE DEF ReleaseInv, TypeOK
<1>1. ASSUME NEW t \in Tasks, TakeNext(t) \/ Rerun(t) PROVE UNCHANGED Ledger!vars
  <2>1. /\ UNCHANGED <<phase, opts, selected, branch, remembered, published>>
        /\ result' = result \/ (result[t] = "failed" /\ result' = [result EXCEPT ![t] = "none"])
    BY <1>1 DEF TakeNext, Rerun, Begin, runVars
  <2>2. Accepted' = Accepted  BY <2>1 DEF Accepted
  <2> QED BY <2>1, <2>2, LedgerStutters DEF Standing
<1>2. ASSUME NEW done \in SUBSET Tasks, Collect(done) PROVE UNCHANGED Ledger!vars
  <2>1. /\ phase = "executing" /\ phase' \in {"executing", "draining"}
        /\ UNCHANGED <<opts, selected, branch, remembered, published, result>>
    BY <1>2 DEF Collect, runVars
  <2> QED BY <2>1, SameAccepted, LedgerStutters DEF Standing
<1>3. ASSUME NEW scopeAllowed \in BOOLEAN, EndExecution(scopeAllowed) PROVE Ledger!Judge
  <2>1. /\ phase = "executing" /\ phase' \in {"review", "verify"}
        /\ UNCHANGED <<opts, selected, branch, remembered, published, result>>
    BY <1>3 DEF EndExecution, runVars, taskVars
  <2> QED BY <2>1, SameAccepted DEF Standing, Ledger!Judge
<1>4. CASE RaiseUnsatisfied \/ Drained
  BY <1>4, LedgerAbandon DEF RaiseUnsatisfied, Drained, Ledger!Next
<1> QED BY <1>1, <1>2, <1>3, <1>4 DEF SchedulerStep, Ledger!Next

LEMMA LedgerJudge ==
  ASSUME ReleaseInv, JudgeStep PROVE Ledger!Next \/ UNCHANGED Ledger!vars
<1> USE DEF ReleaseInv, TypeOK
\* Reviews, budget and verification: what was accepted and what the branch holds stay.
<1>1. ASSUME phase \in {"review", "verify"}, phase' \in {"verify", "finalize"},
             UNCHANGED <<opts, selected, branch, remembered, published, result>>
      PROVE  UNCHANGED Ledger!vars
  BY <1>1, SameAccepted, LedgerStutters DEF Standing
<1>2. ASSUME NEW gitWorks \in BOOLEAN, Finalize(gitWorks) PROVE Ledger!Deliver
  <2>1. /\ phase = "finalize" /\ phase' = "summary"
        /\ published' = published \/ (decision = "accepted" /\ published' = branch)
        /\ UNCHANGED <<opts, selected, branch, remembered, result>>
    BY <1>2 DEF Finalize, runVars, taskVars
  <2>2. decision = "accepted" => Ledger!Whole
    <3> SUFFICES ASSUME decision = "accepted" PROVE Ledger!Whole  OBVIOUS
    <3>1. \A t \in selected : /\ t \in remembered \/ result[t] = "accepted"
                              /\ opts.accept = "merge" => t \in branch
      BY DEF DecisionInv, AcceptedReleaseIsWhole
    <3> QED BY <3>1 DEF Ledger!Whole, Accepted
  <2> QED BY <2>1, <2>2, SameAccepted DEF Standing, Ledger!Deliver
<1>3. CASE WriteSummary
  <2> DEFINE kept == { t \in Ran : result[t] = "accepted" /\ t \in landed }
  <2>1. Reset /\ phase = "summary" /\ remembered' = remembered \union kept  BY <1>3 DEF WriteSummary
  <2>2. kept \in SUBSET (Accepted \intersect branch)
    BY DEF Ran, Accepted, SchedInv, WorkIsThere
  <2>3. Accepted' = {}  BY <2>1 DEF Reset, Accepted, All
  <2> HIDE DEF kept
  <2> QED BY <2>1, <2>2, <2>3 DEF Reset, Standing, Ledger!Next, Ledger!Close, Ledger!Clear
<1>4. CASE JudgeStep /\ ~ WriteSummary /\ ~ \E gitWorks \in BOOLEAN : Finalize(gitWorks)
  <2>1. /\ phase \in {"review", "verify"} /\ phase' \in {"verify", "finalize"}
        /\ UNCHANGED <<opts, selected, branch, remembered, published, result>>
    BY <1>4 DEF JudgeStep, ReviewAccepts, ReviewRejects, OverBudget, Verify, SkipVerification,
                runVars, taskVars
  <2> QED BY <1>1, <2>1
<1> QED BY <1>2, <1>3, <1>4 DEF Ledger!Next

LEMMA LedgerStep ==
  ASSUME ReleaseInv, TaskInv, [Next]_vars PROVE Ledger!Next \/ UNCHANGED Ledger!vars
<1>1. ASSUME NEW o \in Options, NEW chosen \in Selections, StartRun(o, chosen) PROVE Ledger!Begin
  <2>1. Standing = "off" /\ Standing' = "working"  BY <1>1 DEF StartRun, Standing
  <2>2. Accepted' = Accepted  BY <1>1, SameAccepted DEF StartRun
  <2> QED BY <1>1, <2>1, <2>2 DEF StartRun, Ledger!Begin
<1>2. CASE Crash
  BY <1>2, LedgerAbandon DEF Crash, ReleaseInv, Ledger!Next
<1>3. CASE Tidy \/ UNCHANGED vars
  BY <1>3, SameAccepted, LedgerStutters DEF Tidy, vars, runVars, taskVars, Standing
<1>4. ASSUME NEW t \in Tasks, WorkerStep(t) PROVE Ledger!Next \/ UNCHANGED Ledger!vars
  BY <1>4, LedgerTask
<1>5. CASE SchedulerStep  BY <1>5, LedgerScheduler
<1>6. CASE JudgeStep  BY <1>6, LedgerJudge
<1> QED BY <1>1, <1>2, <1>3, <1>4, <1>5, <1>6 DEF Next, Ledger!Next

\* The release keeps the promise of ReleaseLedger for every plan, mix of command lines and
\* number of runs: the scheduler, the threads of the pool and the exceptions are not to be seen
\* from outside.
THEOREM ReleaseImplementsLedger == Spec => ImplementsLedger
<1>1. Init => ReleaseInv /\ TaskInv  BY InvInit, TaskInvInit
<1>2. ReleaseInv /\ TaskInv /\ [Next]_vars => (ReleaseInv /\ TaskInv)'  BY InvStep, TaskInvStep
<1>3. ReleaseInv /\ TaskInv /\ [Next]_vars => [Ledger!Next]_(Ledger!vars)  BY LedgerStep
<1> QED BY <1>1, <1>2, <1>3, LedgerInit, PTL DEF Spec, ImplementsLedger, Ledger!Spec
=============================================================================
