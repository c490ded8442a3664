------------------------------ MODULE Planning ------------------------------
(***************************************************************************)
(* plan-release and run-objective: planning.py with the budget ledger of   *)
(* budget.py, the planner backend, the strategy gate and the contract      *)
(* files, up to the point where run_objective starts the release.          *)
(*                                                                         *)
(* Several commands work on one contracts directory and one ledger per     *)
(* release; neither has a lock.  A file is written by opening it, which    *)
(* empties it, and then filling it; a kill between leaves it torn.         *)
(***************************************************************************)
EXTENDS ContractAdmission, FiniteSets

CONSTANTS
  Procs,         \* commands that may run at the same time
  Torn,          \* a contract file that was opened and not filled
  Draft,         \* the task id of a release's preparation contract
  Review,        \* the task id of the coverage review: criterion-review-0001
  ReviewIsQuoted,\* that review's stop condition happens to hold a gate's word
  UsualProfiles, \* the project names its profiles after the task types
  Directories,   \* the contract files that people may have put there
  Outputs,       \* what the strong model may answer
  MaxCalls,      \* budget.max_strong_model_calls_per_release
  MaxStarts      \* bound: commands that are started

ASSUME PlanningAssumption ==
  /\ Torn # Absent
  /\ {Torn, Absent} \cap Contract = {}
  /\ Releases # {}
  /\ Draft \in [Releases -> Names]
  /\ Review \in Names
  /\ ReviewIsQuoted \in BOOLEAN
  /\ UsualProfiles \in BOOLEAN
  /\ Directories \subseteq [Names -> Contract \cup {Absent}]
  /\ Outputs \subseteq Replies
  /\ MaxCalls \in Nat
  /\ MaxStarts \in Nat

VARIABLES
  given,      \* the contract files that were there at first
  files,      \* the contracts directory
  ledger,     \* budget_ledger.json of each release
  calls,      \* calls of the strong model that were made for a release
  pc,         \* where a command is
  job,        \* what it was started with
  strategy,   \* the selected strategy, "none" without inputs
  known,      \* contracts of the release were found
  used,       \* how many reservations it read in the ledger
  plan,       \* the contracts it is about to write, or has written
  written,    \* how many of them it has written
  ran,        \* what run_objective gave to run_release
  raced,      \* releases that two commands worked on at the same time
  starts

own    == <<pc, job, strategy, known, used, plan, written>>
shared == <<given, files, ledger, calls, ran, raced, starts>>
vars == <<given, files, ledger, calls, pc, job, strategy, known, used, plan, written,
          ran, raced, starts>>

\* A command without a project has no configuration; run-objective always has
\* one and writes what it plans; only plan-release leaves the backend out.
Jobs ==
  {j \in [release : Releases, strong : BOOLEAN, execute : BOOLEAN, config : BOOLEAN,
          write : BOOLEAN, run : BOOLEAN] :
     /\ j.run => j.config /\ j.write /\ (j.strong => j.execute)
     /\ j.execute => j.strong
     /\ j.strong => j.config}

(***************************************************************************)
(* The strategy gate                                                       *)
(***************************************************************************)

StrategyInputs ==
  [unsafe : BOOLEAN, handoff : BOOLEAN, stacked : BOOLEAN, replan : BOOLEAN,
   independent : BOOLEAN, coupled : BOOLEAN, oneCohesiveTask : BOOLEAN]

SelectStrategy(i) ==
  IF i.unsafe THEN "stop"
  ELSE IF i.handoff THEN "patch_handoff"
  ELSE IF i.stacked THEN "stacked_branches"
  ELSE IF i.replan THEN "replan"
  ELSE IF i.coupled THEN "sequential_contracts"
  ELSE IF i.independent THEN "parallel_contracts"
  ELSE IF i.oneCohesiveTask THEN "one_shot"
  ELSE "replan"

Strategies == {"none"} \cup {SelectStrategy(i) : i \in StrategyInputs}

\* Nothing is planned: the strategy is written down and that is all.
SkipsContracts == {"one_shot", "replan", "stop"}

(***************************************************************************)
(* The contracts of the deterministic planner                              *)
(***************************************************************************)

Plain(task, release) ==
  [task |-> task, release |-> release, files |-> 1, repo |-> FALSE,
   evidence |-> "diff", stops |-> TRUE, goals |-> TRUE, profile |-> TRUE,
   command |-> "shared"]

\* _draft_release_preparation_contract.
DraftContract(r) == [Plain(Draft[r], r) EXCEPT !.files = 2]

\* _criterion_review_contract.  Neither of its stop conditions speaks of scope,
\* verification or failure, unless an id quoted in the first one does.
ReviewContract(r) == [Plain(Review, r) EXCEPT !.stops = ReviewIsQuoted]

\* One criterion stands for all of them: their reviews fare alike.
\* _verification_profile_for_draft picks one of the project's profiles, if it
\* has the project.
Drafted(p) ==
  LET c == IF known[p] THEN ReviewContract(job[p].release)
                       ELSE DraftContract(job[p].release)
  IN [c EXCEPT !.profile = job[p].config \/ UsualProfiles]

Wrapped(contracts) ==
  [i \in DOMAIN contracts |-> [task |-> contracts[i].task, contract |-> contracts[i]]]

(***************************************************************************)
(* The steps of a command                                                  *)
(***************************************************************************)

Ledger == [entries : Nat, torn : BOOLEAN]

TypeOK ==
  /\ files \in [Names -> Contract \cup {Absent, Torn}]
  /\ ledger \in [Releases -> Ledger]
  /\ calls \in [Releases -> Nat]
  /\ pc \in [Procs -> {"idle", "load", "gate", "ledger", "open_ledger", "fill_ledger",
                       "call", "draft", "check", "probe", "open", "fill", "run"}]
  /\ job \in [Procs -> Jobs]
  /\ strategy \in [Procs -> Strategies]
  /\ known \in [Procs -> BOOLEAN]
  /\ used \in [Procs -> Nat]
  /\ plan \in [Procs -> Seq(Contract)]
  /\ written \in [Procs -> Nat]
  /\ ran \subseteq [release : Releases, planned : Seq(Contract), contracts : Seq(Contract)]
  /\ raced \subseteq Releases
  /\ starts \in 0..MaxStarts

IdleJob == CHOOSE j \in Jobs : TRUE

Init ==
  /\ given \in Directories
  /\ files = given
  /\ ledger = [r \in Releases |-> [entries |-> 0, torn |-> FALSE]]
  /\ calls = [r \in Releases |-> 0]
  /\ pc = [p \in Procs |-> "idle"]
  /\ job = [p \in Procs |-> IdleJob]
  /\ strategy = [p \in Procs |-> "none"]
  /\ known = [p \in Procs |-> FALSE]
  /\ used = [p \in Procs |-> 0]
  /\ plan = [p \in Procs |-> <<>>]
  /\ written = [p \in Procs |-> 0]
  /\ ran = {}
  /\ raced = {}
  /\ starts = 0

\* The command is over; its own variables are forgotten.
Ends(p) ==
  /\ pc' = [pc EXCEPT ![p] = "idle"]
  /\ job' = [job EXCEPT ![p] = IdleJob]
  /\ strategy' = [strategy EXCEPT ![p] = "none"]
  /\ known' = [known EXCEPT ![p] = FALSE]
  /\ used' = [used EXCEPT ![p] = 0]
  /\ plan' = [plan EXCEPT ![p] = <<>>]
  /\ written' = [written EXCEPT ![p] = 0]

Goto(p, step) == pc' = [pc EXCEPT ![p] = step]

Start(p) ==
  /\ pc[p] = "idle"
  /\ starts < MaxStarts
  /\ starts' = starts + 1
  /\ \E j \in Jobs :
       /\ job' = [job EXCEPT ![p] = j]
       /\ raced' = IF \E q \in Procs \ {p} : pc[q] # "idle" /\ job[q].release = j.release
                   THEN raced \cup {j.release} ELSE raced
  /\ Goto(p, "load")
  /\ UNCHANGED <<given, files, ledger, calls, ran, strategy, known, used, plan, written>>

\* _contracts_for_release reads every file, whatever its release.
LoadContracts(p) ==
  /\ pc[p] = "load"
  /\ IF \E n \in Names : files[n] = Torn
     THEN Ends(p)
     ELSE /\ known' = [known EXCEPT ![p] =
                         \E n \in Names :
                           files[n] # Absent /\ files[n].release = job[p].release]
          /\ Goto(p, "gate")
          /\ UNCHANGED <<job, strategy, used, plan, written>>
  /\ UNCHANGED shared

AfterGate(p) == IF job[p].strong THEN "ledger" ELSE "draft"

\* The inputs of the selector come with run_objective, from the governor.
GateStrategy(p) ==
  /\ pc[p] = "gate"
  /\ \/ Goto(p, AfterGate(p)) /\ UNCHANGED strategy
     \/ /\ job[p].run
        /\ \E s \in Strategies \ {"none"} :
             /\ strategy' = [strategy EXCEPT ![p] = s]
             /\ Goto(p, IF s \in SkipsContracts THEN "run" ELSE AfterGate(p))
  /\ UNCHANGED <<shared, job, known, used, plan, written>>

\* Variant for checking: the last call is counted late.
ReadLedgerLate(p) ==
  /\ pc[p] = "ledger"
  /\ LET l == ledger[job[p].release] IN
     IF l.torn \/ l.entries > MaxCalls
     THEN Ends(p)
     ELSE /\ used' = [used EXCEPT ![p] = l.entries]
          /\ Goto(p, "open_ledger")
          /\ UNCHANGED <<job, strategy, known, plan, written>>
  /\ UNCHANGED shared

\* reserve_strong_model_call, up to its decision: json.loads of a torn file, or
\* a ledger that is used up, ends the planning.
ReadLedger(p) ==
  /\ pc[p] = "ledger"
  /\ LET l == ledger[job[p].release] IN
     IF l.torn \/ l.entries >= MaxCalls
     THEN Ends(p)
     ELSE /\ used' = [used EXCEPT ![p] = l.entries]
          /\ Goto(p, "open_ledger")
          /\ UNCHANGED <<job, strategy, known, plan, written>>
  /\ UNCHANGED shared

OpenLedger(p) ==
  /\ pc[p] = "open_ledger"
  /\ ledger' = [ledger EXCEPT ![job[p].release].torn = TRUE]
  /\ Goto(p, "fill_ledger")
  /\ UNCHANGED <<given, files, calls, ran, raced, starts, job, strategy, known, used, plan, written>>

\* Without a backend the reservation is all that comes of the strong model.
FillLedger(p) ==
  /\ pc[p] = "fill_ledger"
  /\ ledger' = [ledger EXCEPT ![job[p].release] = [entries |-> used[p] + 1, torn |-> FALSE]]
  /\ Goto(p, IF job[p].execute THEN "call" ELSE "draft")
  /\ UNCHANGED <<given, files, calls, ran, raced, starts, job, strategy, known, used, plan, written>>

\* The backend is run, and may fail; parse_planner_output admits what it says
\* or raises.
CallModel(p) ==
  /\ pc[p] = "call"
  /\ calls' = [calls EXCEPT ![job[p].release] = @ + 1]
  /\ \/ Ends(p)
     \/ \E out \in Outputs :
          LET r == job[p].release
              asked == Parsed(out)
          IN IF Parses(out, r) /\ Admitted(asked, r, job[p].config)
             THEN /\ plan' = [plan EXCEPT ![p] = Contracts(Normalized(asked, r, job[p].config))]
                  /\ Goto(p, "check")
                  /\ UNCHANGED <<job, strategy, known, used, written>>
             ELSE Ends(p)
  /\ UNCHANGED <<given, files, ledger, ran, raced, starts>>

DraftContracts(p) ==
  /\ pc[p] = "draft"
  /\ plan' = [plan EXCEPT ![p] = <<Drafted(p)>>]
  /\ Goto(p, "check")
  /\ UNCHANGED <<shared, job, strategy, known, used, written>>

\* Variant for checking: only a file that was left half written is in the way.
IsTorn(n) == files[n] = Torn

Exists(n) == files[n] # Absent

Targets(p) == {plan[p][i].task : i \in DOMAIN plan[p]}

\* The gate once more, with a configuration or before writing; then all the
\* files have to be new.
CheckPlan(p) ==
  /\ pc[p] = "check"
  /\ LET j == job[p] IN
     IF \/ ~j.write
        \/ ~Valid(Wrapped(plan[p]), j.release, j.config)
        \/ \E n \in Targets(p) : Exists(n)
     THEN Ends(p)
     ELSE /\ Goto(p, IF plan[p] = <<>> THEN "run" ELSE "probe")
          /\ UNCHANGED <<job, strategy, known, used, plan, written>>
  /\ UNCHANGED shared

Target(p) == plan[p][written[p] + 1]

\* write_yaml_data looks at each file again before it opens it.
ProbeContract(p) ==
  /\ pc[p] = "probe"
  /\ IF Exists(Target(p).task)
     THEN Ends(p)
     ELSE Goto(p, "open") /\ UNCHANGED <<job, strategy, known, used, plan, written>>
  /\ UNCHANGED shared

OpenContract(p) ==
  /\ pc[p] = "open"
  /\ files' = [files EXCEPT ![Target(p).task] = Torn]
  /\ Goto(p, "fill")
  /\ UNCHANGED <<given, ledger, calls, ran, raced, starts, job, strategy, known, used, plan, written>>

FillContract(p) ==
  /\ pc[p] = "fill"
  /\ files' = [files EXCEPT ![Target(p).task] = Target(p)]
  /\ written' = [written EXCEPT ![p] = @ + 1]
  /\ Goto(p, IF written[p] + 1 < Len(plan[p]) THEN "probe" ELSE "run")
  /\ UNCHANGED <<given, ledger, calls, ran, raced, starts, job, strategy, known, used, plan>>

\* What run_release finds in the files it is given.
OnDisk(p) == [i \in DOMAIN plan[p] |-> files[plan[p][i].task]]

\* Variant for checking: run_release believes the list it was given.
ReadableFiles(p) == \A i \in DOMAIN plan[p] : OnDisk(p)[i] \in Contract

\* run_release reads them and wants its own release in all.
OfTheRelease(p) ==
  \A i \in DOMAIN plan[p] :
    OnDisk(p)[i] \in Contract /\ OnDisk(p)[i].release = job[p].release

\* plan-release is done.  run_objective has nothing to run, or gives the files
\* it wrote to run_release.
RunPlan(p) ==
  /\ pc[p] = "run"
  /\ ran' = IF job[p].run /\ plan[p] # <<>> /\ OfTheRelease(p)
            THEN ran \cup {[release |-> job[p].release, planned |-> plan[p],
                             contracts |-> OnDisk(p)]}
            ELSE ran
  /\ Ends(p)
  /\ UNCHANGED <<given, files, ledger, calls, raced, starts>>

Kill(p) ==
  /\ pc[p] # "idle"
  /\ Ends(p)
  /\ UNCHANGED shared

Next ==
  \E p \in Procs :
    \/ Start(p) \/ LoadContracts(p) \/ GateStrategy(p)
    \/ ReadLedger(p) \/ OpenLedger(p) \/ FillLedger(p) \/ CallModel(p)
    \/ DraftContracts(p) \/ CheckPlan(p)
    \/ ProbeContract(p) \/ OpenContract(p) \/ FillContract(p)
    \/ RunPlan(p) \/ Kill(p)

Spec == Init /\ [][Next]_vars

-----------------------------------------------------------------------------
(***************************************************************************)
(* Correctness                                                             *)
(***************************************************************************)

\* Whatever the model answered and whoever wrote to the directory meanwhile,
\* run_objective runs contracts of the release it planned, each known by one
\* file name, bounded, with diff evidence and a stop condition; none starts
\* with the interpreter of a worktree when there is a shared one
\* (parse_planner_output, write_generated_contracts, the reading in
\* run_release).
RunsOnlyAdmitted ==
  \A x \in ran :
    /\ \A i \in DOMAIN x.contracts :
         LET c == x.contracts[i] IN
         /\ c.release = x.release
         /\ ~c.repo /\ c.evidence = "diff" /\ c.stops /\ c.goals
         /\ HasRuntime => c.command \notin {"local", "shell"}
    /\ \A i, j \in DOMAIN x.contracts :
         x.contracts[i].task = x.contracts[j].task => i = j

\* What is run is what was planned, within the project's bounds, as long as no
\* two commands planned the release at the same time (write_yaml_data looks and
\* then writes, run_objective reads the files again).
RunsItsOwnPlan ==
  \A x \in ran :
    x.release \notin raced =>
      /\ x.contracts = x.planned
      /\ \A i \in DOMAIN x.contracts :
           x.contracts[i].files <= FileBudget /\ x.contracts[i].profile

\* The strong model is called for a release only with a reservation in the
\* ledger, and no more often than the budget allows, over commands that fail or
\* are killed; not if two commands share the ledger (reserve_strong_model_call).
BudgetKept ==
  \A r \in Releases \ raced :
    /\ calls[r] <= ledger[r].entries
    /\ ledger[r].entries <= MaxCalls

\* A contract file somebody put there is never written, even if a model chooses
\* its name (write_generated_contracts, write_yaml_data).
GivenContractsAreKept ==
  \A n \in Names : given[n] # Absent => files[n] = given[n]

\* A plan of the model that was admitted, repaired or not, is not refused by the
\* gate a second time: normalization leaves nothing for it to find
\* (parse_planner_output, the check in write_generated_contracts).
SecondGateAgrees ==
  \A p \in Procs :
    pc[p] = "check" /\ job[p].execute =>
      Valid(Wrapped(plan[p]), job[p].release, job[p].config)

\* "Enforce maximum strong-model calls per release."  Not so of the code: of two
\* commands that read the ledger before either reserves, both call.
BudgetIsHeld == \A r \in Releases : calls[r] <= MaxCalls

\* "If contracts exist, emit acceptance-criteria coverage review entries": the
\* reviews the deterministic planner drafts pass the gate it puts them through.
\* Not so of the code: no stop condition of theirs holds a word the gate wants.
CoverageReviewIsAdmitted ==
  \A p \in Procs :
    pc[p] = "check" /\ ~job[p].strong /\ known[p] =>
      Valid(Wrapped(plan[p]), job[p].release, job[p].config)

=============================================================================
