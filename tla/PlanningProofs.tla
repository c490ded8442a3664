--------------------------- MODULE PlanningProofs ---------------------------
(***************************************************************************)
(* Safety of planning for any contract names, releases, commands, answers  *)
(* of the model and budgets: types, what a plan is that passed the gate,   *)
(* the ledger, the files people put there, what is run, and that the       *)
(* stages of admission agree with each other.                              *)
(***************************************************************************)
EXTENDS Planning, SequenceTheorems, TLAPS

-----------------------------------------------------------------------------
(* What admission makes of an answer of the model.                         *)

\* An entry that was filled in is a task contract under a task id.
Generated == [shape : {"plain", "aliased", "evidence_aliased"}, task : Names, contract : Contract]

LEMMA FilledType ==
  ASSUME NEW g \in Entries, NEW r \in Releases
  PROVE  Filled(g, r) \in Generated
  BY AdmissionAssumption DEF Entries, Generated, Filled, Contract

LEMMA RepairedType ==
  ASSUME NEW g \in Generated, NEW config \in BOOLEAN
  PROVE  Repaired(g, config) \in Generated
  BY AdmissionAssumption DEF Generated, Repaired, Contract, Commands

LEMMA ParsedType ==
  ASSUME NEW out \in Replies, NEW r \in Releases, Parses(out, r)
  PROVE  Parsed(out) \in Seq(Generated)
<1>1. out.release = r /\ out.entries \in Seq(Entries)
  BY DEF Parses, Replies
<1>2. out.entries \in [1..Len(out.entries) -> Entries] /\ Len(out.entries) \in Nat
  BY <1>1, LenProperties
<1>3. Parsed(out) \in [1..Len(out.entries) -> Generated]
  BY <1>1, <1>2, FilledType DEF Parsed
<1> QED BY <1>2, <1>3, SeqDef

LEMMA NormalizedType ==
  ASSUME NEW plan0 \in Seq(Generated), NEW r \in Releases, NEW config \in BOOLEAN
  PROVE  /\ Normalized(plan0, r, config) \in Seq(Generated)
         /\ DOMAIN Normalized(plan0, r, config) = DOMAIN plan0
<1>1. plan0 \in [1..Len(plan0) -> Generated] /\ Len(plan0) \in Nat
  BY LenProperties
<1>2. Normalized(plan0, r, config) \in [1..Len(plan0) -> Generated]
  BY <1>1, RepairedType DEF Normalized
<1> QED BY <1>1, <1>2, SeqDef

LEMMA ContractsType ==
  ASSUME NEW plan0 \in Seq(Generated)
  PROVE  /\ Contracts(plan0) \in Seq(Contract)
         /\ DOMAIN Contracts(plan0) = DOMAIN plan0
<1>1. plan0 \in [1..Len(plan0) -> Generated] /\ Len(plan0) \in Nat
  BY LenProperties
<1>2. Contracts(plan0) \in [1..Len(plan0) -> Contract]
  BY <1>1 DEF Contracts, Generated
<1> QED BY <1>1, <1>2, SeqDef

\* No plan for a project starts with the interpreter of a worktree, when there is
\* one to put in its place.
RunsAnywhere(c) == HasRuntime => c.command \notin {"local", "shell"}

LEMMA AdmittedPlan ==
  ASSUME NEW out \in Outputs, NEW r \in Releases,
         NEW config \in BOOLEAN, Parses(out, r), Admitted(Parsed(out), r, config)
  PROVE  LET c == Contracts(Normalized(Parsed(out), r, config)) IN
         /\ c \in Seq(Contract)
         /\ config => \A i \in DOMAIN c : RunsAnywhere(c[i])
<1> DEFINE entries == Parsed(out)
           plan0 == Normalized(entries, r, config)
           c == Contracts(plan0)
<1>1. entries \in Seq(Generated)
  BY ParsedType, PlanningAssumption
<1>2. plan0 \in Seq(Generated) /\ DOMAIN plan0 = DOMAIN entries
  BY <1>1, NormalizedType
<1>3. c \in Seq(Contract) /\ DOMAIN c = DOMAIN plan0
  BY <1>2, ContractsType
<1>4. ASSUME config = TRUE, NEW i \in DOMAIN c PROVE RunsAnywhere(c[i])
  <2>1. i \in DOMAIN entries /\ entries[i] \in Generated /\ plan0[i] \in Generated
    BY <1>1, <1>2, <1>3, <1>4, LenProperties, ElementOfSeq
  <2>2. c[i] = plan0[i].contract
    BY <1>2, <1>3, <1>4 DEF Contracts
  <2>3. ~CannotNormalize(entries[i], r, config) /\ Passes(plan0[i], r, config)
    BY <1>2, <2>1 DEF Admitted, Valid
  <2>4. CASE Normalizes(entries[i], r, config)
    <3>1. plan0[i] = Repaired(entries[i], config)
      BY <2>1, <2>4 DEF Normalized
    <3>2. ~RewriteRefused(entries[i].contract, config)
      BY <2>3, <2>4 DEF CannotNormalize
    <3> QED BY <1>4, <2>1, <2>2, <3>1, <3>2 DEF Repaired, RewriteRefused, RunsAnywhere, Generated, Contract, Commands
  <2>5. CASE ~Normalizes(entries[i], r, config)
    <3>1. plan0[i] = entries[i]
      BY <2>1, <2>5 DEF Normalized
    <3>2. ~NeedsRuntime(entries[i].contract, config)
      BY <2>3, <2>5, <3>1 DEF Normalizes
    <3> QED BY <1>4, <2>2, <3>1, <3>2 DEF NeedsRuntime, RunsAnywhere
  <2> QED BY <2>4, <2>5
<1> QED BY <1>3, <1>4

-----------------------------------------------------------------------------
(* Types.                                                                  *)

Steps ==
  {"idle", "load", "gate", "ledger", "open_ledger", "fill_ledger",
   "call", "draft", "check", "probe", "open", "fill", "run"}

\* How far it is with its plan.
Early == {"idle", "load", "gate", "ledger", "open_ledger", "fill_ledger", "call", "draft"}

Progress(p) ==
  /\ pc[p] \in Early => plan[p] = <<>>
  /\ pc[p] \in Early \cup {"check"} => written[p] = 0
  /\ pc[p] \in {"probe", "open", "fill"} => written[p] < Len(plan[p])
  /\ pc[p] = "run" => written[p] = Len(plan[p])
  /\ pc[p] \in {"ledger", "open_ledger", "fill_ledger", "call"} => job[p].strong

TypeInv ==
  /\ TypeOK
  /\ given \in [Names -> Contract \cup {Absent}]
  /\ \A p \in Procs : Progress(p)

\* What a command may do.
Act(p) ==
  \/ Start(p) \/ LoadContracts(p) \/ GateStrategy(p)
  \/ ReadLedger(p) \/ OpenLedger(p) \/ FillLedger(p) \/ CallModel(p)
  \/ DraftContracts(p) \/ CheckPlan(p)
  \/ ProbeContract(p) \/ OpenContract(p) \/ FillContract(p)
  \/ RunPlan(p) \/ Kill(p)

LEMMA SomebodyActs == Next <=> \E p \in Procs : Act(p)
  BY DEF Next, Act

LEMMA IdleJobType == IdleJob \in Jobs
<1>1. PICK r \in Releases : TRUE
  BY PlanningAssumption
<1>2. [release |-> r, strong |-> FALSE, execute |-> FALSE, config |-> FALSE,
       write |-> FALSE, run |-> FALSE] \in Jobs
  BY DEF Jobs
<1> QED BY <1>2 DEF IdleJob

\* The variables of the command itself.
OwnOK ==
  /\ pc \in [Procs -> Steps]
  /\ job \in [Procs -> Jobs]
  /\ strategy \in [Procs -> Strategies]
  /\ known \in [Procs -> BOOLEAN]
  /\ used \in [Procs -> Nat]
  /\ plan \in [Procs -> Seq(Contract)]
  /\ written \in [Procs -> Nat]

SharedOK ==
  /\ given \in [Names -> Contract \cup {Absent}]
  /\ files \in [Names -> Contract \cup {Absent, Torn}]
  /\ ledger \in [Releases -> Ledger]
  /\ calls \in [Releases -> Nat]
  /\ ran \subseteq [release : Releases, planned : Seq(Contract), contracts : Seq(Contract)]
  /\ raced \subseteq Releases
  /\ starts \in 0..MaxStarts

LEMMA TypeSplit == TypeInv <=> OwnOK /\ SharedOK /\ \A p \in Procs : Progress(p)
  BY DEF TypeInv, TypeOK, OwnOK, SharedOK, Steps

LEMMA EndsType == ASSUME OwnOK, NEW p \in Procs, Ends(p) PROVE OwnOK'
  BY IdleJobType, EmptySeq DEF OwnOK, Ends, Steps, Strategies

\* A step of p leaves the variables of the others alone; each command goes one
\* step at a time.
LEMMA Frame ==
  ASSUME OwnOK, NEW p \in Procs, Act(p), NEW q \in Procs \ {p}
  PROVE  /\ pc'[q] = pc[q] /\ job'[q] = job[q]
         /\ used'[q] = used[q] /\ plan'[q] = plan[q] /\ written'[q] = written[q]
<1> USE DEF OwnOK, Goto, Ends
<1>1. CASE Start(p)  BY <1>1 DEF Start
<1>2. CASE LoadContracts(p)  BY <1>2 DEF LoadContracts
<1>3. CASE GateStrategy(p)  BY <1>3 DEF GateStrategy
<1>4. CASE ReadLedger(p)  BY <1>4 DEF ReadLedger
<1>5. CASE OpenLedger(p)  BY <1>5 DEF OpenLedger
<1>6. CASE FillLedger(p)  BY <1>6 DEF FillLedger
<1>7. CASE CallModel(p)  BY <1>7 DEF CallModel
<1>8. CASE DraftContracts(p)  BY <1>8 DEF DraftContracts
<1>9. CASE CheckPlan(p)  BY <1>9 DEF CheckPlan
<1>10. CASE ProbeContract(p)  BY <1>10 DEF ProbeContract
<1>11. CASE OpenContract(p)  BY <1>11 DEF OpenContract
<1>12. CASE FillContract(p)  BY <1>12 DEF FillContract
<1>13. CASE RunPlan(p)  BY <1>13 DEF RunPlan
<1>14. CASE Kill(p)  BY <1>14 DEF Kill
<1> QED BY <1>1, <1>2, <1>3, <1>4, <1>5, <1>6, <1>7, <1>8, <1>9, <1>10, <1>11, <1>12, <1>13,
           <1>14 DEF Act

\* What it does to its own.
LEMMA EndsProgress == ASSUME OwnOK, NEW p \in Procs, Ends(p) PROVE Progress(p)' /\ pc'[p] = "idle"
  BY DEF OwnOK, Ends, Progress, Early

LEMMA JobType ==
  ASSUME NEW j \in Jobs
  PROVE  /\ j.release \in Releases
         /\ j.config \in BOOLEAN /\ j.strong \in BOOLEAN /\ j.run \in BOOLEAN
         /\ j.strong => j.config
         /\ j.run => j.config
  BY DEF Jobs

LEMMA OnDiskType ==
  ASSUME NEW p \in Procs, plan[p] \in Seq(Contract),
         \A i \in DOMAIN plan[p] : OnDisk(p)[i] \in Contract
  PROVE  OnDisk(p) \in Seq(Contract)
<1>1. Len(plan[p]) \in Nat /\ DOMAIN plan[p] = 1..Len(plan[p])
  BY LenProperties
<1>2. OnDisk(p) \in [1..Len(plan[p]) -> Contract]
  BY <1>1 DEF OnDisk
<1> QED BY <1>1, <1>2, SeqDef

LEMMA DraftedType ==
  ASSUME TypeInv, NEW p \in Procs
  PROVE  /\ Drafted(p) \in Contract
         /\ RunsAnywhere(Drafted(p))
<1>1. job[p].release \in Releases /\ job[p].config \in BOOLEAN
  BY JobType DEF TypeInv, TypeOK
<1>2. /\ DraftContract(job[p].release) \in Contract
      /\ DraftContract(job[p].release).command = "shared"
  BY <1>1, PlanningAssumption DEF DraftContract, Plain, Contract, Commands
<1>3. /\ ReviewContract(job[p].release) \in Contract
      /\ ReviewContract(job[p].release).command = "shared"
  BY <1>1, PlanningAssumption DEF ReviewContract, Plain, Contract, Commands
<1> QED BY <1>1, <1>2, <1>3, PlanningAssumption DEF Drafted, Contract, RunsAnywhere

LEMMA TypeInit == Init => TypeInv
<1> SUFFICES ASSUME Init PROVE TypeInv  OBVIOUS
<1>1. OwnOK
  BY IdleJobType, EmptySeq DEF Init, OwnOK, Steps, Strategies
<1>2. SharedOK
  BY PlanningAssumption DEF Init, SharedOK, Ledger
<1>3. ASSUME NEW p \in Procs PROVE Progress(p)
  BY DEF Init, Progress, Early
<1> QED BY <1>1, <1>2, <1>3, TypeSplit

LEMMA TypeStep == ASSUME TypeInv, [Next]_vars PROVE TypeInv'
<1>1. OwnOK /\ SharedOK /\ \A p \in Procs : Progress(p)
  BY TypeSplit
<1>2. CASE UNCHANGED vars
  BY <1>2 DEF vars, TypeInv, TypeOK, Progress
<1>3. ASSUME NEW p \in Procs, Act(p) PROVE OwnOK' /\ SharedOK'
  <2>0. /\ job[p] \in Jobs /\ job[p].release \in Releases /\ job[p].config \in BOOLEAN
        /\ plan[p] \in Seq(Contract) /\ written[p] \in Nat /\ used[p] \in Nat
    BY <1>1, JobType DEF OwnOK
  <2>1. CASE Start(p)
    <3>1. OwnOK'  BY <1>1, <2>1 DEF OwnOK, Start, Goto, Steps
    <3>2. SharedOK'  BY <1>1, <2>1, JobType, PlanningAssumption DEF SharedOK, Start
    <3> QED BY <3>1, <3>2
  <2>2. CASE LoadContracts(p)
    <3>1. SharedOK'  BY <1>1, <2>2 DEF SharedOK, LoadContracts, shared
    <3>2. OwnOK'
      BY <1>1, <2>2, EndsType DEF OwnOK, LoadContracts, Goto, Steps
    <3> QED BY <3>1, <3>2
  <2>3. CASE GateStrategy(p)
    <3>1. SharedOK'  BY <1>1, <2>3 DEF SharedOK, GateStrategy, shared
    <3>2. OwnOK'
      <4>1. CASE Goto(p, AfterGate(p)) /\ UNCHANGED strategy
        BY <1>1, <2>3, <4>1 DEF OwnOK, GateStrategy, Goto, Steps, AfterGate
      <4>2. ASSUME NEW s \in Strategies, strategy' = [strategy EXCEPT ![p] = s],
                   Goto(p, IF s \in SkipsContracts THEN "run" ELSE AfterGate(p))
            PROVE  OwnOK'
        BY <1>1, <2>3, <4>2 DEF OwnOK, GateStrategy, Goto, Steps, AfterGate
      <4> QED BY <2>3, <4>1, <4>2 DEF GateStrategy
    <3> QED BY <3>1, <3>2
  <2>4. CASE ReadLedger(p)
    <3>1. SharedOK'  BY <1>1, <2>4 DEF SharedOK, ReadLedger, shared
    <3>2. OwnOK'
      <4>1. ledger[job[p].release].entries \in Nat
        BY <1>1, <2>0 DEF SharedOK, Ledger
      <4>2. CASE Ends(p)  BY <1>1, <4>2, EndsType
      <4>3. CASE ~Ends(p)
        BY <1>1, <2>4, <4>1, <4>3 DEF OwnOK, ReadLedger, Goto, Steps
      <4> QED BY <4>2, <4>3
    <3> QED BY <3>1, <3>2
  <2>5. CASE OpenLedger(p)
    BY <1>1, <2>0, <2>5 DEF OwnOK, SharedOK, OpenLedger, Goto, Steps, Ledger
  <2>6. CASE FillLedger(p)
    BY <1>1, <2>0, <2>6 DEF OwnOK, SharedOK, FillLedger, Goto, Steps, Ledger
  <2>7. CASE CallModel(p)
    <3>1. SharedOK'  BY <1>1, <2>0, <2>7 DEF SharedOK, CallModel
    <3>2. CASE Ends(p)  BY <1>1, <3>1, <3>2, EndsType
    <3>3. ASSUME NEW out \in Outputs, Parses(out, job[p].release),
                 Admitted(Parsed(out), job[p].release, job[p].config),
                 plan' = [plan EXCEPT ![p] =
                   Contracts(Normalized(Parsed(out), job[p].release, job[p].config))],
                 Goto(p, "check"),
                 UNCHANGED <<job, strategy, known, used, written>>
          PROVE  OwnOK'
      <4>1. Contracts(Normalized(Parsed(out), job[p].release, job[p].config)) \in Seq(Contract)
        BY <2>0, <3>3, AdmittedPlan
      <4> QED BY <1>1, <3>3, <4>1 DEF OwnOK, Goto, Steps
    <3> QED BY <2>7, <3>1, <3>2, <3>3 DEF CallModel
  <2>8. CASE DraftContracts(p)
    <3>1. SharedOK'  BY <1>1, <2>8 DEF SharedOK, DraftContracts, shared
    <3>2. <<Drafted(p)>> \in Seq(Contract)
      BY DraftedType
    <3>3. OwnOK'
      BY <1>1, <2>8, <3>2 DEF OwnOK, DraftContracts, Goto, Steps
    <3> QED BY <3>1, <3>3
  <2>9. CASE CheckPlan(p)
    <3>1. SharedOK'  BY <1>1, <2>9 DEF SharedOK, CheckPlan, shared
    <3>2. OwnOK'
      BY <1>1, <2>9, EndsType DEF OwnOK, CheckPlan, Goto, Steps
    <3> QED BY <3>1, <3>2
  <2>10. CASE ProbeContract(p)
    <3>1. SharedOK'  BY <1>1, <2>10 DEF SharedOK, ProbeContract, shared
    <3>2. OwnOK'
      BY <1>1, <2>10, EndsType DEF OwnOK, ProbeContract, Goto, Steps
    <3> QED BY <3>1, <3>2
  <2>11. CASE OpenContract(p)
    BY <1>1, <2>11 DEF OwnOK, SharedOK, OpenContract, Goto, Steps
  <2>12. CASE FillContract(p)
    <3>1. written[p] + 1 \in 1..Len(plan[p])
      BY <1>1, <2>0, <2>12, LenProperties DEF FillContract, Progress
    <3>2. Target(p) \in Contract
      BY <2>0, <3>1, ElementOfSeq DEF Target
    <3>3. OwnOK'  BY <1>1, <2>0, <2>12 DEF OwnOK, FillContract, Goto, Steps
    <3>4. SharedOK'  BY <1>1, <2>12, <3>2 DEF SharedOK, FillContract
    <3> QED BY <3>3, <3>4
  <2>13. CASE RunPlan(p)
    <3>1. OwnOK'  BY <1>1, <2>13, EndsType DEF RunPlan
    <3>2. SharedOK'  BY <1>1, <2>0, <2>13, OnDiskType DEF SharedOK, RunPlan, OfTheRelease
    <3> QED BY <3>1, <3>2
  <2>14. CASE Kill(p)
    <3>1. OwnOK'  BY <1>1, <2>14, EndsType DEF Kill
    <3>2. SharedOK'  BY <1>1, <2>14 DEF SharedOK, Kill, shared
    <3> QED BY <3>1, <3>2
  <2> QED BY <1>3, <2>1, <2>2, <2>3, <2>4, <2>5, <2>6, <2>7, <2>8, <2>9, <2>10, <2>11, <2>12,
             <2>13, <2>14 DEF Act
<1>4. ASSUME NEW p \in Procs, Act(p), NEW q \in Procs PROVE Progress(q)'
  <2>1. CASE q # p
    BY <1>1, <1>4, <2>1, Frame DEF Progress
  <2>2. ASSUME ~Ends(p) PROVE Progress(p)'
    <3>0. /\ Progress(p) /\ plan[p] \in Seq(Contract) /\ written[p] \in Nat
          /\ Len(plan[p]) \in Nat /\ (plan[p] # <<>> => Len(plan[p]) > 0)
      BY <1>1, LenProperties, EmptySeq DEF OwnOK
    <3> USE DEF OwnOK, Goto, Progress, Early
    <3>1. CASE Start(p)  BY <1>1, <3>0, <3>1 DEF Start
    <3>2. CASE LoadContracts(p)  BY <1>1, <2>2, <3>0, <3>2 DEF LoadContracts
    <3>3. CASE GateStrategy(p)
      BY <1>1, <3>0, <3>3, EmptySeq DEF GateStrategy, AfterGate
    <3>4. CASE ReadLedger(p)  BY <1>1, <2>2, <3>0, <3>4 DEF ReadLedger
    <3>5. CASE OpenLedger(p)  BY <1>1, <3>0, <3>5 DEF OpenLedger
    <3>6. CASE FillLedger(p)  BY <1>1, <3>0, <3>6 DEF FillLedger
    <3>7. CASE CallModel(p)  BY <1>1, <2>2, <3>0, <3>7 DEF CallModel
    <3>8. CASE DraftContracts(p)  BY <1>1, <3>0, <3>8 DEF DraftContracts
    <3>9. CASE CheckPlan(p)  BY <1>1, <2>2, <3>0, <3>9, EmptySeq DEF CheckPlan
    <3>10. CASE ProbeContract(p)  BY <1>1, <2>2, <3>0, <3>10 DEF ProbeContract
    <3>11. CASE OpenContract(p)  BY <1>1, <3>0, <3>11 DEF OpenContract
    <3>12. CASE FillContract(p)  BY <1>1, <3>0, <3>12 DEF FillContract
    <3>13. CASE RunPlan(p)  BY <2>2, <3>13 DEF RunPlan
    <3>14. CASE Kill(p)  BY <2>2, <3>14 DEF Kill
    <3> QED BY <1>4, <3>1, <3>2, <3>3, <3>4, <3>5, <3>6, <3>7, <3>8, <3>9, <3>10, <3>11, <3>12,
               <3>13, <3>14 DEF Act
  <2> QED BY <1>1, <2>1, <2>2, EndsProgress
<1>5. CASE Next
  BY <1>3, <1>4, <1>5, SomebodyActs, TypeSplit DEF TypeInv, TypeOK, OwnOK, SharedOK, Steps
<1> QED BY <1>2, <1>5

\* Every reachable state is well typed, and a command is always where its plan
\* says it is.
THEOREM PlanningType == Spec => []TypeOK
<1>1. Spec => []TypeInv
  BY TypeInit, TypeStep, PTL DEF Spec
<1>2. TypeInv => TypeOK
  BY DEF TypeInv
<1> QED BY <1>1, <1>2, PTL

LEMMA AlwaysTyped == Spec => []TypeInv
  BY TypeInit, TypeStep, PTL DEF Spec

-----------------------------------------------------------------------------
(* The ledger.                                                             *)

\* A command keeps its job until it is over.
LEMMA JobStays ==
  ASSUME OwnOK, NEW p \in Procs, Act(p), ~Start(p)
  PROVE  /\ raced' = raced
         /\ \/ pc'[p] = "idle"
            \/ job'[p] = job[p] /\ pc[p] # "idle"
<1> USE DEF OwnOK, Goto, shared
<1>1. CASE Ends(p) /\ raced' = raced  BY <1>1 DEF Ends
<1>2. CASE LoadContracts(p)  BY <1>1, <1>2 DEF LoadContracts
<1>3. CASE GateStrategy(p)  BY <1>3 DEF GateStrategy
<1>4. CASE ReadLedger(p)  BY <1>1, <1>4 DEF ReadLedger
<1>5. CASE OpenLedger(p)  BY <1>5 DEF OpenLedger
<1>6. CASE FillLedger(p)  BY <1>6 DEF FillLedger
<1>7. CASE CallModel(p)  BY <1>1, <1>7 DEF CallModel
<1>8. CASE DraftContracts(p)  BY <1>8 DEF DraftContracts
<1>9. CASE CheckPlan(p)  BY <1>1, <1>9 DEF CheckPlan
<1>10. CASE ProbeContract(p)  BY <1>1, <1>10 DEF ProbeContract
<1>11. CASE OpenContract(p)  BY <1>11 DEF OpenContract
<1>12. CASE FillContract(p)  BY <1>12 DEF FillContract
<1>13. CASE RunPlan(p)  BY <1>1, <1>13 DEF RunPlan
<1>14. CASE Kill(p)  BY <1>1, <1>14 DEF Kill
<1> QED BY <1>2, <1>3, <1>4, <1>5, <1>6, <1>7, <1>8, <1>9, <1>10, <1>11, <1>12, <1>13, <1>14
        DEF Act

\* Two commands on one release are noticed.
Exclusive ==
  \A p, q \in Procs :
    p # q /\ pc[p] # "idle" /\ pc[q] # "idle" /\ job[p].release = job[q].release =>
      job[p].release \in raced

LEMMA ExclusiveStep ==
  ASSUME TypeInv, Exclusive, NEW p \in Procs, Act(p)
  PROVE  Exclusive' /\ raced \subseteq raced'
<1> SUFFICES ASSUME NEW a \in Procs, NEW b \in Procs, a # b, pc'[a] # "idle", pc'[b] # "idle",
                    job'[a].release = job'[b].release
             PROVE  job'[a].release \in raced'
  <2>1. raced \subseteq raced'
    BY JobStays, TypeSplit DEF Start
  <2> QED BY <2>1 DEF Exclusive
<1>1. OwnOK  BY TypeSplit
<1>2. CASE Start(p)
  <2>1. /\ \A q \in Procs \ {p} : pc'[q] = pc[q] /\ job'[q] = job[q]
        /\ raced \subseteq raced'
    BY <1>1, <1>2, Frame DEF Start
  <2>2. (\E q \in Procs \ {p} : pc[q] # "idle" /\ job[q].release = job'[p].release)
           => job'[p].release \in raced'
    BY <1>1, <1>2 DEF Start, OwnOK
  <2>3. CASE a = p
    BY <2>1, <2>2, <2>3
  <2>4. CASE b = p
    BY <2>1, <2>2, <2>4
  <2>5. CASE a # p /\ b # p
    BY <2>1, <2>5 DEF Exclusive
  <2> QED BY <2>3, <2>4, <2>5
<1>3. CASE ~Start(p)
  <2>1. /\ \A q \in Procs \ {p} : pc'[q] = pc[q] /\ job'[q] = job[q]
        /\ raced' = raced
        /\ pc'[p] = "idle" \/ (job'[p] = job[p] /\ pc[p] # "idle")
    BY <1>1, <1>3, Frame, JobStays
  <2>2. /\ pc[a] # "idle" /\ job'[a] = job[a]
        /\ pc[b] # "idle" /\ job'[b] = job[b]
    BY <2>1
  <2> QED BY <2>1, <2>2 DEF Exclusive
<1> QED BY <1>2, <1>3

\* A command that is about to call holds a reservation of its own, and one that is
\* about to reserve still finds what it read.
Claim(p) ==
  LET r == job[p].release IN
  r \notin raced =>
    /\ pc[p] = "call" => calls[r] < ledger[r].entries
    /\ pc[p] \in {"open_ledger", "fill_ledger"} => used[p] = ledger[r].entries /\ used[p] < MaxCalls

BudgetInv ==
  /\ Exclusive
  /\ BudgetKept
  /\ \A p \in Procs : Claim(p)

\* What no step but those of the ledger touches.
LEMMA BudgetFrame ==
  ASSUME TypeInv, BudgetInv, NEW p \in Procs, Act(p), UNCHANGED <<ledger, calls>>,
         pc'[p] \notin {"call", "open_ledger", "fill_ledger"}
  PROVE  BudgetKept' /\ \A q \in Procs : Claim(q)'
<1>1. raced \subseteq raced'
  BY ExclusiveStep DEF BudgetInv
<1>2. BudgetKept'
  BY <1>1 DEF BudgetInv, BudgetKept
<1>3. ASSUME NEW q \in Procs PROVE Claim(q)'
  <2>1. CASE q = p  BY <2>1 DEF Claim
  <2>2. CASE q # p  BY <1>1, <2>2, Frame, TypeSplit DEF BudgetInv, Claim
  <2> QED BY <2>1, <2>2
<1> QED BY <1>2, <1>3

\* Of the ledger, a step touches only the entry of its release, which no other
\* command depends on.
LEMMA BudgetOwn ==
  ASSUME TypeInv, BudgetInv, NEW p \in Procs, Act(p), pc[p] # "idle", ~Start(p),
         \A r \in Releases \ {job[p].release} : ledger'[r] = ledger[r] /\ calls'[r] = calls[r],
         job[p].release \notin raced =>
           /\ calls'[job[p].release] <= ledger'[job[p].release].entries
           /\ ledger'[job[p].release].entries <= MaxCalls,
         Claim(p)'
  PROVE  BudgetKept' /\ \A q \in Procs : Claim(q)'
<1>1. raced' = raced /\ OwnOK
  BY JobStays, TypeSplit
<1>2. BudgetKept'
  BY <1>1 DEF BudgetInv, BudgetKept
<1>3. ASSUME NEW q \in Procs \ {p} PROVE Claim(q)'
  <2>1. pc'[q] = pc[q] /\ job'[q] = job[q] /\ used'[q] = used[q]
    BY <1>1, Frame
  <2>2. job[q] \in Jobs /\ job[q].release \in Releases
    BY <1>1, JobType DEF OwnOK
  <2>3. CASE job[q].release = job[p].release
    <3>1. pc[q] = "idle" \/ job[q].release \in raced
      BY <2>3 DEF BudgetInv, Exclusive
    <3> QED BY <1>1, <2>1, <3>1 DEF Claim
  <2>4. CASE job[q].release # job[p].release
    <3>1. Claim(q)  BY DEF BudgetInv
    <3> QED BY <1>1, <2>1, <2>2, <2>4, <3>1 DEF Claim
  <2> QED BY <2>3, <2>4
<1> QED BY <1>2, <1>3

LEMMA BudgetStep == ASSUME TypeInv, BudgetInv, [Next]_vars PROVE BudgetInv'
<1>1. CASE UNCHANGED vars
  BY <1>1 DEF vars, BudgetInv, Exclusive, BudgetKept, Claim
<1>2. ASSUME NEW p \in Procs, Act(p) PROVE BudgetKept' /\ \A q \in Procs : Claim(q)'
  <2>0. OwnOK /\ SharedOK /\ Claim(p) /\ job[p].release \in Releases /\ MaxCalls \in Nat
    BY TypeSplit, JobType, PlanningAssumption DEF BudgetInv, OwnOK
  <2>a. /\ ledger[job[p].release] \in Ledger /\ calls[job[p].release] \in Nat
        /\ ledger[job[p].release].entries \in Nat /\ used[p] \in Nat
    BY <2>0 DEF SharedOK, OwnOK, Ledger
  <2>b. job[p].release \notin raced =>
          /\ calls[job[p].release] <= ledger[job[p].release].entries
          /\ ledger[job[p].release].entries <= MaxCalls
    BY <2>0 DEF BudgetInv, BudgetKept
  <2>1. CASE Start(p)
    BY <1>2, <2>0, <2>1, BudgetFrame DEF Start, Goto, OwnOK
  <2>2. CASE LoadContracts(p)
    BY <1>2, <2>0, <2>2, BudgetFrame DEF LoadContracts, Goto, Ends, shared, OwnOK
  <2>3. CASE GateStrategy(p)
    BY <1>2, <2>0, <2>3, BudgetFrame DEF GateStrategy, AfterGate, Goto, shared, OwnOK
  <2>4. CASE ReadLedger(p)
    <3>1. CASE Ends(p)
      BY <1>2, <2>0, <2>4, <3>1, BudgetFrame DEF ReadLedger, Ends, shared, OwnOK
    <3>2. CASE ~Ends(p)
      <4>1. Claim(p)'
        BY <2>0, <2>a, <2>4, <3>2 DEF ReadLedger, Claim, Goto, shared, OwnOK
      <4> QED BY <1>2, <2>b, <2>4, <4>1, BudgetOwn DEF ReadLedger, shared, Start
    <3> QED BY <3>1, <3>2
  <2>5. CASE OpenLedger(p)
    <3>1. /\ ledger'[job[p].release].entries = ledger[job[p].release].entries
          /\ calls' = calls /\ raced' = raced /\ job' = job /\ used' = used
          /\ \A r \in Releases \ {job[p].release} : ledger'[r] = ledger[r]
      BY <2>0, <2>a, <2>5 DEF OpenLedger, Ledger, SharedOK
    <3>2. pc'[p] = "fill_ledger" /\ pc[p] = "open_ledger"
      BY <2>0, <2>5 DEF OpenLedger, Goto, OwnOK
    <3>3. Claim(p)'
      BY <2>0, <3>1, <3>2 DEF Claim
    <3> QED BY <1>2, <2>b, <3>1, <3>2, <3>3, BudgetOwn DEF Start
  <2>6. CASE FillLedger(p)
    <3>1. /\ ledger'[job[p].release].entries = used[p] + 1
          /\ calls' = calls /\ raced' = raced /\ job' = job
          /\ \A r \in Releases \ {job[p].release} : ledger'[r] = ledger[r]
      BY <2>0, <2>6 DEF FillLedger, SharedOK
    <3>2. pc'[p] \in {"call", "draft"} /\ pc[p] = "fill_ledger"
      BY <2>0, <2>6 DEF FillLedger, Goto, OwnOK
    <3>3. Claim(p)'
      BY <2>0, <2>a, <2>b, <3>1, <3>2 DEF Claim
    <3>4. job[p].release \notin raced =>
            calls'[job[p].release] <= used[p] + 1 /\ used[p] + 1 <= MaxCalls
      BY <2>0, <2>a, <2>b, <3>1, <3>2 DEF Claim
    <3> QED BY <1>2, <3>1, <3>2, <3>3, <3>4, BudgetOwn DEF Start
  <2>7. CASE CallModel(p)
    <3>1. /\ calls'[job[p].release] = calls[job[p].release] + 1
          /\ ledger' = ledger /\ raced' = raced /\ pc[p] = "call"
          /\ \A r \in Releases \ {job[p].release} : calls'[r] = calls[r]
      BY <2>0, <2>7 DEF CallModel, SharedOK
    <3>2. pc'[p] \in {"idle", "check"}
      BY <2>0, <2>7 DEF CallModel, Goto, Ends, OwnOK
    <3>3. Claim(p)'
      BY <3>2 DEF Claim
    <3>4. job[p].release \notin raced =>
            calls[job[p].release] + 1 <= ledger[job[p].release].entries
      BY <2>0, <2>a, <3>1 DEF Claim
    <3> QED BY <1>2, <2>b, <3>1, <3>2, <3>3, <3>4, BudgetOwn DEF Start
  <2>8. CASE DraftContracts(p)
    BY <1>2, <2>0, <2>8, BudgetFrame DEF DraftContracts, Goto, shared, OwnOK
  <2>9. CASE CheckPlan(p)
    BY <1>2, <2>0, <2>9, BudgetFrame DEF CheckPlan, Goto, Ends, shared, OwnOK
  <2>10. CASE ProbeContract(p)
    BY <1>2, <2>0, <2>10, BudgetFrame DEF ProbeContract, Goto, Ends, shared, OwnOK
  <2>11. CASE OpenContract(p)
    BY <1>2, <2>0, <2>11, BudgetFrame DEF OpenContract, Goto, OwnOK
  <2>12. CASE FillContract(p)
    BY <1>2, <2>0, <2>12, BudgetFrame DEF FillContract, Goto, OwnOK
  <2>13. CASE RunPlan(p)
    BY <1>2, <2>0, <2>13, BudgetFrame DEF RunPlan, Ends, OwnOK
  <2>14. CASE Kill(p)
    BY <1>2, <2>0, <2>14, BudgetFrame DEF Kill, Ends, shared, OwnOK
  <2> QED BY <1>2, <2>1, <2>2, <2>3, <2>4, <2>5, <2>6, <2>7, <2>8, <2>9, <2>10, <2>11, <2>12,
             <2>13, <2>14 DEF Act
<1>3. CASE Next
  <2>1. PICK p \in Procs : Act(p)
    BY <1>3, SomebodyActs
  <2> QED BY <1>2, <2>1, ExclusiveStep DEF BudgetInv
<1> QED BY <1>1, <1>3

LEMMA BudgetInit == Init => BudgetInv
  BY PlanningAssumption DEF Init, BudgetInv, Exclusive, BudgetKept, Claim

\* As long as no two commands plan a release at the same time, its calls of the
\* strong model are covered by reservations and stay within the budget, whatever
\* fails or is killed (reserve_strong_model_call).
THEOREM BudgetIsKept == Spec => []BudgetKept
<1>1. BudgetInv => BudgetKept
  BY DEF BudgetInv
<1>2. TypeInv /\ BudgetInv /\ [Next]_vars => BudgetInv'
  BY BudgetStep
<1> QED BY <1>1, <1>2, AlwaysTyped, BudgetInit, PTL DEF Spec

-----------------------------------------------------------------------------
(* The gate and the files.                                                 *)

\* What holds of every contract that was ever written by a command.
Sound(c) ==
  ~c.repo /\ c.evidence = "diff" /\ c.stops /\ c.goals /\ RunsAnywhere(c)

\* A plan that passed the gate, and whose names were free.
GoodPlan(p) ==
  /\ \A i \in DOMAIN plan[p] :
       LET c == plan[p][i] IN
       /\ Sound(c)
       /\ c.release = job[p].release
       /\ job[p].config => c.files <= FileBudget /\ c.profile
       /\ given[c.task] = Absent
  /\ \A i, j \in DOMAIN plan[p] : plan[p][i].task = plan[p][j].task => i = j

PlanOK(p) ==
  /\ pc[p] = "check" => \A i \in DOMAIN plan[p] : RunsAnywhere(plan[p][i])
  /\ pc[p] \in {"probe", "open", "fill", "run"} => GoodPlan(p)

WrittenOK ==
  \A n \in Names :
    given[n] = Absent /\ files[n] \in Contract => files[n].task = n /\ Sound(files[n])

GateInv ==
  /\ \A p \in Procs : PlanOK(p)
  /\ GivenContractsAreKept
  /\ WrittenOK
  /\ RunsOnlyAdmitted

\* What validate_generated_contracts says of a plan.
LEMMA ValidPlan ==
  ASSUME NEW s \in Seq(Contract), NEW r \in Releases, NEW config \in BOOLEAN,
         Valid(Wrapped(s), r, config)
  PROVE  /\ \A i \in DOMAIN s :
              /\ ~s[i].repo /\ s[i].evidence = "diff" /\ s[i].stops /\ s[i].goals
              /\ s[i].release = r
              /\ config => s[i].files <= FileBudget /\ s[i].profile
         /\ \A i, j \in DOMAIN s : s[i].task = s[j].task => i = j
<1>1. /\ DOMAIN Wrapped(s) = DOMAIN s
      /\ \A i \in DOMAIN s : Wrapped(s)[i].task = s[i].task /\ Wrapped(s)[i].contract = s[i]
  BY DEF Wrapped
<1>2. ASSUME NEW i \in DOMAIN s
      PROVE  /\ ~s[i].repo /\ s[i].evidence = "diff" /\ s[i].stops /\ s[i].goals
             /\ s[i].release = r
             /\ config => s[i].files <= FileBudget /\ s[i].profile
  <2>1. Passes(Wrapped(s)[i], r, config)
    BY <1>1, <1>2 DEF Valid
  <2>2. s[i] \in Contract
    BY <1>2, LenProperties, ElementOfSeq
  <2>3. s[i].files \in Nat /\ FileBudget \in Nat
    BY <2>2, AdmissionAssumption DEF Contract
  <2> QED BY <1>1, <2>1, <2>3 DEF Passes, MisplacedOrBroad, OutOfBounds
<1>3. \A i, j \in DOMAIN s : s[i].task = s[j].task => i = j
  BY <1>1 DEF Valid
<1> QED BY <1>2, <1>3

LEMMA EntryType ==
  ASSUME NEW s \in Seq(Contract), NEW i \in DOMAIN s
  PROVE  s[i] \in Contract /\ s[i].task \in Names
<1>1. s[i] \in Contract
  BY LenProperties, ElementOfSeq
<1> QED BY <1>1 DEF Contract

LEMMA TargetType ==
  ASSUME TypeInv, NEW p \in Procs, pc[p] \in {"probe", "open", "fill"}
  PROVE  /\ written[p] + 1 \in DOMAIN plan[p]
         /\ Target(p) \in Contract /\ Target(p).task \in Names
         /\ written[p] \in Nat
<1>1. plan[p] \in Seq(Contract) /\ written[p] \in Nat /\ written[p] < Len(plan[p])
  BY TypeSplit DEF OwnOK, Progress
<1>2. Len(plan[p]) \in Nat /\ DOMAIN plan[p] = 1..Len(plan[p])
  BY <1>1, LenProperties
<1>3. written[p] + 1 \in 1..Len(plan[p])
  BY <1>1, <1>2
<1>4. plan[p][written[p] + 1] \in Contract
  BY <1>1, <1>3, ElementOfSeq
<1> QED BY <1>1, <1>2, <1>3, <1>4 DEF Target, Contract

\* What holds after the steps that neither write a file nor run anything.
LEMMA GateFrame ==
  ASSUME TypeInv, GateInv, NEW p \in Procs, Act(p), UNCHANGED <<given, files, ran>>, PlanOK(p)'
  PROVE  GateInv'
<1>1. ASSUME NEW q \in Procs PROVE PlanOK(q)'
  <2>1. CASE q # p  BY <2>1, Frame, TypeSplit DEF GateInv, PlanOK, GoodPlan
  <2> QED BY <2>1
<1>2. GivenContractsAreKept' /\ WrittenOK' /\ RunsOnlyAdmitted'
  BY DEF GateInv, GivenContractsAreKept, WrittenOK, RunsOnlyAdmitted
<1> QED BY <1>1, <1>2 DEF GateInv

LEMMA GateStep == ASSUME TypeInv, GateInv, [Next]_vars PROVE GateInv'
<1>1. CASE UNCHANGED vars
  BY <1>1 DEF vars, GateInv, PlanOK, GoodPlan, GivenContractsAreKept, WrittenOK, RunsOnlyAdmitted
<1>2. ASSUME NEW p \in Procs, Act(p) PROVE GateInv'
  <2>0. /\ OwnOK /\ SharedOK /\ PlanOK(p) /\ Progress(p)
        /\ job[p] \in Jobs /\ job[p].release \in Releases /\ job[p].config \in BOOLEAN
        /\ plan[p] \in Seq(Contract)
    BY TypeSplit, JobType DEF GateInv, OwnOK
  <2>a. ASSUME Ends(p) PROVE PlanOK(p)'
    BY <2>0, <2>a DEF Ends, PlanOK, OwnOK
  <2>b. ASSUME pc'[p] \in Early PROVE PlanOK(p)'
    BY <2>b DEF PlanOK, Early
  <2>1. CASE Start(p)
    BY <1>2, <2>0, <2>1, <2>b, GateFrame DEF Start, Goto, OwnOK, Early
  <2>2. CASE LoadContracts(p)
    BY <1>2, <2>0, <2>2, <2>a, <2>b, GateFrame DEF LoadContracts, Goto, shared, OwnOK, Early
  <2>3. CASE GateStrategy(p)
    <3>1. plan'[p] = <<>> /\ UNCHANGED <<given, files, ran>> /\ pc'[p] \in Early \cup {"run"}
      BY <2>0, <2>3 DEF GateStrategy, AfterGate, Goto, shared, OwnOK, Progress, Early
    <3>2. DOMAIN <<>> = {}  OBVIOUS
    <3>3. PlanOK(p)'  BY <3>1, <3>2 DEF PlanOK, GoodPlan, Early
    <3> QED BY <1>2, <3>1, <3>3, GateFrame
  <2>4. CASE ReadLedger(p)
    BY <1>2, <2>0, <2>4, <2>a, <2>b, GateFrame DEF ReadLedger, Goto, shared, OwnOK, Early
  <2>5. CASE OpenLedger(p)
    BY <1>2, <2>0, <2>5, <2>b, GateFrame DEF OpenLedger, Goto, OwnOK, Early
  <2>6. CASE FillLedger(p)
    BY <1>2, <2>0, <2>6, <2>b, GateFrame DEF FillLedger, Goto, OwnOK, Early
  <2>7. CASE CallModel(p)
    <3>1. CASE Ends(p)  BY <1>2, <2>7, <2>a, <3>1, GateFrame DEF CallModel
    <3>2. ASSUME NEW out \in Outputs, Parses(out, job[p].release),
                 Admitted(Parsed(out), job[p].release, job[p].config),
                 plan' = [plan EXCEPT ![p] =
                   Contracts(Normalized(Parsed(out), job[p].release, job[p].config))],
                 Goto(p, "check")
          PROVE  PlanOK(p)'
      <4>1. job[p].config
        BY <2>0, <2>7, JobType DEF CallModel, Progress
      <4>2. \A i \in DOMAIN plan'[p] : RunsAnywhere(plan'[p][i])
        BY <2>0, <3>2, <4>1, AdmittedPlan DEF OwnOK
      <4> QED BY <2>0, <3>2, <4>2 DEF PlanOK, Goto, OwnOK
    <3>3. PlanOK(p)' \/ Ends(p)  BY <2>7, <3>2 DEF CallModel
    <3> QED BY <1>2, <2>7, <3>1, <3>3, GateFrame DEF CallModel
  <2>8. CASE DraftContracts(p)
    <3>1. plan'[p] = <<Drafted(p)>> /\ pc'[p] = "check"
      BY <2>0, <2>8 DEF DraftContracts, Goto, OwnOK
    <3>2. \A i \in DOMAIN plan'[p] : RunsAnywhere(plan'[p][i])
      BY <3>1, DraftedType
    <3>3. PlanOK(p)'  BY <3>1, <3>2 DEF PlanOK
    <3> QED BY <1>2, <2>8, <3>3, GateFrame DEF DraftContracts, shared
  <2>9. CASE CheckPlan(p)
    <3>1. CASE Ends(p)  BY <1>2, <2>9, <2>a, <3>1, GateFrame DEF CheckPlan, shared
    <3>2. CASE ~Ends(p)
      <4>1. /\ Valid(Wrapped(plan[p]), job[p].release, job[p].config)
            /\ \A n \in Targets(p) : files[n] = Absent
            /\ UNCHANGED <<job, plan, given, files, ran>>
            /\ pc[p] = "check"
            /\ pc'[p] \in {"run", "probe"}
        BY <2>0, <2>9, <3>2 DEF CheckPlan, Exists, Goto, shared, OwnOK
      <4>2. \A i \in DOMAIN plan[p] : plan[p][i].task \in Names /\ plan[p][i].task \in Targets(p)
        BY <2>0, EntryType DEF Targets
      <4>3. \A i \in DOMAIN plan[p] : given[plan[p][i].task] = Absent
        BY <4>1, <4>2 DEF GateInv, GivenContractsAreKept
      <4>4. \A i \in DOMAIN plan[p] : RunsAnywhere(plan[p][i])
        BY <2>0, <4>1 DEF PlanOK
      <4>5. GoodPlan(p)
        BY <2>0, <4>1, <4>3, <4>4, ValidPlan DEF GoodPlan, Sound
      <4>6. PlanOK(p)'
        BY <4>1, <4>5 DEF PlanOK, GoodPlan
      <4> QED BY <1>2, <4>1, <4>6, GateFrame
    <3> QED BY <3>1, <3>2
  <2>10. CASE ProbeContract(p)
    <3>1. CASE Ends(p)  BY <1>2, <2>10, <2>a, <3>1, GateFrame DEF ProbeContract, shared
    <3>2. CASE ~Ends(p)
      <4>1. PlanOK(p)'
        BY <2>0, <2>10, <3>2 DEF ProbeContract, Goto, shared, OwnOK, PlanOK, GoodPlan
      <4> QED BY <1>2, <2>10, <4>1, GateFrame DEF ProbeContract, shared
    <3> QED BY <3>1, <3>2
  <2>11. CASE OpenContract(p)
    <3>1. /\ Target(p) \in Contract /\ Target(p).task \in Names
          /\ given[Target(p).task] = Absent
      BY <2>0, <2>11, TargetType DEF OpenContract, PlanOK, GoodPlan, Target
    <3>2. files' = [files EXCEPT ![Target(p).task] = Torn] /\ UNCHANGED <<given, ran>>
      BY <2>11 DEF OpenContract
    <3>3. \A q \in Procs : PlanOK(q)'
      <4>1. PlanOK(p)'
        BY <2>0, <2>11 DEF OpenContract, Goto, OwnOK, PlanOK, GoodPlan
      <4>2. ASSUME NEW q \in Procs \ {p} PROVE PlanOK(q)'
        BY <1>2, <2>0, <3>2, Frame DEF GateInv, PlanOK, GoodPlan
      <4> QED BY <4>1, <4>2
    <3>4. GivenContractsAreKept'
      BY <2>0, <3>1, <3>2 DEF GateInv, GivenContractsAreKept, SharedOK
    <3>5. WrittenOK'
      BY <2>0, <3>1, <3>2, PlanningAssumption DEF GateInv, WrittenOK, SharedOK
    <3>6. RunsOnlyAdmitted'
      BY <3>2 DEF GateInv, RunsOnlyAdmitted
    <3> QED BY <3>3, <3>4, <3>5, <3>6 DEF GateInv
  <2>12. CASE FillContract(p)
    <3>1. /\ Target(p) \in Contract /\ Target(p).task \in Names
          /\ given[Target(p).task] = Absent
          /\ Sound(Target(p))
      BY <2>0, <2>12, TargetType DEF FillContract, PlanOK, GoodPlan, Target
    <3>2. files' = [files EXCEPT ![Target(p).task] = Target(p)] /\ UNCHANGED <<given, ran>>
      BY <2>12 DEF FillContract
    <3>3. \A q \in Procs : PlanOK(q)'
      <4>1. PlanOK(p)'
        BY <2>0, <2>12 DEF FillContract, Goto, OwnOK, PlanOK, GoodPlan
      <4>2. ASSUME NEW q \in Procs \ {p} PROVE PlanOK(q)'
        BY <1>2, <2>0, <3>2, Frame DEF GateInv, PlanOK, GoodPlan
      <4> QED BY <4>1, <4>2
    <3>4. GivenContractsAreKept'
      BY <2>0, <3>1, <3>2 DEF GateInv, GivenContractsAreKept, SharedOK
    <3>5. WrittenOK'
      BY <2>0, <3>1, <3>2 DEF GateInv, WrittenOK, SharedOK
    <3>6. RunsOnlyAdmitted'
      BY <3>2 DEF GateInv, RunsOnlyAdmitted
    <3> QED BY <3>3, <3>4, <3>5, <3>6 DEF GateInv
  <2>13. CASE RunPlan(p)
    <3>1. UNCHANGED <<given, files>> /\ Ends(p) /\ GoodPlan(p)
      BY <2>0, <2>13 DEF RunPlan, PlanOK
    <3>2. \A q \in Procs : PlanOK(q)'
      <4>1. ASSUME NEW q \in Procs \ {p} PROVE PlanOK(q)'
        BY <1>2, <2>0, <3>1, Frame DEF GateInv, PlanOK, GoodPlan
      <4> QED BY <2>a, <3>1, <4>1
    <3>3. GivenContractsAreKept' /\ WrittenOK'
      BY <3>1 DEF GateInv, GivenContractsAreKept, WrittenOK
    <3>4. ASSUME NEW x \in ran', x \notin ran
          PROVE  /\ \A i \in DOMAIN x.contracts :
                      LET c == x.contracts[i] IN
                      /\ c.release = x.release
                      /\ ~c.repo /\ c.evidence = "diff" /\ c.stops /\ c.goals
                      /\ HasRuntime => c.command \notin {"local", "shell"}
                 /\ \A i, j \in DOMAIN x.contracts :
                      x.contracts[i].task = x.contracts[j].task => i = j
      <4>1. /\ x = [release |-> job[p].release, planned |-> plan[p], contracts |-> OnDisk(p)]
            /\ \A i \in DOMAIN plan[p] :
                 OnDisk(p)[i] \in Contract /\ OnDisk(p)[i].release = job[p].release
        BY <2>13, <3>4 DEF RunPlan, OfTheRelease
      <4>2. /\ x.contracts = OnDisk(p) /\ x.release = job[p].release
            /\ DOMAIN OnDisk(p) = DOMAIN plan[p]
            /\ \A i \in DOMAIN plan[p] : OnDisk(p)[i] = files[plan[p][i].task]
        BY <4>1 DEF OnDisk
      <4>3. \A i \in DOMAIN plan[p] : plan[p][i].task \in Names
        BY <2>0, EntryType
      <4>4. \A i \in DOMAIN plan[p] :
              OnDisk(p)[i].task = plan[p][i].task /\ Sound(OnDisk(p)[i])
        BY <3>1, <4>1, <4>2, <4>3 DEF GateInv, WrittenOK, GoodPlan
      <4> QED BY <3>1, <4>1, <4>2, <4>4 DEF GoodPlan, Sound, RunsAnywhere
    <3>5. RunsOnlyAdmitted'
      BY <3>4 DEF GateInv, RunsOnlyAdmitted
    <3> QED BY <3>2, <3>3, <3>5 DEF GateInv
  <2>14. CASE Kill(p)
    BY <1>2, <2>14, <2>a, GateFrame DEF Kill, shared
  <2> QED BY <1>2, <2>1, <2>2, <2>3, <2>4, <2>5, <2>6, <2>7, <2>8, <2>9, <2>10, <2>11, <2>12,
             <2>13, <2>14 DEF Act
<1> QED BY <1>1, <1>2, SomebodyActs

LEMMA GateInit == Init => GateInv
<1> SUFFICES ASSUME Init PROVE GateInv  OBVIOUS
<1>1. \A p \in Procs : PlanOK(p)
  BY DEF Init, PlanOK
<1>2. GivenContractsAreKept /\ RunsOnlyAdmitted
  BY DEF Init, GivenContractsAreKept, RunsOnlyAdmitted
<1>3. WrittenOK
  BY PlanningAssumption DEF Init, WrittenOK
<1> QED BY <1>1, <1>2, <1>3 DEF GateInv

\* Whatever the model answers and whoever writes meanwhile, what is run is of the
\* release that was planned, bounded and checkable, under distinct names
\* (parse_planner_output, write_generated_contracts, run_release).
THEOREM OnlyAdmittedIsRun == Spec => []RunsOnlyAdmitted
<1>1. GateInv => RunsOnlyAdmitted
  BY DEF GateInv
<1>2. TypeInv /\ GateInv /\ [Next]_vars => GateInv'
  BY GateStep
<1> QED BY <1>1, <1>2, AlwaysTyped, GateInit, PTL DEF Spec

\* No command ever writes a contract file that people put there
\* (write_generated_contracts, write_yaml_data).
THEOREM GivenIsKept == Spec => []GivenContractsAreKept
<1>1. GateInv => GivenContractsAreKept
  BY DEF GateInv
<1>2. TypeInv /\ GateInv /\ [Next]_vars => GateInv'
  BY GateStep
<1> QED BY <1>1, <1>2, AlwaysTyped, GateInit, PTL DEF Spec
-----------------------------------------------------------------------------
(* What is run is what was planned.                                        *)

\* What became of the files a command has written: without a second command on
\* the release, only one of another release can have written over them.
OwnFiles(p) ==
  pc[p] # "idle" /\ job[p].release \notin raced =>
    \A i \in 1..written[p] :
      LET f == files[plan[p][i].task] IN
      \/ f = plan[p][i]
      \/ f = Torn
      \/ f \in Contract /\ f.release # job[p].release

OwnInv ==
  /\ Exclusive
  /\ \A p \in Procs : OwnFiles(p)
  /\ RunsItsOwnPlan

\* Only three steps write a file or run a release.
LEMMA ElseStays ==
  ASSUME TypeInv, NEW p \in Procs, Act(p)
  PROVE  /\ ~OpenContract(p) /\ ~FillContract(p) =>
              /\ files' = files
              /\ \/ pc'[p] = "idle"
                 \/ written'[p] = 0
                 \/ /\ pc[p] # "idle"
                    /\ written'[p] = written[p] /\ plan'[p] = plan[p] /\ job'[p] = job[p]
         /\ ~RunPlan(p) => ran' = ran
<1> USE TypeSplit DEF OwnOK, Goto, Ends, shared, Progress, Early
<1>1. CASE Start(p)  BY <1>1 DEF Start
<1>2. CASE LoadContracts(p)  BY <1>2 DEF LoadContracts
<1>3. CASE GateStrategy(p)  BY <1>3 DEF GateStrategy
<1>4. CASE ReadLedger(p)  BY <1>4 DEF ReadLedger
<1>5. CASE OpenLedger(p)  BY <1>5 DEF OpenLedger
<1>6. CASE FillLedger(p)  BY <1>6 DEF FillLedger
<1>7. CASE CallModel(p)  BY <1>7 DEF CallModel
<1>8. CASE DraftContracts(p)  BY <1>8 DEF DraftContracts
<1>9. CASE CheckPlan(p)  BY <1>9 DEF CheckPlan
<1>10. CASE ProbeContract(p)  BY <1>10 DEF ProbeContract
<1>11. CASE OpenContract(p)  BY <1>11 DEF OpenContract
<1>12. CASE FillContract(p)  BY <1>12 DEF FillContract
<1>13. CASE RunPlan(p)  BY <1>13 DEF RunPlan
<1>14. CASE Kill(p)  BY <1>14 DEF Kill
<1> QED BY <1>1, <1>2, <1>3, <1>4, <1>5, <1>6, <1>7, <1>8, <1>9, <1>10, <1>11, <1>12, <1>13,
           <1>14 DEF Act

\* The file under way is none of those that are written, and is of the release.
LEMMA TargetIsNew ==
  ASSUME TypeInv, GateInv, NEW p \in Procs, pc[p] \in {"open", "fill"}
  PROVE  /\ Target(p).release = job[p].release
         /\ \A i \in 1..written[p] :
              i \in DOMAIN plan[p] /\ plan[p][i].task \in Names /\ plan[p][i].task # Target(p).task
<1>1. /\ plan[p] \in Seq(Contract) /\ written[p] \in Nat
      /\ written[p] + 1 \in DOMAIN plan[p]
      /\ GoodPlan(p)
  BY TypeSplit, TargetType DEF GateInv, PlanOK, OwnOK
<1>2. Len(plan[p]) \in Nat /\ DOMAIN plan[p] = 1..Len(plan[p])
  BY <1>1, LenProperties
<1>3. ASSUME NEW i \in 1..written[p]
      PROVE  i \in DOMAIN plan[p] /\ i # written[p] + 1
  BY <1>1, <1>2
<1>4. \A i \in 1..written[p] : plan[p][i].task \in Names
  BY <1>1, <1>3, EntryType
<1> QED BY <1>1, <1>3, <1>4 DEF GoodPlan, Target

\* The names of what a command has written are names.
LEMMA WrittenNames ==
  ASSUME TypeInv, NEW p \in Procs, NEW i \in 1..written[p]
  PROVE  plan[p][i].task \in Names
<1>1. plan[p] \in Seq(Contract) /\ written[p] \in Nat /\ Progress(p) /\ pc[p] \in Steps
  BY TypeSplit DEF OwnOK
<1>2. Len(plan[p]) \in Nat /\ DOMAIN plan[p] = 1..Len(plan[p])
  BY <1>1, LenProperties
<1>3. written[p] # 0
  BY <1>1
<1>4. written[p] <= Len(plan[p])
  BY <1>1, <1>2, <1>3 DEF Progress, Steps, Early
<1>5. i \in DOMAIN plan[p]
  BY <1>1, <1>2, <1>4
<1> QED BY <1>1, <1>5, EntryType

LEMMA PlanIsItself ==
  ASSUME NEW p \in Procs, plan[p] \in Seq(Contract),
         \A i \in DOMAIN plan[p] : OnDisk(p)[i] = plan[p][i]
  PROVE  OnDisk(p) = plan[p]
<1>1. plan[p] = [i \in DOMAIN plan[p] |-> plan[p][i]]
  BY LenProperties
<1> QED BY <1>1 DEF OnDisk

LEMMA OwnStep == ASSUME TypeInv, GateInv, OwnInv, [Next]_vars PROVE OwnInv'
<1>1. CASE UNCHANGED vars
  BY <1>1 DEF vars, OwnInv, Exclusive, OwnFiles, RunsItsOwnPlan
<1>2. ASSUME NEW p \in Procs, Act(p) PROVE OwnInv'
  <2>0. /\ OwnOK /\ SharedOK /\ Progress(p) /\ OwnFiles(p) /\ Exclusive /\ PlanOK(p)
        /\ job[p] \in Jobs /\ plan[p] \in Seq(Contract) /\ written[p] \in Nat
    BY TypeSplit DEF OwnInv, GateInv, OwnOK
  <2>1. Exclusive' /\ raced \subseteq raced'
    BY <1>2, ExclusiveStep DEF OwnInv
  <2>2. ASSUME OpenContract(p) \/ FillContract(p)
        PROVE  /\ Target(p) \in Contract /\ Target(p).task \in Names
               /\ Target(p).release = job[p].release
               /\ \A i \in 1..written[p] :
                    /\ i \in DOMAIN plan[p]
                    /\ plan[p][i].task \in Names /\ plan[p][i].task # Target(p).task
               /\ pc[p] # "idle"
    BY <2>2, TargetType, TargetIsNew DEF OpenContract, FillContract
  <2>3. ASSUME NEW q \in Procs \ {p} PROVE OwnFiles(q)'
    <3>1. /\ pc'[q] = pc[q] /\ job'[q] = job[q] /\ plan'[q] = plan[q] /\ written'[q] = written[q]
          /\ OwnFiles(q)
      BY <1>2, <2>0, <2>3, Frame DEF OwnInv
    <3>2. CASE ~OpenContract(p) /\ ~FillContract(p)
      BY <1>2, <2>1, <3>1, <3>2, ElseStays DEF OwnFiles
    <3>3. CASE OpenContract(p)
      <4>1. \A n \in Names : files'[n] = files[n] \/ files'[n] = Torn
        BY <2>0, <3>3 DEF OpenContract, SharedOK
      <4>2. ASSUME pc[q] # "idle", NEW i \in 1..written[q] PROVE plan[q][i].task \in Names
        BY <2>0, <4>2, WrittenNames
      <4> QED BY <2>1, <3>1, <4>1, <4>2 DEF OwnFiles
    <3>4. CASE FillContract(p)
      <4>1. \A n \in Names : files'[n] = files[n] \/ files'[n] = Target(p)
        BY <2>0, <3>4 DEF FillContract, SharedOK
      <4>2. ASSUME pc[q] # "idle", NEW i \in 1..written[q] PROVE plan[q][i].task \in Names
        BY <2>0, <4>2, WrittenNames
      <4>3. pc[q] # "idle" /\ job[q].release \notin raced => Target(p).release # job[q].release
        BY <2>0, <2>2, <3>4 DEF Exclusive
      <4> QED BY <2>1, <2>2, <3>1, <3>4, <4>1, <4>2, <4>3 DEF OwnFiles
    <3> QED BY <3>2, <3>3, <3>4
  <2>4. OwnFiles(p)'
    <3>1. CASE ~OpenContract(p) /\ ~FillContract(p)
      <4>1. 1..0 = {}  OBVIOUS
      <4> QED BY <1>2, <2>0, <2>1, <3>1, <4>1, ElseStays DEF OwnFiles
    <3>2. CASE OpenContract(p)
      <4>1. /\ job' = job /\ plan' = plan /\ written' = written /\ pc[p] # "idle"
            /\ \A n \in Names \ {Target(p).task} : files'[n] = files[n]
        BY <2>0, <3>2 DEF OpenContract, SharedOK
      <4> QED BY <2>0, <2>1, <2>2, <3>2, <4>1 DEF OwnFiles
    <3>3. CASE FillContract(p)
      <4>1. /\ job' = job /\ plan' = plan /\ written'[p] = written[p] + 1 /\ pc[p] # "idle"
            /\ \A n \in Names \ {Target(p).task} : files'[n] = files[n]
            /\ files'[Target(p).task] = Target(p)
        BY <2>0, <2>2, <3>3 DEF FillContract, SharedOK, OwnOK
      <4>2. ASSUME NEW i \in 1..written'[p] PROVE i \in 1..written[p] \/ i = written[p] + 1
        BY <2>0, <4>1
      <4>3. plan[p][written[p] + 1] = Target(p)
        BY DEF Target
      <4> QED BY <2>0, <2>1, <2>2, <3>3, <4>1, <4>2, <4>3 DEF OwnFiles
    <3> QED BY <3>1, <3>2, <3>3
  <2>5. RunsItsOwnPlan'
    <3>1. CASE ~RunPlan(p)
      BY <1>2, <2>1, <3>1, ElseStays DEF OwnInv, RunsItsOwnPlan
    <3>2. CASE RunPlan(p)
      <4>1. ASSUME NEW x \in ran', x \notin ran, x.release \notin raced
            PROVE  /\ x.contracts = x.planned
                   /\ \A i \in DOMAIN x.contracts :
                        x.contracts[i].files <= FileBudget /\ x.contracts[i].profile
        <5>1. /\ x = [release |-> job[p].release, planned |-> plan[p], contracts |-> OnDisk(p)]
              /\ \A i \in DOMAIN plan[p] :
                   OnDisk(p)[i] \in Contract /\ OnDisk(p)[i].release = job[p].release
              /\ job[p].run /\ pc[p] = "run"
          BY <3>2, <4>1 DEF RunPlan, OfTheRelease
        <5>2. job[p].config /\ GoodPlan(p) /\ written[p] = Len(plan[p])
          BY <2>0, <5>1, JobType DEF PlanOK, Progress
        <5>3. DOMAIN plan[p] = 1..written[p]
          BY <2>0, <5>2, LenProperties
        <5>4. Torn \notin Contract
          BY PlanningAssumption
        <5>5. /\ DOMAIN OnDisk(p) = DOMAIN plan[p]
              /\ \A i \in DOMAIN plan[p] : OnDisk(p)[i] = files[plan[p][i].task]
          BY DEF OnDisk
        <5>6. \A i \in DOMAIN plan[p] : OnDisk(p)[i] = plan[p][i]
          BY <2>0, <4>1, <5>1, <5>3, <5>4, <5>5 DEF OwnFiles
        <5>7. OnDisk(p) = plan[p]
          BY <2>0, <5>6, PlanIsItself DEF OnDisk
        <5> QED BY <5>1, <5>2, <5>7 DEF GoodPlan
      <4> QED BY <2>1, <4>1 DEF OwnInv, RunsItsOwnPlan
    <3> QED BY <3>1, <3>2
  <2> QED BY <2>1, <2>3, <2>4, <2>5 DEF OwnInv
<1> QED BY <1>1, <1>2, SomebodyActs

LEMMA OwnInit == Init => OwnInv
<1>1. 1..0 = {}  OBVIOUS
<1> QED BY <1>1 DEF Init, OwnInv, Exclusive, OwnFiles, RunsItsOwnPlan

\* What run_objective runs is the plan that was admitted, within the bounds of the
\* project, unless two commands planned the release at the same time
\* (write_yaml_data, the reading of the files in run_release).
THEOREM ItsOwnPlanIsRun == Spec => []RunsItsOwnPlan
<1>1. OwnInv => RunsItsOwnPlan
  BY DEF OwnInv
<1>2. TypeInv /\ GateInv /\ [Next]_vars => GateInv'
  BY GateStep
<1>3. TypeInv /\ GateInv /\ OwnInv /\ [Next]_vars => OwnInv'
  BY OwnStep
<1> QED BY <1>1, <1>2, <1>3, AlwaysTyped, GateInit, OwnInit, PTL DEF Spec

-----------------------------------------------------------------------------
(* The stages of admission agree with each other.                          *)

\* Normalization puts evidence and an interpreter in their place and touches
\* nothing that says what is to be done, where, and when to stop.
SameIntent(g, h) ==
  /\ h.task = g.task
  /\ \A field \in {"task", "release", "files", "repo", "stops", "goals", "profile"} :
       h.contract[field] = g.contract[field]

LEMMA RepairKeepsIntent ==
  ASSUME NEW g \in Generated, NEW config \in BOOLEAN
  PROVE  SameIntent(g, Repaired(g, config))
  BY DEF SameIntent, Generated, Repaired, Contract

\* A contract that was let through is one that normalization leaves alone.
LEMMA RepairedOnce ==
  ASSUME NEW g \in Generated, NEW r \in Releases, NEW config \in BOOLEAN,
         Passes(g, r, config),
         config /\ HasRuntime => g.contract.command # "local"
  PROVE  Repaired(g, config) = g
<1>1. g.contract.evidence = "diff"
  BY DEF Passes
<1>2. [g.contract EXCEPT !.evidence = "diff", !.command = g.contract.command] = g.contract
  BY <1>1 DEF Generated, Contract
<1>3. [g EXCEPT !.contract = g.contract] = g
  BY DEF Generated
<1> QED BY <1>1, <1>2, <1>3 DEF Repaired

LEMMA RepairedCommand ==
  ASSUME NEW g \in Generated, HasRuntime = TRUE, g.contract.command \in {"shared", "local"}
  PROVE  Repaired(g, TRUE).contract.command = "shared"
  BY DEF Repaired, Generated, Contract, Commands

\* What an admitted entry is like after its normalization.
LEMMA AdmittedEntry ==
  ASSUME NEW plan0 \in Seq(Generated), NEW r \in Releases, NEW config \in BOOLEAN,
         Admitted(plan0, r, config), NEW i \in DOMAIN plan0
  PROVE  LET g == Normalized(plan0, r, config)[i] IN
         /\ g \in Generated
         /\ Passes(g, r, config)
         /\ config /\ HasRuntime => g.contract.command \notin {"local", "shell"}
<1> DEFINE g == Normalized(plan0, r, config)[i]
<1>1. plan0[i] \in Generated
  BY LenProperties, ElementOfSeq
<1>2. g = IF Normalizes(plan0[i], r, config) THEN Repaired(plan0[i], config) ELSE plan0[i]
  BY DEF Normalized
<1>3. g \in Generated
  BY <1>1, <1>2, RepairedType
<1>4. Passes(g, r, config) /\ ~CannotNormalize(plan0[i], r, config)
  BY NormalizedType DEF Admitted, Valid
<1>5. ASSUME config = TRUE, HasRuntime = TRUE PROVE g.contract.command \notin {"local", "shell"}
  <2>1. CASE Normalizes(plan0[i], r, config)
    <3>1. ~RewriteRefused(plan0[i].contract, config)
      BY <1>4, <2>1 DEF CannotNormalize
    <3>2. plan0[i].contract.command \in {"shared", "local"}
      BY <1>1, <1>5, <3>1 DEF RewriteRefused, Generated, Contract, Commands
    <3>3. g.contract.command = "shared"
      BY <1>1, <1>2, <1>5, <2>1, <3>2, RepairedCommand
    <3> QED BY <3>3
  <2>2. CASE ~Normalizes(plan0[i], r, config)
    BY <1>2, <1>4, <1>5, <2>2 DEF Normalizes, NeedsRuntime
  <2> QED BY <2>1, <2>2
<1>6. HasRuntime \in BOOLEAN  BY AdmissionAssumption
<1> QED BY <1>3, <1>4, <1>5, <1>6

\* For any answer of the model, release and configuration: what was admitted would
\* be admitted as it is, and normalization has nothing left to change in it
\* (_normalize_contracts_for_admission, validate_generated_contracts).
THEOREM AdmissionIsStable ==
  ASSUME NEW plan0 \in Seq(Generated), NEW r \in Releases, NEW config \in BOOLEAN,
         Admitted(plan0, r, config)
  PROVE  LET once == Normalized(plan0, r, config) IN
         /\ Normalized(once, r, config) = once
         /\ Admitted(once, r, config)
         /\ \A i \in DOMAIN plan0 : SameIntent(plan0[i], once[i])
<1> DEFINE once == Normalized(plan0, r, config)
<1>1. once \in Seq(Generated) /\ DOMAIN once = DOMAIN plan0
  BY NormalizedType
<1>2. ASSUME NEW i \in DOMAIN once
      PROVE  /\ Repaired(once[i], config) = once[i]
             /\ ~CannotNormalize(once[i], r, config)
  <2>1. /\ once[i] \in Generated /\ Passes(once[i], r, config)
        /\ config /\ HasRuntime => once[i].contract.command \notin {"local", "shell"}
    BY <1>1, <1>2, AdmittedEntry
  <2>2. Repaired(once[i], config) = once[i]
    BY <2>1, RepairedOnce
  <2>3. Normalizes(once[i], r, config) => ~RewriteRefused(once[i].contract, config)
    BY <2>1 DEF Normalizes, NeedsRuntime, Passes, RewriteRefused
  <2> QED BY <2>2, <2>3 DEF CannotNormalize
<1>3. DOMAIN Normalized(once, r, config) = DOMAIN once
      /\ \A i \in DOMAIN once : Normalized(once, r, config)[i] = once[i]
  BY <1>2 DEF Normalized
<1>4. Normalized(once, r, config) = once
  BY <1>1, <1>3, NormalizedType, LenProperties, SeqEqual
<1>5. Valid(once, r, config)
  BY DEF Admitted
<1>6. ASSUME NEW i \in DOMAIN plan0 PROVE SameIntent(plan0[i], once[i])
  <2>1. plan0[i] \in Generated
    BY LenProperties, ElementOfSeq
  <2>2. SameIntent(plan0[i], plan0[i])
    BY DEF SameIntent
  <2> QED BY <2>1, <2>2, RepairKeepsIntent DEF Normalized
<1> QED BY <1>2, <1>4, <1>5, <1>6 DEF Admitted

\* The gate at the writing of a plan looks at nothing the first has not seen.
LEMMA WrappedIsValid ==
  ASSUME NEW plan0 \in Seq(Generated), NEW r \in Releases, NEW config \in BOOLEAN,
         Valid(plan0, r, config)
  PROVE  Valid(Wrapped(Contracts(plan0)), r, config)
<1> DEFINE w == Wrapped(Contracts(plan0))
<1>1. /\ DOMAIN w = DOMAIN plan0
      /\ \A i \in DOMAIN plan0 :
           w[i] = [task |-> plan0[i].contract.task, contract |-> plan0[i].contract]
  BY DEF Wrapped, Contracts
<1>2. \A i \in DOMAIN plan0 : Passes(plan0[i], r, config)
  BY DEF Valid
<1>3. \A i \in DOMAIN plan0 : plan0[i].task = plan0[i].contract.task
  BY <1>2 DEF Passes, MisplacedOrBroad
<1>4. \A i \in DOMAIN plan0 : Passes(w[i], r, config)
  BY <1>1, <1>2 DEF Passes, MisplacedOrBroad
<1>5. \A i, j \in DOMAIN plan0 : w[i].task = w[j].task => i = j
  BY <1>1, <1>3 DEF Valid
<1> QED BY <1>1, <1>4, <1>5 DEF Valid

\* A command with the backend checks what the model said, not a draft.
SecondInv ==
  /\ \A p \in Procs : pc[p] = "draft" => ~job[p].execute
  /\ SecondGateAgrees

LEMMA SecondStep == ASSUME TypeInv, SecondInv, [Next]_vars PROVE SecondInv'
<1>1. CASE UNCHANGED vars
  BY <1>1 DEF vars, SecondInv, SecondGateAgrees
<1>2. ASSUME NEW p \in Procs, Act(p) PROVE SecondInv'
  <2>0. /\ OwnOK /\ Progress(p) /\ job[p] \in Jobs
        /\ job[p].release \in Releases /\ job[p].config \in BOOLEAN
    BY TypeSplit, JobType DEF OwnOK
  <2>1. ASSUME NEW q \in Procs \ {p}
        PROVE  /\ pc'[q] = "draft" => ~job'[q].execute
               /\ pc'[q] = "check" /\ job'[q].execute =>
                    Valid(Wrapped(plan'[q]), job'[q].release, job'[q].config)
    BY <1>2, <2>0, Frame DEF SecondInv, SecondGateAgrees
  <2>2. pc'[p] = "draft" => job' = job /\ ~job[p].execute
    <3>1. CASE GateStrategy(p)
      BY <2>0, <3>1 DEF GateStrategy, AfterGate, Goto, OwnOK, Jobs
    <3>2. CASE FillLedger(p)
      BY <2>0, <3>2 DEF FillLedger, Goto, OwnOK
    <3>3. CASE ~GateStrategy(p) /\ ~FillLedger(p)
      BY <1>2, <2>0, <3>3 DEF Act, Start, LoadContracts, ReadLedger, OpenLedger, CallModel,
         DraftContracts, CheckPlan, ProbeContract, OpenContract, FillContract, RunPlan, Kill,
         Goto, Ends, OwnOK
    <3> QED BY <3>1, <3>2, <3>3
  <2>3. pc'[p] = "check" /\ job'[p].execute =>
          Valid(Wrapped(plan'[p]), job'[p].release, job'[p].config)
    <3>1. CASE CallModel(p)
      <4>1. ASSUME NEW out \in Outputs, Parses(out, job[p].release),
                   Admitted(Parsed(out), job[p].release, job[p].config)
            PROVE  LET s == Normalized(Parsed(out), job[p].release, job[p].config)
                   IN Valid(Wrapped(Contracts(s)), job[p].release, job[p].config)
        <5>1. Parsed(out) \in Seq(Generated)
          BY <2>0, <4>1, ParsedType, PlanningAssumption
        <5>2. Normalized(Parsed(out), job[p].release, job[p].config) \in Seq(Generated)
          BY <2>0, <5>1, NormalizedType
        <5> QED BY <2>0, <4>1, <5>2, WrappedIsValid DEF Admitted
      <4>2. CASE Ends(p)
        BY <2>0, <4>2, EndsProgress
      <4>3. CASE ~Ends(p)
        BY <2>0, <3>1, <4>1, <4>3 DEF CallModel, OwnOK
      <4> QED BY <4>2, <4>3
    <3>2. CASE DraftContracts(p)
      BY <2>0, <3>2 DEF DraftContracts, SecondInv
    <3>3. CASE ~CallModel(p) /\ ~DraftContracts(p)
      <4>1. pc'[p] # "check"
        BY <1>2, <2>0, <3>3 DEF Act, Start, LoadContracts, GateStrategy, AfterGate, ReadLedger,
           OpenLedger, FillLedger, CheckPlan, ProbeContract, OpenContract, FillContract, RunPlan,
           Kill, Goto, Ends, OwnOK
      <4> QED BY <4>1
    <3> QED BY <3>1, <3>2, <3>3
  <2> QED BY <2>1, <2>2, <2>3 DEF SecondInv, SecondGateAgrees
<1> QED BY <1>1, <1>2, SomebodyActs

\* Whatever the model answers: the gate that a plan passes before it is written
\* refuses no plan that was admitted.
THEOREM GatesAgree == Spec => []SecondGateAgrees
<1>1. Init => SecondInv
  BY DEF Init, SecondInv, SecondGateAgrees
<1>2. TypeInv /\ SecondInv /\ [Next]_vars => SecondInv'
  BY SecondStep
<1>3. SecondInv => SecondGateAgrees
  BY DEF SecondInv
<1> QED BY <1>1, <1>2, <1>3, AlwaysTyped, PTL DEF Spec

=============================================================================
