---------------------- MODULE ReleaseDecisionsProofs ----------------------
(***************************************************************************)
(* What the decisions of a release promise for any tasks, any limit of the *)
(* reviews, any number of runs and of artifacts the supervisor writes:     *)
(* types, the consent behind over-budget work, and the review cap.         *)
(***************************************************************************)
EXTENDS ReleaseDecisions, FiniteSetTheorems, TLAPS

-----------------------------------------------------------------------------
(* Types.                                                                  *)

\* Before its tasks a run has no results; its results are on the branch; and
\* only so many artifacts were written that they can be counted.
TypeInv ==
  /\ TypeOK
  /\ pc \in {"off", "schedule", "govern", "tasks"} => done = {}
  /\ done \subseteq integration
  /\ IsFiniteSet(scope)

LEMMA ScopeCounted == ASSUME TypeInv PROVE Cardinality(scope) \in Nat
  BY FS_CardinalityType DEF TypeInv

LEMMA LoadedType == ASSUME TypeInv PROVE Loaded \in Schedules
<1>1. schedule \in Schedules
  BY DEF TypeInv, TypeOK
<1>2. Built \in Schedules
  BY DEF Built, Scheduled, Schedules, Actions
<1>3. ASSUME Normalizable(schedule)
      PROVE  [schedule EXCEPT !.form = "whole", !.fresh = TRUE] \in Schedules
  <2>1. schedule \in [form : {"whole", "loose", "broken"}, action : Actions, fresh : BOOLEAN]
    BY <1>1, <1>3 DEF Normalizable, Schedules, Absent
  <2> QED
    BY <2>1 DEF Schedules
<1>4. Repaired(schedule) \in Schedules
  BY <1>1, <1>3 DEF Repaired
<1> QED
  BY <1>2, <1>4 DEF Loaded

LEMMA TypeInit == Init => TypeInv
<1>1. Absent \in Schedules /\ NoMetrics \in Metrics
  BY DEF Absent, Schedules, NoMetrics, Metrics
<1> SUFFICES ASSUME Init PROVE TypeInv
  OBVIOUS
<1>2. pc \in Phases /\ schedule \in Schedules /\ corrupt \in BOOLEAN /\ action \in Actions
  BY <1>1 DEF Init, Phases, Actions
<1>3. metrics \in Metrics /\ evidence \in Metrics /\ relapsed \in BOOLEAN
  BY <1>1 DEF Init
<1>4. cap \in 0..ReviewLimit /\ dated \in Nat /\ runs \in 0..MaxRuns /\ writes \in 0..MaxWrites
  BY DecisionsAssumption DEF Init
<1>5. TypeOK
  BY <1>2, <1>3, <1>4 DEF Init, TypeOK
<1> QED
  BY <1>5, FS_EmptySet DEF Init, TypeInv

LEMMA StopType ==
  ASSUME TypeInv, Stop, UNCHANGED <<integration, base, runs>>,
         UNCHANGED <<heavy, condoned, relapsed>>,
         completed' \subseteq Tasks \cap integration
  PROVE  TypeInv'
<1>1. Absent \in Schedules /\ NoMetrics \in Metrics
  BY DEF Absent, Schedules, NoMetrics, Metrics
<1>2. (pc \in Phases /\ schedule \in Schedules /\ corrupt \in BOOLEAN /\ action \in Actions)'
  BY <1>1 DEF Stop, Phases, Actions
<1>3. (metrics \in Metrics /\ evidence \in Metrics /\ relapsed \in BOOLEAN)'
  BY <1>1 DEF Stop, TypeInv, TypeOK
<1>4. (cap \in 0..ReviewLimit /\ dated \in Nat /\ runs \in 0..MaxRuns /\ writes \in 0..MaxWrites)'
  BY DecisionsAssumption DEF Stop, TypeInv, TypeOK
<1>5. TypeOK'
  BY <1>2, <1>3, <1>4 DEF Stop, TypeInv, TypeOK
<1> QED
  BY <1>5, FS_EmptySet DEF Stop, TypeInv

\* The placeholders are as many as tasks at most.
LEMMA PlaceholdersFinite ==
  ASSUME TypeInv PROVE IsFiniteSet(Placeholders) /\ Placeholders \subseteq Records
<1>1. missing \subseteq Tasks
  BY DEF TypeInv, TypeOK
<1>2. IsFiniteSet(missing)
  BY <1>1, FS_Subset, DecisionsAssumption
<1> DEFINE record(t) == [of |-> t, accepts |-> FALSE, at |-> dated, by |-> "kernel"]
           g == [t \in missing |-> record(t)]
<1>3. g \in Surjection(missing, Placeholders)
  BY DEF Surjection, Placeholders
<1>4. IsFiniteSet(Placeholders)
  BY <1>2, <1>3, FS_Surjection
<1>5. Placeholders \subseteq Records
  <2>1. dated \in Nat
    BY DEF TypeInv, TypeOK
  <2>2. \A t \in Tasks : record(t) \in Records
    BY <2>1 DEF Records
  <2> QED
    BY <1>1, <2>2 DEF Placeholders
<1> QED
  BY <1>4, <1>5

LEMMA TypeStep == ASSUME TypeInv, [Next]_vars PROVE TypeInv'
<1>1. CASE UNCHANGED vars
  BY <1>1 DEF vars, artifacts, run, work, history, bounds, TypeInv, TypeOK
<1>2. CASE StartRun
  BY <1>2, DecisionsAssumption DEF StartRun, artifacts, run, work, history, TypeInv, TypeOK, Phases
<1>3. CASE WriteSchedule
  BY <1>3, DecisionsAssumption DEF WriteSchedule, Supervises, run, work, TypeInv, TypeOK
<1>4. CASE WriteGovernance
  BY <1>4, DecisionsAssumption DEF WriteGovernance, Supervises, run, work, TypeInv, TypeOK
<1>5. CASE WriteCorrupt
  BY <1>5, DecisionsAssumption DEF WriteCorrupt, Supervises, run, work, TypeInv, TypeOK
<1>6. CASE MoveBase
  <2>1. schedule \in [form : {"whole", "loose", "broken"}, action : Actions, fresh : BOOLEAN]
    BY <1>6 DEF MoveBase, TypeInv, TypeOK, Schedules, Absent
  <2>2. schedule' \in [form : {"whole", "loose", "broken"}, action : Actions, fresh : BOOLEAN]
    BY <1>6, <2>1 DEF MoveBase
  <2>3. schedule' \in Schedules
    BY <2>2 DEF Schedules
  <2> QED
    BY <1>6, <2>3 DEF MoveBase, run, work, history, bounds, TypeInv, TypeOK
<1>7. ASSUME NEW of \in Tasks \cup {Whole}, NEW accepts \in BOOLEAN, WriteScope(of, accepts)
      PROVE  TypeInv'
  <2> DEFINE r == [of |-> of, accepts |-> accepts, at |-> Cardinality(scope) + 1,
                   by |-> "supervisor"]
  <2>1. r \in Records
    BY ScopeCounted DEF Records
  <2>2. scope' = scope \cup {r} /\ IsFiniteSet(scope')
    BY <1>7, FS_AddElement DEF WriteScope, TypeInv
  <2>3. writes' \in 0..MaxWrites
    BY <1>7, DecisionsAssumption DEF WriteScope, Supervises, TypeInv, TypeOK
  <2>4. condoned' \subseteq Tasks
    BY <1>7 DEF WriteScope, TypeInv, TypeOK
  <2> QED
    BY <1>7, <2>1, <2>2, <2>3, <2>4 DEF WriteScope, Supervises, run, work, TypeInv, TypeOK
<1>8. CASE Schedule
  BY <1>8, LoadedType DEF Schedule, Usable, Supported, Actions, Phases, work, history, bounds,
     TypeInv, TypeOK
<1>9. CASE RefuseSchedule
  BY <1>9, StopType DEF RefuseSchedule, history, TypeInv, TypeOK
<1>10. CASE Govern
  <2>1. (pc \in Phases /\ governance \in {"absent", "review_capped", "other"})'
    BY <1>10 DEF Govern, Governed, Phases, TypeInv, TypeOK
  <2>2. cap' \in 0..ReviewLimit
    BY <1>10, DecisionsAssumption DEF Govern
  <2>3. relapsed' \in BOOLEAN
    BY <1>10 DEF Govern
  <2> QED
    BY <1>10, <2>1, <2>2, <2>3 DEF Govern, work, bounds, TypeInv, TypeOK
<1>11. CASE RunTasks
  BY <1>11 DEF RunTasks, artifacts, bounds, Phases, TypeInv, TypeOK
<1>12. CASE Ensure
  BY <1>12, ScopeCounted DEF Ensure, artifacts, work, history, bounds, Phases, TypeInv, TypeOK
<1>13. CASE Place
  <2>1. scope' \subseteq Records /\ IsFiniteSet(scope')
    BY <1>13, PlaceholdersFinite, FS_Union DEF Place, TypeInv, TypeOK
  <2> QED
    BY <1>13, <2>1 DEF Place, run, work, history, bounds, Phases, TypeInv, TypeOK
<1>14. CASE Gate
  BY <1>14, ScopeCounted DEF Gate, artifacts, work, history, bounds, Phases, TypeInv, TypeOK
<1>15. CASE Review
  <2>1. metrics' \in Metrics
    <3>1. \A a, b, c, d \in BOOLEAN :
            [there |-> a, churn |-> b, pressure |-> c, capped |-> d] \in Metrics
      BY DEF Metrics
    <3>2. (cap < ReviewLimit) \in BOOLEAN /\ TRUE \in BOOLEAN /\ FALSE \in BOOLEAN
      OBVIOUS
    <3>3. \A waves : Churn(waves) \in BOOLEAN
      BY DEF Churn
    <3>4. CASE decision = "accepted"
      <4>1. PICK waves \in 0..cap, pressure \in BOOLEAN :
              metrics' = [there |-> TRUE, churn |-> Churn(waves), pressure |-> pressure,
                          capped |-> cap < ReviewLimit]
        BY <1>15, <3>4 DEF Review
      <4> QED
        BY <3>1, <3>2, <3>3, <4>1
    <3>5. CASE decision # "accepted"
      <4>1. metrics' = [there |-> TRUE, churn |-> FALSE, pressure |-> FALSE,
                        capped |-> cap < ReviewLimit]
        BY <1>15, <3>5 DEF Review, NoMetrics
      <4> QED
        BY <3>1, <3>2, <4>1
    <3> QED
      BY <3>4, <3>5
  <2>2. (integration \subseteq Tasks \cup Repairs /\ heavy \subseteq integration)'
    BY <1>15 DEF Review, TypeInv, TypeOK
  <2>3. integration \subseteq integration' /\ pc' = "finalize"
    BY <1>15 DEF Review
  <2>4. decision' \in {"accepted", "failed", "needs_revision"}
    BY <1>15 DEF Review, TypeInv, TypeOK
  <2> QED
    BY <1>15, <2>1, <2>2, <2>3, <2>4 DEF Review, artifacts, bounds, Phases, TypeInv, TypeOK
<1>16. CASE Finalize
  BY <1>16 DEF Finalize, artifacts, run, history, bounds, Phases, TypeInv, TypeOK
<1>17. CASE Summarize
  <2>1. completed' \subseteq Tasks \cap integration
    BY <1>17 DEF Summarize, Completed, TypeInv, TypeOK
  <2> QED
    BY <1>17, <2>1, StopType DEF Summarize, history
<1>18. CASE Kill
  BY <1>18, StopType DEF Kill, history, TypeInv, TypeOK
<1> QED
  BY <1>1, <1>2, <1>3, <1>4, <1>5, <1>6, <1>7, <1>8, <1>9, <1>10, <1>11, <1>12, <1>13, <1>14,
     <1>15, <1>16, <1>17, <1>18 DEF Next

\* However the supervisor, the commits and the kills fall, the decisions and the
\* results of a run keep their types, and what was completed is on the branch.
THEOREM DecisionsType == Spec => []TypeOK
<1>1. Spec => []TypeInv
  BY TypeInit, TypeStep, PTL DEF Spec
<1> QED
  BY <1>1, PTL DEF TypeInv

-----------------------------------------------------------------------------
(* The review cap.                                                         *)

\* A cap allows one wave of repairs, which is no churn; so metrics that say that
\* the run was capped do not ask for a cap.
CapInv ==
  /\ cap < ReviewLimit => cap <= 1
  /\ metrics.capped => ~metrics.churn
  /\ evidence.capped => ~evidence.churn
  /\ CapsAlternate

LEMMA CapStop == ASSUME CapInv, Stop, UNCHANGED relapsed PROVE CapInv'
  BY DecisionsAssumption DEF CapInv, CapsAlternate, Stop, NoMetrics

LEMMA CapStep == ASSUME TypeInv, CapInv, [Next]_vars PROVE CapInv'
<1>1. CASE Govern
  <2>1. cap' < ReviewLimit => cap' <= 1
    BY <1>1, DecisionsAssumption DEF Govern
  <2>2. ~relapsed'
    BY <1>1 DEF Govern, Governed, CapInv, CapsAlternate
  <2> QED
    BY <1>1, <2>1, <2>2 DEF Govern, CapInv, CapsAlternate, work
<1>2. CASE Review
  <2>1. metrics'.capped => ~metrics'.churn
    <3>1. CASE decision = "accepted"
      <4>1. PICK waves \in 0..cap, pressure \in BOOLEAN :
              metrics' = [there |-> TRUE, churn |-> Churn(waves), pressure |-> pressure,
                          capped |-> cap < ReviewLimit]
        BY <1>2, <3>1 DEF Review
      <4>2. cap < ReviewLimit => waves < 2
        BY DEF CapInv, TypeInv, TypeOK
      <4>3. cap < ReviewLimit => ~Churn(waves)
        BY <4>2 DEF Churn
      <4>4. metrics'.capped = (cap < ReviewLimit) /\ metrics'.churn = Churn(waves)
        BY <4>1
      <4> QED
        BY <4>3, <4>4
    <3>2. CASE decision # "accepted"
      BY <1>2, <3>2 DEF Review, NoMetrics
    <3> QED
      BY <3>1, <3>2
  <2> QED
    BY <1>2, <2>1 DEF Review, CapInv, CapsAlternate
<1>3. CASE RefuseSchedule \/ Summarize \/ Kill
  BY <1>3, CapStop DEF RefuseSchedule, Summarize, Kill, history
<1>4. CASE UNCHANGED <<cap, metrics, evidence, relapsed>>
  BY <1>4 DEF CapInv, CapsAlternate
<1>5. ASSUME NEW of \in Tasks \cup {Whole}, NEW accepts \in BOOLEAN, WriteScope(of, accepts)
      PROVE  UNCHANGED <<cap, metrics, evidence, relapsed>>
  BY <1>5 DEF WriteScope, Supervises, run, work
<1>6. CASE UNCHANGED vars \/ StartRun \/ WriteSchedule \/ WriteGovernance \/ WriteCorrupt
             \/ MoveBase
  BY <1>4, <1>6 DEF vars, StartRun, WriteSchedule, WriteGovernance, WriteCorrupt, MoveBase,
     Supervises, run, work, history
<1>7. CASE Schedule \/ RunTasks \/ Ensure \/ Place \/ Gate \/ Finalize
  BY <1>4, <1>7 DEF Schedule, RunTasks, Ensure, Place, Gate, Finalize, run, work, history
<1> QED
  BY <1>1, <1>2, <1>3, <1>4, <1>5, <1>6, <1>7 DEF Next

\* For any limit and any number of runs, a cap on the reviews is never built on
\* the metrics of a run that was itself capped.
THEOREM CapsDoNotFeedThemselves == Spec => []CapsAlternate
<1>1. Init => CapInv
  BY DecisionsAssumption DEF Init, CapInv, CapsAlternate, NoMetrics
<1>2. TypeInv /\ CapInv /\ [Next]_vars => CapInv'
  BY CapStep
<1>3. Spec => []TypeInv
  BY TypeInit, TypeStep, PTL DEF Spec
<1> QED
  BY <1>1, <1>2, <1>3, PTL DEF Spec, CapInv

-----------------------------------------------------------------------------
(* The consent behind over-budget work.                                    *)

\* No record is dated later than now, and the kernel never accepts.  Once the run
\* looked, each over-budget task has a record or is about to get a placeholder;
\* at the gate it has one, if every record loads.
ScopeInv ==
  /\ \A r \in scope : r.at <= Cardinality(scope) /\ (r.by = "kernel" => ~r.accepts)
  /\ pc = "place" => /\ dated <= Cardinality(scope)
                     /\ \A t \in over : t \in missing \/ Of(t) # {}
  /\ pc = "gate" /\ ~corrupt => \A t \in over : Of(t) # {}
  /\ OverageIsAnswered

LEMMA ScopeStop == ASSUME Stop PROVE ScopeInv'
<1>1. scope' = {} /\ pc' = "off"
  BY DEF Stop
<1> QED
  BY <1>1 DEF ScopeInv, OverageIsAnswered

\* Where nothing the gate looks at changes, a phase matters only by its name.
LEMMA ScopeKept ==
  ASSUME ScopeInv, UNCHANGED scope,
         pc' \notin {"place", "gate", "review", "finalize", "summarize"}
  PROVE  ScopeInv'
  BY DEF ScopeInv, OverageIsAnswered

LEMMA ScopeWritten ==
  ASSUME TypeInv, ScopeInv,
         NEW of \in Tasks \cup {Whole}, NEW accepts \in BOOLEAN, WriteScope(of, accepts)
  PROVE  ScopeInv'
<1> DEFINE r == [of |-> of, accepts |-> accepts, at |-> Cardinality(scope) + 1,
                 by |-> "supervisor"]
<1>1. scope' = scope \cup {r} /\ Cardinality(scope) \in Nat
  BY ScopeCounted DEF WriteScope
<1>2. r \notin scope
  BY <1>1 DEF ScopeInv
<1>3. Cardinality(scope') = Cardinality(scope) + 1
  BY <1>1, <1>2, FS_AddElement DEF TypeInv
<1>4. \A s \in scope' : s.at <= Cardinality(scope') /\ (s.by = "kernel" => ~s.accepts)
  <2>1. \A s \in scope : s.at \in Nat
    BY DEF TypeInv, TypeOK, Records
  <2> QED
    BY <1>1, <1>3, <2>1 DEF ScopeInv
<1>5. pc' = pc /\ over' = over /\ missing' = missing /\ dated' = dated /\ corrupt' = corrupt
  BY DEF WriteScope, Supervises, run
<1>6. \A t : Of(t) # {} => Of(t)' # {}
  BY <1>1 DEF Of
<1>7. pc \in {"tasks", "ensure", "place", "gate"}
  BY DEF WriteScope
<1>8. dated \in Nat
  BY DEF TypeInv, TypeOK
<1> QED
  BY <1>1, <1>3, <1>4, <1>5, <1>6, <1>7, <1>8 DEF ScopeInv, OverageIsAnswered

LEMMA ScopePlaced == ASSUME TypeInv, ScopeInv, Place PROVE ScopeInv'
<1>1. scope' = scope \cup Placeholders /\ IsFiniteSet(scope')
  BY PlaceholdersFinite, FS_Union DEF Place, TypeInv
<1>2. Cardinality(scope) <= Cardinality(scope') /\ Cardinality(scope') \in Nat
  BY <1>1, FS_Subset, FS_CardinalityType
<1>3. \A s \in scope' : s.at <= Cardinality(scope') /\ (s.by = "kernel" => ~s.accepts)
  <2>1. \A s \in scope : s.at \in Nat
    BY DEF TypeInv, TypeOK, Records
  <2>2. \A s \in Placeholders : s.at = dated /\ ~s.accepts
    BY DEF Placeholders
  <2>3. dated <= Cardinality(scope) /\ dated \in Nat
    BY DEF Place, ScopeInv, TypeInv, TypeOK
  <2> QED
    BY <1>1, <1>2, <2>1, <2>2, <2>3, ScopeCounted DEF ScopeInv
<1>4. \A t \in over : Of(t)' # {}
  <2>1. ASSUME NEW t \in missing PROVE Of(t)' # {}
    <3>1. [of |-> t, accepts |-> FALSE, at |-> dated, by |-> "kernel"] \in scope'
      BY <1>1 DEF Placeholders
    <3> QED
      BY <3>1 DEF Of
  <2>2. ASSUME NEW t, Of(t) # {} PROVE Of(t)' # {}
    BY <1>1, <2>2 DEF Of
  <2> QED
    BY <2>1, <2>2 DEF Place, ScopeInv
<1>5. pc' = "gate" /\ over' = over
  BY DEF Place, run
<1> QED
  BY <1>3, <1>4, <1>5 DEF ScopeInv, OverageIsAnswered

\* The gate lets only such tasks pass.
LEMMA ScopeGated == ASSUME TypeInv, ScopeInv, Gate PROVE ScopeInv'
<1>1. scope' = scope /\ over' = over /\ pc' = "review" /\ dated' = Cardinality(scope)
  BY DEF Gate, artifacts
<1>2. ASSUME Allowed, NEW t \in over PROVE SaysYes(t, Cardinality(scope))
  <2>1. Of(t) # {}
    BY <1>2 DEF Gate, Allowed, ScopeInv
  <2>2. PICK r \in Newest(Of(t)) : r.accepts
    BY <1>2, <2>1 DEF Allowed, Selected
  <2>3. r \in Of(t) /\ r \in scope /\ \A s \in Of(t) : s.at <= r.at
    BY <2>2 DEF Newest, Of
  <2>4. r.by = "supervisor"
    BY <2>2, <2>3 DEF ScopeInv, TypeInv, TypeOK, Records
  <2>5. \A s \in scope : s.at \in Nat
    BY DEF TypeInv, TypeOK, Records
  <2>6. \A s \in Of(t) : ~(s.at > r.at)
    BY <2>3, <2>5 DEF Of
  <2> QED
    BY <2>2, <2>3, <2>4, <2>6 DEF SaysYes, ScopeInv
<1>3. decision' = "accepted" => Allowed
  BY DEF Gate
<1>4. ASSUME NEW t PROVE SaysYes(t, dated)' = SaysYes(t, Cardinality(scope))
  BY <1>1 DEF SaysYes, Of
<1>5. OverageIsAnswered'
  BY <1>1, <1>2, <1>3, <1>4 DEF OverageIsAnswered
<1> QED
  BY <1>1, <1>5 DEF ScopeInv

LEMMA ScopeStep == ASSUME TypeInv, ScopeInv, [Next]_vars PROVE ScopeInv'
<1>1. CASE UNCHANGED vars
  BY <1>1 DEF vars, artifacts, run, ScopeInv, OverageIsAnswered, SaysYes, Of
<1>2. CASE StartRun \/ WriteSchedule \/ WriteGovernance \/ MoveBase \/ Schedule \/ Govern
  <2>1. UNCHANGED scope
    BY <1>2 DEF StartRun, WriteSchedule, WriteGovernance, MoveBase, Schedule, Govern, artifacts
  <2>2. pc' \in {"schedule", "govern", "tasks"}
    BY <1>2 DEF StartRun, WriteSchedule, WriteGovernance, MoveBase, Schedule, Govern, Supervises
  <2> QED
    BY <2>1, <2>2, ScopeKept
<1>3. CASE WriteCorrupt
  BY <1>3 DEF WriteCorrupt, Supervises, run, ScopeInv, OverageIsAnswered, Of
<1>4. ASSUME NEW of \in Tasks \cup {Whole}, NEW accepts \in BOOLEAN, WriteScope(of, accepts)
      PROVE  ScopeInv'
  BY <1>4, ScopeWritten
<1>5. CASE RunTasks
  BY <1>5 DEF RunTasks, artifacts, ScopeInv, OverageIsAnswered
<1>6. CASE Ensure
  <2>1. scope' = scope /\ over' = over /\ corrupt' = corrupt
    BY <1>6 DEF Ensure, artifacts
  <2>2. CASE corrupt
    BY <1>6, <2>1, <2>2 DEF Ensure, ScopeInv, OverageIsAnswered
  <2>3. CASE ~corrupt
    <3>1. pc' = "place" /\ dated' = Cardinality(scope)
      BY <1>6, <2>3 DEF Ensure
    <3>2. \A t \in over : t \in missing' \/ Of(t) # {}
      BY <1>6, <2>3 DEF Ensure
    <3>3. \A t \in over : t \in missing' \/ Of(t)' # {}
      BY <2>1, <3>2 DEF Of
    <3> QED
      BY <2>1, <3>1, <3>3, ScopeCounted DEF ScopeInv, OverageIsAnswered
  <2> QED
    BY <2>2, <2>3
<1>7. CASE Place
  BY <1>7, ScopePlaced
<1>8. CASE Gate
  BY <1>8, ScopeGated
<1>9. CASE Review \/ Finalize
  <2>1. scope' = scope /\ over' = over /\ dated' = dated /\ pc' \in {"finalize", "summarize"}
    BY <1>9 DEF Review, Finalize, artifacts, run
  <2>2. decision' = "accepted" => decision = "accepted" /\ pc \in {"review", "finalize"}
    BY <1>9 DEF Review, Finalize, run
  <2>3. \A t : SaysYes(t, dated)' = SaysYes(t, dated)
    BY <2>1 DEF SaysYes, Of
  <2> QED
    BY <2>1, <2>2, <2>3 DEF ScopeInv, OverageIsAnswered
<1>10. CASE RefuseSchedule \/ Summarize \/ Kill
  BY <1>10, ScopeStop DEF RefuseSchedule, Summarize, Kill
<1> QED
  BY <1>1, <1>2, <1>3, <1>4, <1>5, <1>6, <1>7, <1>8, <1>9, <1>10 DEF Next

\* For any tasks, however many artifacts are written between the steps of the
\* gate: over-budget work of a run that goes on has the last word of the
\* supervisor for each of its tasks.
THEOREM OverageHasConsent == Spec => []OverageIsAnswered
<1>1. Init => ScopeInv
  BY DEF Init, ScopeInv, OverageIsAnswered
<1>2. TypeInv /\ ScopeInv /\ [Next]_vars => ScopeInv'
  BY ScopeStep
<1>3. Spec => []TypeInv
  BY TypeInit, TypeStep, PTL DEF Spec
<1> QED
  BY <1>1, <1>2, <1>3, PTL DEF Spec, ScopeInv
=============================================================================
