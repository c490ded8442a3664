-------------------------- MODULE FeatureReviewLoop --------------------------
(***************************************************************************)
(* _run_feature_review_and_repair_loop of release.py, and what run_release *)
(* and the governor make of its result: a reviewer agent looks at the      *)
(* integration branch, required findings are repaired by tasks of their    *)
(* own, the branch is verified and reviewed again; at the retry limit what *)
(* is left is adjudicated.  The result decides whether the release may be  *)
(* finalized and is handed on as a recheck record, follow-up proposals and *)
(* a continuation decision.                                                *)
(*                                                                         *)
(* A review gives every finding id a kind, by what the code tells apart:   *)
(*   implement  a required repair that asks for a change                   *)
(*   check      a required repair that only asks to verify or confirm      *)
(*   idle       a required repair that reads "none", no check, a follow-up *)
(*   soft       a follow-up                                                *)
(*   echo       a follow-up that resembles a finding of an earlier review  *)
(*   empty      nothing required, nothing to follow up                     *)
(* A release runs its own tasks first; the loop is entered only when all of*)
(* them were accepted, and at least one ran.                               *)
(***************************************************************************)
EXTENDS Integers, FiniteSets

CONSTANTS
  Ids,            \* finding ids
  MaxLoops,       \* feature_review_max_repair_loops
  MaxFindings,    \* bound: findings of one review
  Blocked,        \* <release>:feature_review_blocked
  SchemaInvalid   \* <release>:schema_invalid_reviewer_output

Sentinels == {Blocked, SchemaInvalid}

ASSUME IdsAssumption  == Ids \intersect Sentinels = {}
ASSUME LoopsAssumption == MaxLoops \in Nat \ {0} /\ MaxFindings \in Nat

VARIABLES
  merging,      \* the merge-on-accept option, repairs reach the integration branch
  pc,           \* where the loop, then run_release, then the governor is
  loop,         \* loop_index
  review,       \* the current FeatureReviewDecision
  seen,         \* the finding ids of the reviews before it
  outstanding,  \* outstanding_required_finding_ids
  queue,        \* the repair contracts of this wave still to be run
  kept,         \* branches of accepted repairs that were not merged exist
  contracts,    \* repair contracts have been written
  reruns,       \* logs of verification reruns exist
  final,        \* final_integration_verification.json
  tested,       \* the branch as it stands passed the last verification of it
  verdict,      \* gating_decision
  recheck,      \* the FeatureReviewRecheckRecord
  proposals,    \* proposal_by_finding_id
  adjudicated,  \* findings with an adjudication artifact that defers them
  decision,     \* the release decision
  gate,         \* the finalization gate
  outcome,      \* of the FinalReviewContinuationDecision
  fate          \* what became of each blocking finding (history)

record == <<proposals, adjudicated, recheck, verdict>>
judged == <<decision, gate, outcome>>
branch == <<queue, kept, contracts, reruns, final, tested>>
vars   == <<merging, pc, loop, review, seen, outstanding, branch, record, judged, fate>>

-----------------------------------------------------------------------------
(* Types                                                                   *)

Kinds   == {"implement", "check", "idle", "soft", "echo", "empty"}
Reviews == [kind : [Ids -> Kinds \union {"absent"}],   \* absent: no such finding
            escalate : BOOLEAN,                        \* the recommendation is escalate
            risks : BOOLEAN]                           \* accepted_risks are given
Stops   == {"resolved", "accepted_with_rationale", "blocked_by_retry_budget",
            "blocked_by_hard_gate"}

NoReview  == [kind |-> [i \in Ids |-> "absent"], escalate |-> FALSE, risks |-> FALSE]
NoRecheck == [unresolved |-> {}, accepted |-> {}, deferred |-> {}, stop |-> "none"]
NoGate    == [allowed |-> FALSE, unresolved |-> {}]

Ended == {"done", "raised"}

TypeOK ==
  /\ merging \in BOOLEAN
  /\ pc \in {"review", "judge", "repair", "evaluate", "gate", "governor"} \union Ended
  /\ loop \in 0 .. MaxLoops
  /\ review \in Reviews
  /\ seen \subseteq Ids /\ outstanding \subseteq Ids /\ queue \subseteq Ids
  /\ kept \in BOOLEAN /\ contracts \in BOOLEAN
  /\ reruns \in BOOLEAN /\ tested \in BOOLEAN
  /\ final \in {"none", "passed", "failed"}
  /\ verdict \in {"pending", "accepted", "needs_revision", "escalated"}
  /\ recheck \in [unresolved : SUBSET (Ids \union Sentinels), accepted : SUBSET Ids,
                  deferred : SUBSET Ids, stop : Stops \union {"none"}]
  /\ proposals \subseteq Ids /\ adjudicated \subseteq Ids
  /\ decision \in {"pending", "accepted", "needs_revision", "escalated", "failed"}
  /\ gate \in [allowed : BOOLEAN, unresolved : SUBSET (Ids \union Sentinels)]
  /\ outcome \in {"none", "blocker", "hard_stop", "accepted_risk", "backlog_follow_up"}
  /\ fate \in [Ids -> {"none", "open", "repaired", "verified", "adjudicated"}]

-----------------------------------------------------------------------------
(* What the code reads off a review                                        *)

Of(kinds) == { i \in Ids : review.kind[i] \in kinds }

Present  == Of(Kinds)
Required == Of({"implement", "check", "idle"})   \* required_repairs is not empty
Blocking == Of({"implement", "check"})           \* _effective_required_repairs is not empty
Optional == Of({"soft", "echo"})                 \* only optional_follow_ups

\* classify_feature_review_findings_for_convergence, findings that do not block.
Duplicate(i) == i \in seen \/ (review.kind[i] = "echo" /\ loop > 0)
Soft      == { i \in Of({"idle", "soft", "echo"}) : ~Duplicate(i) /\ loop = 0 }
FollowUps == { i \in Of({"idle", "soft", "echo"}) : ~Duplicate(i) /\ loop > 0 }

Deferred == Of({"idle", "soft", "echo"}) \ Soft

\* optional_recheck_ids
AcceptedOptional == Optional \intersect Soft
DeferredOptional == Optional \intersect Deferred

\* The loop returns: gating decision and recheck record.
Returns(v, unresolved, accepted, deferred, stop) ==
  /\ pc' = "evaluate"
  /\ verdict' = v
  /\ recheck' = [unresolved |-> unresolved, accepted |-> accepted, deferred |-> deferred,
                 stop |-> stop]

-----------------------------------------------------------------------------
(* The loop                                                                *)

Init ==
  /\ merging \in BOOLEAN
  /\ pc = "review"
  /\ loop = 0
  /\ review = NoReview
  /\ seen = {} /\ outstanding = {} /\ queue = {}
  /\ kept = FALSE /\ contracts = FALSE /\ reruns = FALSE /\ tested = FALSE
  /\ final = "none"
  /\ verdict = "pending"
  /\ recheck = NoRecheck
  /\ proposals = {} /\ adjudicated = {}
  /\ decision = "pending"
  /\ gate = NoGate
  /\ outcome = "none"
  /\ fate = [i \in Ids |-> "none"]

\* run_review: whatever the reviewer answers, a blocked or a context-failure
\* decision included (escalate, with or without a finding).
Review ==
  /\ pc = "review"
  /\ \E r \in Reviews :
       /\ Cardinality({ i \in Ids : r.kind[i] # "absent" }) <= MaxFindings
       /\ review' = r
       /\ outstanding' =
            outstanding \union { i \in Ids : r.kind[i] \in {"implement", "check", "idle"} }
       /\ fate' = [i \in Ids |-> IF r.kind[i] \in {"implement", "check"} THEN "open" ELSE fate[i]]
  /\ seen' = seen \union Present
  /\ pc' = "judge"
  /\ UNCHANGED <<merging, loop, branch, record, judged>>

Judging == pc = "judge" /\ Of({"empty"}) = {}

\* FeatureReviewClassificationError
ClassificationFails ==
  /\ pc = "judge"
  /\ Of({"empty"}) # {}
  /\ review' = [review EXCEPT !.escalate = TRUE]
  /\ Returns("escalated", Present \union {SchemaInvalid}, {}, {}, "blocked_by_hard_gate")
  /\ UNCHANGED <<merging, loop, seen, outstanding, branch, proposals, adjudicated, judged, fate>>

\* Variants for checking: no limit; mere checks go on being repaired.
NeverAtLimit == FALSE
AtLimitWithChanges == loop >= MaxLoops /\ Of({"implement"}) # {} /\ ~review.escalate

AtLimit == loop >= MaxLoops /\ Required # {} /\ ~review.escalate

\* Variant for checking: every required finding is settled by a passing verification.
SettledByAnyCheck(ok) == IF ok THEN Required ELSE {}

\* The required findings a passing final verification settles.
SettledByCheck(ok) == IF ok THEN Of({"check"}) ELSE {}

\* The convergence limit: the branch is verified (a rerun, then the final
\* integration verification, with nothing between them) and each finding is
\* adjudicated; nothing is accepted or deferred if the verification failed.
Adjudicate ==
  /\ Judging
  /\ AtLimit
  /\ \E ok \in BOOLEAN :
       LET unresolved == IF ok THEN Blocking \ SettledByCheck(ok) ELSE Present
           accepted   == IF ok THEN SettledByCheck(ok) \union Soft ELSE {}
           deferred   == IF ok THEN Deferred ELSE {}
           settled    == ok /\ unresolved = {}
       IN  /\ Returns(IF settled THEN "accepted" ELSE "needs_revision",
                      unresolved, accepted, deferred \ accepted,
                      IF settled THEN "accepted_with_rationale" ELSE "blocked_by_retry_budget")
           /\ review' = [review EXCEPT !.risks = @ \/ settled]
           /\ fate' = [i \in Ids |->
                         IF settled /\ i \in SettledByCheck(ok) THEN "adjudicated" ELSE fate[i]]
           /\ adjudicated' = deferred \ accepted
           /\ final' = IF ok THEN "passed" ELSE "failed"
           /\ tested' = ok
  /\ reruns' = TRUE
  /\ UNCHANGED <<merging, loop, seen, outstanding, queue, kept, contracts, proposals, judged>>

\* Variant for checking: the classifications are written, the proposals are not.
NoProposals == proposals

\* write_non_blocking_finding_classifications
Proposed == proposals \union FollowUps

\* The reviewer escalates, or could not review.
Escalate ==
  /\ Judging
  /\ review.escalate
  /\ LET unresolved == IF Present # {} THEN Present
                       ELSE IF outstanding # {} THEN outstanding ELSE {Blocked}
     IN  Returns("escalated", unresolved, AcceptedOptional, DeferredOptional,
                 "blocked_by_hard_gate")
  /\ proposals' = Proposed
  /\ UNCHANGED <<merging, loop, review, seen, outstanding, branch, adjudicated, judged, fate>>

NothingRequired ==
  /\ Judging
  /\ ~review.escalate
  /\ Required = {}
  /\ Returns("accepted", {}, AcceptedOptional, DeferredOptional,
             IF Present = {} THEN "resolved" ELSE "accepted_with_rationale")
  /\ review' = [review EXCEPT !.risks = @ \/ Present # {}]
  /\ proposals' = Proposed
  /\ UNCHANGED <<merging, loop, seen, outstanding, branch, adjudicated, judged, fate>>

\* Every required repair reads "none".
NothingToRepair ==
  /\ Judging
  /\ ~review.escalate
  /\ ~AtLimit
  /\ Required # {}
  /\ Blocking = {}
  /\ Returns("accepted", {}, AcceptedOptional, DeferredOptional, "accepted_with_rationale")
  /\ proposals' = Proposed
  /\ UNCHANGED <<merging, loop, review, seen, outstanding, branch, adjudicated, judged, fate>>

\* generate_repair_contracts_for_required_findings
GenerateRepairs ==
  /\ Judging
  /\ ~review.escalate
  /\ ~AtLimit
  /\ Blocking # {}
  /\ queue' = Blocking
  /\ contracts' = TRUE
  /\ proposals' = Proposed
  /\ pc' = "repair"
  /\ UNCHANGED <<merging, loop, review, seen, outstanding, kept, reruns, final, tested,
                 adjudicated, recheck, verdict, judged, fate>>

\* A finding names only generated files, no contract covers its files, or two
\* findings claim one unsafe path: FeatureReviewContextError is not caught.
ContractRefused ==
  /\ Judging
  /\ ~review.escalate
  /\ ~AtLimit
  /\ Blocking # {}
  /\ proposals' = Proposed
  /\ pc' = "raised"
  /\ UNCHANGED <<merging, loop, review, seen, outstanding, branch, adjudicated, recheck,
                 verdict, judged, fate>>

\* The task ids of a wave start at 1 again: the branches an earlier wave kept are in the way.
Collides == kept /\ queue = Blocking

\* A repair task is accepted and, under --merge-on-accept, merged.
RepairAccepted(i) ==
  /\ pc = "repair"
  /\ i \in queue
  /\ ~Collides
  /\ queue' = queue \ {i}
  /\ kept' \in (IF merging THEN {FALSE} ELSE {kept, TRUE})   \* kept, if it committed anything
  /\ tested' = (tested /\ ~merging)
  /\ fate' = [fate EXCEPT ![i] = "repaired"]
  /\ UNCHANGED <<merging, pc, loop, review, seen, outstanding, contracts, reruns, final,
                 record, judged>>

\* What the recheck record names when a wave fails.
Unanswered == Required

\* Not accepted; its work may be on the branch nevertheless (a failed push).
RepairFails ==
  /\ pc = "repair"
  /\ queue # {}
  /\ ~Collides
  /\ Returns("needs_revision", Unanswered, AcceptedOptional, DeferredOptional,
             "blocked_by_hard_gate")
  /\ tested' \in {tested, tested /\ ~merging}
  /\ UNCHANGED <<merging, loop, review, seen, outstanding, queue, kept, contracts, reruns, final,
                 proposals, adjudicated, judged, fate>>

\* Git, a worktree in the way, or anything else run_task does not catch.
RepairRaises ==
  /\ pc = "repair"
  /\ queue # {}
  /\ pc' = "raised"
  /\ UNCHANGED <<merging, loop, review, seen, outstanding, branch, record, judged, fate>>

\* Variant for checking: a wave is not counted.
SameLoop == loop

NextLoop == loop + 1

\* rerun_verification after the wave, and the way back to the reviewer.
VerificationPasses ==
  /\ pc = "repair"
  /\ queue = {}
  /\ reruns' = TRUE
  /\ tested' = TRUE
  /\ loop' = NextLoop
  /\ pc' = "review"
  /\ fate' = [i \in Ids |-> IF fate[i] = "repaired" THEN "verified" ELSE fate[i]]
  /\ UNCHANGED <<merging, review, seen, outstanding, queue, kept, contracts, final, record, judged>>

VerificationFails ==
  /\ pc = "repair"
  /\ queue = {}
  /\ reruns' = TRUE
  /\ tested' = FALSE
  /\ Returns("needs_revision", Unanswered, AcceptedOptional, DeferredOptional,
             "blocked_by_hard_gate")
  /\ UNCHANGED <<merging, loop, review, seen, outstanding, queue, kept, contracts, final,
                 proposals, adjudicated, judged, fate>>

-----------------------------------------------------------------------------
(* What run_release and the governor make of it                            *)

\* Variant for checking: a run that repaired nothing is not verified again.
VerificationDueAfterRepairs == merging /\ final = "none" /\ contracts

\* Some result is merged, and the loop did not run the final verification.
VerificationDue == merging /\ final = "none"

\* The budget is evaluated, then the branch verified if that is still due.
Evaluate ==
  /\ pc = "evaluate"
  /\ \E overBudget, ok \in BOOLEAN :
       IF verdict = "accepted" /\ ~overBudget /\ VerificationDue
       THEN /\ final' = IF ok THEN "passed" ELSE "failed"
            /\ tested' = ok
            /\ decision' = IF ok THEN "accepted" ELSE "failed"
       ELSE /\ decision' = IF verdict = "accepted" /\ overBudget THEN "failed" ELSE verdict
            /\ UNCHANGED <<final, tested>>
  /\ pc' = "gate"
  /\ UNCHANGED <<merging, loop, review, seen, outstanding, queue, kept, contracts, reruns,
                 record, gate, outcome, fate>>

\* _build_release_finalization_gate: the unresolved findings it names.
GateUnresolved ==
  IF recheck.unresolved \intersect Required # {}
  THEN recheck.unresolved \intersect Required
  ELSE IF Required = {} /\ recheck.stop \in {"blocked_by_retry_budget", "blocked_by_hard_gate"}
       THEN recheck.unresolved \ Optional
       ELSE {}

GateAllows == GateUnresolved = {} /\ decision = "accepted"

\* _write_final_review_continuation_decision
StillRequired ==
  IF GateUnresolved = {} /\ ~GateAllows /\ recheck.stop # "blocked_by_hard_gate"
  THEN Required ELSE GateUnresolved

FollowUpPaths == IF proposals # {} THEN proposals ELSE adjudicated

Outcome ==
  IF StillRequired # {} THEN IF contracts THEN "blocker" ELSE "hard_stop"
  ELSE IF recheck.stop = "blocked_by_hard_gate" THEN "hard_stop"
  ELSE IF recheck.stop = "accepted_with_rationale" /\ recheck.accepted # {} /\ review.risks
       THEN "accepted_risk"
  ELSE IF GateAllows /\ FollowUpPaths # {} THEN "backlog_follow_up" ELSE "hard_stop"

\* The validator of an accepted_risk decision wants evidence of a verification.
OutcomeValid == Outcome = "accepted_risk" => final # "none" \/ reruns

BuildGate ==
  /\ pc = "gate"
  /\ gate' = [allowed |-> GateAllows, unresolved |-> GateUnresolved]
  /\ IF OutcomeValid
     THEN outcome' = Outcome /\ pc' = IF decision = "accepted" THEN "governor" ELSE "done"
     ELSE UNCHANGED outcome /\ pc' = "raised"
  /\ UNCHANGED <<merging, loop, review, seen, outstanding, branch, record, decision, fate>>

\* The validator of GovernorFeatureReviewContinuation.
CarryValid ==
  recheck.stop = "accepted_with_rationale" => recheck.accepted # {} /\ review.risks

\* _load_feature_review_continuation, for an accepted release.
CarryOver ==
  /\ pc = "governor"
  /\ pc' = IF CarryValid THEN "done" ELSE "raised"
  /\ UNCHANGED <<merging, loop, review, seen, outstanding, branch, record, judged, fate>>

-----------------------------------------------------------------------------

Next ==
  \/ Review
  \/ ClassificationFails
  \/ Adjudicate
  \/ Escalate
  \/ NothingRequired
  \/ NothingToRepair
  \/ GenerateRepairs
  \/ ContractRefused
  \/ \E i \in Ids : RepairAccepted(i)
  \/ RepairFails
  \/ RepairRaises
  \/ VerificationPasses
  \/ VerificationFails
  \/ Evaluate
  \/ BuildGate
  \/ CarryOver

Spec == Init /\ [][Next]_vars

\* One thread runs the loop; every subprocess it waits for has a timeout.
LiveSpec == Spec /\ WF_vars(Next)

-----------------------------------------------------------------------------
(***************************************************************************)
(* Properties                                                              *)
(***************************************************************************)

\* The release is finalized only when every blocking finding of any review was
\* answered: repaired by an accepted task with a passing verification after it,
\* or settled as a mere check by a final verification that passed
\* (release.py:2740-3020, 3139-3223, 4816-4877).
BlockersAnswered ==
  gate.allowed =>
    \A i \in Ids :
      \/ fate[i] \in {"none", "verified"}
      \/ fate[i] = "adjudicated" /\ review.kind[i] = "check" /\ final = "passed"

\* A run that merges finalizes only a branch that passed a verification after
\* the last repair was merged into it, whichever way the loop accepted
\* (release.py:1353-1401).
HandedOverAsVerified == gate.allowed /\ merging => tested

\* A blocking finding that was not answered is named by the gate and keeps the
\* release from being finalized, whichever step of the loop stopped, unless it
\* asked for a check that has been made (release.py:4837-4862).
GateNamesBlockers ==
  pc \in {"governor", "done"} =>
    \A i \in Blocking :
      \/ fate[i] \in {"verified", "adjudicated"}
      \/ i \in gate.unresolved
      \/ review.kind[i] = "check" /\ i \in recheck.accepted /\ final = "passed"

\* Unless the loop was stopped by a hard gate, the recheck record says one thing
\* of every finding of the last review, except of those whose required repair
\* reads "none" (release.py:3060-3073, 3139-3155).
RecheckAccounts ==
  verdict # "pending" /\ recheck.stop # "blocked_by_hard_gate" =>
    /\ recheck.unresolved \intersect (recheck.accepted \union recheck.deferred) = {}
    /\ recheck.accepted \intersect recheck.deferred = {}
    /\ Present \ Of({"idle"}) \subseteq
         recheck.unresolved \union recheck.accepted \union recheck.deferred

\* A deferred finding of an accepted review is a duplicate, or what becomes of
\* it is on record: a follow-up proposal, or an adjudication that defers it
\* (release.py:2701-2711, 2954-2961).
DeferredIsOnRecord ==
  verdict = "accepted" =>
    \A i \in recheck.deferred : Duplicate(i) \/ i \in proposals \union adjudicated

\* The gate and the decision agree: a release whose review was accepted, and that
\* kept its budget and passed its verification, is let through, however the loop
\* came to accept; and nothing else is.  Release takes this for granted when it
\* finalizes what it has accepted (release.py:4816-4877, 1346-1401).
GateFollowsDecision == pc \in {"governor", "done"} => (gate.allowed <=> decision = "accepted")

\* Review and repair come to an end: a decision, or an exception.
LoopEnds == (pc = "review") ~> (pc \in Ended)

StepRank == [review |-> 1, judge |-> 2, repair |-> 3, evaluate |-> 4, gate |-> 5,
             governor |-> 6, done |-> 7, raised |-> 7]

\* Why it does: no step goes back.  A repair task leaves one finding less in the
\* wave, a verified wave is counted and counted waves stay within the limit; every
\* other step goes on towards the decision, so no branch is reviewed, repaired or
\* judged twice without a wave between (release.py:2740-3020).
LoopAdvances ==
  [][\/ loop' = loop + 1 /\ loop' <= MaxLoops
     \/ loop' = loop /\ StepRank[pc'] > StepRank[pc]
     \/ loop' = loop /\ pc' = pc /\ queue' \subseteq queue /\ queue' # queue]_vars

\* A review that is accepted lets the release, and the governor's cycle, go on:
\* neither the continuation decision nor the governor's reading of it raises.
\* tests/test_release.py:3853 accepts a release with an optional finding.  Not so
\* of the code: without a verification the continuation does not validate.
AcceptedReviewIsCarried ==
  [][verdict = "accepted" => pc' # "raised"]_vars

\* It is the verification that is missing: a run that merges and accepts has made
\* one, so its continuation decision validates, whatever was reviewed, repaired,
\* adjudicated or deferred before (models.py:950-957, release.py:1353-1401).
MergedReviewContinues ==
  [][merging /\ pc = "gate" /\ decision = "accepted" => pc' = "governor"]_vars

\* The findings that still block.
Open == { i \in Ids : fate[i] \in {"open", "repaired"} }

Convergence == INSTANCE ReviewConvergence WITH
  MaxRounds <- MaxLoops,
  open      <- Open,
  checks    <- { i \in Open : review.kind[i] = "check" },
  rounds    <- loop,
  outcome   <- IF verdict = "pending" THEN "open"
               ELSE IF verdict = "accepted" THEN "accepted" ELSE "blocked"

\* The loop implements the convergence it promises (docs/design/ARCHITECTURE.md:233).
ImplementsConvergence == Convergence!Spec

=============================================================================
