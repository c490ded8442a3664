---------------------- MODULE FeatureReviewLoopProofs ----------------------
(***************************************************************************)
(* Proofs about FeatureReviewLoop, for any finding ids and any limit: that *)
(* blocking findings are answered or named, that the branch handed over    *)
(* passed its verification, that the recheck record accounts for every     *)
(* finding, and that the loop implements ReviewConvergence.                *)
(***************************************************************************)
EXTENDS FeatureReviewLoop, TLAPS

(***************************************************************************)
(* Where the loop is and what it has decided.                              *)
(***************************************************************************)
Looping == pc \in {"review", "judge", "repair"}

PhaseInv ==
  /\ Looping => verdict = "pending" /\ final = "none"
  /\ Looping \/ pc = "evaluate" => decision = "pending" /\ ~gate.allowed
  /\ pc \in {"evaluate", "gate", "governor", "done"} => verdict # "pending"
  /\ pc = "repair" => loop < MaxLoops /\ Blocking # {} /\ queue \subseteq Blocking
  /\ decision = "accepted" => verdict = "accepted"
  /\ gate.allowed => decision = "accepted"

\* What is known of a finding in each phase.
FateInv ==
  \A i \in Ids :
    /\ verdict = "pending" => fate[i] # "adjudicated"
    /\ pc = "review" => fate[i] \notin {"open", "repaired"}
    /\ pc = "judge"  => (fate[i] = "open" <=> i \in Blocking) /\ fate[i] # "repaired"
    /\ pc = "repair" => (fate[i] = "open" <=> i \in queue)
    /\ pc = "repair" => (fate[i] = "repaired" <=> i \in Blocking \ queue)

\* What an accepting verdict means for the findings.
AcceptInv ==
  verdict = "accepted" =>
    \A i \in Ids :
      \/ fate[i] \in {"none", "verified"}
      \/ fate[i] = "adjudicated" /\ review.kind[i] = "check" /\ final = "passed"

\* A verification that was made is one of the branch as it stands.
TestedInv ==
  /\ pc = "evaluate" /\ verdict = "accepted" /\ final # "none" => tested
  /\ decision = "accepted" /\ merging => tested

\* A verdict comes with a record of every blocking finding.
NamesInv ==
  verdict # "pending" =>
    \A i \in Blocking :
      \/ fate[i] \in {"verified", "adjudicated"}
      \/ i \in recheck.unresolved
      \/ review.kind[i] = "check" /\ i \in recheck.accepted /\ final = "passed"

LoopInv ==
  /\ TypeOK
  /\ PhaseInv
  /\ FateInv
  /\ AcceptInv
  /\ TestedInv
  /\ NamesInv
  /\ GateNamesBlockers
  /\ RecheckAccounts
  /\ DeferredIsOnRecord

-----------------------------------------------------------------------------

USE IdsAssumption, LoopsAssumption

LEMMA InitTypeOK == Init => TypeOK
<1> SUFFICES ASSUME Init PROVE TypeOK
  OBVIOUS
<1>1. review \in Reviews
  BY DEF Init, NoReview, Reviews
<1>2. recheck \in [unresolved : SUBSET (Ids \union Sentinels), accepted : SUBSET Ids,
                   deferred : SUBSET Ids, stop : Stops \union {"none"}]
  BY DEF Init, NoRecheck
<1>3. gate \in [allowed : BOOLEAN, unresolved : SUBSET (Ids \union Sentinels)]
  BY DEF Init, NoGate
<1>4. fate \in [Ids -> {"none", "open", "repaired", "verified", "adjudicated"}]
  BY DEF Init
<1>5. loop \in 0 .. MaxLoops
  BY DEF Init
<1> QED
  BY <1>1, <1>2, <1>3, <1>4, <1>5 DEF Init, TypeOK

\* What the sets read off a review contain.
LEMMA Sets ==
  /\ Present \subseteq Ids /\ Required \subseteq Ids /\ Optional \subseteq Ids
  /\ Blocking \subseteq Required /\ Blocking \subseteq Present
  /\ Soft \subseteq Ids /\ FollowUps \subseteq Ids /\ Deferred \subseteq Ids
  /\ AcceptedOptional \subseteq Ids /\ DeferredOptional \subseteq Ids
  /\ \A ok : SettledByCheck(ok) \subseteq Ids
  BY DEF Present, Required, Optional, Blocking, Soft, FollowUps, Deferred, Kinds,
         AcceptedOptional, DeferredOptional, SettledByCheck, Of

\* The typing of the variables most steps leave alone, or set by Returns.
LEMMA ReturnsTypeOK ==
  ASSUME NEW v \in {"accepted", "needs_revision", "escalated"}, NEW unresolved, NEW accepted,
         NEW deferred, NEW stop \in Stops, Returns(v, unresolved, accepted, deferred, stop),
         unresolved \subseteq Ids \union Sentinels, accepted \subseteq Ids, deferred \subseteq Ids
  PROVE  /\ pc' = "evaluate"
         /\ verdict' \in {"accepted", "needs_revision", "escalated"}
         /\ recheck' \in [unresolved : SUBSET (Ids \union Sentinels), accepted : SUBSET Ids,
                          deferred : SUBSET Ids, stop : Stops \union {"none"}]
  BY DEF Returns, Stops

LEMMA TypePreserved == TypeOK /\ PhaseInv /\ [Next]_vars => TypeOK'
<1> SUFFICES ASSUME TypeOK, PhaseInv, [Next]_vars PROVE TypeOK'
  OBVIOUS
<1> USE Sets DEF TypeOK, Ended, branch, record, judged
<1>1. CASE Review
  <2>1. PICK r \in Reviews :
          /\ review' = r
          /\ outstanding' =
               outstanding \union { i \in Ids : r.kind[i] \in {"implement", "check", "idle"} }
          /\ fate' = [i \in Ids |-> IF r.kind[i] \in {"implement", "check"}
                                    THEN "open" ELSE fate[i]]
    BY <1>1 DEF Review
  <2>2. review' \in Reviews /\ outstanding' \subseteq Ids /\ seen' \subseteq Ids
    BY <1>1, <2>1 DEF Review
  <2>3. fate' \in [Ids -> {"none", "open", "repaired", "verified", "adjudicated"}]
    BY <2>1
  <2> QED
    BY <1>1, <2>2, <2>3 DEF Review
<1>2. CASE ClassificationFails
  <2>1. review' \in Reviews
    BY <1>2 DEF ClassificationFails, Reviews
  <2>2. Present \union {SchemaInvalid} \subseteq Ids \union Sentinels
    BY DEF Sentinels
  <2> QED
    BY <1>2, <2>1, <2>2, ReturnsTypeOK DEF ClassificationFails, Stops
<1>3. CASE Adjudicate
  <2>1. PICK ok \in BOOLEAN :
          LET unresolved == IF ok THEN Blocking \ SettledByCheck(ok) ELSE Present
              accepted   == IF ok THEN SettledByCheck(ok) \union Soft ELSE {}
              deferred   == IF ok THEN Deferred ELSE {}
              settled    == ok /\ unresolved = {}
          IN  /\ Returns(IF settled THEN "accepted" ELSE "needs_revision",
                         unresolved, accepted, deferred \ accepted,
                         IF settled THEN "accepted_with_rationale" ELSE "blocked_by_retry_budget")
              /\ review' = [review EXCEPT !.risks = @ \/ settled]
              /\ fate' = [i \in Ids |->
                            IF settled /\ i \in SettledByCheck(ok) THEN "adjudicated" ELSE fate[i]]
              /\ adjudicated' = deferred \ accepted
              /\ final' = IF ok THEN "passed" ELSE "failed"
              /\ tested' = ok
    BY <1>3 DEF Adjudicate
  <2> DEFINE unresolved == IF ok THEN Blocking \ SettledByCheck(ok) ELSE Present
             accepted   == IF ok THEN SettledByCheck(ok) \union Soft ELSE {}
             deferred   == IF ok THEN Deferred ELSE {}
             settled    == ok /\ unresolved = {}
  <2>2. unresolved \subseteq Ids /\ accepted \subseteq Ids /\ deferred \subseteq Ids
    BY DEF Blocking, Of
  <2>3. settled \in BOOLEAN
    OBVIOUS
  <2>4. fate' \in [Ids -> {"none", "open", "repaired", "verified", "adjudicated"}]
    <3> HIDE DEF settled
    <3> QED BY <2>1 DEF settled
  <2>5. review' \in Reviews
    <3>1. review' = [review EXCEPT !.risks = @ \/ settled]
      BY <2>1
    <3> HIDE DEF settled
    <3> QED BY <3>1, <2>3 DEF Reviews
  <2>6. /\ pc' = "evaluate"
        /\ verdict' \in {"accepted", "needs_revision", "escalated"}
        /\ recheck' \in [unresolved : SUBSET (Ids \union Sentinels), accepted : SUBSET Ids,
                         deferred : SUBSET Ids, stop : Stops \union {"none"}]
    BY <2>1, <2>2, ReturnsTypeOK DEF Stops
  <2>7. adjudicated' \subseteq Ids
    BY <2>1, <2>2
  <2> QED
    BY <1>3, <2>1, <2>4, <2>5, <2>6, <2>7 DEF Adjudicate
<1>4. CASE Escalate
  <2>1. Present \subseteq Ids \union Sentinels /\ outstanding \subseteq Ids \union Sentinels
        /\ {Blocked} \subseteq Ids \union Sentinels
    BY DEF Sentinels
  <2> QED
    BY <1>4, <2>1, ReturnsTypeOK DEF Escalate, Proposed, Stops
<1>5. CASE NothingRequired
  <2>1. review' \in Reviews
    BY <1>5 DEF NothingRequired, Reviews
  <2> QED
    BY <1>5, <2>1, ReturnsTypeOK DEF NothingRequired, Proposed, Stops
<1>6. CASE NothingToRepair
  BY <1>6, ReturnsTypeOK DEF NothingToRepair, Proposed, Stops
<1>7. CASE GenerateRepairs
  BY <1>7 DEF GenerateRepairs, Proposed
<1>8. CASE ContractRefused
  BY <1>8 DEF ContractRefused, Proposed
<1>9. ASSUME NEW i \in Ids, RepairAccepted(i) PROVE TypeOK'
  <2>1. kept' \in BOOLEAN /\ tested' \in BOOLEAN
    BY <1>9, Zenon DEF RepairAccepted
  <2>2. fate' \in [Ids -> {"none", "open", "repaired", "verified", "adjudicated"}]
    BY <1>9 DEF RepairAccepted
  <2> QED
    BY <1>9, <2>1, <2>2 DEF RepairAccepted
<1>10. CASE RepairFails
  <2>1. tested' \in BOOLEAN
    BY <1>10, Zenon DEF RepairFails
  <2>2. Unanswered \subseteq Ids \union Sentinels
    BY DEF Unanswered
  <2> QED
    BY <1>10, <2>1, <2>2, ReturnsTypeOK DEF RepairFails, Stops
<1>11. CASE RepairRaises
  BY <1>11 DEF RepairRaises
<1>12. CASE VerificationPasses
  <2>1. fate' \in [Ids -> {"none", "open", "repaired", "verified", "adjudicated"}]
    BY <1>12 DEF VerificationPasses
  <2>2. loop' \in 0 .. MaxLoops
    BY <1>12 DEF VerificationPasses, NextLoop, PhaseInv
  <2> QED
    BY <1>12, <2>1, <2>2 DEF VerificationPasses
<1>13. CASE VerificationFails
  <2>1. Unanswered \subseteq Ids \union Sentinels
    BY DEF Unanswered
  <2> QED
    <3>1. Returns("needs_revision", Unanswered, AcceptedOptional, DeferredOptional,
                  "blocked_by_hard_gate")
      BY <1>13 DEF VerificationFails
    <3>2. /\ pc' = "evaluate" /\ verdict' \in {"accepted", "needs_revision", "escalated"}
          /\ recheck' \in [unresolved : SUBSET (Ids \union Sentinels), accepted : SUBSET Ids,
                           deferred : SUBSET Ids, stop : Stops \union {"none"}]
      BY <3>1, <2>1, ReturnsTypeOK DEF Stops
    <3>3. reruns' \in BOOLEAN /\ tested' \in BOOLEAN
      BY <1>13 DEF VerificationFails
    <3>4. UNCHANGED <<merging, loop, review, seen, outstanding, queue, kept, contracts, final,
                      proposals, adjudicated, decision, gate, outcome, fate>>
      BY <1>13 DEF VerificationFails
    <3> QED
      BY <3>2, <3>3, <3>4
<1>14. CASE Evaluate
  BY <1>14 DEF Evaluate
<1>15. CASE BuildGate
  BY <1>15 DEF BuildGate, GateAllows, GateUnresolved, Outcome
<1>16. CASE CarryOver
  BY <1>16 DEF CarryOver
<1>17. CASE UNCHANGED vars
  BY <1>17 DEF vars
<1> QED
  BY <1>1, <1>2, <1>3, <1>4, <1>5, <1>6, <1>7, <1>8, <1>9, <1>10, <1>11, <1>12, <1>13,
     <1>14, <1>15, <1>16, <1>17 DEF Next


\* What a review says does not change with the risks and the recommendation.
LEMMA SameReview ==
  ASSUME review'.kind = review.kind
  PROVE  /\ Present' = Present /\ Required' = Required /\ Blocking' = Blocking
         /\ Optional' = Optional
         /\ \A kinds : Of(kinds)' = Of(kinds)
  BY DEF Present, Required, Blocking, Optional, Of

LEMMA KindsStay ==
  ASSUME TypeOK, [Next]_vars, pc # "review" PROVE review'.kind = review.kind
  BY DEF TypeOK, Reviews, Next, Review, ClassificationFails, Adjudicate, Escalate,
         NothingRequired, NothingToRepair, GenerateRepairs, ContractRefused, RepairAccepted,
         RepairFails, RepairRaises, VerificationPasses, VerificationFails, Evaluate, BuildGate,
         CarryOver, vars

\* The three ways an adjudication can end.
Unverified ==
  /\ verdict' = "needs_revision"
  /\ final' = "failed" /\ tested' = FALSE
  /\ fate' = fate
  /\ recheck'.unresolved = Present /\ recheck'.accepted = {} /\ recheck'.deferred = {}

Settled ==
  /\ Blocking \subseteq Of({"check"})
  /\ verdict' = "accepted"
  /\ fate' = [i \in Ids |-> IF i \in Of({"check"}) THEN "adjudicated" ELSE fate[i]]
  /\ recheck'.unresolved = {}

NotSettled ==
  /\ verdict' = "needs_revision"
  /\ fate' = fate
  /\ recheck'.unresolved = Blocking \ Of({"check"})

Verified ==
  /\ final' = "passed" /\ tested' = TRUE
  /\ recheck'.accepted = Of({"check"}) \union Soft
  /\ recheck'.deferred = Deferred \ (Of({"check"}) \union Soft)
  /\ adjudicated' = recheck'.deferred

LEMMA AdjudicateEnds ==
  ASSUME TypeOK, Adjudicate
  PROVE  Unverified \/ (Verified /\ (Settled \/ NotSettled))
<1>1. PICK ok \in BOOLEAN :
        LET unresolved == IF ok THEN Blocking \ SettledByCheck(ok) ELSE Present
            accepted   == IF ok THEN SettledByCheck(ok) \union Soft ELSE {}
            deferred   == IF ok THEN Deferred ELSE {}
            settled    == ok /\ unresolved = {}
        IN  /\ Returns(IF settled THEN "accepted" ELSE "needs_revision",
                       unresolved, accepted, deferred \ accepted,
                       IF settled THEN "accepted_with_rationale" ELSE "blocked_by_retry_budget")
            /\ review' = [review EXCEPT !.risks = @ \/ settled]
            /\ fate' = [i \in Ids |->
                          IF settled /\ i \in SettledByCheck(ok) THEN "adjudicated" ELSE fate[i]]
            /\ adjudicated' = deferred \ accepted
            /\ final' = IF ok THEN "passed" ELSE "failed"
            /\ tested' = ok
  BY DEF Adjudicate
<1>2. fate = [i \in Ids |-> fate[i]]
  BY DEF TypeOK
<1>3. CASE ok = FALSE
  BY <1>1, <1>2, <1>3 DEF Unverified, Returns
<1>4. CASE ok = TRUE /\ Blocking \ Of({"check"}) = {}
  BY <1>1, <1>4 DEF Verified, Settled, Returns, SettledByCheck
<1>5. CASE ok = TRUE /\ Blocking \ Of({"check"}) # {}
  BY <1>1, <1>2, <1>5 DEF Verified, NotSettled, Returns, SettledByCheck
<1> QED
  BY <1>3, <1>4, <1>5

\* What evaluating the budget and verifying the branch can change.
LEMMA EvaluateEnds ==
  ASSUME TypeOK, Evaluate
  PROVE  /\ final # "none" => final' = final /\ tested' = tested
         /\ decision' = "accepted" =>
              /\ verdict = "accepted"
              /\ tested' = TRUE \/ (tested' = tested /\ (merging => final # "none"))
<1>1. PICK overBudget \in BOOLEAN, ok \in BOOLEAN :
       IF verdict = "accepted" /\ ~overBudget /\ VerificationDue
       THEN /\ final' = IF ok THEN "passed" ELSE "failed"
            /\ tested' = ok
            /\ decision' = IF ok THEN "accepted" ELSE "failed"
       ELSE /\ decision' = IF verdict = "accepted" /\ overBudget THEN "failed" ELSE verdict
            /\ UNCHANGED <<final, tested>>
  BY DEF Evaluate
<1>2. CASE verdict = "accepted" /\ ~overBudget /\ VerificationDue
  <2>1. CASE ok = TRUE
    BY <1>1, <1>2, <2>1 DEF VerificationDue
  <2>2. CASE ok = FALSE
    BY <1>1, <1>2, <2>2 DEF VerificationDue
  <2> QED
    BY <2>1, <2>2
<1>3. CASE ~(verdict = "accepted" /\ ~overBudget /\ VerificationDue)
  BY <1>1, <1>3 DEF VerificationDue
<1> QED
  BY <1>2, <1>3

\* Where the loop stands after each step.
LEMMA PhaseStep == LoopInv /\ [Next]_vars => PhaseInv'
<1> SUFFICES ASSUME LoopInv, [Next]_vars PROVE PhaseInv'
  OBVIOUS
<1> USE DEF LoopInv, PhaseInv, Looping, branch, record, judged
<1>1. CASE Review
  BY <1>1, SameReview DEF Review
<1>2. CASE ClassificationFails
  BY <1>2, SameReview DEF ClassificationFails, Returns
<1>3. CASE Adjudicate
  BY <1>3, SameReview DEF Adjudicate, Judging, AtLimit, Returns
<1>4. CASE Escalate
  BY <1>4, SameReview DEF Escalate, Judging, Returns
<1>5. CASE NothingRequired
  BY <1>5, SameReview DEF NothingRequired, Judging, Returns
<1>6. CASE NothingToRepair
  BY <1>6, SameReview DEF NothingToRepair, Judging, Returns
<1>7. CASE GenerateRepairs
  BY <1>7, Sets, SameReview DEF GenerateRepairs, Judging, AtLimit, TypeOK
<1>8. CASE ContractRefused
  BY <1>8, SameReview DEF ContractRefused, Judging
<1>9. ASSUME NEW i \in Ids, RepairAccepted(i) PROVE PhaseInv'
  BY <1>9, SameReview DEF RepairAccepted
<1>10. CASE RepairFails
  BY <1>10, SameReview DEF RepairFails, Returns
<1>11. CASE RepairRaises
  BY <1>11, SameReview DEF RepairRaises
<1>12. CASE VerificationPasses
  BY <1>12, SameReview DEF VerificationPasses, NextLoop
<1>13. CASE VerificationFails
  BY <1>13, SameReview DEF VerificationFails, Returns
<1>14. CASE Evaluate
  BY <1>14, SameReview DEF Evaluate
<1>15. CASE BuildGate
  BY <1>15, SameReview DEF BuildGate, GateAllows
<1>16. CASE CarryOver
  BY <1>16, SameReview DEF CarryOver
<1>17. CASE UNCHANGED vars
  BY <1>17, SameReview DEF vars
<1> QED
  BY <1>1, <1>2, <1>3, <1>4, <1>5, <1>6, <1>7, <1>8, <1>9, <1>10, <1>11, <1>12, <1>13,
     <1>14, <1>15, <1>16, <1>17 DEF Next

\* What is known of each finding after each step.
LEMMA FateStep == LoopInv /\ [Next]_vars => FateInv'
<1> SUFFICES ASSUME LoopInv, [Next]_vars PROVE FateInv'
  OBVIOUS
<1> USE DEF LoopInv, FateInv, PhaseInv, Looping, TypeOK, branch, record, judged
<1>1. CASE Review
  <2>1. PICK r \in Reviews :
          /\ review' = r
          /\ fate' = [i \in Ids |-> IF r.kind[i] \in {"implement", "check"}
                                    THEN "open" ELSE fate[i]]
    BY <1>1 DEF Review
  <2>2. \A i \in Ids : i \in Blocking' <=> r.kind[i] \in {"implement", "check"}
    BY <2>1 DEF Blocking, Of
  <2> QED
    BY <1>1, <2>1, <2>2 DEF Review
<1>2. CASE ClassificationFails
  BY <1>2, Sets, SameReview DEF ClassificationFails, Returns
<1>3. CASE Adjudicate
  BY <1>3, Sets, SameReview DEF Adjudicate, Judging, AtLimit, Returns
<1>4. CASE Escalate
  BY <1>4, Sets, SameReview DEF Escalate, Judging, Returns
<1>5. CASE NothingRequired
  BY <1>5, Sets, SameReview DEF NothingRequired, Judging, Returns
<1>6. CASE NothingToRepair
  BY <1>6, Sets, SameReview DEF NothingToRepair, Judging, Returns
<1>7. CASE GenerateRepairs
  BY <1>7, Sets, SameReview DEF GenerateRepairs, Judging, AtLimit
<1>8. CASE ContractRefused
  BY <1>8, Sets, SameReview DEF ContractRefused, Judging
<1>9. ASSUME NEW i \in Ids, RepairAccepted(i) PROVE FateInv'
  BY <1>9, Sets, SameReview DEF RepairAccepted
<1>10. CASE RepairFails
  BY <1>10, Sets, SameReview DEF RepairFails, Returns
<1>11. CASE RepairRaises
  BY <1>11, Sets, SameReview DEF RepairRaises
<1>12. CASE VerificationPasses
  BY <1>12, Sets, SameReview DEF VerificationPasses, NextLoop
<1>13. CASE VerificationFails
  BY <1>13, Sets, SameReview DEF VerificationFails, Returns
<1>14. CASE Evaluate
  BY <1>14, Sets, SameReview DEF Evaluate
<1>15. CASE BuildGate
  BY <1>15, Sets, SameReview DEF BuildGate, GateAllows
<1>16. CASE CarryOver
  BY <1>16, Sets, SameReview DEF CarryOver
<1>17. CASE UNCHANGED vars
  BY <1>17, Sets, SameReview DEF vars
<1> QED
  BY <1>1, <1>2, <1>3, <1>4, <1>5, <1>6, <1>7, <1>8, <1>9, <1>10, <1>11, <1>12, <1>13,
     <1>14, <1>15, <1>16, <1>17 DEF Next

\* What an acceptance means for the findings, after each step.
LEMMA AcceptStep == LoopInv /\ [Next]_vars => AcceptInv'
<1> SUFFICES ASSUME LoopInv, [Next]_vars PROVE AcceptInv'
  OBVIOUS
<1> USE DEF LoopInv, AcceptInv, PhaseInv, FateInv, Looping, TypeOK, branch, record, judged
<1>1. CASE Review
  BY <1>1, Sets, KindsStay DEF Review
<1>2. CASE ClassificationFails
  BY <1>2, Sets, KindsStay DEF ClassificationFails, Returns
<1>3. CASE Adjudicate
  <2>1. pc = "judge" /\ review'.kind = review.kind
    BY <1>3, KindsStay DEF Adjudicate, Judging
  <2>2. \A i \in Ids : i \in Of({"check"}) <=> review.kind[i] = "check"
    BY DEF Of
  <2>3. CASE Verified /\ Settled
    <3> SUFFICES ASSUME NEW i \in Ids
                 PROVE  \/ fate'[i] \in {"none", "verified"}
                        \/ /\ fate'[i] = "adjudicated"
                           /\ review'.kind[i] = "check" /\ final' = "passed"
      OBVIOUS
    <3>1. CASE i \in Of({"check"})
      BY <2>1, <2>2, <2>3, <3>1 DEF Verified, Settled
    <3>2. CASE i \notin Of({"check"})
      BY <2>1, <2>3, <3>2 DEF Verified, Settled
    <3> QED
      BY <3>1, <3>2
  <2>4. CASE verdict' # "accepted"
    BY <2>4
  <2> QED
    BY <1>3, <2>3, <2>4, AdjudicateEnds DEF Unverified, NotSettled
<1>4. CASE Escalate
  BY <1>4, Sets, KindsStay DEF Escalate, Judging, Returns
<1>5. CASE NothingRequired
  BY <1>5, Sets, KindsStay DEF NothingRequired, Judging, Returns
<1>6. CASE NothingToRepair
  BY <1>6, Sets, KindsStay DEF NothingToRepair, Judging, Returns
<1>7. CASE GenerateRepairs
  BY <1>7, Sets, KindsStay DEF GenerateRepairs, Judging, AtLimit
<1>8. CASE ContractRefused
  BY <1>8, Sets, KindsStay DEF ContractRefused, Judging
<1>9. ASSUME NEW i \in Ids, RepairAccepted(i) PROVE AcceptInv'
  BY <1>9, Sets, KindsStay DEF RepairAccepted
<1>10. CASE RepairFails
  BY <1>10, Sets, KindsStay DEF RepairFails, Returns
<1>11. CASE RepairRaises
  BY <1>11, Sets, KindsStay DEF RepairRaises
<1>12. CASE VerificationPasses
  BY <1>12, Sets, KindsStay DEF VerificationPasses, NextLoop
<1>13. CASE VerificationFails
  BY <1>13, Sets, KindsStay DEF VerificationFails, Returns
<1>14. CASE Evaluate
  BY <1>14, SameReview, EvaluateEnds DEF Evaluate
<1>15. CASE BuildGate
  BY <1>15, Sets, KindsStay DEF BuildGate, GateAllows
<1>16. CASE CarryOver
  BY <1>16, Sets, KindsStay DEF CarryOver
<1>17. CASE UNCHANGED vars
  BY <1>17, Sets, KindsStay DEF vars
<1> QED
  BY <1>1, <1>2, <1>3, <1>4, <1>5, <1>6, <1>7, <1>8, <1>9, <1>10, <1>11, <1>12, <1>13,
     <1>14, <1>15, <1>16, <1>17 DEF Next

\* What was verified, after each step.
LEMMA TestedStep == LoopInv /\ [Next]_vars => TestedInv'
<1> SUFFICES ASSUME LoopInv, [Next]_vars PROVE TestedInv'
  OBVIOUS
<1> USE DEF LoopInv, TestedInv, PhaseInv, Looping, TypeOK, branch, record, judged
<1>1. CASE Review
  BY <1>1 DEF Review
<1>2. CASE ClassificationFails
  BY <1>2 DEF ClassificationFails, Returns
<1>3. CASE Adjudicate
  BY <1>3, Sets, SameReview, KindsStay, AdjudicateEnds
     DEF Adjudicate, Judging, AtLimit, Returns, Unverified, Verified, Settled, NotSettled, Of,
         Blocking
<1>4. CASE Escalate
  BY <1>4 DEF Escalate, Judging, Returns
<1>5. CASE NothingRequired
  BY <1>5 DEF NothingRequired, Judging, Returns
<1>6. CASE NothingToRepair
  BY <1>6 DEF NothingToRepair, Judging, Returns
<1>7. CASE GenerateRepairs
  BY <1>7 DEF GenerateRepairs, Judging, AtLimit
<1>8. CASE ContractRefused
  BY <1>8 DEF ContractRefused, Judging
<1>9. ASSUME NEW i \in Ids, RepairAccepted(i) PROVE TestedInv'
  BY <1>9 DEF RepairAccepted
<1>10. CASE RepairFails
  BY <1>10 DEF RepairFails, Returns
<1>11. CASE RepairRaises
  BY <1>11 DEF RepairRaises
<1>12. CASE VerificationPasses
  BY <1>12 DEF VerificationPasses, NextLoop
<1>13. CASE VerificationFails
  BY <1>13 DEF VerificationFails, Returns
<1>14. CASE Evaluate
  BY <1>14, SameReview, EvaluateEnds DEF Evaluate
<1>15. CASE BuildGate
  BY <1>15 DEF BuildGate, GateAllows
<1>16. CASE CarryOver
  BY <1>16 DEF CarryOver
<1>17. CASE UNCHANGED vars
  BY <1>17 DEF vars
<1> QED
  BY <1>1, <1>2, <1>3, <1>4, <1>5, <1>6, <1>7, <1>8, <1>9, <1>10, <1>11, <1>12, <1>13,
     <1>14, <1>15, <1>16, <1>17 DEF Next

\* What the recheck record names, after each step.
LEMMA NamesStep == LoopInv /\ [Next]_vars => NamesInv'
<1> SUFFICES ASSUME LoopInv, [Next]_vars PROVE NamesInv'
  OBVIOUS
<1> USE DEF LoopInv, NamesInv, PhaseInv, FateInv, Looping, TypeOK, branch, record, judged
<1>1. CASE Review
  BY <1>1, Sets, SameReview, KindsStay DEF Review
<1>2. CASE ClassificationFails
  BY <1>2, Sets, SameReview, KindsStay DEF ClassificationFails, Returns
<1>3. CASE Adjudicate
  <2>1. review'.kind = review.kind /\ Blocking' = Blocking
    BY <1>3, KindsStay, SameReview DEF Adjudicate, Judging
  <2>2. \A i \in Ids : i \in Of({"check"}) <=> review.kind[i] = "check"
    BY DEF Of
  <2>3. CASE Unverified
    BY <2>1, <2>3, Sets DEF Unverified
  <2>4. CASE Verified /\ Settled
    BY <2>1, <2>2, <2>4, Sets DEF Verified, Settled
  <2>5. CASE Verified /\ NotSettled
    BY <2>1, <2>2, <2>5, Sets DEF Verified, NotSettled
  <2> QED
    BY <1>3, <2>3, <2>4, <2>5, AdjudicateEnds
<1>4. CASE Escalate
  BY <1>4, Sets, SameReview, KindsStay DEF Escalate, Judging, Returns
<1>5. CASE NothingRequired
  BY <1>5, Sets, SameReview, KindsStay DEF NothingRequired, Judging, Returns
<1>6. CASE NothingToRepair
  BY <1>6, Sets, SameReview, KindsStay DEF NothingToRepair, Judging, Returns
<1>7. CASE GenerateRepairs
  BY <1>7, Sets, SameReview, KindsStay DEF GenerateRepairs, Judging, AtLimit
<1>8. CASE ContractRefused
  BY <1>8, Sets, SameReview, KindsStay DEF ContractRefused, Judging
<1>9. ASSUME NEW i \in Ids, RepairAccepted(i) PROVE NamesInv'
  BY <1>9, Sets, SameReview, KindsStay DEF RepairAccepted
<1>10. CASE RepairFails
  BY <1>10, Sets, SameReview DEF RepairFails, Returns, Unanswered
<1>11. CASE RepairRaises
  BY <1>11, Sets, SameReview, KindsStay DEF RepairRaises
<1>12. CASE VerificationPasses
  BY <1>12, Sets, SameReview, KindsStay DEF VerificationPasses, NextLoop
<1>13. CASE VerificationFails
  BY <1>13, Sets, SameReview DEF VerificationFails, Returns, Unanswered
<1>14. CASE Evaluate
  BY <1>14, SameReview, EvaluateEnds DEF Evaluate
<1>15. CASE BuildGate
  BY <1>15, Sets, SameReview, KindsStay DEF BuildGate, GateAllows
<1>16. CASE CarryOver
  BY <1>16, Sets, SameReview, KindsStay DEF CarryOver
<1>17. CASE UNCHANGED vars
  BY <1>17, Sets, SameReview, KindsStay DEF vars
<1> QED
  BY <1>1, <1>2, <1>3, <1>4, <1>5, <1>6, <1>7, <1>8, <1>9, <1>10, <1>11, <1>12, <1>13,
     <1>14, <1>15, <1>16, <1>17 DEF Next

\* What the gate names, after each step.
LEMMA GateStep == LoopInv /\ [Next]_vars => GateNamesBlockers'
<1> SUFFICES ASSUME LoopInv, [Next]_vars PROVE GateNamesBlockers'
  OBVIOUS
<1> USE DEF LoopInv, GateNamesBlockers, PhaseInv, NamesInv, Looping, TypeOK, branch, record, judged
<1>1. CASE Review
  BY <1>1, Sets, SameReview, KindsStay DEF Review
<1>2. CASE ClassificationFails
  BY <1>2, Sets, SameReview, KindsStay DEF ClassificationFails, Returns
<1>3. CASE Adjudicate
  BY <1>3, Sets, SameReview, KindsStay DEF Adjudicate, Judging, AtLimit, Returns
<1>4. CASE Escalate
  BY <1>4, Sets, SameReview, KindsStay DEF Escalate, Judging, Returns
<1>5. CASE NothingRequired
  BY <1>5, Sets, SameReview, KindsStay DEF NothingRequired, Judging, Returns
<1>6. CASE NothingToRepair
  BY <1>6, Sets, SameReview, KindsStay DEF NothingToRepair, Judging, Returns
<1>7. CASE GenerateRepairs
  BY <1>7, Sets, SameReview, KindsStay DEF GenerateRepairs, Judging, AtLimit
<1>8. CASE ContractRefused
  BY <1>8, Sets, SameReview, KindsStay DEF ContractRefused, Judging
<1>9. ASSUME NEW i \in Ids, RepairAccepted(i) PROVE GateNamesBlockers'
  BY <1>9, Sets, SameReview, KindsStay DEF RepairAccepted
<1>10. CASE RepairFails
  BY <1>10, Sets, SameReview, KindsStay DEF RepairFails, Returns
<1>11. CASE RepairRaises
  BY <1>11, Sets, SameReview, KindsStay DEF RepairRaises
<1>12. CASE VerificationPasses
  BY <1>12, Sets, SameReview, KindsStay DEF VerificationPasses, NextLoop
<1>13. CASE VerificationFails
  BY <1>13, Sets, SameReview, KindsStay DEF VerificationFails, Returns
<1>14. CASE Evaluate
  BY <1>14, Sets, SameReview, KindsStay DEF Evaluate
<1>15. CASE BuildGate
  <2>1. \A i \in Blocking : i \in recheck.unresolved => i \in GateUnresolved
    BY Sets DEF GateUnresolved
  <2> QED
    BY <1>15, <2>1, SameReview DEF BuildGate
<1>16. CASE CarryOver
  BY <1>16, Sets, SameReview, KindsStay DEF CarryOver
<1>17. CASE UNCHANGED vars
  BY <1>17, Sets, SameReview, KindsStay DEF vars
<1> QED
  BY <1>1, <1>2, <1>3, <1>4, <1>5, <1>6, <1>7, <1>8, <1>9, <1>10, <1>11, <1>12, <1>13,
     <1>14, <1>15, <1>16, <1>17 DEF Next

\* What the recheck record accounts for, after each step.
LEMMA AccountsStep == LoopInv /\ [Next]_vars => RecheckAccounts'
<1> SUFFICES ASSUME LoopInv, [Next]_vars PROVE RecheckAccounts'
  OBVIOUS
<1> USE DEF LoopInv, RecheckAccounts, PhaseInv, Looping, TypeOK, branch, record, judged
<1>1. CASE Review
  BY <1>1, Sets, SameReview, KindsStay DEF Review
<1>2. CASE ClassificationFails
  BY <1>2, Sets, SameReview, KindsStay DEF ClassificationFails, Returns
<1>3. CASE Adjudicate
  <2>1. Present' = Present /\ Of({"idle"})' = Of({"idle"})
    BY <1>3, KindsStay, SameReview DEF Adjudicate, Judging
  <2>2. Present = Blocking \union Soft \union Deferred
    BY <1>3 DEF Adjudicate, Judging, Present, Blocking, Soft, Deferred, Of, Kinds
  <2>3. CASE Unverified
    BY <2>1, <2>3 DEF Unverified
  <2>4. CASE Verified /\ (Settled \/ NotSettled)
    <3>1. /\ recheck'.unresolved = Blocking \ Of({"check"})
          /\ recheck'.accepted = Of({"check"}) \union Soft
          /\ recheck'.deferred = Deferred \ (Of({"check"}) \union Soft)
      BY <2>4 DEF Verified, Settled, NotSettled
    <3>2. Blocking \intersect (Soft \union Deferred) = {}
      BY DEF Blocking, Soft, Deferred, Of
    <3> QED
      BY <2>1, <2>2, <3>1, <3>2
  <2> QED
    BY <1>3, <2>3, <2>4, AdjudicateEnds
<1>4. CASE Escalate
  BY <1>4, Sets, SameReview, KindsStay DEF Escalate, Judging, Returns
<1>5. CASE NothingRequired
  BY <1>5, SameReview, KindsStay
     DEF NothingRequired, Judging, Returns, Optional, Present, Required, AcceptedOptional,
         DeferredOptional, Soft, Deferred, Of, Kinds, Reviews
<1>6. CASE NothingToRepair
  BY <1>6, SameReview
     DEF NothingToRepair, Judging, Returns, Optional, Present, Blocking, AcceptedOptional,
         DeferredOptional, Soft, Deferred, Of, Kinds, Reviews
<1>7. CASE GenerateRepairs
  BY <1>7, Sets, SameReview, KindsStay DEF GenerateRepairs, Judging, AtLimit
<1>8. CASE ContractRefused
  BY <1>8, Sets, SameReview, KindsStay DEF ContractRefused, Judging
<1>9. ASSUME NEW i \in Ids, RepairAccepted(i) PROVE RecheckAccounts'
  BY <1>9, Sets, SameReview, KindsStay DEF RepairAccepted
<1>10. CASE RepairFails
  BY <1>10, Sets, SameReview, KindsStay DEF RepairFails, Returns
<1>11. CASE RepairRaises
  BY <1>11, Sets, SameReview, KindsStay DEF RepairRaises
<1>12. CASE VerificationPasses
  BY <1>12, Sets, SameReview, KindsStay DEF VerificationPasses, NextLoop
<1>13. CASE VerificationFails
  BY <1>13, Sets, SameReview, KindsStay DEF VerificationFails, Returns
<1>14. CASE Evaluate
  BY <1>14, Sets, SameReview, KindsStay DEF Evaluate
<1>15. CASE BuildGate
  BY <1>15, Sets, SameReview, KindsStay DEF BuildGate, GateAllows
<1>16. CASE CarryOver
  BY <1>16, Sets, SameReview, KindsStay DEF CarryOver
<1>17. CASE UNCHANGED vars
  BY <1>17, Sets, SameReview, KindsStay DEF vars
<1> QED
  BY <1>1, <1>2, <1>3, <1>4, <1>5, <1>6, <1>7, <1>8, <1>9, <1>10, <1>11, <1>12, <1>13,
     <1>14, <1>15, <1>16, <1>17 DEF Next

\* What becomes of deferred findings, after each step.
LEMMA DeferredStep == LoopInv /\ [Next]_vars => DeferredIsOnRecord'
<1> SUFFICES ASSUME LoopInv, [Next]_vars PROVE DeferredIsOnRecord'
  OBVIOUS
<1> USE DEF LoopInv, DeferredIsOnRecord, PhaseInv, Looping, TypeOK, branch, record, judged
<1>1. CASE Review
  BY <1>1, Sets, SameReview, KindsStay DEF Review
<1>2. CASE ClassificationFails
  BY <1>2, Sets, SameReview, KindsStay DEF ClassificationFails, Returns
<1>3. CASE Adjudicate
  BY <1>3, Sets, AdjudicateEnds DEF Adjudicate, Unverified, Verified, Settled, NotSettled
<1>4. CASE Escalate
  BY <1>4, Sets, SameReview, KindsStay DEF Escalate, Judging, Returns
<1>5. CASE NothingRequired
  BY <1>5, SameReview, KindsStay
     DEF NothingRequired, Judging, Returns, Proposed, FollowUps, DeferredOptional, Deferred, Soft,
         Duplicate, Of
<1>6. CASE NothingToRepair
  BY <1>6, SameReview
     DEF NothingToRepair, Judging, Returns, Proposed, FollowUps, DeferredOptional, Deferred, Soft,
         Duplicate, Of
<1>7. CASE GenerateRepairs
  BY <1>7, Sets, SameReview, KindsStay DEF GenerateRepairs, Judging, AtLimit
<1>8. CASE ContractRefused
  BY <1>8, Sets, SameReview, KindsStay DEF ContractRefused, Judging
<1>9. ASSUME NEW i \in Ids, RepairAccepted(i) PROVE DeferredIsOnRecord'
  BY <1>9, Sets, SameReview, KindsStay DEF RepairAccepted
<1>10. CASE RepairFails
  BY <1>10, Sets, SameReview, KindsStay DEF RepairFails, Returns
<1>11. CASE RepairRaises
  BY <1>11, Sets, SameReview, KindsStay DEF RepairRaises
<1>12. CASE VerificationPasses
  BY <1>12, Sets, SameReview, KindsStay DEF VerificationPasses, NextLoop
<1>13. CASE VerificationFails
  BY <1>13, Sets, SameReview, KindsStay DEF VerificationFails, Returns
<1>14. CASE Evaluate
  BY <1>14 DEF Evaluate, Duplicate
<1>15. CASE BuildGate
  BY <1>15 DEF BuildGate, Duplicate
<1>16. CASE CarryOver
  BY <1>16 DEF CarryOver, Duplicate
<1>17. CASE UNCHANGED vars
  BY <1>17, Sets, SameReview, KindsStay DEF vars, Duplicate
<1> QED
  BY <1>1, <1>2, <1>3, <1>4, <1>5, <1>6, <1>7, <1>8, <1>9, <1>10, <1>11, <1>12, <1>13,
     <1>14, <1>15, <1>16, <1>17 DEF Next

LEMMA InitLoopInv == Init => LoopInv
<1> SUFFICES ASSUME Init PROVE LoopInv
  OBVIOUS
<1>1. PhaseInv /\ FateInv /\ AcceptInv /\ TestedInv /\ NamesInv
  BY DEF Init, NoGate, PhaseInv, FateInv, AcceptInv, TestedInv, NamesInv, Looping
<1>2. GateNamesBlockers /\ RecheckAccounts /\ DeferredIsOnRecord
  BY DEF Init, GateNamesBlockers, RecheckAccounts, DeferredIsOnRecord
<1> QED
  BY <1>1, <1>2, InitTypeOK DEF LoopInv

\* The inductive invariant: it holds for any finding ids and any limit.
THEOREM LoopInvariant == Spec => []LoopInv
<1>1. LoopInv /\ [Next]_vars => LoopInv'
  <2> SUFFICES ASSUME LoopInv, [Next]_vars PROVE LoopInv'
    OBVIOUS
  <2>1. TypeOK'
    BY TypePreserved DEF LoopInv
  <2> QED
    BY <2>1, PhaseStep, FateStep, AcceptStep, TestedStep, NamesStep, GateStep, AccountsStep,
       DeferredStep DEF LoopInv
<1> QED
  BY InitLoopInv, <1>1, PTL DEF Spec

\* Every reachable state of the loop is well typed.
THEOREM TypeCorrect == Spec => []TypeOK
<1>1. LoopInv => TypeOK
  BY DEF LoopInv
<1> QED
  BY LoopInvariant, <1>1, PTL

\* A release is finalized only when every blocking finding was repaired with a
\* passing verification after it, or settled as a mere check by one.
THEOREM EveryBlockerIsAnswered == Spec => []BlockersAnswered
<1>1. LoopInv => BlockersAnswered
  BY DEF LoopInv, PhaseInv, AcceptInv, BlockersAnswered
<1> QED
  BY LoopInvariant, <1>1, PTL

\* What a merging run finalizes passed a verification after its last repair.
THEOREM HandOverIsVerified == Spec => []HandedOverAsVerified
<1>1. LoopInv => HandedOverAsVerified
  BY DEF LoopInv, PhaseInv, TestedInv, HandedOverAsVerified
<1> QED
  BY LoopInvariant, <1>1, PTL

\* A blocking finding that was not answered is named by the gate.
THEOREM GateIsHonest == Spec => []GateNamesBlockers
<1>1. LoopInv => GateNamesBlockers
  BY DEF LoopInv
<1> QED
  BY LoopInvariant, <1>1, PTL

\* The recheck record says one thing of every finding.
THEOREM RecordIsComplete == Spec => []RecheckAccounts
<1>1. LoopInv => RecheckAccounts
  BY DEF LoopInv
<1> QED
  BY LoopInvariant, <1>1, PTL

\* What an accepted review defers is a duplicate, or on record elsewhere.
THEOREM DeferredIsRecorded == Spec => []DeferredIsOnRecord
<1>1. LoopInv => DeferredIsOnRecord
  BY DEF LoopInv
<1> QED
  BY LoopInvariant, <1>1, PTL

-----------------------------------------------------------------------------
(***************************************************************************)
(* The loop implements ReviewConvergence.                                  *)
(***************************************************************************)
Checks == { i \in Open : review.kind[i] = "check" }

Reached == IF verdict = "pending" THEN "open"
           ELSE IF verdict = "accepted" THEN "accepted" ELSE "blocked"

\* The findings open in each phase.
LEMMA OpenIs ==
  ASSUME LoopInv
  PROVE  /\ pc = "review" => Open = {}
         /\ pc \in {"judge", "repair"} => Open = Blocking
         /\ verdict = "accepted" => Open = {}
<1>1. pc = "review" => Open = {}
  BY DEF LoopInv, FateInv, Open
<1>2. pc \in {"judge", "repair"} => Open = Blocking
  BY Sets DEF LoopInv, PhaseInv, FateInv, Open, Required, Of
<1>3. verdict = "accepted" => Open = {}
  BY DEF LoopInv, AcceptInv, Open
<1> QED
  BY <1>1, <1>2, <1>3

\* A step that leaves verdict, fates, kinds and round alone is a stutter.
LEMMA Stutters ==
  ASSUME UNCHANGED <<verdict, loop, fate>>, review'.kind = review.kind
  PROVE  UNCHANGED Convergence!vars
  BY DEF Convergence!vars, Open

\* A step that stops short of acceptance blocks.
LEMMA Blocks ==
  ASSUME LoopInv, verdict = "pending", verdict' \in {"needs_revision", "escalated"},
         UNCHANGED <<loop, fate>>, review'.kind = review.kind
  PROVE  Convergence!Next
  BY DEF Convergence!Next, Convergence!Block, Open

LEMMA ConvergenceStep ==
  ASSUME LoopInv, LoopInv', [Next]_vars PROVE [Convergence!Next]_(Convergence!vars)
<1> USE DEF branch, record, judged
<1>1. CASE Review
  <2>1. PICK r \in Reviews :
          /\ review' = r
          /\ fate' = [i \in Ids |-> IF r.kind[i] \in {"implement", "check"}
                                    THEN "open" ELSE fate[i]]
    BY <1>1 DEF Review
  <2>2. verdict = "pending" /\ UNCHANGED <<verdict, loop>> /\ Open = {} /\ pc = "review"
    BY <1>1, OpenIs DEF Review, LoopInv, PhaseInv, Looping
  <2>3. Open' \in SUBSET Ids /\ Checks' \in SUBSET Open'
    BY DEF Open, Checks
  <2>4. Convergence!Find
    BY <2>2, <2>3 DEF Convergence!Find, Checks
  <2> QED
    BY <2>4 DEF Convergence!Next
<1>2. CASE ClassificationFails
  BY <1>2, KindsStay, Blocks DEF ClassificationFails, Returns, LoopInv, PhaseInv, Looping
<1>3. CASE Adjudicate
  <2>1. /\ verdict = "pending" /\ loop' = loop /\ pc = "judge" /\ review'.kind = review.kind
        /\ loop = MaxLoops
    BY <1>3, KindsStay DEF Adjudicate, Judging, AtLimit, LoopInv, PhaseInv, Looping, TypeOK
  <2>2. CASE Unverified \/ NotSettled
    BY <2>1, <2>2, Blocks DEF Unverified, NotSettled
  <2>3. CASE Settled
    <3>1. Open = Blocking
      BY <2>1, OpenIs
    <3>2. Open' = {}
      BY <2>3 DEF Settled, LoopInv, AcceptInv, Open
    <3>3. Checks = Open /\ Checks' = {}
      BY <3>1, <3>2, <2>3 DEF Settled, Checks, Of, Open
    <3>4. Convergence!Settle
      BY <2>1, <2>3, <3>2, <3>3 DEF Convergence!Settle, Settled, Checks
    <3> QED
      BY <3>4 DEF Convergence!Next
  <2> QED
    BY <1>3, <2>2, <2>3, AdjudicateEnds DEF LoopInv
<1>4. CASE Escalate
  BY <1>4, KindsStay, Blocks DEF Escalate, Judging, Returns, LoopInv, PhaseInv, Looping
<1>5. ASSUME NothingRequired \/ NothingToRepair PROVE Convergence!Next
  <2>1. /\ verdict = "pending" /\ verdict' = "accepted" /\ UNCHANGED <<loop, fate>>
        /\ review'.kind = review.kind /\ pc = "judge" /\ Blocking = {}
    BY <1>5, Sets, KindsStay
       DEF NothingRequired, NothingToRepair, Judging, Returns, LoopInv, PhaseInv, Looping
  <2>2. Open = {} /\ Open' = {} /\ Checks = {} /\ Checks' = {}
    BY <2>1, OpenIs DEF Open, Checks
  <2> QED
    BY <2>1, <2>2 DEF Convergence!Next, Convergence!Accept, Checks
<1>6. CASE GenerateRepairs
  BY <1>6, Stutters DEF GenerateRepairs
<1>7. CASE ContractRefused
  BY <1>7, Stutters DEF ContractRefused
<1>8. ASSUME NEW i \in Ids, RepairAccepted(i) PROVE UNCHANGED Convergence!vars
  <2>1. fate[i] = "open" /\ fate' = [fate EXCEPT ![i] = "repaired"]
    BY <1>8 DEF RepairAccepted, LoopInv, FateInv
  <2>2. Open' = Open
    BY <2>1 DEF Open, LoopInv, TypeOK
  <2> QED
    BY <1>8, <2>2 DEF RepairAccepted, Convergence!vars
<1>9. CASE RepairFails
  BY <1>9, Blocks DEF RepairFails, Returns, LoopInv, PhaseInv, Looping
<1>10. CASE RepairRaises
  BY <1>10, Stutters DEF RepairRaises
<1>11. CASE VerificationPasses
  <2>1. /\ verdict = "pending" /\ UNCHANGED <<verdict, review>> /\ pc = "repair" /\ loop < MaxLoops
        /\ Open # {} /\ loop' = loop + 1 /\ queue = {} /\ pc' = "review"
    BY <1>11, OpenIs DEF VerificationPasses, NextLoop, LoopInv, PhaseInv, Looping
  <2>2. Open' = {}
    BY <2>1 DEF LoopInv, FateInv, Open
  <2>3. Checks' = {}
    BY <2>2 DEF Checks
  <2>4. Convergence!Answer
    BY <2>1, <2>2, <2>3 DEF Convergence!Answer, Checks
  <2> QED
    BY <2>4 DEF Convergence!Next
<1>12. CASE VerificationFails
  BY <1>12, Blocks DEF VerificationFails, Returns, LoopInv, PhaseInv, Looping
<1>13. CASE Evaluate
  BY <1>13, Stutters DEF Evaluate
<1>14. CASE BuildGate
  BY <1>14, Stutters DEF BuildGate
<1>15. CASE CarryOver
  BY <1>15, Stutters DEF CarryOver
<1>16. CASE UNCHANGED vars
  BY <1>16, Stutters DEF vars
<1> QED
  BY <1>1, <1>2, <1>3, <1>4, <1>5, <1>6, <1>7, <1>8, <1>9, <1>10, <1>11, <1>12, <1>13,
     <1>14, <1>15, <1>16 DEF Next

\* Every behaviour of the review loop, with open findings and rounds read off
\* it, is a behaviour of the convergence it promises.
THEOREM LoopConverges == Spec => ImplementsConvergence
<1>1. Init => Convergence!Init
  BY DEF Init, Convergence!Init, Open
<1>2. LoopInv /\ LoopInv' /\ [Next]_vars => [Convergence!Next]_(Convergence!vars)
  BY ConvergenceStep
<1> QED
  BY LoopInvariant, <1>1, <1>2, PTL DEF Spec, ImplementsConvergence, Convergence!Spec

(***************************************************************************)
(* The gate.                                                               *)
(***************************************************************************)

\* An accepted review leaves nothing unresolved, so the gate has nothing to name.
GateInv ==
  /\ verdict = "accepted" => recheck.unresolved = {}
  /\ GateFollowsDecision

LEMMA Unnamed ==
  ASSUME recheck.unresolved = {} PROVE GateUnresolved = {}
BY DEF GateUnresolved

LEMMA GateInvStep == LoopInv /\ GateInv /\ [Next]_vars => GateInv'
<1> SUFFICES ASSUME LoopInv, GateInv, [Next]_vars PROVE GateInv'
  OBVIOUS
<1> USE DEF GateInv, GateFollowsDecision, branch, record, judged
<1>1. CASE ClassificationFails \/ Escalate \/ NothingRequired \/ NothingToRepair
  BY <1>1 DEF ClassificationFails, Escalate, NothingRequired, NothingToRepair, Returns
<1>2. CASE Adjudicate
  <2>1. pc' = "evaluate" /\ (verdict' = "accepted" => recheck'.unresolved = {})
    BY <1>2, AdjudicateEnds DEF Adjudicate, Returns, Unverified, Settled, NotSettled, LoopInv
  <2> QED
    BY <2>1
<1>3. CASE RepairFails \/ VerificationFails
  BY <1>3 DEF RepairFails, VerificationFails, Returns
<1>4. ASSUME pc' \in {"review", "judge", "repair", "gate", "raised"}, UNCHANGED <<verdict, recheck>>
      PROVE  GateInv'
  BY <1>4
<1>5. CASE Review \/ GenerateRepairs \/ ContractRefused \/ RepairRaises \/ VerificationPasses \/ Evaluate
  BY <1>4, <1>5
     DEF Review, GenerateRepairs, ContractRefused, RepairRaises, VerificationPasses, Evaluate
<1>6. ASSUME NEW i \in Ids, RepairAccepted(i) PROVE GateInv'
  BY <1>4, <1>6 DEF RepairAccepted
<1>7. CASE BuildGate
  <2>1. gate'.allowed = GateAllows /\ UNCHANGED <<decision, verdict, recheck>>
    BY <1>7 DEF BuildGate
  <2>2. decision = "accepted" => GateUnresolved = {}
    BY Unnamed DEF LoopInv, PhaseInv
  <2> QED
    BY <2>1, <2>2 DEF GateAllows
<1>8. CASE CarryOver
  BY <1>8 DEF CarryOver
<1>9. CASE UNCHANGED vars
  BY <1>9 DEF vars
<1> QED
  BY <1>1, <1>2, <1>3, <1>5, <1>6, <1>7, <1>8, <1>9 DEF Next

\* The gate lets a release through exactly if run_release accepted it, for any
\* findings and any limit.
THEOREM GateAgreesWithDecision == Spec => []GateFollowsDecision
<1>1. Init => GateInv
  BY DEF Init, GateInv, GateFollowsDecision
<1>2. Spec => []GateInv
  BY <1>1, GateInvStep, LoopInvariant, PTL DEF Spec
<1> QED
  BY <1>2, PTL DEF GateInv

(***************************************************************************)
(* Why the loop ends.                                                      *)
(***************************************************************************)

\* The loop only leaves "judge" and "repair" for its result, for the repairs, for
\* the next wave, or by an exception.
LEMMA StepsAdvance ==
  ASSUME LoopInv, Next
  PROVE  \/ loop' = loop + 1 /\ loop' <= MaxLoops
         \/ loop' = loop /\ StepRank[pc'] > StepRank[pc]
         \/ loop' = loop /\ pc' = pc /\ queue' \subseteq queue /\ queue' # queue
<1> USE DEF StepRank
<1>1. CASE Review
  BY <1>1 DEF Review
<1>2. CASE ClassificationFails \/ Escalate \/ NothingRequired \/ NothingToRepair
  BY <1>2 DEF ClassificationFails, Escalate, NothingRequired, NothingToRepair, Judging, Returns
<1>3. CASE Adjudicate
  BY <1>3 DEF Adjudicate, Judging, Returns
<1>4. CASE GenerateRepairs \/ ContractRefused
  BY <1>4 DEF GenerateRepairs, ContractRefused, Judging
<1>5. ASSUME NEW i \in Ids, RepairAccepted(i) PROVE queue' \subseteq queue /\ queue' # queue
  BY <1>5 DEF RepairAccepted
<1>6. ASSUME NEW i \in Ids, RepairAccepted(i) PROVE loop' = loop /\ pc' = pc
  BY <1>6 DEF RepairAccepted
<1>7. CASE RepairFails \/ RepairRaises \/ VerificationFails
  BY <1>7 DEF RepairFails, RepairRaises, VerificationFails, Returns, branch
<1>8. CASE VerificationPasses
  BY <1>8 DEF VerificationPasses, NextLoop, LoopInv, PhaseInv, TypeOK
<1>9. CASE Evaluate \/ CarryOver
  BY <1>9 DEF Evaluate, CarryOver
<1>10. CASE BuildGate
  BY <1>10 DEF BuildGate
<1> QED
  BY <1>1, <1>2, <1>3, <1>4, <1>5, <1>6, <1>7, <1>8, <1>9, <1>10 DEF Next

\* For any number of findings and any limit: the loop takes no step back, and no
\* more than MaxLoops waves.
THEOREM LoopOnlyAdvances == Spec => LoopAdvances
<1>1. LoopInv /\ [Next]_vars =>
        [\/ loop' = loop + 1 /\ loop' <= MaxLoops
         \/ loop' = loop /\ StepRank[pc'] > StepRank[pc]
         \/ loop' = loop /\ pc' = pc /\ queue' \subseteq queue /\ queue' # queue]_vars
  BY StepsAdvance
<1> QED
  BY <1>1, LoopInvariant, PTL DEF Spec, LoopAdvances

(***************************************************************************)
(* What the continuation decision asks for.                                *)
(***************************************************************************)

\* A run that merges is accepted only once its branch was verified.
VerifiedInv == merging /\ decision = "accepted" => final # "none"

LEMMA VerifiedStep == LoopInv /\ VerifiedInv /\ [Next]_vars => VerifiedInv'
<1> SUFFICES ASSUME LoopInv, VerifiedInv, [Next]_vars PROVE VerifiedInv'
  OBVIOUS
<1> USE DEF VerifiedInv, branch, record, judged
<1>1. CASE Evaluate
  <2>1. CASE verdict = "accepted" /\ VerificationDue
    BY <1>1, <2>1 DEF Evaluate
  <2>2. CASE ~VerificationDue
    BY <1>1, <2>2 DEF Evaluate, VerificationDue
  <2>3. CASE verdict # "accepted"
    BY <1>1, <2>3 DEF Evaluate
  <2> QED
    BY <2>1, <2>2, <2>3
<1>2. CASE Adjudicate
  BY <1>2 DEF Adjudicate
<1>3. ASSUME UNCHANGED <<merging, decision, final>> PROVE VerifiedInv'
  BY <1>3
<1>4. CASE \/ ClassificationFails \/ Escalate \/ NothingRequired \/ NothingToRepair
           \/ RepairFails \/ VerificationFails
  BY <1>3, <1>4 DEF ClassificationFails, Escalate, NothingRequired, NothingToRepair,
                    RepairFails, VerificationFails
<1>5. CASE Review \/ GenerateRepairs \/ ContractRefused \/ RepairRaises \/ VerificationPasses
  BY <1>3, <1>5 DEF Review, GenerateRepairs, ContractRefused, RepairRaises, VerificationPasses
<1>6. ASSUME NEW i \in Ids, RepairAccepted(i) PROVE VerifiedInv'
  BY <1>3, <1>6 DEF RepairAccepted
<1>7. CASE BuildGate \/ CarryOver \/ UNCHANGED vars
  BY <1>3, <1>7 DEF BuildGate, CarryOver, vars
<1> QED
  BY <1>1, <1>2, <1>4, <1>5, <1>6, <1>7 DEF Next

\* For any findings and any limit: a merged and accepted review never fails at
\* the validator of its continuation decision.
THEOREM MergedContinues == Spec => MergedReviewContinues
<1>1. Init => VerifiedInv
  BY DEF Init, VerifiedInv
<1>2. Spec => []VerifiedInv
  BY <1>1, VerifiedStep, LoopInvariant, PTL DEF Spec
<1>3. VerifiedInv /\ [Next]_vars =>
        [merging /\ pc = "gate" /\ decision = "accepted" => pc' = "governor"]_vars
  <2> SUFFICES ASSUME VerifiedInv, Next, merging, pc = "gate", decision = "accepted"
               PROVE  pc' = "governor"
    OBVIOUS
  <2>1. BuildGate
    BY DEF Next, Review, ClassificationFails, Adjudicate, Escalate, NothingRequired,
           NothingToRepair, GenerateRepairs, ContractRefused, RepairAccepted, RepairFails,
           RepairRaises, VerificationPasses, VerificationFails, Evaluate, CarryOver, Judging
  <2>2. OutcomeValid
    BY DEF OutcomeValid, VerifiedInv
  <2> QED
    BY <2>1, <2>2 DEF BuildGate
<1> QED
  BY <1>2, <1>3, PTL DEF Spec, MergedReviewContinues

=============================================================================
