-------------------------- MODULE ReviewConvergence --------------------------
(***************************************************************************)
(* What the feature-review loop of a release promises: findings that block *)
(* the release are answered round by round, at most MaxRounds times; the   *)
(* loop accepts only with nothing left to answer, except that after the    *)
(* last round it may settle findings that ask for no more than a check.    *)
(* FeatureReviewLoop implements this specification.                        *)
(***************************************************************************)
EXTENDS Integers

CONSTANTS
  Ids,        \* finding ids
  MaxRounds   \* rounds of repairs

VARIABLES
  open,       \* the blocking findings not answered yet
  checks,     \* those of them that ask for no more than a check
  rounds,     \* rounds of repairs that answered what was open
  outcome     \* open, accepted or blocked

vars == <<open, checks, rounds, outcome>>

Init ==
  /\ open = {}
  /\ checks = {}
  /\ rounds = 0
  /\ outcome = "open"

\* A review, which comes only when everything found before is answered.
Find ==
  /\ outcome = "open"
  /\ open = {}
  /\ open' \in SUBSET Ids
  /\ checks' \in SUBSET open'
  /\ UNCHANGED <<rounds, outcome>>

\* A round of repairs after which the verification passes.
Answer ==
  /\ outcome = "open"
  /\ open # {}
  /\ rounds < MaxRounds
  /\ open' = {}
  /\ checks' = {}
  /\ rounds' = rounds + 1
  /\ UNCHANGED outcome

Accept ==
  /\ outcome = "open"
  /\ open = {}
  /\ outcome' = "accepted"
  /\ UNCHANGED <<open, checks, rounds>>

\* After the last round, what asks for no more than a check may be settled.
Settle ==
  /\ outcome = "open"
  /\ rounds = MaxRounds
  /\ open = checks
  /\ open' = {}
  /\ checks' = {}
  /\ outcome' = "accepted"
  /\ UNCHANGED rounds

Block ==
  /\ outcome = "open"
  /\ outcome' = "blocked"
  /\ UNCHANGED <<open, checks, rounds>>

Next == Find \/ Answer \/ Accept \/ Settle \/ Block

Spec == Init /\ [][Next]_vars

=============================================================================
