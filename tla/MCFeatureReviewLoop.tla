------------------------- MODULE MCFeatureReviewLoop -------------------------
(***************************************************************************)
(* Instances of FeatureReviewLoop for TLC: two findings are enough for one *)
(* to be answered while the other is not, two loops (the default) for a    *)
(* finding to be raised, repaired, and raised again or dropped.            *)
(***************************************************************************)
EXTENDS FeatureReviewLoop

CONSTANTS f1, f2

=============================================================================
