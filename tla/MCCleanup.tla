------------------------------ MODULE MCCleanup ------------------------------
(***************************************************************************)
(* An instance of Cleanup for TLC: a release of two tasks, run once or     *)
(* twice, and one whose id ends with the id of the first.                  *)
(***************************************************************************)
EXTENDS Cleanup, TLC

CONSTANTS r1, r2, t1, t2, t3

Twins == Permutations({t1, t2})

MCReleaseOf == t1 :> r1 @@ t2 :> r1 @@ t3 :> r2
MCAlike     == r1 :> {r1, r2} @@ r2 :> {r2}
MCApart     == r1 :> {r1} @@ r2 :> {r2}
=============================================================================
