------------------------------ MODULE MergeTurns ------------------------------
(***************************************************************************)
(* What finalization promises, however many threads and processes finalize *)
(* through the one main checkout and whatever git, a remote or a kill do to*)
(* them.  One finalizer has the turn at a time.  A turn is good for at most*)
(* one merge; the merge goes to the branch its owner means, unless another *)
(* run has switched the checkout, and brings all that the owner made, and  *)
(* besides that nothing that was not published before.  Work that nobody   *)
(* has merged is on no branch, and what is on a branch stays there.  A turn*)
(* whose owner died is never passed on.  Finalization implements this      *)
(* specification.                                                          *)
(***************************************************************************)

CONSTANTS
    Tasks,        \* each brings the change it is named after
    Releases,     \* each brings what its Source holds
    Branches,
    Source,       \* the branch a release delivers
    Goal,         \* the branch a finalizer means to merge into
    External,     \* a change of somebody else
    Nobody        \* nobody has the turn

VARIABLES
    turn,         \* who has the turn
    use,          \* of the turn: none, open (it may still merge) or spent
    dead,         \* finalizers that were killed
    diverted,     \* another run has switched the checkout
    branches      \* what the branches hold

vars == <<turn, use, dead, diverted, branches>>

Finalizers == Tasks \union Releases

Published == {External} \union UNION { branches[b] : b \in Branches }

\* What a merge of f may bring.
Brought(f) ==
    IF f \in Tasks THEN { {f} \union other : other \in SUBSET Published }
                   ELSE { branches[Source] }

Init ==
    /\ turn = Nobody
    /\ use = "none"
    /\ dead = {}
    /\ diverted = FALSE
    /\ branches \in [Branches -> SUBSET {External}]

Take(f) ==
    /\ turn = Nobody
    /\ f \notin dead
    /\ turn' = f
    /\ use' = "open"
    /\ UNCHANGED <<dead, diverted, branches>>

Merge(f, b) ==
    /\ turn = f
    /\ use = "open"
    /\ b = Goal[f] \/ diverted
    /\ \E work \in Brought(f) : branches' = [branches EXCEPT ![b] = @ \union work]
    /\ use' = "spent"
    /\ UNCHANGED <<turn, dead, diverted>>

\* There is nothing to merge, or it fails.
Forgo ==
    /\ use = "open"
    /\ use' = "spent"
    /\ UNCHANGED <<turn, dead, diverted, branches>>

Give ==
    /\ use = "spent"
    /\ turn \notin dead
    /\ turn' = Nobody
    /\ use' = "none"
    /\ UNCHANGED <<dead, diverted, branches>>

\* Killed finalizers do nothing any more, with or without the turn.
Die(F) ==
    /\ dead' = dead \union F
    /\ use' = IF turn \in F THEN "spent" ELSE use
    /\ UNCHANGED <<turn, diverted, branches>>

Divert ==
    /\ diverted' = TRUE
    /\ UNCHANGED <<turn, use, dead, branches>>

Next ==
    \/ \E f \in Finalizers : Take(f)
    \/ \E f \in Finalizers, b \in Branches : Merge(f, b)
    \/ Forgo
    \/ Give
    \/ \E F \in SUBSET Finalizers : Die(F)
    \/ Divert

Spec == Init /\ [][Next]_vars
=============================================================================
