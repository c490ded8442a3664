---------------------------- MODULE EpicLifecycle ----------------------------
(***************************************************************************)
(* What the governor and its state file promise about an epic: it has one  *)
(* state at a time, only an epic nobody has touched is begun without being *)
(* asked for by name, and an epic settles only after it was begun.         *)
(***************************************************************************)
CONSTANTS
  Epics,
  MayForget   \* the file may be lost as a whole

VARIABLES
  status,   \* the state of every epic
  wanted    \* the epics the operator asked for by name in the current run

Settled  == {"completed", "blocked", "reviewed"}
Statuses == {"new", "active", "skipped"} \cup Settled

To(e, s) == status' = [status EXCEPT ![e] = s]

Ask == wanted' \in SUBSET Epics /\ UNCHANGED status

Begin(e) ==
  /\ status[e] = "new" \/ e \in wanted
  /\ To(e, "active")
  /\ UNCHANGED wanted

Settle(e) ==
  /\ status[e] = "active"
  /\ \E s \in Settled : To(e, s)
  /\ UNCHANGED wanted

\* A planning-only epic is taken back from reviewed.
Reopen(e) ==
  /\ status[e] = "reviewed"
  /\ To(e, "active")
  /\ UNCHANGED wanted

\* A later run, or the end of this one, puts the epic aside.
Skip(e) == To(e, "skipped") /\ UNCHANGED wanted

Forget ==
  /\ MayForget
  /\ status' = [e \in Epics |-> "new"]
  /\ UNCHANGED wanted

Init == status \in [Epics -> Statuses] /\ wanted = {}

Next == Ask \/ Forget \/ \E e \in Epics : Begin(e) \/ Settle(e) \/ Reopen(e) \/ Skip(e)

Spec == Init /\ [][Next]_<<status, wanted>>
=============================================================================
