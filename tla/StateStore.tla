----------------------------- MODULE StateStore -----------------------------
(***************************************************************************)
(* The backlog state that state_store.py keeps in backlog_state.yaml, and  *)
(* what each operation of StateStore makes of it.  An operation loads the  *)
(* file, changes the state and saves it; here it is the function from the  *)
(* loaded to the saved state.                                              *)
(*                                                                         *)
(* A record is known by its epic_id, so a list of records is the set of    *)
(* the ids in it: the position in a list decides nothing.  Counters, notes *)
(* references and recent_run_summaries are left out: no operation reads    *)
(* them to decide where an epic goes.                                      *)
(***************************************************************************)

CONSTANTS
  Names,        \* the ids records are kept under: epic ids and release ids
  NoEpic        \* active_epic is null

ASSUME StateStoreAssumption == NoEpic \notin Names

Lists == {"active", "reviewed", "completed", "blocked", "skipped"}

\* The lists that _epic_record_lists puts before a list.
Before(l) ==
  CASE l = "active"    -> {}
    [] l = "reviewed"  -> {"active"}
    [] l = "completed" -> {"active", "reviewed"}
    [] l = "blocked"   -> {"active", "reviewed", "completed"}
    [] l = "skipped"   -> {"active", "reviewed", "completed", "blocked"}

BacklogState ==
  [active_epic     : Names \cup {NoEpic},
   completed_epics : SUBSET Names,
   blocked_epics   : SUBSET Names,
   records         : [Lists -> SUBSET Names]]

\* BacklogState(): what load returns for a missing and for an empty file.
EmptyState ==
  [active_epic     |-> NoEpic,
   completed_epics |-> {},
   blocked_epics   |-> {},
   records         |-> [l \in Lists |-> {}]]

(***************************************************************************)
(* The records                                                             *)
(***************************************************************************)

\* The list whose record of e is found first.
HoldsFirst(records, l, e) ==
  e \in records[l] /\ \A m \in Before(l) : e \notin records[m]

\* _pop_existing_epic_record: one list loses the record, another copy stays.
PopExisting(records, e) ==
  [l \in Lists |-> IF HoldsFirst(records, l, e) THEN records[l] \ {e} ELSE records[l]]

\* The list comprehensions that drop e from some of the lists.
Without(records, lists, e) ==
  [l \in Lists |-> IF l \in lists THEN records[l] \ {e} ELSE records[l]]

\* _set_record.
SetRecord(records, l, e) == [records EXCEPT ![l] = @ \cup {e}]

Release(active, e) == IF active = e THEN NoEpic ELSE active

(***************************************************************************)
(* The lifecycle operations                                                *)
(***************************************************************************)

MarkActive(s, e) ==
  [s EXCEPT
     !.active_epic     = e,
     !.completed_epics = @ \ {e},
     !.blocked_epics   = @ \ {e},
     !.records = SetRecord(Without(PopExisting(@, e), {"completed", "blocked", "skipped"}, e),
                           "active", e)]

MarkCompleted(s, e) ==
  [s EXCEPT
     !.active_epic     = Release(@, e),
     !.completed_epics = @ \cup {e},
     !.blocked_epics   = @ \ {e},
     !.records = SetRecord(Without(PopExisting(@, e), {"active", "blocked", "skipped"}, e),
                           "completed", e)]

\* Neither active_epic nor the two lists of ids are touched.
MarkReviewed(s, e) ==
  [s EXCEPT !.records = SetRecord(PopExisting(@, e), "reviewed", e)]

MarkSkipped(s, e) ==
  [s EXCEPT
     !.active_epic     = Release(@, e),
     !.completed_epics = @ \ {e},
     !.blocked_epics   = @ \ {e},
     !.records = SetRecord(Without(PopExisting(@, e), {"active", "completed", "blocked"}, e),
                           "skipped", e)]

MarkBlocked(s, e) ==
  [s EXCEPT
     !.active_epic     = Release(@, e),
     !.completed_epics = @ \ {e},
     !.blocked_epics   = @ \cup {e},
     !.records = SetRecord(Without(PopExisting(@, e), {"active", "completed", "skipped"}, e),
                           "blocked", e)]

\* apply_epic_refresh_outcome with _set_epic_lifecycle_state.
ApplyRefresh(s, e, state) ==
  [s EXCEPT
     !.active_epic     = IF state = "active" THEN e ELSE Release(@, e),
     !.completed_epics = IF state = "completed" THEN @ \cup {e} ELSE @ \ {e},
     !.blocked_epics   = IF state = "blocked" THEN @ \cup {e} ELSE @ \ {e},
     !.records = SetRecord(Without(PopExisting(@, e), Lists, e), state, e)]

\* Variant for checking: the ids of old files are not looked at.
GetOrCreateActive(s, e) ==
  IF \E l \in Lists : e \in s.records[l]
  THEN s
  ELSE [s EXCEPT !.records = SetRecord(@, "active", e)]

\* _get_or_create_epic_record, on which every add_* operation rests: the first
\* record of e is used, else one is made in the list that the ids point to.
GetOrCreate(s, e) ==
  IF \E l \in Lists : e \in s.records[l]
  THEN s
  ELSE LET list == IF e \in s.completed_epics THEN "completed"
                   ELSE IF e \in s.blocked_epics THEN "blocked"
                   ELSE "active"
       IN [s EXCEPT !.records = SetRecord(@, list, e)]

(***************************************************************************)
(* What the state says of an epic                                          *)
(***************************************************************************)

\* In the order in which _no_actionable_reason_for_selected_epic looks.
Lifecycle(s, e) ==
  IF e \in s.records["skipped"] THEN "skipped"
  ELSE IF e \in s.completed_epics THEN "completed"
  ELSE IF e \in s.blocked_epics THEN "blocked"
  ELSE IF e \in s.records["reviewed"] THEN "reviewed"
  ELSE IF e \in s.records["active"] THEN "active"
  ELSE "new"

\* One record per epic, the ids say nothing the records contradict, and
\* active_epic names an active one, or one that mark_reviewed_epic took.  (Old
\* files list ids without a record.)
Consistent(s) ==
  /\ s.active_epic # NoEpic =>
       s.active_epic \in s.records["active"] \cup s.records["reviewed"]
  /\ \A e \in Names, l, m \in Lists :
       e \in s.records[l] /\ e \in s.records[m] => l = m
  /\ s.completed_epics \cap s.blocked_epics = {}
  /\ \A e \in Names, l \in Lists : e \in s.records[l] =>
       /\ e \in s.completed_epics <=> l = "completed"
       /\ e \in s.blocked_epics <=> l = "blocked"

=============================================================================
