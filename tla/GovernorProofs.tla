--------------------------- MODULE GovernorProofs ---------------------------
(***************************************************************************)
(* What holds of the governor loop for any set of epics, any number of     *)
(* cycles and any number of runs.  The first part is about StateStore: what*)
(* each of its operations does to a consistent state.  The invariants of   *)
(* the second part say in which state each save finds the file.            *)
(***************************************************************************)
EXTENDS Governor, TLAPS

(***************************************************************************)
(* The state file: an operation moves the record of one epic to one list,  *)
(* keeps the ids in step with it, and leaves every other epic where it was.*)
(***************************************************************************)

\* The records after e was moved to list l.
MovedTo(records, l, e) ==
  [m \in Lists |-> IF m = l THEN records[m] \cup {e} ELSE records[m] \ {e}]

\* Removing the first record found removes the only one.
LEMMA PopOnly ==
  ASSUME NEW s \in BacklogState, Consistent(s), NEW e \in Names
  PROVE  PopExisting(s.records, e) = [l \in Lists |-> s.records[l] \ {e}]
<1>1. ASSUME NEW l \in Lists
      PROVE  (IF HoldsFirst(s.records, l, e) THEN s.records[l] \ {e} ELSE s.records[l])
               = s.records[l] \ {e}
  <2>1. Before(l) \subseteq Lists \ {l}
    BY <1>1 DEF Before, Lists
  <2>2. s.records \in [Lists -> SUBSET Names]
    BY DEF BacklogState
  <2>3. CASE e \in s.records[l]
    <3>1. HoldsFirst(s.records, l, e)
      BY <2>1, <2>3 DEF HoldsFirst, Consistent
    <3> QED
      BY <3>1
  <2>4. CASE e \notin s.records[l]
    BY <2>4 DEF HoldsFirst
  <2> QED
    BY <2>3, <2>4
<1> QED
  BY <1>1 DEF PopExisting

\* The three steps that each operation takes amount to one move.
LEMMA MoveRecord ==
  ASSUME NEW s \in BacklogState, Consistent(s), NEW e \in Names,
         NEW lists \in SUBSET Lists, NEW l \in Lists
  PROVE  /\ SetRecord(Without(PopExisting(s.records, e), lists, e), l, e)
              = MovedTo(s.records, l, e)
         /\ SetRecord(PopExisting(s.records, e), l, e) = MovedTo(s.records, l, e)
<1>1. PopExisting(s.records, e) = [m \in Lists |-> s.records[m] \ {e}]
  BY PopOnly
<1>2. Without(PopExisting(s.records, e), lists, e) = [m \in Lists |-> s.records[m] \ {e}]
  BY <1>1 DEF Without
<1> DEFINE P == [m \in Lists |-> s.records[m] \ {e}]
<1>3. SetRecord(P, l, e) = MovedTo(s.records, l, e)
  BY DEF SetRecord, MovedTo
<1> QED
  BY <1>1, <1>2, <1>3

\* A move has the type of the records.
LEMMA MovedToType ==
  ASSUME NEW s \in BacklogState, NEW e \in Names, NEW l \in Lists
  PROVE  MovedTo(s.records, l, e) \in [Lists -> SUBSET Names]
<1>1. s.records \in [Lists -> SUBSET Names]
  BY DEF BacklogState
<1> QED
  BY <1>1 DEF MovedTo

\* t is s after e was moved to l together with its ids.
MovedState(s, t, e, l) ==
  /\ t \in BacklogState
  /\ t.completed_epics = IF l = "completed" THEN s.completed_epics \cup {e}
                                            ELSE s.completed_epics \ {e}
  /\ t.blocked_epics = IF l = "blocked" THEN s.blocked_epics \cup {e}
                                        ELSE s.blocked_epics \ {e}
  /\ t.records = MovedTo(s.records, l, e)
  /\ \/ t.active_epic = e /\ l \in {"active", "reviewed"}
     \/ t.active_epic = s.active_epic /\ t.active_epic # e
     \/ t.active_epic = NoEpic

\* What an operation that moves e to l achieves.
Moves(s, t, e, l) ==
  /\ t \in BacklogState
  /\ Consistent(t)
  /\ Lifecycle(t, e) = l
  /\ \A f \in Names \ {e} : Lifecycle(t, f) = Lifecycle(s, f)

\* A move that takes the ids along keeps the state consistent, puts e where it
\* should be and leaves the others alone.
LEMMA Move ==
  ASSUME NEW s \in BacklogState, Consistent(s), NEW t, NEW e \in Names, NEW l \in Lists,
         MovedState(s, t, e, l)
  PROVE  Moves(s, t, e, l)
<1>1. s.active_epic \in Names \cup {NoEpic}
  BY DEF BacklogState
<1>2. ASSUME NEW m \in Lists
      PROVE  t.records[m] = IF m = l THEN s.records[m] \cup {e} ELSE s.records[m] \ {e}
  BY DEF MovedTo, MovedState
<1>3. \A m \in Lists : \A f \in Names :
        /\ f = e => (f \in t.records[m] <=> m = l)
        /\ f # e => (f \in t.records[m] <=> f \in s.records[m])
  BY <1>2
<1>4. \A f \in Names :
        /\ f = e => (f \in t.completed_epics <=> l = "completed")
        /\ f = e => (f \in t.blocked_epics <=> l = "blocked")
        /\ f # e => (f \in t.completed_epics <=> f \in s.completed_epics)
        /\ f # e => (f \in t.blocked_epics <=> f \in s.blocked_epics)
  BY DEF MovedState
<1>5. "active" \in Lists /\ "reviewed" \in Lists /\ "completed" \in Lists
      /\ "blocked" \in Lists /\ "skipped" \in Lists
  BY DEF Lists
<1>6. Consistent(t)
  <2>1. t.active_epic # NoEpic => t.active_epic \in t.records["active"] \cup t.records["reviewed"]
    <3>1. CASE t.active_epic = e /\ l \in {"active", "reviewed"}
      BY <1>3, <1>5, <3>1
    <3>2. CASE t.active_epic = s.active_epic /\ t.active_epic # e
      <4>1. s.active_epic # NoEpic =>
              s.active_epic \in s.records["active"] \/ s.active_epic \in s.records["reviewed"]
        BY DEF Consistent
      <4> QED
        BY <1>1, <1>3, <1>5, <3>2, <4>1
    <3> QED
      BY <3>1, <3>2 DEF MovedState
  <2>2. ASSUME NEW f \in Names, NEW m \in Lists, NEW n \in Lists,
               f \in t.records[m], f \in t.records[n]
        PROVE  m = n
    <3>1. f \in s.records[m] /\ f \in s.records[n] => m = n
      BY DEF Consistent
    <3> QED
      BY <1>3, <2>2, <3>1
  <2>3. t.completed_epics \cap t.blocked_epics = {}
    <3>1. s.completed_epics \cap s.blocked_epics = {}
      BY DEF Consistent
    <3> QED
      BY <3>1 DEF MovedState
  <2>4. ASSUME NEW f \in Names, NEW m \in Lists, f \in t.records[m]
        PROVE  /\ f \in t.completed_epics <=> m = "completed"
               /\ f \in t.blocked_epics <=> m = "blocked"
    <3>1. f \in s.records[m] => /\ f \in s.completed_epics <=> m = "completed"
                                /\ f \in s.blocked_epics <=> m = "blocked"
      BY DEF Consistent
    <3>2. CASE f = e
      BY <1>3, <1>4, <2>4, <3>2
    <3>3. CASE f # e
      <4>1. f \in s.records[m]
        BY <1>3, <2>4, <3>3
      <4>2. /\ f \in t.completed_epics <=> f \in s.completed_epics
            /\ f \in t.blocked_epics <=> f \in s.blocked_epics
        BY <1>4, <3>3
      <4> QED
        BY <3>1, <4>1, <4>2
    <3> QED
      BY <3>2, <3>3
  <2> QED
    BY <2>1, <2>2, <2>3, <2>4 DEF Consistent
<1>7. Lifecycle(t, e) = l
  BY <1>3, <1>4, <1>5 DEF Lifecycle, Lists
<1>8. ASSUME NEW f \in Names, f # e
      PROVE  Lifecycle(t, f) = Lifecycle(s, f)
  <2>1. \A m \in Lists : f \in t.records[m] <=> f \in s.records[m]
    BY <1>3, <1>8
  <2>2. /\ f \in t.completed_epics <=> f \in s.completed_epics
        /\ f \in t.blocked_epics <=> f \in s.blocked_epics
    BY <1>4, <1>8
  <2> QED
    BY <1>5, <2>1, <2>2 DEF Lifecycle
<1> QED
  BY <1>6, <1>7, <1>8 DEF MovedState, Moves

\* mark_active_epic makes the epic the active one, wherever it was.
LEMMA MarkActiveMoves ==
  ASSUME NEW s \in BacklogState, Consistent(s), NEW e \in Names
  PROVE  Moves(s, MarkActive(s, e), e, "active")
         /\ MarkActive(s, e).active_epic = e
<1> DEFINE t     == MarkActive(s, e)
           moved == MovedTo(s.records, "active", e)
<1>1. "active" \in Lists /\ {"completed", "blocked", "skipped"} \in SUBSET Lists
  BY DEF Lists
<1>2. SetRecord(Without(PopExisting(s.records, e), {"completed", "blocked", "skipped"}, e), "active", e)
        = moved
  BY <1>1, MoveRecord
<1>3. t = [s EXCEPT !.active_epic = e,
                    !.completed_epics = s.completed_epics \ {e},
                    !.blocked_epics = s.blocked_epics \ {e},
                    !.records = moved]
  BY <1>2 DEF MarkActive
<1>4. moved \in [Lists -> SUBSET Names]
  BY <1>1, MovedToType
<1> HIDE DEF t, moved
<1>5. /\ t.active_epic = e
      /\ t.completed_epics = s.completed_epics \ {e}
      /\ t.blocked_epics = s.blocked_epics \ {e}
      /\ t.records = moved
      /\ t \in BacklogState
  BY <1>3, <1>4 DEF BacklogState, Release
<1>6. t.records = MovedTo(s.records, "active", e)
  BY <1>5 DEF moved
<1>7. \/ t.active_epic = e /\ "active" \in {"active", "reviewed"}
      \/ t.active_epic = s.active_epic /\ t.active_epic # e
      \/ t.active_epic = NoEpic
  BY <1>5 DEF Release
<1>8. /\ t.completed_epics = IF "active" = "completed" THEN s.completed_epics \cup {e}
                             ELSE s.completed_epics \ {e}
      /\ t.blocked_epics = IF "active" = "blocked" THEN s.blocked_epics \cup {e}
                           ELSE s.blocked_epics \ {e}
  BY <1>5
<1>9. MovedState(s, t, e, "active")
  BY <1>5, <1>6, <1>7, <1>8 DEF MovedState
<1>10. Moves(s, t, e, "active")
  BY <1>1, <1>9, Move
<1> QED
  BY <1>5, <1>10 DEF t

\* mark_completed_epic completes the epic, wherever it was.
LEMMA MarkCompletedMoves ==
  ASSUME NEW s \in BacklogState, Consistent(s), NEW e \in Names
  PROVE  Moves(s, MarkCompleted(s, e), e, "completed")
<1> DEFINE t     == MarkCompleted(s, e)
           moved == MovedTo(s.records, "completed", e)
<1>1. "completed" \in Lists /\ {"active", "blocked", "skipped"} \in SUBSET Lists
  BY DEF Lists
<1>2. SetRecord(Without(PopExisting(s.records, e), {"active", "blocked", "skipped"}, e), "completed", e)
        = moved
  BY <1>1, MoveRecord
<1>3. t = [s EXCEPT !.active_epic = Release(s.active_epic, e),
                    !.completed_epics = s.completed_epics \cup {e},
                    !.blocked_epics = s.blocked_epics \ {e},
                    !.records = moved]
  BY <1>2 DEF MarkCompleted
<1>4. moved \in [Lists -> SUBSET Names]
  BY <1>1, MovedToType
<1> HIDE DEF t, moved
<1>5. /\ t.active_epic = Release(s.active_epic, e)
      /\ t.completed_epics = s.completed_epics \cup {e}
      /\ t.blocked_epics = s.blocked_epics \ {e}
      /\ t.records = moved
      /\ t \in BacklogState
  BY <1>3, <1>4 DEF BacklogState, Release
<1>6. t.records = MovedTo(s.records, "completed", e)
  BY <1>5 DEF moved
<1>7. \/ t.active_epic = e /\ "completed" \in {"active", "reviewed"}
      \/ t.active_epic = s.active_epic /\ t.active_epic # e
      \/ t.active_epic = NoEpic
  BY <1>5 DEF Release
<1>8. /\ t.completed_epics = IF "completed" = "completed" THEN s.completed_epics \cup {e}
                             ELSE s.completed_epics \ {e}
      /\ t.blocked_epics = IF "completed" = "blocked" THEN s.blocked_epics \cup {e}
                           ELSE s.blocked_epics \ {e}
  BY <1>5
<1>9. MovedState(s, t, e, "completed")
  BY <1>5, <1>6, <1>7, <1>8 DEF MovedState
<1>10. Moves(s, t, e, "completed")
  BY <1>1, <1>9, Move
<1> QED
  BY <1>5, <1>10 DEF t

\* mark_skipped_epic puts the epic aside, wherever it was.
LEMMA MarkSkippedMoves ==
  ASSUME NEW s \in BacklogState, Consistent(s), NEW e \in Names
  PROVE  Moves(s, MarkSkipped(s, e), e, "skipped")
<1> DEFINE t     == MarkSkipped(s, e)
           moved == MovedTo(s.records, "skipped", e)
<1>1. "skipped" \in Lists /\ {"active", "completed", "blocked"} \in SUBSET Lists
  BY DEF Lists
<1>2. SetRecord(Without(PopExisting(s.records, e), {"active", "completed", "blocked"}, e), "skipped", e)
        = moved
  BY <1>1, MoveRecord
<1>3. t = [s EXCEPT !.active_epic = Release(s.active_epic, e),
                    !.completed_epics = s.completed_epics \ {e},
                    !.blocked_epics = s.blocked_epics \ {e},
                    !.records = moved]
  BY <1>2 DEF MarkSkipped
<1>4. moved \in [Lists -> SUBSET Names]
  BY <1>1, MovedToType
<1> HIDE DEF t, moved
<1>5. /\ t.active_epic = Release(s.active_epic, e)
      /\ t.completed_epics = s.completed_epics \ {e}
      /\ t.blocked_epics = s.blocked_epics \ {e}
      /\ t.records = moved
      /\ t \in BacklogState
  BY <1>3, <1>4 DEF BacklogState, Release
<1>6. t.records = MovedTo(s.records, "skipped", e)
  BY <1>5 DEF moved
<1>7. \/ t.active_epic = e /\ "skipped" \in {"active", "reviewed"}
      \/ t.active_epic = s.active_epic /\ t.active_epic # e
      \/ t.active_epic = NoEpic
  BY <1>5 DEF Release
<1>8. /\ t.completed_epics = IF "skipped" = "completed" THEN s.completed_epics \cup {e}
                             ELSE s.completed_epics \ {e}
      /\ t.blocked_epics = IF "skipped" = "blocked" THEN s.blocked_epics \cup {e}
                           ELSE s.blocked_epics \ {e}
  BY <1>5
<1>9. MovedState(s, t, e, "skipped")
  BY <1>5, <1>6, <1>7, <1>8 DEF MovedState
<1>10. Moves(s, t, e, "skipped")
  BY <1>1, <1>9, Move
<1> QED
  BY <1>5, <1>10 DEF t

\* mark_blocked_epic blocks the epic, wherever it was.
LEMMA MarkBlockedMoves ==
  ASSUME NEW s \in BacklogState, Consistent(s), NEW e \in Names
  PROVE  Moves(s, MarkBlocked(s, e), e, "blocked")
<1> DEFINE t     == MarkBlocked(s, e)
           moved == MovedTo(s.records, "blocked", e)
<1>1. "blocked" \in Lists /\ {"active", "completed", "skipped"} \in SUBSET Lists
  BY DEF Lists
<1>2. SetRecord(Without(PopExisting(s.records, e), {"active", "completed", "skipped"}, e), "blocked", e)
        = moved
  BY <1>1, MoveRecord
<1>3. t = [s EXCEPT !.active_epic = Release(s.active_epic, e),
                    !.completed_epics = s.completed_epics \ {e},
                    !.blocked_epics = s.blocked_epics \cup {e},
                    !.records = moved]
  BY <1>2 DEF MarkBlocked
<1>4. moved \in [Lists -> SUBSET Names]
  BY <1>1, MovedToType
<1> HIDE DEF t, moved
<1>5. /\ t.active_epic = Release(s.active_epic, e)
      /\ t.completed_epics = s.completed_epics \ {e}
      /\ t.blocked_epics = s.blocked_epics \cup {e}
      /\ t.records = moved
      /\ t \in BacklogState
  BY <1>3, <1>4 DEF BacklogState, Release
<1>6. t.records = MovedTo(s.records, "blocked", e)
  BY <1>5 DEF moved
<1>7. \/ t.active_epic = e /\ "blocked" \in {"active", "reviewed"}
      \/ t.active_epic = s.active_epic /\ t.active_epic # e
      \/ t.active_epic = NoEpic
  BY <1>5 DEF Release
<1>8. /\ t.completed_epics = IF "blocked" = "completed" THEN s.completed_epics \cup {e}
                             ELSE s.completed_epics \ {e}
      /\ t.blocked_epics = IF "blocked" = "blocked" THEN s.blocked_epics \cup {e}
                           ELSE s.blocked_epics \ {e}
  BY <1>5
<1>9. MovedState(s, t, e, "blocked")
  BY <1>5, <1>6, <1>7, <1>8 DEF MovedState
<1>10. Moves(s, t, e, "blocked")
  BY <1>1, <1>9, Move
<1> QED
  BY <1>5, <1>10 DEF t

\* mark_reviewed_epic touches no ids: the epic must not be in one of the lists.
LEMMA MarkReviewedMoves ==
  ASSUME NEW s \in BacklogState, Consistent(s), NEW e \in Names,
         e \notin s.completed_epics, e \notin s.blocked_epics
  PROVE  Moves(s, MarkReviewed(s, e), e, "reviewed")
<1> DEFINE t     == MarkReviewed(s, e)
           moved == MovedTo(s.records, "reviewed", e)
<1>1. "reviewed" \in Lists /\ {} \in SUBSET Lists
  BY DEF Lists
<1>2. SetRecord(PopExisting(s.records, e), "reviewed", e)
        = moved
  BY <1>1, MoveRecord
<1>3. t = [s EXCEPT !.records = moved]
  BY <1>2 DEF MarkReviewed
<1>4. moved \in [Lists -> SUBSET Names]
  BY <1>1, MovedToType
<1> HIDE DEF t, moved
<1>5. /\ t.active_epic = s.active_epic
      /\ t.completed_epics = s.completed_epics
      /\ t.blocked_epics = s.blocked_epics
      /\ t.records = moved
      /\ t \in BacklogState
  BY <1>3, <1>4 DEF BacklogState, Release
<1>6. t.records = MovedTo(s.records, "reviewed", e)
  BY <1>5 DEF moved
<1>7. \/ t.active_epic = e /\ "reviewed" \in {"active", "reviewed"}
      \/ t.active_epic = s.active_epic /\ t.active_epic # e
      \/ t.active_epic = NoEpic
  BY <1>5 DEF Release
<1>8. /\ t.completed_epics = IF "reviewed" = "completed" THEN s.completed_epics \cup {e}
                             ELSE s.completed_epics \ {e}
      /\ t.blocked_epics = IF "reviewed" = "blocked" THEN s.blocked_epics \cup {e}
                           ELSE s.blocked_epics \ {e}
  BY <1>5
<1>9. MovedState(s, t, e, "reviewed")
  BY <1>5, <1>6, <1>7, <1>8 DEF MovedState
<1>10. Moves(s, t, e, "reviewed")
  BY <1>1, <1>9, Move
<1> QED
  BY <1>5, <1>10 DEF t

\* apply_epic_refresh_outcome moves the epic to the state of the outcome.
LEMMA ApplyRefreshMoves ==
  ASSUME NEW s \in BacklogState, Consistent(s), NEW e \in Names, NEW l \in Lists
  PROVE  Moves(s, ApplyRefresh(s, e, l), e, l)
<1> DEFINE t     == ApplyRefresh(s, e, l)
           moved == MovedTo(s.records, l, e)
<1>1. Lists \in SUBSET Lists
  BY DEF Lists
<1>2. SetRecord(Without(PopExisting(s.records, e), Lists, e), l, e)
        = moved
  BY <1>1, MoveRecord
<1>3. t = [s EXCEPT !.active_epic = IF l = "active" THEN e ELSE Release(s.active_epic, e),
                    !.completed_epics = IF l = "completed" THEN s.completed_epics \cup {e} ELSE s.completed_epics \ {e},
                    !.blocked_epics = IF l = "blocked" THEN s.blocked_epics \cup {e} ELSE s.blocked_epics \ {e},
                    !.records = moved]
  BY <1>2 DEF ApplyRefresh
<1>4. moved \in [Lists -> SUBSET Names]
  BY <1>1, MovedToType
<1> HIDE DEF t, moved
<1>5. /\ t.active_epic = IF l = "active" THEN e ELSE Release(s.active_epic, e)
      /\ t.completed_epics = IF l = "completed" THEN s.completed_epics \cup {e} ELSE s.completed_epics \ {e}
      /\ t.blocked_epics = IF l = "blocked" THEN s.blocked_epics \cup {e} ELSE s.blocked_epics \ {e}
      /\ t.records = moved
      /\ t \in BacklogState
  BY <1>3, <1>4 DEF BacklogState, Release
<1>6. t.records = MovedTo(s.records, l, e)
  BY <1>5 DEF moved
<1>7. \/ t.active_epic = e /\ l \in {"active", "reviewed"}
      \/ t.active_epic = s.active_epic /\ t.active_epic # e
      \/ t.active_epic = NoEpic
  BY <1>5 DEF Release
<1>8. /\ t.completed_epics = IF l = "completed" THEN s.completed_epics \cup {e}
                             ELSE s.completed_epics \ {e}
      /\ t.blocked_epics = IF l = "blocked" THEN s.blocked_epics \cup {e}
                           ELSE s.blocked_epics \ {e}
  BY <1>5
<1>9. MovedState(s, t, e, l)
  BY <1>5, <1>6, <1>7, <1>8 DEF MovedState
<1>10. Moves(s, t, e, l)
  BY <1>1, <1>9, Move
<1> QED
  BY <1>5, <1>10 DEF t

\* Follow-up memory never changes where an epic is, except that an epic nobody
\* has touched becomes active.
LEMMA GetOrCreateKeeps ==
  ASSUME NEW s \in BacklogState, Consistent(s), NEW e \in Names
  PROVE  /\ GetOrCreate(s, e) \in BacklogState
         /\ Consistent(GetOrCreate(s, e))
         /\ GetOrCreate(s, e).active_epic = s.active_epic
         /\ \A f \in Names : \/ Lifecycle(GetOrCreate(s, e), f) = Lifecycle(s, f)
                             \/ /\ f = e
                                /\ Lifecycle(s, f) = "new"
                                /\ Lifecycle(GetOrCreate(s, e), f) = "active"
<1>1. CASE \E l \in Lists : e \in s.records[l]
  BY <1>1 DEF GetOrCreate
<1>2. CASE ~ \E l \in Lists : e \in s.records[l]
  <2> DEFINE l == IF e \in s.completed_epics THEN "completed"
                  ELSE IF e \in s.blocked_epics THEN "blocked" ELSE "active"
             t == GetOrCreate(s, e)
             r == SetRecord(s.records, l, e)
  <2>1. "active" \in Lists /\ "reviewed" \in Lists /\ "completed" \in Lists
        /\ "blocked" \in Lists /\ "skipped" \in Lists
    BY DEF Lists
  <2>2. l \in Lists
    BY <2>1
  <2>3. s.records \in [Lists -> SUBSET Names]
    BY DEF BacklogState
  <2>4. t = [s EXCEPT !.records = r]
    BY <1>2 DEF GetOrCreate
  <2>5. r \in [Lists -> SUBSET Names]
    BY <2>2, <2>3 DEF SetRecord
  <2>6. ASSUME NEW m \in Lists
        PROVE  r[m] = IF m = l THEN s.records[m] \cup {e} ELSE s.records[m]
    BY <2>2, <2>3 DEF SetRecord
  <2>7. /\ l = "completed" <=> e \in s.completed_epics
        /\ l = "blocked" <=> e \in s.blocked_epics
        /\ l \in {"completed", "blocked", "active"}
    BY DEF Consistent
  <2> HIDE DEF t, r, l
  <2>8. /\ t \in BacklogState
        /\ t.active_epic = s.active_epic
        /\ t.completed_epics = s.completed_epics
        /\ t.blocked_epics = s.blocked_epics
        /\ t.records = r
    BY <2>4, <2>5 DEF BacklogState
  <2>9. \A m \in Lists : \A f \in Names :
          /\ f = e => (f \in t.records[m] <=> m = l)
          /\ f # e => (f \in t.records[m] <=> f \in s.records[m])
    BY <1>2, <2>6, <2>8
  <2>10. Consistent(t)
    <3>1. t.active_epic # NoEpic => t.active_epic \in t.records["active"] \cup t.records["reviewed"]
      <4>1. s.active_epic # NoEpic =>
              s.active_epic \in s.records["active"] \/ s.active_epic \in s.records["reviewed"]
        BY DEF Consistent
      <4>2. t.active_epic # NoEpic => t.active_epic \in Names /\ t.active_epic # e
        BY <1>2, <2>1, <2>8, <4>1 DEF BacklogState
      <4> QED
        BY <2>1, <2>8, <2>9, <4>1, <4>2
    <3>2. ASSUME NEW f \in Names, NEW m \in Lists, NEW n \in Lists,
                 f \in t.records[m], f \in t.records[n]
          PROVE  m = n
      <4>1. f \in s.records[m] /\ f \in s.records[n] => m = n
        BY DEF Consistent
      <4> QED
        BY <2>9, <3>2, <4>1
    <3>3. ASSUME NEW f \in Names, NEW m \in Lists, f \in t.records[m]
          PROVE  /\ f \in t.completed_epics <=> m = "completed"
                 /\ f \in t.blocked_epics <=> m = "blocked"
      <4>1. CASE f = e
        BY <2>7, <2>8, <2>9, <3>3, <4>1
      <4>2. CASE f # e
        <5>1. f \in s.records[m] => /\ f \in s.completed_epics <=> m = "completed"
                                    /\ f \in s.blocked_epics <=> m = "blocked"
          BY DEF Consistent
        <5>2. f \in s.records[m]
          BY <2>9, <3>3, <4>2
        <5> QED
          BY <2>8, <5>1, <5>2
      <4> QED
        BY <4>1, <4>2
    <3>4. t.completed_epics \cap t.blocked_epics = {}
      BY <2>8 DEF Consistent
    <3> QED
      BY <3>1, <3>2, <3>3, <3>4 DEF Consistent
  <2>11. ASSUME NEW f \in Names, f # e
         PROVE  Lifecycle(t, f) = Lifecycle(s, f)
    <3>1. \A m \in Lists : f \in t.records[m] <=> f \in s.records[m]
      BY <2>9, <2>11
    <3> QED
      BY <2>1, <2>8, <3>1 DEF Lifecycle
  <2>12. \/ Lifecycle(t, e) = Lifecycle(s, e)
         \/ Lifecycle(s, e) = "new" /\ Lifecycle(t, e) = "active"
    <3>1. \A m \in Lists : e \in t.records[m] <=> m = l
      BY <2>9
    <3>2. \A m \in Lists : e \notin s.records[m]
      BY <1>2
    <3>3. CASE l = "completed"
      BY <2>1, <2>7, <2>8, <3>1, <3>2, <3>3 DEF Lifecycle
    <3>4. CASE l = "blocked"
      BY <2>1, <2>7, <2>8, <3>1, <3>2, <3>4 DEF Lifecycle
    <3>5. CASE l = "active"
      BY <2>1, <2>7, <2>8, <3>1, <3>2, <3>5 DEF Lifecycle
    <3> QED
      BY <2>7, <3>3, <3>4, <3>5
  <2> QED
    BY <2>8, <2>10, <2>11, <2>12 DEF t
<1> QED
  BY <1>1, <1>2

\* The state of a missing or an empty file is consistent, and knows no epic.
LEMMA EmptyStateIsConsistent ==
  /\ EmptyState \in BacklogState
  /\ Consistent(EmptyState)
  /\ \A f \in Names : Lifecycle(EmptyState, f) = "new"
<1>1. "active" \in Lists /\ "reviewed" \in Lists /\ "completed" \in Lists
      /\ "blocked" \in Lists /\ "skipped" \in Lists
  BY DEF Lists
<1>2. \A l \in Lists : EmptyState.records[l] = {}
  BY DEF EmptyState
<1>3. EmptyState.active_epic = NoEpic /\ EmptyState.completed_epics = {}
      /\ EmptyState.blocked_epics = {}
  BY DEF EmptyState
<1>4. EmptyState \in BacklogState
  BY DEF EmptyState, BacklogState
<1>5. Consistent(EmptyState)
  BY <1>2, <1>3 DEF Consistent
<1>6. \A f \in Names : Lifecycle(EmptyState, f) = "new"
  BY <1>1, <1>2, <1>3 DEF Lifecycle
<1> QED
  BY <1>4, <1>5, <1>6

\* An active epic is in neither list of ids.
LEMMA ActiveHasNoId ==
  ASSUME NEW s \in BacklogState, NEW e \in Names, Lifecycle(s, e) = "active"
  PROVE  e \notin s.completed_epics /\ e \notin s.blocked_epics
BY DEF Lifecycle

LEMMA LifecycleType ==
  ASSUME NEW s, NEW e
  PROVE  Lifecycle(s, e) \in Lists \cup {"new"}
BY DEF Lifecycle, Lists

(***************************************************************************)
(* Type correctness and the consistency of the state file                  *)
(***************************************************************************)

\* A cycle that has a release, or will have one, is about an epic.
EpicInv ==
  /\ pc \in {"activated", "running", "returned"} => epic \in Epics
  /\ pc \in {"refresh", "deciding"} /\ result.kind # "no_actionable" => epic \in Epics

Inv == TypeOK /\ StoreInv /\ RunningIsActive /\ EpicInv

LEMMA EpicsAreNames ==
  /\ Epics \subseteq Names
  /\ Placeholder \in Names /\ Placeholder \notin Epics
  /\ NoEpic \notin Names
  /\ ReleaseOf \in [Epics -> Names]
BY GovernorAssumption, StateStoreAssumption

LEMMA ResultFacts ==
  /\ Outcomes \subseteq Results
  /\ NoRelease("no_actionable") \in Results
  /\ NoRelease("no_actionable").kind = "no_actionable"
  /\ \A r \in Outcomes : r.kind \in {"release", "planning_only"}
  /\ \A r \in Results : RefreshState(r) \in Lists
<1>1. Outcomes \subseteq Results /\ NoRelease("no_actionable") \in Results
  BY DEF Results
<1>2. NoRelease("no_actionable").kind = "no_actionable"
  BY DEF NoRelease
<1>3. \A r \in Outcomes : r.kind \in {"release", "planning_only"}
  BY DEF Outcomes, Releases, NoRelease
<1>4. \A r \in Results : RefreshState(r) \in Lists
  BY DEF RefreshState, Lists
<1> QED
  BY <1>1, <1>2, <1>3, <1>4

\* The histories a project may start with are states of the store.
LEMMA HistoryIsState ==
  ASSUME NEW c \in SUBSET Epics, NEW b \in SUBSET Epics, NEW cr \in SUBSET Epics
  PROVE  History(c, b, cr) \in BacklogState
<1> DEFINE r == [EmptyState.records EXCEPT !["completed"] = cr, !["blocked"] = b]
<1>1. EmptyState \in BacklogState
  BY EmptyStateIsConsistent
<1>2. r \in [Lists -> SUBSET Names]
  BY <1>1, EpicsAreNames DEF BacklogState
<1>3. History(c, b, cr) =
        [EmptyState EXCEPT !.completed_epics = c, !.blocked_epics = b, !.records = r]
  BY DEF History
<1> HIDE DEF r
<1>4. [EmptyState EXCEPT !.completed_epics = c, !.blocked_epics = b, !.records = r]
        \in BacklogState
  BY <1>1, <1>2, EpicsAreNames DEF BacklogState
<1> QED
  BY <1>3, <1>4

LEMMA InvInit == Init => Inv
<1> SUFFICES ASSUME Init PROVE Inv
  OBVIOUS
<1>1. store \in BacklogState /\ Consistent(store)
  BY EmptyStateIsConsistent, HistoryIsState DEF Init, InitialStore
<1>2. TypeOK
  <2>1. result \in Results
    BY ResultFacts DEF Init
  <2>2. cycle \in 1..EpicCount /\ runs \in 0..MaxRuns
    BY GovernorAssumption DEF Init
  <2> QED
    BY <1>1, <2>1, <2>2 DEF Init, TypeOK, StopReasons
<1>3. RunningIsActive /\ EpicInv
  BY DEF Init, RunningIsActive, EpicInv, NoRelease
<1> QED
  BY <1>1, <1>2, <1>3 DEF Inv, StoreInv

\* What the store becomes when a move of the epic is saved.
LEMMA SaveMove ==
  ASSUME NEW s \in BacklogState, Consistent(s), NEW t, NEW u, NEW e \in Names, NEW l,
         Moves(s, t, e, l), u = IF HasStore THEN t ELSE s
  PROVE  u \in BacklogState /\ Consistent(u)
BY DEF Moves

\* The mark at the end of run_one_epic moves the running epic.
LEMMA MarkMoves ==
  ASSUME NEW s \in BacklogState, Consistent(s), NEW e \in Names, Lifecycle(s, e) = "active",
         NEW r
  PROVE  \E l \in {"completed", "blocked", "reviewed"} : Moves(s, Mark(s, e, r), e, l)
<1>1. e \notin s.completed_epics /\ e \notin s.blocked_epics
  BY ActiveHasNoId
<1>2. Moves(s, MarkBlocked(s, e), e, "blocked")
  BY MarkBlockedMoves
<1>3. Moves(s, MarkCompleted(s, e), e, "completed")
  BY MarkCompletedMoves
<1>4. Moves(s, MarkReviewed(s, e), e, "reviewed")
  BY <1>1, MarkReviewedMoves
<1> QED
  BY <1>2, <1>3, <1>4 DEF Mark

LEMMA InvSelectEpic == Inv /\ SelectEpic => Inv'
<1> SUFFICES ASSUME Inv, SelectEpic PROVE Inv'
  OBVIOUS
<1> USE EpicsAreNames, ResultFacts DEF Inv, StoreInv
<1>1. store \in BacklogState /\ Consistent(store)
  BY DEF TypeOK
<1>2. CASE epic' = Placeholder /\ result' = NoRelease("no_actionable") /\ pc' = "refresh"
           /\ UNCHANGED store
  BY <1>1, <1>2 DEF TypeOK, SelectEpic, RunningIsActive, EpicInv
<1>3. CASE \E e \in Epics :
             /\ epic' = e
             /\ Save(MarkSkipped(store, e))
             /\ result' = NoRelease("no_actionable")
             /\ pc' = "refresh"
  <2>1. PICK e \in Epics : /\ epic' = e
                           /\ Save(MarkSkipped(store, e))
                           /\ result' = NoRelease("no_actionable")
                           /\ pc' = "refresh"
    BY <1>3
  <2>2. Moves(store, MarkSkipped(store, e), e, "skipped")
    BY <1>1, MarkSkippedMoves
  <2>3. store' \in BacklogState /\ Consistent(store')
    BY <1>1, <2>1, <2>2, SaveMove DEF Save
  <2> QED
    BY <2>1, <2>3 DEF TypeOK, SelectEpic, RunningIsActive, EpicInv
<1>4. CASE \E e \in Epics :
             /\ epic' = e
             /\ Save(MarkActive(store, e))
             /\ pc' = "activated"
             /\ UNCHANGED result
  <2>1. PICK e \in Epics : /\ epic' = e
                           /\ Save(MarkActive(store, e))
                           /\ pc' = "activated"
                           /\ UNCHANGED result
    BY <1>4
  <2>2. Moves(store, MarkActive(store, e), e, "active") /\ MarkActive(store, e).active_epic = e
    BY <1>1, MarkActiveMoves
  <2>3. store' \in BacklogState /\ Consistent(store')
    BY <1>1, <2>1, <2>2, SaveMove DEF Save
  <2>4. HasStore => store'.active_epic = e /\ Lifecycle(store', e) = "active"
    BY <2>1, <2>2 DEF Save, Moves
  <2> QED
    BY <2>1, <2>3, <2>4 DEF TypeOK, SelectEpic, RunningIsActive, EpicInv
<1> QED
  BY <1>2, <1>3, <1>4 DEF SelectEpic

LEMMA InvFinishObjective == Inv /\ FinishObjective => Inv'
<1> SUFFICES ASSUME Inv, FinishObjective PROVE Inv'
  OBVIOUS
<1> USE EpicsAreNames, ResultFacts DEF Inv, StoreInv
<1>1. store \in BacklogState /\ Consistent(store) /\ epic \in Epics
  BY DEF TypeOK, EpicInv, FinishObjective
<1>2. ReleaseOf[epic] \in Names
  BY <1>1
<1>3. /\ store' \in BacklogState /\ Consistent(store')
      /\ store'.active_epic = store.active_epic
      /\ Lifecycle(store', epic) = Lifecycle(store, epic) \/ Lifecycle(store, epic) = "new"
  BY <1>1, <1>2, GetOrCreateKeeps DEF FinishObjective, Save
<1>4. RunningIsActive'
  BY <1>3 DEF FinishObjective, RunningIsActive
<1>5. TypeOK' /\ EpicInv'
  BY <1>1, <1>3 DEF TypeOK, FinishObjective, EpicInv
<1> QED
  BY <1>3, <1>4, <1>5

LEMMA InvMarkOutcome == Inv /\ MarkOutcome => Inv'
<1> SUFFICES ASSUME Inv, MarkOutcome PROVE Inv'
  OBVIOUS
<1> USE EpicsAreNames DEF Inv, StoreInv
<1>1. store \in BacklogState /\ Consistent(store) /\ epic \in Epics
  BY DEF TypeOK, EpicInv, MarkOutcome
<1>2. store' \in BacklogState /\ Consistent(store')
  <2>1. CASE HasStore
    <3>1. Lifecycle(store, epic) = "active"
      BY <2>1 DEF RunningIsActive, MarkOutcome
    <3>2. \E l \in {"completed", "blocked", "reviewed"} :
            Moves(store, Mark(store, epic, result), epic, l)
      BY <1>1, <3>1, MarkMoves
    <3> QED
      BY <1>1, <3>2, SaveMove DEF MarkOutcome, Save
  <2>2. CASE ~HasStore
    BY <1>1, <2>2 DEF MarkOutcome, Save
  <2> QED
    BY <2>1, <2>2
<1> QED
  BY <1>1, <1>2 DEF TypeOK, MarkOutcome, EpicInv, RunningIsActive

LEMMA InvPostCycleRefresh == Inv /\ PostCycleRefresh => Inv'
<1> SUFFICES ASSUME Inv, PostCycleRefresh PROVE Inv'
  OBVIOUS
<1> USE EpicsAreNames DEF Inv, StoreInv
<1>1. store \in BacklogState /\ Consistent(store) /\ epic \in Names /\ result \in Results
  BY DEF TypeOK
<1>2. RefreshState(result) \in Lists
  BY <1>1, ResultFacts
<1>3. Moves(store, ApplyRefresh(store, epic, RefreshState(result)), epic, RefreshState(result))
  BY <1>1, <1>2, ApplyRefreshMoves
<1>4. store' \in BacklogState /\ Consistent(store')
  BY <1>1, <1>3, SaveMove DEF PostCycleRefresh, Save
<1> QED
  BY <1>4 DEF TypeOK, PostCycleRefresh, EpicInv, RunningIsActive

LEMMA InvStopAfterCycle == Inv /\ StopAfterCycle => Inv'
<1> SUFFICES ASSUME Inv, StopAfterCycle PROVE Inv'
  OBVIOUS
<1> USE EpicsAreNames DEF Inv, StoreInv
<1>1. store \in BacklogState /\ Consistent(store) /\ epic \in Names
  BY DEF TypeOK
<1>2. Moves(store, MarkSkipped(store, epic), epic, "skipped")
  BY <1>1, MarkSkippedMoves
<1>3. store' \in BacklogState /\ Consistent(store')
  BY <1>1, <1>2, SaveMove DEF StopAfterCycle, Save
<1>4. seen' \subseteq Epics
  <2>1. CASE StopReason \in {"no_actionable_work", "repeated_epic_selected"}
    BY <2>1 DEF StopAfterCycle, TypeOK
  <2>2. CASE StopReason \notin {"no_actionable_work", "repeated_epic_selected"}
    <3>1. result.kind # "no_actionable"
      BY <2>2 DEF StopReason
    <3>2. epic \in Epics
      BY <3>1 DEF EpicInv, StopAfterCycle
    <3> QED
      BY <2>2, <3>2 DEF StopAfterCycle, TypeOK
  <2> QED
    BY <2>1, <2>2
<1>5. StopReason \in StopReasons
  BY DEF StopReason, StopReasons
<1> QED
  BY <1>3, <1>4, <1>5 DEF TypeOK, StopAfterCycle, EndRun, EpicInv, RunningIsActive

LEMMA InvNextCycle == Inv /\ NextCycle => Inv'
<1> SUFFICES ASSUME Inv, NextCycle PROVE Inv'
  OBVIOUS
<1> USE DEF Inv, StoreInv
<1>1. result.kind # "no_actionable" /\ cycle # EpicCount
  BY DEF NextCycle, StopReason
<1>2. epic \in Epics
  BY <1>1 DEF EpicInv, NextCycle
<1>3. cycle' \in 1..EpicCount
  BY <1>1, GovernorAssumption DEF TypeOK, NextCycle
<1> QED
  BY <1>2, <1>3 DEF TypeOK, NextCycle, EpicInv, RunningIsActive

LEMMA InvStep == Inv /\ [Next]_vars => Inv'
<1> SUFFICES ASSUME Inv, [Next]_vars PROVE Inv'
  OBVIOUS
<1>1. CASE StartRun
  <2>1. 1 \in 1..EpicCount /\ runs' \in 0..MaxRuns
    BY <1>1, GovernorAssumption DEF StartRun, Inv, TypeOK
  <2>2. attempts' \in [Epics -> Nat]
    BY <1>1 DEF StartRun
  <2> QED
    BY <1>1, <2>1, <2>2
    DEF StartRun, Inv, TypeOK, StoreInv, EpicInv, RunningIsActive, StopReasons
<1>2. CASE SelectEpic
  BY <1>2, InvSelectEpic
<1>3. CASE BeginObjective
  <2>0. attempts \in [Epics -> Nat] /\ epic \in Epics
    BY <1>3 DEF BeginObjective, Inv, TypeOK, EpicInv
  <2>1. attempts' \in [Epics -> Nat]
    BY <1>3, <2>0 DEF BeginObjective
  <2>2. executed' \subseteq Epics
    BY <1>3 DEF BeginObjective, Inv, TypeOK, EpicInv
  <2> QED
    BY <1>3, <2>1, <2>2 DEF BeginObjective, Inv, TypeOK, StoreInv, EpicInv, RunningIsActive
<1>4. CASE FinishObjective
  BY <1>4, InvFinishObjective
<1>5. CASE MarkOutcome
  BY <1>5, InvMarkOutcome
<1>6. CASE PostCycleRefresh
  BY <1>6, InvPostCycleRefresh
<1>7. CASE StopAfterCycle
  BY <1>7, InvStopAfterCycle
<1>8. CASE NextCycle
  BY <1>8, InvNextCycle
<1>9. CASE RefreshFails
  BY <1>9 DEF RefreshFails, EndRun, Inv, TypeOK, StoreInv, EpicInv, RunningIsActive, StopReasons
<1>10. CASE Abort
  BY <1>10 DEF Abort, EndRun, Inv, TypeOK, StoreInv, EpicInv, RunningIsActive, StopReasons
<1>11. CASE TornSave
  <2>1. store' \in BacklogState /\ Consistent(store')
    BY <1>11, EmptyStateIsConsistent DEF TornSave
  <2> QED
    BY <1>11, <2>1 DEF TornSave, EndRun, Inv, TypeOK, StoreInv, EpicInv, RunningIsActive, StopReasons
<1>12. CASE UNCHANGED vars
  <2>1. UNCHANGED <<pc, store, epic, result>>
    BY <1>12 DEF vars
  <2>2. UNCHANGED <<cycle, request, seen, stop, runs, executed, attempts>>
    BY <1>12 DEF vars
  <2> QED
    BY <2>1, <2>2 DEF Inv, TypeOK, StoreInv, EpicInv, RunningIsActive
<1> QED
  BY <1>1, <1>2, <1>3, <1>4, <1>5, <1>6, <1>7, <1>8, <1>9, <1>10, <1>11, <1>12 DEF Next, Step

LEMMA InvAlways == Spec => []Inv
BY InvInit, InvStep, PTL DEF Spec

\* The state of the loop and of the file is always well formed (governor.py,
\* state_store.py).
THEOREM GovernorType == Spec => []TypeOK
<1>1. Inv => TypeOK
  BY DEF Inv
<1> QED
  BY <1>1, InvAlways, PTL

\* The lists and ids of the state file never contradict each other, even after
\* kills between saves, torn saves and follow-up memory (state_store.py:236-555).
THEOREM StoreConsistent == Spec => []StoreInv
<1>1. Inv => StoreInv
  BY DEF Inv
<1> QED
  BY <1>1, InvAlways, PTL

\* The file calls the epic of a running cycle active, whatever the objective run
\* added to it (governor.py:403-468).
THEOREM RunningEpicIsActive == Spec => []RunningIsActive
<1>1. Inv => RunningIsActive
  BY DEF Inv
<1> QED
  BY <1>1, InvAlways, PTL

(***************************************************************************)
(* What a step does to the lifecycle of the epics                          *)
(***************************************************************************)

\* Every epic stays where it is.
Unmoved == \A f \in Epics : Lifecycle(store', f) = Lifecycle(store, f)

\* Epic e goes to l, the others stay where they are.
Moved(e, l) ==
  /\ Lifecycle(store', e) = l
  /\ \A f \in Epics : f # e => Lifecycle(store', f) = Lifecycle(store, f)

LEMMA MovedBySave ==
  ASSUME Inv, HasStore, NEW t, NEW e \in Names, NEW l, Moves(store, t, e, l), Save(t)
  PROVE  Moved(e, l)
BY EpicsAreNames DEF Save, Moves, Moved

\* What each action does to the lifecycle of the epics.
LEMMA StepEffects ==
  ASSUME Inv, HasStore, [Next]_vars
  PROVE  /\ SelectEpic =>
              \/ /\ Unmoved /\ epic' = Placeholder
                 /\ pc' = "refresh" /\ result'.kind = "no_actionable"
              \/ /\ Moved(epic', "skipped") /\ epic' \in Epics
                 /\ pc' = "refresh" /\ result'.kind = "no_actionable"
              \/ /\ Moved(epic', "active") /\ epic' \in Epics /\ pc' = "activated"
                 /\ Lifecycle(store, epic') = "new" \/ Explicit = epic'
         /\ FinishObjective =>
              \/ Unmoved
              \/ /\ Moved(ReleaseOf[epic], "active")
                 /\ Lifecycle(store, ReleaseOf[epic]) = "new"
         /\ MarkOutcome =>
              /\ Lifecycle(store, epic) = "active"
              /\ \E l \in {"completed", "blocked", "reviewed"} : Moved(epic, l)
         /\ PostCycleRefresh => Moved(epic, RefreshState(result))
         /\ StopAfterCycle => Unmoved \/ Moved(epic, "skipped")
         /\ StartRun \/ BeginObjective \/ NextCycle \/ RefreshFails \/ Abort \/ UNCHANGED vars =>
              Unmoved
<1> USE EpicsAreNames, ResultFacts
<1>1. store \in BacklogState /\ Consistent(store) /\ epic \in Names /\ result \in Results
  BY DEF Inv, TypeOK, StoreInv
<1>2. ASSUME SelectEpic
      PROVE  \/ /\ Unmoved /\ epic' = Placeholder
                /\ pc' = "refresh" /\ result'.kind = "no_actionable"
             \/ /\ Moved(epic', "skipped") /\ epic' \in Epics
                /\ pc' = "refresh" /\ result'.kind = "no_actionable"
             \/ /\ Moved(epic', "active") /\ epic' \in Epics /\ pc' = "activated"
                /\ Lifecycle(store, epic') = "new" \/ Explicit = epic'
  <2>1. CASE epic' = Placeholder /\ result' = NoRelease("no_actionable") /\ pc' = "refresh"
             /\ UNCHANGED store
    BY <2>1 DEF Unmoved
  <2>2. CASE \E e \in Epics :
               /\ epic' = e
               /\ Save(MarkSkipped(store, e))
               /\ result' = NoRelease("no_actionable")
               /\ pc' = "refresh"
    <3>1. PICK e \in Epics : /\ epic' = e
                             /\ Save(MarkSkipped(store, e))
                             /\ result' = NoRelease("no_actionable")
                             /\ pc' = "refresh"
      BY <2>2
    <3>2. Moves(store, MarkSkipped(store, e), e, "skipped")
      BY <1>1, MarkSkippedMoves
    <3>3. Moved(e, "skipped")
      BY <3>1, <3>2, MovedBySave
    <3> QED
      BY <3>1, <3>3
  <2>3. CASE \E e \in Epics :
               /\ Explicit \in {NoEpic, e}
               /\ epic' = e
               /\ ~NoActionableReason(e)
               /\ Save(MarkActive(store, e))
               /\ pc' = "activated"
    <3>1. PICK e \in Epics : /\ Explicit \in {NoEpic, e}
                             /\ epic' = e
                             /\ ~NoActionableReason(e)
                             /\ Save(MarkActive(store, e))
                             /\ pc' = "activated"
      BY <2>3
    <3>2. Moves(store, MarkActive(store, e), e, "active")
      BY <1>1, MarkActiveMoves
    <3>3. Moved(e, "active")
      BY <3>1, <3>2, MovedBySave
    <3>4. Lifecycle(store, e) = "new" \/ Explicit = e
      BY <3>1 DEF NoActionableReason
    <3> QED
      BY <3>1, <3>3, <3>4
  <2> QED
    BY <1>2, <2>1, <2>2, <2>3 DEF SelectEpic
<1>3. ASSUME FinishObjective
      PROVE  \/ Unmoved
             \/ /\ Moved(ReleaseOf[epic], "active")
                /\ Lifecycle(store, ReleaseOf[epic]) = "new"
  <2>1. epic \in Epics
    BY <1>3 DEF FinishObjective, Inv, EpicInv
  <2>2. ReleaseOf[epic] \in Names
    BY <2>1
  <2>3. CASE UNCHANGED store
    BY <2>3 DEF Unmoved
  <2>4. CASE store' = GetOrCreate(store, ReleaseOf[epic])
    <3>1. \A f \in Names : \/ Lifecycle(store', f) = Lifecycle(store, f)
                           \/ /\ f = ReleaseOf[epic]
                              /\ Lifecycle(store, f) = "new"
                              /\ Lifecycle(store', f) = "active"
      BY <1>1, <2>2, <2>4, GetOrCreateKeeps
    <3> QED
      BY <2>2, <3>1 DEF Unmoved, Moved
  <2> QED
    BY <1>3, <2>3, <2>4 DEF FinishObjective, Save
<1>4. ASSUME MarkOutcome
      PROVE  /\ Lifecycle(store, epic) = "active"
             /\ \E l \in {"completed", "blocked", "reviewed"} : Moved(epic, l)
  <2>1. Lifecycle(store, epic) = "active" /\ Save(Mark(store, epic, result))
    BY <1>4 DEF MarkOutcome, Inv, RunningIsActive
  <2>2. PICK l \in {"completed", "blocked", "reviewed"} :
          Moves(store, Mark(store, epic, result), epic, l)
    BY <1>1, <2>1, MarkMoves
  <2>3. Moved(epic, l)
    BY <1>1, <2>1, <2>2, MovedBySave
  <2> QED
    BY <2>1, <2>3
<1>5. ASSUME PostCycleRefresh
      PROVE  Moved(epic, RefreshState(result))
  <2>1. RefreshState(result) \in Lists
    BY <1>1
  <2>2. Moves(store, ApplyRefresh(store, epic, RefreshState(result)), epic, RefreshState(result))
    BY <1>1, <2>1, ApplyRefreshMoves
  <2>3. Save(ApplyRefresh(store, epic, RefreshState(result)))
    BY <1>5 DEF PostCycleRefresh
  <2> QED
    BY <1>1, <2>2, <2>3, MovedBySave
<1>6. ASSUME StopAfterCycle
      PROVE  Unmoved \/ Moved(epic, "skipped")
  <2>1. Moves(store, MarkSkipped(store, epic), epic, "skipped")
    BY <1>1, MarkSkippedMoves
  <2>2. CASE UNCHANGED store
    BY <2>2 DEF Unmoved
  <2>3. CASE Save(MarkSkipped(store, epic))
    BY <1>1, <2>1, <2>3, MovedBySave
  <2> QED
    BY <1>6, <2>2, <2>3 DEF StopAfterCycle
<1>7. StartRun \/ BeginObjective \/ NextCycle \/ RefreshFails \/ Abort \/ UNCHANGED vars => Unmoved
  BY DEF StartRun, BeginObjective, NextCycle, RefreshFails, Abort, vars, Unmoved
<1> QED
  BY <1>2, <1>3, <1>4, <1>5, <1>6, <1>7

(***************************************************************************)
(* No epic is silently run again                                           *)
(***************************************************************************)

\* In a lost file every epic is new.
LEMMA NothingIsNew == \A e : Lifecycle(EmptyState, e) = "new"
BY DEF Lifecycle, EmptyState, Lists

\* The file knows every epic that was handed over, and an epic is about to be
\* handed over again only on request.
RerunInv ==
  /\ \A e \in executed : Lifecycle(store, e) # "new"
  /\ pc = "activated" /\ epic \in executed => Explicit = epic

LEMMA RerunStep ==
  ASSUME Inv, HasStore, RerunInv, [Next]_vars
  PROVE  RerunInv'
<1>1. executed \subseteq Epics
  BY DEF Inv, TypeOK
<1>2. ASSUME NEW e, NEW l, Moved(e, l), l # "new", executed' = executed
      PROVE  \A f \in executed' : Lifecycle(store', f) # "new"
  BY <1>1, <1>2 DEF Moved, RerunInv
<1>3. ASSUME Unmoved, executed' = executed
      PROVE  \A f \in executed' : Lifecycle(store', f) # "new"
  BY <1>1, <1>3 DEF Unmoved, RerunInv
<1>4. CASE SelectEpic
  <2>1. executed' = executed /\ Explicit' = Explicit
    BY <1>4 DEF SelectEpic, Explicit
  <2>2. CASE Unmoved /\ pc' = "refresh"
    BY <1>3, <2>1, <2>2 DEF RerunInv
  <2>3. CASE Moved(epic', "skipped") /\ pc' = "refresh"
    BY <1>2, <2>1, <2>3 DEF RerunInv
  <2>4. CASE Moved(epic', "active") /\ (Lifecycle(store, epic') = "new" \/ Explicit = epic')
    <3>1. \A f \in executed' : Lifecycle(store', f) # "new"
      BY <1>2, <2>1, <2>4
    <3>2. epic' \in executed' => Explicit' = epic'
      BY <2>1, <2>4 DEF RerunInv
    <3> QED
      BY <3>1, <3>2 DEF RerunInv
  <2> QED
    BY <1>4, <2>2, <2>3, <2>4, StepEffects
<1>5. CASE BeginObjective
  <2>1. Lifecycle(store, epic) = "active" /\ pc' = "running" /\ executed' = executed \cup {epic}
    BY <1>5 DEF BeginObjective, Inv, RunningIsActive
  <2> QED
    BY <1>5, <2>1 DEF BeginObjective, RerunInv
<1>6. CASE FinishObjective
  BY <1>2, <1>3, <1>6, StepEffects DEF FinishObjective, RerunInv
<1>7. CASE MarkOutcome
  <2>1. PICK l \in {"completed", "blocked", "reviewed"} : Moved(epic, l)
    BY <1>7, StepEffects
  <2> QED
    BY <1>2, <1>7, <2>1 DEF MarkOutcome, RerunInv
<1>8. CASE PostCycleRefresh
  <2>1. RefreshState(result) # "new"
    BY DEF RefreshState
  <2> QED
    BY <1>2, <1>8, <2>1, StepEffects DEF PostCycleRefresh, RerunInv
<1>9. CASE StopAfterCycle
  BY <1>2, <1>3, <1>9, StepEffects DEF StopAfterCycle, EndRun, RerunInv
<1>10. CASE StartRun \/ NextCycle \/ RefreshFails \/ Abort
  BY <1>3, <1>10, StepEffects DEF StartRun, NextCycle, RefreshFails, Abort, EndRun, RerunInv
<1>11. CASE UNCHANGED vars
  BY <1>11 DEF vars, RerunInv, Explicit
<1>12. CASE TornSave
  BY <1>12 DEF TornSave, EndRun, RerunInv
<1> QED
  BY <1>4, <1>5, <1>6, <1>7, <1>8, <1>9, <1>10, <1>11, <1>12 DEF Next, Step

LEMMA RerunInvAlways == Spec => [](HasStore => RerunInv)
<1>1. Init => RerunInv
  BY DEF Init, RerunInv
<1>2. Inv /\ (HasStore => RerunInv) /\ [Next]_vars => (HasStore => RerunInv)'
  BY RerunStep
<1> QED
  BY <1>1, <1>2, InvAlways, PTL DEF Spec

\* No sequence of runs, kills and exceptions makes the governor hand over an epic
\* a second time on its own, unless the file was lost (governor.py:668-689).
THEOREM NoEpicIsRerunSilently ==
  ASSUME HasStore
  PROVE  Spec => NoSilentRerun
<1>1. (HasStore => RerunInv) /\ [Next]_vars =>
        [pc = "activated" /\ pc' = "running" => epic \notin executed \/ Explicit = epic]_vars
  BY DEF RerunInv
<1> QED
  BY <1>1, RerunInvAlways, PTL DEF Spec, NoSilentRerun

(***************************************************************************)
(* The loop implements the lifecycle                                       *)
(***************************************************************************)

LEMMA LifecycleInit == Init => Lifecycles!Init
<1> SUFFICES ASSUME Init PROVE Lifecycles!Init
  OBVIOUS
<1>1. \A e \in Epics : Lifecycle(store, e) \in Lists \cup {"new"}
  BY LifecycleType
<1>2. Explicit = NoEpic
  BY DEF Init, Explicit
<1> QED
  BY <1>1, <1>2 DEF Lifecycles!Init, Lifecycles!Statuses, Lifecycles!Settled, Lists

\* Where run_one_epic leaves the epic.
MarkedState(r) == IF r.kind = "planning_only" THEN "reviewed" ELSE RefreshState(r)

\* Between the mark and the refresh the file holds what the mark made of it.
RefreshInv ==
  HasStore /\ pc = "refresh" =>
    IF result.kind = "no_actionable"
    THEN epic = Placeholder \/ Lifecycle(store, epic) = "skipped"
    ELSE Lifecycle(store, epic) = MarkedState(result)

\* The mark and the refresh derive the same state from the same result.
LEMMA MarkMovesTo ==
  ASSUME NEW s \in BacklogState, Consistent(s), NEW e \in Names, Lifecycle(s, e) = "active",
         NEW r \in Outcomes
  PROVE  Moves(s, Mark(s, e, r), e, MarkedState(r))
<1>1. e \notin s.completed_epics /\ e \notin s.blocked_epics
  BY ActiveHasNoId
<1>2. /\ Moves(s, MarkBlocked(s, e), e, "blocked")
      /\ Moves(s, MarkCompleted(s, e), e, "completed")
      /\ Moves(s, MarkReviewed(s, e), e, "reviewed")
  BY <1>1, MarkBlockedMoves, MarkCompletedMoves, MarkReviewedMoves
<1>3. CASE r \in Releases
  <2>1. r.kind = "release" /\ r.decision \in Decisions
    BY <1>3 DEF Releases
  <2> QED
    BY <1>2, <2>1 DEF Mark, MarkedState, RefreshState, Accepted, Decisions
<1>4. CASE r = NoRelease("planning_only")
  <2>1. r.kind = "planning_only" /\ ~Accepted(r) /\ ~BlockedFinalization(r)
    BY <1>4 DEF NoRelease, Accepted, BlockedFinalization
  <2> QED
    BY <1>2, <2>1 DEF Mark, MarkedState
<1> QED
  BY <1>3, <1>4 DEF Outcomes

\* What run_objective returned is an outcome.
OutcomeInv == pc = "returned" => result \in Outcomes

LEMMA RefreshInvStep ==
  ASSUME Inv, OutcomeInv, RefreshInv, [Next]_vars
  PROVE  OutcomeInv' /\ RefreshInv'
<1>1. OutcomeInv'
  BY DEF OutcomeInv, Next, Step, StartRun, SelectEpic, BeginObjective, FinishObjective,
         MarkOutcome, PostCycleRefresh, StopAfterCycle, NextCycle, RefreshFails, Abort,
         TornSave, EndRun, vars
<1>2. ASSUME HasStore
      PROVE  RefreshInv'
  <2>1. CASE SelectEpic
    <3>1. CASE epic' = Placeholder /\ pc' = "refresh" /\ result'.kind = "no_actionable"
      BY <3>1 DEF RefreshInv
    <3>2. CASE Moved(epic', "skipped") /\ pc' = "refresh" /\ result'.kind = "no_actionable"
      BY <3>2 DEF RefreshInv, Moved
    <3>3. CASE pc' = "activated"
      BY <3>3 DEF RefreshInv
    <3> QED
      BY <1>2, <2>1, <3>1, <3>2, <3>3, StepEffects
  <2>2. CASE MarkOutcome
    <3>1. /\ store \in BacklogState /\ Consistent(store) /\ epic \in Names
          /\ result \in Outcomes /\ UNCHANGED <<epic, result>>
      BY <2>2, EpicsAreNames DEF Inv, TypeOK, StoreInv, OutcomeInv, MarkOutcome
    <3>2. Lifecycle(store, epic) = "active" /\ Save(Mark(store, epic, result))
      BY <1>2, <2>2 DEF MarkOutcome, Inv, RunningIsActive
    <3>3. Moves(store, Mark(store, epic, result), epic, MarkedState(result))
      BY <3>1, <3>2, MarkMovesTo
    <3>4. Moved(epic, MarkedState(result))
      BY <1>2, <3>1, <3>2, <3>3, MovedBySave
    <3>5. result.kind # "no_actionable"
      BY <3>1, ResultFacts
    <3>6. MarkedState(result') = MarkedState(result)
      BY <3>1
    <3> QED
      BY <3>1, <3>4, <3>5, <3>6 DEF RefreshInv, Moved
  <2>3. CASE UNCHANGED vars
    BY <2>3 DEF vars, RefreshInv, MarkedState, RefreshState, BlockedFinalization, Accepted
  <2>4. CASE \/ StartRun \/ BeginObjective \/ FinishObjective \/ PostCycleRefresh
             \/ StopAfterCycle \/ NextCycle \/ RefreshFails \/ Abort \/ TornSave
    <3>1. pc' # "refresh"
      BY <2>4 DEF StartRun, BeginObjective, FinishObjective, PostCycleRefresh,
             StopAfterCycle, NextCycle, RefreshFails, Abort, TornSave, EndRun
    <3> QED
      BY <3>1 DEF RefreshInv
  <2> QED
    BY <2>1, <2>2, <2>3, <2>4 DEF Next, Step
<1>3. ASSUME ~HasStore
      PROVE  RefreshInv'
  BY <1>3 DEF RefreshInv
<1> QED
  BY <1>1, <1>2, <1>3

LEMMA RefreshInvAlways == Spec => [](OutcomeInv /\ RefreshInv)
<1>1. Init => OutcomeInv /\ RefreshInv
  BY DEF Init, OutcomeInv, RefreshInv
<1>2. Inv /\ OutcomeInv /\ RefreshInv /\ [Next]_vars => OutcomeInv' /\ RefreshInv'
  BY RefreshInvStep
<1> QED
  BY <1>1, <1>2, InvAlways, PTL DEF Spec

\* Where no strategy is planning-only, the refresh never moves an epic: the two
\* places that derive its state from the result agree (governor.py:221-228,
\* 452-468).
THEOREM RefreshAgreesWithMark ==
  ASSUME PlanningOnly = FALSE
  PROVE  Spec => RefreshConfirmsMark
<1>1. ASSUME Inv, RefreshInv, [Next]_vars
      PROVE  [pc = "refresh" /\ pc' = "deciding" /\ HasStore =>
                epic = Placeholder \/ Lifecycle(store', epic) = Lifecycle(store, epic)]_vars
  <2> SUFFICES ASSUME pc = "refresh", pc' = "deciding", HasStore, epic # Placeholder
               PROVE  Lifecycle(store', epic) = Lifecycle(store, epic)
    OBVIOUS
  <2>1. PostCycleRefresh
    BY <1>1 DEF Next, Step, StartRun, SelectEpic, BeginObjective, FinishObjective,
           MarkOutcome, StopAfterCycle, NextCycle, RefreshFails, Abort, TornSave, EndRun, vars
  <2>2. Lifecycle(store', epic) = RefreshState(result)
    BY <1>1, <2>1, StepEffects DEF Moved
  <2>3. result \in Results /\ result.kind # "planning_only"
    BY <1>1 DEF Inv, TypeOK, Results, Outcomes, Releases, NoRelease
  <2> QED
    BY <1>1, <2>2, <2>3 DEF RefreshInv, MarkedState, RefreshState
<1> QED
  BY <1>1, InvAlways, RefreshInvAlways, PTL DEF Spec, RefreshConfirmsMark

LEMMA LifecycleStep ==
  ASSUME Inv, HasStore, RefreshInv, [Next]_vars
  PROVE  [Lifecycles!Next]_<<[e \in Epics |-> Lifecycle(store, e)],
                             IF Explicit = NoEpic THEN {} ELSE {Explicit}>>
<1> DEFINE st  == [e \in Epics |-> Lifecycle(store, e)]
           ask == IF Explicit = NoEpic THEN {} ELSE {Explicit}
<1>1. ASSUME NEW e \in Epics, NEW l, Moved(e, l)
      PROVE  Lifecycles!To(e, l)
  BY <1>1 DEF Moved, Lifecycles!To
<1>2. ASSUME NEW e, NEW l, Moved(e, l), e \notin Epics
      PROVE  Unmoved
  BY <1>2 DEF Moved, Unmoved
<1>3. ASSUME Unmoved
      PROVE  UNCHANGED st
  BY <1>3 DEF Unmoved
<1>4. CASE SelectEpic
  <2>1. UNCHANGED ask
    BY <1>4 DEF SelectEpic, Explicit
  <2>2. CASE Unmoved
    BY <1>3, <2>1, <2>2
  <2>3. CASE Moved(epic', "skipped") /\ epic' \in Epics
    BY <1>1, <2>1, <2>3 DEF Lifecycles!Next, Lifecycles!Skip
  <2>4. CASE /\ Moved(epic', "active") /\ epic' \in Epics
             /\ Lifecycle(store, epic') = "new" \/ Explicit = epic'
    <3>1. Lifecycles!To(epic', "active")
      BY <1>1, <2>4
    <3>2. st[epic'] = "new" \/ epic' \in ask
      BY <2>4, EpicsAreNames
    <3>3. Lifecycles!Begin(epic')
      BY <2>1, <3>1, <3>2 DEF Lifecycles!Begin
    <3> QED
      BY <2>4, <3>3 DEF Lifecycles!Next
  <2> QED
    BY <1>4, <2>2, <2>3, <2>4, StepEffects
<1>5. CASE FinishObjective
  <2>1. UNCHANGED ask
    BY <1>5 DEF FinishObjective, Explicit
  <2>2. CASE Unmoved
    BY <1>3, <2>1, <2>2
  <2>3. CASE Moved(ReleaseOf[epic], "active") /\ Lifecycle(store, ReleaseOf[epic]) = "new"
    <3>1. CASE ReleaseOf[epic] \in Epics
      BY <1>1, <2>1, <2>3, <3>1 DEF Lifecycles!Next, Lifecycles!Begin
    <3>2. CASE ReleaseOf[epic] \notin Epics
      BY <1>2, <1>3, <2>1, <2>3, <3>2
    <3> QED
      BY <3>1, <3>2
  <2> QED
    BY <1>5, <2>2, <2>3, StepEffects
<1>6. CASE MarkOutcome
  <2>1. UNCHANGED ask /\ epic \in Epics
    BY <1>6 DEF MarkOutcome, Explicit, Inv, EpicInv
  <2>2. PICK l \in {"completed", "blocked", "reviewed"} : Moved(epic, l)
    BY <1>6, StepEffects
  <2>3. Lifecycle(store, epic) = "active"
    BY <1>6, StepEffects
  <2>4. Lifecycles!To(epic, l)
    BY <1>1, <2>1, <2>2
  <2>5. Lifecycles!Settle(epic)
    BY <2>1, <2>3, <2>4 DEF Lifecycles!Settle, Lifecycles!Settled
  <2> QED
    BY <2>1, <2>5 DEF Lifecycles!Next
<1>7. CASE PostCycleRefresh
  <2>1. UNCHANGED ask /\ Moved(epic, RefreshState(result)) /\ result \in Results
    BY <1>7, StepEffects DEF PostCycleRefresh, Explicit, Inv, TypeOK
  <2>2. CASE epic \notin Epics
    BY <1>2, <1>3, <2>1, <2>2
  <2>3. CASE epic \in Epics /\ result.kind = "no_actionable"
    <3>1. RefreshState(result) = "skipped"
      BY <2>3 DEF RefreshState
    <3>2. Lifecycles!Skip(epic)
      BY <1>1, <2>1, <2>3, <3>1 DEF Lifecycles!Skip
    <3> QED
      BY <2>3, <3>2 DEF Lifecycles!Next
  <2>4. CASE epic \in Epics /\ result.kind = "planning_only"
    <3>1. result = NoRelease("planning_only")
      BY <2>1, <2>4 DEF Results, Outcomes, Releases, NoRelease
    <3>2. RefreshState(result) = "active"
      BY <3>1 DEF RefreshState, NoRelease, BlockedFinalization, Accepted
    <3>3. Lifecycle(store, epic) = "reviewed"
      BY <1>7, <2>4 DEF RefreshInv, MarkedState, PostCycleRefresh
    <3>4. Lifecycles!Reopen(epic)
      BY <1>1, <2>1, <2>4, <3>2, <3>3 DEF Lifecycles!Reopen
    <3> QED
      BY <2>4, <3>4 DEF Lifecycles!Next
  <2>5. CASE epic \in Epics /\ result.kind \notin {"no_actionable", "planning_only"}
    <3>1. Lifecycle(store, epic) = RefreshState(result)
      BY <1>7, <2>5 DEF RefreshInv, MarkedState, PostCycleRefresh
    <3>2. Unmoved
      BY <2>1, <3>1 DEF Moved, Unmoved
    <3> QED
      BY <1>3, <2>1, <3>2
  <2> QED
    BY <2>2, <2>3, <2>4, <2>5
<1>8. CASE StopAfterCycle
  <2>1. UNCHANGED ask
    BY <1>8 DEF StopAfterCycle, Explicit
  <2>2. CASE Unmoved
    BY <1>3, <2>1, <2>2
  <2>3. CASE Moved(epic, "skipped") /\ epic \in Epics
    <3>1. Lifecycles!Skip(epic)
      BY <1>1, <2>1, <2>3 DEF Lifecycles!Skip
    <3> QED
      BY <2>3, <3>1 DEF Lifecycles!Next
  <2>4. CASE Moved(epic, "skipped") /\ epic \notin Epics
    BY <1>2, <1>3, <2>1, <2>4
  <2> QED
    BY <1>8, <2>2, <2>3, <2>4, StepEffects
<1>9. CASE StartRun \/ NextCycle
  <2>1. UNCHANGED st
    BY <1>3, <1>9, StepEffects
  <2>2. Explicit' \in Epics \cup {NoEpic}
    BY <1>9 DEF StartRun, NextCycle, Explicit, Inv, TypeOK
  <2>3. ask' \in SUBSET Epics
    BY <2>2
  <2> QED
    BY <2>1, <2>3 DEF Lifecycles!Next, Lifecycles!Ask
<1>10. CASE BeginObjective \/ RefreshFails \/ Abort \/ UNCHANGED vars
  <2>1. UNCHANGED st
    BY <1>3, <1>10, StepEffects
  <2>2. UNCHANGED ask
    BY <1>10 DEF BeginObjective, RefreshFails, Abort, vars, Explicit
  <2> QED
    BY <2>1, <2>2
<1>11. CASE TornSave
  <2>1. \A e \in Epics : Lifecycle(store', e) = "new"
    BY <1>11, EpicsAreNames, NothingIsNew DEF TornSave
  <2>2. UNCHANGED ask /\ TornSaves
    BY <1>11 DEF TornSave, EndRun, Explicit
  <2> QED
    BY <2>1, <2>2 DEF Lifecycles!Next, Lifecycles!Forget
<1> QED
  BY <1>4, <1>5, <1>6, <1>7, <1>8, <1>9, <1>10, <1>11 DEF Next, Step

\* The governor and its state file keep the promise of EpicLifecycle: every step
\* is a step of the lifecycle or none of it, a torn save being its Forget.
THEOREM GovernorImplementsLifecycle ==
  ASSUME HasStore
  PROVE  Spec => ImplementsLifecycle
<1>1. Inv /\ RefreshInv /\ [Next]_vars =>
        [Lifecycles!Next]_<<[e \in Epics |-> Lifecycle(store, e)],
                           IF Explicit = NoEpic THEN {} ELSE {Explicit}>>
  BY LifecycleStep
<1> QED
  BY <1>1, LifecycleInit, InvAlways, RefreshInvAlways, PTL
  DEF Spec, ImplementsLifecycle, Lifecycles!Spec

(***************************************************************************)
(* How often an epic is handed over                                        *)
(***************************************************************************)

\* The cycle at hand has handed its epic over.
HandedOver == \/ pc \in {"running", "returned"}
              \/ pc \in {"refresh", "deciding"} /\ result.kind # "no_actionable"

\* While a run goes on, an epic was handed over only by a cycle that is over or
\* by this one.
AttemptInv ==
  /\ \A e \in Epics : attempts[e] <= 2
  /\ HasStore => \A e \in Epics : attempts[e] <= 1
  /\ pc # "idle" => \A e \in Epics :
       /\ attempts[e] > 0 => e \in executed
       /\ e \notin seen /\ (e # epic \/ ~HandedOver) => attempts[e] = 0
       /\ e # epic \/ ~HandedOver => attempts[e] <= 1
       /\ e \notin seen => attempts[e] <= 1
  /\ HasStore /\ pc = "activated" => attempts[epic] = 0
  /\ pc = "planning" /\ cycle = 1 => \A e \in Epics : attempts[e] = 0

LEMMA AttemptStep ==
  ASSUME Inv, HasStore => RerunInv, OutcomeInv, AttemptInv, [Next]_vars
  PROVE  AttemptInv'
<1>1. attempts \in [Epics -> Nat] /\ seen \subseteq Epics /\ cycle \in Nat
  BY GovernorAssumption DEF Inv, TypeOK
<1>2. CASE StartRun
  <2>1. attempts' = [e \in Epics |-> 0] /\ pc' = "planning"
    BY <1>2 DEF StartRun
  <2> QED
    BY <2>1 DEF AttemptInv
<1>3. CASE SelectEpic
  <2>1. UNCHANGED <<attempts, seen, executed>>
    BY <1>3 DEF SelectEpic
  <2>2. pc = "planning" /\ ~HandedOver
    BY <1>3 DEF SelectEpic, HandedOver
  <2>3. CASE pc' = "refresh" /\ result'.kind = "no_actionable"
    <3>1. ~HandedOver'
      BY <2>3 DEF HandedOver
    <3> QED
      BY <1>1, <2>1, <2>2, <2>3, <3>1 DEF AttemptInv
  <2>4. CASE /\ pc' = "activated" /\ epic' \in Epics
             /\ HasStore => Lifecycle(store, epic') = "new" \/ Explicit = epic'
    <3>1. ~HandedOver'
      BY <2>4 DEF HandedOver
    <3>2. HasStore => attempts[epic'] = 0
      <4> SUFFICES ASSUME HasStore PROVE attempts[epic'] = 0
        OBVIOUS
      <4>1. CASE Explicit = epic'
        <5>1. cycle = 1
          BY <2>4, <4>1, EpicsAreNames DEF Explicit
        <5> QED
          BY <2>2, <2>4, <5>1 DEF AttemptInv
      <4>2. CASE Lifecycle(store, epic') = "new"
        <5>1. epic' \notin executed
          BY <4>2 DEF RerunInv
        <5> QED
          BY <1>1, <2>2, <2>4, <5>1 DEF AttemptInv
      <4> QED
        BY <2>4, <4>1, <4>2
    <3> QED
      BY <1>1, <2>1, <2>2, <2>4, <3>1, <3>2 DEF AttemptInv
  <2>5. HasStore => \/ pc' = "refresh" /\ result'.kind = "no_actionable"
                    \/ /\ pc' = "activated" /\ epic' \in Epics
                       /\ Lifecycle(store, epic') = "new" \/ Explicit = epic'
    BY <1>3, StepEffects
  <2>6. \/ pc' = "refresh" /\ result'.kind = "no_actionable"
        \/ pc' = "activated" /\ epic' \in Epics
    BY <1>3, ResultFacts DEF SelectEpic
  <2> QED
    BY <2>3, <2>4, <2>5, <2>6
<1>4. CASE BeginObjective
  <2>1. /\ pc = "activated" /\ pc' = "running" /\ ~HandedOver /\ HandedOver'
        /\ executed' = executed \cup {epic} /\ UNCHANGED <<seen, epic>>
    BY <1>4 DEF BeginObjective, HandedOver
  <2>2. epic \in Epics
    BY <2>1 DEF Inv, EpicInv
  <2>3. \A e \in Epics : attempts'[e] = IF e = epic THEN attempts[e] + 1 ELSE attempts[e]
    BY <1>1, <1>4, <2>2 DEF BeginObjective
  <2>4. attempts[epic] <= 1 /\ (HasStore => attempts[epic] = 0)
        /\ (epic \notin seen => attempts[epic] = 0)
    BY <2>1, <2>2 DEF AttemptInv
  <2> QED
    BY <1>1, <2>1, <2>2, <2>3, <2>4 DEF AttemptInv
<1>5. CASE FinishObjective \/ MarkOutcome \/ PostCycleRefresh
  <2>1. UNCHANGED <<attempts, seen, executed, epic>>
    BY <1>5 DEF FinishObjective, MarkOutcome, PostCycleRefresh
  <2>2. pc # "idle" /\ pc' \in {"returned", "refresh", "deciding"}
    BY <1>5 DEF FinishObjective, MarkOutcome, PostCycleRefresh
  <2>3. HandedOver => HandedOver'
    <3>1. CASE FinishObjective
      BY <3>1 DEF FinishObjective, HandedOver
    <3>2. CASE MarkOutcome
      <4>1. result.kind # "no_actionable" /\ UNCHANGED result /\ pc' = "refresh"
        BY <3>2, ResultFacts DEF MarkOutcome, OutcomeInv
      <4> QED
        BY <4>1 DEF HandedOver
    <3>3. CASE PostCycleRefresh
      <4>1. UNCHANGED result /\ pc = "refresh" /\ pc' = "deciding"
        BY <3>3 DEF PostCycleRefresh
      <4> QED
        BY <4>1 DEF HandedOver
    <3> QED
      BY <1>5, <3>1, <3>2, <3>3
  <2>4. HandedOver' => HandedOver
    BY <1>5 DEF FinishObjective, MarkOutcome, PostCycleRefresh, HandedOver
  <2> QED
    BY <2>1, <2>2, <2>3, <2>4 DEF AttemptInv
<1>6. CASE NextCycle
  <2>1. result.kind # "no_actionable" /\ epic \notin seen
    BY <1>6 DEF NextCycle, StopReason
  <2>2. /\ pc = "deciding" /\ pc' = "planning" /\ HandedOver /\ ~HandedOver'
        /\ seen' = seen \cup {epic} /\ cycle' = cycle + 1
        /\ UNCHANGED <<attempts, executed, epic>>
    BY <1>6, <2>1 DEF NextCycle, HandedOver
  <2>3. cycle' # 1
    BY <2>2, GovernorAssumption DEF Inv, TypeOK
  <2> QED
    BY <1>1, <2>1, <2>2, <2>3 DEF AttemptInv
<1>7. CASE StopAfterCycle \/ RefreshFails \/ Abort \/ TornSave
  <2>1. pc' = "idle" /\ UNCHANGED attempts
    BY <1>7 DEF StopAfterCycle, RefreshFails, Abort, TornSave, EndRun
  <2> QED
    BY <2>1 DEF AttemptInv
<1>8. CASE UNCHANGED vars
  BY <1>8 DEF vars, AttemptInv, HandedOver
<1> QED
  BY <1>2, <1>3, <1>4, <1>5, <1>6, <1>7, <1>8 DEF Next, Step

\* One run hands no epic over twice if there is a state file, and none more than
\* twice if there is none: seen_epic_ids ends the loop (governor.py:251-261).
THEOREM AttemptsAreBounded == Spec => []AttemptsBounded
<1>1. Init => AttemptInv
  BY DEF Init, AttemptInv
<1>2. Inv /\ (HasStore => RerunInv) /\ OutcomeInv /\ AttemptInv /\ [Next]_vars => AttemptInv'
  BY AttemptStep
<1>3. AttemptInv /\ Inv => AttemptsBounded
  BY DEF AttemptInv, AttemptsBounded, Inv, TypeOK
<1> QED
  BY <1>1, <1>2, <1>3, InvAlways, RerunInvAlways, RefreshInvAlways, PTL DEF Spec

(***************************************************************************)
(* A run that stops on failure builds on completed epics only              *)
(***************************************************************************)

\* Every epic of the run but the one at hand is completed, the one at hand is
\* where the refresh put it, and the first cycle has nothing behind it.
SuccessInv ==
  /\ pc \in {"planning", "activated", "running", "returned"} =>
       \A e \in seen : Lifecycle(store, e) = "completed"
  /\ pc \in {"refresh", "deciding"} =>
       \A e \in seen : e # epic => Lifecycle(store, e) = "completed"
  /\ pc = "deciding" => Lifecycle(store, epic) = RefreshState(result)
  /\ pc = "planning" /\ cycle = 1 => seen = {}

LEMMA SuccessStep ==
  ASSUME Inv, HasStore, StopOnFailure, SuccessInv, [Next]_vars
  PROVE  SuccessInv'
<1>1. seen \subseteq Epics /\ cycle \in Nat
  BY GovernorAssumption DEF Inv, TypeOK
<1>2. CASE StartRun
  BY <1>2 DEF StartRun, SuccessInv
<1>3. CASE SelectEpic
  <2>1. pc = "planning" /\ UNCHANGED <<seen, cycle>>
    BY <1>3 DEF SelectEpic
  <2>2. CASE Unmoved /\ pc' = "refresh"
    BY <1>1, <2>1, <2>2 DEF Unmoved, SuccessInv
  <2>3. CASE Moved(epic', "skipped") /\ pc' = "refresh"
    BY <1>1, <2>1, <2>3 DEF Moved, SuccessInv
  <2>4. CASE /\ Moved(epic', "active") /\ epic' \in Epics /\ pc' = "activated"
             /\ Lifecycle(store, epic') = "new" \/ Explicit = epic'
    <3>1. epic' \notin seen
      <4>1. CASE Lifecycle(store, epic') = "new"
        BY <2>1, <4>1 DEF SuccessInv
      <4>2. CASE Explicit = epic'
        BY <2>1, <2>4, <4>2, EpicsAreNames DEF Explicit, SuccessInv
      <4> QED
        BY <2>4, <4>1, <4>2
    <3> QED
      BY <1>1, <2>1, <2>4, <3>1 DEF Moved, SuccessInv
  <2> QED
    BY <1>3, <2>2, <2>3, <2>4, StepEffects
<1>4. CASE BeginObjective
  BY <1>1, <1>4, StepEffects DEF BeginObjective, Unmoved, SuccessInv
<1>5. CASE FinishObjective
  <2>1. pc = "running" /\ pc' = "returned" /\ UNCHANGED seen
    BY <1>5 DEF FinishObjective
  <2>2. CASE Unmoved
    BY <1>1, <2>1, <2>2 DEF Unmoved, SuccessInv
  <2>3. CASE Moved(ReleaseOf[epic], "active") /\ Lifecycle(store, ReleaseOf[epic]) = "new"
    BY <1>1, <2>1, <2>3 DEF Moved, SuccessInv
  <2> QED
    BY <1>5, <2>2, <2>3, StepEffects
<1>6. CASE MarkOutcome
  <2>1. PICK l \in {"completed", "blocked", "reviewed"} : Moved(epic, l)
    BY <1>6, StepEffects
  <2>2. pc = "returned" /\ pc' = "refresh" /\ UNCHANGED <<seen, epic>>
    BY <1>6 DEF MarkOutcome
  <2> QED
    BY <1>1, <2>1, <2>2 DEF Moved, SuccessInv
<1>7. CASE PostCycleRefresh
  <2>1. pc = "refresh" /\ pc' = "deciding" /\ UNCHANGED <<seen, epic, result>>
    BY <1>7 DEF PostCycleRefresh
  <2>2. RefreshState(result)' = RefreshState(result)
    BY <2>1 DEF RefreshState, BlockedFinalization, Accepted
  <2>3. Moved(epic, RefreshState(result))
    BY <1>7, StepEffects
  <2> QED
    BY <1>1, <2>1, <2>2, <2>3 DEF Moved, SuccessInv
<1>8. CASE NextCycle
  <2>1. /\ pc = "deciding" /\ pc' = "planning" /\ seen' = seen \cup {epic}
        /\ cycle' = cycle + 1 /\ UNCHANGED <<store, epic>>
    BY <1>8 DEF NextCycle
  <2>2. RefreshState(result) = "completed"
    BY <1>8 DEF NextCycle, StopReason, RefreshState, Accepted
  <2>3. cycle' # 1
    BY <2>1, GovernorAssumption DEF Inv, TypeOK
  <2> QED
    BY <2>1, <2>2, <2>3 DEF SuccessInv
<1>9. CASE StopAfterCycle \/ RefreshFails \/ Abort \/ TornSave
  <2>1. pc' = "idle"
    BY <1>9 DEF StopAfterCycle, RefreshFails, Abort, TornSave, EndRun
  <2> QED
    BY <2>1 DEF SuccessInv
<1>10. CASE UNCHANGED vars
  BY <1>10 DEF vars, SuccessInv, RefreshState, BlockedFinalization, Accepted
<1> QED
  BY <1>2, <1>3, <1>4, <1>5, <1>6, <1>7, <1>8, <1>9, <1>10 DEF Next, Step

\* With stop_on_failure the governor looks for another epic only while every epic
\* of the run is durably completed (governor.py:221-285).
THEOREM BuildsOnCompletedEpics == Spec => []OnlyAfterSuccess
<1>1. Init => SuccessInv
  BY DEF Init, SuccessInv
<1>2. Inv /\ (HasStore /\ StopOnFailure => SuccessInv) /\ [Next]_vars =>
        (HasStore /\ StopOnFailure => SuccessInv)'
  BY SuccessStep
<1>3. (HasStore /\ StopOnFailure => SuccessInv) => OnlyAfterSuccess
  BY DEF SuccessInv, OnlyAfterSuccess
<1> QED
  BY <1>1, <1>2, <1>3, InvAlways, PTL DEF Spec

=============================================================================
