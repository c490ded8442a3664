----------------------------- MODULE MCPlanning -----------------------------
(***************************************************************************)
(* Instances of Planning for TLC.  The answers of the model are the good   *)
(* one and all that differ from it in at most two respects, alone and with *)
(* a second contract.  The two commands run one after the other, where the *)
(* second finds what the first or its kill left, or at the same time.      *)
(***************************************************************************)
EXTENDS Planning, TLC

CONSTANTS r1, r2, d1, d2, review, t1, t2, p1, p2

MCDraft == r1 :> d1 @@ r2 :> d2

Commanders == Permutations({p1, p2})

Nothing == [n \in Names |-> Absent]
MCDirectories == {Nothing, [Nothing EXCEPT ![t2] = Plain(t2, r1)]}

Good == [shape |-> "plain", task |-> t1, at |-> t1, release |-> r1, files |-> 1,
         repo |-> FALSE, evidence |-> "diff", stops |-> TRUE, goals |-> TRUE,
         profile |-> TRUE, command |-> "shared"]

Other ==
  [shape |-> {"aliased", "evidence_aliased"}, task |-> {d1}, at |-> {t2, Absent},
   release |-> {r2, Absent}, files |-> {2, 3}, repo |-> {TRUE},
   evidence |-> {"other", "absent"}, stops |-> {FALSE}, goals |-> {FALSE},
   profile |-> {FALSE}, command |-> Commands \ {"shared"}]

Fields == DOMAIN Good

OneOff(g) == UNION {{[g EXCEPT ![f] = v] : v \in Other[f]} : f \in Fields}

Entry(g) ==
  [shape |-> g.shape, task |-> g.task,
   contract |-> [task |-> g.at, release |-> g.release, files |-> g.files,
                 repo |-> g.repo, evidence |-> g.evidence, stops |-> g.stops,
                 goals |-> g.goals, profile |-> g.profile, command |-> g.command]]

Singles == {Good} \cup OneOff(Good) \cup UNION {OneOff(g) : g \in OneOff(Good)}

Second == [Good EXCEPT !.task = t2, !.at = t2]

MCOutputs ==
  {[json |-> "whole", release |-> r1, entries |-> <<Entry(g)>>] : g \in Singles}
  \cup {[json |-> "tail", release |-> r1, entries |-> <<Entry(Good), Entry(g)>>] :
          g \in {Second, Good} \cup OneOff(Second)}
  \cup {[json |-> j, release |-> r, entries |-> <<Entry(Good)>>] :
          j \in {"whole", "broken"}, r \in {r2, Absent}}
  \cup {[json |-> "whole", release |-> r2, entries |-> <<Entry([Good EXCEPT !.release = r2])>>],
        [json |-> "whole", release |-> r1, entries |-> <<>>]}
=============================================================================
