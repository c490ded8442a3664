-------------------------- MODULE ContractAdmission --------------------------
(***************************************************************************)
(* What the planner makes of the output of the strong model: the repairs   *)
(* of contracts.py, the normalization before admission and the gate        *)
(* validate_generated_contracts of planning.py, as functions of the output *)
(* and of the release that was asked for.                                  *)
(*                                                                         *)
(* Of a task contract only the fields the gate or a repair looks at are    *)
(* kept, and of those only what they tell apart.  The release is refused   *)
(* when it is not the one asked for; task_id, title and the rest are text. *)
(***************************************************************************)
EXTENDS Naturals, Sequences

CONSTANTS
  Names,        \* task ids, which are also the names of contract files
  Releases,     \* release ids
  Absent,       \* a key the model left out; a contract file that is not there
  FileBudget,   \* budget.max_changed_files_per_task
  HasRuntime    \* discover_safe_verification_runtime finds an interpreter

ASSUME AdmissionAssumption ==
  /\ Absent \notin Names \cup Releases
  /\ FileBudget \in Nat
  /\ HasRuntime \in BOOLEAN

\* Verification commands: none names the worktree's interpreter; one starts
\* with it and is a plain invocation; one starts with it and goes on in shell;
\* one names it behind something else.
Commands == {"shared", "local", "shell", "hidden"}

\* profile: known to the project, and the one of the task's type.  stops: a
\* stop condition speaks of scope, verification or failure.
Contract ==
  [task     : Names,
   release  : Releases,
   files    : Nat,                  \* how many patterns allowed_files has
   repo     : BOOLEAN,              \* one of them is the whole repository
   evidence : {"diff", "other"},
   stops    : BOOLEAN,
   goals    : BOOLEAN,              \* non_goals, where the type needs them
   profile  : BOOLEAN,
   command  : Commands]

\* What the model may say: an entry with the keys of a generated contract, which
\* may be missing, or spelled in another way, and a plan of such entries.
Entries ==
  [shape    : {"plain", "aliased", "evidence_aliased"},
   task     : Names,
   contract : [task     : Names \cup {Absent},
               release  : Releases \cup {Absent},
               files    : Nat,
               repo     : BOOLEAN,
               evidence : {"diff", "other", "absent"},
               stops    : BOOLEAN,
               goals    : BOOLEAN,
               profile  : BOOLEAN,
               command  : Commands]]

Replies ==
  [json : {"whole", "tail", "broken"}, release : Releases \cup {Absent}, entries : Seq(Entries)]

(***************************************************************************)
(* Parsing                                                                 *)
(***************************************************************************)

\* The repairs know other spellings of keys and shapes of verification.  An
\* entry that spells requiredEvidence is not repaired: required_evidence is
\* filled in before, and then the alias is ambiguous.
Readable(g) == g.shape \in {"plain", "aliased"}

\* normalize_planner_contract_plan_payload, for an entry it can read.
Filled(g, release) ==
  LET c == g.contract
      filled == [c EXCEPT
        !.task     = IF c.task = Absent THEN g.task ELSE c.task,
        !.release  = IF c.release = Absent THEN release ELSE c.release,
        !.evidence = IF c.evidence = "absent" THEN "diff" ELSE c.evidence,
        !.stops    = TRUE]
  IN [g EXCEPT !.contract = filled]

\* json.loads, the repair of the tail, the schema, and the release of the plan.
Parses(out, release) ==
  /\ out.json # "broken"
  /\ out.release = release
  /\ \A i \in DOMAIN out.entries : Readable(out.entries[i])

Parsed(out) ==
  [i \in DOMAIN out.entries |-> Filled(out.entries[i], out.release)]

(***************************************************************************)
(* The gate                                                                *)
(***************************************************************************)

\* What validate_generated_contracts looks at before the evidence ...
MisplacedOrBroad(g, release) ==
  g.task # g.contract.task \/ g.contract.release # release \/ g.contract.repo

\* Variant for checking: goals and stops are left to the reviewer.
OutOfProject(c, config) == config /\ (c.files > FileBudget \/ ~c.profile)

\* ... and after it; the last two only with the project's configuration.
OutOfBounds(c, config) ==
  \/ ~c.stops
  \/ ~c.goals
  \/ config /\ (c.files > FileBudget \/ ~c.profile)

Passes(g, release, config) ==
  /\ ~MisplacedOrBroad(g, release)
  /\ g.contract.evidence = "diff"
  /\ ~OutOfBounds(g.contract, config)

\* validate_generated_contracts.
Valid(plan, release, config) ==
  /\ \A i \in DOMAIN plan : Passes(plan[i], release, config)
  /\ \A i, j \in DOMAIN plan : plan[i].task = plan[j].task => i = j

(***************************************************************************)
(* Normalization for admission                                             *)
(***************************************************************************)

\* _contract_needs_runtime_normalization.
NeedsRuntime(c, config) == config /\ c.command \in {"local", "shell"}

\* The first thing wrong is the evidence, or nothing is but the interpreter.
Normalizes(g, release, config) ==
  \/ ~MisplacedOrBroad(g, release) /\ g.contract.evidence # "diff"
  \/ Passes(g, release, config) /\ NeedsRuntime(g.contract, config)

\* normalize_contract_request refuses to rewrite the interpreter inside shell.
RewriteRefused(c, config) ==
  config /\ HasRuntime /\ c.command \in {"shell", "hidden"}

Repaired(g, config) ==
  LET c == g.contract
      replaced == config /\ HasRuntime /\ c.command = "local"
      repaired == [c EXCEPT !.evidence = "diff",
                            !.command  = IF replaced THEN "shared" ELSE c.command]
  IN [g EXCEPT !.contract = repaired]

\* _normalize_contracts_for_admission raises: a refused rewrite, or a repaired
\* contract the gate still does not let through.
CannotNormalize(g, release, config) ==
  /\ Normalizes(g, release, config)
  /\ \/ RewriteRefused(g.contract, config)
     \/ Repaired(g, config) # g /\ ~Passes(Repaired(g, config), release, config)

Normalized(plan, release, config) ==
  [i \in DOMAIN plan |->
     IF Normalizes(plan[i], release, config) THEN Repaired(plan[i], config) ELSE plan[i]]

\* parse_planner_output after the schema: what is left is admitted or refused.
Admitted(plan, release, config) ==
  /\ \A i \in DOMAIN plan : ~CannotNormalize(plan[i], release, config)
  /\ Valid(Normalized(plan, release, config), release, config)

Contracts(plan) == [i \in DOMAIN plan |-> plan[i].contract]
=============================================================================
