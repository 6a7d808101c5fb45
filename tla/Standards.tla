------------------------------ MODULE Standards ------------------------------
(***************************************************************************)
(* Enterprise standards: services/enterprise_standards.py with its tables. *)
(* The library is shared by all assessments; when an interview starts, the *)
(* standards that apply to its technology context are frozen for it, each  *)
(* with a finding that the analyses of answers and the administrator set.  *)
(*                                                                         *)
(* A request loads what it needs without holding anything (Load), and      *)
(* writes and commits later under SQLite's write lock (one action per      *)
(* operation): a model call or another request may come between.           *)
(***************************************************************************)
EXTENDS Rows, Lifecycle, Naturals, Sequences, FiniteSets, FiniteSetsExt

CONSTANTS
  Ids,             \* ids of standards, as many as the library may hold
  Keys,            \* stable keys
  Copies,          \* Copies[k]: keys that a duplicate of k tries in turn
  Texts,           \* title, guidance and the other words of a standard
  Facts,           \* what a rule can ask of a technology context
  Seeded,          \* the library at first
  MaxRows,         \* bound on the generations of rule rows in use
  MaxCalls,        \* bound on the requests
  Workers, JobsOf,
  Keep,            \* a field that an update leaves out
  None

VARIABLES
  status,          \* assessments.status
  library,         \* enterprise_standards with their conditions, by id
  context,         \* assessment_technology_contexts
  frozen,          \* assessment_standard_snapshots, by stable key
  finding,         \* assessment_standard_findings, by the key of their snapshot
  req,             \* the request each worker is serving
  calls            \* requests so far

vars == <<status, library, context, frozen, finding, req, calls>>

-----------------------------------------------------------------------------
(* Data *)

Modes == {"always", "conditions"}
Rule == [fact : Facts, asks : {"is", "is_not", "unsupported"}, group : {"all", "any"}]

\* A rule row has an identity of its own: rules are replaced, never changed.
RuleRow == [rule : Rule, row : 1..MaxRows]
Standard == [key : Keys, text : Texts, active : BOOLEAN, mode : Modes,
             rules : SUBSET RuleRow]
Context == [Facts -> BOOLEAN]
Definition == [text : Texts, mode : Modes, rules : SUBSET Rule]
Snapshot == [source : Ids \cup {None}, definition : Definition]

FindingStatuses == {"aligned", "partially_aligned", "finding",
                    "insufficient_evidence", "not_applicable"}
Finding == [status : FindingStatuses, edited : BOOLEAN]

\* What an administrator sends for a standard: a new one, or fields of an old one.
Form == [text : Texts, active : BOOLEAN, mode : Modes, rules : SUBSET Rule]
Patch == [text : Texts \cup {Keep}, active : BOOLEAN \cup {Keep},
          mode : Modes \cup {Keep}, rules : (SUBSET Rule) \cup {Keep}]

\* An analysis may name any key, applicable or not.
Verdict == [status : FindingStatuses, applies : BOOLEAN]

Job == [op : {"create"}, key : Keys, form : Form]
       \cup [op : {"update"}, patch : Patch]
       \cup [op : {"toggle"}, active : BOOLEAN]
       \cup [op : {"duplicate", "delete", "start"}]
       \cup [op : {"import"}, bundle : Seq([key : Keys, form : Form]) \ {<<>>}]
       \cup [op : {"context"}, to : Context]
       \cup [op : {"analyse"}, verdicts : UNION {[S -> Verdict] : S \in SUBSET Keys}]
       \cup [op : {"edit"}, key : Keys, status : FindingStatuses]
       \cup [op : {"move"}, to : Statuses]

Idle == [phase |-> "idle"]

ASSUME StandardsAssumption ==
  /\ MaxRows \in Nat /\ MaxCalls \in Nat
  /\ Seeded \in [Ids -> Standard \cup {None}]
  /\ Copies \in [Keys -> Seq(Keys)]
  /\ \A w \in Workers : JobsOf[w] \subseteq Job
  /\ None \notin Ids /\ None \notin Keys
  /\ None \notin Standard /\ None \notin Snapshot /\ None \notin Finding
  /\ Keep \notin Modes /\ \A rules \in SUBSET Rule : rules # Keep

\* The library is seeded by an import, which validates what it stores.
ASSUME SeededAssumption ==
  LET seeded == {i \in Ids : Seeded[i] # None}
  IN /\ \A i, j \in seeded : Seeded[i].key = Seeded[j].key => i = j
     /\ \A i \in seeded : Seeded[i].mode = "conditions" => Seeded[i].rules # {}

\* The rows a request has read to write to.
WellRead(job, seen) ==
  CASE job.op = "context" -> seen \in Context \cup {None}
    [] job.op = "start" ->
         seen # None => DOMAIN seen \subseteq Ids /\ \A i \in DOMAIN seen : seen[i] \in Standard
    [] job.op = "edit" -> seen \in Finding
    [] job.op \in {"analyse", "move"} -> seen = None
    [] OTHER -> seen \in Standard \cup {None}

TypeOK ==
  /\ status \in Statuses
  /\ library \in [Ids -> Standard \cup {None}]
  /\ context \in Context \cup {None}
  /\ frozen \in [Keys -> Snapshot \cup {None}]
  /\ finding \in [Keys -> Finding \cup {None}]
  /\ \A k \in Keys : frozen[k] = None <=> finding[k] = None
  /\ DOMAIN req = Workers
  /\ calls \in 0..MaxCalls
  /\ \A w \in Workers : req[w] # Idle =>
       /\ req[w].job \in JobsOf[w] /\ WellRead(req[w].job, req[w].seen)
       /\ req[w].id \in Ids \cup {None} /\ req[w].copy \in Keys \cup {None}

Init ==
  /\ status = "evidence_ready"
  /\ library = Seeded
  /\ context = None
  /\ frozen = [k \in Keys |-> None]
  /\ finding = [k \in Keys |-> None]
  /\ req = [w \in Workers |-> Idle]
  /\ calls = 0

-----------------------------------------------------------------------------
(* Which standards apply *)

\* _eval_condition; an operator that a field does not support fails.
Holds(r, ctx) == CASE r.asks = "is"     -> ctx[r.fact]
                   [] r.asks = "is_not" -> ~ctx[r.fact]
                   [] OTHER             -> FALSE

Rules(standard) == {r.rule : r \in standard.rules}
Group(standard, g) == {r \in Rules(standard) : r.group = g}

\* is_applicable: all of the one group and, if there is another, any of it.
IsApplicable(standard, ctx) ==
  \/ standard.mode = "always"
  \/ /\ ctx # None
     /\ standard.rules # {}
     /\ \A r \in Group(standard, "all") : Holds(r, ctx)
     /\ Group(standard, "any") # {} => \E r \in Group(standard, "any") : Holds(r, ctx)

InLibrary == {i \in Ids : library[i] # None}
Applicable == {i \in InLibrary : library[i].active /\ IsApplicable(library[i], context)}

-----------------------------------------------------------------------------
(* Arrival of a request, and its failure *)

WithKey(lib, k) == {i \in Ids : lib[i] # None /\ lib[i].key = k}
FreeCopies(k) == {n \in DOMAIN Copies[k] : WithKey(library, Copies[k][n]) = {}}
FreeCopy(k) == Copies[k][Min(FreeCopies(k))]

Frozen == {k \in Keys : frozen[k] # None}
Snapshotted(i) == \E k \in Frozen : frozen[k].source = i

\* _validate_payload, and the check that update_standard ends with.
RulesGiven(form) == form.mode = "conditions" => form.rules # {}

Patched(old, patch) ==
  [mode |-> IF patch.mode = Keep THEN old.mode ELSE patch.mode,
   rules |-> IF patch.rules = Keep THEN old.rules ELSE patch.rules]

\* The refusals, from what is read on arrival; i is the standard it is about, or for
\* an import the one with the key of the first item.
Accepts(job, i) ==
  CASE job.op = "create" ->
         i = None /\ RulesGiven(job.form) /\ WithKey(library, job.key) = {}
    [] job.op = "import" ->
         /\ \A n \in DOMAIN job.bundle : RulesGiven(job.bundle[n].form)
         /\ LET same == WithKey(library, Head(job.bundle).key)
            IN IF same = {} THEN i = None ELSE i \in same
    [] job.op = "update" -> i # None /\ RulesGiven(Patched(library[i], job.patch))
    [] job.op = "toggle" -> i # None
    [] job.op = "duplicate" ->
         i # None /\ RulesGiven(library[i]) /\ FreeCopies(library[i].key) # {}
    [] job.op = "delete" -> i # None /\ ~Snapshotted(i)
    [] job.op = "context" ->
         i = None /\ status \in {"setup", "collecting_evidence", "evidence_ready"}
    [] job.op = "start" -> i = None /\ status = "evidence_ready"
    [] job.op = "analyse" -> i = None /\ status = "interview_active"
    [] job.op = "edit" -> i = None /\ job.key \in Frozen
    [] job.op = "move" -> i = None /\ CanTransition(status, job.to)

\* The rows it goes on to write to, as they are now.
Seen(job, i) ==
  CASE job.op = "context" -> context
    [] job.op = "start" ->
         IF Frozen # {} THEN None ELSE [j \in Applicable |-> library[j]]
    [] job.op = "edit" -> finding[job.key]
    [] job.op \in {"analyse", "move"} -> None
    [] OTHER -> IF i = None THEN None ELSE library[i]

Load(w) ==
  /\ req[w] = Idle /\ calls < MaxCalls
  /\ calls' = calls + 1
  /\ \E job \in JobsOf[w], i \in InLibrary \cup {None} :
       /\ Accepts(job, i)
       /\ req' = [req EXCEPT ![w] =
            [phase |-> "loaded", job |-> job, id |-> i, seen |-> Seen(job, i),
             copy |-> IF job.op = "duplicate"
                      THEN FreeCopy(library[i].key) ELSE None]]
  /\ UNCHANGED <<status, library, context, frozen, finding>>

Finish(w) == req' = [req EXCEPT ![w] = Idle] /\ UNCHANGED calls

\* A late refusal, a constraint, the busy timeout, a model that does not answer or a
\* crash: the request leaves no trace.
Abort(w) ==
  /\ req[w] # Idle
  /\ Finish(w)
  /\ UNCHANGED <<status, library, context, frozen, finding>>

Serves(w, op) == req[w] # Idle /\ req[w].job.op = op

-----------------------------------------------------------------------------
(* The library *)

\* Ids and rows are random: new ones are those that no row and no request knows.
Loaded == {w \in Workers : req[w] # Idle}
InHand(w) ==
  CASE req[w].job.op = "start" -> IF req[w].seen = None THEN {} ELSE DOMAIN req[w].seen
    [] OTHER -> {req[w].id}
NewIds(lib) == {i \in Ids : lib[i] = None} \ UNION {InHand(w) : w \in Loaded}

RowsOf(standard) == {r.row : r \in standard.rules}
RowsInHand(w) ==
  IF req[w].id # None /\ req[w].seen # None THEN RowsOf(req[w].seen) ELSE {}
NewRow ==
  CHOOSE n \in 1..MaxRows :
    /\ \A i \in InLibrary : n \notin RowsOf(library[i])
    /\ \A w \in Loaded : n \notin RowsInHand(w)
RowLeft == Cardinality(UNION ({RowsOf(library[i]) : i \in InLibrary}
                              \cup {RowsInHand(w) : w \in Loaded})) < MaxRows
Inserted(rules) == [rule : rules, row : {NewRow}]

Taken(lib, k) == WithKey(lib, k) # {}

\* create_standard; the unique constraint has the last word on the key.
Created(lib, key, form) ==
  {[lib EXCEPT ![i] = [key |-> key, text |-> form.text, active |-> form.active,
                       mode |-> form.mode, rules |-> Inserted(form.rules)]] :
     i \in IF Taken(lib, key) THEN {} ELSE NewIds(lib)}

Written(db, old, new) == IF new = Keep THEN db ELSE Put(db, old, new)

ReplacedAll(db, old, rules) == IF rules = Keep THEN db ELSE Inserted(rules)

\* _replace_conditions deletes the rows it has loaded and inserts the new ones.
Replaced(db, old, rules) ==
  IF rules = Keep THEN db ELSE (db \ old) \cup Inserted(rules)

Merged(db, old, patch) ==
  [db EXCEPT !.text = Written(@, old.text, patch.text),
             !.active = Written(@, old.active, patch.active),
             !.mode = Written(@, old.mode, patch.mode),
             !.rules = Replaced(@, old.rules, patch.rules)]

\* The row must still be there.
Updated(lib, i, old, patch) ==
  IF lib[i] = None THEN {} ELSE {[lib EXCEPT ![i] = Merged(lib[i], old, patch)]}

Create(w) ==
  /\ Serves(w, "create") /\ RowLeft
  /\ library' \in Created(library, req[w].job.key, req[w].job.form)
  /\ Finish(w)
  /\ UNCHANGED <<status, context, frozen, finding>>

Update(w) ==
  /\ Serves(w, "update") /\ RowLeft
  /\ library' \in Updated(library, req[w].id, req[w].seen, req[w].job.patch)
  /\ Finish(w)
  /\ UNCHANGED <<status, context, frozen, finding>>

SetActive(w) ==
  /\ Serves(w, "toggle") /\ library[req[w].id] # None
  /\ library' = [library EXCEPT ![req[w].id].active =
                   Put(@, req[w].seen.active, req[w].job.active)]
  /\ Finish(w)
  /\ UNCHANGED <<status, context, frozen, finding>>

\* A copy is not active, and has rules of its own.
Duplicate(w) ==
  /\ Serves(w, "duplicate") /\ RowLeft
  /\ library' \in Created(library, req[w].copy,
       [req[w].seen EXCEPT !.active = FALSE, !.rules = Rules(req[w].seen)])
  /\ Finish(w)
  /\ UNCHANGED <<status, context, frozen, finding>>

\* Snapshots of the standard that were made in the meantime lose their source.
SourceKept(i) == frozen
SourceCleared(i) ==
  [k \in Keys |-> IF k \in Frozen /\ frozen[k].source = i
                  THEN [frozen[k] EXCEPT !.source = None] ELSE frozen[k]]
Delete(w) ==
  /\ Serves(w, "delete")
  /\ library' = [library EXCEPT ![req[w].id] = None]
  /\ frozen' = SourceCleared(req[w].id)
  /\ Finish(w)
  /\ UNCHANGED <<status, context, finding>>

\* import_bundle: every item updates the standard with its key or creates it, all in
\* one transaction.  Only the first was looked up before the lock was taken.
Upserted(lib, item) ==
  LET same == WithKey(lib, item.key)
  IN IF same = {} THEN Created(lib, item.key, item.form)
     ELSE UNION {Updated(lib, i, lib[i], item.form) : i \in same}
First(w) ==
  LET item == Head(req[w].job.bundle)
  IN IF req[w].id = None THEN Created(library, item.key, item.form)
     ELSE Updated(library, req[w].id, req[w].seen, item.form)
Imported(w) ==
  LET bundle == req[w].job.bundle
      libs[n \in DOMAIN bundle] ==
        IF n = 1 THEN First(w)
        ELSE UNION {Upserted(lib, bundle[n]) : lib \in libs[n - 1]}
  IN libs[Len(bundle)]
Import(w) ==
  /\ Serves(w, "import") /\ RowLeft
  /\ library' \in Imported(w)
  /\ Finish(w)
  /\ UNCHANGED <<status, context, frozen, finding>>

-----------------------------------------------------------------------------
(* One assessment *)

\* upsert_technology_context; at most one row.
SetContext(w) ==
  /\ Serves(w, "context")
  /\ LET old == req[w].seen
         new == req[w].job.to
     IN IF old = None THEN context = None /\ context' = new
        ELSE context' = [f \in Facts |-> Put(context[f], old[f], new[f])]
  /\ Finish(w)
  /\ UNCHANGED <<status, library, frozen, finding>>

Define(standard) ==
  [text |-> standard.text, mode |-> standard.mode, rules |-> Rules(standard)]

\* snapshot_applicable: nothing if there are snapshots already; else all or none, by
\* the unique key and the foreign key of the snapshots.
AddsMissing(seen) ==
  IF seen = None THEN {i \in Applicable : library[i].key \notin Frozen} ELSE DOMAIN seen
Adds(seen) == IF seen = None THEN {} ELSE DOMAIN seen

\* Every snapshot starts with a finding.
OpenedNone(keys) == finding
Opened(keys) ==
  [k \in Keys |-> IF k \notin keys THEN finding[k]
                  ELSE [status |-> "insufficient_evidence", edited |-> FALSE]]

\* start: the snapshots, then the status, under the lock while the opening question
\* is generated.
Start(w) ==
  /\ Serves(w, "start")
  /\ LET seen == req[w].seen
         row == [i \in Adds(seen) |-> IF seen = None THEN library[i] ELSE seen[i]]
         from(k) == CHOOSE i \in Adds(seen) : row[i].key = k
         keys == {row[i].key : i \in Adds(seen)}
     IN /\ keys \cap Frozen = {} /\ Adds(seen) \subseteq InLibrary
        /\ frozen' = [k \in Keys |-> IF k \notin keys THEN frozen[k]
             ELSE [source |-> from(k), definition |-> Define(row[from(k)])]]
        /\ finding' = Opened(keys)
  /\ status' = "interview_active"
  /\ Finish(w)
  /\ UNCHANGED <<library, context>>

\* apply_standard_updates_from_analysis, on rows read under the lock: an unknown key
\* fails the answer, what the administrator has set stays.
SettleAll(old, v) == [old EXCEPT !.status = IF v.applies THEN v.status ELSE "not_applicable"]
Settle(old, v) ==
  IF old.edited THEN old
  ELSE [old EXCEPT !.status = IF v.applies THEN v.status ELSE "not_applicable"]
Analyse(w) ==
  /\ Serves(w, "analyse")
  /\ LET said == req[w].job.verdicts
     IN /\ DOMAIN said \subseteq Frozen
        /\ finding' = [k \in Keys |-> IF k \in DOMAIN said
                                      THEN Settle(finding[k], said[k]) ELSE finding[k]]
  /\ Finish(w)
  /\ UNCHANGED <<status, library, context, frozen>>

\* update_finding, on the row it has loaded.
EditFinding(w) ==
  /\ Serves(w, "edit")
  /\ LET k == req[w].job.key
         old == req[w].seen
     IN finding' = [finding EXCEPT
          ![k].status = Put(@, old.status, req[w].job.status),
          ![k].edited = Put(@, old.edited, TRUE)]
  /\ Finish(w)
  /\ UNCHANGED <<status, library, context, frozen>>

Move(w) ==
  /\ Serves(w, "move")
  /\ status' = req[w].job.to
  /\ Finish(w)
  /\ UNCHANGED <<library, context, frozen, finding>>

Next ==
  \E w \in Workers :
    \/ Load(w) \/ Abort(w)
    \/ Create(w) \/ Update(w) \/ SetActive(w) \/ Duplicate(w) \/ Delete(w) \/ Import(w)
    \/ SetContext(w) \/ Start(w) \/ Analyse(w) \/ EditFinding(w) \/ Move(w)

Spec == Init /\ [][Next]_vars

-----------------------------------------------------------------------------
(* Properties *)

\* "Conditional standards require at least one applicability rule": also when two
\* sessions save the same standard, whose forms send the mode and the rules together.
RulesPresent ==
  \A i \in InLibrary : library[i].mode = "conditions" => library[i].rules # {}

\* No two standards share a key, whoever creates, copies and imports at once.
KeysUnique ==
  \A i, j \in InLibrary : library[i].key = library[j].key => i = j

\* What a snapshot was made of is in the library under the same key, or cleared.
SourceExists ==
  \A k \in Frozen : LET i == frozen[k].source
                    IN i # None => i \in InLibrary /\ library[i].key = k

\* Standards are frozen together at the first start: whatever is edited, deleted or
\* started again afterwards, the interview and the report keep the same ones.
FrozenTogether ==
  [][Frozen # {} => /\ Frozen' = Frozen
                    /\ \A k \in Frozen :
                         frozen'[k].definition = frozen[k].definition]_vars

\* A status the administrator has set changes by the administrator's hand only, and
\* stays marked, whatever answers are analysed and however often interviews start.
OverridesKept ==
  [][\A k \in Frozen : finding[k].edited =>
       /\ finding'[k].edited
       /\ finding'[k].status # finding[k].status =>
            \E w \in Workers : Serves(w, "edit") /\ req[w].job.key = k /\ req'[w] = Idle]_vars

=============================================================================
