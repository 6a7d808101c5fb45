---------------------------- MODULE StandardsProofs ----------------------------
(***************************************************************************)
(* What holds of the enterprise standards for any library, any number of   *)
(* sessions and any requests they may send.                                *)
(***************************************************************************)
EXTENDS Standards, Least, FiniteSetTheorems, TLAPS

-----------------------------------------------------------------------------
(* The inductive invariant *)

OnStandard == {"update", "toggle", "duplicate", "delete"}

TablesOK ==
  /\ status \in Statuses
  /\ library \in [Ids -> Standard \cup {None}]
  /\ context \in Context \cup {None}
  /\ frozen \in [Keys -> Snapshot \cup {None}]
  /\ finding \in [Keys -> Finding \cup {None}]
  /\ \A k \in Keys : frozen[k] = None <=> finding[k] = None

\* What a request has read, and what of it is sure to be there still: a context and
\* the snapshots are never taken away, a standard in hand has kept its key or is gone.
RequestOK(w) ==
  LET job == req[w].job
      seen == req[w].seen
  IN req[w] # Idle =>
       /\ job \in JobsOf[w] /\ WellRead(job, seen)
       /\ req[w].id \in Ids \cup {None} /\ req[w].copy \in Keys \cup {None}
       /\ job.op \in OnStandard => req[w].id # None
       /\ req[w].id # None => job.op \in OnStandard \cup {"import"} /\ seen \in Standard
       /\ job.op = "duplicate" => req[w].copy \in Keys
       /\ job.op = "edit" => job.key \in Frozen
       /\ job.op = "context" => (seen # None => context \in Context)
       /\ job.op = "start" => (seen # None =>
            \A i \in DOMAIN seen : library[i] # None => library[i].key = seen[i].key)

TypeInv ==
  /\ TablesOK
  /\ DOMAIN req = Workers /\ calls \in 0..MaxCalls
  /\ \A w \in Workers : RequestOK(w)

Inv == TypeInv /\ KeysUnique /\ SourceExists

-----------------------------------------------------------------------------
(* Requests *)

LEMMA JobTypes ==
  ASSUME NEW job \in Job
  PROVE  /\ job.op \in {"create", "update", "toggle", "duplicate", "delete", "start",
                        "import", "context", "analyse", "edit", "move"}
         /\ job.op = "create" => job.key \in Keys /\ job.form \in Form
         /\ job.op = "update" => job.patch \in Patch
         /\ job.op = "toggle" => job.active \in BOOLEAN
         /\ job.op = "import" => job.bundle \in Seq([key : Keys, form : Form]) \ {<<>>}
         /\ job.op = "context" => job.to \in Context
         /\ job.op = "analyse" =>
              job.verdicts \in UNION {[S -> Verdict] : S \in SUBSET Keys}
         /\ job.op = "edit" => job.key \in Keys /\ job.status \in FindingStatuses
         /\ job.op = "move" => job.to \in Statuses
<1> DEFINE said == UNION {[S -> Verdict] : S \in SUBSET Keys}
           items == Seq([key : Keys, form : Form]) \ {<<>>}
<1> HIDE DEF said, items
<1> QED
  BY DEF Job, said, items

LEMMA InFlight ==
  ASSUME TypeInv, NEW w \in Workers, req[w] # Idle
  PROVE  /\ req[w].job \in Job /\ RequestOK(w)
         /\ WellRead(req[w].job, req[w].seen)
         /\ req[w].id \in Ids \cup {None} /\ req[w].copy \in Keys \cup {None}
         /\ req[w].id # None => req[w].seen \in Standard
<1>1. RequestOK(w)
  BY DEF TypeInv
<1>2. req[w].job \in JobsOf[w]
  BY <1>1 DEF RequestOK
<1>3. req[w].job \in Job
  BY <1>2, StandardsAssumption
<1> QED
  BY <1>1, <1>3 DEF RequestOK

LEMMA StandardType ==
  ASSUME TypeInv, NEW i \in InLibrary
  PROVE  i \in Ids /\ library[i] \in Standard /\ library[i] # None
BY DEF TypeInv, TablesOK, InLibrary

LEMMA FrozenType ==
  ASSUME TypeInv, NEW k \in Frozen
  PROVE  k \in Keys /\ frozen[k] \in Snapshot /\ finding[k] \in Finding
BY DEF TypeInv, TablesOK, Frozen

\* What other requests have read outlives a step that only adds snapshots and a
\* context, and changes no key of a standard in hand.
Lasting ==
  /\ Frozen \subseteq Frozen'
  /\ context \in Context => context' \in Context
  /\ \A w \in Loaded : req[w].job.op = "start" /\ req[w].seen # None =>
       \A i \in DOMAIN req[w].seen : library'[i] # None =>
         library[i] # None /\ library'[i].key = library[i].key

LEMMA RequestKept ==
  ASSUME TypeInv, Lasting, NEW v \in Workers, req'[v] = req[v]
  PROVE  RequestOK(v)'
<1>1. CASE req[v] = Idle
  BY <1>1 DEF RequestOK
<1>2. CASE req[v] # Idle
  <2>1. RequestOK(v) /\ v \in Loaded
    BY <1>2, InFlight DEF Loaded
  <2>2. req[v].job.op = "start" => (req[v].seen # None =>
          \A i \in DOMAIN req[v].seen : library'[i] # None =>
            library'[i].key = req[v].seen[i].key)
    BY <1>2, <2>1 DEF RequestOK, Lasting
  <2> QED
    BY <1>2, <2>1, <2>2 DEF RequestOK, Lasting
<1> QED
  BY <1>1, <1>2

LEMMA FinishKeeps ==
  ASSUME TypeInv, NEW w \in Workers, Finish(w), TablesOK', Lasting
  PROVE  TypeInv'
<1>1. /\ DOMAIN req' = Workers /\ calls' \in 0..MaxCalls /\ req'[w] = Idle
      /\ \A v \in Workers \ {w} : req'[v] = req[v]
  BY DEF Finish, TypeInv
<1>2. RequestOK(w)'
  BY <1>1 DEF RequestOK
<1>3. \A v \in Workers \ {w} : RequestOK(v)'
  BY <1>1, RequestKept
<1> QED
  BY <1>1, <1>2, <1>3 DEF TypeInv

-----------------------------------------------------------------------------
(* New rule rows *)

LEMMA RowsTyped ==
  ASSUME NEW standard \in Standard
  PROVE  RowsOf(standard) \subseteq 1..MaxRows /\ Rules(standard) \subseteq Rule
<1>1. standard.rules \subseteq RuleRow
  BY DEF Standard
<1> QED
  BY <1>1 DEF RowsOf, Rules, RuleRow

LEMMA RowNew ==
  ASSUME TypeInv, RowLeft
  PROVE  /\ NewRow \in 1..MaxRows
         /\ \A i \in InLibrary : NewRow \notin RowsOf(library[i])
         /\ \A w \in Loaded : NewRow \notin RowsInHand(w)
<1> DEFINE U == UNION ({RowsOf(library[i]) : i \in InLibrary}
                       \cup {RowsInHand(w) : w \in Loaded})
<1>1. \A i \in InLibrary : RowsOf(library[i]) \subseteq 1..MaxRows
  BY StandardType, RowsTyped
<1>2. \A w \in Loaded : RowsInHand(w) \subseteq 1..MaxRows
  <2> SUFFICES ASSUME NEW w \in Loaded PROVE RowsInHand(w) \subseteq 1..MaxRows
    OBVIOUS
  <2>1. req[w].id # None => req[w].seen \in Standard
    BY InFlight DEF Loaded
  <2> QED
    BY <2>1, RowsTyped DEF RowsInHand
<1>3. U \in SUBSET (1..MaxRows)
  BY <1>1, <1>2
<1>4. IsFiniteSet(1..MaxRows) /\ Cardinality(1..MaxRows) = MaxRows
  BY StandardsAssumption, FS_Interval
<1>5. Cardinality(U) < MaxRows
  BY DEF RowLeft
<1> HIDE DEF U
<1>6. U # 1..MaxRows
  BY <1>4, <1>5, StandardsAssumption
<1>7. PICK n \in 1..MaxRows : n \notin U
  BY <1>3, <1>6
<1>8. /\ \A i \in InLibrary : n \notin RowsOf(library[i])
      /\ \A w \in Loaded : n \notin RowsInHand(w)
  BY <1>7 DEF U
<1> QED
  BY <1>8, Zenon DEF NewRow

LEMMA InsertedType ==
  ASSUME TypeInv, RowLeft, NEW rules \in SUBSET Rule
  PROVE  Inserted(rules) \subseteq RuleRow
BY RowNew DEF Inserted, RuleRow

-----------------------------------------------------------------------------
(* Writing to the library *)

\* A library that a request arrives at without deleting anything: the standards that
\* were there are there under their keys, others have ids that nobody knows.
Distinct(lib) ==
  \A i, j \in Ids : lib[i] # None /\ lib[j] # None /\ lib[i].key = lib[j].key => i = j
Kin(lib) ==
  /\ lib \in [Ids -> Standard \cup {None}]
  /\ Distinct(lib)
  /\ \A i \in InLibrary : lib[i] # None /\ lib[i].key = library[i].key
  /\ \A i \in Ids \ InLibrary : lib[i] # None => i \in NewIds(library)

LEMMA KinLibrary ==
  ASSUME Inv
  PROVE  Kin(library)
BY DEF Inv, TypeInv, TablesOK, Kin, Distinct, KeysUnique, InLibrary

LEMMA CreatedKin ==
  ASSUME Inv, RowLeft, NEW lib, Kin(lib), NEW key \in Keys, NEW form \in Form,
         NEW next \in Created(lib, key, form)
  PROVE  Kin(next)
<1> DEFINE new == [key |-> key, text |-> form.text, active |-> form.active,
                   mode |-> form.mode, rules |-> Inserted(form.rules)]
<1>1. PICK i \in NewIds(lib) : next = [lib EXCEPT ![i] = new]
  BY DEF Created
<1>2. WithKey(lib, key) = {}
  BY DEF Created, Taken
<1>3. form.rules \in SUBSET Rule /\ form.text \in Texts /\ form.active \in BOOLEAN
      /\ form.mode \in Modes
  BY DEF Form
<1>4. Inserted(form.rules) \subseteq RuleRow
  BY <1>3, InsertedType DEF Inv
<1>5. new \in Standard /\ new.key = key
  BY <1>3, <1>4 DEF Standard
<1> HIDE DEF new
<1>6. i \in Ids /\ lib[i] = None
  BY <1>1 DEF NewIds
<1>7. i \in NewIds(library) /\ i \notin InLibrary
  <2>1. i \notin InLibrary
    BY <1>6 DEF Kin
  <2> QED
    BY <1>1, <1>6, <2>1 DEF NewIds, InLibrary
<1>8. /\ next \in [Ids -> Standard \cup {None}] /\ next[i] = new
      /\ \A j \in Ids \ {i} : next[j] = lib[j]
  BY <1>1, <1>5, <1>6 DEF Kin
<1>9. Distinct(next)
  <2> SUFFICES ASSUME NEW x \in Ids, NEW y \in Ids, next[x] # None, next[y] # None,
                      next[x].key = next[y].key, x # y
               PROVE  FALSE
    BY DEF Distinct
  <2>1. CASE x = i
    BY <1>2, <1>5, <1>8, <2>1 DEF WithKey
  <2>2. CASE y = i
    BY <1>2, <1>5, <1>8, <2>2 DEF WithKey
  <2>3. CASE x # i /\ y # i
    BY <1>8, <2>3 DEF Kin, Distinct
  <2> QED
    BY <2>1, <2>2, <2>3
<1> QED
  BY <1>7, <1>8, <1>9 DEF Kin, InLibrary

LEMMA UpdatedKin ==
  ASSUME Inv, RowLeft, NEW lib, Kin(lib), NEW i \in Ids, NEW old, NEW patch \in Patch \cup Form,
         NEW next \in Updated(lib, i, old, patch)
  PROVE  /\ Kin(next) /\ lib[i] # None
         /\ \A j \in Ids \ {i} : next[j] = lib[j]
         /\ next[i].mode = Written(lib[i].mode, old.mode, patch.mode)
         /\ next[i].rules = Replaced(lib[i].rules, old.rules, patch.rules)
<1>1. lib[i] # None /\ lib[i] \in Standard
  BY DEF Updated, Kin
<1> DEFINE text == Written(lib[i].text, old.text, patch.text)
           active == Written(lib[i].active, old.active, patch.active)
           mode == Written(lib[i].mode, old.mode, patch.mode)
           rules == Replaced(lib[i].rules, old.rules, patch.rules)
           new == Merged(lib[i], old, patch)
<1>2. /\ patch.text \in Texts \cup {Keep} /\ patch.active \in BOOLEAN \cup {Keep}
      /\ patch.mode \in Modes \cup {Keep} /\ patch.rules \in (SUBSET Rule) \cup {Keep}
  BY DEF Patch, Form
<1>3. /\ lib[i].text \in Texts /\ lib[i].active \in BOOLEAN /\ lib[i].mode \in Modes
      /\ lib[i].rules \in SUBSET RuleRow /\ lib[i].key \in Keys
  BY <1>1 DEF Standard
<1>4. text \in Texts /\ mode \in Modes
  BY <1>2, <1>3 DEF Written, Put
<1>5. active \in BOOLEAN
  BY <1>2, <1>3, Zenon DEF Written, Put
<1>6. rules \in SUBSET RuleRow
  <2>1. CASE patch.rules = Keep
    BY <1>3, <2>1 DEF Replaced
  <2>2. CASE patch.rules # Keep
    <3>1. Inserted(patch.rules) \subseteq RuleRow
      BY <1>2, <2>2, InsertedType DEF Inv
    <3> QED
      BY <1>3, <2>2, <3>1 DEF Replaced
  <2> QED
    BY <2>1, <2>2
<1> HIDE DEF text, active, mode, rules
<1>7. new \in Standard /\ new.key = lib[i].key /\ new.mode = mode /\ new.rules = rules
  <2>1. new = [lib[i] EXCEPT !.text = text, !.active = active, !.mode = mode,
                             !.rules = rules]
    BY Zenon DEF Merged, text, active, mode, rules
  <2> HIDE DEF new
  <2> QED
    BY <1>1, <1>4, <1>5, <1>6, <2>1 DEF Standard
<1>8. next = [lib EXCEPT ![i] = new]
  BY <1>1 DEF Updated
<1> HIDE DEF new
<1>9. /\ next \in [Ids -> Standard \cup {None}] /\ next[i] = new
      /\ \A j \in Ids \ {i} : next[j] = lib[j]
  BY <1>7, <1>8 DEF Kin
<1>10. next[i] # None /\ next[i].key = lib[i].key
  BY <1>7, <1>9, StandardsAssumption
<1>11. \A j \in Ids : (next[j] # None <=> lib[j] # None)
                      /\ (next[j] # None => next[j].key = lib[j].key)
  BY <1>1, <1>9, <1>10
<1>12. Distinct(next)
  BY <1>11 DEF Kin, Distinct
<1> QED
  BY <1>1, <1>7, <1>9, <1>11, <1>12 DEF Kin, InLibrary, mode, rules

\* Keys to what RulesPresent rests on, beside TypeInv: forms that send a mode send the
\* rules with it, and what is in hand has passed its check.
FormsWhole ==
  \A w \in Workers : \A job \in JobsOf[w] :
    job.op = "update" => (job.patch.mode = Keep <=> job.patch.rules = Keep)
Ruled(form) == form.mode = "conditions" => form.rules # {}
Checked(w) ==
  LET job == req[w].job
  IN /\ job.op = "create" => Ruled(job.form)
     /\ job.op = "import" => \A n \in DOMAIN job.bundle : Ruled(job.bundle[n].form)
     /\ job.op = "duplicate" => Ruled(req[w].seen)
     /\ job.op = "update" => Ruled(job.patch)

\* A standard with conditions has a rule that no request in hand can take away without
\* taking the conditions away: those that saw it without conditions have not seen it.
SawAlways(w, i) ==
  req[w].id # None /\ req[w].id = i /\ req[w].seen.mode = "always"
Solid(lib) ==
  \A i \in Ids : lib[i] # None /\ lib[i].mode = "conditions" =>
    \E r \in lib[i].rules : \A w \in Loaded : SawAlways(w, i) => r \notin req[w].seen.rules
RulesInv == FormsWhole /\ Solid(library) /\ \A w \in Loaded : Checked(w)

\* Rules that are inserted are nobody's.
LEMMA InsertedNew ==
  ASSUME TypeInv, RowLeft, NEW rules, rules # {}
  PROVE  \E r \in Inserted(rules) :
           \A w \in Loaded : req[w].id # None => r \notin req[w].seen.rules
<1>1. PICK rule \in rules : TRUE
  OBVIOUS
<1> DEFINE r == [rule |-> rule, row |-> NewRow]
<1>2. r \in Inserted(rules) /\ r.row = NewRow
  BY <1>1 DEF Inserted
<1> HIDE DEF r
<1>3. ASSUME NEW w \in Loaded, req[w].id # None
      PROVE  r \notin req[w].seen.rules
  <2>1. req[w].seen \in Standard
    BY <1>3, InFlight DEF Loaded
  <2>2. NewRow \notin RowsOf(req[w].seen)
    BY <1>3, <2>1, RowNew, StandardsAssumption DEF RowsInHand
  <2> QED
    BY <1>2, <2>2 DEF RowsOf
<1> QED
  BY <1>2, <1>3

LEMMA CreatedSolid ==
  ASSUME Inv, RowLeft, NEW lib, Kin(lib), Solid(lib), NEW key \in Keys, NEW form \in Form,
         Ruled(form), NEW next \in Created(lib, key, form)
  PROVE  Solid(next)
<1> DEFINE new == [key |-> key, text |-> form.text, active |-> form.active,
                   mode |-> form.mode, rules |-> Inserted(form.rules)]
<1>1. PICK i \in NewIds(lib) : next = [lib EXCEPT ![i] = new]
  BY DEF Created
<1>2. new.mode = form.mode /\ new.rules = Inserted(form.rules)
  OBVIOUS
<1> HIDE DEF new
<1>3. i \in Ids /\ \A w \in Loaded : i \notin InHand(w)
  BY <1>1 DEF NewIds
<1>4. next[i] = new /\ \A j \in Ids \ {i} : next[j] = lib[j]
  BY <1>1, <1>3 DEF Kin
<1>5. ASSUME NEW w \in Loaded, req[w].id # None
      PROVE  req[w].id # i
  <2>1. req[w].job.op # "start"
    BY <1>5, InFlight DEF Loaded, Inv, RequestOK, OnStandard
  <2>2. i # req[w].id
    BY <1>3, <2>1 DEF InHand
  <2> QED
    BY <2>2
<1>6. form.mode = "conditions" => \E r \in Inserted(form.rules) : TRUE
  BY InsertedNew DEF Ruled, Inv
<1> SUFFICES ASSUME NEW j \in Ids, next[j] # None, next[j].mode = "conditions"
             PROVE  \E r \in next[j].rules :
                      \A w \in Loaded : SawAlways(w, j) => r \notin req[w].seen.rules
  BY DEF Solid
<1>7. CASE j = i
  BY <1>2, <1>4, <1>5, <1>6, <1>7 DEF SawAlways
<1>8. CASE j # i
  BY <1>4, <1>8 DEF Solid
<1> QED
  BY <1>7, <1>8

\* Saving a standard, over one that was read with conditions or that is in hand.
LEMMA UpdatedSolid ==
  ASSUME Inv, RowLeft, NEW lib, Kin(lib), Solid(lib), NEW i \in Ids, NEW old,
         NEW patch \in Patch \cup Form, Ruled(patch),
         patch.mode = Keep <=> patch.rules = Keep,
         \/ old = lib[i]
         \/ \E w \in Loaded : req[w].id = i /\ req[w].id # None /\ req[w].seen = old,
         NEW next \in Updated(lib, i, old, patch)
  PROVE  Solid(next)
<1>1. /\ lib[i] # None
      /\ \A j \in Ids \ {i} : next[j] = lib[j]
      /\ next[i].mode = Written(lib[i].mode, old.mode, patch.mode)
      /\ next[i].rules = Replaced(lib[i].rules, old.rules, patch.rules)
  BY UpdatedKin
<1>2. patch.mode \in Modes \cup {Keep}
  BY DEF Patch, Form
<1>3. Keep # "conditions" /\ Keep # "always"
  BY StandardsAssumption DEF Modes
<1> SUFFICES ASSUME NEW j \in Ids, next[j] # None, next[j].mode = "conditions"
             PROVE  \E r \in next[j].rules :
                      \A w \in Loaded : SawAlways(w, j) => r \notin req[w].seen.rules
  BY DEF Solid
<1>4. CASE j # i
  BY <1>1, <1>4 DEF Solid
<1>5. CASE j = i /\ patch.mode = Keep
  BY <1>1, <1>5 DEF Solid, Written, Replaced
<1>6. CASE j = i /\ patch.mode = "conditions"
  <2>1. patch.rules # Keep /\ patch.rules # {}
    BY <1>3, <1>6 DEF Ruled
  <2>2. Inserted(patch.rules) \subseteq next[i].rules
    BY <1>1, <2>1 DEF Replaced
  <2> QED
    BY <1>6, <2>1, <2>2, InsertedNew DEF SawAlways, Inv
<1>7. CASE j = i /\ patch.mode = "always"
  <2>1. lib[i].mode = "conditions" /\ old.mode = "always"
    BY <1>1, <1>3, <1>7 DEF Written, Put
  <2>2. PICK r \in lib[i].rules :
          \A w \in Loaded : SawAlways(w, i) => r \notin req[w].seen.rules
    BY <1>1, <2>1 DEF Solid
  <2>3. PICK v \in Loaded : req[v].id = i /\ req[v].id # None /\ req[v].seen = old
    BY <2>1
  <2>4. r \notin old.rules
    BY <2>1, <2>2, <2>3 DEF SawAlways
  <2>5. r \in next[i].rules
    BY <1>1, <1>3, <1>7, <2>2, <2>4 DEF Replaced
  <2> QED
    BY <1>7, <2>2, <2>5
<1> QED
  BY <1>2, <1>4, <1>5, <1>6, <1>7 DEF Modes

-----------------------------------------------------------------------------
(* Importing a bundle *)

\* What every item of a bundle keeps of the library.
Good(lib) == Kin(lib) /\ (RulesInv => Solid(lib))

LEMMA ItemType ==
  ASSUME TypeInv, NEW w \in Loaded, req[w].job.op = "import",
         NEW n \in DOMAIN req[w].job.bundle
  PROVE  /\ req[w].job.bundle[n].key \in Keys /\ req[w].job.bundle[n].form \in Form
         /\ req[w].job.bundle[n].form.mode # Keep /\ req[w].job.bundle[n].form.rules # Keep
<1> DEFINE Item == [key : Keys, form : Form]
           bundle == req[w].job.bundle
<1>1. bundle \in Seq(Item)
  BY InFlight, JobTypes DEF Loaded
<1>2. bundle[n] \in Item
  <2> HIDE DEF Item, bundle
  <2>1. n \in DOMAIN bundle
    BY DEF bundle
  <2> QED
    BY <1>1, <2>1
<1> DEFINE form == req[w].job.bundle[n].form
<1>3. req[w].job.bundle[n].key \in Keys /\ form \in Form
  BY <1>2
<1> HIDE DEF form
<1>4. form.mode \in Modes /\ form.rules \in SUBSET Rule
  BY <1>3 DEF Form
<1>5. form.mode # Keep /\ form.rules # Keep
  BY <1>4, StandardsAssumption
<1> QED
  BY <1>3, <1>5 DEF form

LEMMA UpsertedGood ==
  ASSUME Inv, RowLeft, NEW w \in Loaded, req[w].job.op = "import",
         NEW n \in DOMAIN req[w].job.bundle, NEW lib, Good(lib),
         NEW next \in Upserted(lib, req[w].job.bundle[n])
  PROVE  Good(next)
<1> DEFINE item == req[w].job.bundle[n]
<1>1. /\ item.key \in Keys /\ item.form \in Form
      /\ item.form.mode # Keep /\ item.form.rules # Keep
  BY ItemType DEF Inv
<1>2. RulesInv => Ruled(item.form)
  BY DEF RulesInv, Checked
<1> HIDE DEF item
<1>3. CASE next \in Created(lib, item.key, item.form)
  <2>1. Kin(next)
    BY <1>1, <1>3, CreatedKin DEF Good
  <2>2. RulesInv => Solid(next)
    BY <1>1, <1>2, <1>3, CreatedSolid DEF Good
  <2> QED
    BY <2>1, <2>2 DEF Good
<1>4. ASSUME NEW i \in WithKey(lib, item.key), next \in Updated(lib, i, lib[i], item.form)
      PROVE  Good(next)
  <2>1. i \in Ids /\ item.form \in Patch \cup Form
    BY <1>1 DEF WithKey
  <2>2. Kin(next)
    BY <1>4, <2>1, UpdatedKin DEF Good
  <2>3. RulesInv => Solid(next)
    BY <1>1, <1>2, <1>4, <2>1, UpdatedSolid DEF Good
  <2> QED
    BY <2>2, <2>3 DEF Good
<1>5. next \in Upserted(lib, item)
  BY DEF item
<1> QED
  BY <1>3, <1>4, <1>5 DEF Upserted

LEMMA FirstGood ==
  ASSUME Inv, RowLeft, NEW w \in Loaded, req[w].job.op = "import", NEW next \in First(w)
  PROVE  Good(next)
<1> DEFINE item == Head(req[w].job.bundle)
<1>1. /\ 1 \in DOMAIN req[w].job.bundle /\ item = req[w].job.bundle[1]
  BY InFlight, JobTypes DEF Loaded, Inv
<1>2. /\ item.key \in Keys /\ item.form \in Form
      /\ item.form.mode # Keep /\ item.form.rules # Keep
  BY <1>1, ItemType DEF Inv
<1>3. RulesInv => Ruled(item.form)
  BY <1>1 DEF RulesInv, Checked
<1>4. Kin(library) /\ (RulesInv => Solid(library))
  BY KinLibrary DEF RulesInv
<1>5. next \in IF req[w].id = None THEN Created(library, item.key, item.form)
               ELSE Updated(library, req[w].id, req[w].seen, item.form)
  BY DEF First
<1> HIDE DEF item
<1>6. CASE req[w].id = None
  <2>1. Kin(next)
    BY <1>2, <1>4, <1>5, <1>6, CreatedKin
  <2>2. RulesInv => Solid(next)
    BY <1>2, <1>3, <1>4, <1>5, <1>6, CreatedSolid
  <2> QED
    BY <2>1, <2>2 DEF Good
<1>7. CASE req[w].id # None
  <2>1. req[w].id \in Ids /\ item.form \in Patch \cup Form
    BY <1>2, <1>7, InFlight DEF Loaded, Inv
  <2>2. next \in Updated(library, req[w].id, req[w].seen, item.form)
    BY <1>5, <1>7
  <2>3. Kin(next)
    BY <1>4, <2>1, <2>2, UpdatedKin
  <2>4. RulesInv => Solid(next)
    BY <1>2, <1>3, <1>4, <1>7, <2>1, <2>2, UpdatedSolid
  <2> QED
    BY <2>3, <2>4 DEF Good
<1> QED
  BY <1>6, <1>7

\* The libraries after each item: those of the recursion, as far as it goes.
After(w, n, before) ==
  IF n = 1 THEN First(w)
  ELSE UNION {Upserted(lib, req[w].job.bundle[n]) : lib \in before}
Chain(w, last, libs) == libs = [n \in 1..last |-> After(w, n, libs[n - 1])]

LEMMA ChainExists ==
  ASSUME NEW w, NEW last \in Nat
  PROVE  \E libs : Chain(w, last, libs)
<1> DEFINE S == {m \in Nat : ~\E libs : Chain(w, m, libs)}
<1>1. ASSUME S # {}
      PROVE  FALSE
  <2>1. PICK m \in S : \A k \in S : m <= k
    BY <1>1, LeastNat
  <2>2. m \in Nat /\ ~\E libs : Chain(w, m, libs)
    OBVIOUS
  <2>3. CASE m = 0
    <3>1. Chain(w, 0, [n \in 1..0 |-> {}])
      BY DEF Chain
    <3> QED
      BY <2>2, <2>3, <3>1
  <2>4. CASE m # 0
    <3>1. m - 1 \in Nat /\ m - 1 \notin S
      BY <2>1, <2>2, <2>4
    <3>2. PICK libs : Chain(w, m - 1, libs)
      BY <3>1
    <3> DEFINE longer == [n \in 1..m |-> After(w, n, libs[n - 1])]
    <3>3. ASSUME NEW n \in 1..m
          PROVE  After(w, n, libs[n - 1]) = After(w, n, longer[n - 1])
      <4>1. CASE n = 1
        BY <4>1 DEF After
      <4>2. CASE n # 1
        <5>1. n - 1 \in 1..(m - 1) /\ n - 1 \in 1..m
          BY <2>2, <4>2
        <5>2. libs[n - 1] = After(w, n - 1, libs[n - 2])
          BY <3>2, <5>1 DEF Chain
        <5>3. longer[n - 1] = After(w, n - 1, libs[n - 2])
          BY <5>1
        <5> QED
          BY <5>2, <5>3
      <4> QED
        BY <4>1, <4>2
    <3>4. Chain(w, m, longer)
      BY <3>3 DEF Chain
    <3> QED
      BY <2>2, <3>4
  <2> QED
    BY <2>3, <2>4
<1> QED
  BY <1>1

LEMMA ImportedChain ==
  ASSUME NEW w, DOMAIN req[w].job.bundle = 1..Len(req[w].job.bundle),
         Len(req[w].job.bundle) \in Nat
  PROVE  \E libs : /\ Chain(w, Len(req[w].job.bundle), libs)
                   /\ Imported(w) = libs[Len(req[w].job.bundle)]
<1> DEFINE bundle == req[w].job.bundle
           last == Len(bundle)
           Solves(g) == g = [n \in DOMAIN bundle |->
                               IF n = 1 THEN First(w)
                               ELSE UNION {Upserted(lib, bundle[n]) : lib \in g[n - 1]}]
           libs == CHOOSE g : Solves(g)
<1>1. PICK g : Chain(w, last, g)
  BY ChainExists
<1>2. Solves(g)
  BY <1>1, Zenon DEF Chain, After
<1>3. Solves(libs)
  BY <1>2, Zenon
<1>4. Imported(w) = libs[last]
  BY Zenon DEF Imported
<1>5. Chain(w, last, libs)
  BY <1>3, Zenon DEF Chain, After
<1> QED
  BY <1>4, <1>5

LEMMA ImportedGood ==
  ASSUME Inv, RowLeft, NEW w \in Loaded, req[w].job.op = "import", NEW next \in Imported(w)
  PROVE  Good(next)
<1> DEFINE bundle == req[w].job.bundle
           last == Len(bundle)
<1>1. bundle \in Seq([key : Keys, form : Form]) \ {<<>>}
  BY InFlight, JobTypes DEF Loaded, Inv
<1>2. last \in Nat \ {0} /\ DOMAIN bundle = 1..last
  BY <1>1
<1>3. PICK libs : Chain(w, last, libs) /\ Imported(w) = libs[last]
  BY <1>2, ImportedChain
<1> DEFINE S == {m \in Nat : m \in 1..last /\ \E lib \in libs[m] : ~Good(lib)}
<1>4. ASSUME S # {}
      PROVE  FALSE
  <2>1. PICK m \in S : \A k \in S : m <= k
    BY <1>4, LeastNat
  <2>2. PICK lib \in libs[m] : ~Good(lib)
    OBVIOUS
  <2>3. m \in 1..last /\ libs[m] = After(w, m, libs[m - 1])
    BY <1>3 DEF Chain
  <2>4. CASE m = 1
    BY <2>2, <2>3, <2>4, FirstGood DEF After
  <2>5. CASE m # 1
    <3>1. m - 1 \in Nat /\ m - 1 \in 1..last /\ m - 1 \notin S
      BY <1>2, <2>1, <2>3, <2>5
    <3>2. \A before \in libs[m - 1] : Good(before)
      BY <3>1
    <3>3. PICK before \in libs[m - 1] : lib \in Upserted(before, bundle[m])
      BY <2>2, <2>3, <2>5 DEF After
    <3>4. m \in DOMAIN bundle
      BY <1>2, <2>3
    <3> QED
      BY <2>2, <3>2, <3>3, <3>4, UpsertedGood
  <2> QED
    BY <2>4, <2>5
<1>5. last \in 1..last /\ last \in Nat
  BY <1>2
<1> QED
  BY <1>3, <1>4, <1>5

-----------------------------------------------------------------------------
(* Steps on the library *)

LEMMA LibraryStep ==
  ASSUME Inv, NEW w \in Workers, Finish(w), Kin(library'),
         UNCHANGED <<status, context, frozen, finding>>
  PROVE  Inv'
<1>1. TablesOK'
  BY DEF Inv, TypeInv, TablesOK, Kin
<1>2. Lasting
  <2> SUFFICES ASSUME NEW v \in Loaded, req[v].job.op = "start", req[v].seen # None,
                      NEW i \in DOMAIN req[v].seen, library'[i] # None
               PROVE  library[i] # None /\ library'[i].key = library[i].key
    BY DEF Lasting, Frozen
  <2>1. WellRead(req[v].job, req[v].seen)
    BY InFlight DEF Loaded, Inv
  <2>2. i \in Ids
    BY <2>1 DEF WellRead
  <2>3. i \in InHand(v)
    BY DEF InHand
  <2>4. i \notin NewIds(library)
    BY <2>3 DEF NewIds
  <2>5. i \in InLibrary
    BY <2>2, <2>4 DEF Kin
  <2> QED
    BY <2>5 DEF Kin, InLibrary
<1>3. TypeInv'
  BY <1>1, <1>2, FinishKeeps DEF Inv
<1>4. KeysUnique'
  BY DEF KeysUnique, Kin, Distinct, InLibrary
<1>5. SourceExists'
  BY DEF Inv, SourceExists, Kin, InLibrary, Frozen
<1> QED
  BY <1>3, <1>4, <1>5 DEF Inv

\* A request that ends leaves fewer in hand.
LEMMA FinishRules ==
  ASSUME TypeInv, RulesInv, NEW w \in Workers, Finish(w), Solid(library')
  PROVE  RulesInv'
<1>1. \A v \in Loaded' : v \in Loaded /\ req'[v] = req[v]
  BY DEF Finish, Loaded, TypeInv
<1>2. \A v \in Loaded' : Checked(v)'
  BY <1>1 DEF RulesInv, Checked
<1>3. Solid(library)'
  BY <1>1 DEF Solid, SawAlways
<1> QED
  BY <1>2, <1>3 DEF RulesInv

LEMMA CreateStep ==
  ASSUME Inv, NEW w \in Workers, Create(w)
  PROVE  Inv' /\ (RulesInv => RulesInv')
<1>1. /\ w \in Loaded /\ req[w].job.op = "create" /\ RowLeft /\ Finish(w)
      /\ library' \in Created(library, req[w].job.key, req[w].job.form)
      /\ UNCHANGED <<status, context, frozen, finding>>
  BY DEF Create, Serves, Loaded
<1>2. req[w].job.key \in Keys /\ req[w].job.form \in Form
  BY <1>1, InFlight, JobTypes DEF Loaded, Inv
<1>3. Kin(library')
  BY <1>1, <1>2, KinLibrary, CreatedKin
<1>4. RulesInv => Solid(library')
  BY <1>1, <1>2, KinLibrary, CreatedSolid DEF RulesInv, Checked
<1> QED
  BY <1>1, <1>3, <1>4, LibraryStep, FinishRules DEF Inv

LEMMA UpdateStep ==
  ASSUME Inv, NEW w \in Workers, Update(w)
  PROVE  Inv' /\ (RulesInv => RulesInv')
<1>1. /\ w \in Loaded /\ req[w].job.op = "update" /\ RowLeft /\ Finish(w)
      /\ library' \in Updated(library, req[w].id, req[w].seen, req[w].job.patch)
      /\ UNCHANGED <<status, context, frozen, finding>>
  BY DEF Update, Serves, Loaded
<1>2. /\ req[w].job.patch \in Patch \cup Form /\ req[w].id \in Ids /\ req[w].id # None
      /\ req[w].job \in JobsOf[w]
  BY <1>1, InFlight, JobTypes DEF Loaded, Inv, RequestOK, OnStandard
<1>3. Kin(library')
  BY <1>1, <1>2, KinLibrary, UpdatedKin
<1>4. ASSUME RulesInv PROVE Solid(library')
  <2>1. /\ Ruled(req[w].job.patch) /\ Solid(library)
        /\ req[w].job.patch.mode = Keep <=> req[w].job.patch.rules = Keep
    BY <1>1, <1>2, <1>4 DEF RulesInv, Checked, FormsWhole
  <2> QED
    BY <1>1, <1>2, <2>1, KinLibrary, UpdatedSolid
<1> QED
  BY <1>1, <1>3, <1>4, LibraryStep, FinishRules DEF Inv

LEMMA DuplicateStep ==
  ASSUME Inv, NEW w \in Workers, Duplicate(w)
  PROVE  Inv' /\ (RulesInv => RulesInv')
<1> DEFINE form == [req[w].seen EXCEPT !.active = FALSE, !.rules = Rules(req[w].seen)]
<1>1. /\ w \in Loaded /\ req[w].job.op = "duplicate" /\ RowLeft /\ Finish(w)
      /\ library' \in Created(library, req[w].copy, form)
      /\ UNCHANGED <<status, context, frozen, finding>>
  BY DEF Duplicate, Serves, Loaded
<1>2. req[w].copy \in Keys /\ req[w].seen \in Standard
  BY <1>1, InFlight DEF Loaded, Inv, RequestOK, OnStandard
<1> DEFINE copied == [text |-> req[w].seen.text, active |-> FALSE, mode |-> req[w].seen.mode,
                      rules |-> Rules(req[w].seen)]
<1>3. copied \in Form
  BY <1>2, RowsTyped DEF Form, Standard
<1>4. Created(library, req[w].copy, form) = Created(library, req[w].copy, copied)
  <2>1. /\ form.text = copied.text /\ form.active = copied.active
        /\ form.mode = copied.mode /\ form.rules = copied.rules
    BY <1>2 DEF Standard
  <2> HIDE DEF form, copied
  <2> QED
    BY <2>1 DEF Created
<1>5. RulesInv => Ruled(copied)
  <2>1. RulesInv => Ruled(req[w].seen)
    BY <1>1 DEF RulesInv, Checked
  <2>2. req[w].seen.rules # {} => Rules(req[w].seen) # {}
    BY DEF Rules
  <2> QED
    BY <2>1, <2>2 DEF Ruled
<1> HIDE DEF form, copied
<1>6. Kin(library')
  BY <1>1, <1>2, <1>3, <1>4, KinLibrary, CreatedKin
<1>7. RulesInv => Solid(library')
  BY <1>1, <1>2, <1>3, <1>4, <1>5, KinLibrary, CreatedSolid DEF RulesInv
<1> QED
  BY <1>1, <1>6, <1>7, LibraryStep, FinishRules DEF Inv

LEMMA ImportStep ==
  ASSUME Inv, NEW w \in Workers, Import(w)
  PROVE  Inv' /\ (RulesInv => RulesInv')
<1>1. /\ w \in Loaded /\ req[w].job.op = "import" /\ RowLeft /\ Finish(w)
      /\ library' \in Imported(w)
      /\ UNCHANGED <<status, context, frozen, finding>>
  BY DEF Import, Serves, Loaded
<1>2. Kin(library') /\ (RulesInv => Solid(library'))
  BY <1>1, ImportedGood DEF Good
<1> QED
  BY <1>1, <1>2, LibraryStep, FinishRules DEF Inv

LEMMA SetActiveStep ==
  ASSUME Inv, NEW w \in Workers, SetActive(w)
  PROVE  Inv' /\ (RulesInv => RulesInv')
<1> DEFINE i == req[w].id
           active == Put(library[i].active, req[w].seen.active, req[w].job.active)
<1>1. /\ w \in Loaded /\ req[w].job.op = "toggle" /\ library[i] # None /\ Finish(w)
      /\ library' = [library EXCEPT ![i].active = active]
      /\ UNCHANGED <<status, context, frozen, finding>>
  BY DEF SetActive, Serves, Loaded
<1>2. i \in Ids /\ library[i] \in Standard
  BY <1>1, InFlight DEF Loaded, Inv, RequestOK, OnStandard, TypeInv, TablesOK
<1>3. active \in BOOLEAN
  <2>1. req[w].job.active \in BOOLEAN
    BY <1>1, InFlight, JobTypes DEF Loaded, Inv
  <2>2. library[i].active \in BOOLEAN
    BY <1>2 DEF Standard
  <2> QED
    BY <2>1, <2>2, Zenon DEF Put
<1> HIDE DEF i, active
<1> DEFINE new == [library[i] EXCEPT !.active = active]
<1>4. /\ new \in Standard /\ new.key = library[i].key /\ new.mode = library[i].mode
      /\ new.rules = library[i].rules
  BY <1>2, <1>3 DEF Standard
<1>5. library' = [library EXCEPT ![i] = new]
  BY <1>1
<1> HIDE DEF new
<1>6. /\ library' \in [Ids -> Standard \cup {None}] /\ library'[i] = new /\ new # None
      /\ \A j \in Ids \ {i} : library'[j] = library[j]
  BY <1>2, <1>4, <1>5, StandardsAssumption DEF Inv, TypeInv, TablesOK
<1>7. \A j \in Ids : /\ library'[j] # None <=> library[j] # None
                     /\ library'[j] # None => library'[j].key = library[j].key
                     /\ library'[j] # None => library'[j].mode = library[j].mode
                     /\ library'[j] # None => library'[j].rules = library[j].rules
  BY <1>1, <1>2, <1>4, <1>6
<1>8. Kin(library')
  BY <1>6, <1>7, KinLibrary DEF Kin, Distinct, InLibrary
<1>9. Solid(library) => Solid(library')
  BY <1>7 DEF Solid
<1> QED
  BY <1>1, <1>8, <1>9, LibraryStep, FinishRules DEF Inv, RulesInv

LEMMA DeleteStep ==
  ASSUME Inv, NEW w \in Workers, Delete(w)
  PROVE  Inv' /\ (RulesInv => RulesInv')
<1> DEFINE i == req[w].id
<1>1. /\ w \in Loaded /\ req[w].job.op = "delete" /\ Finish(w)
      /\ library' = [library EXCEPT ![i] = None] /\ frozen' = SourceCleared(i)
      /\ UNCHANGED <<status, context, finding>>
  BY DEF Delete, Serves, Loaded
<1>2. i \in Ids
  BY <1>1, InFlight DEF Loaded, Inv, RequestOK, OnStandard
<1> HIDE DEF i
<1>3. /\ library' \in [Ids -> Standard \cup {None}] /\ library'[i] = None
      /\ \A j \in Ids \ {i} : library'[j] = library[j]
  BY <1>1, <1>2 DEF Inv, TypeInv, TablesOK
<1>4. ASSUME NEW k \in Keys
      PROVE  /\ frozen'[k] \in Snapshot \cup {None}
             /\ frozen'[k] = None <=> frozen[k] = None
             /\ frozen'[k] # None => \/ frozen'[k] = frozen[k] /\ frozen[k].source # i
                                     \/ frozen'[k].source = None
  <2>1. frozen'[k] = IF k \in Frozen /\ frozen[k].source = i
                     THEN [frozen[k] EXCEPT !.source = None] ELSE frozen[k]
    BY <1>1 DEF SourceCleared
  <2>2. CASE k \in Frozen /\ frozen[k].source = i
    <3>1. frozen[k] \in Snapshot /\ frozen[k] # None
      BY <2>2, FrozenType DEF Inv, Frozen
    <3>2. /\ [frozen[k] EXCEPT !.source = None] \in Snapshot
          /\ [frozen[k] EXCEPT !.source = None].source = None
      BY <3>1 DEF Snapshot
    <3> QED
      BY <2>1, <2>2, <3>1, <3>2, StandardsAssumption
  <2>3. CASE ~(k \in Frozen /\ frozen[k].source = i)
    BY <2>1, <2>3 DEF Inv, TypeInv, TablesOK, Frozen
  <2> QED
    BY <2>2, <2>3
<1>5. frozen' = [k \in Keys |-> frozen'[k]]
  BY <1>1 DEF SourceCleared
<1>6. frozen' \in [Keys -> Snapshot \cup {None}]
  BY <1>4, <1>5
<1>7. TablesOK'
  BY <1>1, <1>3, <1>4, <1>6 DEF Inv, TypeInv, TablesOK
<1>8. Lasting
  <2>1. Frozen \subseteq Frozen'
    BY <1>4 DEF Frozen
  <2>2. ASSUME NEW v \in Loaded, req[v].job.op = "start", req[v].seen # None,
               NEW j \in DOMAIN req[v].seen, library'[j] # None
        PROVE  library[j] # None /\ library'[j].key = library[j].key
    <3>1. WellRead(req[v].job, req[v].seen)
      BY <2>2, InFlight DEF Loaded, Inv
    <3>2. j \in Ids
      BY <2>2, <3>1 DEF WellRead
    <3> QED
      BY <1>3, <2>2, <3>2
  <2> QED
    BY <1>1, <2>1, <2>2 DEF Lasting
<1>9. TypeInv'
  BY <1>1, <1>7, <1>8, FinishKeeps DEF Inv
<1>10. KeysUnique'
  BY <1>3 DEF Inv, KeysUnique, InLibrary
<1>11. SourceExists'
  BY <1>3, <1>4 DEF Inv, SourceExists, InLibrary, Frozen
<1>12. Solid(library) => Solid(library')
  BY <1>3 DEF Solid
<1> QED
  BY <1>1, <1>9, <1>10, <1>11, <1>12, FinishRules DEF Inv, RulesInv

-----------------------------------------------------------------------------
(* Steps on the assessment *)

LEMMA AssessmentStep ==
  ASSUME Inv, NEW w \in Workers, Finish(w), UNCHANGED library, TablesOK', SourceExists',
         Frozen \subseteq Frozen', context \in Context => context' \in Context
  PROVE  Inv' /\ (RulesInv => RulesInv')
<1>1. Lasting
  BY DEF Lasting
<1>2. TypeInv'
  BY <1>1, FinishKeeps DEF Inv
<1>3. KeysUnique'
  BY DEF Inv, KeysUnique, InLibrary
<1>4. Solid(library) => Solid(library')
  BY DEF Solid
<1> QED
  BY <1>2, <1>3, <1>4, FinishRules DEF Inv, RulesInv

LEMMA QuietStep ==
  ASSUME Inv, NEW w \in Workers, Finish(w), UNCHANGED <<library, frozen, finding>>,
         status' \in Statuses, context' \in Context \cup {None},
         context \in Context => context' \in Context
  PROVE  Inv' /\ (RulesInv => RulesInv')
<1>1. TablesOK'
  BY DEF Inv, TypeInv, TablesOK
<1>2. SourceExists' /\ Frozen' = Frozen
  BY DEF Inv, SourceExists, Frozen, InLibrary
<1> QED
  BY <1>1, <1>2, AssessmentStep

LEMMA AbortStep ==
  ASSUME Inv, NEW w \in Workers, Abort(w)
  PROVE  Inv' /\ (RulesInv => RulesInv')
BY QuietStep DEF Abort, Inv, TypeInv, TablesOK

LEMMA MoveStep ==
  ASSUME Inv, NEW w \in Workers, Move(w)
  PROVE  Inv' /\ (RulesInv => RulesInv')
<1>1. w \in Loaded /\ req[w].job.op = "move"
  BY DEF Move, Serves, Loaded
<1>2. req[w].job.to \in Statuses
  BY <1>1, InFlight, JobTypes DEF Loaded, Inv
<1> QED
  BY <1>2, QuietStep DEF Move, Inv, TypeInv, TablesOK

LEMMA SetContextStep ==
  ASSUME Inv, NEW w \in Workers, SetContext(w)
  PROVE  Inv' /\ (RulesInv => RulesInv')
<1> DEFINE old == req[w].seen
           new == req[w].job.to
<1>1. /\ w \in Loaded /\ req[w].job.op = "context" /\ Finish(w)
      /\ IF old = None THEN context = None /\ context' = new
         ELSE context' = [f \in Facts |-> Put(context[f], old[f], new[f])]
      /\ UNCHANGED <<status, library, frozen, finding>>
  BY DEF SetContext, Serves, Loaded
<1>2. new \in Context /\ old \in Context \cup {None} /\ (old # None => context \in Context)
  BY <1>1, InFlight, JobTypes DEF Loaded, Inv, WellRead, RequestOK
<1> HIDE DEF old, new
<1>3. context' \in Context
  <2>1. CASE old = None
    BY <1>1, <1>2, <2>1
  <2>2. CASE old # None
    <3>1. \A f \in Facts : context[f] \in BOOLEAN /\ new[f] \in BOOLEAN
      BY <1>2, <2>2 DEF Context
    <3>2. \A f \in Facts : Put(context[f], old[f], new[f]) \in BOOLEAN
      BY <3>1, Zenon DEF Put
    <3> QED
      BY <1>1, <2>2, <3>2, Zenon DEF Context
  <2> QED
    BY <2>1, <2>2
<1> QED
  BY <1>1, <1>3, QuietStep DEF Inv, TypeInv, TablesOK

\* What starting adds, all of it under new keys and from standards in the library.
LEMMA StartAdds ==
  ASSUME Inv, NEW w \in Workers, Start(w)
  PROVE  \E keys \in SUBSET Keys :
           /\ keys \cap Frozen = {} /\ Frozen' = Frozen \cup keys
           /\ \A k \in Keys \ keys : frozen'[k] = frozen[k] /\ finding'[k] = finding[k]
           /\ \A k \in keys :
                /\ frozen'[k] \in Snapshot
                /\ frozen'[k].source \in InLibrary /\ library[frozen'[k].source].key = k
                /\ finding'[k] = [status |-> "insufficient_evidence", edited |-> FALSE]
           /\ frozen' = [k \in Keys |-> frozen'[k]] /\ finding' = [k \in Keys |-> finding'[k]]
           /\ req[w].seen = None => keys = {}
           /\ library' = library /\ context' = context /\ Finish(w)
           /\ req[w] # Idle /\ req[w].job.op = "start"
<1> DEFINE seen == req[w].seen
           row == [i \in Adds(seen) |-> IF seen = None THEN library[i] ELSE seen[i]]
           from(k) == CHOOSE i \in Adds(seen) : row[i].key = k
           keys == {row[i].key : i \in Adds(seen)}
           made(k) == [source |-> from(k), definition |-> Define(row[from(k)])]
<1>1. /\ w \in Loaded /\ req[w].job.op = "start" /\ Finish(w)
      /\ keys \cap Frozen = {} /\ Adds(seen) \subseteq InLibrary
      /\ frozen' = [k \in Keys |-> IF k \notin keys THEN frozen[k] ELSE made(k)]
      /\ finding' = Opened(keys)
      /\ UNCHANGED <<library, context>>
  BY DEF Start, Serves, Loaded
<1>2. seen # None => /\ DOMAIN seen \subseteq Ids /\ \A i \in DOMAIN seen : seen[i] \in Standard
                     /\ \A i \in DOMAIN seen : library[i] # None => library[i].key = seen[i].key
  BY <1>1, InFlight DEF Loaded, Inv, WellRead, RequestOK
<1>3. seen = None => Adds(seen) = {}
  BY DEF Adds
<1>4. ASSUME NEW i \in Adds(seen)
      PROVE  /\ i \in Ids /\ row[i] \in Standard /\ i \in InLibrary
             /\ library[i].key = row[i].key
  <2>1. seen # None /\ i \in DOMAIN seen /\ row[i] = seen[i]
    BY <1>3 DEF Adds
  <2> QED
    BY <1>1, <1>2, <2>1 DEF InLibrary
<1> HIDE DEF row
<1>5. ASSUME NEW k \in keys
      PROVE  /\ k \in Keys /\ from(k) \in Adds(seen) /\ row[from(k)].key = k
  <2>1. PICK i \in Adds(seen) : row[i].key = k
    OBVIOUS
  <2>2. from(k) \in Adds(seen) /\ row[from(k)].key = k
    BY <2>1
  <2>3. k \in Keys
    BY <1>4, <2>1 DEF Standard
  <2> QED
    BY <2>2, <2>3
<1>6. seen = None => keys = {}
  BY <1>3
<1> HIDE DEF from, keys, seen
<1>7. ASSUME NEW k \in keys
      PROVE  /\ frozen'[k] = made(k) /\ made(k) \in Snapshot
             /\ made(k).source \in InLibrary /\ library[made(k).source].key = k
  <2>1. row[from(k)] \in Standard /\ from(k) \in Ids /\ from(k) \in InLibrary
        /\ library[from(k)].key = k
    BY <1>4, <1>5
  <2>2. Rules(row[from(k)]) \subseteq Rule
    BY <2>1, RowsTyped
  <2>3. Define(row[from(k)]) \in Definition
    BY <2>1, <2>2 DEF Define, Definition, Standard
  <2>4. made(k) \in Snapshot
    BY <2>1, <2>3 DEF Snapshot
  <2> QED
    BY <1>1, <1>5, <2>1, <2>4
<1> HIDE DEF made
<1>8. /\ keys \in SUBSET Keys
      /\ \A k \in Keys \ keys : frozen'[k] = frozen[k] /\ finding'[k] = finding[k]
      /\ \A k \in keys : finding'[k] = [status |-> "insufficient_evidence", edited |-> FALSE]
  BY <1>1, <1>5 DEF Opened
<1>9. Frozen' = Frozen \cup keys
  BY <1>7, <1>8, StandardsAssumption DEF Frozen
<1>10. frozen' = [k \in Keys |-> frozen'[k]] /\ finding' = [k \in Keys |-> finding'[k]]
  BY <1>1 DEF Opened
<1>11. /\ keys \cap Frozen = {} /\ library' = library /\ context' = context /\ Finish(w)
       /\ req[w] # Idle /\ req[w].job.op = "start"
  BY <1>1 DEF Loaded
<1>12. req[w].seen = None => keys = {}
  BY <1>6 DEF seen
<1>13. \A k \in keys : /\ frozen'[k] \in Snapshot
                       /\ frozen'[k].source \in InLibrary
                       /\ library[frozen'[k].source].key = k
  BY <1>7
<1> QED
  BY <1>8, <1>9, <1>10, <1>11, <1>12, <1>13

LEMMA StartStep ==
  ASSUME Inv, NEW w \in Workers, Start(w)
  PROVE  Inv' /\ (RulesInv => RulesInv')
<1>1. PICK keys \in SUBSET Keys :
        /\ Frozen' = Frozen \cup keys
        /\ \A k \in Keys \ keys : frozen'[k] = frozen[k] /\ finding'[k] = finding[k]
        /\ \A k \in keys :
             /\ frozen'[k] \in Snapshot
             /\ frozen'[k].source \in InLibrary /\ library[frozen'[k].source].key = k
             /\ finding'[k] = [status |-> "insufficient_evidence", edited |-> FALSE]
        /\ frozen' = [k \in Keys |-> frozen'[k]] /\ finding' = [k \in Keys |-> finding'[k]]
        /\ library' = library /\ context' = context /\ Finish(w)
  BY StartAdds
<1>2. \A k \in keys : finding'[k] \in Finding
  <2>1. [status |-> "insufficient_evidence", edited |-> FALSE] \in Finding
    BY DEF Finding, FindingStatuses
  <2> QED
    BY <1>1, <2>1
<1>3. status' \in Statuses
  BY DEF Start, Statuses
<1>4. \A k \in Keys : /\ frozen'[k] \in Snapshot \cup {None}
                      /\ finding'[k] \in Finding \cup {None}
                      /\ frozen'[k] = None <=> finding'[k] = None
  BY <1>1, <1>2, StandardsAssumption DEF Inv, TypeInv, TablesOK
<1>5. frozen' \in [Keys -> Snapshot \cup {None}] /\ finding' \in [Keys -> Finding \cup {None}]
  BY <1>1, <1>4
<1>6. TablesOK'
  BY <1>1, <1>3, <1>4, <1>5 DEF Inv, TypeInv, TablesOK
<1>7. SourceExists'
  BY <1>1 DEF Inv, SourceExists, InLibrary, Frozen
<1> QED
  BY <1>1, <1>6, <1>7, AssessmentStep

\* Steps that change findings that are there.
LEMMA FindingsStep ==
  ASSUME Inv, NEW w \in Workers, Finish(w), UNCHANGED <<status, library, context, frozen>>,
         finding' = [k \in Keys |-> finding'[k]],
         \A k \in Keys : finding'[k] = finding[k] \/ (k \in Frozen /\ finding'[k] \in Finding)
  PROVE  Inv' /\ (RulesInv => RulesInv')
<1>1. \A k \in Keys : /\ finding'[k] \in Finding \cup {None}
                      /\ frozen[k] = None <=> finding'[k] = None
  BY StandardsAssumption DEF Inv, TypeInv, TablesOK, Frozen
<1>2. finding' \in [Keys -> Finding \cup {None}]
  BY <1>1
<1>3. TablesOK'
  BY <1>1, <1>2 DEF Inv, TypeInv, TablesOK
<1>4. SourceExists' /\ Frozen' = Frozen
  BY DEF Inv, SourceExists, Frozen, InLibrary
<1> QED
  BY <1>3, <1>4, AssessmentStep

LEMMA SettleType ==
  ASSUME NEW old \in Finding, NEW verdict \in Verdict
  PROVE  Settle(old, verdict) \in Finding
<1>1. (IF verdict.applies THEN verdict.status ELSE "not_applicable") \in FindingStatuses
  BY DEF Verdict, FindingStatuses
<1> QED
  BY <1>1 DEF Settle, Finding

LEMMA AnalyseWrites ==
  ASSUME Inv, NEW w \in Workers, Analyse(w)
  PROVE  /\ finding' = [k \in Keys |-> finding'[k]]
         /\ \A k \in Keys : \/ finding'[k] = finding[k]
                            \/ /\ k \in Frozen /\ finding'[k] \in Finding
                               /\ ~finding[k].edited
<1> DEFINE said == req[w].job.verdicts
<1>1. /\ w \in Loaded /\ req[w].job.op = "analyse" /\ DOMAIN said \subseteq Frozen
      /\ finding' = [k \in Keys |-> IF k \in DOMAIN said
                                    THEN Settle(finding[k], said[k]) ELSE finding[k]]
  BY DEF Analyse, Serves, Loaded
<1>2. said \in UNION {[S -> Verdict] : S \in SUBSET Keys}
  BY <1>1, InFlight, JobTypes DEF Loaded, Inv
<1>3. \A k \in DOMAIN said : said[k] \in Verdict
  BY <1>2
<1> HIDE DEF said
<1>4. ASSUME NEW k \in Keys
      PROVE  \/ finding'[k] = finding[k]
             \/ k \in Frozen /\ finding'[k] \in Finding /\ ~finding[k].edited
  <2>1. CASE k \notin DOMAIN said
    BY <1>1, <2>1
  <2>2. CASE k \in DOMAIN said /\ finding[k].edited
    BY <1>1, <2>2 DEF Settle
  <2>3. CASE k \in DOMAIN said /\ ~finding[k].edited
    <3>1. k \in Frozen /\ finding[k] \in Finding
      BY <1>1, <2>3, FrozenType DEF Inv
    <3> QED
      BY <1>1, <1>3, <2>3, <3>1, SettleType
  <2> QED
    BY <2>1, <2>2, <2>3
<1> QED
  BY <1>1, <1>4

LEMMA AnalyseStep ==
  ASSUME Inv, NEW w \in Workers, Analyse(w)
  PROVE  Inv' /\ (RulesInv => RulesInv')
BY AnalyseWrites, FindingsStep DEF Analyse

LEMMA EditWrites ==
  ASSUME Inv, NEW w \in Workers, EditFinding(w)
  PROVE  LET k == req[w].job.key
         IN /\ k \in Frozen /\ finding'[k] \in Finding
            /\ finding[k].edited => finding'[k].edited
            /\ \A j \in Keys \ {k} : finding'[j] = finding[j]
            /\ finding' = [j \in Keys |-> finding'[j]]
<1> DEFINE k == req[w].job.key
           old == req[w].seen
           said == Put(finding[k].status, old.status, req[w].job.status)
           edited == Put(finding[k].edited, old.edited, TRUE)
<1>1. /\ w \in Loaded /\ req[w].job.op = "edit"
      /\ finding' = [finding EXCEPT ![k].status = said, ![k].edited = edited]
  BY DEF EditFinding, Serves, Loaded
<1>2. /\ k \in Frozen /\ k \in Keys /\ finding[k] \in Finding
      /\ req[w].job.status \in FindingStatuses
  BY <1>1, InFlight, JobTypes, FrozenType DEF Loaded, Inv, RequestOK
<1>3. finding[k].status \in FindingStatuses /\ finding[k].edited \in BOOLEAN
  BY <1>2 DEF Finding
<1>4. said \in FindingStatuses
  BY <1>2, <1>3 DEF Put
<1>5. edited \in BOOLEAN /\ (finding[k].edited => edited)
  BY <1>3, Zenon DEF Put
<1> HIDE DEF k, said, edited
<1> DEFINE new == [finding[k] EXCEPT !.status = said, !.edited = edited]
<1>6. new \in Finding /\ (finding[k].edited => new.edited)
  BY <1>2, <1>4, <1>5 DEF Finding
<1>7. finding' = [finding EXCEPT ![k] = new]
  BY <1>1, <1>2 DEF Inv, TypeInv, TablesOK
<1> HIDE DEF new
<1>8. /\ finding'[k] = new /\ \A j \in Keys \ {k} : finding'[j] = finding[j]
      /\ finding' = [j \in Keys |-> finding'[j]]
  BY <1>2, <1>7 DEF Inv, TypeInv, TablesOK
<1> QED
  BY <1>2, <1>6, <1>8 DEF k

LEMMA EditStep ==
  ASSUME Inv, NEW w \in Workers, EditFinding(w)
  PROVE  Inv' /\ (RulesInv => RulesInv')
<1>1. \A k \in Keys : finding'[k] = finding[k] \/ (k \in Frozen /\ finding'[k] \in Finding)
  BY EditWrites
<1> QED
  BY <1>1, EditWrites, FindingsStep DEF EditFinding

-----------------------------------------------------------------------------
(* Arrival *)

LEMMA CopyType ==
  ASSUME NEW k \in Keys, FreeCopies(k) # {}
  PROVE  FreeCopy(k) \in Keys
<1>1. Copies[k] \in Seq(Keys)
  BY StandardsAssumption
<1>2. FreeCopies(k) \in SUBSET Nat /\ FreeCopies(k) \subseteq DOMAIN Copies[k]
  BY <1>1 DEF FreeCopies
<1>3. Min(FreeCopies(k)) \in DOMAIN Copies[k]
  BY <1>2, MinNat
<1> QED
  BY <1>1, <1>3 DEF FreeCopy

\* What a request has read when it is let in.
LEMMA SeenTyped ==
  ASSUME Inv, NEW w \in Workers, NEW job \in JobsOf[w], NEW i \in InLibrary \cup {None},
         Accepts(job, i)
  PROVE  /\ WellRead(job, Seen(job, i))
         /\ job.op \in OnStandard => i # None
         /\ i # None => /\ job.op \in OnStandard \cup {"import"}
                        /\ i \in InLibrary /\ Seen(job, i) = library[i]
                        /\ library[i] \in Standard
         /\ job.op = "duplicate" => FreeCopy(library[i].key) \in Keys
         /\ job.op = "edit" => job.key \in Frozen
         /\ job.op = "context" => Seen(job, i) = context
         /\ job.op = "start" => (Seen(job, i) # None =>
              \A j \in DOMAIN Seen(job, i) : Seen(job, i)[j] = library[j])
<1>1. job \in Job
  BY StandardsAssumption
<1>2. job.op \in {"create", "update", "toggle", "duplicate", "delete", "start",
                  "import", "context", "analyse", "edit", "move"}
  BY <1>1, JobTypes
<1>3. i # None => i \in InLibrary /\ i \in Ids /\ library[i] \in Standard
  BY StandardType DEF Inv
<1>4. CASE job.op = "context"
  BY <1>4 DEF Accepts, Seen, WellRead, OnStandard, Inv, TypeInv, TablesOK
<1>5. CASE job.op = "start"
  <2>1. i = None
    BY <1>5 DEF Accepts
  <2>2. Seen(job, i) = IF Frozen # {} THEN None ELSE [j \in Applicable |-> library[j]]
    BY <1>5 DEF Seen
  <2>3. Applicable \subseteq InLibrary
    BY DEF Applicable
  <2>4. Applicable \subseteq Ids /\ \A j \in Applicable : library[j] \in Standard
    BY <2>3, StandardType DEF Inv
  <2>5. Seen(job, i) # None => /\ DOMAIN Seen(job, i) \subseteq Ids
                               /\ \A j \in DOMAIN Seen(job, i) :
                                    /\ Seen(job, i)[j] = library[j]
                                    /\ library[j] \in Standard
    BY <2>2, <2>4
  <2>6. WellRead(job, Seen(job, i))
    BY <1>5, <2>5 DEF WellRead
  <2> QED
    BY <1>5, <2>1, <2>5, <2>6 DEF OnStandard
<1>6. CASE job.op = "edit"
  <2>1. i = None /\ job.key \in Frozen /\ Seen(job, i) = finding[job.key]
    BY <1>6 DEF Accepts, Seen
  <2>2. finding[job.key] \in Finding
    BY <2>1, FrozenType DEF Inv
  <2> QED
    BY <1>6, <2>1, <2>2 DEF WellRead, OnStandard
<1>7. CASE job.op \in {"analyse", "move"}
  BY <1>7 DEF Accepts, Seen, WellRead, OnStandard
<1>8. CASE job.op = "create"
  BY <1>8 DEF Accepts, Seen, WellRead, OnStandard
<1>9. CASE job.op \in OnStandard \cup {"import"}
  <2>1. Seen(job, i) = IF i = None THEN None ELSE library[i]
    BY <1>9 DEF Seen, OnStandard
  <2>2. WellRead(job, Seen(job, i))
    BY <1>3, <1>9, <2>1 DEF WellRead, OnStandard
  <2>3. job.op \in OnStandard => i # None
    BY <1>9 DEF Accepts, OnStandard
  <2>4. job.op = "duplicate" => FreeCopies(library[i].key) # {}
    BY DEF Accepts
  <2>5. job.op = "duplicate" => library[i].key \in Keys
    BY <1>3, <2>3 DEF OnStandard, Standard
  <2>6. job.op = "duplicate" => FreeCopy(library[i].key) \in Keys
    BY <2>4, <2>5, CopyType
  <2> QED
    BY <1>3, <1>9, <2>1, <2>2, <2>3, <2>6 DEF OnStandard
<1> QED
  BY <1>2, <1>4, <1>5, <1>6, <1>7, <1>8, <1>9 DEF OnStandard

LEMMA LoadStep ==
  ASSUME Inv, NEW w \in Workers, Load(w)
  PROVE  Inv' /\ (RulesInv => RulesInv')
<1>1. PICK job \in JobsOf[w], i \in InLibrary \cup {None} :
        /\ Accepts(job, i)
        /\ req' = [req EXCEPT ![w] =
             [phase |-> "loaded", job |-> job, id |-> i, seen |-> Seen(job, i),
              copy |-> IF job.op = "duplicate" THEN FreeCopy(library[i].key) ELSE None]]
  BY DEF Load
<1>2. /\ req[w] = Idle /\ calls < MaxCalls /\ calls' = calls + 1
      /\ UNCHANGED <<status, library, context, frozen, finding>>
  BY DEF Load
<1> DEFINE seen == Seen(job, i)
           copy == IF job.op = "duplicate" THEN FreeCopy(library[i].key) ELSE None
<1>3. /\ WellRead(job, seen)
      /\ job.op \in OnStandard => i # None
      /\ i # None => /\ job.op \in OnStandard \cup {"import"}
                     /\ i \in InLibrary /\ seen = library[i] /\ library[i] \in Standard
      /\ job.op = "duplicate" => copy \in Keys
      /\ job.op = "edit" => job.key \in Frozen
      /\ job.op = "context" => seen = context
      /\ job.op = "start" => (seen # None => \A j \in DOMAIN seen : seen[j] = library[j])
  BY <1>1, SeenTyped
<1>4. copy \in Keys \cup {None}
  BY <1>3
<1> HIDE DEF seen, copy
<1>5. /\ req' = [req EXCEPT ![w] = [phase |-> "loaded", job |-> job, id |-> i,
                                    seen |-> seen, copy |-> copy]]
      /\ DOMAIN req = Workers
  BY <1>1 DEF seen, copy, Inv, TypeInv
<1>6. /\ req'[w].job = job /\ req'[w].id = i /\ req'[w].seen = seen /\ req'[w].copy = copy
      /\ DOMAIN req' = Workers /\ \A v \in Workers \ {w} : req'[v] = req[v]
  BY <1>5
<1>7. Lasting
  BY <1>2 DEF Lasting, Frozen
<1>8. i \in Ids \cup {None}
  BY DEF InLibrary
<1>9. RequestOK(w)'
  <2>1. job.op = "context" => (seen # None => context \in Context)
    BY <1>3 DEF Inv, TypeInv, TablesOK
  <2>2. job.op = "start" => (seen # None =>
          \A j \in DOMAIN seen : library[j] # None => library[j].key = seen[j].key)
    BY <1>3
  <2>3. Frozen' = Frozen
    BY <1>2 DEF Frozen
  <2> QED
    BY <1>2, <1>3, <1>4, <1>6, <1>8, <2>1, <2>2, <2>3 DEF RequestOK
<1>10. \A v \in Workers \ {w} : RequestOK(v)'
  BY <1>6, <1>7, RequestKept DEF Inv
<1>11. TablesOK' /\ KeysUnique' /\ SourceExists'
  BY <1>2 DEF Inv, TypeInv, TablesOK, KeysUnique, SourceExists, InLibrary, Frozen
<1>12. calls' \in 0..MaxCalls
  BY <1>2, StandardsAssumption DEF Inv, TypeInv
<1>13. Inv'
  BY <1>6, <1>9, <1>10, <1>11, <1>12 DEF Inv, TypeInv
<1>14. ASSUME RulesInv PROVE RulesInv'
  <2>1. Loaded' \subseteq Loaded \cup {w}
    BY <1>6 DEF Loaded
  <2>2. \A v \in Loaded : v # w
    BY <1>2 DEF Loaded
  <2>3. Checked(w)'
    <3>1. job.op = "create" => Ruled(job.form)
      BY <1>1 DEF Accepts, RulesGiven, Ruled
    <3>2. job.op = "import" => \A n \in DOMAIN job.bundle : Ruled(job.bundle[n].form)
      BY <1>1 DEF Accepts, RulesGiven, Ruled
    <3>3. job.op = "duplicate" => Ruled(seen)
      BY <1>1, <1>3 DEF Accepts, RulesGiven, Ruled, OnStandard
    <3>4. job.op = "update" => Ruled(job.patch)
      <4> SUFFICES ASSUME job.op = "update", job.patch.mode = "conditions"
                   PROVE  job.patch.rules # {}
        BY DEF Ruled
      <4>1. job.patch.mode # Keep /\ job.patch.rules # Keep
        BY <1>14, StandardsAssumption DEF RulesInv, FormsWhole, Modes
      <4>2. RulesGiven(Patched(library[i], job.patch))
        BY <1>1 DEF Accepts
      <4> QED
        BY <4>1, <4>2 DEF RulesGiven, Patched
    <3> QED
      BY <1>6, <3>1, <3>2, <3>3, <3>4 DEF Checked
  <2>4. ASSUME NEW v \in Loaded' PROVE Checked(v)'
    <3>1. CASE v = w
      BY <2>3, <3>1
    <3>2. CASE v # w
      <4>1. v \in Loaded /\ v \in Workers
        BY <2>1, <3>2 DEF Loaded
      <4>2. Checked(v) /\ req'[v] = req[v]
        BY <1>6, <1>14, <3>2, <4>1 DEF RulesInv
      <4> QED
        BY <4>2 DEF Checked
    <3> QED
      BY <3>1, <3>2
  <2>5. Solid(library)'
    <3> SUFFICES ASSUME NEW j \in Ids, library[j] # None, library[j].mode = "conditions"
                 PROVE  \E r \in library[j].rules : \A v \in Loaded' :
                          SawAlways(v, j)' => r \notin req'[v].seen.rules
      BY <1>2 DEF Solid
    <3>1. PICK r \in library[j].rules :
            \A v \in Loaded : SawAlways(v, j) => r \notin req[v].seen.rules
      BY <1>14 DEF RulesInv, Solid
    <3>2. ~SawAlways(w, j)'
      BY <1>3, <1>6 DEF SawAlways
    <3>3. \A v \in Loaded : v \in Workers \ {w}
      BY <2>2 DEF Loaded
    <3> QED
      BY <1>6, <2>1, <3>1, <3>2, <3>3 DEF SawAlways
  <2> QED
    BY <1>14, <2>4, <2>5 DEF RulesInv
<1> QED
  BY <1>13, <1>14

-----------------------------------------------------------------------------
(* Invariance *)

LEMMA InvInit ==
  ASSUME Init
  PROVE  Inv /\ (FormsWhole => RulesInv)
<1>1. /\ library = Seeded /\ context = None /\ req = [w \in Workers |-> Idle]
      /\ frozen = [k \in Keys |-> None] /\ finding = [k \in Keys |-> None]
      /\ status \in Statuses /\ calls = 0
  BY DEF Init, Statuses
<1>2. Frozen = {} /\ Loaded = {}
  BY <1>1 DEF Frozen, Loaded
<1>3. TablesOK
  BY <1>1, StandardsAssumption DEF TablesOK
<1>4. TypeInv
  BY <1>1, <1>3, StandardsAssumption DEF TypeInv, RequestOK
<1>5. KeysUnique /\ SourceExists
  BY <1>1, <1>2, SeededAssumption DEF KeysUnique, SourceExists, InLibrary
<1>6. Solid(library)
  BY <1>1, <1>2, SeededAssumption DEF Solid
<1> QED
  BY <1>2, <1>4, <1>5, <1>6 DEF Inv, RulesInv

LEMMA InvStep ==
  ASSUME Inv, [Next]_vars
  PROVE  Inv' /\ (RulesInv => RulesInv')
<1>1. CASE UNCHANGED vars
  BY <1>1 DEF vars, Inv, TypeInv, TablesOK, RequestOK, KeysUnique, SourceExists, InLibrary,
     Frozen, RulesInv, Solid, SawAlways, Checked, Loaded
<1>2. ASSUME NEW w \in Workers,
             \/ Load(w) \/ Abort(w) \/ Create(w) \/ Update(w) \/ SetActive(w)
             \/ Duplicate(w) \/ Delete(w) \/ Import(w) \/ SetContext(w) \/ Start(w)
             \/ Analyse(w) \/ EditFinding(w) \/ Move(w)
      PROVE  Inv' /\ (RulesInv => RulesInv')
  BY <1>2, LoadStep, AbortStep, CreateStep, UpdateStep, SetActiveStep, DuplicateStep,
     DeleteStep, ImportStep, SetContextStep, StartStep, AnalyseStep, EditStep, MoveStep
<1> QED
  BY <1>1, <1>2 DEF Next

LEMMA InvAlways == Spec => []Inv
BY InvInit, InvStep, PTL DEF Spec

LEMMA TypeFromInv == TypeInv => TypeOK
<1> SUFFICES ASSUME TypeInv PROVE TypeOK
  OBVIOUS
<1>1. \A w \in Workers : req[w] # Idle =>
        /\ req[w].job \in JobsOf[w] /\ WellRead(req[w].job, req[w].seen)
        /\ req[w].id \in Ids \cup {None} /\ req[w].copy \in Keys \cup {None}
  BY DEF TypeInv, RequestOK
<1> QED
  BY <1>1 DEF TypeInv, TablesOK, TypeOK

\* The library, the snapshots, their findings and what the requests hold are always
\* well formed; a snapshot has a finding and a finding its snapshot.
THEOREM TypeCorrect == Spec => []TypeOK
BY InvAlways, TypeFromInv, PTL DEF Inv

\* Whoever creates, copies and imports at once, bundles of any length included: no two
\* standards ever share a key.
THEOREM KeysAreUnique == Spec => []KeysUnique
BY InvAlways, PTL DEF Inv

\* However standards are edited, deleted and imported: the standard that a snapshot was
\* made of is in the library under the same key, or the snapshot no longer names it.
THEOREM SourcesExist == Spec => []SourceExists
BY InvAlways, PTL DEF Inv

\* When a form that sends the mode sends the rules with it, a conditional standard has
\* a rule, however many sessions save it on rows however old.
THEOREM RulesArePresent ==
  ASSUME FormsWhole
  PROVE  Spec => []RulesPresent
<1>1. RulesInv => RulesPresent
  BY DEF RulesInv, Solid, RulesPresent, InLibrary
<1>2. Init => RulesInv
  BY InvInit
<1>3. Inv /\ RulesInv /\ [Next]_vars => RulesInv'
  BY InvStep
<1> QED
  BY <1>1, <1>2, <1>3, InvAlways, PTL DEF Spec

-----------------------------------------------------------------------------
(* What the administrator has set *)

LEMMA OverridesStep ==
  ASSUME Inv, [Next]_vars, NEW k \in Frozen, finding[k].edited
  PROVE  /\ finding'[k].edited
         /\ finding'[k].status # finding[k].status =>
              \E w \in Workers : Serves(w, "edit") /\ req[w].job.key = k /\ req'[w] = Idle
<1>1. CASE UNCHANGED finding
  BY <1>1
<1>2. ASSUME NEW w \in Workers, Start(w) PROVE finding'[k] = finding[k]
  <2>1. PICK keys \in SUBSET Keys :
          /\ keys \cap Frozen = {}
          /\ \A j \in Keys \ keys : finding'[j] = finding[j]
    BY <1>2, StartAdds
  <2> QED
    BY <2>1 DEF Frozen
<1>3. ASSUME NEW w \in Workers, Analyse(w) PROVE finding'[k] = finding[k]
  BY <1>3, AnalyseWrites DEF Frozen
<1>4. ASSUME NEW w \in Workers, EditFinding(w)
      PROVE  /\ finding'[k].edited
             /\ finding'[k].status # finding[k].status =>
                  Serves(w, "edit") /\ req[w].job.key = k /\ req'[w] = Idle
  <2>1. Serves(w, "edit") /\ req'[w] = Idle
    BY <1>4 DEF EditFinding, Finish, Inv, TypeInv
  <2>2. CASE req[w].job.key = k
    BY <1>4, <2>1, <2>2, EditWrites
  <2>3. CASE req[w].job.key # k
    BY <1>4, <2>3, EditWrites DEF Frozen
  <2> QED
    BY <2>1, <2>2, <2>3
<1>5. UNCHANGED finding \/ \E w \in Workers : Start(w) \/ Analyse(w) \/ EditFinding(w)
  BY DEF Next, vars, Load, Abort, Create, Update, SetActive, Duplicate, Delete, Import,
     SetContext, Move
<1> QED
  BY <1>1, <1>2, <1>3, <1>4, <1>5

\* However answers are analysed and interviews started and sent back: a status that the
\* administrator has set stays marked, and only an edit of that finding changes it.
THEOREM OverridesAreKept == Spec => OverridesKept
<1>1. Inv /\ [Next]_vars =>
        [\A k \in Frozen : finding[k].edited =>
           /\ finding'[k].edited
           /\ finding'[k].status # finding[k].status =>
                \E w \in Workers : Serves(w, "edit") /\ req[w].job.key = k /\ req'[w] = Idle]_vars
  BY OverridesStep
<1> QED
  BY <1>1, InvAlways, PTL DEF Spec, OverridesKept

-----------------------------------------------------------------------------
(* The first start *)

\* One session conducts the interview: two that start it at once, with a context saved
\* in between, may each freeze standards that the other has not.
OneStarter ==
  \A v, w \in Workers :
    (\E job \in JobsOf[v] : job.op = "start") /\ (\E job \in JobsOf[w] : job.op = "start")
      => v = w

\* A start that is going to freeze standards is the first.
FirstStart ==
  \A w \in Loaded : req[w].job.op = "start" /\ req[w].seen # None => Frozen = {}

FreezeInv == Inv /\ FirstStart

\* Of the other steps none adds or takes away a snapshot, or changes a definition.
LEMMA FreezeKept ==
  ASSUME Inv, [Next]_vars, ~\E w \in Workers : Start(w)
  PROVE  /\ Frozen' = Frozen
         /\ \A k \in Frozen : frozen'[k].definition = frozen[k].definition
<1>1. CASE UNCHANGED frozen
  BY <1>1 DEF Frozen
<1>2. ASSUME NEW w \in Workers, Delete(w)
      PROVE  /\ Frozen' = Frozen
             /\ \A k \in Frozen : frozen'[k].definition = frozen[k].definition
  <2> DEFINE i == req[w].id
  <2>1. ASSUME NEW k \in Keys
        PROVE  frozen'[k] = IF k \in Frozen /\ frozen[k].source = i
                            THEN [frozen[k] EXCEPT !.source = None] ELSE frozen[k]
    BY <1>2 DEF Delete, SourceCleared
  <2>2. ASSUME NEW k \in Frozen
        PROVE  frozen'[k] # None /\ frozen'[k].definition = frozen[k].definition
    <3>1. k \in Keys /\ frozen[k] \in Snapshot /\ frozen[k] # None
      BY FrozenType DEF Inv, Frozen
    <3>2. /\ [frozen[k] EXCEPT !.source = None] \in Snapshot
          /\ [frozen[k] EXCEPT !.source = None].definition = frozen[k].definition
      BY <3>1 DEF Snapshot
    <3> QED
      BY <2>1, <3>1, <3>2, StandardsAssumption
  <2>3. Frozen' = Frozen
    BY <2>1, <2>2 DEF Frozen
  <2> QED
    BY <2>2, <2>3
<1>3. UNCHANGED frozen \/ \E w \in Workers : Delete(w)
  BY DEF Next, vars, Load, Abort, Create, Update, SetActive, Duplicate, Import, SetContext,
     Analyse, EditFinding, Move
<1> QED
  BY <1>1, <1>2, <1>3

LEMMA FirstStartStep ==
  ASSUME OneStarter, FreezeInv, [Next]_vars
  PROVE  FirstStart'
<1> SUFFICES ASSUME NEW v \in Loaded', req'[v].job.op = "start", req'[v].seen # None
             PROVE  Frozen' = {}
  BY DEF FirstStart
<1> USE DEF FreezeInv
<1>1. CASE \E w \in Workers : Start(w)
  <2>1. PICK w \in Workers : Start(w)
    BY <1>1
  <2>2. Finish(w) /\ req[w] # Idle /\ req[w].job.op = "start"
    BY <2>1, StartAdds
  <2>3. v # w /\ req'[v] = req[v] /\ v \in Loaded /\ v \in Workers
    BY <2>2 DEF Finish, Loaded, Inv, TypeInv
  <2>4. req[v].job \in JobsOf[v] /\ req[w].job \in JobsOf[w]
    BY <2>2, <2>3, InFlight DEF Loaded, RequestOK, Inv
  <2> QED
    BY <2>2, <2>3, <2>4 DEF OneStarter
<1>2. CASE ~\E w \in Workers : Start(w)
  <2>1. Frozen' = Frozen
    BY <1>2, FreezeKept
  <2>2. CASE v \in Loaded /\ req'[v] = req[v]
    BY <2>1, <2>2 DEF FirstStart
  <2>3. CASE ~(v \in Loaded /\ req'[v] = req[v])
    <3>1. Load(v)
      <4>1. v \in Workers /\ req'[v] # Idle /\ req'[v] # req[v]
        BY <2>3 DEF Loaded
      <4>2. ~UNCHANGED vars
        BY <4>1 DEF vars
      <4>3. PICK w \in Workers : Load(w) \/ Finish(w)
        BY <4>2 DEF Next, Abort, Create, Update, SetActive, Duplicate, Delete, Import,
           SetContext, Start, Analyse, EditFinding, Move
      <4>4. v = w
        BY <4>1, <4>3 DEF Load, Finish, Inv, TypeInv
      <4> QED
        BY <4>1, <4>3, <4>4 DEF Finish, Inv, TypeInv
    <3>2. PICK job \in JobsOf[v], i \in InLibrary \cup {None} :
            req'[v].job = job /\ req'[v].seen = Seen(job, i)
      BY <3>1 DEF Load, Inv, TypeInv, Loaded
    <3>3. req'[v].seen = IF Frozen # {} THEN None ELSE [j \in Applicable |-> library[j]]
      BY <3>2 DEF Seen
    <3> QED
      BY <2>1, <3>3
  <2> QED
    BY <2>2, <2>3
<1> QED
  BY <1>1, <1>2

LEMMA FreezeStep ==
  ASSUME FreezeInv, [Next]_vars, Frozen # {}
  PROVE  /\ Frozen' = Frozen
         /\ \A k \in Frozen : frozen'[k].definition = frozen[k].definition
<1>1. CASE \E w \in Workers : Start(w)
  <2>1. PICK w \in Workers : Start(w)
    BY <1>1
  <2>2. PICK keys \in SUBSET Keys :
          /\ Frozen' = Frozen \cup keys
          /\ req[w].seen = None => keys = {}
          /\ \A k \in Keys \ keys : frozen'[k] = frozen[k]
          /\ req[w] # Idle /\ req[w].job.op = "start"
    BY <2>1, StartAdds DEF FreezeInv
  <2>3. req[w].seen = None
    BY <2>2 DEF FreezeInv, FirstStart, Loaded
  <2>4. Frozen' = Frozen /\ \A k \in Keys : frozen'[k] = frozen[k]
    BY <2>2, <2>3
  <2> QED
    BY <2>4 DEF Frozen
<1>2. CASE ~\E w \in Workers : Start(w)
  BY <1>2, FreezeKept DEF FreezeInv
<1> QED
  BY <1>1, <1>2

\* When one session conducts the interview, the standards it froze at its first start
\* are those of the assessment for good, each as it was then defined.
THEOREM StandardsFrozenTogether ==
  ASSUME OneStarter
  PROVE  Spec => FrozenTogether
<1>1. Init => FirstStart
  BY DEF Init, FirstStart, Loaded
<1>2. Inv /\ FirstStart /\ [Next]_vars => FirstStart'
  BY FirstStartStep DEF FreezeInv
<1>3. Inv /\ FirstStart /\ [Next]_vars =>
        [Frozen # {} => /\ Frozen' = Frozen
                        /\ \A k \in Frozen :
                             frozen'[k].definition = frozen[k].definition]_vars
  BY FreezeStep DEF FreezeInv
<1> QED
  BY <1>1, <1>2, <1>3, InvAlways, PTL DEF Spec, FrozenTogether

=============================================================================
