------------------------- MODULE DetailedReportProofs -------------------------
(***************************************************************************)
(* What is proved of the detailed report: its types, that a failure stays  *)
(* flagged, and that what an administrator wrote stays in the draft.       *)
(***************************************************************************)
EXTENDS DetailedReport, Least, TLAPS

-----------------------------------------------------------------------------
(* Edits, drafts and generation *)

\* The edit that counts for a section is one of those about it, and the last.
LEMMA LastAbout ==
  ASSUME NEW edits \in Seq(Edit), NEW s, About(edits, s) # {}
  PROVE  /\ Max(About(edits, s)) \in About(edits, s)
         /\ \A i \in About(edits, s) : i <= Max(About(edits, s))
         /\ edits[Max(About(edits, s))] \in Edit
         /\ edits[Max(About(edits, s))].section \in {s, "full"}
<1>1. Len(edits) \in Nat /\ About(edits, s) \in SUBSET (1..Len(edits))
  BY DEF About
<1>2. /\ Max(About(edits, s)) \in About(edits, s)
      /\ \A i \in About(edits, s) : i <= Max(About(edits, s))
  BY <1>1, MaxUpTo, Zenon
<1>3. \A i \in About(edits, s) : edits[i] \in Edit /\ edits[i].section \in {s, "full"}
  BY DEF About
<1> QED
  BY <1>2, <1>3, Zenon

LEMMA EditTypes ==
  ASSUME NEW e \in Edit
  PROVE  /\ e.section \in Stages => e.to \in Texts
         /\ e.section = Meta => e.to \in Metadata
         /\ e.section = "full" => e.to \in Content
BY DetailedAssumption DEF Edit, Meta

\* A section of the draft is an administrator's text, a part of a report written
\* as a whole, or what was generated.
LEMMA ShownTypes ==
  ASSUME NEW row \in Row, row.base # None
  PROVE  /\ \A s \in Stages : Shown(row, s) \in Text
         /\ Shown(row, Meta) \in Metadata
<1>1. row.base \in Report /\ row.edits \in Seq(Edit)
  BY DEF Row
<1>2. ASSUME NEW s \in Stages PROVE Shown(row, s) \in Text
  <2>1. s # Meta /\ s # "full"
    BY DetailedAssumption
  <2>2. CASE About(row.edits, s) = {}
    BY <1>1, <2>1, <2>2 DEF Shown, Part, Report
  <2>3. CASE About(row.edits, s) # {}
    <3> DEFINE e == row.edits[Max(About(row.edits, s))]
    <3>1. e \in Edit /\ e.section \in {s, "full"}
      BY <1>1, <2>3, LastAbout, Zenon
    <3>2. Shown(row, s) = IF e.section = "full" THEN e.to.body[s] ELSE e.to
      BY <2>1, <2>3 DEF Shown, Part
    <3> HIDE DEF e
    <3> QED
      BY <3>1, <3>2, EditTypes DEF Content, Text
  <2> QED
    BY <2>2, <2>3
<1>3. Shown(row, Meta) \in Metadata
  <2>1. CASE About(row.edits, Meta) = {}
    BY <1>1, <2>1 DEF Shown, Part, Report
  <2>2. CASE About(row.edits, Meta) # {}
    <3> DEFINE e == row.edits[Max(About(row.edits, Meta))]
    <3>1. e \in Edit /\ e.section \in {Meta, "full"}
      BY <1>1, <2>2, LastAbout, Zenon
    <3>2. Shown(row, Meta) = IF e.section = "full" THEN e.to.meta ELSE e.to
      BY <2>2 DEF Shown, Part
    <3> HIDE DEF e
    <3> QED
      BY <3>1, <3>2, EditTypes DEF Content
  <2> QED
    BY <2>1, <2>2
<1> QED
  BY <1>2, <1>3

LEMMA StartTypes ==
  ASSUME NEW row \in Row PROVE Start(row) \in Report
<1>1. EmptyReport \in Report
  BY DEF EmptyReport, Report, Text, Metadata
<1>2. CASE HasDraft(row)
  <2>1. /\ [s \in Stages |-> Shown(row, s)] \in [Stages -> Text]
        /\ Shown(row, Meta) \in Metadata
    BY <1>2, ShownTypes DEF HasDraft
  <2>2. row.base \in Report
    BY <1>2 DEF HasDraft, Row
  <2>3. row.base.failed \in SUBSET Stages /\ (row.base.unwarned \/ Unwarned(row)) \in BOOLEAN
    BY <2>1, <2>2 DEF Report, Metadata, Unwarned
  <2> QED
    BY <1>2, <2>1, <2>3 DEF Start, Draft, Report
<1> QED
  BY <1>1, <1>2 DEF Start

LEMMA OutcomeTypes ==
  ASSUME NEW row \in Row, NEW targets \in SUBSET Stages,
         NEW r \in Outcomes(row, targets)
  PROVE  r \in Report
<1>1. PICK failed \in SUBSET Builds(targets) :
        r = Generated(Start(row), targets, failed)
  BY DEF Outcomes
<1> DEFINE start == Start(row)
           statuses == [s \in Stages |-> IF s \in failed THEN "failed"
                                         ELSE IF s \in targets THEN "complete"
                                         ELSE start.meta.statuses[s]]
<1>2. /\ start.body \in [Stages -> Text] /\ start.meta \in Metadata
      /\ start.failed \in SUBSET Stages /\ start.unwarned \in BOOLEAN
  BY StartTypes DEF Report
<1>3. r = [body |-> [s \in Stages |-> IF s \in Builds(targets) \ failed
                                      THEN "generated" ELSE start.body[s]],
           meta |-> [statuses |-> statuses,
                     incomplete |-> Flagged(start.meta, statuses)],
           failed |-> (start.failed \ targets) \cup failed,
           unwarned |-> start.unwarned]
  BY <1>1 DEF Generated
<1> HIDE DEF start
<1>4. statuses \in [Stages -> {"none", "complete", "failed"}]
  BY <1>2 DEF Metadata
<1>5. Flagged(start.meta, statuses) \in BOOLEAN
  BY <1>2 DEF Flagged, Metadata
<1> HIDE DEF statuses
<1>6. [statuses |-> statuses, incomplete |-> Flagged(start.meta, statuses)] \in Metadata
  BY <1>4, <1>5 DEF Metadata
<1>7. [s \in Stages |-> IF s \in Builds(targets) \ failed
                        THEN "generated" ELSE start.body[s]] \in [Stages -> Text]
  BY <1>2 DEF Text
<1>8. (start.failed \ targets) \cup failed \in SUBSET Stages
  BY <1>1, <1>2 DEF Builds
<1> QED
  BY <1>2, <1>3, <1>6, <1>7, <1>8 DEF Report

LEMMA WithTypes ==
  ASSUME NEW edits \in Seq(Edit), NEW change \in Edit
  PROVE  With(edits, change) \in Seq(Edit)
<1>1. Append(edits, change) \in Seq(Edit)
  OBVIOUS
<1>2. [i \in DOMAIN edits |-> IF edits[i].section = change.section THEN change
                              ELSE edits[i]] \in Seq(Edit)
  OBVIOUS
<1> QED
  BY <1>1, <1>2 DEF With

LEMMA SaveTypes ==
  ASSUME rows \in Seq(Row), NEW at \in 0..Len(rows), NEW r \in Report
  PROVE  Save(at, r) \in Seq(Row) /\ Len(Save(at, r)) >= Len(rows)
<1>1. [EmptyRow EXCEPT !.base = r] \in Row
  <2>1. [EmptyRow EXCEPT !.base = r] = [base |-> r, edits |-> <<>>]
    BY DEF EmptyRow
  <2>2. <<>> \in Seq(Edit)
    OBVIOUS
  <2> QED
    BY <2>1, <2>2 DEF Row
<1>2. CASE at = 0
  BY <1>1, <1>2 DEF Save
<1>3. CASE at # 0
  <2>1. rows[at] \in Row
    BY <1>3
  <2>2. [rows[at] EXCEPT !.base = r] \in Row
    BY <2>1 DEF Row
  <2> QED
    BY <1>3, <2>2 DEF Save
<1> QED
  BY <1>2, <1>3

-----------------------------------------------------------------------------
(* Types *)

LEMMA LatestType ==
  ASSUME rows \in Seq(Row) PROVE Latest \in Row
<1>1. EmptyRow \in Row
  <2>1. <<>> \in Seq(Edit)
    OBVIOUS
  <2> QED
    BY <2>1 DEF EmptyRow, Row
<1>2. rows # <<>> => rows[Len(rows)] \in Row
  OBVIOUS
<1> QED
  BY <1>1, <1>2 DEF Latest

LEMMA JobTypes ==
  ASSUME NEW job \in Job
  PROVE  /\ job.op = "generate" => job.targets \in SUBSET Stages
         /\ job.op = "edit" => job.change \in Edit
BY DEF Job

\* What a request in flight is.
LEMMA RequestTypes ==
  ASSUME TypeOK, NEW w \in Workers, req[w] # Idle
  PROVE  /\ req[w].job \in Job /\ req[w].at \in 0..Len(rows) /\ req[w].row \in Row
         /\ rows \in Seq(Row) /\ Len(rows) \in Nat
<1>1. req[w] \in Request
  BY DEF TypeOK
<1> QED
  BY <1>1 DEF TypeOK, Request

\* The rows after a step: those there were and perhaps one more.
LEMMA RowsAfter ==
  ASSUME TypeOK, [Next]_vars
  PROVE  rows' \in Seq(Row) /\ Len(rows') >= Len(rows)
<1>1. CASE UNCHANGED vars
  BY <1>1 DEF vars, TypeOK
<1>2. ASSUME NEW w \in Workers, Load(w) \/ Abort(w)
      PROVE  rows' \in Seq(Row) /\ Len(rows') >= Len(rows)
  BY <1>2 DEF Load, Abort, TypeOK
<1>3. ASSUME NEW w \in Workers, OpenReview(w)
      PROVE  rows' \in Seq(Row) /\ Len(rows') >= Len(rows)
  <2>1. EmptyRow \in Row
    BY DEF EmptyRow, Row
  <2> QED
    BY <1>3, <2>1 DEF OpenReview, TypeOK
<1>4. ASSUME NEW w \in Workers, Generate(w)
      PROVE  rows' \in Seq(Row) /\ Len(rows') >= Len(rows)
  <2>1. req[w] # Idle /\ req[w].job.op = "generate"
    BY <1>4 DEF Generate, Serves
  <2>2. PICK r \in Outcomes(req[w].row, req[w].job.targets) : rows' = Save(req[w].at, r)
    BY <1>4 DEF Generate
  <2>3. r \in Report
    BY <2>1, RequestTypes, JobTypes, OutcomeTypes
  <2> QED
    BY <2>1, <2>2, <2>3, RequestTypes, SaveTypes
<1>5. ASSUME NEW w \in Workers, EditSection(w)
      PROVE  rows' \in Seq(Row) /\ Len(rows') >= Len(rows)
  <2>1. req[w] # Idle /\ req[w].job.op = "edit"
    BY <1>5 DEF EditSection, Serves
  <2>2. With(req[w].row.edits, req[w].job.change) \in Seq(Edit)
    BY <2>1, RequestTypes, JobTypes, WithTypes DEF Row
  <2> DEFINE at == req[w].at  new == With(req[w].row.edits, req[w].job.change)
  <2>3. at \in 0..Len(rows) /\ rows \in Seq(Row)
    BY <2>1, RequestTypes
  <2>4. rows' = [rows EXCEPT ![at].edits = new]
    BY <1>5 DEF EditSection
  <2> HIDE DEF at, new
  <2>5. new \in Seq(Edit)
    BY <2>2 DEF new
  <2>6. ASSUME at # 0 PROVE [rows[at] EXCEPT !.edits = new] \in Row
    <3>1. rows[at] \in Row
      BY <2>3, <2>6
    <3> QED
      BY <3>1, <2>5 DEF Row
  <2>7. CASE at = 0
    <3>1. rows' = rows
      BY <2>3, <2>4, <2>7
    <3> QED
      BY <2>3, <3>1
  <2>8. CASE at # 0
    <3>1. \A i \in 1..Len(rows) : rows'[i] \in Row
      BY <2>3, <2>4, <2>6
    <3> QED
      BY <2>3, <2>4, <2>6, <2>8
  <2> QED
    BY <2>7, <2>8
<1>6. ASSUME NEW w \in Workers, Publish(w)
      PROVE  rows' \in Seq(Row) /\ Len(rows') >= Len(rows)
  <2>1. req[w] # Idle
    BY <1>6 DEF Publish, Serves
  <2>2. CASE rows' = rows
    BY <2>2 DEF TypeOK
  <2>3. CASE \E r \in Outcomes(req[w].row, Stages) : rows' = Save(req[w].at, r)
    <3>1. PICK r \in Outcomes(req[w].row, Stages) : rows' = Save(req[w].at, r)
      BY <2>3
    <3>2. req[w].row \in Row /\ req[w].at \in 0..Len(rows) /\ rows \in Seq(Row)
      BY <2>1, RequestTypes
    <3>3. r \in Report
      BY <3>2, OutcomeTypes
    <3> QED
      BY <3>1, <3>2, <3>3, SaveTypes
  <2> QED
    BY <1>6, <2>2, <2>3 DEF Publish
<1> QED
  BY <1>1, <1>2, <1>3, <1>4, <1>5, <1>6 DEF Next

LEMMA TypeStep == TypeOK /\ [Next]_vars => TypeOK'
<1> SUFFICES ASSUME TypeOK, [Next]_vars PROVE TypeOK'
  OBVIOUS
<1>1. rows' \in Seq(Row) /\ Len(rows') >= Len(rows)
  BY RowsAfter
<1>2. Len(rows) \in Nat /\ Len(rows') \in Nat
  BY <1>1 DEF TypeOK
<1>3. published' \in Seq(Report)
  <2>1. CASE UNCHANGED published
    BY <2>1 DEF TypeOK
  <2>2. ASSUME NEW w \in Workers, Publish(w) PROVE published' \in Seq(Report)
    <3>1. req[w] # Idle /\ req[w].row \in Row
      BY <2>2, RequestTypes DEF Publish, Serves
    <3>2. HasDraft(req[w].row) => Draft(req[w].row) \in Report
      <4>1. Start(req[w].row) \in Report
        BY <3>1, StartTypes
      <4> QED
        BY <4>1 DEF Start
    <3>3. \A r \in Outcomes(req[w].row, Stages) : r \in Report
      BY <3>1, OutcomeTypes
    <3>4. \E r \in Report : published' = Append(published, r)
      BY <2>2, <3>2, <3>3, Zenon DEF Publish
    <3>5. published \in Seq(Report)
      BY DEF TypeOK
    <3> QED
      BY <3>4, <3>5
  <2> QED
    BY <2>1, <2>2 DEF Next, vars, Load, Abort, OpenReview, Generate, EditSection
<1>4. /\ req' \in [Workers -> Request \cup {Idle}]
      /\ \A w \in Workers : req'[w] # Idle => req'[w].at <= Len(rows')
  <2>1. CASE UNCHANGED req
    BY <1>1, <1>2, <2>1 DEF TypeOK, Request
  <2>2. ASSUME NEW w \in Workers, Load(w)
        PROVE  /\ req' \in [Workers -> Request \cup {Idle}]
               /\ \A v \in Workers : req'[v] # Idle => req'[v].at <= Len(rows')
    <3>1. PICK job \in JobsOf[w] :
            req' = [req EXCEPT ![w] = [job |-> job, at |-> Len(rows), row |-> Latest]]
      BY <2>2 DEF Load
    <3>2. job \in Job
      BY DetailedAssumption
    <3> DEFINE new == [job |-> job, at |-> Len(rows), row |-> Latest]
    <3>3. new \in Request /\ new.at = Len(rows)
      BY <1>2, <3>2, LatestType DEF Request, TypeOK
    <3> HIDE DEF new
    <3>4. req' = [req EXCEPT ![w] = new]
      BY <3>1 DEF new
    <3> QED
      BY <1>1, <1>2, <3>3, <3>4 DEF TypeOK, Request
  <2>3. ASSUME NEW w \in Workers, req' = [req EXCEPT ![w] = Idle]
        PROVE  /\ req' \in [Workers -> Request \cup {Idle}]
               /\ \A v \in Workers : req'[v] # Idle => req'[v].at <= Len(rows')
    BY <1>1, <1>2, <2>3 DEF TypeOK, Request
  <2> QED
    BY <2>1, <2>2, <2>3 DEF Next, vars, Abort, OpenReview, Generate, EditSection,
       Publish, Finish
<1> QED
  BY <1>1, <1>3, <1>4 DEF TypeOK

\* The rows, what they hold and what requests have read stay well formed: what is
\* published is always a report with every section.
THEOREM TypeCorrect == Spec => []TypeOK
<1>1. Init => TypeOK
  BY DEF Init, TypeOK
<1> QED
  BY <1>1, TypeStep, PTL DEF Spec

-----------------------------------------------------------------------------
(* A failure stays flagged *)

\* A report in which something failed carries the warning, or was once shown with
\* metadata written by hand that do not.
Warned(report) == report.failed # {} => report.meta.incomplete \/ report.unwarned
GoodRow(row) == HasDraft(row) => Warned(row.base)

\* So is what was generated in every row, of those in the database and of those
\* that requests have read, and so are the published reports.
FlagInv ==
  /\ TypeOK
  /\ \A i \in DOMAIN rows : GoodRow(rows[i])
  /\ \A w \in Workers : req[w] # Idle => GoodRow(req[w].row)
  /\ \A v \in DOMAIN published : Warned(published[v])

\* A draft shows the metadata that were generated, or those written by hand.
LEMMA WarnedDraft ==
  ASSUME NEW row \in Row, GoodRow(row), HasDraft(row)
  PROVE  Warned(Draft(row))
<1>1. /\ Draft(row).failed = row.base.failed /\ Draft(row).meta = Shown(row, Meta)
      /\ Draft(row).unwarned = (row.base.unwarned \/ Unwarned(row))
  BY DEF Draft
<1>2. About(row.edits, Meta) = {} => Shown(row, Meta) = row.base.meta
  BY DEF Shown, Part
<1> QED
  BY <1>1, <1>2 DEF Warned, GoodRow, Unwarned

\* A generation adds its failures and the warning, and takes neither back but for
\* what it has built.
LEMMA WarnedOutcome ==
  ASSUME NEW row \in Row, GoodRow(row), NEW targets \in SUBSET Stages,
         NEW r \in Outcomes(row, targets)
  PROVE  Warned(r)
<1> DEFINE start == Start(row)
<1>1. Warned(start)
  <2>1. CASE HasDraft(row)
    BY <2>1, WarnedDraft DEF Start
  <2>2. CASE ~HasDraft(row)
    BY <2>2 DEF Start, EmptyReport, Warned
  <2> QED
    BY <2>1, <2>2
<1>2. PICK failed \in SUBSET Builds(targets) : r = Generated(start, targets, failed)
  BY DEF Outcomes
<1> HIDE DEF start
<1> DEFINE statuses == [s \in Stages |-> IF s \in failed THEN "failed"
                                         ELSE IF s \in targets THEN "complete"
                                         ELSE start.meta.statuses[s]]
<1>3. /\ r.failed = (start.failed \ targets) \cup failed
      /\ r.unwarned = start.unwarned
      /\ r.meta.incomplete = Flagged(start.meta, statuses)
  BY <1>2 DEF Generated
<1>4. CASE failed # {}
  <2>1. PICK s \in failed : TRUE
    BY <1>4
  <2>2. s \in Stages
    BY <2>1 DEF Builds
  <2>3. statuses[s] = "failed"
    BY <2>1, <2>2
  <2>4. Flagged(start.meta, statuses)
    BY <2>2, <2>3 DEF Flagged
  <2> QED
    BY <1>3, <2>4 DEF Warned
<1>5. CASE failed = {}
  <2>1. start.meta.incomplete => Flagged(start.meta, statuses)
    BY DEF Flagged
  <2> HIDE DEF statuses
  <2> QED
    BY <1>1, <1>3, <1>5, <2>1 DEF Warned
<1> QED
  BY <1>4, <1>5

LEMMA GoodEmpty == GoodRow(EmptyRow)
BY DEF GoodRow, HasDraft, EmptyRow

LEMMA GoodLatest ==
  ASSUME TypeOK, \A i \in DOMAIN rows : GoodRow(rows[i])
  PROVE  GoodRow(Latest)
<1>1. rows # <<>> => Len(rows) \in DOMAIN rows
  BY DEF TypeOK
<1> QED
  BY <1>1, GoodEmpty DEF Latest

LEMMA GoodSave ==
  ASSUME TypeOK, \A i \in DOMAIN rows : GoodRow(rows[i]),
         NEW at \in 0..Len(rows), NEW r \in Report, Warned(r)
  PROVE  \A i \in DOMAIN Save(at, r) : GoodRow(Save(at, r)[i])
<1>1. rows \in Seq(Row)
  BY DEF TypeOK
<1>2. CASE at = 0
  <2> DEFINE new == [EmptyRow EXCEPT !.base = r]
  <2>1. GoodRow(new)
    BY DEF EmptyRow, GoodRow
  <2> HIDE DEF new
  <2>2. Save(at, r) = Append(rows, new)
    BY <1>2 DEF Save, new
  <2> QED
    BY <1>1, <2>1, <2>2
<1>3. CASE at # 0
  <2> DEFINE new == [rows[at] EXCEPT !.base = r]
  <2>1. rows[at] \in Row
    BY <1>1, <1>3
  <2>2. new.base = r
    BY <2>1 DEF Row
  <2>3. GoodRow(new)
    BY <2>2 DEF GoodRow
  <2>4. Save(at, r) = [rows EXCEPT ![at] = new]
    BY <1>3 DEF Save
  <2> HIDE DEF new
  <2> QED
    BY <1>1, <2>3, <2>4
<1> QED
  BY <1>2, <1>3

\* Rows stay so over every step.
LEMMA GoodRowsAfter ==
  ASSUME FlagInv, [Next]_vars
  PROVE  \A i \in DOMAIN rows' : GoodRow(rows'[i])
<1>1. rows \in Seq(Row) /\ TypeOK /\ \A i \in DOMAIN rows : GoodRow(rows[i])
  BY DEF FlagInv, TypeOK
<1>2. CASE rows' = rows
  BY <1>1, <1>2
<1>3. ASSUME NEW w \in Workers, NEW targets \in SUBSET Stages, req[w] # Idle,
             NEW r \in Outcomes(req[w].row, targets), rows' = Save(req[w].at, r)
      PROVE  \A i \in DOMAIN rows' : GoodRow(rows'[i])
  <2>1. req[w].row \in Row /\ req[w].at \in 0..Len(rows) /\ GoodRow(req[w].row)
    BY <1>1, <1>3, RequestTypes DEF FlagInv
  <2>2. r \in Report /\ Warned(r)
    BY <2>1, OutcomeTypes, WarnedOutcome
  <2> QED
    BY <1>1, <1>3, <2>1, <2>2, GoodSave
<1>4. ASSUME NEW w \in Workers, OpenReview(w)
      PROVE  \A i \in DOMAIN rows' : GoodRow(rows'[i])
  <2> HIDE DEF GoodRow
  <2> QED
    BY <1>1, <1>4, GoodEmpty DEF OpenReview
<1>5. ASSUME NEW w \in Workers, EditSection(w)
      PROVE  \A i \in DOMAIN rows' : GoodRow(rows'[i])
  <2> DEFINE at == req[w].at
             edits == With(req[w].row.edits, req[w].job.change)
             new == [rows[at] EXCEPT !.edits = edits]
  <2>1. at \in 0..Len(rows)
    BY <1>1, <1>5, RequestTypes DEF EditSection, Serves
  <2>2. rows' = [rows EXCEPT ![at] = new]
    BY <1>5 DEF EditSection
  <2> HIDE DEF edits
  <2>3. ASSUME at # 0 PROVE GoodRow(new)
    <3>1. rows[at] \in Row /\ GoodRow(rows[at])
      BY <1>1, <2>1, <2>3
    <3>2. new.base = rows[at].base
      BY <3>1 DEF Row
    <3> QED
      BY <3>1, <3>2 DEF GoodRow, HasDraft
  <2> HIDE DEF new, at
  <2> QED
    BY <1>1, <2>1, <2>2, <2>3
<1>6. \A w \in Workers : req[w] # Idle /\ req[w].job.op = "generate"
                         => req[w].job.targets \in SUBSET Stages
  BY <1>1, RequestTypes, JobTypes
<1>7. ASSUME NEW w \in Workers, Generate(w) PROVE \A i \in DOMAIN rows' : GoodRow(rows'[i])
  BY <1>3, <1>6, <1>7 DEF Generate, Serves
<1>8. ASSUME NEW w \in Workers, Publish(w) PROVE \A i \in DOMAIN rows' : GoodRow(rows'[i])
  BY <1>2, <1>3, <1>8 DEF Publish, Serves
<1> QED
  BY <1>2, <1>4, <1>5, <1>7, <1>8 DEF Next, vars, Load, Abort

LEMMA FlagStep ==
  ASSUME FlagInv, [Next]_vars
  PROVE  FlagInv'
<1>1. TypeOK /\ TypeOK'
  BY TypeStep DEF FlagInv
<1>2. (\A i \in DOMAIN rows : GoodRow(rows[i]))'
  BY GoodRowsAfter
<1>3. GoodRow(Latest)
  BY <1>1, GoodLatest DEF FlagInv
<1>4. ASSUME NEW v \in Workers, req'[v] # Idle PROVE GoodRow(req'[v].row)
  <2>1. CASE req'[v] = req[v]
    BY <1>4, <2>1 DEF FlagInv
  <2>2. ASSUME NEW w \in Workers, Load(w), req'[v] # req[v]
        PROVE  GoodRow(req'[v].row)
    <3>1. PICK job \in JobsOf[w] :
            req' = [req EXCEPT ![w] = [job |-> job, at |-> Len(rows), row |-> Latest]]
      BY <2>2 DEF Load
    <3>2. v = w /\ req'[v].row = Latest
      BY <1>1, <2>2, <3>1 DEF TypeOK
    <3> QED
      BY <1>3, <3>2
  <2>3. ASSUME NEW w \in Workers, req' = [req EXCEPT ![w] = Idle]
        PROVE  req'[v] = req[v]
    BY <1>1, <1>4, <2>3 DEF TypeOK
  <2> QED
    BY <2>1, <2>2, <2>3 DEF Next, vars, Abort, OpenReview, Generate, EditSection,
       Publish, Finish
<1>5. (\A v \in DOMAIN published : Warned(published[v]))'
  <2>1. published \in Seq(Report) /\ \A v \in DOMAIN published : Warned(published[v])
    BY <1>1 DEF TypeOK, FlagInv
  <2>2. CASE published' = published
    BY <2>1, <2>2
  <2>3. ASSUME NEW w \in Workers, Publish(w)
        PROVE  \A v \in DOMAIN published' : Warned(published'[v])
    <3>1. req[w] # Idle /\ req[w].row \in Row /\ GoodRow(req[w].row)
      BY <1>1, <2>3, RequestTypes DEF Publish, Serves, FlagInv
    <3>2. HasDraft(req[w].row) => Warned(Draft(req[w].row))
      BY <3>1, WarnedDraft
    <3>3. \A r \in Outcomes(req[w].row, Stages) : Warned(r)
      BY <3>1, WarnedOutcome
    <3>4. \E r : published' = Append(published, r) /\ Warned(r)
      BY <2>3, <3>2, <3>3, Zenon DEF Publish
    <3> HIDE DEF Warned
    <3> QED
      BY <2>1, <3>4
  <2> QED
    BY <2>2, <2>3 DEF Next, vars, Load, Abort, OpenReview, Generate, EditSection
<1> QED
  BY <1>1, <1>2, <1>4, <1>5 DEF FlagInv

\* A published report in which a section failed and is missing carries the warning,
\* however sections failed, were generated again, edited and laid over, unless
\* metadata written by hand without the warning have stood over it.
THEOREM FailuresFlagged == Spec => []FailureFlagged
<1>1. Init => FlagInv
  BY DEF Init, TypeOK, FlagInv
<1>2. FlagInv /\ [Next]_vars => FlagInv'
  BY FlagStep
<1>3. FlagInv => FailureFlagged
  BY DEF FlagInv, FailureFlagged, Honest, Warned
<1> QED
  BY <1>1, <1>2, <1>3, PTL DEF Spec

-----------------------------------------------------------------------------
(* What an administrator wrote stays *)

\* One administrator at a time reviews, generates and edits; anybody may publish.
OneAuthor ==
  \E author \in Workers : \A w \in Workers : \A job \in JobsOf[w] :
    job.op # "publish" => w = author

\* A text in the generated column came there through the draft: the section has
\* an edit that stands for it.
Covered(row) ==
  HasDraft(row) =>
    \A s \in Stages : row.base.body[s] \in Texts => About(row.edits, s) # {}

\* The sections that are edited in one row are edited in the other.
Carries(edits, more) ==
  \A s \in Stages : About(edits, s) # {} => About(more, s) # {}

\* What a request in flight knows: a publication of an old row may have missed
\* edits, the administrator's own request has not.
Knows(w) ==
  LET r == req[w]
  IN /\ r.job \in JobsOf[w]
     /\ Covered(r.row)
     /\ r.at # 0 => Carries(r.row.edits, rows[r.at].edits)
     /\ r.at = 0 => r.row = EmptyRow
     /\ r.job.op = "publish" => r.at # 0
     /\ r.job.op # "publish" => r.at = Len(rows)
     /\ r.job.op = "edit" => r.at # 0 /\ r.row.edits = rows[r.at].edits

KeptInv ==
  /\ TypeOK
  /\ \A i \in DOMAIN rows : Covered(rows[i])
  /\ \A w \in Workers : req[w] # Idle => Knows(w)

\* A section keeps what it shows while other sections are edited.
LEMMA OthersShown ==
  ASSUME NEW edits \in Seq(Edit), NEW change \in Edit, NEW s
  PROVE  /\ About(edits, s) # {} => About(With(edits, change), s) # {}
         /\ change.section \notin {s, "full"}
            => /\ About(With(edits, change), s) = About(edits, s)
               /\ \A i \in About(edits, s) : With(edits, change)[i] = edits[i]
<1> DEFINE new == With(edits, change)
<1> DEFINE same == {i \in DOMAIN edits : edits[i].section = change.section}
<1>1. /\ DOMAIN edits \subseteq DOMAIN new
      /\ \A i \in DOMAIN edits : new[i] = IF i \in same THEN change ELSE edits[i]
      /\ \A i \in DOMAIN new : i \notin DOMAIN edits => new[i] = change
  <2>1. CASE same # {}
    <3>1. new = [i \in DOMAIN edits |-> IF edits[i].section = change.section
                                        THEN change ELSE edits[i]]
      BY <2>1 DEF With
    <3> HIDE DEF new
    <3> QED
      BY <3>1
  <2>2. CASE same = {}
    <3>1. new = Append(edits, change)
      BY <2>2 DEF With
    <3> HIDE DEF new, same
    <3>2. /\ DOMAIN edits = 1..Len(edits) /\ DOMAIN new = 1..(Len(edits) + 1)
          /\ \A i \in 1..Len(edits) : new[i] = edits[i]
          /\ new[Len(edits) + 1] = change /\ Len(edits) \in Nat
      BY <3>1
    <3> QED
      BY <2>2, <3>2
  <2> QED
    BY <2>1, <2>2
<1> HIDE DEF new
<1>2. About(edits, s) # {} => About(new, s) # {}
  <2>1. SUFFICES ASSUME NEW i \in About(edits, s) PROVE i \in About(new, s)
    OBVIOUS
  <2>2. i \in DOMAIN edits
    BY <2>1 DEF About
  <2>3. new[i].section = edits[i].section /\ i \in DOMAIN new
    BY <1>1, <2>2
  <2> QED
    BY <2>1, <2>3 DEF About
<1>3. ASSUME change.section \notin {s, "full"}
      PROVE  /\ About(new, s) = About(edits, s)
             /\ \A i \in About(edits, s) : new[i] = edits[i]
  BY <1>1, <1>3 DEF About
<1> QED
  BY <1>2, <1>3 DEF new

\* Generation brings no texts into a report that the draft does not show.
LEMMA OutcomeCovered ==
  ASSUME NEW row \in Row, Covered(row), NEW targets \in SUBSET Stages,
         NEW r \in Outcomes(row, targets), NEW s \in Stages, r.body[s] \in Texts
  PROVE  About(row.edits, s) # {}
<1>1. PICK failed \in SUBSET Builds(targets) :
        r = Generated(Start(row), targets, failed)
  BY DEF Outcomes
<1>2. r.body[s] = IF s \in Builds(targets) \ failed THEN "generated"
                  ELSE Start(row).body[s]
  BY <1>1 DEF Generated
<1>3. Start(row).body[s] \in Texts
  BY <1>2, DetailedAssumption
<1>4. HasDraft(row)
  BY <1>3, DetailedAssumption DEF Start, EmptyReport
<1>5. Shown(row, s) \in Texts
  BY <1>3, <1>4 DEF Start, Draft
<1>6. s # Meta
  BY DetailedAssumption
<1> QED
  BY <1>4, <1>5, <1>6 DEF Covered, Shown, Part

\* A section that has been edited shows the same over any generated column.
LEMMA ShownByEdits ==
  ASSUME NEW old, NEW new, NEW s, new.edits = old.edits, About(old.edits, s) # {}
  PROVE  Shown(new, s) = Shown(old, s)
BY DEF Shown

\* A column of the row at position at is replaced, or the row is new.
LEMMA RowsOf ==
  ASSUME rows \in Seq(Row), NEW at \in 0..Len(rows), NEW r \in Report
  PROVE  /\ at = 0 => Save(at, r) = Append(rows, [base |-> r, edits |-> <<>>])
         /\ at # 0 =>
              /\ Len(Save(at, r)) = Len(rows)
              /\ Save(at, r)[at] = [base |-> r, edits |-> rows[at].edits]
              /\ \A i \in DOMAIN rows : i # at => Save(at, r)[i] = rows[i]
<1>1. CASE at = 0
  BY <1>1 DEF Save, EmptyRow
<1>2. CASE at # 0
  <2>1. rows[at] \in Row
    BY <1>2
  <2>2. [rows[at] EXCEPT !.base = r] = [base |-> r, edits |-> rows[at].edits]
    BY <2>1 DEF Row
  <2>3. Save(at, r) = [rows EXCEPT ![at] = [base |-> r, edits |-> rows[at].edits]]
    BY <1>2, <2>2 DEF Save
  <2> QED
    BY <1>2, <2>3
<1> QED
  BY <1>1, <1>2

\* One section of the draft, over a step.
Stays(s) ==
  HasDraft(Latest) /\ Shown(Latest, s) \in Texts
    => \/ HasDraft(Latest') /\ Shown(Latest', s) = Shown(Latest, s)
       \/ \E w \in Workers : Edits(w, s)

\* What a step does to the rows: it keeps them covered, takes no edits away and
\* keeps what administrators wrote.
Keeps ==
  /\ \A i \in DOMAIN rows : i \in DOMAIN rows' /\ Carries(rows[i].edits, rows'[i].edits)
  /\ \A i \in DOMAIN rows' : Covered(rows'[i])
  /\ \A s \in Stages : Stays(s)

LEMMA SaveKeeps ==
  ASSUME KeptInv, NEW w \in Workers, req[w] # Idle, NEW targets \in SUBSET Stages,
         NEW r \in Outcomes(req[w].row, targets), rows' = Save(req[w].at, r)
  PROVE  /\ Keeps
         /\ req[w].job.op = "publish" =>
              /\ Len(rows') = Len(rows)
              /\ \A i \in DOMAIN rows : rows'[i].edits = rows[i].edits
<1> DEFINE at == req[w].at  row == req[w].row
<1>1. /\ rows \in Seq(Row) /\ Len(rows) \in Nat /\ at \in 0..Len(rows) /\ row \in Row
      /\ Knows(w) /\ \A i \in DOMAIN rows : Covered(rows[i])
  BY RequestTypes DEF KeptInv
<1>2. r \in Report /\ r # None
  BY <1>1, OutcomeTypes, DetailedAssumption
<1>3. \A s \in Stages : r.body[s] \in Texts => About(row.edits, s) # {}
  BY <1>1, OutcomeCovered DEF Knows
<1> DEFINE new == [base |-> r, edits |-> IF at = 0 THEN <<>> ELSE rows[at].edits]
<1>4. CASE at = 0
  <2>1. rows = <<>> /\ row = EmptyRow /\ req[w].job.op # "publish"
    BY <1>1, <1>4 DEF Knows
  <2>2. rows' = <<new>>
    <3>1. rows' = Append(rows, [base |-> r, edits |-> <<>>])
      BY <1>1, <1>2, <1>4, RowsOf
    <3>2. new = [base |-> r, edits |-> <<>>]
      BY <1>4
    <3> HIDE DEF new
    <3> QED
      BY <2>1, <3>1, <3>2
  <2>3. new.edits = row.edits /\ new.base = r
    BY <1>4, <2>1 DEF EmptyRow
  <2>4. Covered(new)
    BY <1>3, <2>3 DEF Covered
  <2>5. ~HasDraft(Latest)
    BY <2>1 DEF Latest, HasDraft, EmptyRow
  <2> HIDE DEF new
  <2>6. \A i \in DOMAIN rows' : Covered(rows'[i])
    BY <2>2, <2>4
  <2> QED
    BY <2>1, <2>5, <2>6 DEF Keeps, Stays
<1>5. CASE at # 0
  <2>1. /\ Len(rows') = Len(rows) /\ rows'[at] = new
        /\ \A i \in DOMAIN rows : i # at => rows'[i] = rows[i]
    BY <1>1, <1>2, <1>5, RowsOf
  <2>2. rows' \in Seq(Row)
    BY <1>1, <1>2, SaveTypes
  <2>3. new.edits = rows[at].edits /\ new.base = r
    BY <1>5
  <2>4. Covered(new)
    <3>1. Carries(row.edits, rows[at].edits)
      BY <1>1, <1>5 DEF Knows
    <3> QED
      BY <1>3, <2>3, <3>1 DEF Covered, Carries
  <2> HIDE DEF new
  <2>5. DOMAIN rows' = DOMAIN rows /\ \A i \in DOMAIN rows : rows'[i].edits = rows[i].edits
    BY <1>1, <2>1, <2>2, <2>3
  <2>6. \A i \in DOMAIN rows' : Covered(rows'[i])
    BY <1>1, <2>1, <2>4, <2>5
  <2>7. ASSUME NEW s \in Stages, HasDraft(Latest), Shown(Latest, s) \in Texts
        PROVE  HasDraft(Latest') /\ Shown(Latest', s) = Shown(Latest, s)
    <3>1. rows # <<>> /\ rows' # <<>> /\ Len(rows) \in DOMAIN rows
      BY <1>1, <1>5, <2>1, <2>2
    <3>2. Latest = rows[Len(rows)] /\ Latest' = rows'[Len(rows)]
      BY <2>1, <3>1 DEF Latest
    <3>3. CASE at # Len(rows)
      BY <2>1, <2>7, <3>1, <3>2, <3>3
    <3>4. CASE at = Len(rows)
      <4>1. Latest' = new /\ new.edits = Latest.edits
        BY <2>1, <2>3, <3>2, <3>4
      <4>2. s # Meta /\ Covered(Latest)
        BY <1>1, <3>1, <3>2, DetailedAssumption
      <4>3. About(Latest.edits, s) # {}
        BY <2>7, <4>2 DEF Covered, Shown, Part
      <4>4. Shown(new, s) = Shown(Latest, s)
        BY <4>1, <4>3, ShownByEdits, Zenon
      <4> QED
        BY <1>2, <2>3, <4>1, <4>4 DEF HasDraft
    <3> QED
      BY <3>3, <3>4
  <2>8. \A s \in Stages : Stays(s)
    BY <2>7 DEF Stays
  <2>9. \A i \in DOMAIN rows : i \in DOMAIN rows' /\ Carries(rows[i].edits, rows'[i].edits)
    BY <2>5 DEF Carries
  <2> QED
    BY <2>1, <2>5, <2>6, <2>8, <2>9 DEF Keeps
<1> QED
  BY <1>4, <1>5

LEMMA EditKeeps ==
  ASSUME KeptInv, NEW w \in Workers, EditSection(w)
  PROVE  Keeps
<1> DEFINE at == req[w].at  change == req[w].job.change
           edits == With(rows[at].edits, change)
           new == [base |-> rows[at].base, edits |-> edits]
<1>1. req[w] # Idle /\ req[w].job.op = "edit"
  BY DEF EditSection, Serves
<1>2. /\ rows \in Seq(Row) /\ Len(rows) \in Nat /\ at \in 0..Len(rows)
      /\ Knows(w) /\ \A i \in DOMAIN rows : Covered(rows[i])
  BY <1>1, RequestTypes DEF KeptInv
<1>3. at # 0 /\ at = Len(rows) /\ req[w].row.edits = rows[at].edits
  BY <1>1, <1>2 DEF Knows
<1>4. rows[at] \in Row /\ rows[at].edits \in Seq(Edit) /\ change \in Edit
  <2>1. rows[at] \in Row
    BY <1>2, <1>3
  <2>2. req[w].job \in Job
    BY <1>1, RequestTypes DEF KeptInv
  <2>3. change \in Edit
    BY <1>1, <2>2, JobTypes
  <2> QED
    BY <2>1, <2>3 DEF Row
<1>5. rows' = [rows EXCEPT ![at] = new]
  <2>1. rows' = [rows EXCEPT ![at].edits = edits]
    BY <1>3 DEF EditSection
  <2>2. [rows[at] EXCEPT !.edits = edits] = new
    BY <1>4 DEF Row
  <2> HIDE DEF edits, new
  <2> QED
    BY <2>1, <2>2
<1>6. new.base = rows[at].base /\ new.edits = edits
  OBVIOUS
<1>7. \A s \in Stages : About(rows[at].edits, s) # {} => About(edits, s) # {}
  BY <1>4, OthersShown
<1>8. ASSUME NEW s \in Stages, change.section \notin {s, "full"}
      PROVE  Shown(new, s) = Shown(rows[at], s)
  <2> DEFINE old == rows[at].edits
  <2>1. About(edits, s) = About(old, s) /\ \A i \in About(old, s) : edits[i] = old[i]
    BY <1>4, <1>8, OthersShown
  <2>2. About(old, s) # {} => Max(About(old, s)) \in About(old, s)
    BY <1>4, LastAbout, Zenon
  <2>3. About(old, s) # {} => edits[Max(About(old, s))] = old[Max(About(old, s))]
    BY <2>1, <2>2
  <2> HIDE DEF edits, new, old
  <2>4. CASE About(old, s) = {}
    BY <1>6, <2>1, <2>4 DEF Shown, old
  <2>5. CASE About(old, s) # {}
    BY <1>6, <2>1, <2>3, <2>5 DEF Shown, old
  <2> QED
    BY <2>4, <2>5
<1> HIDE DEF edits, new
<1>9. DOMAIN rows' = DOMAIN rows /\ Len(rows') = Len(rows) /\ rows'[at] = new
      /\ \A i \in DOMAIN rows : i # at => rows'[i] = rows[i]
  BY <1>2, <1>3, <1>5
<1>10. \A i \in DOMAIN rows : i \in DOMAIN rows' /\ Carries(rows[i].edits, rows'[i].edits)
  BY <1>6, <1>7, <1>9 DEF Carries
<1>11. \A i \in DOMAIN rows' : Covered(rows'[i])
  <2>1. at \in DOMAIN rows
    BY <1>2, <1>3
  <2>2. Covered(new)
    BY <1>2, <1>6, <1>7, <2>1 DEF Covered, HasDraft
  <2> QED
    BY <1>2, <1>9, <2>2
<1>12. ASSUME NEW s \in Stages PROVE Stays(s)
  <2>1. CASE change.section \in {s, "full"}
    BY <1>1, <2>1 DEF Stays, Edits, Serves
  <2>2. CASE change.section \notin {s, "full"}
    <3>1. rows # <<>> /\ rows' # <<>>
      BY <1>2, <1>3, <1>9
    <3>2. Latest = rows[at] /\ Latest' = new
      BY <1>3, <1>9, <3>1 DEF Latest
    <3> QED
      BY <1>6, <1>8, <2>2, <3>2 DEF Stays, HasDraft
  <2> QED
    BY <2>1, <2>2
<1> QED
  BY <1>10, <1>11, <1>12 DEF Keeps

LEMMA StepKeeps ==
  ASSUME KeptInv, [Next]_vars
  PROVE  Keeps
<1>1. rows \in Seq(Row) /\ \A i \in DOMAIN rows : Covered(rows[i])
  BY DEF KeptInv, TypeOK
<1>2. CASE rows' = rows
  <2>1. Latest' = Latest
    BY <1>2 DEF Latest
  <2> QED
    BY <1>1, <1>2, <2>1 DEF Keeps, Stays, Carries
<1>3. ASSUME NEW w \in Workers, OpenReview(w), rows' # rows PROVE Keeps
  <2>1. req[w] # Idle /\ req[w].job.op = "review"
    BY <1>3 DEF OpenReview, Serves
  <2>2. req[w].at = 0 /\ rows' = Append(rows, EmptyRow)
    BY <1>3 DEF OpenReview
  <2>3. Knows(w)
    BY <2>1 DEF KeptInv
  <2>4. rows = <<>>
    BY <1>1, <2>1, <2>2, <2>3 DEF Knows
  <2>5. rows' = <<EmptyRow>>
    BY <2>2, <2>4
  <2>6. Covered(EmptyRow) /\ ~HasDraft(Latest)
    BY <2>4 DEF Covered, Latest, HasDraft, EmptyRow
  <2> QED
    BY <2>4, <2>5, <2>6 DEF Keeps, Stays
<1>4. ASSUME NEW w \in Workers, Generate(w) PROVE Keeps
  <2>1. req[w] # Idle /\ req[w].job.targets \in SUBSET Stages
    BY <1>4, RequestTypes, JobTypes DEF Generate, Serves, KeptInv
  <2> QED
    BY <1>4, <2>1, SaveKeeps DEF Generate
<1>5. ASSUME NEW w \in Workers, Publish(w), rows' # rows PROVE Keeps
  BY <1>5, SaveKeeps DEF Publish, Serves
<1> QED
  BY <1>2, <1>3, <1>4, <1>5, EditKeeps DEF Next, vars, Load, Abort

\* A request of another worker leaves the administrator's row as it is.
LEMMA PeerKeeps ==
  ASSUME OneAuthor, KeptInv, NEW v \in Workers, req[v] # Idle,
         req[v].job.op # "publish", [Next]_vars, req'[v] # Idle
  PROVE  Len(rows') = Len(rows) /\ \A i \in DOMAIN rows : rows'[i].edits = rows[i].edits
<1>1. PICK author \in Workers :
        \A w \in Workers : \A job \in JobsOf[w] : job.op # "publish" => w = author
  BY DEF OneAuthor
<1>2. \A w \in Workers : req[w] # Idle => Knows(w) /\ req[w].job \in JobsOf[w]
  BY DEF KeptInv, Knows
<1>3. v = author
  BY <1>1, <1>2
<1>4. CASE rows' = rows
  BY <1>4
<1>5. ASSUME NEW w \in Workers, req[w] # Idle, req' = [req EXCEPT ![w] = Idle]
      PROVE  req[w].job.op = "publish"
  <2>1. w # v
    BY <1>5 DEF KeptInv, TypeOK
  <2> QED
    BY <1>1, <1>2, <1>3, <1>5, <2>1
<1>6. ASSUME NEW w \in Workers, OpenReview(w) \/ Generate(w) \/ EditSection(w)
      PROVE  FALSE
  <2>1. req[w] # Idle /\ req[w].job.op # "publish" /\ req' = [req EXCEPT ![w] = Idle]
    BY <1>6 DEF OpenReview, Generate, EditSection, Serves, Finish
  <2> QED
    BY <1>5, <2>1
<1>7. ASSUME NEW w \in Workers, Publish(w), rows' # rows
      PROVE  Len(rows') = Len(rows) /\ \A i \in DOMAIN rows : rows'[i].edits = rows[i].edits
  BY <1>7, SaveKeeps DEF Publish, Serves
<1> QED
  BY <1>4, <1>6, <1>7 DEF Next, vars, Load, Abort

LEMMA KeptStep ==
  ASSUME OneAuthor, KeptInv, [Next]_vars
  PROVE  KeptInv'
<1>1. TypeOK /\ TypeOK' /\ Keeps
  BY TypeStep, StepKeeps DEF KeptInv
<1>2. rows \in Seq(Row) /\ rows' \in Seq(Row) /\ Len(rows) \in Nat
  BY <1>1 DEF TypeOK
<1>3. (\A i \in DOMAIN rows : Covered(rows[i]))'
  BY <1>1 DEF Keeps
<1>4. ASSUME NEW v \in Workers, req[v] # Idle, req'[v] = req[v]
      PROVE  Knows(v)'
  <2>1. Knows(v)
    BY <1>4 DEF KeptInv
  <2>2. req[v].at \in 0..Len(rows)
    BY <1>1, <1>4, RequestTypes
  <2>3. req[v].at # 0 => Carries(req[v].row.edits, rows'[req[v].at].edits)
    <3>1. SUFFICES ASSUME req[v].at # 0
                   PROVE  Carries(req[v].row.edits, rows'[req[v].at].edits)
      OBVIOUS
    <3> DEFINE old == rows[req[v].at].edits  new == rows'[req[v].at].edits
    <3>2. req[v].at \in DOMAIN rows
      BY <1>2, <2>2, <3>1
    <3>3. Carries(old, new)
      BY <1>1, <3>2 DEF Keeps
    <3>4. Carries(req[v].row.edits, old)
      BY <2>1, <3>1 DEF Knows
    <3> HIDE DEF old, new
    <3>5. Carries(req[v].row.edits, new)
      BY <3>3, <3>4 DEF Carries
    <3> QED
      BY <3>5 DEF new
  <2>4. req[v].job.op # "publish" =>
          Len(rows') = Len(rows) /\ \A i \in DOMAIN rows : rows'[i].edits = rows[i].edits
    BY <1>4, PeerKeeps
  <2>5. req[v].job.op # "publish" => req[v].at = Len(rows')
    BY <2>1, <2>4 DEF Knows
  <2>6. req[v].job.op = "edit" => req[v].at # 0 /\ req[v].row.edits = rows'[req[v].at].edits
    BY <1>2, <2>1, <2>2, <2>4 DEF Knows
  <2> QED
    BY <1>4, <2>1, <2>3, <2>5, <2>6 DEF Knows
<1>5. ASSUME NEW w \in Workers, Load(w) PROVE Knows(w)'
  <2>1. PICK job \in JobsOf[w] :
          /\ job.op = "publish" => rows # <<>>
          /\ job.op = "edit" => HasDraft(Latest)
          /\ req' = [req EXCEPT ![w] = [job |-> job, at |-> Len(rows), row |-> Latest]]
    BY <1>5 DEF Load
  <2>2. req'[w] = [job |-> job, at |-> Len(rows), row |-> Latest] /\ rows' = rows
    BY <1>1, <1>5, <2>1 DEF TypeOK, Load
  <2>3. CASE rows = <<>>
    <3>1. Latest = EmptyRow /\ Len(rows) = 0
      BY <2>3 DEF Latest
    <3>2. Covered(EmptyRow) /\ ~HasDraft(EmptyRow)
      BY DEF Covered, HasDraft, EmptyRow
    <3> QED
      BY <2>1, <2>2, <2>3, <3>1, <3>2 DEF Knows
  <2>4. CASE rows # <<>>
    <3>1. Latest = rows[Len(rows)] /\ Len(rows) # 0 /\ Len(rows) \in DOMAIN rows
      BY <1>2, <2>4 DEF Latest
    <3>2. Covered(Latest)
      BY <3>1 DEF KeptInv
    <3>3. Carries(Latest.edits, rows[Len(rows)].edits)
      BY <3>1 DEF Carries
    <3> QED
      BY <2>2, <3>1, <3>2, <3>3 DEF Knows
  <2> QED
    BY <2>3, <2>4
<1>6. ASSUME NEW v \in Workers, req'[v] # Idle PROVE Knows(v)'
  <2>1. CASE req' = req
    BY <1>4, <1>6, <2>1
  <2>2. ASSUME NEW w \in Workers, Load(w) PROVE Knows(v)'
    <3>1. v # w => req'[v] = req[v]
      BY <1>1, <2>2 DEF Load, TypeOK
    <3> QED
      BY <1>4, <1>5, <1>6, <2>2, <3>1
  <2>3. ASSUME NEW w \in Workers, req' = [req EXCEPT ![w] = Idle] PROVE Knows(v)'
    <3>1. req'[v] = req[v]
      BY <1>1, <1>6, <2>3 DEF TypeOK
    <3> QED
      BY <1>4, <1>6, <3>1
  <2> QED
    BY <2>1, <2>2, <2>3 DEF Next, vars, Abort, OpenReview, Generate, EditSection,
       Publish, Finish
<1> QED
  BY <1>1, <1>3, <1>6 DEF KeptInv

\* With one administrator who generates and edits, what was written stays in the
\* draft until that section or the whole report is edited again, whoever publishes,
\* and generates for it, beside.
THEOREM EditsStay == OneAuthor /\ Spec => EditsKept
<1> SUFFICES ASSUME OneAuthor PROVE Spec => EditsKept
  OBVIOUS
<1> DEFINE A == \A s \in Stages :
                  LET text == Shown(Latest, s)
                  IN HasDraft(Latest) /\ text \in Texts
                     => \/ HasDraft(Latest') /\ Shown(Latest', s) = text
                        \/ \E w \in Workers : Edits(w, s)
<1>1. Init => KeptInv
  <2> SUFFICES ASSUME Init PROVE KeptInv
    OBVIOUS
  <2>1. TypeOK
    BY DEF Init, TypeOK
  <2> QED
    BY <2>1 DEF Init, KeptInv
<1>2. KeptInv /\ [Next]_vars => KeptInv'
  BY KeptStep
<1>3. KeptInv /\ [Next]_vars => A
  BY StepKeeps DEF Keeps, Stays
<1> HIDE DEF A
<1>4. Spec => [][A]_vars
  BY <1>1, <1>2, <1>3, PTL DEF Spec
<1> QED
  BY <1>4 DEF EditsKept, A

=============================================================================
