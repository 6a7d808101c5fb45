---------------------------- MODULE DetailedReport ----------------------------
(***************************************************************************)
(* The detailed report of one assessment, section by section:              *)
(* services/detailed_report.py, and what publish takes from it.            *)
(*                                                                         *)
(* The review row keeps two columns: the report as it was last generated,  *)
(* and what administrators wrote over its sections, in the order in which  *)
(* each section was first edited.  The draft is the one laid over the      *)
(* other.  A request reads the latest row, then writes in one step (Review *)
(* has the lock that publish holds while it writes its files).             *)
(***************************************************************************)
EXTENDS Integers, Sequences, FiniteSets, FiniteSetsExt

CONSTANTS
  Stages,          \* the sections that are generated, one after the other
  Methodology,     \* the one that every report has from the start
  Texts,           \* what an administrator may write for a section
  Workers, JobsOf,
  MaxVersions,     \* bound on the versions published
  None

VARIABLES
  rows,            \* assessment_reviews, the latest row last
  published,       \* detailed_report_json of the published reports
  req              \* the request each worker is serving

vars == <<rows, published, req>>

-----------------------------------------------------------------------------
(* Data *)

Meta == "generation_metadata"

\* A section is not written yet, generated, or an administrator's.
Text == {"pending", "generated"} \cup Texts
Metadata == [statuses : [Stages -> {"none", "complete", "failed"}],
             incomplete : BOOLEAN]
Content == [body : [Stages -> Text], meta : Metadata]

\* What happened to a report on its way (history): the sections whose last generation
\* failed, and whether it was once shown with metadata written by hand that do not
\* carry the warning.
Report == [body : [Stages -> Text], meta : Metadata,
           failed : SUBSET Stages, unwarned : BOOLEAN]

\* One section is rewritten, the metadata, or the report as a whole.  A single
\* domain of the domain reviews goes by a name that no section has.
Edit == [section : Stages \cup {"domain"}, to : Texts]
        \cup [section : {Meta}, to : Metadata]
        \cup [section : {"full"}, to : Content]
Row == [base : Report \cup {None}, edits : Seq(Edit)]
EmptyRow == [base |-> None, edits |-> <<>>]

\* The whole report is generated, or one section of it.
Job == [op : {"review", "publish"}]
       \cup [op : {"generate"}, targets : {Stages} \cup {{s} : s \in Stages}]
       \cup [op : {"edit"}, change : Edit]

\* The row loaded is the latest one, at position at (0: there is none).
Request == [job : Job, at : Nat, row : Row]
Idle == [job |-> None]

ASSUME DetailedAssumption ==
  /\ Methodology \in Stages
  /\ Stages \cap {"domain", Meta, "full"} = {}
  /\ Texts \cap {"pending", "generated"} = {}
  /\ None \notin Report /\ None \notin Job
  /\ JobsOf \in [Workers -> SUBSET Job]
  /\ MaxVersions \in Nat

TypeOK ==
  /\ rows \in Seq(Row)
  /\ published \in Seq(Report)
  /\ req \in [Workers -> Request \cup {Idle}]
  /\ \A w \in Workers : req[w] # Idle => req[w].at <= Len(rows)

Init ==
  /\ rows = <<>>
  /\ published = <<>>
  /\ req = [w \in Workers |-> Idle]

-----------------------------------------------------------------------------
(* The draft *)

Latest == IF rows = <<>> THEN EmptyRow ELSE rows[Len(rows)]

\* What the draft shows of a section: the last edit that is about it, or about the
\* whole report, and without one what was generated.
About(edits, s) == {i \in DOMAIN edits : edits[i].section \in {s, "full"}}
Part(report, s) == IF s = Meta THEN report.meta ELSE report.body[s]
Shown(row, s) ==
  LET about == About(row.edits, s)
      last == row.edits[Max(about)]
  IN IF about = {} THEN Part(row.base, s)
     ELSE IF last.section = "full" THEN Part(last.to, s) ELSE last.to

HasDraft(row) == row.base # None
Unwarned(row) == About(row.edits, Meta) # {} /\ ~Shown(row, Meta).incomplete
Draft(row) == [body |-> [s \in Stages |-> Shown(row, s)], meta |-> Shown(row, Meta),
               failed |-> row.base.failed, unwarned |-> row.base.unwarned \/ Unwarned(row)]

\* A section that was edited before keeps its place among the edits.
With(edits, change) ==
  IF \E i \in DOMAIN edits : edits[i].section = change.section
  THEN [i \in DOMAIN edits |->
          IF edits[i].section = change.section THEN change ELSE edits[i]]
  ELSE Append(edits, change)

-----------------------------------------------------------------------------
(* Generating *)

\* (In a changed form: a status that the metadata do not know.)
EmptyReportPending ==
  [body |-> [s \in Stages |-> IF s = Methodology THEN "generated" ELSE "pending"],
   meta |-> [statuses |-> [s \in Stages |-> "pending"], incomplete |-> FALSE],
   failed |-> {}, unwarned |-> FALSE]
EmptyReport ==
  [body |-> [s \in Stages |-> IF s = Methodology THEN "generated" ELSE "pending"],
   meta |-> [statuses |-> [s \in Stages |-> "none"], incomplete |-> FALSE],
   failed |-> {}, unwarned |-> FALSE]

\* A stage fails when what it builds is refused by the schema: the section stays
\* as it was.  Nothing is built for the methodology.
Builds(targets) == targets \ {Methodology}

FlaggedBefore(meta, statuses) == meta.incomplete
Flagged(meta, statuses) ==
  meta.incomplete \/ \E s \in Stages : statuses[s] = "failed"

Generated(report, targets, failed) ==
  LET statuses == [s \in Stages |-> IF s \in failed THEN "failed"
                                    ELSE IF s \in targets THEN "complete"
                                    ELSE report.meta.statuses[s]]
  IN [body |-> [s \in Stages |-> IF s \in Builds(targets) \ failed
                                 THEN "generated" ELSE report.body[s]],
      meta |-> [statuses |-> statuses,
                incomplete |-> Flagged(report.meta, statuses)],
      failed |-> (report.failed \ targets) \cup failed,
      unwarned |-> report.unwarned]

\* Generation goes on from the draft, if there is one.
Start(row) == IF HasDraft(row) THEN Draft(row) ELSE EmptyReport
Outcomes(row, targets) ==
  {Generated(Start(row), targets, failed) : failed \in SUBSET Builds(targets)}

-----------------------------------------------------------------------------
(* Requests *)

\* Publishing needs an approved review, editing a draft.
Load(w) ==
  /\ req[w] = Idle
  /\ \E job \in JobsOf[w] :
       /\ job.op = "publish" => rows # <<>> /\ Len(published) < MaxVersions
       /\ job.op = "edit" => HasDraft(Latest)
       /\ req' = [req EXCEPT ![w] = [job |-> job, at |-> Len(rows), row |-> Latest]]
  /\ UNCHANGED <<rows, published>>

Abort(w) ==
  /\ req[w] # Idle
  /\ req' = [req EXCEPT ![w] = Idle]
  /\ UNCHANGED <<rows, published>>

Serves(w, op) == req[w] # Idle /\ req[w].job.op = op
Finish(w) == req' = [req EXCEPT ![w] = Idle]

\* A scoring or an approval makes the row when it has found none; what else they
\* write is in Review.
OpenReview(w) ==
  /\ Serves(w, "review")
  /\ rows' = IF req[w].at = 0 THEN Append(rows, EmptyRow) ELSE rows
  /\ Finish(w)
  /\ UNCHANGED published

\* _save_draft: one column is written, of a new row if none was found.
SaveWithEdits(at, report) ==
  IF at = 0 THEN Append(rows, [EmptyRow EXCEPT !.base = report])
  ELSE [rows EXCEPT ![at] = [base |-> report, edits |-> <<>>]]
Save(at, report) ==
  IF at = 0 THEN Append(rows, [EmptyRow EXCEPT !.base = report])
  ELSE [rows EXCEPT ![at].base = report]

Generate(w) ==
  /\ Serves(w, "generate")
  /\ \E report \in Outcomes(req[w].row, req[w].job.targets) :
       rows' = Save(req[w].at, report)
  /\ Finish(w)
  /\ UNCHANGED published

EditSection(w) ==
  /\ Serves(w, "edit")
  /\ rows' = [rows EXCEPT ![req[w].at].edits =
                With(req[w].row.edits, req[w].job.change)]
  /\ Finish(w)
  /\ UNCHANGED published

\* publish takes the draft, or generates one and saves it with the report.
Publish(w) ==
  /\ Serves(w, "publish")
  /\ Len(published) < MaxVersions
  /\ LET row == req[w].row
     IN \/ /\ HasDraft(row)
           /\ published' = Append(published, Draft(row))
           /\ UNCHANGED rows
        \/ /\ ~HasDraft(row)
           /\ \E report \in Outcomes(row, Stages) :
                /\ published' = Append(published, report)
                /\ rows' = Save(req[w].at, report)
  /\ Finish(w)

Next ==
  \E w \in Workers :
    \/ Load(w) \/ Abort(w)
    \/ OpenReview(w) \/ Generate(w) \/ EditSection(w) \/ Publish(w)

Spec == Init /\ [][Next]_vars

-----------------------------------------------------------------------------
(* Properties *)

\* "never publish incomplete detailed report without warning flag"
\* (docs/detailed-report-design.md:88): when the last generation of a section has
\* failed and nothing has been put in its place, the published report carries the
\* warning, whatever was generated again, edited and failed in between.  The code
\* keeps this with one exception: metadata written by hand, alone or with the report
\* as a whole, are laid over those of every later generation, its failures included.
Honest(report) ==
  \A s \in report.failed :
    report.body[s] = "pending" => report.meta.incomplete \/ report.unwarned
FailureFlagged == \A v \in DOMAIN published : Honest(published[v])

\* What an administrator wrote stays in the draft until it is edited again: no
\* generation replaces it, a publication's neither, whichever row it has loaded.
Edits(w, s) == Serves(w, "edit") /\ req[w].job.change.section \in {s, "full"}
EditsKept ==
  [][\A s \in Stages :
       LET text == Shown(Latest, s)
       IN HasDraft(Latest) /\ text \in Texts
          => \/ HasDraft(Latest') /\ Shown(Latest', s) = text
             \/ \E w \in Workers : Edits(w, s)]_vars

=============================================================================
