-------------------------------- MODULE Review --------------------------------
(***************************************************************************)
(* The administrator's review of one assessment and the publication of its *)
(* report: services/scoring.py, services/review.py, services/publication.py*)
(* and the draft that services/detailed_report.py keeps on the review row. *)
(*                                                                         *)
(* Requests run in threads, on rows loaded without a lock (see Interview). *)
(* Most write in one step, from the first flush, which takes SQLite's write*)
(* lock, to the commit.  Two hold the lock for longer: entering the review *)
(* while the model scores, and publish while it writes the files:          *)
(*   Load, Enter, Rescore                                                  *)
(*   Load, [DraftDetail,] Number, Insert, ExportJson, ExportPdf, Commit    *)
(* Abort, a crash included, can come between any two steps.  The database  *)
(* forgets what was not committed, the files stay.                         *)
(***************************************************************************)
EXTENDS Lifecycle, Rows, Integers, Sequences, FiniteSets, FiniteSetsExt

CONSTANTS
  Practices,
  Scores,        \* what a practice may score
  Scorings,      \* candidate scores the model may return, for some practices
  Workers,       \* threads of the pool: requests in flight at once
  JobsOf,        \* JobsOf[w]: the requests a thread may be given
  MaxScorings,   \* bound on the scorings
  MaxVersions,   \* bound on the versions published
  None           \* NULL; nobody

VARIABLES
  status,      \* assessments.status
  cov,         \* candidate and final score of each practice_coverages row
  reviews,     \* assessment_reviews, the latest row last
  actions,     \* improvement_actions
  reports,     \* published_reports, by version
  files,       \* exports/<assessment>/v<n>/report-v<n>.{json,pdf}
  lock,        \* who holds SQLite's write lock over several steps
  req,         \* the request each worker is serving
  scorings,    \* number of scorings committed
  approved     \* the scorings somebody approved (history)

vars == <<status, cov, reviews, actions, reports, files, lock, req, scorings,
          approved>>
data == <<status, cov, reviews, actions, reports, scorings, approved>>

-----------------------------------------------------------------------------
(* Data *)

Score == Scores \cup {None}
Rating == [ai : Score, final : Score]
Sheet == [Practices -> Score]

\* What one scoring writes to the review row (overall maturity, strengths,
\* gaps, limitations, summary) is represented by the number of the scoring, 0
\* for none; the detailed report by the scores it was drafted from.
Row == [overall : Nat, ready : BOOLEAN, draft : {None} \cup Sheet]

\* The actions one scoring proposed are one element.
Action == [scoring : Nat, published : BOOLEAN]

Content == [scores : [Practices -> Scores], overall : Nat, detail : Sheet,
            plan : SUBSET Nat]
Versions == 1..MaxVersions
File == Content \cup {None}

\* score |-> None accepts the candidate.
Job == [op : {"start", "approve", "detail", "publish"}]
       \cup [op : {"score"}, practice : Practices, score : Score]
       \cup [op : {"transition"}, to : Statuses]
       \cup [op : {"reopen"}]

\* The rows loaded: the latest review is row, at position at (0: there is none).
View == [status : Statuses, cov : [Practices -> Rating], at : Nat, row : Row,
         actions : SUBSET Action]
Phases == {"loaded", "entered", "drafted", "numbered", "inserted", "written", "exported"}
Request == [phase : Phases, job : Job, seen : View, version : Nat]
Idle == [phase |-> "idle"]

ASSUME BoundAssumption == MaxScorings \in Nat /\ MaxVersions \in Nat
ASSUME ScoringAssumption ==
  \A r \in Scorings : \E S \in SUBSET Practices : r \in [S -> Scores]
ASSUME JobAssumption == JobsOf \in [Workers -> SUBSET Job]
ASSUME NullAssumption ==
  /\ None \notin Workers /\ None \notin Scores
  /\ None \notin Sheet /\ None \notin Content

EmptyRow == [overall |-> 0, ready |-> FALSE, draft |-> None]

TypeOK ==
  /\ status \in Statuses
  /\ cov \in [Practices -> Rating]
  /\ reviews \in Seq(Row)
  /\ actions \subseteq Action
  /\ DOMAIN reports \subseteq Versions
  /\ \A v \in DOMAIN reports : reports[v] \in Content
  /\ files \in [Versions -> [json : File, pdf : File]]
  /\ lock \in Workers \cup {None}
  /\ req \in [Workers -> Request \cup {Idle}]
  /\ scorings \in Nat
  /\ approved \subseteq Nat

-----------------------------------------------------------------------------
(* Reading the state *)

\* The final score, or the candidate while there is none.
Standing(c) ==
  [p \in Practices |-> IF c[p].final = None THEN c[p].ai ELSE c[p].final]
CompleteInPart(c) == \E p \in Practices : Standing(c)[p] # None
Complete(c) == \A p \in Practices : Standing(c)[p] # None

Latest == IF reviews = <<>> THEN EmptyRow ELSE reviews[Len(reviews)]

\* next_version: MAX(version) + 1.
NextVersion ==
  IF DOMAIN reports = {} THEN 1 ELSE Max(DOMAIN reports) + 1

\* The detailed report: the draft on the review row, or one generated now.
DetailOf(seen) ==
  IF seen.row.draft = None THEN Standing(seen.cov) ELSE seen.row.draft

\* What publish puts into the report: taken from the rows it has loaded.
ContentOf(seen) ==
  [scores |-> Standing(seen.cov), overall |-> seen.row.overall,
   detail |-> DetailOf(seen), plan |-> {a.scoring : a \in seen.actions}]

-----------------------------------------------------------------------------
(* Requests *)

Init ==
  /\ status = "interview_complete"
  /\ cov = [p \in Practices |-> [ai |-> None, final |-> None]]
  /\ reviews = <<>>
  /\ actions = {}
  /\ reports = <<>>
  /\ files = [v \in Versions |-> [json |-> None, pdf |-> None]]
  /\ lock = None
  /\ req = [w \in Workers |-> Idle]
  /\ scorings = 0
  /\ approved = {}

\* The checks a handler makes on the rows it has just read.
Accepts(job) ==
  CASE job.op = "start" ->
         status \in {"interview_complete", "admin_review", "published"}
    [] job.op = "score" ->
         /\ status = "admin_review"
         /\ job.score = None => cov[job.practice].ai # None
    [] job.op = "approve" -> status = "admin_review" /\ Complete(cov)
    [] job.op = "reopen" -> status = "admin_review"
    [] job.op = "publish" ->
         status = "admin_review" /\ Latest.ready /\ Complete(cov)
    [] job.op = "transition" -> CanTransition(status, job.to)
    [] job.op = "detail" -> TRUE

Load(w) ==
  /\ req[w] = Idle
  /\ \E job \in JobsOf[w] :
       /\ Accepts(job)
       /\ req' = [req EXCEPT ![w] =
                    [phase |-> "loaded", job |-> job, version |-> 0,
                     seen |-> [status |-> status, cov |-> cov,
                               at |-> Len(reviews), row |-> Latest,
                               actions |-> actions]]]
  /\ UNCHANGED <<data, files, lock>>

\* Any failure, a crash included: what was not committed is rolled back.
Abort(w) ==
  /\ req[w] # Idle
  /\ req' = [req EXCEPT ![w] = Idle]
  /\ lock' = IF lock = w THEN None ELSE lock
  /\ UNCHANGED <<data, files>>

\* Handlers that write in one step do so while nobody holds the lock.
Serves(w, op) ==
  /\ req[w] # Idle /\ req[w].job.op = op /\ req[w].phase = "loaded"
  /\ lock = None
Finish(w) == req' = [req EXCEPT ![w] = Idle]

\* The review row is updated, or created when none was loaded.
Update(at, row) ==
  IF at = 0 THEN Append(reviews, row) ELSE [reviews EXCEPT ![at] = row]

\* enter_admin_review flushes the move to admin_review, unless that is where the
\* assessment is, before the model is called.
Enter(w) ==
  /\ Serves(w, "start") /\ req[w].seen.status # "admin_review"
  /\ lock' = w
  /\ req' = [req EXCEPT ![w].phase = "entered"]
  /\ UNCHANGED <<data, files>>

MayScore(w) ==
  \/ Serves(w, "start") /\ req[w].seen.status = "admin_review"
  \/ req[w] # Idle /\ req[w].phase = "entered"

\* generate_candidate_scores, which regenerate calls too, once the model answers.
\* The session returns the review row as it was loaded, unless it was created
\* since.
FinalsReset(rating) == [rating EXCEPT !.final = None]
Rescored(rating) == rating
WithdrawNever(db, loaded) == db
Withdraw(db, loaded) == Put(db, loaded, FALSE)
Rescore(w) ==
  /\ MayScore(w)
  /\ scorings < MaxScorings
  /\ LET seen == req[w].seen
         k == scorings + 1
         last == Len(reviews)
         loaded == IF last = seen.at THEN seen.row ELSE Latest
     IN /\ \E r \in Scorings :
             cov' = [p \in Practices |->
                       IF p \in DOMAIN r
                       THEN [Rescored(cov[p]) EXCEPT
                               !.ai = Put(@, seen.cov[p].ai, r[p])]
                       ELSE cov[p]]
        /\ \E new \in {{}, {[scoring |-> k, published |-> FALSE]}} :
             actions' =
               {a \in actions :
                  \A b \in seen.actions :
                    ~b.published => a.scoring # b.scoring} \cup new
        /\ reviews' = Update(last, [Latest EXCEPT
                        !.overall = k, !.ready = Withdraw(@, loaded.ready)])
        /\ status' = Put(status, seen.status, "admin_review")
        /\ scorings' = k
  /\ Finish(w)
  /\ lock' = None
  /\ UNCHANGED <<reports, files, approved>>

\* accept_or_adjust_score, set_admin_score
AdjustScore(w) ==
  /\ Serves(w, "score")
  /\ LET p == req[w].job.practice
         seen == req[w].seen.cov[p]
         score == IF req[w].job.score = None THEN seen.ai ELSE req[w].job.score
     IN cov' = [cov EXCEPT ![p].final = Put(@, seen.final, score)]
  /\ Finish(w)
  /\ UNCHANGED <<status, reviews, actions, reports, files, lock, scorings,
                 approved>>

\* approve: candidates that were not finalised become final.
FillsAll(rating) == rating.ai # None
FillsNone(rating) == FALSE
Fills(rating) == rating.final = None
Approve(w) ==
  /\ Serves(w, "approve")
  /\ LET seen == req[w].seen
     IN /\ cov' = [p \in Practices |->
                     IF Fills(seen.cov[p])
                     THEN [cov[p] EXCEPT !.final =
                             Put(@, seen.cov[p].final, seen.cov[p].ai)]
                     ELSE cov[p]]
        /\ reviews' =
             IF seen.at = 0 THEN Append(reviews, [EmptyRow EXCEPT !.ready = TRUE])
             ELSE [reviews EXCEPT ![seen.at].ready =
                     Put(@, seen.row.ready, TRUE)]
        /\ approved' = approved \cup {seen.row.overall}
  /\ Finish(w)
  /\ UNCHANGED <<status, actions, reports, files, lock, scorings>>

\* DetailedReportService.generate: drafts the report, on a row of its own when
\* there is no review.
SaveDetail(w) ==
  /\ Serves(w, "detail")
  /\ LET seen == req[w].seen
         draft == Standing(seen.cov)
     IN reviews' =
          IF seen.at = 0 THEN Append(reviews, [EmptyRow EXCEPT !.draft = draft])
          ELSE [reviews EXCEPT ![seen.at].draft = draft]
  /\ Finish(w)
  /\ UNCHANGED <<status, cov, actions, reports, files, lock, scorings, approved>>

\* ReviewService.reopen_topic, POST /assessments/{id}/transition
Move(w) ==
  /\ Serves(w, "reopen") \/ Serves(w, "transition")
  /\ status' = IF req[w].job.op = "reopen" THEN "interview_active"
               ELSE req[w].job.to
  /\ Finish(w)
  /\ UNCHANGED <<cov, reviews, actions, reports, files, lock, scorings, approved>>

-----------------------------------------------------------------------------
(* Publication *)

Publishes(w, phase) ==
  req[w] # Idle /\ req[w].job.op = "publish" /\ req[w].phase = phase

Goes(w, phase) == req' = [req EXCEPT ![w].phase = phase]

\* Without a draft, one is generated and flushed first.
DraftDetail(w) ==
  /\ Publishes(w, "loaded") /\ req[w].seen.row.draft = None
  /\ lock = None /\ lock' = w
  /\ Goes(w, "drafted")
  /\ UNCHANGED <<data, files>>

Number(w) ==
  /\ \/ Publishes(w, "loaded") /\ req[w].seen.row.draft # None
     \/ Publishes(w, "drafted")
  /\ NextVersion <= MaxVersions
  /\ req' = [req EXCEPT ![w].phase = "numbered", ![w].version = NextVersion]
  /\ UNCHANGED <<data, files, lock>>

\* The row is flushed: its number must be free, and the lock is taken.
FreeAnyway(v) == v <= MaxVersions
Free(v) == v \notin DOMAIN reports
LocksNothing(w) == UNCHANGED lock
Locks(w) == lock \in {None, w} /\ lock' = w
Insert(w) ==
  /\ Publishes(w, "numbered")
  /\ Free(req[w].version)
  /\ Locks(w)
  /\ Goes(w, "inserted")
  /\ UNCHANGED <<data, files>>

\* write_json_export, then write_pdf_export: each file is replaced at once.
ExportJson(w) ==
  /\ Publishes(w, "inserted")
  /\ files' = [files EXCEPT ![req[w].version].json = ContentOf(req[w].seen)]
  /\ Goes(w, "written")
  /\ UNCHANGED <<data, lock>>

ExportPdf(w) ==
  /\ Publishes(w, "written")
  /\ files' = [files EXCEPT ![req[w].version].pdf = ContentOf(req[w].seen)]
  /\ Goes(w, "exported")
  /\ UNCHANGED <<data, lock>>

\* The actions loaded are marked published, which fails when one is gone.
Commit(w) ==
  /\ Publishes(w, "exported")
  /\ LET seen == req[w].seen
         v == req[w].version
         marked == {a.scoring : a \in {b \in seen.actions : ~b.published}}
     IN /\ marked \subseteq {a.scoring : a \in actions}
        /\ actions' = {[a EXCEPT !.published = @ \/ a.scoring \in marked] :
                         a \in actions}
        /\ reports' = [n \in DOMAIN reports \cup {v} |->
                         IF n = v THEN ContentOf(seen) ELSE reports[n]]
        /\ reviews' = IF seen.row.draft # None THEN reviews
                      ELSE [reviews EXCEPT ![seen.at].draft = DetailOf(seen)]
  /\ status' = "published"
  /\ lock' = None
  /\ Finish(w)
  /\ UNCHANGED <<cov, files, scorings, approved>>

Next ==
  \E w \in Workers :
    \/ Load(w) \/ Abort(w)
    \/ Enter(w) \/ Rescore(w) \/ AdjustScore(w) \/ Approve(w) \/ SaveDetail(w) \/ Move(w)
    \/ DraftDetail(w) \/ Number(w) \/ Insert(w)
    \/ ExportJson(w) \/ ExportPdf(w) \/ Commit(w)

Spec == Init /\ [][Next]_vars

-----------------------------------------------------------------------------
(* Properties *)

\* The files offered for a published version say what its report says, after any
\* number of failed, crashed or competing publications: a version's files are
\* written under the lock that its row was inserted with.
ExportsMatch ==
  \A v \in DOMAIN reports :
    files[v].json = reports[v] /\ files[v].pdf = reports[v]

\* A package is ready only if every practice has a final score: what is published
\* was accepted or set by an administrator, never a bare candidate.
ReadyComplete ==
  (\E i \in DOMAIN reviews : reviews[i].ready)
    => \A p \in Practices : cov[p].final # None

\* A report carries the overall maturity, strengths and gaps of a scoring that
\* was approved: scoring anew withdraws the approval.
ReportsApproved == \A v \in DOMAIN reports : reports[v].overall \in approved

\* A final score is an administrator's decision: only a request that sets it
\* changes it, no scoring, approval or publication does.
FinalsKept ==
  [][\A p \in Practices :
       cov[p].final # None /\ cov'[p].final # cov[p].final
       => \E w \in Workers : /\ req[w] # Idle /\ req[w].job.op = "score"
                            /\ req[w].job.practice = p]_vars

\* The review implements the shelf of reports that readers are promised.
Offered == [v \in DOMAIN reports |-> files[v]]
Shelf == INSTANCE ReportShelf
           WITH Contents <- Content, shelf <- reports, downloads <- Offered
ImplementsShelf == Shelf!SSpec

=============================================================================
