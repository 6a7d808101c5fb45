------------------------------- MODULE Evidence -------------------------------
(***************************************************************************)
(* Evidence of one assessment: services/evidence.py, with the selection of *)
(* its sources (services/assessment.py), the providers it reads from and   *)
(* the quality its normalisations give.                                    *)
(*                                                                         *)
(* A collection loads the assessment, asks the providers one request after *)
(* the other, writes the payload's file and then the rows, in one          *)
(* transaction:                                                            *)
(*   Begin, Ask ..., Store, Collect                                        *)
(* Exclusions ask the providers again and replace the figures.             *)
(***************************************************************************)
EXTENDS Rows, Lifecycle, Fetch, FiniteSets, FiniteSetsExt

CONSTANTS
  Projects,        \* Jira projects
  PagesOf,         \* PagesOf[p]: pages of issues p has
  Repos,           \* Azure DevOps repositories
  Activity,        \* Activity[r]: what happened in repository r in the lookback
  Top,             \* items of a kind one answer holds
  Labels,          \* labels of excluded work: kinds of item here
  Signs,           \* what the normalisations may find in what was read
  Workers, JobsOf,
  MaxSnapshots,    \* bound on the snapshots
  MaxFiles,        \* bound on the files of payloads
  None

VARIABLES
  status,          \* assessments.status
  selection,       \* assessment_source_selections
  snapshots,       \* evidence_snapshots, in the order of collection
  payloads,        \* collections whose file is under evidence/
  lock,            \* who holds SQLite's write lock over several steps
  req              \* the request each worker is serving

vars == <<status, selection, snapshots, payloads, lock, req>>
tables == <<status, selection, snapshots>>

-----------------------------------------------------------------------------
(* Data *)

Kinds == {"commits", "prs", "runs"}
Item == [kind : Kinds, label : Labels, id : Nat]
Selection == [project : Projects \cup {None}, repo : Repos \cup {None},
              pipelines : BOOLEAN]
Qualities == <<"connection_failure", "no_activity", "incomplete_adoption",
               "unrepresentative", "reliable_immature", "reliable">>
Quality == {Qualities[i] : i \in DOMAIN Qualities} \cup {"interview_only"}

\* source is what was selected; figures are the items behind the Azure metrics.
Snapshot ==
  [source : Selection, file : Nat, issues : Seq(Nat), figures : SUBSET Item,
   jira : Quality, azure : Quality, quality : Quality,
   excluded : SUBSET Labels, immutable : BOOLEAN, supersededBy : Nat]

Job == [op : {"select"}, to : Selection]
       \cup [op : {"move"}, to : Statuses]
       \cup [op : {"collect"}, refresh : BOOLEAN]
       \cup [op : {"exclude"}, labels : SUBSET Labels]
       \cup [op : {"confirm"}]

Ask == Kinds \cup {"pipelines", "issues"}

\* A short request; one that reads from the providers, with the rows it has loaded
\* and how far the reading is.  The snapshot is the one it is about or supersedes.
Short == [phase : {"loaded"}, job : Job, snapshot : Nat]
Reader ==
  [phase : {"asking", "stored"}, job : Job, snapshot : Nat, status : Statuses,
   source : Selection, asks : Seq(Ask), attempt : Nat, search : Search,
   items : SUBSET Item, failed : SUBSET {"jira", "azure"}, file : Nat]
Idle == [phase |-> "idle"]

ASSUME EvidenceAssumption ==
  /\ PagesOf \in [Projects -> Nat] /\ Top \in Nat /\ MaxSnapshots \in Nat
  /\ MaxFiles \in Nat
  /\ Activity \in [Repos -> SUBSET Item]
  /\ Signs \subseteq [few : BOOLEAN, brief : BOOLEAN, poor : BOOLEAN]
  /\ JobsOf \in [Workers -> SUBSET Job]
  /\ None \notin Projects \cup Repos \cup Workers

TypeOK ==
  /\ status \in Statuses
  /\ selection \in Selection \cup {None}
  /\ \A i \in DOMAIN snapshots :
       /\ snapshots[i] \in Snapshot
       /\ snapshots[i].supersededBy \in {0} \cup (i + 1)..Len(snapshots)
  /\ payloads \subseteq Nat
  /\ lock \in Workers \cup {None}
  /\ req \in [Workers -> Short \cup Reader \cup {Idle}]

Init ==
  /\ status = "setup"
  /\ selection = None
  /\ snapshots = <<>>
  /\ payloads = {}
  /\ lock = None
  /\ req = [w \in Workers |-> Idle]

-----------------------------------------------------------------------------
(* Arrival of a request *)

\* get_latest_snapshot: the newest one that is not superseded, 0 for none.
Latest ==
  Max({i \in DOMAIN snapshots : snapshots[i].supersededBy = 0} \cup {0})

\* The requests a collection makes of the providers, and those exclusions make.
\* Without selected pipelines it asks for all of them first.
CollectAsks(s) ==
  (IF s.repo # None /\ ~s.pipelines THEN <<"pipelines">> ELSE <<>>)
  \o (IF s.project # None THEN <<"issues">> ELSE <<>>)
  \o (IF s.repo # None THEN <<"commits", "prs", "runs">> ELSE <<>>)
ExcludeAsks(s) ==
  <<"commits", "prs">> \o (IF s.pipelines THEN <<>> ELSE <<"pipelines">>) \o <<"runs">>

Loaded(job, about) == [phase |-> "loaded", job |-> job, snapshot |-> about]
Reading(job, about, asks) ==
  [phase |-> "asking", job |-> job, snapshot |-> about, status |-> status,
   source |-> selection, asks |-> asks, attempt |-> 1, search |-> NewSearch,
   items |-> {}, failed |-> {}, file |-> 0]

EditableAnyway(i) == TRUE
Editable(i) == ~snapshots[i].immutable

\* Exclusions replace rows before they ask: the deletion takes the write lock.
Call(w) ==
  /\ req[w] = Idle
  /\ \E job \in JobsOf[w], about \in 0..Len(snapshots) :
       /\ CASE job.op = "select" ->
                 about = 0 /\ status \in {"setup", "collecting_evidence"}
            [] job.op = "move" -> about = 0 /\ CanTransition(status, job.to)
            [] job.op = "collect" ->
                 /\ selection # None /\ about = Latest
                 /\ Len(snapshots) < MaxSnapshots /\ Cardinality(payloads) < MaxFiles
                 /\ about # 0 /\ snapshots[about].immutable => job.refresh
            [] job.op = "exclude" ->
                 /\ about # 0 /\ Editable(about)
                 /\ selection # None /\ selection.repo # None
                 /\ snapshots[about].excluded # {} => lock = None
            [] job.op = "confirm" -> about # 0
       /\ req' = [req EXCEPT ![w] =
            CASE job.op = "collect" -> Reading(job, about, CollectAsks(selection))
              [] job.op = "exclude" -> Reading(job, about, ExcludeAsks(selection))
              [] OTHER -> Loaded(job, about)]
       /\ lock' = IF job.op = "exclude" /\ snapshots[about].excluded # {}
                  THEN w ELSE lock
  /\ UNCHANGED <<tables, payloads>>

\* Any failure, a crash included: what was not committed is gone, files are not.
Abort(w) ==
  /\ req[w] # Idle
  /\ req' = [req EXCEPT ![w] = Idle]
  /\ lock' = IF lock = w THEN None ELSE lock
  /\ UNCHANGED <<tables, payloads>>

Serves(w, op, phase) == req[w] # Idle /\ req[w].job.op = op /\ req[w].phase = phase
Free(w) == lock \in {None, w}
Finish(w) ==
  /\ req' = [req EXCEPT ![w] = Idle]
  /\ lock' = IF lock = w THEN None ELSE lock

-----------------------------------------------------------------------------
(* Asking the providers *)

Goes(w, asks, search, items, failed) ==
  req' = [req EXCEPT ![w] =
    [req[w] EXCEPT !.asks = asks, !.attempt = 1, !.search = search, !.items = items,
                   !.failed = failed]]

\* An answer holds the newest items of a kind, up to a limit.
Newest(S) == {x \in S : Cardinality({y \in S : y.id >= x.id}) <= Top}
Answer(repo, kind) == Newest({x \in Activity[repo] : x.kind = kind})

\* A source that fails is left out of a collection with all it had answered; the
\* list of pipelines is asked for outside, and its failure is the request's (Abort).
JiraFails(w) ==
  LET r == req[w] IN Goes(w, Tail(r.asks), NewSearch, r.items, r.failed \cup {"jira"})
AzureFails(w) ==
  LET r == req[w]
  IN Goes(w, <<>>, r.search, {}, r.failed \cup {"azure"})

AskNext(w) ==
  /\ req[w] # Idle /\ req[w].phase = "asking" /\ req[w].asks # <<>>
  /\ LET r == req[w]
         ask == Head(r.asks)
     IN \E reply \in Replies :
          \/ /\ Retries(reply, r.attempt)
             /\ req' = [req EXCEPT ![w].attempt = @ + 1]
          \/ /\ Fails(reply, r.attempt) /\ r.job.op = "collect"
             /\ \/ ask = "issues" /\ JiraFails(w)
                \/ ask \in Kinds /\ AzureFails(w)
          \/ /\ reply = "ok" /\ ask = "pipelines"
             /\ Goes(w, Tail(r.asks), r.search, r.items, r.failed)
          \/ /\ reply = "ok" /\ ask \in Kinds
             /\ Goes(w, Tail(r.asks), r.search,
                     r.items \cup Answer(r.source.repo, ask), r.failed)
          \/ /\ reply = "ok" /\ ask = "issues"
             /\ LET total == PagesOf[r.source.project]
                    taken == Takes(r.search, total)
                IN \E next \in NextTokens(r.search, total) :
                     IF Over(next) THEN Goes(w, Tail(r.asks), taken, r.items, r.failed)
                     ELSE IF Stalls(taken, next) THEN JiraFails(w)
                     ELSE Goes(w, r.asks, GoesOn(taken, next), r.items, r.failed)
  /\ UNCHANGED <<tables, payloads, lock>>

-----------------------------------------------------------------------------
(* Writing *)

\* The payload's file comes first; its name is new (it digests the time).
Stores(w) == payloads' = payloads \cup {Cardinality(payloads) + 1}
Store(w) ==
  /\ Serves(w, "collect", "asking") /\ req[w].asks = <<>>
  /\ Stores(w)
  /\ req' = [req EXCEPT ![w].phase = "stored", ![w].file = Cardinality(payloads) + 1]
  /\ UNCHANGED <<tables, lock>>

\* The normalisations, of which only the quality is kept: sign s says that there is
\* little data, too short a look back, or a poor signal (slow items, weak links
\* between code and items, failing pipelines).
JiraQuality(s) ==
  CASE s.brief -> "unrepresentative"
    [] ~s.brief /\ s.few -> "incomplete_adoption"
    [] ~s.brief /\ ~s.few /\ s.poor -> "reliable_immature"
    [] OTHER -> "reliable"
AzureQuality(s) ==
  CASE s.few -> "incomplete_adoption"
    [] ~s.few /\ s.poor -> "reliable_immature"
    [] OTHER -> "reliable"

JiraJudged(failed, empty) ==
  IF failed THEN {"connection_failure"}
  ELSE IF empty THEN {"no_activity"} ELSE {JiraQuality(s) : s \in Signs}
AzureJudged(failed, empty) ==
  IF failed THEN {"connection_failure"}
  ELSE IF empty THEN {"no_activity"} ELSE {AzureQuality(s) : s \in Signs}
Judged(source, judged) == IF source = None THEN {"interview_only"} ELSE judged

\* _combine_quality: the worse of the two, but for a source that was not selected.
Rank(q) == CHOOSE i \in DOMAIN Qualities : Qualities[i] = q
CombineBest(jira, azure) ==
  IF jira = "interview_only" THEN azure
  ELSE IF azure = "interview_only" THEN jira
  ELSE Qualities[Max({Rank(jira), Rank(azure)})]
Combine(jira, azure) ==
  IF jira = "interview_only" THEN azure
  ELSE IF azure = "interview_only" THEN jira
  ELSE Qualities[Min({Rank(jira), Rank(azure)})]

SupersedesLast(w) ==
  IF req[w].snapshot # 0 /\ req[w].job.refresh
  THEN [snapshots EXCEPT ![req[w].snapshot].supersededBy = Len(snapshots)]
  ELSE snapshots
Supersedes(w) ==
  IF req[w].snapshot # 0 /\ req[w].job.refresh
  THEN [snapshots EXCEPT ![req[w].snapshot].supersededBy = Len(snapshots) + 1]
  ELSE snapshots

Collect(w) ==
  /\ Serves(w, "collect", "stored") /\ Free(w)
  /\ LET r == req[w]
     IN /\ \E jira \in Judged(r.source.project,
                         JiraJudged("jira" \in r.failed, r.search.got = <<>>)),
             azure \in Judged(r.source.repo,
                         AzureJudged("azure" \in r.failed, r.items = {})) :
             snapshots' = Append(Supersedes(w),
               [source |-> r.source, file |-> r.file, issues |-> r.search.got,
                figures |-> r.items, jira |-> jira, azure |-> azure,
                quality |-> Combine(jira, azure), excluded |-> {},
                immutable |-> FALSE, supersededBy |-> 0])
        /\ status' = IF r.status \in {"setup", "collecting_evidence"}
                     THEN "evidence_ready" ELSE status
  /\ Finish(w)
  /\ UNCHANGED <<selection, payloads>>

\* apply_exclusions, once all answers are there.  Rows of exclusions that others
\* added since it loaded them would stay; one administrator excludes at a time.
Remaining(items, labels) == {x \in items : x.label \notin labels}
Exclude(w) ==
  /\ Serves(w, "exclude", "asking") /\ req[w].asks = <<>> /\ Free(w)
  /\ LET r == req[w]
     IN snapshots' = [snapshots EXCEPT
          ![r.snapshot].excluded = r.job.labels,
          ![r.snapshot].figures = Remaining(r.items, r.job.labels)]
  /\ Finish(w)
  /\ UNCHANGED <<status, selection, payloads>>

Confirm(w) ==
  /\ Serves(w, "confirm", "loaded") /\ Free(w)
  /\ snapshots' = [snapshots EXCEPT ![req[w].snapshot].immutable = TRUE]
  /\ Finish(w)
  /\ UNCHANGED <<status, selection, payloads>>

\* set_source_selection, the values normalised.
Select(w) ==
  /\ Serves(w, "select", "loaded") /\ Free(w)
  /\ selection' = req[w].job.to
  /\ Finish(w)
  /\ UNCHANGED <<status, snapshots, payloads>>

\* The raw transition endpoint; the start of the interview moves the status too.
Move(w) ==
  /\ Serves(w, "move", "loaded") /\ Free(w)
  /\ status' = req[w].job.to
  /\ Finish(w)
  /\ UNCHANGED <<selection, snapshots, payloads>>

\* A writer that finds the database locked gives up after the busy timeout.
Waits(w) == FALSE
GivesUp(w) == ~Free(w) /\ Abort(w)

\* What goes on by itself: every request to a provider has a timeout too.
Step(w) ==
  \/ AskNext(w) \/ Store(w) \/ Collect(w) \/ Exclude(w) \/ Confirm(w) \/ Select(w)
  \/ Move(w)
  \/ GivesUp(w)

Next ==
  \E w \in Workers : Call(w) \/ Abort(w) \/ Step(w)

Spec == Init /\ [][Next]_vars /\ \A w \in Workers : WF_vars(Step(w))

-----------------------------------------------------------------------------
(* Properties *)

\* A Jira search that did not fail has every page of issues once, in order,
\* whatever was retried and whatever tokens the provider hands out.
IssuesComplete ==
  \A i \in DOMAIN snapshots :
    LET s == snapshots[i]
    IN s.jira \notin {"connection_failure", "interview_only"}
         => s.issues = [p \in 1..PagesOf[s.source.project] |-> p]

\* The quality on the screen never hides a source: a selected one that failed or was
\* empty shows, and without sources the snapshot says that only the interview counts.
\* A source counts as selected when it was at the collection, whatever is selected by now.
QualityHonest ==
  \A i \in DOMAIN snapshots :
    LET s == snapshots[i]
        selected == {s.jira, s.azure} \ {"interview_only"}
    IN /\ s.jira = "interview_only" <=> s.source.project = None
       /\ s.azure = "interview_only" <=> s.source.repo = None
       /\ selected = {} <=> s.quality = "interview_only"
       /\ \A q \in selected : Rank(s.quality) <= Rank(q)

\* A snapshot always has the file of its payload, whatever fails on the way.
PayloadKept == \A i \in DOMAIN snapshots : snapshots[i].file \in payloads

\* Once confirmed, a snapshot's figures and exclusions stay, and the confirmation is
\* not withdrawn: a refresh makes a new snapshot, exclusions are refused.  (While
\* one administrator works on it: see the README for two.)
ConfirmedFrozen ==
  [][\A i \in DOMAIN snapshots : snapshots[i].immutable =>
       /\ snapshots'[i].immutable
       /\ snapshots'[i].figures = snapshots[i].figures
       /\ snapshots'[i].excluded = snapshots[i].excluded]_vars

\* Every request comes to an end, however the providers answer: retries and pages
\* run out, and nobody waits for the database for ever.
RequestsEnd == \A w \in Workers : req[w] # Idle ~> req[w] = Idle

\* The figures of a snapshot are of the work its payload was made from: exclusions
\* take away from it, as their comment says, and add nothing.
FiguresOfPayload ==
  [][\A i \in DOMAIN snapshots :
       snapshots'[i].figures \subseteq snapshots[i].figures]_vars

=============================================================================
