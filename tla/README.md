# SAFe2DevOps, specified

Models of the SAFe2DevOps assessment server in TLA+, the runs that check them with TLC and
the proofs that TLAPS checks. Line numbers refer to the repository (`backend/app/...`).

## The system

A team is assessed in a workshop. An administrator sets the assessment up, evidence is
collected from Jira and Azure DevOps, a host conducts an interview that a language model
steers, remote participants contribute, an administrator reviews candidate scores and
publishes a report.

| Component | State | Operations | Talks to | Hard |
|---|---|---|---|---|
| Lifecycle (`services/lifecycle.py`) | `assessments.status` | `transition`, raw endpoint | everybody | a status checked earlier than it is relied on |
| Interview (`services/interview.py`) | session, turns, coverage | start, resume, submit, ingest, save draft, checkpoint, complete | model, standards, lifecycle | stale rows during a model call, retries, counters |
| Scoring (`services/scoring.py`) | candidate scores, draft actions, review row | enter review, regenerate | model, lifecycle | stale review row during a model call |
| Review (`services/review.py`, `assessment.py`) | final scores, approval | accept/adjust, approve, reopen | scoring, interview | approval against concurrent changes |
| Publication (`services/publication.py`, `exports.py`) | reports, files | publish, results | review, detailed report, file system | crash between files and commit, versions |
| Detailed report (`services/detailed_report.py`) | draft and edits on the review row | generate, regenerate section, edit | model, publication | stale drafts, flags, edits laid over generations |
| Remote (`services/remote.py`, `tokens.py`) | invites, contributors, contributions | invite, revoke, join, submit, dispose | interview | concurrent invites and dispositions |
| Evidence (`services/evidence.py`) | snapshots, metrics, exclusions | collect, exclude, confirm | integrations | check, remote call, write |
| Enterprise standards (`services/enterprise_standards.py`) | library, contexts, snapshots, findings | CRUD, snapshot, update | interview, review | snapshot against edits |
| Voice (`services/voice.py`) | temporary audio, counters | transcribe, clean up | model, file system | lost updates, expiry |
| Backup (`services/backup.py`) | database and backup files | back up, restore | file system | crash between file operations |
| Workshop room (`frontend/src/screens/WorkshopRoom.tsx`) | answer, key, draft timer | send, retry, autosave | interview | lost answers, fresh keys |

All of the backend runs in one process (ADR-002: a single replica), but FastAPI runs the
synchronous endpoints in a thread pool, and a double click, a second tab, a retry or a
second administrator is enough for two requests on one assessment. What they share is
SQLite. `core/db.py` configures the sessions with `autoflush=False` and
`expire_on_commit=False`: reads take no transaction, a row stays as it was first read, an
UPDATE names only the columns whose value differs from the one loaded, and the first flush
takes the write lock, which is kept until the commit. Between the read and the flush most
requests call a language model for seconds. That is the centre of this project.

What each component has to get right:

- **Interview.** An answer counts once; the count, the limit, the transcript and the screen
  agree; poor coverage is final; nobody is asked for ever; contributions leave the host alone.
- **Scoring, review.** What is published was approved; an administrator's score stays.
- **Publication.** Versions never change and have no gaps; files agree with the report.
- **Detailed report.** An incomplete one says so; what was written by hand is not generated over.
- **Remote.** One live invite; a contribution is disposed of once; revocation is effective.
- **Evidence.** A confirmed snapshot does not change; one snapshot is current.
- **Standards.** What the interview froze stays; an administrator's finding is kept.
- **Backup.** After a crash the database is the old or the new one.

## Modules

| Module | Models |
|---|---|
| `Lifecycle` | the states and the transition table |
| `Rows` | `Put`: which value a flush leaves in a column |
| `Transcript` | abstract: the log of turns and the host's screen |
| `Interview` | the interview with everything that touches its rows |
| `ReportShelf` | abstract: the published reports and the files offered |
| `Review` | scoring, review, publication, the draft of the detailed report |
| `DetailedReport` | the detailed report's sections: generation, failures, edits, what is published |
| `RateLimit` | the sliding window of `core/rate_limit.py` |
| `Inbox` | abstract: what becomes of what participants send |
| `Remote` | invites, tokens, contributors, contributions (over `RateLimit`, `Rows`) |
| `Fetch` | one request to a provider with its retries, and the paging of the issue search |
| `Evidence` | source selection, collection, exclusions, confirmation (over `Fetch`, `Rows`, `Lifecycle`) |
| `Standards` | the library of enterprise standards, its freezing, the findings (over `Rows`, `Lifecycle`) |
| `Draft` | the live draft of an answer: `transcriptReconciliation.ts` |
| `Mic` | the states of a voice capture: `voiceStateMachine.ts` |
| `Voice` | the page's capture, its connection and the server's accuracy pass (over `Draft`, `Mic`) |
| `MC...` | instances for TLC: jobs, analyses, scorings, activity |
| `InterviewProofs`, `ReviewProofs`, `DetailedReportProofs`, `RemoteProofs`, `EvidenceProofs`, `StandardsProofs`, `VoiceProofs` | theorems; the second half of `InterviewProofs` has those that need one host or one request at a time |
| `Least` | facts the proofs share: a least counterexample, an element with a property, the greatest of finitely many numbers |

The backend modules have one shape. A constant `JobsOf` says what a thread may be asked;
one action loads rows and checks the guards of the handler, one action per operation writes
and commits, and `Abort` ends a request anywhere. A handler that flushes before its commit
and does something slow or durable in between (a file, a model or provider call) holds
`lock` and has an action for each part.

Some definitions come in a changed form too, each said to be one in its comment or named
beside the original (`KeepsUntil` and `Keeps`): nothing uses those but the
mutants listed in `PROJECT.json`, which show that a property notices the change.

### Interview

`status`, `cov`, `session` and `turns` are the rows of one assessment; `req[w]` is the
request of thread `w` with the rows it has loaded. `Load` reads and checks the guards of
the handler, `Sequence` reads the next turn number, and one action per operation writes:
`SubmitTurn`, `IngestRemote`, `Start` (also resume), `Complete`, `Transition` (the raw
endpoint), `ReopenTopic`, `SaveDraft`, `Rescore`. `Abort` ends a request at any point.
A crash is an abort of the requests in flight: nothing else is held in memory.

The data is abstract. A question is the set of practices whose seed texts it repeats, since
`_practice_probe_count` compares texts (1514-1536); an analysis is what the model says of
each practice, and any analysis of the constant `Analyses` may come back; evidence
summaries, telemetry and audit rows are left out. What the code computes from the data is
kept: `ApplyUpdates`, `MarkInsufficient`, the priorities of `Select`, `Exhausted` and
`Eligible`. The turn number that `Sequence` reads is written with the turn; two turns of
one number make the second insert fail.

### Review

`cov` holds the candidate and final score of each practice, `reviews` the review rows,
`actions` the improvement actions of each scoring, `reports` and `files` the publications,
`lock` who holds SQLite's write lock across several steps. Two handlers do: entering the
review (the lifecycle move is flushed before the model scores, scoring.py 43-57) and
publish, which writes both files between the insert and the commit. Everything else writes
in one step. `approved` is a history variable: the scorings somebody has approved.

A scoring is represented by its number, which stands for the overall maturity, strengths,
gaps and summary it wrote; a detailed report by the scores it was drafted from; the actions
of a scoring are one element. Observations, the unreliable flag and edits of single actions
change columns that none of this reads.

### Detailed report

`rows` are the review rows as far as this report goes: what was generated last (`base`) and what
administrators wrote over it (`edits`, in the order in which each section was first edited). `Draft`
lays one over the other as `_apply_edits` does; `Generated` goes on from that draft, one
stage after the other, any of which may fail when the schema refuses what it built. `Load` reads the latest
row; `Generate`, `EditSection`, `OpenReview` (a scoring or an approval that makes the row) and
`Publish` write in one step, the last two columns of one row. A section is written by hand, generated or
pending; of the metadata the statuses and the warning `incomplete` are kept. An edit may rewrite a section,
the metadata or the report as a whole, sections and metadata together. Two history fields go with every
report: `failed`, the sections whose last generation failed, and `unwarned`, whether it was shown with
metadata written by hand that do not carry the warning. `FailureFlagged` judges the failures
themselves by them and not the statuses that a report shows, which an edit may hide.

What the model shows besides: metadata written by hand, alone or with the whole report, are laid over
those of every later generation (`detailed_report.py` 244-252, 319-344), so that a section which fails after
such an edit is published pending and without a flag, against `docs/detailed-report-design.md:88`
(the one exception `FailureFlagged` makes, `unwarned`); the warning is never taken back, also when the section has been generated since
(`detailed_report.py` 230); a section that was never attempted, since only one was
generated, is published without a warning, though `docs/detailed-report-design.md:88` says "never publish
incomplete detailed report without warning flag"; an edit of a single domain, or of a section again after
the whole report the whole report was rewritten, is stored and not shown; of two sessions that generate at once, one
whose section failed may replace the section the other generated.

### Remote

`invites`, `revocations`, `contributors` and `inbox` are the tables of `services/remote.py`,
`uploads` the files under `uploads/remote`, `turns` the interview turns recorded under a
contribution's key: all of `Interview`'s inclusion that is of interest here, and the part
by which a second inclusion fails. `Verified` is the check of a token (no older than
any assessment token may be, not revoked in either table, not expired), `ActiveInvite` the
link the host's screen offers. `Knock` is a request that comes with a link: the limiter
counts a submission before the token is looked at. A submission flushes its row, stores its
attachment and commits (`Flush`, `Attach`, `Commit`).

What the code does and the model shows, without a document against it: two links created at
once both stay live; only an inclusion checks the status of the contribution, so a host can
dismiss what another has included; a link made to live up to 30 days is refused once its
token is older than `assessment_token_ttl_seconds`, 7 days, and still shown to the host.
The limiter is memory: a restart empties it. It reads the clock before it takes its lock, so
two requests may be entered in the other order; the model enters them in the order of their
times. Joining has a bucket of its own, which behaves
the same. The page sends no idempotency key, so a submission repeated is a second one.

### Evidence

`snapshots` are the rows in the order of collection with the items behind their figures,
`payloads` the files. A collection makes its requests one after the other (`AskNext`,
following `CollectAsks`), then `Store` writes the file and `Collect` the rows and the status,
from the assessment and the selection it loaded at first. Exclusions delete rows, which
takes the write lock, ask the providers again (`ExcludeAsks`) and replace the figures.

`Fetch` has one request: retried on a busy status or a timeout, up to `MAX_RETRIES`; and the
issue search: a token handed out before, or too many pages, makes it fail rather than
return part. Azure DevOps is asked once per kind for the newest items up to `$top`
(`Answer`), and what is beyond is missing without a mark. `JiraQuality` and `AzureQuality`
order the branches of the normalisations; which branch it is depends on counts and
times, a sign that is chosen.

What the model shows besides: exclusions leave the quality as it was collected (clearing them too); two collections at once
leave two current snapshots and a status computed from the row each loaded, and a
second administrator who confirms during an exclusion does not stop it (`ConfirmedFrozen` is
checked with one); a failing list of pipelines ends the whole collection (`Abort`), unlike
every other failing source; a `Retry-After` that is a date is a `ValueError`
(`http.py` 297), which ends the request as any failure; `jira/normalize.py:75` takes
a fixed date for now.

### Standards

`library` is the standards with their rule rows, shared by all assessments, `context`,
`frozen` and `finding` belong to one assessment. A rule row has an identity: saving deletes
the rows it loaded and inserts new ones, so two sessions that save at once leave the rules
of both, and of the other fields the values that each changed. `Seen` is what a request has read to write to; a
finding's edit and the import's first item use it, the analyses read under the lock.
`Applicable` is `is_applicable` over the context. A start freezes every applicable standard
with an open finding, or none when the assessment has frozen ones; the interview itself
is in `Interview`.

An override is lost when an analysis changes the status between the load and the save of the
administrator's edit, and the administrator chose the status that was loaded
(`enterprise_standards.py:532`): the column is left out of the UPDATE. `OverridesKept` is checked while one
session edits and answers. A key the model makes up fails the whole answer. A list read with
its rules while another session saves may show new fields with old rules; nothing is written
from it. `replace` of an import is never called with true.

### Voice

`tab` is the page: the answer box, the reducer's context (`Mic`), the store of segments
(`Draft`), the recording, the microphones and connections in use, and `flows`, the calls of
`start`, `recover`, `finish` and `retryRefine` that have not returned, each at the await it is
in. Every action runs the page from one await to the next, since nothing else runs in
between. `disk` and `stray` are the recordings on the server. A word is a
segment as the provider said it, a recording as the accuracy pass has it, or what the host
typed. The server's endpoint is a coroutine that calls the provider synchronously: while it
serves one upload (`Serving`) it serves nothing, and holds the write lock.

Properties are stated around what the code does not keep. An error of the provider while
finishing leaves the finish running; the host may record again, the old recording's
text then replaces the new, and two connections can be up at once. `tab.overlapped` is a history
variable that says whether a recording has begun while a call of an earlier one was
awaited or its microphone was on; `NothingSaidTwice`, `MicReleased` and `SpokenKept` are about
the executions up to then.

Three more faults of the code are modelled and excepted, each by name:

- A message without an `item_id` is taken: the page files a delta under `pending` and a completed text
  under `completed-N` (`realtimeTranscription.ts` 892, 897). One segment is then both provisional
  and completed, and is said twice. `NothingSaidTwice` speaks of texts all of whose messages named
  their segment (`AllNamed`).
- The stream is cloned before the recorder is made; when the recorder cannot be made or started,
  only the reference to it is dropped (682-699), and the clone's tracks stay on with nothing left to stop
  them. `tab.leaked` records these; `MicReleased` is about the microphones the page still holds (`tab.mics`).
- A file that cannot be removed stays, its row is marked as cleaned up all the same
  (voice.py 884, 1068-1076), and no expiry looks at it again. `Removes` lets any removal fail this way and
  sets `marked`, which `NoAudioLeft` excepts.

An upload that cannot be written, or only in part, is not transcribed; the live draft is polished
instead (`UploadNotStored`). Besides, a capture left without finishing (an error, a failed
reconnection, leaving the room during the start) keeps the microphone on; an upload whose
row was not committed has nobody to delete it; expiry removes recordings that were to be
retained as well (voice.py 889-903). Left out: leaving the room, loading the
session into the answer box again (`WorkshopRoom.tsx` 215, which `SpokenKept` therefore says nothing about),
the mock provider, notes
typed beside a capture (finishing replaces them), the switching of tracks, the microphone
test, counters, diagnostics and settings.

## Runs

| Run | Question | Bounds |
|---|---|---|
| `interview_room` | do count, screen and transcript agree while one host answers and contributions are included? | 2 practices, 3 keys, 1 contribution, 2 turns, 2 threads |
| `interview_retry` | does an answer sent twice, or an interview started again, count once? | 2 practices, 2 keys on two threads |
| `interview_serial` | how do coverage and questions move through interview, review and reopening? | 3 practices in 2 domains, 5 analyses, 3 turns, 1 thread |
| `interview_scored` | *violation*: can every complete interview be scored? | 1 thread, the mock scoring |
| `review_publish` | do approvals, reports and files agree over failures and crashes, with one administrator who scores? | 2 practices, 2 scorings, 2 versions, 2 threads |
| `review_race` | *violation*: is what is published approved, with two who score? | 1 practice, 2 scorings, 1 version |
| `detailed_report` | does a failed section stay flagged, and what an administrator wrote stay, over generations, edits and publications? | 3 sections, 2 texts, 1 version, 2 threads |
| `remote_workshop` | does the link shown let people in and no other, is a contribution recorded once and its attachment kept, does the limit hold? | 1 guest, 2 hosts, 2 contributions, 2 links, 3 submissions, limit 2 in a window of 1, clock to 2 |
| `evidence_setup` | is a search complete, a failure shown, a confirmed snapshot unchanged, and does every request end? | 1 project of 2 pages, 1 repository, 2 attempts, 3 pages, 2 snapshots, 2 threads |
| `evidence_exclude` | *violation*: do exclusions only take away? | 2 repositories, 1 snapshot, 1 thread |
| `standards_library` | do rules, sources, frozen standards and overrides stay consistent with two sessions? | 2 ids, 2 keys, 1 fact, 6 requests |
| `voice_answer` | is an answer complete and said once, is everything released, does finishing end? | 2 recordings, 2 connections with 1 segment each besides unnamed messages, 2 messages, 2 attempts, 1 upload |

The bounds are chosen for the interactions: two threads are what the races of this code
need, two turns reach the limit and exceed it if that is possible, two probes exhaust a
practice, two versions let one publication follow or compete with another, and a crashed one be
repeated. Two links are a new one and one it revokes, three submissions exceed a limit of
two, ticks reach and pass the end of window and validity. Two pages let a token be handed
out again, three are one more than there are; the second snapshot supersedes the first.
One published version is enough for the detailed report: `FailureFlagged` is about each report
by itself and `EditsKept` about the draft; of its three sections one is there from the start and one can be
generated alone. Two recordings let a second one start while the first is being refined, two connections a
recovery, two messages a delta and its completion in either order, named or not; two connections give
an answer of two segments.

Requests in flight are bounded by `Workers`, what they may ask by `JobsOf`;
turns by the keys (each is recorded once), scorings by `MaxScorings`, versions by
`MaxVersions`, links, submissions and the clock by `MaxInvites`, `MaxRequests` and `MaxTime`,
snapshots and files by `MaxSnapshots` and `MaxFiles`, requests on the standards and
generations of rule rows by `MaxCalls` and `MaxRows`, and in `Voice` by `MaxTakes`, `MaxItems`,
`MaxConnections`, `MaxMessages`, `MaxUploads`. Larger job sets multiply the rows a request may
have loaded and take a run from a minute to hours; the theorems cover them for the
properties they state. `evidence_setup` has one sign: what the combination and the properties
compare is failure, emptiness and absence, which arise in the run itself. The host of
`remote_workshop` dismisses and never defers: the two differ in the name.

All runs have `CHECK_DEADLOCK FALSE`: when the keys are used up, the assessment is published
or a bound is reached, no request need come.

### Fairness

The host, the administrators and the guests are people: nothing they do is assumed to
happen. Two kinds of step are assumed to.

- `Evidence`: weak fairness of `Step(w)`, what a request does once it has come. Every request
  to a provider has a timeout (`http.py` 47-52), retries and pages are counted, and a writer
  that finds the database locked gives up after SQLite's busy timeout. `RequestsEnd` follows
  from the counting, and would not if a page could be asked for again without end or if a
  writer waited.
- `Voice`: what a finishing recording awaits comes. The wait for late segments has a timeout
  (`postCommitWaitMs`), a recorder sends its stop event, and each call of the accuracy pass has
  a timeout. It is weak fairness of the two kinds of step (`Finishing`, `Refines`) with the
  condition under which one is enabled and its effect, a call that leaves its stage, written out
  (`Comes`), which TLC evaluates faster than ENABLED. `FinishingEnds` then depends on
  every way through `finish` and `retryRefine` leaving the state, replies and refusals alike.

### What the violations show

- `interview_scored`: the mock scoring provider, the default, copies the coverage state
  "insufficient" into a schema that does not admit it (schemas/scoring.py:15); entering the
  review fails with 502 each time.
- `review_race`: scoring sets `ready_to_publish = False` on a row that was loaded as not ready;
  the column is left out of the UPDATE, so an approval committed while the model scored
  survives and the unapproved scoring is published.
- `evidence_exclude`: exclusions are applied to what the providers answer now for the
  repository selected now (evidence.py:387), not to the stored payload as the comment at 333
  says: a snapshot gains figures that its payload and provenance do not have.

## Proofs

For every value of the constants, under the named assumptions of the modules: jobs,
analyses and scorings have the shape the types say, limits are numbers, NULL is not a
value, two kinds of key are different, and the library is seeded with standards that an
import accepts (`SeededAssumption`). A theorem that needs more says so in its hypothesis.

| Module | Without hypothesis | With one |
|---|---|---|
| `InterviewProofs` | `TypeCorrect`, `KeysOnce`, `TranscriptImplemented`, `AnswersBacked` | `OneHost`: `EveryAnswerCounts`, `LimitKept`, `ClarificationAgrees`, `QuestionsOnRecord`. `OneAtATime`: `PoorCoverageStays`, `GivenUpForGood`, `RoundsLimited` |
| `ReviewProofs` | `TypeCorrect`, `FinalsComplete`, `FilesMatch`, `ShelfImplemented` | `OneReviewer`: `OnlyApproved`, `DecisionsKept` |
| `DetailedReportProofs` | `TypeCorrect`, `FailuresFlagged` | `OneAuthor`: `EditsStay` |
| `RemoteProofs` | `TypeCorrect`, `AttachmentsAreStored`, `InboxKept`, `RateIsKept` | `OneInviter`, `Ttl <= MaxAge`: `OneLinkLives` |
| `EvidenceProofs` | `TypeCorrect`, `PayloadsAreKept`, `IssuesAreComplete`, `QualityIsHonest` | `OneCurator`: `ConfirmedIsFrozen` |
| `StandardsProofs` | `TypeCorrect`, `KeysAreUnique`, `SourcesExist`, `OverridesAreKept` | `FormsWhole`: `RulesArePresent`. `OneStarter`: `StandardsFrozenTogether` |
| `VoiceProofs` | `VoiceTypes`, `UploadsGo`, `MicOff`, `SaidOnce` | |

### Hypotheses

Each is about who uses the server, holds in the configuration of the run that checks the
property, and is needed:

- `OneHost`: one browser starts the interview, answers, saves drafts and reopens topics, and
  nobody sends the assessment back to be started again. Others include contributions and move
  the assessment. A second host's answer, counted from the same row, is lost from the count.
- `OneAtATime`: the requests come one by one. With two, coverage is compared as it was loaded before the model was called
  (interview.py:784): a contribution analysed on rows read before an answer overwrites the
  "insufficient" that answer led to, against the comment at interview.py:788.
- `OneReviewer`: one browser scores, adjusts and approves; others publish, draft and move.
  `review_race` shows what two do.
- `OneAuthor`: one session scores, generates and edits; any number publish. Of two edits saved at
  once the second is merged into the edits loaded before the first, which is lost.
- `OneInviter`: one session creates links, any number revoke them: two created at once both
  stay live. `Ttl <= MaxAge`: a link made to live longer than a token may is shown and refused.
- `OneCurator`: who confirms is the only one who excludes. Exclusions another session has in
  hand are applied to a snapshot confirmed meanwhile.
- `OneStarter`: one session starts the interview. Two that start at once, with a context saved
  in between, may each freeze standards that the other has not.
- `FormsWhole`: a form that sends the applicability mode sends the rules with it, and the
  other way round, as the page's does. The update endpoint checks the two it was sent against the row it
  loaded, and two partial forms can leave a conditional standard without rules.

### Arguments

*Interview.* `TypeOK` is not inductive: an answer to a clarification uses the clarification
of the rows it loaded, so `TypeInv` adds that it was there (`AskedKnown`). `TranscriptInv`
adds that the first turn is the opening question and that a request underway has loaded a
session. Every step appends fresh entries or none (`LogStep`), from which the key invariant
and the refinement follow. For `AnswersBacked` the loaded rows matter as much as the
committed ones: a loaded count is at most the number of answers now, and the step that
writes count + 1 adds an answer (`SeenBacked`).

*One host.* `HostInv` says that the session a request of the host has loaded is the session in
the database (`RowCurrent`): an inclusion leaves its row alone. So the count written is the
count plus one, the key of the next question is not taken (`NextIsNew`), and count, screen and
record agree in every state (`ScreenInv`). *One request:* `SerialInv` says that what a request has
checked and read is still so when it writes; the three properties follow for each step from
what `Select`, `MarkInsufficient` and `ApplyUpdates` do to one practice, which are lemmas.

*Review.* `TypeInv` adds what is known of a request in flight. `Known`: the rows it loaded
are still there, finals it saw are still set, and if it approves or publishes, all
practices had a score. `Held`: whoever has flushed holds the lock. `Numbered`: a
publication that has inserted its row is the next version, and the files it has written are
its own. The lock makes the version of a writing publication unreachable for others, hence
`FilesMatch` and the refinement; `Numbered` is what rules out gaps. That the readiness is
never set without finals rests on finals never being unset (`Grows`). With one reviewer
(`ReviewerInv`) the review row the reviewer holds is the current one as far as scores and readiness go,
a package that is ready carries an approved scoring, and so does what a publication has read.

*Detailed report.* For `TypeCorrect` the point is the overlay: the greatest position among the edits about a section
(`LastAbout`) is an edit of it, so what is shown is of its type. `FailuresFlagged`: a report in which any
section failed carries the warning or is `unwarned` (`Warned`). This is stronger than the property, which asks
about pending sections only, and is inductive: the generated column of every row, committed or loaded, and every
published report are so (`FlagInv`, `GoodRow`). The draft of such a row is, since it shows the metadata that were
generated or some written by hand, and the latter either warn or make it `unwarned`; a generation that
goes on from it only ever sets the warning. `EditsStay`: a text an administrator wrote that is found in the
generated column came there through a draft, so the section has an edit that stands for it (`Covered`),
and saving a generation leaves the edits of the row alone. With one author, an edit carries the edits of
the row it will write, and a publication of an older row has missed only additions (`Carries`).

*Remote.* `TypeInv` says that what a request was let in for is still there (`Known`) and that a
submission which has flushed its row holds the lock, under an identifier nobody else has, with a file
exactly once it has stored one (`Uploading`): whoever aborts takes its file back and nobody
else can have written, hence `AttachmentsStored`. A contribution is recorded
once since its key is in `turns` when it has been included and a second insert fails; a
decision on a status read earlier changes only what `Inbox` allows. `RateKept` is about all
requests ever admitted: the bucket is the end of that history, and what has left it is too old
and gets no younger (`BucketInv`), so those admitted within one window are in the bucket of the
last of them. `OneLinkLives`: only the last link can be live, both tables agree on the revoked
ones, and a creation under way has read all links there are (`LinkInv`).

*Evidence.* A search that goes on has all pages before the one it asks for, in order and once
each, and has seen the tokens of all up to it, so that it notices whatever is handed out
again (`Searching`); one that is over without a failure has all pages (`Searched`), and a collection asks for
the issues before anything but the list of pipelines (`Ordered`). What a snapshot was when it was written
(`Sound`: issues, quality, file) it stays, since exclusions change its figures only. With one curator,
what exclusions in flight are about to change is not confirmed (`Unconfirmed`).

*Standards.* What a request has read may be stale, but a context and frozen standards are never
taken away, and a standard in hand has kept its key or is gone (`RequestOK`, kept by
`Lasting` steps): hence `KeysUnique` and `SourceExists`. For `RulesPresent` every conditional
standard has a rule that no request in flight can take away without taking the conditions
away with it (`Solid`), and what is in hand has passed its check (`Checked`). An import is a chain
of libraries, one for each item of the bundle (`Chain`): each item keeps `Good`, and all of them
do by least counterexample over the chain. With one starter, a start that is going to freeze
something is the first (`FirstStart`).

*Voice.* `Formed` types the page; its content beyond `TypeOK` is that the attempts of a
recovery stay within the reducer's bound (`Bounded`). `Lasting` follows an upload from its file to
the request that serves it, of which there is one: before its draft is polished the file is gone,
marked or without a row, whether the removal worked or not (`RemovesLeave`, `ExpiresLeaves`, `CleanupLeaves`). `Orderly` holds while no recordings have
overlapped: at most one call is awaited (`OneCall`), the state of the capture tells which
(`StateOf`), the microphones and connections in use are those of the current recording
(`OpeningIs`, `ClosingIs`, `OpenIs`), and every text that can get into the answer box has no
repetition, but the one that finishing puts together, which is replaced before the page can be reviewed
(`Clean`). Each action is shown to keep them or to set `overlapped`, which is never taken back.

`LimitKept` (`TurnLimit`), `PayloadsAreKept` (`PayloadKept`) and `KeysAreUnique` (`KeysUnique`) are
proved for every instance; no run repeats them. `TurnLimit` follows where the count is exact.

### What is only model-checked

- `SpokenKept`, an action property of `Voice`: its invariant relates the words in the answer
  box to the segments of the store through every state of the capture; see below.
- `RequestsEnd` and `FinishingEnds`: liveness under fairness is out of the prover's reach, as
  is anything with ENABLED.

Induction over data has no general theorem that the installed provers can use; where it was
needed (pages of a search, items of a bundle) the proof takes a least counterexample from `Least`
instead. No module here has a recursive operator.

## Not modelled

- Backup and restore, the room's keys and autosave, the scoring rollups: see what could come next.
- Creating, archiving and deleting an assessment; observations, the unreliable flag and edits
  of single actions: columns that none of the modelled operations reads.
- The integrations' settings, catalogues and diagnostics, the arithmetic of the metrics, the
  AI settings and prompts: configuration, and data that the models choose.
- Passwords, cookies, signatures: cryptography. Screens other than the workshop room: forms
  over the endpoints. Seed data, scripts, deployment.

## What could come next

In this order; each with its runs and theorems.

1. `SpokenKept`, while recordings have not overlapped: every segment of the store, and every
   word said that is in the box, in a final, frozen or partial text or in a draft that is awaited, is of the
   current recording; those of the current recording are in the store with text or completed blank;
   while finishing, what was in the box is in the frozen text or the store; and the draft
   that a finish carries is the frozen text once collected.
2. Workshop room over the interview: keys, retries, autosave; liveness of an answer.
3. Backup against crashes.
4. Scoring rollups: weighted means against a reference.
