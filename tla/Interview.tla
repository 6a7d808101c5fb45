------------------------------ MODULE Interview ------------------------------
(***************************************************************************)
(* The adaptive interview of one assessment (services/interview.py), with  *)
(* the requests that touch the same rows: the host's answers, the          *)
(* inclusion of remote contributions, start / complete, the raw lifecycle  *)
(* endpoint, the scoring and the reopening of topics during review, draft  *)
(* saves.                                                                  *)
(*                                                                         *)
(* Endpoints are synchronous functions run by a thread pool, each with a   *)
(* SQLAlchemy session of its own (autoflush and expire_on_commit off) over *)
(* SQLite.  A request therefore takes up to three steps here:              *)
(*   Load      reads the rows, checks the guards on what it read and, for  *)
(*             an answer, calls the language model: no lock is held;       *)
(*   Sequence  reads the next turn number, just before the first flush;    *)
(*   Write     the first flush takes SQLite's write lock, which is kept    *)
(*             until the commit: flush to commit is one step.  It works on *)
(*             the rows loaded at the start, stale or not, and updates     *)
(*             only the columns whose value it changed.                    *)
(* Abort is everything that ends a request without a commit: a failing     *)
(* model call, a violated UNIQUE constraint, a lock timeout, a crash.      *)
(***************************************************************************)
EXTENDS Lifecycle, Rows, Integers, Sequences, FiniteSets, FiniteSetsExt

CONSTANTS
  Practices,         \* practices, numbered in the order of the model config
  DomainOf,          \* the domain of each practice
  Workers,           \* threads of the pool: requests in flight at once
  JobsOf,            \* JobsOf[w]: the requests a thread may be given
  HostKeys,          \* idempotency keys the host's browser may send
  Contributions,     \* remote contributions; c is ingested under the key c
  Analyses,          \* analyses of an answer the language model may return
  MockScoring,       \* is the candidate scoring done by the mock provider
  Scorings,          \* coverage that a scoring by the model may return
  OpenClusters,      \* the practices each open enterprise finding maps to
  SeedTexts,         \* may a selected question be / not be a seed text
  MaxTurns,          \* stop_criteria.max_interview_turns
  MaxProbes,         \* stop_criteria.max_clarification_rounds_per_practice
  MinSufficient,     \* stop_criteria.min_practices_with_sufficient_coverage
  MinConfidence,     \* stop_criteria.min_overall_confidence, in percent
  NoClarification    \* pending_clarification IS NULL

VARIABLES
  status,    \* assessments.status
  cov,       \* practice_coverages, one row per practice
  session,   \* the interview_sessions row
  turns,     \* interview_turns; the sequence column is the position
  req        \* the request each worker is serving

vars == <<status, cov, session, turns, req>>

-----------------------------------------------------------------------------
(* Data *)

CoverageStates == {"not_discussed", "partial", "sufficient", "clarify",
                   "insufficient"}

\* conf is a percentage, 0 where the column is NULL; contra says whether
\* contradictions_json is non-empty.
Coverage == [state : CoverageStates, conf : 0..100, contra : BOOLEAN]

\* A question is represented by the practices one of whose configured seed
\* texts it repeats: {} for a text of the language model's own.
Question == SUBSET Practices

Session == [ count    : Nat,                               \* answered_turn_count
             question : Question,                          \* current_question
             pending  : {NoClarification} \cup Question,   \* pending_clarification
             outcome  : {"none", "clarify", "sufficient"}, \* last_outcome
             draft    : BOOLEAN ]                          \* draft_answer_text # ""

SystemKeys == {"opening", "next"} \X Nat
Keys == HostKeys \cup Contributions \cup SystemKeys

\* about: the practices for which _practice_probe_count counts the turn.
Turn == [ key    : Keys,
          source : {"room", "remote", "system"},
          about  : SUBSET Practices ]

Job == [op : {"submit"}, key : HostKeys, clarification : BOOLEAN]
       \cup [op : {"ingest"}, key : Contributions, asked : Question]
       \cup [op : {"start", "complete", "review", "regenerate"}]
       \cup [op : {"transition"}, to : Statuses]
       \cup [op : {"reopen"}, practice : Practices]
       \cup [op : {"draft"}, text : BOOLEAN]

View == [session : Session, cov : [Practices -> Coverage]]
Idle == [phase |-> "idle"]
Request == [phase : {"loaded", "sequenced"}, job : Job, seen : View, seq : Nat]

\* An analysis that is about the practices S: the practice_updates it carries,
\* and whether it asks for an immediate clarification (with a text: the
\* validation rejects it without).
Analysis(S) == [updates : [S -> Coverage], clarify : BOOLEAN]

ASSUME PracticeAssumption == Practices \subseteq Nat /\ IsFiniteSet(Practices)
ASSUME KeyAssumption ==
  /\ HostKeys \cap Contributions = {}
  /\ (HostKeys \cup Contributions) \cap SystemKeys = {}
ASSUME JobAssumption == JobsOf \in [Workers -> SUBSET Job]
ASSUME AnalysisAssumption ==
  \A a \in Analyses : \E S \in SUBSET Practices : a \in Analysis(S)
ASSUME ScoringAssumption ==
  /\ MockScoring \in BOOLEAN
  /\ \A r \in Scorings : \E S \in SUBSET Practices : r \in [S -> Coverage]
ASSUME ClusterAssumption == OpenClusters \subseteq SUBSET Practices
ASSUME StopAssumption ==
  /\ MaxTurns \in Nat /\ MaxProbes \in Nat
  /\ MinSufficient \in Nat /\ MinConfidence \in 0..100
ASSUME SeedAssumption == SeedTexts \subseteq BOOLEAN
ASSUME NullAssumption == \A q \in Question : q # NoClarification

InitCov == [p \in Practices |->
              [state |-> "not_discussed", conf |-> 0, contra |-> FALSE]]
InitSession == [count |-> 0, question |-> {}, pending |-> NoClarification,
                outcome |-> "none", draft |-> FALSE]

TypeOK ==
  /\ status \in Statuses
  /\ cov \in [Practices -> Coverage]
  /\ session \in Session
  /\ turns \in Seq(Turn)
  /\ req \in [Workers -> Request \cup {Idle}]

\* What TypeOK needs to be inductive: an answer to a clarification is in
\* flight only if its request has seen one pending.
AskedKnown ==
  \A w \in Workers :
    /\ req[w] # Idle
    /\ req[w].job.op = "submit" /\ req[w].job.clarification
    => req[w].seen.session.pending # NoClarification

-----------------------------------------------------------------------------
(* Reading the state *)

KeysOf(log) == {log[i].key : i \in DOMAIN log}
InState(c, states) == {p \in Practices : c[p].state \in states}

\* _practice_probe_count, for every practice at once: those that have used up
\* their rounds.
ExhaustedTooLate(log) ==
  {p \in Practices :
     Cardinality({i \in DOMAIN log : p \in log[i].about}) > MaxProbes}
Exhausted(log) ==
  {p \in Practices :
     Cardinality({i \in DOMAIN log : p \in log[i].about}) >= MaxProbes}

\* The interview_sessions row exists once the interview was started.
SessionExists == turns # <<>>

Eligible(c) ==
  LET rated == {p \in Practices : c[p].conf > 0}
      touched == Practices \ InState(c, {"not_discussed"})
  IN  /\ Cardinality(InState(c, {"sufficient"})) >= MinSufficient
      /\ \A p \in Practices : \E q \in touched : DomainOf[q] = DomainOf[p]
      /\ MapThenSumSet(LAMBDA p : c[p].conf, rated)
           >= MinConfidence * Cardinality(rated)
      /\ InState(c, {"clarify"}) = {}

\* The rows that changed are written column by column.
FlushCoverage(db, old, new) ==
  [p \in Practices |->
     [state  |-> Put(db[p].state, old[p].state, new[p].state),
      conf   |-> Put(db[p].conf, old[p].conf, new[p].conf),
      contra |-> Put(db[p].contra, old[p].contra, new[p].contra)]]

-----------------------------------------------------------------------------
(* Coverage *)

\* What an incoming state becomes: sufficient is not lost to not_discussed,
\* and poor coverage stays unless the practice becomes sufficient.
SettlePartial(current, incoming) ==
  IF \/ current = "sufficient" /\ incoming = "not_discussed"
     \/ current = "insufficient" /\ incoming \in {"not_discussed", "clarify"}
  THEN current ELSE incoming
Settle(current, incoming) ==
  IF \/ current = "sufficient" /\ incoming = "not_discussed"
     \/ current = "insufficient"
          /\ incoming \in {"not_discussed", "clarify", "partial"}
  THEN current ELSE incoming

ApplyUpdates(c, updates) ==
  [p \in Practices |->
     IF p \in DOMAIN updates
     THEN [state  |-> Settle(c[p].state, updates[p].state),
           conf   |-> updates[p].conf,
           contra |-> c[p].contra \/ updates[p].contra]
     ELSE c[p]]

MarkInsufficient(c, S) ==
  [p \in Practices |->
     IF p \in S
     THEN [c[p] EXCEPT !.state = "insufficient",
                       !.conf = IF @ = 0 THEN 30 ELSE IF @ < 35 THEN @ ELSE 35]
     ELSE c[p]]

-----------------------------------------------------------------------------
(* Selection of the next question.  Each priority walks its candidates in an
   order, marking exhausted practices poor until it meets one to ask about. *)

InOrder == [q, p \in Practices |-> q < p]
ByConfidence(c) ==
  [q, p \in Practices |->
     c[q].conf < c[p].conf \/ (c[q].conf = c[p].conf /\ q < p)]

First(S, before) == {p \in S : \A q \in S \ {p} : before[p, q]}
Passed(S, tired, before) ==
  {p \in S : \A q \in S : before[q, p] \/ q = p => q \in tired}

\* The multi-coverage question: about open practices related by the findings
\* (those of OpenClusters still open) that one of them is mapped to, at most
\* four of them, or no such question ({}).
MultiAmong(open) ==
  {{}} \cup
  {S \in SUBSET open :
     \E findings \in SUBSET OpenClusters :
       /\ \E anchor \in S : \A F \in findings : anchor \in F
       /\ S \subseteq UNION findings
       /\ S = open \cap UNION findings \/ Cardinality(S) \in 3..4}
MultiChoicesUnlessSufficient(c) ==
  MultiAmong(Practices \ InState(c, {"sufficient"}))
MultiChoices(c) ==
  MultiAmong(InState(c, {"not_discussed", "partial", "clarify"}))

\* The coverage after the selection, and the practices the question is about.
Select(c, tired, multi) ==
  LET clarify == InState(c, {"clarify"})
      c1 == MarkInsufficient(c, Passed(clarify, tired, InOrder))
      torn == {p \in Practices : c1[p].contra /\ c1[p].state # "insufficient"}
      c2 == MarkInsufficient(c1, Passed(torn, tired, InOrder))
      partial == InState(c2, {"partial"})
      c3 == MarkInsufficient(c2, Passed(partial, tired, ByConfidence(c2)))
      untouched == InState(c3, {"not_discussed"})
      fresh == {p \in untouched : \A q \in Practices :
                  DomainOf[q] = DomainOf[p] => q \in untouched}
  IN  IF clarify \ tired # {} THEN
        [cov |-> c1, keys |-> First(clarify \ tired, InOrder)]
      ELSE IF multi # {} /\ multi \in MultiChoices(c1) THEN
        [cov |-> c1, keys |-> multi]
      ELSE IF torn \ tired # {} THEN
        [cov |-> c2, keys |-> First(torn \ tired, InOrder)]
      ELSE IF partial \ tired # {} THEN
        [cov |-> c3, keys |-> First(partial \ tired, ByConfidence(c2))]
      ELSE
        [cov |-> c3,
         keys |-> First(IF fresh # {} THEN fresh ELSE untouched, InOrder)]

\* The text asked about some practices: a seed of one of them, or a new text.
TextsFor(keys) ==
  {{p} : p \in IF TRUE \in SeedTexts THEN keys ELSE {}}
  \cup (IF FALSE \in SeedTexts \/ keys = {} THEN {{}} ELSE {})

-----------------------------------------------------------------------------
(* Requests *)

Init ==
  /\ status = "evidence_ready"
  /\ cov = InitCov
  /\ session = InitSession
  /\ turns = <<>>
  /\ req = [w \in Workers |-> Idle]

\* The limit on the answers of one interview.
UnderLimit(s) == s.count < MaxTurns

\* The checks a handler makes on the rows it has just read.  A key that has
\* been answered already is reported as a duplicate and changes nothing.
Accepts(job) ==
  CASE job.op = "submit" ->
         /\ status = "interview_active" /\ SessionExists
         /\ job.key \notin KeysOf(turns)
         /\ UnderLimit(session)
         /\ job.clarification => session.pending # NoClarification
    [] job.op = "ingest" ->
         /\ status = "interview_active" /\ SessionExists
         /\ job.key \notin KeysOf(turns)
    [] job.op = "start" -> status = "evidence_ready"
    [] job.op = "complete" ->
         status = "interview_active" /\ Eligible(cov) /\ SessionExists
    [] job.op = "transition" -> CanTransition(status, job.to)
    [] job.op = "review" -> status \in {"interview_complete", "published"}
    [] job.op \in {"regenerate", "reopen"} -> status = "admin_review"
    [] job.op = "draft" -> SessionExists

\* The rows the write step will compare with or compute from.
ViewFor(job) ==
  IF job.op \in {"submit", "ingest", "review", "regenerate", "reopen", "draft"}
  THEN [session |-> session, cov |-> cov]
  ELSE [session |-> InitSession, cov |-> InitCov]

Load(w) ==
  /\ req[w] = Idle
  /\ \E job \in JobsOf[w] :
       /\ Accepts(job)
       /\ req' = [req EXCEPT ![w] = [phase |-> "loaded", job |-> job,
                                     seen |-> ViewFor(job), seq |-> 0]]
  /\ UNCHANGED <<status, cov, session, turns>>

\* _next_sequence: MAX(sequence) + 1.
Sequence(w) ==
  /\ req[w].phase = "loaded"
  /\ req[w].job.op \in {"submit", "ingest"}
  /\ req' = [req EXCEPT ![w].phase = "sequenced", ![w].seq = Len(turns) + 1]
  /\ UNCHANGED <<status, cov, session, turns>>

Abort(w) ==
  /\ req[w] # Idle
  /\ req' = [req EXCEPT ![w] = Idle]
  /\ UNCHANGED <<status, cov, session, turns>>

Finish(w) == req' = [req EXCEPT ![w] = Idle]

\* The two UNIQUE constraints of interview_turns, for the row to insert.
InsertableTwice(w) ==
  /\ req[w].phase = "sequenced"
  /\ req[w].seq = Len(turns) + 1
Insertable(w) ==
  /\ req[w].phase = "sequenced"
  /\ req[w].seq = Len(turns) + 1
  /\ req[w].job.key \notin KeysOf(turns)

\* _create_system_turn: returns the existing turn when its key is taken.
WithSystemTurn(log, key, about) ==
  IF key \in KeysOf(log) THEN log
  ELSE Append(log, [key |-> key, source |-> "system", about |-> about])

\* session.answered_turn_count += 1, on the row that was loaded.
CountUnlessClarified(seen) ==
  IF seen.session.pending = NoClarification THEN seen.session.count + 1
  ELSE seen.session.count
CountBoth(seen) == seen.session.count + 2
CountAfter(seen) == seen.session.count + 1

\* The key of the question that follows an answer.
NextKeyBefore(seen) == <<"next", seen.session.count>>
NextKey(seen) == <<"next", CountAfter(seen)>>

\* The host screen shows the next question.
ShowNextKeepingPending(s, seen, text) ==
  [s EXCEPT !.count = CountAfter(seen),
            !.draft = Put(@, seen.session.draft, FALSE),
            !.outcome = Put(@, seen.session.outcome, "sufficient"),
            !.question = text]
ShowNext(s, seen, text) ==
  [s EXCEPT !.count = CountAfter(seen),
            !.draft = Put(@, seen.session.draft, FALSE),
            !.pending = Put(@, seen.session.pending, NoClarification),
            !.outcome = Put(@, seen.session.outcome, "sufficient"),
            !.question = text]

\* submit_turn when the analysis needs (and may still have) a clarification.
AskAgain(log, seen, c, a) ==
  /\ \E text \in {{}} \cup {{p} : p \in DOMAIN a.updates} :
       session' = [session EXCEPT
                     !.count = CountAfter(seen),
                     !.draft = Put(@, seen.session.draft, FALSE),
                     !.pending = text,
                     !.outcome = Put(@, seen.session.outcome, "clarify")]
  /\ cov' = FlushCoverage(cov, seen.cov, c)
  /\ turns' = log

\* submit_turn otherwise: the next question is selected and shown.
MoveOn(log, seen, c, marked) ==
  \E multi \in SUBSET UNION OpenClusters :
    LET chosen == Select(marked, Exhausted(log), multi)
        flushed == FlushCoverage(FlushCoverage(cov, seen.cov, c), c, marked)
    IN /\ \E text \in TextsFor(chosen.keys) :
            session' = ShowNext(session, seen, text)
       /\ cov' = FlushCoverage(flushed, marked, chosen.cov)
       /\ turns' = WithSystemTurn(log, NextKey(seen), chosen.keys)

SubmitTurn(w) ==
  /\ Insertable(w) /\ req[w].job.op = "submit"
  /\ \E a \in Analyses :
       LET job == req[w].job
           seen == req[w].seen
           asked == IF job.clarification THEN seen.session.pending
                                         ELSE seen.session.question
           log == Append(turns, [key |-> job.key, source |-> "room",
                                 about |-> asked \cup DOMAIN a.updates])
           c == ApplyUpdates(seen.cov, a.updates)
           weak == {p \in DOMAIN a.updates : a.updates[p].state = "clarify"}
           spent == IF a.clarify THEN weak \cap Exhausted(log) ELSE {}
       IN IF a.clarify /\ spent = {}
          THEN AskAgain(log, seen, c, a)
          ELSE MoveOn(log, seen, c, MarkInsufficient(c, spent))
  /\ UNCHANGED status
  /\ Finish(w)

\* ingest_remote_contribution: the host screen's columns are set back to the
\* values loaded, which leaves them out of the UPDATE.
IngestRemote(w) ==
  /\ Insertable(w) /\ req[w].job.op = "ingest"
  /\ LET seen == req[w].seen.session
     IN session' = [session EXCEPT
                      !.question = Put(@, seen.question, seen.question),
                      !.pending = Put(@, seen.pending, seen.pending),
                      !.outcome = Put(@, seen.outcome, seen.outcome),
                      !.draft = Put(@, seen.draft, seen.draft)]
  /\ \E a \in Analyses :
       /\ turns' = Append(turns, [key |-> req[w].job.key, source |-> "remote",
                                  about |-> req[w].job.asked
                                              \cup DOMAIN a.updates])
       /\ cov' = FlushCoverage(cov, req[w].seen.cov,
                               ApplyUpdates(req[w].seen.cov, a.updates))
  /\ UNCHANGED status
  /\ Finish(w)

\* start: the session row is read (or created) under the write lock.
Start(w) ==
  /\ req[w].phase = "loaded" /\ req[w].job.op = "start"
  /\ status' = "interview_active"
  /\ session' = InitSession
  /\ turns' = WithSystemTurn(turns, <<"opening", 0>>, {})
  /\ UNCHANGED cov
  /\ Finish(w)

CompleteInWords(w) ==
  /\ req[w].phase = "loaded" /\ req[w].job.op = "complete"
  /\ status' = "complete"
  /\ UNCHANGED <<cov, session, turns>>
  /\ Finish(w)
Complete(w) ==
  /\ req[w].phase = "loaded" /\ req[w].job.op = "complete"
  /\ status' = "interview_complete"
  /\ UNCHANGED <<cov, session, turns>>
  /\ Finish(w)

\* POST /assessments/{id}/transition: any move the table allows.
Transition(w) ==
  /\ req[w].phase = "loaded" /\ req[w].job.op = "transition"
  /\ status' = req[w].job.to
  /\ UNCHANGED <<cov, session, turns>>
  /\ Finish(w)

\* What a scoring makes of the coverage c.  The mock provider repeats the states
\* it is given, which its schema refuses for insufficient ones.
MockScore(c) ==
  [p \in Practices |->
     [state  |-> c[p].state,
      conf   |-> IF c[p].state = "not_discussed" THEN 35 ELSE 72,
      contra |-> FALSE]]
Scored(c) ==
  IF ~MockScoring THEN Scorings
  ELSE IF InState(c, {"insufficient"}) = {} THEN {MockScore(c)} ELSE {}

\* enter_admin_review and generate_candidate_scores: the practices the scoring
\* returns get its coverage, whatever the interview had found.
Rescore(w) ==
  /\ req[w].phase = "loaded" /\ req[w].job.op \in {"review", "regenerate"}
  /\ \E r \in Scored(req[w].seen.cov) :
       cov' = FlushCoverage(cov, req[w].seen.cov,
                            [p \in Practices |-> IF p \in DOMAIN r THEN r[p]
                                                 ELSE req[w].seen.cov[p]])
  /\ status' = IF req[w].job.op = "review" THEN "admin_review" ELSE status
  /\ UNCHANGED <<session, turns>>
  /\ Finish(w)

\* ReviewService.reopen_topic
ReopenTopic(w) ==
  /\ req[w].phase = "loaded" /\ req[w].job.op = "reopen"
  /\ LET p == req[w].job.practice
         seen == req[w].seen
     IN /\ cov' = [cov EXCEPT ![p].state =
                     Put(@, seen.cov[p].state, "clarify")]
        /\ \E text \in TextsFor({p}) :
             session' = IF ~SessionExists THEN session
                        ELSE [session EXCEPT
                                !.question = text,
                                !.pending = Put(@, seen.session.pending,
                                                NoClarification),
                                !.outcome = Put(@, seen.session.outcome,
                                                "none")]
  /\ status' = "interview_active"
  /\ UNCHANGED turns
  /\ Finish(w)

\* save_draft, save_and_exit
SaveDraft(w) ==
  /\ req[w].phase = "loaded" /\ req[w].job.op = "draft"
  /\ session' = [session EXCEPT
                   !.draft = Put(@, req[w].seen.session.draft, req[w].job.text)]
  /\ UNCHANGED <<status, cov, turns>>
  /\ Finish(w)

Write(w) ==
  \/ SubmitTurn(w) \/ IngestRemote(w) \/ Start(w) \/ Complete(w)
  \/ Transition(w) \/ Rescore(w) \/ ReopenTopic(w) \/ SaveDraft(w)

Next == \E w \in Workers : Load(w) \/ Sequence(w) \/ Abort(w) \/ Write(w)

Spec == Init /\ [][Next]_vars

-----------------------------------------------------------------------------
(* Properties *)

RoomTurns == {i \in DOMAIN turns : turns[i].source = "room"}

\* A key names at most one turn: an answer retried while its first attempt is
\* still being analysed, or a contribution included twice, is counted once
\* (the UNIQUE constraints of interview_turns behind the early duplicate test).
KeyOnce ==
  \A i, j \in DOMAIN turns : turns[i].key = turns[j].key => i = j

\* The number of answers the host has given, which the turn limit is compared
\* with, never exceeds the answers on record: retries, restarts, lost updates
\* and failures can only make submit_turn count too few of them.
CountBacked == session.count <= Cardinality(RoomTurns)

\* While one host answers, no answer goes uncounted either (no restart).
CountExact == session.count = Cardinality(RoomTurns)

\* ... so that the limit on the turns of an interview is kept.
TurnLimit == Cardinality(RoomTurns) <= MaxTurns

\* The host is asked for a clarification exactly while one is pending: what
\* the screen says (last_outcome) and what submit_turn accepts
\* (pending_clarification) agree.
PendingMatchesOutcome ==
  session.outcome = "clarify" <=> session.pending # NoClarification

\* The question shown after an answer is on record as the system's turn of that
\* answer, about the practices the shown text repeats: what the probe counts
\* of the next rounds are computed from.
QuestionRecorded ==
  session.outcome = "sufficient" =>
    \E i \in DOMAIN turns : /\ turns[i].key = <<"next", session.count>>
                            /\ session.question \subseteq turns[i].about

\* Poor coverage is final while the interview lasts: only an answer that makes
\* the practice sufficient lifts it.
InsufficientSticky ==
  [][\A p \in Practices :
       status = "interview_active" /\ cov[p].state = "insufficient"
       => cov'[p].state \in {"insufficient", "sufficient"}]_vars

\* The system never asks about a practice it has given up on: a question
\* logged by a step is not about practices that are insufficient after it.
NeverReasks ==
  [][\A i \in DOMAIN turns' \ DOMAIN turns :
       turns'[i].source = "system" =>
         \A p \in turns'[i].about : cov'[p].state # "insufficient"]_vars

\* An interview that is complete can be scored, so that its review can start.
Scorable == status = "interview_complete" => Scored(cov) # {}

\* Once something was heard about a practice, it is followed up on its own for
\* a limited number of rounds only: the questions, the clarifications and the
\* answers about it count alike, those before a reopening included.  (An open
\* enterprise finding may raise the practices it maps to once more.)
FollowUpsLimited ==
  [][\A i \in DOMAIN turns' \ DOMAIN turns :
     \A p \in Practices \ UNION OpenClusters :
       /\ turns'[i].source = "system" /\ turns'[i].about = {p}
       /\ cov'[p].state # "not_discussed"
       => Cardinality({j \in 1..(i - 1) : p \in turns'[j].about}) < MaxProbes]_vars

\* The interview implements the transcript its participants are promised.
Log == [i \in DOMAIN turns |->
          [source |-> turns[i].source, key |-> turns[i].key]]
HostScreen == [question |-> session.question, pending |-> session.pending,
               outcome |-> session.outcome, draft |-> session.draft]
HostScreens == [question : Question, pending : {NoClarification} \cup Question,
                outcome : {"none", "clarify", "sufficient"}, draft : BOOLEAN]
T == INSTANCE Transcript
       WITH AnswerKeys <- HostKeys, RemoteKeys <- Contributions,
            Screens <- HostScreens, log <- Log, screen <- HostScreen
ImplementsTranscript == T!TSpec

=============================================================================
