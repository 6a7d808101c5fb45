--------------------------- MODULE InterviewProofs ---------------------------
(***************************************************************************)
(* What holds of the interview for any number of practices, requests in    *)
(* flight, answers and contributions; then, when requests are not sent     *)
(* from two sides at once, with one host, whoever includes contributions,  *)
(* scores and completes beside; and with one request at a time.            *)
(***************************************************************************)
EXTENDS Interview, FiniteSetTheorems, TLAPS

-----------------------------------------------------------------------------
(* Types of the operators *)

LEMMA FlushType ==
  ASSUME NEW db \in [Practices -> Coverage],
         NEW old \in [Practices -> Coverage],
         NEW new \in [Practices -> Coverage]
  PROVE  FlushCoverage(db, old, new) \in [Practices -> Coverage]
BY DEF FlushCoverage, Coverage, Put

LEMMA ApplyType ==
  ASSUME NEW c \in [Practices -> Coverage],
         NEW S \in SUBSET Practices, NEW updates \in [S -> Coverage]
  PROVE  ApplyUpdates(c, updates) \in [Practices -> Coverage]
<1> SUFFICES ASSUME NEW p \in Practices, p \in S
             PROVE  [state  |-> Settle(c[p].state, updates[p].state),
                     conf   |-> updates[p].conf,
                     contra |-> c[p].contra \/ updates[p].contra] \in Coverage
  BY DEF ApplyUpdates
<1>1. c[p] \in Coverage /\ updates[p] \in Coverage
  OBVIOUS
<1> QED
  BY <1>1 DEF Coverage, Settle, CoverageStates

LEMMA MarkType ==
  ASSUME NEW c \in [Practices -> Coverage], NEW S
  PROVE  MarkInsufficient(c, S) \in [Practices -> Coverage]
<1> SUFFICES ASSUME NEW p \in Practices
             PROVE  [c[p] EXCEPT !.state = "insufficient",
                       !.conf = IF @ = 0 THEN 30 ELSE IF @ < 35 THEN @ ELSE 35]
                       \in Coverage
  BY DEF MarkInsufficient
<1>1. c[p] \in Coverage
  OBVIOUS
<1>2. c[p].conf \in 0..100
  BY <1>1 DEF Coverage
<1>3. (IF c[p].conf = 0 THEN 30 ELSE IF c[p].conf < 35 THEN c[p].conf ELSE 35)
        \in 0..100
  BY <1>2
<1>4. "insufficient" \in CoverageStates
  BY DEF CoverageStates
<1> QED
  BY <1>1, <1>3, <1>4 DEF Coverage

\* Whatever was asked before, a selection yields rows and known practices.
LEMMA SelectType ==
  ASSUME NEW c \in [Practices -> Coverage], NEW tired,
         NEW multi \in SUBSET Practices
  PROVE  /\ Select(c, tired, multi).cov \in [Practices -> Coverage]
         /\ Select(c, tired, multi).keys \in SUBSET Practices
<1> DEFINE clarify == InState(c, {"clarify"})
           c1 == MarkInsufficient(c, Passed(clarify, tired, InOrder))
           torn == {p \in Practices : c1[p].contra /\ c1[p].state # "insufficient"}
           c2 == MarkInsufficient(c1, Passed(torn, tired, InOrder))
           partial == InState(c2, {"partial"})
           c3 == MarkInsufficient(c2, Passed(partial, tired, ByConfidence(c2)))
           untouched == InState(c3, {"not_discussed"})
           fresh == {p \in untouched : \A q \in Practices :
                       DomainOf[q] = DomainOf[p] => q \in untouched}
<1>1. /\ c1 \in [Practices -> Coverage]
      /\ c2 \in [Practices -> Coverage]
      /\ c3 \in [Practices -> Coverage]
  BY MarkType
<1>2. /\ clarify \subseteq Practices /\ torn \subseteq Practices
      /\ partial \subseteq Practices /\ untouched \subseteq Practices
      /\ fresh \subseteq Practices
  BY DEF InState
<1>3. ASSUME NEW S \in SUBSET Practices, NEW before
      PROVE  First(S, before) \in SUBSET Practices
  BY DEF First
<1>4. /\ First(clarify \ tired, InOrder) \in SUBSET Practices
      /\ First(torn \ tired, InOrder) \in SUBSET Practices
      /\ First(partial \ tired, ByConfidence(c2)) \in SUBSET Practices
      /\ First(IF fresh # {} THEN fresh ELSE untouched, InOrder)
            \in SUBSET Practices
  <2> HIDE DEF clarify, torn, partial, untouched, fresh, c2
  <2> QED BY <1>2, <1>3
<1> HIDE DEF clarify, c1, torn, c2, partial, c3, untouched, fresh
<1>5. Select(c, tired, multi) =
        IF clarify \ tired # {} THEN
          [cov |-> c1, keys |-> First(clarify \ tired, InOrder)]
        ELSE IF multi # {} /\ multi \in MultiChoices(c1) THEN
          [cov |-> c1, keys |-> multi]
        ELSE IF torn \ tired # {} THEN
          [cov |-> c2, keys |-> First(torn \ tired, InOrder)]
        ELSE IF partial \ tired # {} THEN
          [cov |-> c3, keys |-> First(partial \ tired, ByConfidence(c2))]
        ELSE
          [cov |-> c3,
           keys |-> First(IF fresh # {} THEN fresh ELSE untouched, InOrder)]
  BY Zenon DEF Select, clarify, c1, torn, c2, partial, c3, untouched, fresh
<1> DEFINE first1 == First(clarify \ tired, InOrder)
           first3 == First(torn \ tired, InOrder)
           first4 == First(partial \ tired, ByConfidence(c2))
           first5 == First(IF fresh # {} THEN fresh ELSE untouched, InOrder)
<1>6. /\ first1 \in SUBSET Practices /\ first3 \in SUBSET Practices
      /\ first4 \in SUBSET Practices /\ first5 \in SUBSET Practices
  BY <1>4
<1>7. \/ Select(c, tired, multi) = [cov |-> c1, keys |-> first1]
      \/ Select(c, tired, multi) = [cov |-> c1, keys |-> multi]
      \/ Select(c, tired, multi) = [cov |-> c2, keys |-> first3]
      \/ Select(c, tired, multi) = [cov |-> c3, keys |-> first4]
      \/ Select(c, tired, multi) = [cov |-> c3, keys |-> first5]
  BY <1>5, Zenon
<1> HIDE DEF first1, first3, first4, first5
<1> QED
  BY <1>1, <1>6, <1>7

LEMMA SystemTurnType ==
  ASSUME NEW log \in Seq(Turn), NEW key \in SystemKeys,
         NEW about \in SUBSET Practices
  PROVE  WithSystemTurn(log, key, about) \in Seq(Turn)
<1>1. [key |-> key, source |-> "system", about |-> about] \in Turn
  BY DEF Turn, Keys
<1> QED
  BY <1>1 DEF WithSystemTurn

-----------------------------------------------------------------------------
(* Type correctness *)

LEMMA PutType ==
  ASSUME NEW S, NEW db \in S, NEW old \in S, NEW new \in S
  PROVE  Put(db, old, new) \in S
BY DEF Put

LEMMA InitSessionType == InitSession \in Session
BY DEF InitSession, Session, Question

LEMMA InitCovType == InitCov \in [Practices -> Coverage]
BY DEF InitCov, Coverage, CoverageStates

LEMMA TextType ==
  ASSUME NEW keys \in SUBSET Practices, NEW text \in TextsFor(keys)
  PROVE  text \in Question
BY DEF TextsFor, Question

\* A request in flight, whose job has one of the shapes the endpoints accept.
LEMMA InFlight ==
  ASSUME TypeOK, NEW w \in Workers, req[w].phase \in {"loaded", "sequenced"}
  PROVE  /\ req[w] \in Request
         /\ req[w].job \in Job
         /\ req[w].seen \in View
         /\ req[w].seen.session \in Session
         /\ req[w].seen.cov \in [Practices -> Coverage]
<1>1. req[w] # Idle
  BY DEF Idle
<1>2. req[w] \in Request
  BY <1>1 DEF TypeOK
<1> QED
  BY <1>2 DEF Request, View

LEMMA JobFields ==
  ASSUME NEW job \in Job
  PROVE  /\ job.op = "submit" => /\ job.key \in HostKeys
                                 /\ job.clarification \in BOOLEAN
         /\ job.op = "ingest" => job.key \in Contributions /\ job.asked \in Question
         /\ job.op = "transition" => job.to \in Statuses
         /\ job.op = "reopen" => job.practice \in Practices
         /\ job.op = "draft" => job.text \in BOOLEAN
BY DEF Job

LEMMA FinishType ==
  ASSUME TypeOK, NEW w \in Workers, Finish(w)
  PROVE  req' \in [Workers -> Request \cup {Idle}]
BY DEF TypeOK, Finish

LEMMA AskAgainType ==
  ASSUME TypeOK, NEW log \in Seq(Turn), NEW seen \in View,
         NEW c \in [Practices -> Coverage],
         NEW S \in SUBSET Practices, NEW a \in Analysis(S),
         AskAgain(log, seen, c, a)
  PROVE  /\ session' \in Session
         /\ cov' \in [Practices -> Coverage]
         /\ turns' \in Seq(Turn)
<1>1. seen.session \in Session /\ seen.cov \in [Practices -> Coverage]
      /\ DOMAIN a.updates \in SUBSET Practices
  BY DEF View, Analysis
<1>2. PICK text \in {{}} \cup {{p} : p \in DOMAIN a.updates} :
         session' = [session EXCEPT
                       !.count = CountAfter(seen),
                       !.draft = Put(@, seen.session.draft, FALSE),
                       !.pending = text,
                       !.outcome = Put(@, seen.session.outcome, "clarify")]
  BY DEF AskAgain
<1>3. text \in Question
  BY <1>1, <1>2 DEF Question
<1>4. session' \in Session
  <2>1. session \in Session
    BY DEF TypeOK
  <2>2. /\ CountAfter(seen) \in Nat
        /\ Put(session.draft, seen.session.draft, FALSE) \in BOOLEAN
        /\ Put(session.outcome, seen.session.outcome, "clarify")
             \in {"none", "clarify", "sufficient"}
    <3>1. CountAfter(seen) \in Nat
      BY <1>1 DEF Session, CountAfter
    <3>2. Put(session.draft, seen.session.draft, FALSE) \in BOOLEAN
      BY <1>1, <2>1, PutType DEF Session
    <3>3. Put(session.outcome, seen.session.outcome, "clarify")
             \in {"none", "clarify", "sufficient"}
      BY <1>1, <2>1 DEF Session, Put
    <3> QED
      BY <3>1, <3>2, <3>3
  <2> QED
    BY <1>2, <1>3, <2>1, <2>2 DEF Session
<1> QED
  BY <1>1, <1>4, FlushType DEF AskAgain, TypeOK

LEMMA MoveOnType ==
  ASSUME TypeOK, NEW log \in Seq(Turn), NEW seen \in View,
         NEW c \in [Practices -> Coverage],
         NEW marked \in [Practices -> Coverage],
         MoveOn(log, seen, c, marked)
  PROVE  /\ session' \in Session
         /\ cov' \in [Practices -> Coverage]
         /\ turns' \in Seq(Turn)
<1>1. seen.session \in Session /\ seen.cov \in [Practices -> Coverage]
  BY DEF View
<1>2. PICK multi \in SUBSET UNION OpenClusters :
        LET chosen == Select(marked, Exhausted(log), multi)
            flushed == FlushCoverage(FlushCoverage(cov, seen.cov, c), c, marked)
        IN /\ \E text \in TextsFor(chosen.keys) :
                session' = ShowNext(session, seen, text)
           /\ cov' = FlushCoverage(flushed, marked, chosen.cov)
           /\ turns' = WithSystemTurn(log, NextKey(seen), chosen.keys)
  BY DEF MoveOn
<1> DEFINE chosen == Select(marked, Exhausted(log), multi)
           flushed == FlushCoverage(FlushCoverage(cov, seen.cov, c), c, marked)
<1>3. multi \in SUBSET Practices
  BY ClusterAssumption
<1>4. chosen.cov \in [Practices -> Coverage] /\ chosen.keys \in SUBSET Practices
  BY <1>3, SelectType
<1>5. flushed \in [Practices -> Coverage]
  BY <1>1, FlushType DEF TypeOK
<1>6. /\ \E text \in TextsFor(chosen.keys) : session' = ShowNext(session, seen, text)
      /\ cov' = FlushCoverage(flushed, marked, chosen.cov)
      /\ turns' = WithSystemTurn(log, NextKey(seen), chosen.keys)
  BY <1>2
<1> HIDE DEF chosen, flushed
<1>7. cov' \in [Practices -> Coverage]
  BY <1>4, <1>5, <1>6, FlushType
<1>8. NextKey(seen) \in SystemKeys
  BY <1>1 DEF NextKey, SystemKeys, CountAfter, Session
<1>9. turns' \in Seq(Turn)
  BY <1>4, <1>6, <1>8, SystemTurnType
<1>10. PICK text \in TextsFor(chosen.keys) : session' = ShowNext(session, seen, text)
  BY <1>6
<1>11. text \in Question
  BY <1>4, <1>10, TextType
<1>12. session' \in Session
  <2>1. session \in Session
    BY DEF TypeOK
  <2>2. /\ CountAfter(seen) \in Nat
        /\ Put(session.draft, seen.session.draft, FALSE) \in BOOLEAN
        /\ Put(session.pending, seen.session.pending, NoClarification)
             \in {NoClarification} \cup Question
        /\ Put(session.outcome, seen.session.outcome, "sufficient")
             \in {"none", "clarify", "sufficient"}
    <3>1. CountAfter(seen) \in Nat
      BY <1>1 DEF Session, CountAfter
    <3>2. Put(session.draft, seen.session.draft, FALSE) \in BOOLEAN
      BY <1>1, <2>1, PutType DEF Session
    <3>3. Put(session.pending, seen.session.pending, NoClarification)
             \in {NoClarification} \cup Question
      BY <1>1, <2>1 DEF Session, Put
    <3>4. Put(session.outcome, seen.session.outcome, "sufficient")
             \in {"none", "clarify", "sufficient"}
      BY <1>1, <2>1 DEF Session, Put
    <3> QED
      BY <3>1, <3>2, <3>3, <3>4
  <2> QED
    BY <1>10, <1>11, <2>1, <2>2 DEF Session, ShowNext
<1> QED
  BY <1>7, <1>9, <1>12

\* An answer: its turn is about known practices, and so is the next question.
LEMMA SubmitType ==
  ASSUME TypeOK, AskedKnown, NEW w \in Workers, SubmitTurn(w)
  PROVE  TypeOK'
<1> DEFINE job == req[w].job
           seen == req[w].seen
           asked == IF job.clarification THEN seen.session.pending
                                         ELSE seen.session.question
           turn(a) == [key |-> job.key, source |-> "room",
                       about |-> asked \cup DOMAIN a.updates]
           log(a) == Append(turns, turn(a))
           c(a) == ApplyUpdates(seen.cov, a.updates)
           weak(a) == {p \in DOMAIN a.updates : a.updates[p].state = "clarify"}
           spent(a) == IF a.clarify THEN weak(a) \cap Exhausted(log(a)) ELSE {}
<1>1. /\ req[w].phase = "sequenced" /\ job.op = "submit"
      /\ Finish(w) /\ status' = status
  BY DEF SubmitTurn, Insertable
<1>2. /\ job \in Job /\ seen \in View /\ seen.session \in Session
      /\ seen.cov \in [Practices -> Coverage]
  BY <1>1, InFlight
<1>3. PICK a \in Analyses :
        IF a.clarify /\ spent(a) = {}
        THEN AskAgain(log(a), seen, c(a), a)
        ELSE MoveOn(log(a), seen, c(a), MarkInsufficient(c(a), spent(a)))
  BY DEF SubmitTurn
<1>4. PICK S \in SUBSET Practices : a \in Analysis(S)
  BY AnalysisAssumption
<1>5. DOMAIN a.updates = S /\ a.updates \in [S -> Coverage]
  BY <1>4 DEF Analysis
<1>6. asked \in SUBSET Practices
  <2>1. req[w] # Idle
    BY <1>1 DEF Idle
  <2>2. job.clarification => seen.session.pending # NoClarification
    BY <1>1, <2>1 DEF AskedKnown
  <2> QED
    BY <1>2, <2>2 DEF Session, Question
<1>7. turn(a) \in Turn
  <2>1. job.key \in Keys
    BY <1>1, <1>2, JobFields DEF Keys
  <2> QED
    BY <1>5, <1>6, <2>1 DEF Turn
<1>8. log(a) \in Seq(Turn)
  BY <1>7 DEF TypeOK
<1>9. c(a) \in [Practices -> Coverage]
  BY <1>2, <1>5, ApplyType
<1>10. MarkInsufficient(c(a), spent(a)) \in [Practices -> Coverage]
  BY <1>9, MarkType
<1> HIDE DEF job, seen, log, c, spent
<1>11. /\ session' \in Session
       /\ cov' \in [Practices -> Coverage]
       /\ turns' \in Seq(Turn)
  <2>1. CASE AskAgain(log(a), seen, c(a), a)
    BY <1>2, <1>4, <1>8, <1>9, <2>1, AskAgainType
  <2>2. CASE MoveOn(log(a), seen, c(a), MarkInsufficient(c(a), spent(a)))
    BY <1>2, <1>8, <1>9, <1>10, <2>2, MoveOnType
  <2> QED
    BY <1>3, <2>1, <2>2
<1> QED
  BY <1>1, <1>11, FinishType DEF TypeOK

\* A contribution: the coverage and the log change, the screen does not.
LEMMA IngestType ==
  ASSUME TypeOK, NEW w \in Workers, IngestRemote(w)
  PROVE  TypeOK' /\ session' = session
<1> DEFINE job == req[w].job
           seen == req[w].seen.session
<1>1. /\ req[w].phase = "sequenced" /\ job.op = "ingest"
      /\ Finish(w) /\ status' = status
  BY DEF IngestRemote, Insertable
<1>2. /\ job \in Job /\ seen \in Session
      /\ req[w].seen.cov \in [Practices -> Coverage]
  BY <1>1, InFlight
<1>3. session' = session
  <2>1. session' = [session EXCEPT
                      !.question = Put(@, seen.question, seen.question),
                      !.pending = Put(@, seen.pending, seen.pending),
                      !.outcome = Put(@, seen.outcome, seen.outcome),
                      !.draft = Put(@, seen.draft, seen.draft)]
    BY DEF IngestRemote
  <2>2. session' = [session EXCEPT
                      !.question = session.question,
                      !.pending = session.pending,
                      !.outcome = session.outcome,
                      !.draft = session.draft]
    BY <2>1 DEF Put
  <2>3. session \in Session
    BY DEF TypeOK
  <2> QED
    BY <2>2, <2>3 DEF Session
<1>4. PICK a \in Analyses :
        /\ turns' = Append(turns, [key |-> job.key, source |-> "remote",
                                   about |-> job.asked \cup DOMAIN a.updates])
        /\ cov' = FlushCoverage(cov, req[w].seen.cov,
                                ApplyUpdates(req[w].seen.cov, a.updates))
  BY DEF IngestRemote
<1>5. PICK S \in SUBSET Practices : a \in Analysis(S)
  BY AnalysisAssumption
<1>6. DOMAIN a.updates = S /\ a.updates \in [S -> Coverage]
  BY <1>5 DEF Analysis
<1>7. cov' \in [Practices -> Coverage]
  BY <1>2, <1>4, <1>6, ApplyType, FlushType DEF TypeOK
<1>8. [key |-> job.key, source |-> "remote",
       about |-> job.asked \cup DOMAIN a.updates] \in Turn
  <2>1. job.key \in Keys /\ job.asked \in SUBSET Practices
    BY <1>1, <1>2, JobFields DEF Keys, Question
  <2> QED
    BY <1>6, <2>1 DEF Turn
<1>9. turns' \in Seq(Turn)
  BY <1>4, <1>8 DEF TypeOK
<1>10. session' \in Session
  BY <1>3 DEF TypeOK
<1> QED
  BY <1>1, <1>3, <1>7, <1>9, <1>10, FinishType DEF TypeOK

LEMMA StartType ==
  ASSUME TypeOK, NEW w \in Workers, Start(w)
  PROVE  TypeOK'
<1>1. "interview_active" \in Statuses
  BY DEF Statuses
<1>2. <<"opening", 0>> \in SystemKeys
  BY DEF SystemKeys
<1>3. turns' \in Seq(Turn)
  BY <1>2, SystemTurnType DEF Start, TypeOK
<1> QED
  BY <1>1, <1>3, InitSessionType, FinishType DEF Start, TypeOK

\* A scoring replaces the coverage of the practices it returns.
LEMMA RescoreType ==
  ASSUME TypeOK, NEW w \in Workers, Rescore(w)
  PROVE  TypeOK'
<1> DEFINE seen == req[w].seen
           new(r) == [p \in Practices |-> IF p \in DOMAIN r THEN r[p]
                                         ELSE seen.cov[p]]
<1>1. /\ req[w].phase = "loaded" /\ Finish(w)
      /\ turns' = turns /\ session' = session
      /\ status' = "admin_review" \/ status' = status
  BY DEF Rescore
<1>2. seen.cov \in [Practices -> Coverage]
  BY <1>1, InFlight
<1>3. PICK r \in Scored(seen.cov) :
        cov' = FlushCoverage(cov, seen.cov, new(r))
  BY DEF Rescore
<1>4. MockScore(seen.cov) \in [Practices -> Coverage]
  BY <1>2 DEF MockScore, Coverage
<1>5. \E S \in SUBSET Practices : r \in [S -> Coverage]
  BY <1>3, <1>4, ScoringAssumption DEF Scored
<1>6. new(r) \in [Practices -> Coverage]
  BY <1>2, <1>5
<1>7. cov' \in [Practices -> Coverage]
  BY <1>2, <1>3, <1>6, FlushType DEF TypeOK
<1>8. "admin_review" \in Statuses
  BY DEF Statuses
<1> QED
  BY <1>1, <1>7, <1>8, FinishType DEF TypeOK

LEMMA ReopenType ==
  ASSUME TypeOK, NEW w \in Workers, ReopenTopic(w)
  PROVE  TypeOK'
<1> DEFINE p == req[w].job.practice
           seen == req[w].seen
<1>1. /\ req[w].phase = "loaded" /\ req[w].job.op = "reopen"
      /\ Finish(w) /\ turns' = turns /\ status' = "interview_active"
  BY DEF ReopenTopic
<1>2. /\ p \in Practices /\ seen.session \in Session
      /\ seen.cov \in [Practices -> Coverage]
  BY <1>1, InFlight, JobFields
<1>3. cov' \in [Practices -> Coverage]
  <2>1. cov[p] \in Coverage /\ seen.cov[p] \in Coverage
    BY <1>2 DEF TypeOK
  <2>2. Put(cov[p].state, seen.cov[p].state, "clarify") \in CoverageStates
    BY <2>1 DEF Put, Coverage, CoverageStates
  <2>3. [cov[p] EXCEPT !.state = Put(cov[p].state, seen.cov[p].state, "clarify")]
          \in Coverage
    BY <2>1, <2>2 DEF Coverage
  <2>4. cov' = [cov EXCEPT ![p].state = Put(@, seen.cov[p].state, "clarify")]
    BY DEF ReopenTopic
  <2> QED
    BY <1>2, <2>3, <2>4 DEF TypeOK
<1>4. session' \in Session
  <2>1. session \in Session
    BY DEF TypeOK
  <2>2. PICK text \in TextsFor({p}) :
          session' = IF ~SessionExists THEN session
                     ELSE [session EXCEPT
                             !.question = text,
                             !.pending = Put(@, seen.session.pending,
                                             NoClarification),
                             !.outcome = Put(@, seen.session.outcome, "none")]
    BY DEF ReopenTopic
  <2>3. text \in Question
    BY <1>2, <2>2, TextType
  <2>4. Put(session.pending, seen.session.pending, NoClarification)
          \in {NoClarification} \cup Question
    BY <1>2, <2>1 DEF Session, Put
  <2>5. Put(session.outcome, seen.session.outcome, "none")
          \in {"none", "clarify", "sufficient"}
    BY <1>2, <2>1 DEF Session, Put
  <2> QED
    BY <2>1, <2>2, <2>3, <2>4, <2>5 DEF Session
<1>5. "interview_active" \in Statuses
  BY DEF Statuses
<1> QED
  BY <1>1, <1>3, <1>4, <1>5, FinishType DEF TypeOK

LEMMA DraftType ==
  ASSUME TypeOK, NEW w \in Workers, SaveDraft(w)
  PROVE  TypeOK'
<1>1. /\ req[w].phase = "loaded" /\ req[w].job.op = "draft"
      /\ Finish(w) /\ UNCHANGED <<status, cov, turns>>
      /\ session' = [session EXCEPT
            !.draft = Put(@, req[w].seen.session.draft, req[w].job.text)]
  BY DEF SaveDraft
<1>2. req[w].seen.session \in Session /\ req[w].job.text \in BOOLEAN
  BY <1>1, InFlight, JobFields
<1>3. Put(session.draft, req[w].seen.session.draft, req[w].job.text) \in BOOLEAN
  BY <1>2, PutType DEF TypeOK, Session
<1>4. session' \in Session
  BY <1>1, <1>3 DEF TypeOK, Session
<1> QED
  BY <1>1, <1>4, FinishType DEF TypeOK

LEMMA LoadType ==
  ASSUME TypeOK, NEW w \in Workers, Load(w)
  PROVE  /\ TypeOK'
         /\ \E job \in Job :
              /\ Accepts(job)
              /\ req' = [req EXCEPT ![w] = [phase |-> "loaded", job |-> job,
                                            seen |-> ViewFor(job), seq |-> 0]]
<1>1. PICK job \in JobsOf[w] :
        /\ Accepts(job)
        /\ req' = [req EXCEPT ![w] = [phase |-> "loaded", job |-> job,
                                      seen |-> ViewFor(job), seq |-> 0]]
  BY DEF Load
<1>2. job \in Job
  BY JobAssumption
<1>3. ViewFor(job) \in View
  BY InitSessionType, InitCovType DEF ViewFor, View, TypeOK
<1>4. [phase |-> "loaded", job |-> job, seen |-> ViewFor(job), seq |-> 0]
         \in Request
  BY <1>2, <1>3 DEF Request
<1>5. UNCHANGED <<status, cov, session, turns>>
  BY DEF Load
<1> QED
  BY <1>1, <1>2, <1>4, <1>5 DEF TypeOK

LEMMA SequenceType ==
  ASSUME TypeOK, NEW w \in Workers, Sequence(w)
  PROVE  TypeOK'
<1>1. /\ req[w].phase = "loaded"
      /\ req' = [req EXCEPT ![w].phase = "sequenced",
                            ![w].seq = Len(turns) + 1]
      /\ UNCHANGED <<status, cov, session, turns>>
  BY DEF Sequence
<1>2. req[w] \in Request
  BY <1>1, InFlight
<1>3. Len(turns) + 1 \in Nat
  BY DEF TypeOK
<1>4. [req[w] EXCEPT !.phase = "sequenced", !.seq = Len(turns) + 1] \in Request
  BY <1>2, <1>3 DEF Request
<1> QED
  BY <1>1, <1>4 DEF TypeOK

\* What every step does to the requests: one of them is loaded under its
\* guards, learns a turn number, or ends.
LEMMA RequestsStep ==
  ASSUME NEW w \in Workers, Write(w) \/ Abort(w)
  PROVE  req' = [req EXCEPT ![w] = Idle]
BY DEF Write, Abort, Finish, SubmitTurn, IngestRemote, Start, Complete,
       Transition, Rescore, ReopenTopic, SaveDraft

TypeInv == TypeOK /\ AskedKnown

LEMMA TypeInvInit == Init => TypeInv
<1> SUFFICES ASSUME Init PROVE TypeInv
  OBVIOUS
<1>1. "evidence_ready" \in Statuses
  BY DEF Statuses
<1>2. TypeOK
  BY <1>1, InitSessionType, InitCovType DEF Init, TypeOK
<1>3. AskedKnown
  BY DEF Init, AskedKnown
<1> QED
  BY <1>2, <1>3 DEF TypeInv

LEMMA TypeInvStep == TypeInv /\ [Next]_vars => TypeInv'
<1> SUFFICES ASSUME TypeOK, AskedKnown, [Next]_vars
             PROVE  TypeOK' /\ AskedKnown'
  BY DEF TypeInv
<1>1. CASE UNCHANGED vars
  BY <1>1 DEF vars, TypeOK, AskedKnown
<1>2. CASE Next
  <2>1. PICK w \in Workers : Load(w) \/ Sequence(w) \/ Abort(w) \/ Write(w)
    BY <1>2 DEF Next
  <2>2. CASE Load(w)
    <3>1. PICK job \in Job :
            /\ Accepts(job)
            /\ req' = [req EXCEPT ![w] = [phase |-> "loaded", job |-> job,
                                          seen |-> ViewFor(job), seq |-> 0]]
      BY <2>2, LoadType
    <3>2. job.op = "submit" /\ job.clarification
            => ViewFor(job).session.pending # NoClarification
      BY <3>1 DEF Accepts, ViewFor
    <3>3. AskedKnown'
      BY <3>1, <3>2 DEF AskedKnown, TypeOK
    <3> QED
      BY <2>2, <3>3, LoadType
  <2>3. CASE Sequence(w)
    <3>1. /\ req[w].phase = "loaded"
          /\ req' = [req EXCEPT ![w].phase = "sequenced",
                                ![w].seq = Len(turns) + 1]
      BY <2>3 DEF Sequence
    <3>2. req[w] # Idle /\ req[w] \in Request
      BY <3>1, InFlight DEF Idle
    <3>3. /\ req'[w].job = req[w].job /\ req'[w].seen = req[w].seen
          /\ \A v \in Workers : v # w => req'[v] = req[v]
      BY <3>1, <3>2 DEF TypeOK, Request
    <3>4. AskedKnown'
      BY <3>2, <3>3 DEF AskedKnown
    <3> QED
      BY <2>3, <3>4, SequenceType
  <2>4. CASE Abort(w)
    <3>1. req' = [req EXCEPT ![w] = Idle]
      BY <2>4, RequestsStep
    <3>2. UNCHANGED <<status, cov, session, turns>>
      BY <2>4 DEF Abort
    <3> QED
      BY <3>1, <3>2 DEF TypeOK, AskedKnown
  <2>5. CASE Write(w)
    <3>1. req' = [req EXCEPT ![w] = Idle]
      BY <2>5, RequestsStep
    <3>2. AskedKnown'
      BY <3>1 DEF AskedKnown, TypeOK
    <3>3. CASE SubmitTurn(w)
      BY <3>2, <3>3, SubmitType
    <3>4. CASE IngestRemote(w)
      BY <3>2, <3>4, IngestType
    <3>5. CASE Start(w)
      BY <3>2, <3>5, StartType
    <3>6. CASE Complete(w)
      <4>1. status' = "interview_complete" /\ "interview_complete" \in Statuses
        BY <3>6 DEF Complete, Statuses
      <4> QED
        BY <3>2, <3>6, <4>1, FinishType DEF Complete, TypeOK
    <3>7. CASE Transition(w)
      <4>1. req[w].job.to \in Statuses
        BY <3>7, InFlight, JobFields DEF Transition
      <4> QED
        BY <3>2, <3>7, <4>1, FinishType DEF Transition, TypeOK
    <3>8. CASE ReopenTopic(w)
      BY <3>2, <3>8, ReopenType
    <3>9. CASE SaveDraft(w)
      BY <3>2, <3>9, DraftType
    <3>10. CASE Rescore(w)
      BY <3>2, <3>10, RescoreType
    <3> QED
      BY <2>5, <3>3, <3>4, <3>5, <3>6, <3>7, <3>8, <3>9, <3>10 DEF Write
  <2> QED
    BY <2>1, <2>2, <2>3, <2>4, <2>5
<1> QED
  BY <1>1, <1>2

\* Whatever requests meet, fail or are retried, the rows keep their types.
THEOREM TypeCorrect == Spec => []TypeOK
<1>1. TypeInv => TypeOK
  BY DEF TypeInv
<1> QED
  BY <1>1, TypeInvInit, TypeInvStep, PTL DEF Spec

-----------------------------------------------------------------------------
(* What each write appends to the log *)

Fresh(e, log) == e \in Turn /\ e.key \notin KeysOf(log)

Appends(source, keys) ==
  \E e \in Turn : /\ Fresh(e, turns) /\ e.source = source /\ e.key \in keys
                  /\ turns' = Append(turns, e)

AppendsTwo(source, keys) ==
  \E e, f \in Turn :
    /\ Fresh(e, turns) /\ e.source = source /\ e.key \in keys
    /\ Fresh(f, Append(turns, e)) /\ f.source = "system" /\ f.key \in SystemKeys
    /\ turns' = Append(Append(turns, e), f)

LEMMA SubmitAppends ==
  ASSUME TypeInv, NEW w \in Workers, SubmitTurn(w)
  PROVE  Appends("room", HostKeys) \/ AppendsTwo("room", HostKeys)
<1> DEFINE job == req[w].job
           seen == req[w].seen
           asked == IF job.clarification THEN seen.session.pending
                                         ELSE seen.session.question
           turn(a) == [key |-> job.key, source |-> "room",
                       about |-> asked \cup DOMAIN a.updates]
           log(a) == Append(turns, turn(a))
           c(a) == ApplyUpdates(seen.cov, a.updates)
           weak(a) == {p \in DOMAIN a.updates : a.updates[p].state = "clarify"}
           spent(a) == IF a.clarify THEN weak(a) \cap Exhausted(log(a)) ELSE {}
<1>1. /\ req[w].phase = "sequenced" /\ job.op = "submit"
      /\ job.key \notin KeysOf(turns)
  BY DEF SubmitTurn, Insertable
<1>2. /\ job \in Job /\ seen \in View /\ seen.session \in Session
      /\ seen.cov \in [Practices -> Coverage]
  BY <1>1, InFlight DEF TypeInv
<1>3. PICK a \in Analyses :
        IF a.clarify /\ spent(a) = {}
        THEN AskAgain(log(a), seen, c(a), a)
        ELSE MoveOn(log(a), seen, c(a), MarkInsufficient(c(a), spent(a)))
  BY DEF SubmitTurn
<1>4. PICK S \in SUBSET Practices : a \in Analysis(S)
  BY AnalysisAssumption
<1>5. DOMAIN a.updates = S /\ a.updates \in [S -> Coverage]
  BY <1>4 DEF Analysis
<1>6. asked \in SUBSET Practices
  <2>1. req[w] # Idle
    BY <1>1 DEF Idle
  <2>2. job.clarification => seen.session.pending # NoClarification
    BY <1>1, <2>1 DEF TypeInv, AskedKnown
  <2> QED
    BY <1>2, <2>2 DEF Session, Question
<1>7. /\ turn(a) \in Turn /\ Fresh(turn(a), turns)
      /\ turn(a).source = "room" /\ turn(a).key \in HostKeys
  <2>1. job.key \in HostKeys
    BY <1>1, <1>2, JobFields
  <2> QED
    BY <1>1, <1>5, <1>6, <2>1 DEF Turn, Keys, Fresh
<1>8. MarkInsufficient(c(a), spent(a)) \in [Practices -> Coverage]
  BY <1>2, <1>5, ApplyType, MarkType
<1>9. log(a) = Append(turns, turn(a))
  OBVIOUS
<1> DEFINE marked == MarkInsufficient(c(a), spent(a))
<1>10. CASE AskAgain(log(a), seen, c(a), a)
  <2>1. turns' = Append(turns, turn(a))
    BY <1>10 DEF AskAgain
  <2> QED
    BY <1>7, <2>1 DEF Appends
<1>11. CASE MoveOn(log(a), seen, c(a), marked)
  <2>1. PICK multi \in SUBSET UNION OpenClusters :
          turns' = WithSystemTurn(log(a), NextKey(seen),
                     Select(marked, Exhausted(log(a)), multi).keys)
    BY <1>11 DEF MoveOn
  <2> DEFINE keys == Select(marked, Exhausted(log(a)), multi).keys
             next == [key |-> NextKey(seen), source |-> "system",
                      about |-> keys]
  <2>2. keys \in SUBSET Practices
    <3>1. multi \in SUBSET Practices
      BY ClusterAssumption
    <3> QED
      BY <1>8, <3>1, SelectType
  <2>3. NextKey(seen) \in SystemKeys
    BY <1>2 DEF NextKey, SystemKeys, CountAfter, Session
  <2>4. next \in Turn
    BY <2>2, <2>3 DEF Turn, Keys
  <2> HIDE DEF keys, turn, log
  <2>5. CASE NextKey(seen) \in KeysOf(log(a))
    BY <1>7, <1>9, <2>1, <2>5 DEF WithSystemTurn, Appends
  <2>6. CASE NextKey(seen) \notin KeysOf(log(a))
    <3>1. turns' = Append(log(a), next)
      BY <2>1, <2>6 DEF WithSystemTurn, keys
    <3>2. Fresh(next, Append(turns, turn(a)))
      BY <1>9, <2>4, <2>6 DEF Fresh
    <3> QED
      BY <1>7, <1>9, <2>3, <2>4, <3>1, <3>2 DEF AppendsTwo
  <2> QED
    BY <2>5, <2>6
<1> QED
  BY <1>3, <1>10, <1>11

LEMMA IngestAppends ==
  ASSUME TypeInv, NEW w \in Workers, IngestRemote(w)
  PROVE  Appends("remote", Contributions)
<1> DEFINE job == req[w].job
           turn(a) == [key |-> job.key, source |-> "remote",
                       about |-> job.asked \cup DOMAIN a.updates]
<1>1. /\ req[w].phase = "sequenced" /\ job.op = "ingest"
      /\ job.key \notin KeysOf(turns)
  BY DEF IngestRemote, Insertable
<1>2. job \in Job
  BY <1>1, InFlight DEF TypeInv
<1>3. PICK a \in Analyses : turns' = Append(turns, turn(a))
  BY DEF IngestRemote
<1>4. DOMAIN a.updates \in SUBSET Practices
  BY AnalysisAssumption DEF Analysis
<1>5. job.key \in Contributions /\ job.asked \in SUBSET Practices
  BY <1>1, <1>2, JobFields DEF Question
<1>6. turn(a) \in Turn /\ turn(a).source = "remote" /\ turn(a).key = job.key
  BY <1>4, <1>5 DEF Turn, Keys
<1> QED
  BY <1>1, <1>3, <1>5, <1>6 DEF Appends, Fresh

OpeningKey == <<"opening", 0>>

LEMMA StartAppends ==
  ASSUME NEW w \in Workers, Start(w)
  PROVE  \/ turns' = turns /\ OpeningKey \in KeysOf(turns)
         \/ Appends("system", {OpeningKey})
<1> DEFINE opening == [key |-> OpeningKey, source |-> "system", about |-> {}]
<1>1. opening \in Turn
  BY DEF Turn, Keys, SystemKeys, OpeningKey
<1>2. turns' = WithSystemTurn(turns, OpeningKey, {})
  BY DEF Start, OpeningKey
<1> QED
  BY <1>1, <1>2 DEF WithSystemTurn, Appends, Fresh

\* Sequences of turns

Once(log) == \A i, j \in DOMAIN log : log[i].key = log[j].key => i = j

LEMMA AppendFresh ==
  ASSUME NEW log \in Seq(Turn), NEW e, Fresh(e, log)
  PROVE  /\ Append(log, e) \in Seq(Turn)
         /\ Append(log, e) # <<>>
         /\ KeysOf(Append(log, e)) = KeysOf(log) \cup {e.key}
         /\ Once(log) => Once(Append(log, e))
<1> DEFINE more == Append(log, e)
<1>1. e \in Turn /\ more \in Seq(Turn) /\ more # <<>>
  <2>1. e \in Turn
    BY DEF Fresh
  <2>2. more \in Seq(Turn) /\ DOMAIN more = 1..(Len(log) + 1)
    BY <2>1
  <2>3. Len(log) + 1 \in DOMAIN more
    BY <2>2
  <2>4. more # <<>>
    <3> HIDE DEF more
    <3> QED BY <2>3
  <2> QED
    BY <2>1, <2>2, <2>4
<1>2. /\ DOMAIN more = DOMAIN log \cup {Len(log) + 1}
      /\ Len(log) + 1 \notin DOMAIN log
      /\ more[Len(log) + 1] = e
      /\ \A i \in DOMAIN log : more[i] = log[i]
  OBVIOUS
<1> HIDE DEF more
<1>3. KeysOf(more) = KeysOf(log) \cup {e.key}
  BY <1>2 DEF KeysOf
<1>4. Once(log) => Once(more)
  BY <1>2 DEF Once, Fresh, KeysOf
<1> QED
  BY <1>1, <1>3, <1>4 DEF more

-----------------------------------------------------------------------------
(* The transcript *)

\* The log begins with the opening question, and the requests that need an
\* interview to have started are in flight only when it has.
StartedFirst == turns # <<>> => OpeningKey \in KeysOf(turns)
Underway ==
  \A w \in Workers :
    req[w] # Idle /\ req[w].job.op \in {"submit", "ingest", "draft"}
      => turns # <<>>

TranscriptInv == TypeInv /\ Once(turns) /\ StartedFirst /\ Underway

\* How a step may change the log.
LogStep ==
  \/ turns' = turns
  \/ Appends("system", {OpeningKey})
  \/ turns # <<>> /\ Appends("remote", Contributions)
  \/ turns # <<>> /\ Appends("room", HostKeys)
  \/ turns # <<>> /\ AppendsTwo("room", HostKeys)

LEMMA StepLogs == TypeInv /\ Underway /\ [Next]_vars => LogStep
<1> SUFFICES ASSUME TypeInv, Underway, [Next]_vars PROVE LogStep
  OBVIOUS
<1>1. CASE UNCHANGED vars
  BY <1>1 DEF vars, LogStep
<1>2. CASE Next
  <2>1. PICK w \in Workers : Load(w) \/ Sequence(w) \/ Abort(w) \/ Write(w)
    BY <1>2 DEF Next
  <2>2. CASE SubmitTurn(w)
    <3>1. turns # <<>>
      BY <2>2 DEF SubmitTurn, Insertable, Idle, Underway
    <3> QED
      BY <2>2, <3>1, SubmitAppends DEF LogStep
  <2>3. CASE IngestRemote(w)
    <3>1. turns # <<>>
      BY <2>3 DEF IngestRemote, Insertable, Idle, Underway
    <3> QED
      BY <2>3, <3>1, IngestAppends DEF LogStep
  <2>4. CASE Start(w)
    BY <2>4, StartAppends DEF LogStep
  <2>5. CASE Load(w) \/ Sequence(w) \/ Abort(w) \/ Complete(w) \/ Transition(w)
             \/ Rescore(w) \/ ReopenTopic(w) \/ SaveDraft(w)
    BY <2>5 DEF Load, Sequence, Abort, Complete, Transition, Rescore,
                ReopenTopic, SaveDraft, LogStep
  <2> QED
    BY <2>1, <2>2, <2>3, <2>4, <2>5 DEF Write
<1> QED
  BY <1>1, <1>2

LEMMA LogStepKeeps ==
  ASSUME TypeOK, LogStep
  PROVE  /\ Once(turns) => Once(turns')
         /\ turns # <<>> => turns' # <<>>
         /\ KeysOf(turns) \subseteq KeysOf(turns')
<1>1. CASE turns' = turns
  BY <1>1
<1>2. ASSUME NEW e \in Turn, Fresh(e, turns), turns' = Append(turns, e)
      PROVE  /\ Once(turns) => Once(turns')
             /\ turns # <<>> => turns' # <<>>
             /\ KeysOf(turns) \subseteq KeysOf(turns')
  BY <1>2, AppendFresh DEF TypeOK
<1>3. ASSUME NEW e \in Turn, NEW f \in Turn, Fresh(e, turns),
             Fresh(f, Append(turns, e)), turns' = Append(Append(turns, e), f)
      PROVE  /\ Once(turns) => Once(turns')
             /\ turns # <<>> => turns' # <<>>
             /\ KeysOf(turns) \subseteq KeysOf(turns')
  <2>1. /\ Append(turns, e) \in Seq(Turn)
        /\ KeysOf(Append(turns, e)) = KeysOf(turns) \cup {e.key}
        /\ Once(turns) => Once(Append(turns, e))
    BY <1>3, AppendFresh DEF TypeOK
  <2>2. /\ Append(Append(turns, e), f) # <<>>
        /\ KeysOf(Append(Append(turns, e), f))
             = KeysOf(Append(turns, e)) \cup {f.key}
        /\ Once(Append(turns, e)) => Once(Append(Append(turns, e), f))
    BY <1>3, <2>1, AppendFresh
  <2> QED
    BY <1>3, <2>1, <2>2
<1> QED
  BY <1>1, <1>2, <1>3 DEF LogStep, Appends, AppendsTwo

LEMMA TranscriptInvInit == Init => TranscriptInv
BY TypeInvInit DEF TranscriptInv, Init, Once, StartedFirst, Underway

LEMMA TranscriptInvStep == TranscriptInv /\ [Next]_vars => TranscriptInv'
<1> SUFFICES ASSUME TranscriptInv, [Next]_vars PROVE TranscriptInv'
  OBVIOUS
<1>1. TypeInv /\ TypeInv' /\ TypeOK /\ LogStep
  BY TypeInvStep, StepLogs DEF TranscriptInv, TypeInv
<1>2. /\ Once(turns')
      /\ turns # <<>> => turns' # <<>>
      /\ KeysOf(turns) \subseteq KeysOf(turns')
  BY <1>1, LogStepKeeps DEF TranscriptInv
<1>3. StartedFirst'
  <2>1. CASE turns # <<>>
    BY <1>2, <2>1 DEF TranscriptInv, StartedFirst
  <2>2. CASE turns = <<>> /\ turns' = turns
    BY <2>2 DEF StartedFirst
  <2>3. CASE Appends("system", {OpeningKey})
    <3>1. PICK e \in Turn : /\ Fresh(e, turns) /\ e.key = OpeningKey
                            /\ turns' = Append(turns, e)
      BY <2>3 DEF Appends
    <3> QED
      BY <1>1, <3>1, AppendFresh DEF StartedFirst, TypeOK
  <2> QED
    BY <1>1, <2>1, <2>2, <2>3 DEF LogStep
<1>4. Underway'
  <2>1. CASE UNCHANGED vars
    BY <2>1 DEF vars, TranscriptInv, Underway
  <2>2. ASSUME NEW w \in Workers, Load(w)
        PROVE  Underway'
    <3>1. PICK job \in Job :
            /\ Accepts(job)
            /\ req' = [req EXCEPT ![w] = [phase |-> "loaded", job |-> job,
                                          seen |-> ViewFor(job), seq |-> 0]]
      BY <1>1, <2>2, LoadType
    <3>2. job.op \in {"submit", "ingest", "draft"} => turns # <<>>
      BY <3>1 DEF Accepts, SessionExists
    <3>3. turns' = turns
      BY <2>2 DEF Load
    <3> QED
      BY <1>1, <3>1, <3>2, <3>3 DEF TranscriptInv, Underway, TypeOK
  <2>3. ASSUME NEW w \in Workers, Sequence(w)
        PROVE  Underway'
    <3>1. /\ req[w].phase = "loaded"
          /\ req' = [req EXCEPT ![w].phase = "sequenced",
                                ![w].seq = Len(turns) + 1]
          /\ turns' = turns
      BY <2>3 DEF Sequence
    <3>2. req[w] # Idle /\ req[w] \in Request
      BY <1>1, <3>1, InFlight DEF Idle
    <3>3. /\ req'[w].job = req[w].job
          /\ \A v \in Workers : v # w => req'[v] = req[v]
      BY <1>1, <3>1, <3>2 DEF TypeOK, Request
    <3> QED
      BY <3>1, <3>2, <3>3 DEF TranscriptInv, Underway
  <2>4. ASSUME NEW w \in Workers, Abort(w) \/ Write(w)
        PROVE  Underway'
    <3>1. req' = [req EXCEPT ![w] = Idle]
      BY <2>4, RequestsStep
    <3> QED
      BY <1>1, <1>2, <3>1 DEF TranscriptInv, Underway, TypeOK
  <2> QED
    BY <2>1, <2>2, <2>3, <2>4 DEF Next
<1> QED
  BY <1>1, <1>2, <1>3, <1>4 DEF TranscriptInv, Once

\* A retried answer, or a contribution included twice, is on record once.
THEOREM KeysOnce == Spec => []KeyOnce
<1>1. TranscriptInv => KeyOnce
  BY DEF TranscriptInv, Once, KeyOnce
<1> QED
  BY <1>1, TranscriptInvInit, TranscriptInvStep, PTL DEF Spec

\* The implementation of the transcript

EntryOf(e) == [source |-> e.source, key |-> e.key]
Mapped(log) == [i \in DOMAIN log |-> EntryOf(log[i])]

LEMMA LogMapped == Log = Mapped(turns) /\ Log' = Mapped(turns')
BY DEF Log, Mapped, EntryOf

LEMMA MappedType ==
  ASSUME NEW log \in Seq(Turn)
  PROVE  /\ Len(Mapped(log)) = Len(log)
         /\ \A i \in 1..Len(log) : Mapped(log)[i] = EntryOf(log[i])
         /\ (Mapped(log) = <<>>) <=> (log = <<>>)
<1>1. DOMAIN log = 1..Len(log) /\ Len(log) \in Nat
  OBVIOUS
<1>2. Mapped(log) = [i \in 1..Len(log) |-> EntryOf(log[i])]
  BY <1>1 DEF Mapped
<1>3. Len(Mapped(log)) = Len(log)
  BY <1>1, <1>2
<1>4. (Mapped(log) = <<>>) <=> (log = <<>>)
  BY <1>1, <1>2
<1> QED
  BY <1>2, <1>3, <1>4

LEMMA OneGrows ==
  ASSUME turns \in Seq(Turn), NEW e, Fresh(e, turns), turns' = Append(turns, e)
  PROVE  T!Grows(1) /\ T!New(1) = EntryOf(e)
<1>1. e \in Turn /\ turns' \in Seq(Turn) /\ Len(turns) \in Nat
  BY AppendFresh DEF Fresh
<1>2. /\ Len(turns') = Len(turns) + 1
      /\ turns'[Len(turns) + 1] = e
      /\ \A i \in 1..Len(turns) : turns'[i] = turns[i]
  BY <1>1
<1>3. /\ Len(Log) = Len(turns) /\ Len(Log') = Len(turns) + 1
      /\ \A i \in 1..Len(turns) : Log[i] = EntryOf(turns[i])
      /\ \A i \in 1..(Len(turns) + 1) : Log'[i] = EntryOf(turns'[i])
  BY <1>1, <1>2, LogMapped, MappedType
<1>4. Log'[Len(turns) + 1] = EntryOf(e)
  BY <1>1, <1>2, <1>3
<1>5. \A i \in 1..Len(turns) : Log'[i] = Log[i]
  BY <1>1, <1>2, <1>3
<1>6. \A j \in 1..Len(turns) : e.key # Log'[j].key
  BY <1>1, <1>3, <1>5 DEF Fresh, KeysOf, EntryOf
<1>7. T!New(1) = EntryOf(e)
  BY <1>3, <1>4 DEF T!New
<1>8. \A i \in 1..1 : \A j \in 1..(Len(Log) + i - 1) :
        T!New(i).key # Log'[j].key
  BY <1>1, <1>3, <1>6, <1>7 DEF EntryOf
<1> QED
  BY <1>3, <1>5, <1>7, <1>8 DEF T!Grows

LEMMA TwoGrow ==
  ASSUME turns \in Seq(Turn), NEW e, NEW f, Fresh(e, turns),
         Fresh(f, Append(turns, e)), turns' = Append(Append(turns, e), f)
  PROVE  T!Grows(2) /\ T!New(1) = EntryOf(e) /\ T!New(2) = EntryOf(f)
<1>1. /\ e \in Turn /\ f \in Turn /\ Len(turns) \in Nat
      /\ Append(turns, e) \in Seq(Turn) /\ turns' \in Seq(Turn)
      /\ KeysOf(Append(turns, e)) = KeysOf(turns) \cup {e.key}
  BY AppendFresh DEF Fresh
<1>2. /\ Len(turns') = Len(turns) + 2
      /\ turns'[Len(turns) + 1] = e
      /\ turns'[Len(turns) + 2] = f
      /\ \A i \in 1..Len(turns) : turns'[i] = turns[i]
  BY <1>1
<1>3. /\ Len(Log) = Len(turns) /\ Len(Log') = Len(turns) + 2
      /\ \A i \in 1..Len(turns) : Log[i] = EntryOf(turns[i])
      /\ \A i \in 1..(Len(turns) + 2) : Log'[i] = EntryOf(turns'[i])
  BY <1>1, <1>2, LogMapped, MappedType
<1>4. Log'[Len(turns) + 1] = EntryOf(e) /\ Log'[Len(turns) + 2] = EntryOf(f)
  BY <1>1, <1>2, <1>3
<1>5. \A i \in 1..Len(turns) : Log'[i] = Log[i]
  BY <1>1, <1>2, <1>3
<1>6. /\ \A j \in 1..Len(turns) : e.key # Log'[j].key /\ f.key # Log'[j].key
      /\ f.key # e.key
  BY <1>1, <1>3, <1>5 DEF Fresh, KeysOf, EntryOf
<1>7. T!New(1) = EntryOf(e) /\ T!New(2) = EntryOf(f)
  BY <1>3, <1>4 DEF T!New
<1>8. \A j \in 1..(Len(Log) + 1 - 1) : T!New(1).key # Log'[j].key
  BY <1>1, <1>3, <1>6, <1>7 DEF EntryOf
<1>9. \A j \in 1..(Len(Log) + 2 - 1) : T!New(2).key # Log'[j].key
  BY <1>1, <1>3, <1>4, <1>6, <1>7 DEF EntryOf
<1>10. \A i \in 1..2 : \A j \in 1..(Len(Log) + i - 1) :
        T!New(i).key # Log'[j].key
  BY <1>8, <1>9
<1> QED
  BY <1>3, <1>5, <1>7, <1>10 DEF T!Grows

LEMMA ScreenType == TypeOK => HostScreen \in HostScreens
BY DEF TypeOK, Session, HostScreen, HostScreens

LEMMA ScreenTypeNext == TypeOK' => HostScreen' \in HostScreens
BY DEF TypeOK, Session, HostScreen, HostScreens

LEMMA StepImplements ==
  TranscriptInv /\ TranscriptInv' /\ [Next]_vars => [T!TNext]_(T!transcriptVars)
<1> SUFFICES ASSUME TranscriptInv, TranscriptInv', [Next]_vars
             PROVE  [T!TNext]_(T!transcriptVars)
  OBVIOUS
<1>1. /\ TypeInv /\ TypeOK /\ turns \in Seq(Turn) /\ session \in Session
      /\ Underway /\ StartedFirst /\ HostScreen' \in HostScreens
  BY ScreenTypeNext DEF TranscriptInv, TypeInv, TypeOK
<1>2. (Log = <<>>) <=> (turns = <<>>)
  BY <1>1, LogMapped, MappedType
<1>3. ASSUME turns' = turns, session' = session
      PROVE  UNCHANGED T!transcriptVars
  BY <1>3 DEF T!transcriptVars, Log, HostScreen
<1>4. ASSUME turns' = turns, turns # <<>>
      PROVE  T!Refresh
  BY <1>1, <1>2, <1>4 DEF T!Refresh, Log
<1>5. CASE UNCHANGED vars
  BY <1>3, <1>5 DEF vars
<1>6. CASE Next
  <2>1. PICK w \in Workers : Load(w) \/ Sequence(w) \/ Abort(w) \/ Write(w)
    BY <1>6 DEF Next
  <2>2. CASE Load(w) \/ Sequence(w) \/ Abort(w) \/ Complete(w) \/ Transition(w)
             \/ Rescore(w)
    BY <1>3, <2>2 DEF Load, Sequence, Abort, Complete, Transition, Rescore
  <2>3. CASE SubmitTurn(w)
    <3>1. turns # <<>>
      BY <1>1, <2>3 DEF SubmitTurn, Insertable, Idle, Underway
    <3>2. CASE Appends("room", HostKeys)
      <4>1. PICK e \in Turn : /\ Fresh(e, turns) /\ turns' = Append(turns, e)
                              /\ e.source = "room" /\ e.key \in HostKeys
        BY <3>2 DEF Appends
      <4>2. T!Grows(1) /\ T!New(1) = EntryOf(e)
        BY <1>1, <4>1, OneGrows
      <4>3. T!FromRoom(T!New(1))
        BY <4>1, <4>2 DEF T!FromRoom, EntryOf
      <4> QED
        BY <1>1, <1>2, <3>1, <4>2, <4>3 DEF T!TNext, T!Answer
    <3>3. CASE AppendsTwo("room", HostKeys)
      <4>1. PICK e \in Turn, f \in Turn :
              /\ Fresh(e, turns) /\ e.source = "room" /\ e.key \in HostKeys
              /\ Fresh(f, Append(turns, e))
              /\ f.source = "system" /\ f.key \in SystemKeys
              /\ turns' = Append(Append(turns, e), f)
        BY <3>3 DEF AppendsTwo
      <4>2. T!Grows(2) /\ T!New(1) = EntryOf(e) /\ T!New(2) = EntryOf(f)
        BY <1>1, <4>1, TwoGrow
      <4>3. T!FromRoom(T!New(1)) /\ T!FromSystem(T!New(2))
        BY <4>1, <4>2 DEF T!FromRoom, T!FromSystem, EntryOf
      <4> QED
        BY <1>1, <1>2, <3>1, <4>2, <4>3 DEF T!TNext, T!Answer
    <3> QED
      BY <1>1, <2>3, <3>2, <3>3, SubmitAppends
  <2>4. CASE IngestRemote(w)
    <3>1. turns # <<>>
      BY <1>1, <2>4 DEF IngestRemote, Insertable, Idle, Underway
    <3>2. PICK e \in Turn : /\ Fresh(e, turns) /\ turns' = Append(turns, e)
                            /\ e.source = "remote" /\ e.key \in Contributions
      BY <1>1, <2>4, IngestAppends DEF Appends
    <3>3. T!Grows(1) /\ T!New(1) = EntryOf(e)
      BY <1>1, <3>2, OneGrows
    <3>4. T!FromRemote(T!New(1))
      BY <3>2, <3>3 DEF T!FromRemote, EntryOf
    <3>5. UNCHANGED HostScreen
      BY <1>1, <2>4, IngestType DEF HostScreen
    <3> QED
      BY <1>2, <3>1, <3>3, <3>4, <3>5 DEF T!TNext, T!Contribute
  <2>5. CASE Start(w)
    <3>1. CASE turns' = turns /\ OpeningKey \in KeysOf(turns)
      <4>1. turns # <<>>
        BY <3>1 DEF KeysOf
      <4> QED
        BY <1>4, <3>1, <4>1 DEF T!TNext
    <3>2. CASE Appends("system", {OpeningKey})
      <4>1. PICK e \in Turn : /\ Fresh(e, turns) /\ turns' = Append(turns, e)
                              /\ e.source = "system" /\ e.key = OpeningKey
        BY <3>2 DEF Appends
      <4>2. turns = <<>>
        BY <1>1, <4>1 DEF StartedFirst, Fresh
      <4>3. T!Grows(1) /\ T!New(1) = EntryOf(e)
        BY <1>1, <4>1, OneGrows
      <4>4. T!FromSystem(T!New(1))
        BY <4>1, <4>3 DEF T!FromSystem, EntryOf, SystemKeys, OpeningKey
      <4> QED
        BY <1>1, <1>2, <4>2, <4>3, <4>4 DEF T!TNext, T!Open
    <3> QED
      BY <2>5, <3>1, <3>2, StartAppends
  <2>6. CASE ReopenTopic(w)
    <3>1. turns' = turns
      BY <2>6 DEF ReopenTopic
    <3>2. CASE turns = <<>>
      <4>1. session' = session
        BY <2>6, <3>2 DEF ReopenTopic, SessionExists
      <4> QED
        BY <1>3, <3>1, <4>1
    <3>3. CASE turns # <<>>
      BY <1>4, <3>1, <3>3 DEF T!TNext
    <3> QED
      BY <3>2, <3>3
  <2>7. CASE SaveDraft(w)
    <3>1. turns' = turns
      BY <2>7 DEF SaveDraft
    <3>2. turns # <<>>
      BY <1>1, <2>7 DEF SaveDraft, Idle, Underway
    <3> QED
      BY <1>4, <3>1, <3>2 DEF T!TNext
  <2> QED
    BY <2>1, <2>2, <2>3, <2>4, <2>5, <2>6, <2>7 DEF Write
<1> QED
  BY <1>5, <1>6

LEMMA InitImplements == Init => T!TInit
<1> SUFFICES ASSUME Init PROVE T!TInit
  OBVIOUS
<1>1. Log = <<>>
  BY DEF Init, Log
<1>2. HostScreen \in HostScreens
  BY TypeInvInit, ScreenType DEF TypeInv
<1> QED
  BY <1>1, <1>2 DEF T!TInit

\* The interview implements the transcript that its participants are promised:
\* append-only, every key once, the host's screen untouched by contributions.
THEOREM TranscriptImplemented == Spec => ImplementsTranscript
BY InitImplements, TranscriptInvInit, TranscriptInvStep, StepImplements, PTL
   DEF Spec, ImplementsTranscript, T!TSpec

-----------------------------------------------------------------------------
(* The counted answers are backed by the record *)

Room(log) == {i \in DOMAIN log : log[i].source = "room"}

LEMMA RoomCount ==
  ASSUME NEW log \in Seq(Turn), NEW e \in Turn
  PROVE  /\ Cardinality(Room(log)) \in Nat
         /\ Cardinality(Room(Append(log, e)))
              = Cardinality(Room(log)) + (IF e.source = "room" THEN 1 ELSE 0)
<1> DEFINE more == Append(log, e)
           n == Len(log) + 1
<1>1. IsFiniteSet(DOMAIN log)
  <2>1. DOMAIN log = 1..Len(log) /\ Len(log) \in Nat
    OBVIOUS
  <2> QED
    BY <2>1, FS_Interval
<1>2. IsFiniteSet(Room(log)) /\ Cardinality(Room(log)) \in Nat
  BY <1>1, FS_Subset, FS_CardinalityType DEF Room
<1>3. /\ DOMAIN more = DOMAIN log \cup {n}
      /\ n \notin DOMAIN log
      /\ more[n] = e
      /\ \A i \in DOMAIN log : more[i] = log[i]
  OBVIOUS
<1> HIDE DEF more, n
<1>4. CASE e.source = "room"
  <2>1. Room(more) = Room(log) \cup {n} /\ n \notin Room(log)
    BY <1>3, <1>4 DEF Room
  <2>2. Cardinality(Room(more)) = Cardinality(Room(log)) + 1
    BY <1>2, <2>1, FS_AddElement
  <2> QED
    BY <1>2, <1>4, <2>2 DEF more
<1>5. CASE e.source # "room"
  <2>1. Room(more) = Room(log)
    BY <1>3, <1>5 DEF Room
  <2> QED
    BY <1>2, <1>5, <2>1 DEF more
<1> QED
  BY <1>4, <1>5

\* What an answer in flight has seen is backed as well.
SeenBacked ==
  \A w \in Workers :
    req[w] # Idle /\ req[w].job.op = "submit"
      => req[w].seen.session.count <= Cardinality(Room(turns))

BackedInv == TranscriptInv /\ SeenBacked
             /\ session.count <= Cardinality(Room(turns))

\* An answer adds one to the record and one to the count it had seen.
LEMMA SubmitCounts ==
  ASSUME TypeInv, NEW w \in Workers, SubmitTurn(w)
  PROVE  /\ session'.count = req[w].seen.session.count + 1
         /\ Cardinality(Room(turns')) = Cardinality(Room(turns)) + 1
<1>1. session'.count = req[w].seen.session.count + 1
  <2>1. session \in Session
    BY DEF TypeInv, TypeOK
  <2>2. session'.count = CountAfter(req[w].seen)
    <3>1. ASSUME NEW log, NEW seen, NEW c, NEW a, AskAgain(log, seen, c, a)
          PROVE  session'.count = CountAfter(seen)
      BY <2>1, <3>1 DEF AskAgain, Session
    <3>2. ASSUME NEW log, NEW seen, NEW c, NEW marked,
                 MoveOn(log, seen, c, marked)
          PROVE  session'.count = CountAfter(seen)
      <4>1. PICK text : session' = ShowNext(session, seen, text)
        BY <3>2 DEF MoveOn
      <4> QED
        BY <2>1, <4>1 DEF ShowNext, Session
    <3> QED
      BY <3>1, <3>2 DEF SubmitTurn
  <2> QED
    BY <2>2 DEF CountAfter
<1>2. turns \in Seq(Turn)
  BY DEF TypeInv, TypeOK
<1>3. CASE Appends("room", HostKeys)
  BY <1>1, <1>2, <1>3, RoomCount DEF Appends
<1>4. CASE AppendsTwo("room", HostKeys)
  <2>1. PICK e \in Turn, f \in Turn :
          /\ Fresh(e, turns) /\ e.source = "room" /\ f.source = "system"
          /\ turns' = Append(Append(turns, e), f)
    BY <1>4 DEF AppendsTwo
  <2>2. Append(turns, e) \in Seq(Turn)
    BY <1>2, <2>1, AppendFresh
  <2>3. /\ Cardinality(Room(turns)) \in Nat
        /\ Cardinality(Room(Append(turns, e))) = Cardinality(Room(turns)) + 1
    BY <1>2, <2>1, RoomCount
  <2>4. Cardinality(Room(turns')) = Cardinality(Room(Append(turns, e))) + 0
    BY <2>1, <2>2, RoomCount
  <2> QED
    BY <1>1, <2>3, <2>4
<1> QED
  BY <1>3, <1>4, SubmitAppends

\* No step takes an answer off the record.
LEMMA RoomGrows ==
  ASSUME TypeOK, LogStep
  PROVE  /\ Cardinality(Room(turns)) \in Nat
         /\ Cardinality(Room(turns')) \in Nat
         /\ Cardinality(Room(turns)) <= Cardinality(Room(turns'))
<1>1. turns \in Seq(Turn) /\ Cardinality(Room(turns)) \in Nat
  <2>1. turns \in Seq(Turn)
    BY DEF TypeOK
  <2>2. [key |-> OpeningKey, source |-> "system", about |-> {}] \in Turn
    BY DEF Turn, Keys, SystemKeys, OpeningKey
  <2> QED
    BY <2>1, <2>2, RoomCount
<1>2. CASE turns' = turns
  BY <1>1, <1>2
<1>3. ASSUME NEW e \in Turn, turns' = Append(turns, e)
      PROVE  /\ Cardinality(Room(turns')) \in Nat
             /\ Cardinality(Room(turns)) <= Cardinality(Room(turns'))
  BY <1>1, <1>3, RoomCount
<1>4. ASSUME NEW e \in Turn, NEW f \in Turn,
             turns' = Append(Append(turns, e), f)
      PROVE  /\ Cardinality(Room(turns')) \in Nat
             /\ Cardinality(Room(turns)) <= Cardinality(Room(turns'))
  <2>1. Append(turns, e) \in Seq(Turn)
    BY <1>1
  <2>2. /\ Cardinality(Room(Append(turns, e))) \in Nat
        /\ Cardinality(Room(turns)) <= Cardinality(Room(Append(turns, e)))
    BY <1>1, <2>1, RoomCount
  <2>3. Cardinality(Room(Append(Append(turns, e), f)))
          = Cardinality(Room(Append(turns, e)))
            + (IF f.source = "room" THEN 1 ELSE 0)
    BY <2>1, RoomCount
  <2> QED
    BY <1>1, <1>4, <2>2, <2>3
<1> QED
  BY <1>1, <1>2, <1>3, <1>4 DEF LogStep, Appends, AppendsTwo

LEMMA BackedStep == BackedInv /\ [Next]_vars => BackedInv'
<1> SUFFICES ASSUME BackedInv, [Next]_vars PROVE BackedInv'
  OBVIOUS
<1> DEFINE count == Cardinality(Room(turns))
<1>1. /\ TranscriptInv /\ TranscriptInv' /\ TypeInv /\ TypeOK /\ LogStep
      /\ SeenBacked /\ session.count <= count
      /\ session \in Session /\ session.count \in Nat
  BY TranscriptInvStep, StepLogs
     DEF BackedInv, TranscriptInv, TypeInv, TypeOK, Session
<1>2. count \in Nat /\ count' \in Nat /\ count <= count'
  BY <1>1, RoomGrows
<1>3. \A w \in Workers :
        req[w] # Idle => /\ req[w].seen.session.count \in Nat
                         /\ req[w].job.op = "submit"
                              => req[w].seen.session.count <= count
  BY <1>1 DEF SeenBacked, TypeOK, Request, View, Session
<1> HIDE DEF count
<1>4. CASE UNCHANGED vars
  BY <1>1, <1>4 DEF vars, BackedInv, SeenBacked, count
<1>5. CASE Next
  <2>1. PICK w \in Workers : Load(w) \/ Sequence(w) \/ Abort(w) \/ Write(w)
    BY <1>5 DEF Next
  <2>2. session'.count <= count'
    <3>1. CASE SubmitTurn(w)
      <4>1. req[w] # Idle /\ req[w].job.op = "submit"
        BY <3>1 DEF SubmitTurn, Insertable, Idle
      <4>2. /\ session'.count = req[w].seen.session.count + 1
            /\ count' = count + 1
        BY <1>1, <3>1, SubmitCounts DEF count
      <4> QED
        BY <1>2, <1>3, <4>1, <4>2
    <3>2. CASE Start(w)
      BY <1>2, <3>2 DEF Start, InitSession
    <3>3. CASE IngestRemote(w)
      BY <1>1, <1>2, <3>3, IngestType
    <3>4. CASE ReopenTopic(w) \/ SaveDraft(w)
      <4>1. session'.count = session.count
        BY <1>1, <3>4 DEF ReopenTopic, SaveDraft, Session
      <4> QED
        BY <1>1, <1>2, <4>1
    <3>5. CASE Load(w) \/ Sequence(w) \/ Abort(w) \/ Complete(w) \/ Transition(w)
               \/ Rescore(w)
      <4>1. session' = session
        BY <3>5 DEF Load, Sequence, Abort, Complete, Transition, Rescore
      <4> QED
        BY <1>1, <1>2, <4>1
    <3> QED
      BY <2>1, <3>1, <3>2, <3>3, <3>4, <3>5 DEF Write
  <2>3. SeenBacked'
    <3>1. CASE Load(w)
      <4>1. PICK job \in Job :
              req' = [req EXCEPT ![w] = [phase |-> "loaded", job |-> job,
                                         seen |-> ViewFor(job), seq |-> 0]]
        BY <1>1, <3>1, LoadType
      <4>2. job.op = "submit" => ViewFor(job).session.count <= count'
        BY <1>1, <1>2 DEF ViewFor
      <4> QED
        BY <1>1, <1>2, <1>3, <4>1, <4>2 DEF SeenBacked, TypeOK, count
    <3>2. CASE Sequence(w)
      <4>1. /\ req[w].phase = "loaded"
            /\ req' = [req EXCEPT ![w].phase = "sequenced",
                                  ![w].seq = Len(turns) + 1]
        BY <3>2 DEF Sequence
      <4>2. req[w] # Idle /\ req[w] \in Request
        BY <1>1, <4>1, InFlight DEF Idle
      <4>3. /\ req'[w].job = req[w].job /\ req'[w].seen = req[w].seen
            /\ \A v \in Workers : v # w => req'[v] = req[v]
        BY <1>1, <4>1, <4>2 DEF TypeOK, Request
      <4> QED
        BY <1>2, <1>3, <4>2, <4>3 DEF SeenBacked, count
    <3>3. CASE Abort(w) \/ Write(w)
      <4>1. req' = [req EXCEPT ![w] = Idle]
        BY <3>3, RequestsStep
      <4>2. \A v \in Workers : req'[v] # Idle => req'[v] = req[v]
        BY <1>1, <4>1 DEF TypeOK
      <4> QED
        BY <1>2, <1>3, <4>2 DEF SeenBacked, count
    <3> QED
      BY <2>1, <3>1, <3>2, <3>3
  <2> QED
    BY <1>1, <2>2, <2>3 DEF BackedInv, count
<1> QED
  BY <1>4, <1>5

\* Retries, lost updates, restarts and failures can make the system count too
\* few of the host's answers, never too many: no host is told that the limit
\* on turns is reached before having given that many answers.
THEOREM AnswersBacked == Spec => []CountBacked
<1>1. Init => BackedInv
  <2> SUFFICES ASSUME Init PROVE BackedInv
    OBVIOUS
  <2>1. Room(turns) = {} /\ session.count = 0
    BY DEF Init, Room, InitSession
  <2>2. SeenBacked
    BY DEF Init, SeenBacked
  <2> QED
    BY <2>1, <2>2, TranscriptInvInit, FS_EmptySet DEF BackedInv
<1>2. BackedInv => CountBacked
  BY DEF BackedInv, CountBacked, RoomTurns, Room
<1> QED
  BY <1>1, <1>2, BackedStep, PTL DEF Spec

-----------------------------------------------------------------------------
(* One host *)

\* One browser starts the interview, answers, saves drafts and reopens topics,
\* and nobody sends the assessment back for the interview to be started over.
OneHost ==
  \E host \in Workers : \A w \in Workers : \A job \in JobsOf[w] :
    /\ job.op \in {"start", "submit", "draft", "reopen"} => w = host
    /\ job.op = "transition" => job.to # "evidence_ready"

\* A worker serves the requests it may be given.
Assigned == \A w \in Workers : req[w] # Idle => req[w].job \in JobsOf[w]

\* The interview is started at most once.
Unopened ==
  /\ status = "evidence_ready" => turns = <<>>
  /\ \A w \in Workers : req[w] # Idle /\ req[w].job.op = "start" => turns = <<>>

\* The row a request of the host has loaded is the row in the database; an
\* answer was let in under the limit.
RowCurrent ==
  \A w \in Workers :
    req[w] # Idle =>
      /\ req[w].job.op \in {"submit", "draft", "reopen"}
           => req[w].seen.session = session
      /\ req[w].job.op = "submit" => req[w].seen.session.count < MaxTurns

\* The key of the question after the next answer is not taken yet.
NextIsNew == \A k \in Nat : <<"next", k>> \in KeysOf(turns) => k <= session.count

\* A request in flight after a step was accepted by it, or was in flight before.
LEMMA RequestAfter ==
  ASSUME TypeOK, [Next]_vars, NEW v \in Workers, req'[v] # Idle
  PROVE  \/ /\ UNCHANGED <<status, cov, session, turns>>
            /\ \E job \in JobsOf[v] : /\ Accepts(job)
                                      /\ req'[v].job = job
                                      /\ req'[v].seen = ViewFor(job)
         \/ /\ req[v] # Idle
            /\ req'[v].job = req[v].job /\ req'[v].seen = req[v].seen
<1>1. CASE UNCHANGED vars
  BY <1>1 DEF vars
<1>2. ASSUME NEW w \in Workers, Load(w)
      PROVE  \/ req'[v] = req[v]
             \/ /\ UNCHANGED <<status, cov, session, turns>>
                /\ \E job \in JobsOf[v] : /\ Accepts(job)
                                          /\ req'[v].job = job
                                          /\ req'[v].seen = ViewFor(job)
  <2>1. PICK job \in JobsOf[w] :
          /\ Accepts(job)
          /\ req' = [req EXCEPT ![w] = [phase |-> "loaded", job |-> job,
                                        seen |-> ViewFor(job), seq |-> 0]]
    BY <1>2 DEF Load
  <2>2. UNCHANGED <<status, cov, session, turns>>
    BY <1>2 DEF Load
  <2>3. CASE v = w
    <3>1. req'[v] = [phase |-> "loaded", job |-> job, seen |-> ViewFor(job),
                     seq |-> 0]
      BY <2>1, <2>3 DEF TypeOK
    <3> QED
      BY <2>1, <2>2, <2>3, <3>1
  <2>4. CASE v # w
    BY <2>1, <2>4 DEF TypeOK
  <2> QED
    BY <2>3, <2>4
<1>3. ASSUME NEW w \in Workers, Sequence(w)
      PROVE  req[v] # Idle /\ req'[v].job = req[v].job /\ req'[v].seen = req[v].seen
  <2>1. /\ req[w].phase = "loaded"
        /\ req' = [req EXCEPT ![w].phase = "sequenced", ![w].seq = Len(turns) + 1]
    BY <1>3 DEF Sequence
  <2>2. req[w] # Idle /\ req[w] \in Request
    BY <2>1, InFlight DEF Idle
  <2>3. /\ req'[w].job = req[w].job /\ req'[w].seen = req[w].seen
        /\ v # w => req'[v] = req[v]
    BY <2>1, <2>2 DEF TypeOK, Request
  <2> QED
    BY <2>2, <2>3
<1>4. ASSUME NEW w \in Workers, Abort(w) \/ Write(w)
      PROVE  req'[v] = req[v]
  <2>1. req' = [req EXCEPT ![w] = Idle]
    BY <1>4, RequestsStep
  <2> QED
    BY <2>1 DEF TypeOK
<1> QED
  BY <1>1, <1>2, <1>3, <1>4 DEF Next

\* Who writes the rows an answer depends on.
LEMMA ScreenWriter ==
  ASSUME TypeOK, [Next]_vars, session' # session
  PROVE  \E w \in Workers :
           /\ req[w] # Idle /\ req'[w] = Idle
           /\ req[w].job.op \in {"start", "submit", "draft", "reopen"}
<1>1. PICK w \in Workers : Load(w) \/ Sequence(w) \/ Abort(w) \/ Write(w)
  BY DEF Next, vars
<1>2. SubmitTurn(w) \/ Start(w) \/ ReopenTopic(w) \/ SaveDraft(w)
  <2>1. ~IngestRemote(w)
    BY IngestType
  <2> QED
    BY <1>1, <2>1 DEF Load, Sequence, Abort, Write, Complete, Transition, Rescore
<1>3. /\ req[w] # Idle
      /\ req[w].job.op \in {"start", "submit", "draft", "reopen"}
  <2>1. CASE SubmitTurn(w)
    BY <2>1 DEF SubmitTurn, Insertable, Idle
  <2>2. CASE Start(w)
    BY <2>2 DEF Start, Idle
  <2>3. CASE ReopenTopic(w)
    BY <2>3 DEF ReopenTopic, Idle
  <2>4. CASE SaveDraft(w)
    BY <2>4 DEF SaveDraft, Idle
  <2> QED
    BY <1>2, <2>1, <2>2, <2>3, <2>4
<1>4. req'[w] = Idle
  <2>1. req' = [req EXCEPT ![w] = Idle]
    BY <1>2, RequestsStep DEF Write
  <2> QED
    BY <2>1 DEF TypeOK
<1> QED
  BY <1>3, <1>4

\* The log is opened by a start, and by nothing else.
LEMMA Opener ==
  ASSUME TypeOK, Underway, [Next]_vars, turns = <<>>, turns' # <<>>
  PROVE  /\ status' = "interview_active"
         /\ \E w \in Workers : /\ req[w] # Idle /\ req'[w] = Idle
                               /\ req[w].job.op = "start"
<1>1. PICK w \in Workers : Load(w) \/ Sequence(w) \/ Abort(w) \/ Write(w)
  BY DEF Next, vars
<1>2. Start(w)
  <2>1. ~SubmitTurn(w) /\ ~IngestRemote(w)
    BY DEF SubmitTurn, IngestRemote, Insertable, Idle, Underway
  <2> QED
    BY <1>1, <2>1 DEF Load, Sequence, Abort, Write, Complete, Transition,
                      Rescore, ReopenTopic, SaveDraft
<1>3. req[w] # Idle /\ req[w].job.op = "start"
  BY <1>2 DEF Start, Idle
<1>4. req' = [req EXCEPT ![w] = Idle] /\ status' = "interview_active"
  BY <1>2 DEF Start, Finish
<1> QED
  BY <1>3, <1>4 DEF TypeOK

LEMMA AssignedStep ==
  ASSUME TypeOK, Assigned, [Next]_vars
  PROVE  Assigned'
BY RequestAfter DEF Assigned

LEMMA UnopenedStep ==
  ASSUME OneHost, TypeOK, Underway, Assigned, Unopened, [Next]_vars
  PROVE  Unopened'
<1>1. PICK host \in Workers : \A w \in Workers : \A job \in JobsOf[w] :
        /\ job.op \in {"start", "submit", "draft", "reopen"} => w = host
        /\ job.op = "transition" => job.to # "evidence_ready"
  BY DEF OneHost
<1>2. status' = "evidence_ready" => status = "evidence_ready"
  <2> SUFFICES ASSUME status' # status PROVE status' # "evidence_ready"
    OBVIOUS
  <2>1. PICK w \in Workers : Load(w) \/ Sequence(w) \/ Abort(w) \/ Write(w)
    BY DEF Next, vars
  <2>2. CASE Transition(w)
    <3>1. /\ req[w] # Idle /\ req[w].job.op = "transition"
          /\ status' = req[w].job.to
      BY <2>2 DEF Transition, Idle
    <3>2. req[w].job \in JobsOf[w]
      BY <3>1 DEF Assigned
    <3> QED
      BY <1>1, <3>1, <3>2
  <2>3. CASE Start(w) \/ Complete(w) \/ Rescore(w) \/ ReopenTopic(w)
    BY <2>3 DEF Start, Complete, Rescore, ReopenTopic
  <2> QED
    BY <2>1, <2>2, <2>3 DEF Load, Sequence, Abort, Write, SubmitTurn,
                            IngestRemote, SaveDraft
<1>3. CASE turns' = <<>>
  BY <1>3 DEF Unopened
<1>4. CASE turns' # <<>>
  <2>1. status' # "evidence_ready"
    BY <1>2, <1>4, Opener DEF Unopened
  <2>2. ASSUME NEW v \in Workers, req'[v] # Idle, req'[v].job.op = "start"
        PROVE  FALSE
    <3>1. req[v] # Idle /\ req[v].job.op = "start"
      <4>1. ASSUME NEW job \in JobsOf[v], Accepts(job), job.op = "start",
                   UNCHANGED <<status, cov, session, turns>>
            PROVE  FALSE
        BY <1>4, <4>1 DEF Accepts, Unopened
      <4> QED
        BY <2>2, <4>1, RequestAfter
    <3>2. v = host
      BY <1>1, <3>1 DEF Assigned
    <3>3. turns = <<>>
      BY <3>1 DEF Unopened
    <3>4. PICK w \in Workers : /\ req[w] # Idle /\ req'[w] = Idle
                               /\ req[w].job.op = "start"
      BY <1>4, <3>3, Opener
    <3>5. w = host
      BY <1>1, <3>4 DEF Assigned
    <3> QED
      BY <2>2, <3>2, <3>4, <3>5
  <2> QED
    BY <1>4, <2>1, <2>2 DEF Unopened
<1> QED
  BY <1>3, <1>4

\* Only the host's own request writes the row that a request of the host has read.
LEMMA RowCurrentStep ==
  ASSUME OneHost, TypeOK, Assigned, RowCurrent, [Next]_vars
  PROVE  RowCurrent'
<1>1. PICK host \in Workers : \A w \in Workers : \A job \in JobsOf[w] :
        job.op \in {"start", "submit", "draft", "reopen"} => w = host
  BY DEF OneHost
<1> SUFFICES ASSUME NEW v \in Workers, req'[v] # Idle,
                    req'[v].job.op \in {"submit", "draft", "reopen"}
             PROVE  /\ req'[v].seen.session = session'
                    /\ req'[v].job.op = "submit"
                         => req'[v].seen.session.count < MaxTurns
  BY DEF RowCurrent
<1>2. ASSUME UNCHANGED <<status, cov, session, turns>>,
             NEW job \in JobsOf[v], Accepts(job), req'[v].job = job,
             req'[v].seen = ViewFor(job)
      PROVE  /\ req'[v].seen.session = session'
             /\ req'[v].job.op = "submit"
                  => req'[v].seen.session.count < MaxTurns
  <2>1. req'[v].seen.session = session
    BY <1>2 DEF ViewFor
  <2>2. job.op = "submit" => session.count < MaxTurns
    BY <1>2 DEF Accepts, UnderLimit
  <2> QED
    BY <1>2, <2>1, <2>2
<1>3. ASSUME req[v] # Idle, req'[v].job = req[v].job, req'[v].seen = req[v].seen
      PROVE  /\ req'[v].seen.session = session'
             /\ req'[v].job.op = "submit"
                  => req'[v].seen.session.count < MaxTurns
  <2>1. v = host
    BY <1>1, <1>3 DEF Assigned
  <2>2. session' = session
    <3> SUFFICES ASSUME session' # session PROVE FALSE
      OBVIOUS
    <3>1. PICK w \in Workers :
            /\ req[w] # Idle /\ req'[w] = Idle
            /\ req[w].job.op \in {"start", "submit", "draft", "reopen"}
      BY ScreenWriter
    <3>2. w = host
      BY <1>1, <3>1 DEF Assigned
    <3> QED
      BY <2>1, <3>1, <3>2
  <2> QED
    BY <1>3, <2>2 DEF RowCurrent
<1> QED
  BY <1>2, <1>3, RequestAfter

\* A question whose key is new is put on record.
LEMMA Recorded ==
  ASSUME NEW log \in Seq(Turn), NEW key \in SystemKeys,
         NEW about \in SUBSET Practices, NEW after,
         key \notin KeysOf(log), after = WithSystemTurn(log, key, about)
  PROVE  /\ KeysOf(after) = KeysOf(log) \cup {key}
         /\ \E i \in DOMAIN after : after[i].key = key /\ after[i].about = about
<1> DEFINE e == [key |-> key, source |-> "system", about |-> about]
<1>1. e \in Turn /\ e.key = key /\ e.about = about
  BY DEF Turn, Keys
<1>2. Fresh(e, log)
  BY <1>1 DEF Fresh
<1>3. after = Append(log, e)
  BY DEF WithSystemTurn
<1> HIDE DEF e
<1>4. Len(log) + 1 \in DOMAIN after /\ after[Len(log) + 1] = e
  BY <1>1, <1>3
<1>5. KeysOf(after) = KeysOf(log) \cup {e.key}
  BY <1>2, <1>3, AppendFresh
<1> QED
  BY <1>1, <1>4, <1>5

\* The host's answer leaves the screen in one of its two shapes.
LEMMA HostAnswers ==
  ASSUME TypeInv, NextIsNew, NEW w \in Workers, SubmitTurn(w),
         req[w].seen.session = session
  PROVE  NextIsNew' /\ PendingMatchesOutcome' /\ QuestionRecorded'
<1> DEFINE job == req[w].job
           seen == req[w].seen
           asked == IF job.clarification THEN seen.session.pending
                                         ELSE seen.session.question
           turn(a) == [key |-> job.key, source |-> "room",
                       about |-> asked \cup DOMAIN a.updates]
           log(a) == Append(turns, turn(a))
           c(a) == ApplyUpdates(seen.cov, a.updates)
           weak(a) == {p \in DOMAIN a.updates : a.updates[p].state = "clarify"}
           spent(a) == IF a.clarify THEN weak(a) \cap Exhausted(log(a)) ELSE {}
           marked(a) == MarkInsufficient(c(a), spent(a))
<1>1. /\ req[w].phase = "sequenced" /\ job.op = "submit"
      /\ job.key \notin KeysOf(turns)
  BY DEF SubmitTurn, Insertable
<1>2. /\ TypeOK /\ job \in Job /\ seen \in View /\ session \in Session
      /\ seen.cov \in [Practices -> Coverage] /\ turns \in Seq(Turn)
  BY <1>1, InFlight DEF TypeInv, TypeOK
<1>3. PICK a \in Analyses :
        IF a.clarify /\ spent(a) = {}
        THEN AskAgain(log(a), seen, c(a), a)
        ELSE MoveOn(log(a), seen, c(a), marked(a))
  BY DEF SubmitTurn
<1>4. PICK S \in SUBSET Practices : a \in Analysis(S)
  BY AnalysisAssumption
<1>5. DOMAIN a.updates = S /\ a.updates \in [S -> Coverage]
  BY <1>4 DEF Analysis
<1>6. asked \in SUBSET Practices
  <2>1. req[w] # Idle
    BY <1>1 DEF Idle
  <2>2. job.clarification => seen.session.pending # NoClarification
    BY <1>1, <2>1 DEF TypeInv, AskedKnown
  <2> QED
    BY <1>2, <2>2 DEF Session, Question
<1>7. job.key \in HostKeys /\ job.key \notin SystemKeys
  BY <1>1, <1>2, JobFields, KeyAssumption
<1>8. Fresh(turn(a), turns) /\ turn(a).key = job.key
  BY <1>1, <1>5, <1>6, <1>7 DEF Turn, Keys, Fresh
<1>9. marked(a) \in [Practices -> Coverage]
  BY <1>2, <1>5, ApplyType, MarkType
<1>10. log(a) \in Seq(Turn) /\ KeysOf(log(a)) = KeysOf(turns) \cup {job.key}
  <2> HIDE DEF turn, job
  <2> QED
    BY <1>2, <1>8, AppendFresh
<1>11. session.count \in Nat /\ seen.session = session
  BY <1>2 DEF Session
<1> HIDE DEF job, seen, asked, turn, log, c, weak, spent, marked
<1>12. \A k \in Nat : <<"next", k>> \in KeysOf(log(a)) => k <= session.count
  <2> SUFFICES ASSUME NEW k \in Nat, <<"next", k>> \in KeysOf(log(a))
               PROVE  k <= session.count
    OBVIOUS
  <2>1. <<"next", k>> \in SystemKeys
    BY DEF SystemKeys
  <2> QED
    BY <1>7, <1>10, <2>1 DEF NextIsNew
<1>13. CASE AskAgain(log(a), seen, c(a), a)
  <2>1. PICK text \in {{}} \cup {{p} : p \in DOMAIN a.updates} :
          session' = [session EXCEPT
                        !.count = CountAfter(seen),
                        !.draft = Put(@, seen.session.draft, FALSE),
                        !.pending = text,
                        !.outcome = Put(@, seen.session.outcome, "clarify")]
    BY <1>13 DEF AskAgain
  <2>2. text \in Question
    BY <1>5, <2>1 DEF Question
  <2>3. /\ session'.count = session.count + 1
        /\ session'.pending # NoClarification
        /\ session'.outcome = "clarify"
    BY <1>2, <1>11, <2>1, <2>2, NullAssumption DEF Session, CountAfter, Put
  <2>4. turns' = log(a)
    BY <1>13 DEF AskAgain
  <2>5. NextIsNew'
    BY <1>11, <1>12, <2>3, <2>4 DEF NextIsNew
  <2> QED
    BY <2>3, <2>5 DEF PendingMatchesOutcome, QuestionRecorded
<1>14. CASE MoveOn(log(a), seen, c(a), marked(a))
  <2>1. PICK multi \in SUBSET UNION OpenClusters :
          LET chosen == Select(marked(a), Exhausted(log(a)), multi)
          IN /\ \E text \in TextsFor(chosen.keys) :
                  session' = ShowNext(session, seen, text)
             /\ turns' = WithSystemTurn(log(a), NextKey(seen), chosen.keys)
    BY <1>14 DEF MoveOn
  <2> DEFINE keys == Select(marked(a), Exhausted(log(a)), multi).keys
  <2>2. PICK text \in TextsFor(keys) : session' = ShowNext(session, seen, text)
    BY <2>1
  <2>3. keys \in SUBSET Practices
    <3>1. multi \in SUBSET Practices
      BY ClusterAssumption
    <3> QED
      BY <1>9, <3>1, SelectType
  <2>4. turns' = WithSystemTurn(log(a), NextKey(seen), keys)
    BY <2>1
  <2> HIDE DEF keys
  <2>5. text \subseteq keys
    BY <2>2 DEF TextsFor
  <2>6. /\ session'.count = session.count + 1
        /\ session'.pending = NoClarification
        /\ session'.outcome = "sufficient"
        /\ session'.question = text
    BY <1>2, <1>11, <2>2 DEF Session, ShowNext, CountAfter, Put
  <2>7. /\ NextKey(seen) = <<"next", session.count + 1>>
        /\ NextKey(seen) \in SystemKeys
        /\ NextKey(seen) \notin KeysOf(log(a))
    BY <1>11, <1>12 DEF NextKey, CountAfter, SystemKeys
  <2>8. /\ KeysOf(turns') = KeysOf(log(a)) \cup {NextKey(seen)}
        /\ \E i \in DOMAIN turns' : /\ turns'[i].key = NextKey(seen)
                                    /\ turns'[i].about = keys
    <3> DEFINE before == log(a)
               key == NextKey(seen)
    <3>1. before \in Seq(Turn) /\ key \in SystemKeys /\ key \notin KeysOf(before)
      BY <1>10, <2>7
    <3>2. turns' = WithSystemTurn(before, key, keys)
      BY <2>4
    <3> HIDE DEF before, key
    <3>3. /\ KeysOf(turns') = KeysOf(before) \cup {key}
          /\ \E i \in DOMAIN turns' : turns'[i].key = key /\ turns'[i].about = keys
      BY <2>3, <3>1, <3>2, Recorded
    <3> QED
      BY <3>3 DEF before, key
  <2>9. NextIsNew'
    <3> SUFFICES ASSUME NEW k \in Nat, <<"next", k>> \in KeysOf(turns')
                 PROVE  k <= session'.count
      BY DEF NextIsNew
    <3>1. CASE <<"next", k>> \in KeysOf(log(a))
      BY <1>11, <1>12, <2>6, <3>1
    <3>2. CASE <<"next", k>> = <<"next", session.count + 1>>
      BY <1>11, <2>6, <3>2
    <3> QED
      BY <2>7, <2>8, <3>1, <3>2
  <2>10. QuestionRecorded'
    BY <2>5, <2>6, <2>7, <2>8 DEF QuestionRecorded
  <2> QED
    BY <2>6, <2>9, <2>10 DEF PendingMatchesOutcome
<1> QED
  BY <1>3, <1>13, <1>14

\* What is said of the log and of the screen, taken together.
ScreenInv ==
  /\ NextIsNew
  /\ session.count = Cardinality(Room(turns)) /\ session.count <= MaxTurns
  /\ PendingMatchesOutcome /\ QuestionRecorded

LEMMA SubmitScreen ==
  ASSUME TypeInv, RowCurrent, ScreenInv, NEW w \in Workers, SubmitTurn(w)
  PROVE  ScreenInv'
<1>1. req[w] # Idle /\ req[w].job.op = "submit"
  BY DEF SubmitTurn, Insertable, Idle
<1>2. req[w].seen.session = session /\ session.count < MaxTurns
  BY <1>1 DEF RowCurrent
<1>3. /\ session'.count = session.count + 1
      /\ Cardinality(Room(turns')) = Cardinality(Room(turns)) + 1
  BY <1>2, SubmitCounts
<1>4. session.count \in Nat /\ MaxTurns \in Nat
  BY StopAssumption DEF TypeInv, TypeOK, Session
<1>5. NextIsNew' /\ PendingMatchesOutcome' /\ QuestionRecorded'
  BY <1>2, HostAnswers DEF ScreenInv
<1>6. session'.count = Cardinality(Room(turns')) /\ session'.count <= MaxTurns
  BY <1>2, <1>3, <1>4 DEF ScreenInv
<1> QED
  BY <1>5, <1>6 DEF ScreenInv

LEMMA IngestScreen ==
  ASSUME TypeInv, ScreenInv, NEW w \in Workers, IngestRemote(w)
  PROVE  ScreenInv'
<1>1. session' = session
  BY IngestType DEF TypeInv
<1>2. PICK e \in Turn : /\ Fresh(e, turns) /\ turns' = Append(turns, e)
                        /\ e.source = "remote" /\ e.key \in Contributions
  BY IngestAppends DEF Appends
<1>3. turns \in Seq(Turn) /\ session.count \in Nat
  BY DEF TypeInv, TypeOK, Session
<1>4. Cardinality(Room(turns')) = Cardinality(Room(turns))
  BY <1>2, <1>3, RoomCount
<1>5. KeysOf(turns') = KeysOf(turns) \cup {e.key}
  BY <1>2, <1>3, AppendFresh
<1>6. NextIsNew'
  <2> SUFFICES ASSUME NEW k \in Nat, <<"next", k>> \in KeysOf(turns')
               PROVE  k <= session.count
    BY <1>1 DEF NextIsNew
  <2>1. <<"next", k>> \in SystemKeys
    BY DEF SystemKeys
  <2>2. <<"next", k>> # e.key
    BY <1>2, <2>1, KeyAssumption
  <2> QED
    BY <1>5, <2>2 DEF ScreenInv, NextIsNew
<1>7. \A i \in DOMAIN turns : i \in DOMAIN turns' /\ turns'[i] = turns[i]
  BY <1>2, <1>3
<1>8. QuestionRecorded'
  BY <1>1, <1>7 DEF ScreenInv, QuestionRecorded
<1> QED
  BY <1>1, <1>4, <1>6, <1>8 DEF ScreenInv, PendingMatchesOutcome

LEMMA StartScreen ==
  ASSUME TypeInv, Unopened, NEW w \in Workers, Start(w)
  PROVE  ScreenInv'
<1>1. req[w] # Idle /\ req[w].job.op = "start"
  BY DEF Start, Idle
<1>2. turns = <<>> /\ turns \in Seq(Turn)
  BY <1>1 DEF Unopened, TypeInv, TypeOK
<1>3. PICK e \in Turn : /\ Fresh(e, turns) /\ turns' = Append(turns, e)
                        /\ e.source = "system" /\ e.key = OpeningKey
  BY <1>2, StartAppends DEF Appends, KeysOf
<1>4. Cardinality(Room(turns')) = 0
  <2>1. Cardinality(Room(turns)) = 0
    BY <1>2, FS_EmptySet DEF Room
  <2>2. Cardinality(Room(turns')) = Cardinality(Room(turns)) + 0
    BY <1>2, <1>3, RoomCount
  <2> QED
    BY <2>1, <2>2
<1>5. KeysOf(turns') = {OpeningKey}
  <2>1. KeysOf(turns) = {}
    BY <1>2 DEF KeysOf
  <2> QED
    BY <1>2, <1>3, <2>1, AppendFresh
<1>6. NextIsNew'
  BY <1>5 DEF NextIsNew, OpeningKey
<1>7. session' = InitSession
  BY DEF Start
<1>8. InitSession.count = 0 /\ InitSession.pending = NoClarification
      /\ InitSession.outcome = "none"
  BY DEF InitSession
<1> QED
  BY <1>4, <1>6, <1>7, <1>8, StopAssumption
     DEF ScreenInv, PendingMatchesOutcome, QuestionRecorded

\* Reopening a topic takes the pending clarification off the screen.
LEMMA ReopenScreen ==
  ASSUME TypeInv, RowCurrent, ScreenInv, NEW w \in Workers, ReopenTopic(w)
  PROVE  ScreenInv'
<1>1. req[w] # Idle /\ req[w].job.op = "reopen" /\ turns' = turns
  BY DEF ReopenTopic, Idle
<1>2. req[w].seen.session = session /\ session \in Session
  BY <1>1 DEF RowCurrent, TypeInv, TypeOK
<1>3. CASE session' = session
  BY <1>1, <1>3 DEF ScreenInv, NextIsNew, PendingMatchesOutcome, QuestionRecorded
<1>4. CASE session' # session
  <2>1. PICK text :
          session' = [session EXCEPT
                        !.question = text,
                        !.pending = Put(@, session.pending, NoClarification),
                        !.outcome = Put(@, session.outcome, "none")]
    BY <1>2, <1>4 DEF ReopenTopic
  <2>2. /\ session'.count = session.count
        /\ session'.pending = NoClarification
        /\ session'.outcome = "none"
    BY <1>2, <2>1 DEF Session, Put
  <2> QED
    BY <1>1, <2>2
       DEF ScreenInv, NextIsNew, PendingMatchesOutcome, QuestionRecorded
<1> QED
  BY <1>3, <1>4

LEMMA DraftScreen ==
  ASSUME TypeInv, ScreenInv, NEW w \in Workers, SaveDraft(w)
  PROVE  ScreenInv'
<1>1. session \in Session /\ turns' = turns
  BY DEF TypeInv, TypeOK, SaveDraft
<1>2. /\ session'.count = session.count
      /\ session'.pending = session.pending
      /\ session'.outcome = session.outcome
      /\ session'.question = session.question
  BY <1>1 DEF SaveDraft, Session
<1> QED
  BY <1>1, <1>2
     DEF ScreenInv, NextIsNew, PendingMatchesOutcome, QuestionRecorded

HostInv == TranscriptInv /\ Assigned /\ Unopened /\ RowCurrent /\ ScreenInv

LEMMA HostInvInit == Init => HostInv
<1> SUFFICES ASSUME Init PROVE HostInv
  OBVIOUS
<1>1. turns = <<>> /\ session = InitSession /\ \A w \in Workers : req[w] = Idle
  BY DEF Init
<1>2. Assigned /\ Unopened /\ RowCurrent
  BY <1>1 DEF Assigned, Unopened, RowCurrent
<1>3. NextIsNew
  BY <1>1 DEF NextIsNew, KeysOf
<1>4. Cardinality(Room(turns)) = 0
  BY <1>1, FS_EmptySet DEF Room
<1>5. session.count = 0 /\ session.pending = NoClarification
      /\ session.outcome = "none"
  BY <1>1 DEF InitSession
<1>6. ScreenInv
  BY <1>3, <1>4, <1>5, StopAssumption
     DEF ScreenInv, PendingMatchesOutcome, QuestionRecorded
<1> QED
  BY <1>2, <1>6, TranscriptInvInit DEF HostInv

LEMMA HostInvStep ==
  ASSUME OneHost, HostInv, [Next]_vars
  PROVE  HostInv'
<1>1. /\ TranscriptInv /\ TypeInv /\ TypeOK /\ Underway /\ Assigned /\ Unopened
      /\ RowCurrent /\ ScreenInv
  BY DEF HostInv, TranscriptInv, TypeInv
<1>2. TranscriptInv' /\ Assigned' /\ Unopened' /\ RowCurrent'
  BY <1>1, TranscriptInvStep, AssignedStep, UnopenedStep, RowCurrentStep
<1>3. ScreenInv'
  <2>1. CASE session' = session /\ turns' = turns
    BY <1>1, <2>1
       DEF ScreenInv, NextIsNew, PendingMatchesOutcome, QuestionRecorded
  <2>2. ASSUME NEW w \in Workers, Write(w)
        PROVE  ScreenInv'
    <3>1. CASE SubmitTurn(w)
      BY <1>1, <3>1, SubmitScreen
    <3>2. CASE IngestRemote(w)
      BY <1>1, <3>2, IngestScreen
    <3>3. CASE Start(w)
      BY <1>1, <3>3, StartScreen
    <3>4. CASE ReopenTopic(w)
      BY <1>1, <3>4, ReopenScreen
    <3>5. CASE SaveDraft(w)
      BY <1>1, <3>5, DraftScreen
    <3>6. CASE Complete(w) \/ Transition(w) \/ Rescore(w)
      BY <2>1, <3>6 DEF Complete, Transition, Rescore
    <3> QED
      BY <2>2, <3>1, <3>2, <3>3, <3>4, <3>5, <3>6 DEF Write
  <2> QED
    BY <2>1, <2>2 DEF Next, vars, Load, Sequence, Abort
<1> QED
  BY <1>2, <1>3 DEF HostInv

\* With one host no answer goes uncounted: the count that the turn limit is
\* compared with is the number of answers on record.
THEOREM EveryAnswerCounts ==
  ASSUME OneHost
  PROVE  Spec => []CountExact
<1>1. HostInv => CountExact
  BY DEF HostInv, ScreenInv, CountExact, RoomTurns, Room
<1>2. HostInv /\ [Next]_vars => HostInv'
  BY HostInvStep
<1> QED
  BY <1>1, <1>2, HostInvInit, PTL DEF Spec

\* ... so that one host is never asked for more answers than the limit.
THEOREM LimitKept ==
  ASSUME OneHost
  PROVE  Spec => []TurnLimit
<1>1. HostInv => TurnLimit
  BY DEF HostInv, ScreenInv, TurnLimit, RoomTurns, Room
<1>2. HostInv /\ [Next]_vars => HostInv'
  BY HostInvStep
<1> QED
  BY <1>1, <1>2, HostInvInit, PTL DEF Spec

\* With one host the screen asks for a clarification when and only when
\* submit_turn accepts one, through inclusions, reviews and reopenings.
THEOREM ClarificationAgrees ==
  ASSUME OneHost
  PROVE  Spec => []PendingMatchesOutcome
<1>1. HostInv => PendingMatchesOutcome
  BY DEF HostInv, ScreenInv
<1>2. HostInv /\ [Next]_vars => HostInv'
  BY HostInvStep
<1> QED
  BY <1>1, <1>2, HostInvInit, PTL DEF Spec

\* With one host the question shown after an answer is on record, so that the
\* next rounds count it.
THEOREM QuestionsOnRecord ==
  ASSUME OneHost
  PROVE  Spec => []QuestionRecorded
<1>1. HostInv => QuestionRecorded
  BY DEF HostInv, ScreenInv
<1>2. HostInv /\ [Next]_vars => HostInv'
  BY HostInvStep
<1> QED
  BY <1>1, <1>2, HostInvInit, PTL DEF Spec

-----------------------------------------------------------------------------
(* One request at a time *)

OneAtATime == \A u, v \in Workers : u = v

\* What a request has checked and read is still so when it writes.
StillSo ==
  \A w \in Workers :
    req[w] # Idle => /\ Accepts(req[w].job)
                     /\ req[w].seen = ViewFor(req[w].job)

LEMMA StillSoStep ==
  ASSUME OneAtATime, TypeOK, StillSo, [Next]_vars
  PROVE  StillSo'
<1> SUFFICES ASSUME NEW v \in Workers, req'[v] # Idle
             PROVE  (Accepts(req[v].job) /\ req[v].seen = ViewFor(req[v].job))'
  BY DEF StillSo
<1>1. UNCHANGED <<status, cov, session, turns>>
  <2>1. CASE UNCHANGED vars
    BY <2>1 DEF vars
  <2>2. ASSUME NEW w \in Workers, Load(w) \/ Sequence(w) \/ Abort(w)
        PROVE  UNCHANGED <<status, cov, session, turns>>
    BY <2>2 DEF Load, Sequence, Abort
  <2>3. ASSUME NEW w \in Workers, Write(w) PROVE FALSE
    <3>1. req' = [req EXCEPT ![w] = Idle]
      BY <2>3, RequestsStep
    <3>2. req'[w] = Idle
      BY <3>1 DEF TypeOK
    <3> QED
      BY <3>2 DEF OneAtATime
  <2> QED
    BY <2>1, <2>2, <2>3 DEF Next
<1>2. \/ \E job \in JobsOf[v] : /\ Accepts(job)
                                /\ req'[v].job = job
                                /\ req'[v].seen = ViewFor(job)
      \/ /\ Accepts(req[v].job) /\ req[v].seen = ViewFor(req[v].job)
         /\ req'[v].job = req[v].job /\ req'[v].seen = req[v].seen
  BY RequestAfter DEF StillSo
<1>3. Accepts(req'[v].job) /\ req'[v].seen = ViewFor(req'[v].job)
  BY <1>2
<1> QED
  BY <1>1, <1>3 DEF Accepts, ViewFor, SessionExists

\* What the coverage becomes

LEMMA MarkState ==
  ASSUME NEW c \in [Practices -> Coverage], NEW S, NEW p \in Practices
  PROVE  MarkInsufficient(c, S)[p].state
           = IF p \in S THEN "insufficient" ELSE c[p].state
<1>1. c[p] \in Coverage
  OBVIOUS
<1> QED
  BY <1>1 DEF MarkInsufficient, Coverage

LEMMA PassedTired ==
  ASSUME NEW S, NEW tired, NEW before
  PROVE  Passed(S, tired, before) \subseteq S \cap tired
BY DEF Passed

LEMMA FirstAmong ==
  ASSUME NEW S, NEW before
  PROVE  First(S, before) \subseteq S
BY DEF First

\* A selection gives practices up and does nothing else to the coverage; it asks
\* about practices that are not given up, and, unless a finding raises them,
\* about tired ones only when they were never discussed.
LEMMA Selection ==
  ASSUME NEW c \in [Practices -> Coverage], NEW tired,
         NEW multi \in SUBSET Practices, NEW chosen,
         chosen = Select(c, tired, multi)
  PROVE  /\ \A p \in Practices :
              chosen.cov[p].state \in {c[p].state, "insufficient"}
         /\ \A p \in chosen.keys : chosen.cov[p].state # "insufficient"
         /\ \A p \in chosen.keys \ UNION OpenClusters :
              chosen.cov[p].state # "not_discussed" => p \notin tired
<1> DEFINE clarify == InState(c, {"clarify"})
           passed1 == Passed(clarify, tired, InOrder)
           c1 == MarkInsufficient(c, passed1)
           torn == {p \in Practices : c1[p].contra /\ c1[p].state # "insufficient"}
           passed2 == Passed(torn, tired, InOrder)
           c2 == MarkInsufficient(c1, passed2)
           partial == InState(c2, {"partial"})
           passed3 == Passed(partial, tired, ByConfidence(c2))
           c3 == MarkInsufficient(c2, passed3)
           untouched == InState(c3, {"not_discussed"})
           fresh == {p \in untouched : \A q \in Practices :
                       DomainOf[q] = DomainOf[p] => q \in untouched}
           first1 == First(clarify \ tired, InOrder)
           first3 == First(torn \ tired, InOrder)
           first4 == First(partial \ tired, ByConfidence(c2))
           first5 == First(IF fresh # {} THEN fresh ELSE untouched, InOrder)
<1>1. /\ c1 \in [Practices -> Coverage]
      /\ c2 \in [Practices -> Coverage]
      /\ c3 \in [Practices -> Coverage]
  BY MarkType
<1>2. /\ passed1 \cap (Practices \ tired) = {}
      /\ passed2 \cap (Practices \ tired) = {}
      /\ passed3 \cap (Practices \ tired) = {}
  <2> HIDE DEF clarify, torn, partial, c2
  <2> QED BY PassedTired
<1>3. \A p \in Practices :
        /\ c1[p].state = IF p \in passed1 THEN "insufficient" ELSE c[p].state
        /\ c2[p].state = IF p \in passed2 THEN "insufficient" ELSE c1[p].state
        /\ c3[p].state = IF p \in passed3 THEN "insufficient" ELSE c2[p].state
  <2> HIDE DEF passed1, passed2, passed3
  <2>1. \A p \in Practices :
          c1[p].state = IF p \in passed1 THEN "insufficient" ELSE c[p].state
    BY MarkState
  <2>2. c1 \in [Practices -> Coverage] /\ c2 \in [Practices -> Coverage]
    BY <1>1
  <2> HIDE DEF c1
  <2>3. \A p \in Practices :
          c2[p].state = IF p \in passed2 THEN "insufficient" ELSE c1[p].state
    BY <2>2, MarkState
  <2> HIDE DEF c2
  <2>4. \A p \in Practices :
          c3[p].state = IF p \in passed3 THEN "insufficient" ELSE c2[p].state
    BY <2>2, MarkState
  <2> QED
    BY <2>1, <2>3, <2>4
<1>4. /\ first1 \subseteq clarify \ tired
      /\ first3 \subseteq torn \ tired
      /\ first4 \subseteq partial \ tired
      /\ first5 \subseteq untouched
  <2>1. fresh \subseteq untouched
    OBVIOUS
  <2> HIDE DEF clarify, torn, partial, untouched, fresh, c2
  <2> QED BY <2>1, FirstAmong
<1>5. /\ \A p \in clarify : p \in Practices /\ c[p].state = "clarify"
      /\ \A p \in torn : p \in Practices /\ c1[p].state # "insufficient"
      /\ \A p \in partial : p \in Practices /\ c2[p].state = "partial"
      /\ \A p \in untouched : p \in Practices /\ c3[p].state = "not_discussed"
  <2> HIDE DEF c1, c2, c3
  <2> QED BY DEF InState
<1>6. multi \in MultiChoices(c1) =>
        /\ multi \subseteq UNION OpenClusters
        /\ \A p \in multi : c1[p].state # "insufficient"
  <2> HIDE DEF c1
  <2> QED BY DEF MultiChoices, MultiAmong, InState
<1>7. \/ chosen = [cov |-> c1, keys |-> first1]
      \/ chosen = [cov |-> c1, keys |-> multi] /\ multi \in MultiChoices(c1)
      \/ chosen = [cov |-> c2, keys |-> first3]
      \/ chosen = [cov |-> c3, keys |-> first4]
      \/ chosen = [cov |-> c3, keys |-> first5]
  <2>1. chosen =
          IF clarify \ tired # {} THEN
            [cov |-> c1, keys |-> first1]
          ELSE IF multi # {} /\ multi \in MultiChoices(c1) THEN
            [cov |-> c1, keys |-> multi]
          ELSE IF torn \ tired # {} THEN
            [cov |-> c2, keys |-> first3]
          ELSE IF partial \ tired # {} THEN
            [cov |-> c3, keys |-> first4]
          ELSE
            [cov |-> c3, keys |-> first5]
    BY Zenon DEF Select
  <2> HIDE DEF clarify, torn, partial, c1, c2, c3, first1, first3, first4, first5
  <2> QED
    BY <2>1, Zenon
<1> HIDE DEF clarify, passed1, c1, torn, passed2, c2, partial, passed3, c3,
             untouched, fresh, first1, first3, first4, first5
<1>8. CASE chosen = [cov |-> c1, keys |-> first1]
  <2>1. chosen.cov = c1 /\ chosen.keys = first1
    BY <1>8
  <2> QED
    BY <1>2, <1>3, <1>4, <1>5, <2>1
<1>9. CASE chosen = [cov |-> c1, keys |-> multi] /\ multi \in MultiChoices(c1)
  <2>1. chosen.cov = c1 /\ chosen.keys = multi
    BY <1>9
  <2> QED
    BY <1>3, <1>6, <1>9, <2>1
<1>10. CASE chosen = [cov |-> c2, keys |-> first3]
  <2>1. chosen.cov = c2 /\ chosen.keys = first3
    BY <1>10
  <2> QED
    BY <1>2, <1>3, <1>4, <1>5, <2>1
<1>11. CASE chosen = [cov |-> c3, keys |-> first4]
  <2>1. chosen.cov = c3 /\ chosen.keys = first4
    BY <1>11
  <2> QED
    BY <1>2, <1>3, <1>4, <1>5, <2>1
<1>12. CASE chosen = [cov |-> c3, keys |-> first5]
  <2>1. chosen.cov = c3 /\ chosen.keys = first5
    BY <1>12
  <2> QED
    BY <1>3, <1>4, <1>5, <2>1
<1> QED
  BY <1>7, <1>8, <1>9, <1>10, <1>11, <1>12

\* Poor coverage is left by an update only for sufficient coverage.
LEMMA ApplyState ==
  ASSUME NEW c \in [Practices -> Coverage], NEW S \in SUBSET Practices,
         NEW updates \in [S -> Coverage], NEW p \in Practices,
         c[p].state = "insufficient"
  PROVE  ApplyUpdates(c, updates)[p].state \in {"insufficient", "sufficient"}
<1>1. CASE p \in S
  <2>1. updates[p].state \in CoverageStates
    BY <1>1 DEF Coverage
  <2>2. Settle("insufficient", updates[p].state) \in {"insufficient", "sufficient"}
    BY <2>1 DEF Settle, CoverageStates
  <2>3. ApplyUpdates(c, updates)[p].state = Settle(c[p].state, updates[p].state)
    BY <1>1 DEF ApplyUpdates
  <2> QED
    BY <2>2, <2>3
<1>2. CASE p \notin S
  BY <1>2 DEF ApplyUpdates
<1> QED
  BY <1>1, <1>2

\* What is flushed over the rows it was computed from is what they become.
LEMMA FlushNow ==
  ASSUME NEW c \in [Practices -> Coverage], NEW d \in [Practices -> Coverage]
  PROVE  FlushCoverage(c, c, d) = d
<1>1. ASSUME NEW p \in Practices
      PROVE  [state  |-> Put(c[p].state, c[p].state, d[p].state),
              conf   |-> Put(c[p].conf, c[p].conf, d[p].conf),
              contra |-> Put(c[p].contra, c[p].contra, d[p].contra)] = d[p]
  <2>1. d[p] = [state |-> d[p].state, conf |-> d[p].conf, contra |-> d[p].contra]
    <3>1. d[p] \in Coverage
      OBVIOUS
    <3> QED
      BY <3>1 DEF Coverage
  <2>2. /\ Put(c[p].state, c[p].state, d[p].state) = d[p].state
        /\ Put(c[p].conf, c[p].conf, d[p].conf) = d[p].conf
        /\ Put(c[p].contra, c[p].contra, d[p].contra) = d[p].contra
    BY Zenon DEF Put
  <2> QED
    BY <2>1, <2>2
<1> QED
  BY <1>1 DEF FlushCoverage

\* An answer whose request has read the coverage of now: what becomes of poor
\* coverage, and what the question that follows is about.
LEMMA AnswerEffect ==
  ASSUME TypeInv, NEW w \in Workers, SubmitTurn(w), req[w].seen.cov = cov
  PROVE  /\ \A p \in Practices :
              cov[p].state = "insufficient"
                => cov'[p].state \in {"insufficient", "sufficient"}
         /\ \E e \in Turn :
              /\ e.source = "room"
              /\ \/ turns' = Append(turns, e)
                 \/ \E key, keys :
                      /\ turns' = WithSystemTurn(Append(turns, e), key, keys)
                      /\ \A p \in keys : /\ p \in Practices
                                         /\ cov'[p].state # "insufficient"
                      /\ \A p \in keys \ UNION OpenClusters :
                           cov'[p].state # "not_discussed"
                             => p \notin Exhausted(Append(turns, e))
<1> DEFINE job == req[w].job
           seen == req[w].seen
           asked == IF job.clarification THEN seen.session.pending
                                         ELSE seen.session.question
           turn(a) == [key |-> job.key, source |-> "room",
                       about |-> asked \cup DOMAIN a.updates]
           log(a) == Append(turns, turn(a))
           c(a) == ApplyUpdates(seen.cov, a.updates)
           weak(a) == {p \in DOMAIN a.updates : a.updates[p].state = "clarify"}
           spent(a) == IF a.clarify THEN weak(a) \cap Exhausted(log(a)) ELSE {}
           marked(a) == MarkInsufficient(c(a), spent(a))
<1>1. /\ req[w].phase = "sequenced" /\ job.op = "submit"
      /\ TypeOK /\ cov \in [Practices -> Coverage]
  BY DEF SubmitTurn, Insertable, TypeInv, TypeOK
<1>2. /\ job \in Job /\ seen \in View /\ seen.session \in Session
      /\ seen.cov = cov
  BY <1>1, InFlight DEF TypeInv
<1>3. PICK a \in Analyses :
        IF a.clarify /\ spent(a) = {}
        THEN AskAgain(log(a), seen, c(a), a)
        ELSE MoveOn(log(a), seen, c(a), marked(a))
  BY DEF SubmitTurn
<1>4. PICK S \in SUBSET Practices : a \in Analysis(S)
  BY AnalysisAssumption
<1>5. DOMAIN a.updates = S /\ a.updates \in [S -> Coverage]
  BY <1>4 DEF Analysis
<1>6. asked \in SUBSET Practices
  <2>1. req[w] # Idle
    BY <1>1 DEF Idle
  <2>2. job.clarification => seen.session.pending # NoClarification
    BY <1>1, <2>1 DEF TypeInv, AskedKnown
  <2> QED
    BY <1>2, <2>2 DEF Session, Question
<1>7. turn(a) \in Turn /\ turn(a).source = "room" /\ log(a) = Append(turns, turn(a))
  <2>1. job.key \in Keys
    BY <1>1, <1>2, JobFields DEF Keys
  <2> QED
    BY <1>5, <1>6, <2>1 DEF Turn
<1>8. c(a) \in [Practices -> Coverage]
  BY <1>1, <1>2, <1>5, ApplyType
<1>9. \A p \in Practices : cov[p].state = "insufficient"
        => c(a)[p].state \in {"insufficient", "sufficient"}
  BY <1>1, <1>2, <1>5, ApplyState
<1> HIDE DEF job, seen, asked, turn, log, c, weak, spent
<1>10. /\ marked(a) \in [Practices -> Coverage]
       /\ \A p \in Practices : marked(a)[p].state \in {c(a)[p].state, "insufficient"}
  BY <1>8, MarkType, MarkState
<1> HIDE DEF marked
<1>11. CASE AskAgain(log(a), seen, c(a), a)
  <2>1. turns' = log(a) /\ cov' = FlushCoverage(cov, seen.cov, c(a))
    BY <1>11 DEF AskAgain
  <2>2. cov' = c(a)
    BY <1>1, <1>2, <1>8, <2>1, FlushNow
  <2> QED
    BY <1>7, <1>9, <2>1, <2>2
<1>12. CASE MoveOn(log(a), seen, c(a), marked(a))
  <2>1. PICK multi \in SUBSET UNION OpenClusters :
          LET chosen == Select(marked(a), Exhausted(log(a)), multi)
              flushed == FlushCoverage(FlushCoverage(cov, seen.cov, c(a)),
                                       c(a), marked(a))
          IN /\ cov' = FlushCoverage(flushed, marked(a), chosen.cov)
             /\ turns' = WithSystemTurn(log(a), NextKey(seen), chosen.keys)
    BY <1>12 DEF MoveOn
  <2> DEFINE tired == Exhausted(log(a))
             chosen == Select(marked(a), tired, multi)
  <2>2. multi \in SUBSET Practices
    BY ClusterAssumption
  <2>3. /\ chosen.cov \in [Practices -> Coverage]
        /\ chosen.keys \in SUBSET Practices
    BY <1>10, <2>2, SelectType
  <2>4. /\ cov' = FlushCoverage(FlushCoverage(FlushCoverage(cov, seen.cov, c(a)),
                                              c(a), marked(a)),
                                marked(a), chosen.cov)
        /\ turns' = WithSystemTurn(log(a), NextKey(seen), chosen.keys)
    BY <2>1
  <2> HIDE DEF tired
  <2>5. /\ \A p \in Practices :
             chosen.cov[p].state \in {marked(a)[p].state, "insufficient"}
        /\ \A p \in chosen.keys : chosen.cov[p].state # "insufficient"
        /\ \A p \in chosen.keys \ UNION OpenClusters :
             chosen.cov[p].state # "not_discussed" => p \notin tired
    BY <1>10, <2>2, Selection
  <2> HIDE DEF chosen
  <2>6. cov' = chosen.cov
    <3>1. FlushCoverage(cov, seen.cov, c(a)) = c(a)
      BY <1>1, <1>2, <1>8, FlushNow
    <3>2. FlushCoverage(c(a), c(a), marked(a)) = marked(a)
      BY <1>8, <1>10, FlushNow
    <3>3. FlushCoverage(marked(a), marked(a), chosen.cov) = chosen.cov
      BY <1>10, <2>3, FlushNow
    <3> QED
      BY <2>4, <3>1, <3>2, <3>3
  <2>7. \A p \in Practices : cov[p].state = "insufficient"
          => cov'[p].state \in {"insufficient", "sufficient"}
    BY <1>9, <1>10, <2>5, <2>6
  <2>8. /\ turns' = WithSystemTurn(log(a), NextKey(seen), chosen.keys)
        /\ \A p \in chosen.keys : p \in Practices /\ cov'[p].state # "insufficient"
        /\ \A p \in chosen.keys \ UNION OpenClusters :
             cov'[p].state # "not_discussed" => p \notin Exhausted(log(a))
    BY <2>3, <2>4, <2>5, <2>6 DEF tired
  <2>9. \E key, keys :
          /\ turns' = WithSystemTurn(log(a), key, keys)
          /\ \A p \in keys : p \in Practices /\ cov'[p].state # "insufficient"
          /\ \A p \in keys \ UNION OpenClusters :
               cov'[p].state # "not_discussed" => p \notin Exhausted(log(a))
    BY <2>8
  <2> QED
    BY <1>7, <2>7, <2>9
<1> QED
  BY <1>3, <1>11, <1>12

SerialInv == TypeInv /\ StillSo

LEMMA SerialInvStep ==
  ASSUME OneAtATime, SerialInv, [Next]_vars
  PROVE  SerialInv'
BY TypeInvStep, StillSoStep DEF SerialInv, TypeInv

LEMMA SerialInvInit == Init => SerialInv
BY TypeInvInit DEF SerialInv, StillSo, Init

\* The system turns that a step adds.
NewQuestions == {i \in DOMAIN turns' \ DOMAIN turns : turns'[i].source = "system"}

LEMMA QuestionAfter ==
  ASSUME NEW log \in Seq(Turn), NEW key, NEW keys, NEW i,
         i \in DOMAIN WithSystemTurn(log, key, keys) \ DOMAIN log
  PROVE  /\ i = Len(log) + 1
         /\ WithSystemTurn(log, key, keys)[i]
              = [key |-> key, source |-> "system", about |-> keys]
         /\ \A j \in DOMAIN log : WithSystemTurn(log, key, keys)[j] = log[j]
BY DEF WithSystemTurn

LEMMA SerialQuestions ==
  ASSUME SerialInv, [Next]_vars, NEW i \in NewQuestions
  PROVE  /\ \A p \in turns'[i].about : /\ p \in Practices
                                       /\ cov'[p].state # "insufficient"
         /\ \A p \in turns'[i].about \ UNION OpenClusters :
              cov'[p].state # "not_discussed"
                => Cardinality({j \in 1..(i - 1) : p \in turns'[j].about}) < MaxProbes
<1>1. TypeInv /\ TypeOK /\ turns \in Seq(Turn) /\ DOMAIN turns = 1..Len(turns)
  BY DEF SerialInv, TypeInv, TypeOK
<1>2. i \in DOMAIN turns' \ DOMAIN turns /\ turns'[i].source = "system"
  BY DEF NewQuestions
<1>3. PICK w \in Workers : SubmitTurn(w) \/ IngestRemote(w) \/ Start(w)
  BY <1>2 DEF Next, vars, Load, Sequence, Abort, Write, Complete, Transition,
              Rescore, ReopenTopic, SaveDraft
<1>4. CASE SubmitTurn(w)
  <2>1. req[w].seen.cov = cov
    BY <1>4 DEF SubmitTurn, Insertable, Idle, SerialInv, StillSo, ViewFor
  <2>2. PICK e \in Turn :
          /\ e.source = "room"
          /\ \/ turns' = Append(turns, e)
             \/ \E key, keys :
                  /\ turns' = WithSystemTurn(Append(turns, e), key, keys)
                  /\ \A p \in keys : p \in Practices /\ cov'[p].state # "insufficient"
                  /\ \A p \in keys \ UNION OpenClusters :
                       cov'[p].state # "not_discussed"
                         => p \notin Exhausted(Append(turns, e))
    BY <1>1, <1>4, <2>1, AnswerEffect
  <2> DEFINE log == Append(turns, e)
  <2>3. /\ log \in Seq(Turn) /\ Len(log) \in Nat /\ DOMAIN log = 1..Len(log)
        /\ \A j \in DOMAIN log \ DOMAIN turns : log[j] = e
    BY <1>1
  <2> HIDE DEF log
  <2>4. PICK key, keys :
          /\ turns' = WithSystemTurn(log, key, keys)
          /\ \A p \in keys : p \in Practices /\ cov'[p].state # "insufficient"
          /\ \A p \in keys \ UNION OpenClusters :
               cov'[p].state # "not_discussed" => p \notin Exhausted(log)
    BY <1>2, <2>2, <2>3 DEF log
  <2>5. i \in DOMAIN turns' \ DOMAIN log
    <3>1. CASE turns' = log
      BY <1>2, <2>2, <2>3, <3>1
    <3>2. CASE turns' # log
      <4>1. turns' = Append(log, [key |-> key, source |-> "system", about |-> keys])
        BY <2>4, <3>2 DEF WithSystemTurn
      <4>2. \A j \in DOMAIN log : turns'[j] = log[j]
        BY <2>3, <4>1
      <4> QED
        BY <1>2, <2>2, <2>3, <4>2
    <3> QED
      BY <3>1, <3>2
  <2>6. /\ i = Len(log) + 1 /\ turns'[i].about = keys
        /\ \A j \in DOMAIN log : turns'[j] = log[j]
    BY <2>3, <2>4, <2>5, QuestionAfter
  <2>7. ASSUME NEW p \in Practices, p \notin Exhausted(log)
        PROVE  Cardinality({j \in 1..(i - 1) : p \in turns'[j].about}) < MaxProbes
    <3> DEFINE rounds == {j \in DOMAIN log : p \in log[j].about}
               before == {j \in 1..(i - 1) : p \in turns'[j].about}
    <3>1. before = rounds
      BY <2>3, <2>6
    <3>2. Cardinality(rounds) \in Nat
      <4>1. IsFiniteSet(DOMAIN log)
        BY <2>3, FS_Interval
      <4>2. rounds \subseteq DOMAIN log
        OBVIOUS
      <4> QED
        BY <4>1, <4>2, FS_Subset, FS_CardinalityType
    <3>3. ~(Cardinality(rounds) >= MaxProbes)
      BY <2>7 DEF Exhausted
    <3> HIDE DEF rounds, before
    <3>4. Cardinality(before) < MaxProbes
      BY <3>1, <3>2, <3>3, StopAssumption
    <3> QED
      BY <3>4 DEF before
  <2> QED
    BY <2>4, <2>6, <2>7
<1>5. CASE IngestRemote(w)
  <2>1. PICK e \in Turn : turns' = Append(turns, e) /\ e.source = "remote"
    BY <1>1, <1>5, IngestAppends DEF Appends
  <2> QED
    BY <1>1, <1>2, <2>1
<1>6. CASE Start(w)
  <2>1. turns' = WithSystemTurn(turns, <<"opening", 0>>, {})
    BY <1>6 DEF Start
  <2>2. turns'[i].about = {}
    BY <1>1, <1>2, <2>1, QuestionAfter
  <2> QED
    BY <2>2
<1> QED
  BY <1>3, <1>4, <1>5, <1>6

LEMMA SerialSticky ==
  ASSUME SerialInv, [Next]_vars, NEW p \in Practices,
         status = "interview_active", cov[p].state = "insufficient"
  PROVE  cov'[p].state \in {"insufficient", "sufficient"}
<1>1. TypeInv /\ TypeOK /\ cov \in [Practices -> Coverage]
  BY DEF SerialInv, TypeInv, TypeOK
<1>2. CASE cov' = cov
  BY <1>2
<1>3. ASSUME NEW w \in Workers, SubmitTurn(w)
      PROVE  cov'[p].state \in {"insufficient", "sufficient"}
  <2>1. req[w].seen.cov = cov
    BY <1>3 DEF SubmitTurn, Insertable, Idle, SerialInv, StillSo, ViewFor
  <2> QED
    BY <1>1, <1>3, <2>1, AnswerEffect
<1>4. ASSUME NEW w \in Workers, IngestRemote(w)
      PROVE  cov'[p].state \in {"insufficient", "sufficient"}
  <2>1. req[w].seen.cov = cov
    BY <1>4 DEF IngestRemote, Insertable, Idle, SerialInv, StillSo, ViewFor
  <2>2. PICK a \in Analyses :
          cov' = FlushCoverage(cov, cov, ApplyUpdates(cov, a.updates))
    BY <1>4, <2>1 DEF IngestRemote
  <2>3. PICK S \in SUBSET Practices : a \in Analysis(S)
    BY AnalysisAssumption
  <2>4. a.updates \in [S -> Coverage]
    BY <2>3 DEF Analysis
  <2>5. cov' = ApplyUpdates(cov, a.updates)
    BY <1>1, <2>2, <2>4, ApplyType, FlushNow
  <2> QED
    BY <1>1, <2>4, <2>5, ApplyState
<1>5. ASSUME NEW w \in Workers, Rescore(w) PROVE FALSE
  <2>1. req[w] # Idle /\ req[w].job.op \in {"review", "regenerate"}
    BY <1>5 DEF Rescore, Idle
  <2>2. Accepts(req[w].job)
    BY <2>1 DEF SerialInv, StillSo
  <2> QED
    BY <2>1, <2>2 DEF Accepts
<1>6. ASSUME NEW w \in Workers, ReopenTopic(w) PROVE FALSE
  <2>1. req[w] # Idle /\ req[w].job.op = "reopen"
    BY <1>6 DEF ReopenTopic, Idle
  <2>2. Accepts(req[w].job)
    BY <2>1 DEF SerialInv, StillSo
  <2> QED
    BY <2>1, <2>2 DEF Accepts
<1> QED
  BY <1>2, <1>3, <1>4, <1>5, <1>6 DEF Next, vars, Load, Sequence, Abort, Write,
     Start, Complete, Transition, SaveDraft

\* With one request at a time poor coverage is final while the interview lasts,
\* but for an answer that makes the practice sufficient.
THEOREM PoorCoverageStays ==
  ASSUME OneAtATime
  PROVE  Spec => InsufficientSticky
<1>1. SerialInv /\ [Next]_vars => SerialInv'
  BY SerialInvStep
<1>2. SerialInv /\ [Next]_vars =>
        [\A p \in Practices :
           status = "interview_active" /\ cov[p].state = "insufficient"
           => cov'[p].state \in {"insufficient", "sufficient"}]_vars
  BY SerialSticky
<1> QED
  BY <1>1, <1>2, SerialInvInit, PTL DEF Spec, InsufficientSticky

\* With one request at a time the system never asks about a practice it has
\* given up on.
THEOREM GivenUpForGood ==
  ASSUME OneAtATime
  PROVE  Spec => NeverReasks
<1>1. SerialInv /\ [Next]_vars => SerialInv'
  BY SerialInvStep
<1>2. SerialInv /\ [Next]_vars =>
        [\A i \in DOMAIN turns' \ DOMAIN turns :
           turns'[i].source = "system" =>
             \A p \in turns'[i].about : cov'[p].state # "insufficient"]_vars
  BY SerialQuestions DEF NewQuestions
<1> QED
  BY <1>1, <1>2, SerialInvInit, PTL DEF Spec, NeverReasks

\* With one request at a time nobody is followed up on one practice for more
\* rounds than the configuration allows.
THEOREM RoundsLimited ==
  ASSUME OneAtATime
  PROVE  Spec => FollowUpsLimited
<1>1. SerialInv /\ [Next]_vars => SerialInv'
  BY SerialInvStep
<1>2. SerialInv /\ [Next]_vars =>
        [\A i \in DOMAIN turns' \ DOMAIN turns :
         \A p \in Practices \ UNION OpenClusters :
           /\ turns'[i].source = "system" /\ turns'[i].about = {p}
           /\ cov'[p].state # "not_discussed"
           => Cardinality({j \in 1..(i - 1) : p \in turns'[j].about})
                < MaxProbes]_vars
  BY SerialQuestions DEF NewQuestions
<1> QED
  BY <1>1, <1>2, SerialInvInit, PTL DEF Spec, FollowUpsLimited

=============================================================================
