----------------------------- MODULE ReviewProofs -----------------------------
(***************************************************************************)
(* What holds of the review and the publication for any practices, scores, *)
(* administrators and numbers of scorings and versions.                    *)
(***************************************************************************)
EXTENDS Review, TLAPS

-----------------------------------------------------------------------------
(* The inductive invariant *)

\* What a request has loaded stays true enough of the database.
Known(w) ==
  LET job == req[w].job
      seen == req[w].seen
  IN req[w] # Idle =>
       /\ seen.at <= Len(reviews)
       /\ \A p \in Practices : seen.cov[p].final # None => cov[p].final # None
       /\ job.op = "score" /\ job.score = None
            => seen.cov[job.practice].ai # None
       /\ job.op \in {"approve", "publish"} => Complete(seen.cov)
       /\ job.op = "publish" => seen.at > 0
       /\ req[w].phase \notin {"loaded", "entered"} => job.op = "publish"

\* Requests that have flushed rows hold the lock.
Held(w) ==
  req[w] # Idle /\ req[w].phase \notin {"loaded", "numbered"} => lock = w

\* A publication that has inserted its row is the next one to be put on the shelf.
Writing(w) == req[w] # Idle /\ req[w].phase \in {"inserted", "written", "exported"}
Numbered(w) ==
  /\ req[w] # Idle /\ req[w].phase = "numbered"
       => req[w].version \in 1..(Len(reports) + 1) /\ req[w].version \in Versions
  /\ Writing(w) => req[w].version = Len(reports) + 1 /\ req[w].version \in Versions
  /\ Writing(w) /\ req[w].phase # "inserted"
       => files[req[w].version].json = ContentOf(req[w].seen)
  /\ Writing(w) /\ req[w].phase = "exported"
       => files[req[w].version].pdf = ContentOf(req[w].seen)

Shelved == reports \in Seq(Content) /\ Len(reports) <= MaxVersions

Requests == \A w \in Workers : Known(w) /\ Held(w) /\ Numbered(w)
TypeInv == TypeOK /\ Shelved /\ Requests

-----------------------------------------------------------------------------
(* Types of the parts *)

LEMMA InFlight ==
  ASSUME TypeOK, NEW w \in Workers, req[w] # Idle
  PROVE  /\ req[w] \in Request
         /\ req[w].job \in Job /\ req[w].seen \in View /\ req[w].version \in Nat
         /\ req[w].seen.cov \in [Practices -> Rating]
         /\ req[w].seen.row \in Row /\ req[w].seen.at \in Nat
         /\ req[w].seen.actions \subseteq Action
<1>1. req[w] \in Request
  BY DEF TypeOK
<1>2. req[w].job \in Job /\ req[w].seen \in View /\ req[w].version \in Nat
  BY <1>1 DEF Request
<1> QED
  BY <1>1, <1>2 DEF View

LEMMA ScoreJob ==
  ASSUME NEW job \in Job, job.op = "score"
  PROVE  job.practice \in Practices /\ job.score \in Score
BY DEF Job

LEMMA MoveJob ==
  ASSUME NEW job \in Job, job.op = "transition"
  PROVE  job.to \in Statuses
BY DEF Job

LEMMA EmptyRowType == EmptyRow \in Row
BY DEF EmptyRow, Row

LEMMA LatestType ==
  ASSUME TypeOK
  PROVE  Latest \in Row
<1>1. reviews \in Seq(Row)
  BY DEF TypeOK
<1>2. CASE reviews = <<>>
  BY <1>2, EmptyRowType DEF Latest
<1>3. CASE reviews # <<>>
  BY <1>1, <1>3 DEF Latest
<1> QED
  BY <1>2, <1>3

LEMMA StandingType ==
  ASSUME NEW c \in [Practices -> Rating]
  PROVE  /\ Standing(c) \in Sheet
         /\ Complete(c) => Standing(c) \in [Practices -> Scores]
<1>1. \A p \in Practices : c[p].final \in Score /\ c[p].ai \in Score
  BY DEF Rating
<1>2. Standing(c) \in Sheet
  BY <1>1 DEF Standing, Sheet
<1>3. ASSUME Complete(c)
      PROVE  Standing(c) \in [Practices -> Scores]
  <2>1. \A p \in Practices : Standing(c)[p] # None
    BY <1>3 DEF Complete
  <2> QED
    BY <1>2, <2>1 DEF Sheet, Score
<1> QED
  BY <1>2, <1>3

\* A complete sheet makes a report.
LEMMA ContentType ==
  ASSUME NEW seen \in View, Complete(seen.cov)
  PROVE  ContentOf(seen) \in Content /\ DetailOf(seen) \in Sheet
<1>1. /\ seen.cov \in [Practices -> Rating] /\ seen.row \in Row
      /\ seen.actions \subseteq Action
  BY DEF View
<1>2. /\ seen.row.overall \in Nat
      /\ seen.row.draft \in {None} \cup Sheet
  BY <1>1 DEF Row
<1>3. DetailOf(seen) \in Sheet
  BY <1>1, <1>2, StandingType DEF DetailOf
<1>4. {a.scoring : a \in seen.actions} \subseteq Nat
  BY <1>1 DEF Action
<1> QED
  BY <1>1, <1>2, <1>3, <1>4, StandingType DEF ContentOf, Content

\* A row of the review table is updated in place or appended.
LEMMA RowsType ==
  ASSUME NEW s \in Seq(Row), NEW r \in Row, NEW i \in Nat, i <= Len(s)
  PROVE  /\ i = 0 => /\ Append(s, r) \in Seq(Row)
                     /\ Len(Append(s, r)) = Len(s) + 1
                     /\ \A j \in 1..Len(s) : Append(s, r)[j] = s[j]
                     /\ Append(s, r)[Len(s) + 1] = r
         /\ i # 0 => /\ [s EXCEPT ![i] = r] \in Seq(Row)
                     /\ Len([s EXCEPT ![i] = r]) = Len(s)
                     /\ \A j \in 1..Len(s) :
                          [s EXCEPT ![i] = r][j] = IF j = i THEN r ELSE s[j]
<1>1. ASSUME i # 0
      PROVE  /\ [s EXCEPT ![i] = r] \in Seq(Row)
             /\ Len([s EXCEPT ![i] = r]) = Len(s)
             /\ \A j \in 1..Len(s) :
                  [s EXCEPT ![i] = r][j] = IF j = i THEN r ELSE s[j]
  BY <1>1
<1>2. ASSUME i = 0
      PROVE  /\ Append(s, r) \in Seq(Row)
             /\ Len(Append(s, r)) = Len(s) + 1
             /\ \A j \in 1..Len(s) : Append(s, r)[j] = s[j]
             /\ Append(s, r)[Len(s) + 1] = r
  OBVIOUS
<1> QED
  BY <1>1, <1>2

-----------------------------------------------------------------------------
(* What each action does to the rows *)

\* Review rows are never removed and final scores never unset.
Grows ==
  /\ Len(reviews) <= Len(reviews')
  /\ \A p \in Practices : cov[p].final # None => cov'[p].final # None

\* An action that keeps the review sound: types, growth and readiness.
Sound == TypeOK' /\ Grows /\ (ReadyComplete => ReadyComplete')

LEMMA FinishType ==
  ASSUME TypeOK, NEW w \in Workers, Finish(w)
  PROVE  req' \in [Workers -> Request \cup {Idle}]
BY DEF TypeOK, Finish

LEMMA LoadSound ==
  ASSUME TypeOK, NEW w \in Workers, Load(w)
  PROVE  Sound
<1>1. PICK job \in JobsOf[w] :
        req' = [req EXCEPT ![w] =
                  [phase |-> "loaded", job |-> job, version |-> 0,
                   seen |-> [status |-> status, cov |-> cov,
                             at |-> Len(reviews), row |-> Latest,
                             actions |-> actions]]]
  BY DEF Load
<1>2. job \in Job
  BY JobAssumption
<1>3. [status |-> status, cov |-> cov, at |-> Len(reviews), row |-> Latest,
       actions |-> actions] \in View
  BY LatestType DEF TypeOK, View
<1>4. req' \in [Workers -> Request \cup {Idle}]
  BY <1>1, <1>2, <1>3 DEF TypeOK, Request, Phases
<1>5. UNCHANGED <<data, files, lock>>
  BY DEF Load
<1>6. TypeOK'
  BY <1>4, <1>5 DEF TypeOK, data
<1>7. Grows
  BY <1>5 DEF Grows, data, TypeOK
<1>8. ReadyComplete => ReadyComplete'
  BY <1>5 DEF ReadyComplete, data
<1> QED
  BY <1>6, <1>7, <1>8 DEF Sound

\* Actions that leave the committed rows alone.
LEMMA DataKept ==
  ASSUME TypeOK, UNCHANGED data,
         files' \in [Versions -> [json : File, pdf : File]],
         lock' \in Workers \cup {None},
         req' \in [Workers -> Request \cup {Idle}]
  PROVE  Sound
<1>1. TypeOK'
  BY DEF TypeOK, data
<1>2. Grows
  BY DEF Grows, data, TypeOK
<1>3. ReadyComplete => ReadyComplete'
  BY DEF ReadyComplete, data
<1> QED
  BY <1>1, <1>2, <1>3 DEF Sound

LEMMA PhaseType ==
  ASSUME TypeOK, NEW w \in Workers, req[w] # Idle, NEW phase \in Phases
  PROVE  [req EXCEPT ![w].phase = phase] \in [Workers -> Request \cup {Idle}]
<1>1. req[w] \in Request
  BY InFlight
<1>2. [req[w] EXCEPT !.phase = phase] \in Request
  BY <1>1 DEF Request
<1> QED
  BY <1>2 DEF TypeOK

LEMMA AbortSound ==
  ASSUME TypeOK, NEW w \in Workers, Abort(w)
  PROVE  Sound
<1>1. req' \in [Workers -> Request \cup {Idle}]
  BY DEF Abort, TypeOK
<1> QED
  BY <1>1, DataKept DEF Abort, TypeOK

LEMMA EnterSound ==
  ASSUME TypeOK, NEW w \in Workers, Enter(w)
  PROVE  Sound
<1>1. req' \in [Workers -> Request \cup {Idle}]
  BY PhaseType DEF Enter, Serves, Phases
<1> QED
  BY <1>1, DataKept DEF Enter, TypeOK

LEMMA AdjustSound ==
  ASSUME TypeInv, NEW w \in Workers, AdjustScore(w)
  PROVE  Sound
<1> DEFINE p == req[w].job.practice
           old == req[w].seen.cov[p]
           score == IF req[w].job.score = None THEN old.ai
                                               ELSE req[w].job.score
<1>1. /\ req[w] # Idle /\ req[w].job.op = "score"
      /\ cov' = [cov EXCEPT ![p].final = Put(@, old.final, score)]
      /\ Finish(w)
      /\ UNCHANGED <<status, actions, reviews, reports, files, lock, scorings,
                     approved>>
  BY DEF AdjustScore, Serves
<1>2. TypeOK /\ Known(w)
  BY DEF TypeInv, Requests
<1>3. /\ p \in Practices /\ req[w].job.score \in Score
      /\ old \in Rating
  BY <1>1, <1>2, InFlight, ScoreJob
<1>4. score \in Score
  BY <1>3 DEF Rating
<1>5. score # None
  BY <1>1, <1>2 DEF Known
<1>6. old.final # None => cov[p].final # None
  BY <1>1, <1>2, <1>3 DEF Known
<1>7. cov[p] \in Rating
  BY <1>2, <1>3 DEF TypeOK
<1>8. Put(cov[p].final, old.final, score) \in Score
  BY <1>3, <1>4, <1>7 DEF Put, Rating
<1>9. Put(cov[p].final, old.final, score) # None
  BY <1>5, <1>6 DEF Put
<1> DEFINE final == Put(cov[p].final, old.final, score)
<1>10. /\ cov' = [cov EXCEPT ![p] = [cov[p] EXCEPT !.final = final]]
       /\ cov \in [Practices -> Rating]
  BY <1>1, <1>2, <1>3 DEF TypeOK
<1> HIDE DEF final, p, score
<1>11. [cov[p] EXCEPT !.final = final] \in Rating
  BY <1>7, <1>8 DEF Rating, final
<1>12. cov' \in [Practices -> Rating]
  BY <1>10, <1>11
<1>13. \A q \in Practices : cov[q].final # None => cov'[q].final # None
  BY <1>3, <1>7, <1>9, <1>10 DEF Rating, final
<1>14. TypeOK'
  BY <1>1, <1>2, <1>12, FinishType DEF TypeOK
<1>15. Grows
  BY <1>1, <1>2, <1>13 DEF Grows, TypeOK
<1>16. ReadyComplete => ReadyComplete'
  BY <1>1, <1>13 DEF ReadyComplete
<1> QED
  BY <1>14, <1>15, <1>16 DEF Sound

LEMMA MoveSound ==
  ASSUME TypeOK, NEW w \in Workers, Move(w)
  PROVE  Sound
<1>1. req[w] # Idle /\ req[w].job \in Job
  BY InFlight DEF Move, Serves
<1>2. status' \in Statuses
  BY <1>1, MoveJob DEF Move, Serves, Statuses
<1>3. TypeOK'
  BY <1>2, FinishType DEF Move, TypeOK
<1>4. Grows
  BY DEF Move, Grows, TypeOK
<1>5. ReadyComplete => ReadyComplete'
  BY DEF Move, ReadyComplete
<1> QED
  BY <1>3, <1>4, <1>5 DEF Sound

LEMMA ApproveSound ==
  ASSUME TypeInv, NEW w \in Workers, Approve(w)
  PROVE  Sound
<1> DEFINE seen == req[w].seen
           filled(p) == Put(cov[p].final, seen.cov[p].final, seen.cov[p].ai)
           row == IF seen.at = 0 THEN [EmptyRow EXCEPT !.ready = TRUE]
                  ELSE [reviews[seen.at] EXCEPT
                          !.ready = Put(@, seen.row.ready, TRUE)]
<1>1. /\ req[w] # Idle /\ req[w].job.op = "approve"
      /\ cov' = [p \in Practices |->
                   IF Fills(seen.cov[p])
                   THEN [cov[p] EXCEPT !.final = filled(p)]
                   ELSE cov[p]]
      /\ approved' = approved \cup {seen.row.overall}
      /\ Finish(w)
      /\ UNCHANGED <<status, actions, reports, files, lock, scorings>>
  BY DEF Approve, Serves
<1>2. /\ TypeOK /\ Known(w)
      /\ cov \in [Practices -> Rating] /\ reviews \in Seq(Row)
      /\ approved \subseteq Nat
  BY DEF TypeInv, Requests, TypeOK
<1>3. /\ seen \in View /\ seen.cov \in [Practices -> Rating]
      /\ seen.row \in Row /\ seen.at \in Nat /\ seen.at <= Len(reviews)
      /\ Complete(seen.cov)
  BY <1>1, <1>2, InFlight DEF Known
<1>4. ASSUME NEW p \in Practices
      PROVE  cov'[p] \in Rating /\ cov'[p].final # None
  <2>1. /\ cov[p] \in Rating /\ seen.cov[p] \in Rating
        /\ cov[p].final \in Score
        /\ seen.cov[p].final \in Score /\ seen.cov[p].ai \in Score
    BY <1>2, <1>3 DEF Rating
  <2>2. CASE Fills(seen.cov[p])
    <3>1. seen.cov[p].final = None
      BY <2>2 DEF Fills
    <3>2. seen.cov[p].ai # None
      BY <1>3, <3>1 DEF Complete, Standing
    <3>3. filled(p) = seen.cov[p].ai
      BY <3>1, <3>2 DEF Put
    <3>4. cov'[p] = [cov[p] EXCEPT !.final = filled(p)]
      BY <1>1, <2>2
    <3> QED
      BY <2>1, <3>2, <3>3, <3>4 DEF Rating
  <2>3. CASE ~Fills(seen.cov[p])
    <3>1. cov'[p] = cov[p]
      BY <1>1, <2>3
    <3>2. cov[p].final # None
      BY <1>1, <1>2, <2>3 DEF Known, Fills
    <3> QED
      BY <2>1, <3>1, <3>2
  <2> QED
    BY <2>2, <2>3
<1>5. cov' \in [Practices -> Rating]
  BY <1>1, <1>4
<1>6. row \in Row
  <2>1. CASE seen.at = 0
    BY <2>1 DEF EmptyRow, Row
  <2>2. CASE seen.at # 0
    <3>1. reviews[seen.at] \in Row
      BY <1>2, <1>3, <2>2
    <3> QED
      BY <2>2, <3>1 DEF Row, Put
  <2> QED
    BY <2>1, <2>2
<1>7. reviews' = IF seen.at = 0 THEN Append(reviews, row)
                 ELSE [reviews EXCEPT ![seen.at] = row]
  BY <1>2, <1>3 DEF Approve
<1> HIDE DEF row
<1>8. reviews' \in Seq(Row) /\ Len(reviews) <= Len(reviews')
  BY <1>2, <1>3, <1>6, <1>7, RowsType
<1>9. approved' \subseteq Nat
  BY <1>1, <1>2, <1>3 DEF Row
<1>10. TypeOK'
  BY <1>1, <1>2, <1>5, <1>8, <1>9, FinishType DEF TypeOK
<1>11. Grows
  BY <1>4, <1>8 DEF Grows
<1>12. ReadyComplete'
  BY <1>4 DEF ReadyComplete
<1> QED
  BY <1>10, <1>11, <1>12 DEF Sound

\* Rewriting a review row without making it ready.
LEMMA RowKept ==
  ASSUME NEW s \in Seq(Row), NEW i \in Nat, i <= Len(s), NEW r \in Row,
         r.ready => i # 0 /\ s[i].ready,
         NEW t, t = IF i = 0 THEN Append(s, r) ELSE [s EXCEPT ![i] = r]
  PROVE  /\ t \in Seq(Row) /\ Len(s) <= Len(t)
         /\ \A j \in DOMAIN t : t[j].ready
              => \E k \in DOMAIN s : s[k].ready
<1>1. CASE i = 0
  <2>1. t = Append(s, r) /\ ~r.ready
    BY <1>1
  <2> QED
    BY <2>1
<1>2. CASE i # 0
  <2>1. t = [s EXCEPT ![i] = r] /\ i \in DOMAIN s
    BY <1>2
  <2> QED
    BY <2>1
<1> QED
  BY <1>1, <1>2

LEMMA SaveSound ==
  ASSUME TypeInv, NEW w \in Workers, SaveDetail(w)
  PROVE  Sound
<1> DEFINE seen == req[w].seen
           draft == Standing(seen.cov)
           row == IF seen.at = 0 THEN [EmptyRow EXCEPT !.draft = draft]
                  ELSE [reviews[seen.at] EXCEPT !.draft = draft]
<1>1. /\ req[w] # Idle
      /\ Finish(w)
      /\ UNCHANGED <<status, cov, actions, reports, files, lock, scorings,
                     approved>>
  BY DEF SaveDetail, Serves
<1>2. TypeOK /\ Known(w) /\ reviews \in Seq(Row)
  BY DEF TypeInv, Requests, TypeOK
<1>3. /\ seen.cov \in [Practices -> Rating] /\ seen.at \in Nat
      /\ seen.at <= Len(reviews)
  BY <1>1, <1>2, InFlight DEF Known
<1>4. draft \in Sheet
  BY <1>3, StandingType
<1>5. reviews' = IF seen.at = 0 THEN Append(reviews, row)
                 ELSE [reviews EXCEPT ![seen.at] = row]
  BY <1>2, <1>3 DEF SaveDetail
<1> HIDE DEF draft
<1>6. row \in Row /\ (row.ready => seen.at # 0 /\ reviews[seen.at].ready)
  <2>1. CASE seen.at = 0
    BY <1>4, <2>1 DEF EmptyRow, Row
  <2>2. CASE seen.at # 0
    <3>1. reviews[seen.at] \in Row
      BY <1>2, <1>3, <2>2
    <3> QED
      BY <1>4, <2>2, <3>1 DEF Row
  <2> QED
    BY <2>1, <2>2
<1> HIDE DEF row
<1>7. /\ reviews' \in Seq(Row) /\ Len(reviews) <= Len(reviews')
      /\ \A j \in DOMAIN reviews' : reviews'[j].ready
           => \E k \in DOMAIN reviews : reviews[k].ready
  BY <1>2, <1>3, <1>5, <1>6, RowKept
<1>8. TypeOK'
  BY <1>1, <1>2, <1>7, FinishType DEF TypeOK
<1>9. Grows /\ (ReadyComplete => ReadyComplete')
  BY <1>1, <1>7 DEF Grows, ReadyComplete
<1> QED
  BY <1>8, <1>9 DEF Sound

LEMMA RescoreSound ==
  ASSUME TypeInv, NEW w \in Workers, Rescore(w)
  PROVE  Sound
<1> DEFINE seen == req[w].seen
           k == scorings + 1
           last == Len(reviews)
           loaded == IF last = seen.at THEN seen.row ELSE Latest
           row == [Latest EXCEPT !.overall = k,
                                 !.ready = Withdraw(@, loaded.ready)]
<1>1. /\ req[w] # Idle
      /\ reviews' = Update(last, row)
      /\ status' = Put(status, seen.status, "admin_review")
      /\ scorings' = k
      /\ Finish(w)
      /\ lock' = None
      /\ UNCHANGED <<reports, files, approved>>
  BY DEF Rescore, MayScore, Serves
<1>2. /\ TypeOK /\ Known(w) /\ reviews \in Seq(Row) /\ scorings \in Nat
      /\ cov \in [Practices -> Rating] /\ status \in Statuses
      /\ actions \subseteq Action
  BY DEF TypeInv, Requests, TypeOK
<1>3. /\ seen \in View /\ seen.cov \in [Practices -> Rating]
      /\ seen.row \in Row /\ seen.at \in Nat /\ Latest \in Row
  BY <1>1, <1>2, InFlight, LatestType
<1>4. status' \in Statuses
  BY <1>1, <1>2 DEF Put, Statuses
<1>5. PICK r \in Scorings :
        cov' = [p \in Practices |->
                  IF p \in DOMAIN r
                  THEN [Rescored(cov[p]) EXCEPT
                          !.ai = Put(@, seen.cov[p].ai, r[p])]
                  ELSE cov[p]]
  BY DEF Rescore
<1>6. PICK S \in SUBSET Practices : r \in [S -> Scores]
  BY ScoringAssumption
<1>7. ASSUME NEW p \in Practices
      PROVE  cov'[p] \in Rating /\ cov'[p].final = cov[p].final
  <2>1. cov[p] \in Rating /\ seen.cov[p] \in Rating
    BY <1>2, <1>3
  <2>2. CASE p \in DOMAIN r
    <3>1. r[p] \in Score
      BY <1>6, <2>2 DEF Score
    <3>2. cov'[p] = [cov[p] EXCEPT !.ai = Put(@, seen.cov[p].ai, r[p])]
      BY <1>5, <2>2 DEF Rescored
    <3> QED
      BY <2>1, <3>1, <3>2 DEF Rating, Put
  <2>3. CASE p \notin DOMAIN r
    <3>1. cov'[p] = cov[p]
      BY <1>5, <2>3
    <3> QED
      BY <2>1, <3>1
  <2> QED
    BY <2>2, <2>3
<1>8. cov' \in [Practices -> Rating]
  BY <1>5, <1>7
<1>9. PICK new \in {{}, {[scoring |-> k, published |-> FALSE]}} :
        actions' = {a \in actions :
                      \A b \in seen.actions :
                        ~b.published => a.scoring # b.scoring} \cup new
  BY DEF Rescore
<1>10. k \in Nat /\ new \subseteq Action
  <2>1. k \in Nat
    BY <1>2
  <2>2. [scoring |-> k, published |-> FALSE] \in Action
    BY <2>1 DEF Action
  <2> QED
    BY <2>1, <2>2, <1>9
<1>11. actions' \subseteq Action
  BY <1>2, <1>9, <1>10
<1>12. row \in Row /\ (row.ready => last # 0 /\ reviews[last].ready)
  <2>1. loaded.ready \in BOOLEAN
    BY <1>3 DEF Row
  <2>2. row \in Row /\ (row.ready => Latest.ready)
    <3> HIDE DEF loaded, k
    <3> QED
      BY <1>3, <1>10, <2>1 DEF Row, Withdraw, Put
  <2>3. Latest.ready => last # 0 /\ reviews[last].ready
    BY <1>2 DEF Latest, EmptyRow
  <2> QED
    BY <2>2, <2>3
<1> HIDE DEF row
<1>13. reviews' = IF last = 0 THEN Append(reviews, row)
                  ELSE [reviews EXCEPT ![last] = row]
  BY <1>1 DEF Update
<1>14. /\ reviews' \in Seq(Row) /\ Len(reviews) <= Len(reviews')
       /\ \A j \in DOMAIN reviews' : reviews'[j].ready
            => \E i \in DOMAIN reviews : reviews[i].ready
  <2>1. last \in Nat /\ last <= Len(reviews)
    BY <1>2
  <2> HIDE DEF last
  <2> QED
    BY <1>2, <1>12, <1>13, <2>1, RowKept
<1>15. TypeOK'
  BY <1>1, <1>2, <1>4, <1>8, <1>10, <1>11, <1>14, FinishType DEF TypeOK
<1>16. Grows /\ (ReadyComplete => ReadyComplete')
  BY <1>7, <1>14 DEF Grows, ReadyComplete
<1> QED
  BY <1>15, <1>16 DEF Sound

-----------------------------------------------------------------------------
(* Publication *)

LEMMA PublishJob ==
  ASSUME TypeInv, NEW w \in Workers, req[w] # Idle, req[w].job.op = "publish"
  PROVE  /\ req[w].seen \in View /\ ContentOf(req[w].seen) \in Content
         /\ DetailOf(req[w].seen) \in Sheet
         /\ req[w].seen.at \in 1..Len(reviews)
<1>1. TypeOK /\ Known(w) /\ reviews \in Seq(Row)
  BY DEF TypeInv, Requests, TypeOK
<1>2. req[w].seen \in View /\ req[w].seen.at \in Nat
  BY <1>1, InFlight
<1>3. Complete(req[w].seen.cov)
  BY <1>1 DEF Known
<1>4. req[w].seen.at \in 1..Len(reviews)
  BY <1>1, <1>2 DEF Known
<1> QED
  BY <1>2, <1>3, <1>4, ContentType

LEMMA GoesType ==
  ASSUME TypeOK, NEW w \in Workers, NEW phase \in Phases, req[w] # Idle,
         Goes(w, phase)
  PROVE  req' \in [Workers -> Request \cup {Idle}]
BY PhaseType DEF Goes

LEMMA DraftSound ==
  ASSUME TypeOK, NEW w \in Workers, DraftDetail(w)
  PROVE  Sound
<1>1. req' \in [Workers -> Request \cup {Idle}]
  BY GoesType DEF DraftDetail, Publishes, Phases
<1> QED
  BY <1>1, DataKept DEF DraftDetail, TypeOK

\* The next version follows those on the shelf.
LEMMA NextIsLength ==
  ASSUME Shelved
  PROVE  NextVersion = Len(reports) + 1
<1> DEFINE n == Len(reports)
<1>1. n \in Nat /\ DOMAIN reports = 1..n
  BY DEF Shelved
<1> HIDE DEF n
<1>2. CASE n = 0
  BY <1>1, <1>2 DEF NextVersion, n
<1>3. CASE n # 0
  <2>1. n \in 1..n /\ \A y \in 1..n : n >= y
    BY <1>1, <1>3
  <2>2. \A x \in 1..n : (\A y \in 1..n : x >= y) => x = n
    BY <1>1, <1>3
  <2>3. Max(1..n) = n
    BY <2>1, <2>2 DEF Max
  <2>4. 1..n # {}
    BY <2>1
  <2> QED
    BY <1>1, <2>3, <2>4 DEF NextVersion, n
<1> QED
  BY <1>2, <1>3

LEMMA NumberSound ==
  ASSUME TypeInv, NEW w \in Workers, Number(w)
  PROVE  Sound
<1>1. TypeOK /\ Shelved /\ req[w] # Idle
  BY DEF Number, Publishes, TypeInv
<1>2. NextVersion \in Nat
  BY <1>1, NextIsLength DEF Shelved
<1>3. req[w] \in Request
  BY <1>1, InFlight
<1>4. [req[w] EXCEPT !.phase = "numbered", !.version = NextVersion] \in Request
  BY <1>2, <1>3 DEF Request, Phases
<1>5. req' = [req EXCEPT ![w] =
                [req[w] EXCEPT !.phase = "numbered", !.version = NextVersion]]
  BY <1>1 DEF Number, TypeOK
<1>6. req' \in [Workers -> Request \cup {Idle}]
  BY <1>1, <1>4, <1>5 DEF TypeOK
<1> QED
  BY <1>1, <1>6, DataKept DEF Number, TypeOK

LEMMA InsertSound ==
  ASSUME TypeOK, NEW w \in Workers, Insert(w)
  PROVE  Sound
<1>1. req' \in [Workers -> Request \cup {Idle}]
  BY GoesType DEF Insert, Publishes, Phases
<1> QED
  BY <1>1, DataKept DEF Insert, Locks, TypeOK

LEMMA ExportJsonSound ==
  ASSUME TypeInv, NEW w \in Workers, ExportJson(w)
  PROVE  Sound
<1>1. TypeOK /\ req[w] # Idle /\ req[w].job.op = "publish"
  BY DEF ExportJson, Publishes, TypeInv
<1>2. ContentOf(req[w].seen) \in File
  BY <1>1, PublishJob DEF File
<1>3. files \in [Versions -> [json : File, pdf : File]]
  BY <1>1 DEF TypeOK
<1>4. files' \in [Versions -> [json : File, pdf : File]]
  BY <1>2, <1>3 DEF ExportJson
<1>5. req' \in [Workers -> Request \cup {Idle}]
  BY <1>1, GoesType DEF ExportJson, Phases
<1> QED
  BY <1>1, <1>4, <1>5, DataKept DEF ExportJson, TypeOK

LEMMA ExportPdfSound ==
  ASSUME TypeInv, NEW w \in Workers, ExportPdf(w)
  PROVE  Sound
<1>1. TypeOK /\ req[w] # Idle /\ req[w].job.op = "publish"
  BY DEF ExportPdf, Publishes, TypeInv
<1>2. ContentOf(req[w].seen) \in File
  BY <1>1, PublishJob DEF File
<1>3. files \in [Versions -> [json : File, pdf : File]]
  BY <1>1 DEF TypeOK
<1>4. files' \in [Versions -> [json : File, pdf : File]]
  BY <1>2, <1>3 DEF ExportPdf
<1>5. req' \in [Workers -> Request \cup {Idle}]
  BY <1>1, GoesType DEF ExportPdf, Phases
<1> QED
  BY <1>1, <1>4, <1>5, DataKept DEF ExportPdf, TypeOK

\* A publication puts its report at the end of the shelf.
LEMMA CommitAppends ==
  ASSUME TypeInv, NEW w \in Workers, Commit(w)
  PROVE  /\ req[w].version = Len(reports) + 1
         /\ req[w].version \in Versions
         /\ reports' = Append(reports, ContentOf(req[w].seen))
         /\ reports' \in Seq(Content)
         /\ Len(reports') = Len(reports) + 1
<1> DEFINE v == req[w].version
           content == ContentOf(req[w].seen)
<1>1. /\ req[w] # Idle /\ req[w].job.op = "publish"
      /\ req[w].phase = "exported"
      /\ reports' = [n \in DOMAIN reports \cup {v} |->
                       IF n = v THEN content ELSE reports[n]]
  BY DEF Commit, Publishes
<1>2. v = Len(reports) + 1 /\ v \in Versions
  BY <1>1 DEF TypeInv, Requests, Numbered, Writing
<1>3. content \in Content /\ reports \in Seq(Content)
  BY <1>1, PublishJob DEF TypeInv, Shelved
<1> HIDE DEF content
<1>4. DOMAIN reports \cup {v} = 1..(Len(reports) + 1)
  BY <1>2, <1>3
<1>5. reports' = [n \in 1..(Len(reports) + 1) |->
                    IF n = Len(reports) + 1 THEN content ELSE reports[n]]
  BY <1>1, <1>2, <1>4
<1>6. reports' = Append(reports, content)
  <2> DEFINE longer == Append(reports, content)
  <2>1. /\ longer \in Seq(Content) /\ Len(longer) = Len(reports) + 1
        /\ longer[Len(reports) + 1] = content
        /\ \A n \in 1..Len(reports) : longer[n] = reports[n]
    BY <1>3
  <2> HIDE DEF longer
  <2>2. longer = [n \in 1..(Len(reports) + 1) |-> longer[n]]
    <3>1. DOMAIN longer = 1..Len(longer)
      BY <2>1
    <3>2. longer = [n \in DOMAIN longer |-> longer[n]]
      BY <2>1
    <3> QED
      BY <2>1, <3>1, <3>2
  <2>3. \A n \in 1..(Len(reports) + 1) :
          longer[n] = IF n = Len(reports) + 1 THEN content ELSE reports[n]
    BY <1>3, <2>1
  <2>4. longer = reports'
    BY <1>5, <2>2, <2>3
  <2> QED
    BY <2>4 DEF longer
<1>7. reports' \in Seq(Content) /\ Len(reports') = Len(reports) + 1
  BY <1>3, <1>6
<1> QED
  BY <1>2, <1>6, <1>7 DEF content

LEMMA CommitSound ==
  ASSUME TypeInv, NEW w \in Workers, Commit(w)
  PROVE  Sound
<1> DEFINE seen == req[w].seen
           marked == {a.scoring : a \in {b \in seen.actions : ~b.published}}
           row == [reviews[seen.at] EXCEPT !.draft = DetailOf(seen)]
<1>1. /\ req[w] # Idle /\ req[w].job.op = "publish"
      /\ status' = "published" /\ lock' = None /\ Finish(w)
      /\ UNCHANGED <<cov, files, scorings, approved>>
      /\ actions' = {[a EXCEPT !.published = @ \/ a.scoring \in marked] :
                       a \in actions}
      /\ reviews' = IF seen.row.draft # None THEN reviews
                    ELSE [reviews EXCEPT ![seen.at].draft = DetailOf(seen)]
  BY DEF Commit, Publishes
<1>2. TypeOK /\ reviews \in Seq(Row) /\ actions \subseteq Action
  BY DEF TypeInv, TypeOK
<1>3. seen.at \in 1..Len(reviews) /\ DetailOf(seen) \in Sheet
  BY <1>1, PublishJob
<1>4. actions' \subseteq Action
  BY <1>1, <1>2 DEF Action
<1>5. row \in Row /\ row.ready = reviews[seen.at].ready
  <2>1. reviews[seen.at] \in Row
    BY <1>2, <1>3
  <2> QED
    BY <1>3, <2>1 DEF Row
<1>6. reviews' = reviews \/ reviews' = [reviews EXCEPT ![seen.at] = row]
  BY <1>1
<1> HIDE DEF row
<1>7. /\ reviews' \in Seq(Row) /\ Len(reviews) <= Len(reviews')
      /\ \A j \in DOMAIN reviews' : reviews'[j].ready
           => \E k \in DOMAIN reviews : reviews[k].ready
  <2>1. CASE reviews' = reviews
    BY <1>2, <2>1
  <2>2. CASE reviews' = [reviews EXCEPT ![seen.at] = row]
    BY <1>2, <1>3, <1>5, <2>2, RowKept
  <2> QED
    BY <1>6, <2>1, <2>2
<1>8. /\ DOMAIN reports' \subseteq Versions
      /\ \A v \in DOMAIN reports' : reports'[v] \in Content
  <2>1. Len(reports) + 1 \in Versions /\ reports' \in Seq(Content)
        /\ Len(reports') = Len(reports) + 1
    BY CommitAppends
  <2>2. Len(reports) \in Nat /\ DOMAIN reports' = 1..(Len(reports) + 1)
    BY <2>1 DEF TypeInv, Shelved
  <2>3. \A v \in 1..(Len(reports) + 1) : v \in Versions
    BY <2>1, <2>2, BoundAssumption DEF Versions
  <2> QED
    BY <2>1, <2>2, <2>3
<1>9. TypeOK'
  BY <1>1, <1>2, <1>4, <1>7, <1>8, FinishType DEF TypeOK, Statuses
<1>10. Grows /\ (ReadyComplete => ReadyComplete')
  BY <1>1, <1>7 DEF Grows, ReadyComplete
<1> QED
  BY <1>9, <1>10 DEF Sound

LEMMA StepSound == TypeInv /\ [Next]_vars => Sound
<1> SUFFICES ASSUME TypeInv, [Next]_vars PROVE Sound
  OBVIOUS
<1>1. CASE UNCHANGED vars
  <2>1. TypeOK
    BY DEF TypeInv
  <2> QED
    BY <1>1, <2>1, DataKept DEF vars, data, TypeOK
<1>2. ASSUME NEW w \in Workers,
             \/ Load(w) \/ Abort(w)
             \/ Enter(w) \/ Rescore(w) \/ AdjustScore(w) \/ Approve(w)
             \/ SaveDetail(w) \/ Move(w)
             \/ DraftDetail(w) \/ Number(w) \/ Insert(w)
             \/ ExportJson(w) \/ ExportPdf(w) \/ Commit(w)
      PROVE  Sound
  <2>1. TypeOK
    BY DEF TypeInv
  <2> QED
    BY <1>2, <2>1, LoadSound, AbortSound, EnterSound, RescoreSound, AdjustSound,
       ApproveSound, SaveSound, MoveSound, DraftSound, NumberSound, InsertSound,
       ExportJsonSound, ExportPdfSound, CommitSound
<1> QED
  BY <1>1, <1>2 DEF Next

-----------------------------------------------------------------------------
(* Requests *)

Acts(w) ==
  \/ Load(w) \/ Abort(w)
  \/ Enter(w) \/ Rescore(w) \/ AdjustScore(w) \/ Approve(w) \/ SaveDetail(w)
  \/ Move(w)
  \/ DraftDetail(w) \/ Number(w) \/ Insert(w)
  \/ ExportJson(w) \/ ExportPdf(w) \/ Commit(w)

\* A step of w leaves the other requests, and what they have locked, alone.
LEMMA OthersKept ==
  ASSUME TypeInv, NEW w \in Workers, Acts(w), NEW v \in Workers, v # w
  PROVE  /\ req'[v] = req[v]
         /\ lock = v => lock' = v /\ UNCHANGED <<reports, files>>
<1>1. v # None /\ w # None
  BY NullAssumption
<1>2. req \in [Workers -> Request \cup {Idle}] /\ Held(w)
  BY DEF TypeInv, TypeOK, Requests
<1>3. CASE Load(w)
  BY <1>2, <1>3 DEF Load, data
<1>4. CASE Abort(w)
  BY <1>2, <1>4 DEF Abort, data
<1>5. CASE Enter(w)
  BY <1>1, <1>2, <1>5 DEF Enter, Serves
<1>6. CASE Rescore(w)
  BY <1>1, <1>2, <1>6 DEF Rescore, MayScore, Serves, Held, Finish
<1>7. CASE AdjustScore(w) \/ Approve(w) \/ SaveDetail(w) \/ Move(w)
  BY <1>2, <1>7 DEF AdjustScore, Approve, SaveDetail, Move, Finish
<1>8. CASE DraftDetail(w)
  BY <1>1, <1>2, <1>8 DEF DraftDetail, Goes
<1>9. CASE Number(w)
  BY <1>2, <1>9 DEF Number, data
<1>10. CASE Insert(w)
  BY <1>1, <1>2, <1>10 DEF Insert, Locks, Goes
<1>11. CASE ExportJson(w) \/ ExportPdf(w)
  <2>1. lock = w
    BY <1>2, <1>11 DEF ExportJson, ExportPdf, Publishes, Held
  <2> QED
    BY <1>2, <1>11, <2>1 DEF ExportJson, ExportPdf, Goes
<1>12. CASE Commit(w)
  <2>1. lock = w
    BY <1>2, <1>12 DEF Commit, Publishes, Held
  <2> QED
    BY <1>2, <1>12, <2>1 DEF Commit, Finish
<1> QED
  BY <1>3, <1>4, <1>5, <1>6, <1>7, <1>8, <1>9, <1>10, <1>11, <1>12 DEF Acts

LEMMA ReportsGrow ==
  ASSUME TypeInv, NEW w \in Workers, Acts(w)
  PROVE  /\ reports' = reports \/ Commit(w)
         /\ Shelved' /\ Len(reports) <= Len(reports')
<1>1. reports' = reports \/ Commit(w)
  BY DEF Acts, Load, Abort, Enter, Rescore, AdjustScore, Approve, SaveDetail,
         Move, DraftDetail, Number, Insert, ExportJson, ExportPdf, data
<1>2. reports \in Seq(Content) /\ Len(reports) <= MaxVersions
  BY DEF TypeInv, Shelved
<1>3. CASE reports' = reports
  BY <1>2, <1>3 DEF Shelved
<1>4. CASE Commit(w)
  <2>1. /\ Len(reports) + 1 \in Versions /\ reports' \in Seq(Content)
        /\ Len(reports') = Len(reports) + 1
    BY <1>4, CommitAppends
  <2> QED
    BY <1>2, <1>4, <2>1, BoundAssumption DEF Shelved, Versions
<1> QED
  BY <1>1, <1>3, <1>4

\* A request goes on with the rows it has loaded.
GoesOn(w) ==
  /\ req[w] # Idle
  /\ req'[w].job = req[w].job /\ req'[w].seen = req[w].seen
  /\ req'[w].phase \notin {"loaded", "entered"} => req[w].job.op = "publish"

LEMMA KnownKept ==
  ASSUME TypeInv, Grows, TypeOK', NEW w \in Workers,
         req'[w] = req[w] \/ GoesOn(w)
  PROVE  Known(w)'
<1> SUFFICES ASSUME req'[w] # Idle PROVE Known(w)'
  BY DEF Known
<1>1. req[w] # Idle /\ Known(w) /\ TypeOK
  BY DEF GoesOn, TypeInv, Requests
<1>2. /\ req'[w].job = req[w].job /\ req'[w].seen = req[w].seen
      /\ req'[w].phase \notin {"loaded", "entered"} => req[w].job.op = "publish"
  BY <1>1 DEF GoesOn, Known
<1>3. /\ reviews \in Seq(Row) /\ reviews' \in Seq(Row)
      /\ req[w].seen.at \in Nat
  BY <1>1, InFlight DEF TypeOK
<1>4. req[w].seen.at <= Len(reviews')
  BY <1>1, <1>3 DEF Known, Grows
<1>5. \A p \in Practices : req[w].seen.cov[p].final # None => cov'[p].final # None
  BY <1>1 DEF Known, Grows
<1> QED
  BY <1>1, <1>2, <1>4, <1>5 DEF Known

LEMMA LoadKnown ==
  ASSUME TypeInv, NEW w \in Workers, Load(w)
  PROVE  Known(w)' /\ Held(w)' /\ Numbered(w)'
<1>1. PICK job \in JobsOf[w] :
        /\ Accepts(job)
        /\ req' = [req EXCEPT ![w] =
                  [phase |-> "loaded", job |-> job, version |-> 0,
                   seen |-> [status |-> status, cov |-> cov,
                             at |-> Len(reviews), row |-> Latest,
                             actions |-> actions]]]
  BY DEF Load
<1>2. /\ req \in [Workers -> Request \cup {Idle}] /\ reviews \in Seq(Row)
      /\ UNCHANGED <<cov, reviews>>
  BY DEF Load, TypeInv, TypeOK, data
<1>3. /\ req'[w].job = job /\ req'[w].phase = "loaded"
      /\ req'[w].seen.cov = cov /\ req'[w].seen.at = Len(reviews)
  BY <1>1, <1>2
<1>4. job.op = "score" /\ job.score = None => cov[job.practice].ai # None
  BY <1>1 DEF Accepts
<1>5. job.op \in {"approve", "publish"} => Complete(cov)
  BY <1>1 DEF Accepts
<1>6. job.op = "publish" => Len(reviews) > 0
  <2> SUFFICES ASSUME job.op = "publish" PROVE reviews # <<>>
    BY <1>2
  <2>1. Latest.ready
    BY <1>1 DEF Accepts
  <2> QED
    BY <2>1 DEF Latest, EmptyRow
<1>7. Known(w)'
  BY <1>2, <1>3, <1>4, <1>5, <1>6 DEF Known
<1> QED
  BY <1>3, <1>7 DEF Held, Numbered, Writing

\* The request of the worker that acts.
LEMMA OwnKept ==
  ASSUME TypeInv, NEW w \in Workers, Acts(w), Sound
  PROVE  Known(w)' /\ Held(w)' /\ Numbered(w)'
<1>1. /\ TypeOK /\ TypeOK' /\ Grows
      /\ req \in [Workers -> Request \cup {Idle}]
      /\ Known(w) /\ Held(w) /\ Numbered(w)
  BY DEF TypeInv, TypeOK, Requests, Sound
<1>2. CASE Load(w)
  BY <1>2, LoadKnown
<1>3. CASE Abort(w) \/ Rescore(w) \/ AdjustScore(w) \/ Approve(w)
           \/ SaveDetail(w) \/ Move(w) \/ Commit(w)
  <2>1. req'[w] = Idle
    BY <1>1, <1>3 DEF Abort, Rescore, AdjustScore, Approve, SaveDetail, Move,
                      Commit, Finish
  <2> QED
    BY <2>1 DEF Known, Held, Numbered, Writing
<1>4. CASE Enter(w)
  <2>1. /\ req[w] \in Request /\ req' = [req EXCEPT ![w].phase = "entered"]
        /\ lock' = w
    BY <1>1, <1>4, InFlight DEF Enter, Serves
  <2>2. /\ req'[w].job = req[w].job /\ req'[w].seen = req[w].seen
        /\ req'[w].phase = "entered"
    BY <1>1, <2>1 DEF Request
  <2>3. Known(w)'
    BY <1>1, <1>4, <2>2, KnownKept DEF GoesOn, Enter, Serves
  <2> QED
    BY <2>1, <2>2, <2>3 DEF Held, Numbered, Writing
<1>5. CASE DraftDetail(w)
  <2>1. /\ req[w] \in Request /\ req' = [req EXCEPT ![w].phase = "drafted"]
        /\ lock' = w /\ req[w] # Idle /\ req[w].job.op = "publish"
    BY <1>1, <1>5, InFlight DEF DraftDetail, Publishes, Goes
  <2>2. /\ req'[w].job = req[w].job /\ req'[w].seen = req[w].seen
        /\ req'[w].phase = "drafted"
    BY <1>1, <2>1 DEF Request
  <2>3. Known(w)'
    BY <1>1, <2>1, <2>2, KnownKept DEF GoesOn
  <2> QED
    BY <2>1, <2>2, <2>3 DEF Held, Numbered, Writing
<1>6. CASE Number(w)
  <2>1. /\ req[w] \in Request /\ req[w] # Idle /\ req[w].job.op = "publish"
        /\ req' = [req EXCEPT ![w].phase = "numbered",
                              ![w].version = NextVersion]
        /\ NextVersion <= MaxVersions
        /\ reports' = reports
    BY <1>1, <1>6, InFlight DEF Number, Publishes, data
  <2>2. /\ req'[w].job = req[w].job /\ req'[w].seen = req[w].seen
        /\ req'[w].phase = "numbered" /\ req'[w].version = NextVersion
    BY <1>1, <2>1 DEF Request
  <2>3. Known(w)'
    BY <1>1, <2>1, <2>2, KnownKept DEF GoesOn
  <2>4. NextVersion = Len(reports) + 1 /\ Len(reports) \in Nat
    BY NextIsLength DEF TypeInv, Shelved
  <2>5. NextVersion \in 1..(Len(reports) + 1) /\ NextVersion \in Versions
    BY <2>1, <2>4, BoundAssumption DEF Versions
  <2> QED
    BY <2>1, <2>2, <2>3, <2>5 DEF Held, Numbered, Writing
<1>7. CASE Insert(w)
  <2>1. /\ req[w] \in Request /\ req[w] # Idle /\ req[w].job.op = "publish"
        /\ req[w].phase = "numbered"
        /\ req' = [req EXCEPT ![w].phase = "inserted"]
        /\ req[w].version \notin DOMAIN reports
        /\ lock' = w
        /\ reports' = reports
    BY <1>1, <1>7, InFlight DEF Insert, Publishes, Goes, Free, Locks, data
  <2>2. /\ req'[w].job = req[w].job /\ req'[w].seen = req[w].seen
        /\ req'[w].phase = "inserted" /\ req'[w].version = req[w].version
    BY <1>1, <2>1 DEF Request
  <2>3. Known(w)'
    BY <1>1, <2>1, <2>2, KnownKept DEF GoesOn
  <2>4. /\ req[w].version \in 1..(Len(reports) + 1)
        /\ req[w].version \in Versions
        /\ Len(reports) \in Nat /\ DOMAIN reports = 1..Len(reports)
    BY <1>1, <2>1 DEF Numbered, TypeInv, Shelved
  <2>5. req[w].version = Len(reports) + 1
    BY <2>1, <2>4
  <2> QED
    BY <2>1, <2>2, <2>3, <2>4, <2>5 DEF Held, Numbered, Writing
<1>8. CASE ExportJson(w)
  <2>1. /\ req[w] \in Request /\ req[w] # Idle /\ req[w].job.op = "publish"
        /\ req[w].phase = "inserted"
        /\ req' = [req EXCEPT ![w].phase = "written"]
        /\ files' = [files EXCEPT ![req[w].version].json =
                                    ContentOf(req[w].seen)]
        /\ lock' = lock /\ reports' = reports
    BY <1>1, <1>8, InFlight DEF ExportJson, Publishes, Goes, data
  <2>2. /\ req'[w].job = req[w].job /\ req'[w].seen = req[w].seen
        /\ req'[w].phase = "written" /\ req'[w].version = req[w].version
    BY <1>1, <2>1 DEF Request
  <2>3. Known(w)'
    BY <1>1, <2>1, <2>2, KnownKept DEF GoesOn
  <2>4. /\ req[w].version = Len(reports) + 1 /\ req[w].version \in Versions
        /\ lock = w
    BY <1>1, <2>1 DEF Numbered, Held, Writing
  <2>5. files'[req[w].version].json = ContentOf(req[w].seen)
    BY <1>1, <2>1, <2>4 DEF TypeOK
  <2>6. Held(w)'
    BY <2>1, <2>4 DEF Held
  <2>7. ContentOf(req[w].seen)' = ContentOf(req[w].seen)
    BY <2>2 DEF ContentOf, DetailOf, Standing
  <2>8. Numbered(w)'
    BY <2>1, <2>2, <2>4, <2>5, <2>7 DEF Numbered, Writing
  <2> QED
    BY <2>3, <2>6, <2>8
<1>9. CASE ExportPdf(w)
  <2>1. /\ req[w] \in Request /\ req[w] # Idle /\ req[w].job.op = "publish"
        /\ req[w].phase = "written"
        /\ req' = [req EXCEPT ![w].phase = "exported"]
        /\ files' = [files EXCEPT ![req[w].version].pdf =
                                    ContentOf(req[w].seen)]
        /\ lock' = lock /\ reports' = reports
    BY <1>1, <1>9, InFlight DEF ExportPdf, Publishes, Goes, data
  <2>2. /\ req'[w].job = req[w].job /\ req'[w].seen = req[w].seen
        /\ req'[w].phase = "exported" /\ req'[w].version = req[w].version
    BY <1>1, <2>1 DEF Request
  <2>3. Known(w)'
    BY <1>1, <2>1, <2>2, KnownKept DEF GoesOn
  <2>4. /\ req[w].version = Len(reports) + 1 /\ req[w].version \in Versions
        /\ files[req[w].version].json = ContentOf(req[w].seen)
        /\ lock = w
    BY <1>1, <2>1 DEF Numbered, Held, Writing
  <2>5. /\ files'[req[w].version].pdf = ContentOf(req[w].seen)
        /\ files'[req[w].version].json = ContentOf(req[w].seen)
    BY <1>1, <2>1, <2>4 DEF TypeOK
  <2>6. Held(w)'
    BY <2>1, <2>4 DEF Held
  <2>7. ContentOf(req[w].seen)' = ContentOf(req[w].seen)
    BY <2>2 DEF ContentOf, DetailOf, Standing
  <2>8. Numbered(w)'
    BY <2>1, <2>2, <2>4, <2>5, <2>7 DEF Numbered, Writing
  <2> QED
    BY <2>3, <2>6, <2>8
<1> QED
  BY <1>2, <1>3, <1>4, <1>5, <1>6, <1>7, <1>8, <1>9 DEF Acts

\* A request somebody else serves.
LEMMA OtherKept ==
  ASSUME TypeInv, NEW w \in Workers, Acts(w), Sound,
         NEW v \in Workers, v # w
  PROVE  Known(v)' /\ Held(v)' /\ Numbered(v)'
<1>1. /\ req'[v] = req[v]
      /\ lock = v => lock' = v /\ UNCHANGED <<reports, files>>
  BY OthersKept
<1>2. /\ TypeOK /\ TypeOK' /\ Grows /\ Shelved
      /\ Held(v) /\ Numbered(v) /\ Len(reports) <= Len(reports') /\ Shelved'
  BY ReportsGrow DEF TypeInv, Requests, Sound
<1>3. Known(v)'
  BY <1>1, <1>2, KnownKept
<1>4. Held(v)'
  BY <1>1, <1>2 DEF Held
<1>5. CASE Writing(v)
  <2>1. UNCHANGED <<reports, files>>
    BY <1>1, <1>2, <1>5 DEF Held, Writing
  <2>2. ContentOf(req[v].seen)' = ContentOf(req[v].seen)
    BY <1>1 DEF ContentOf, DetailOf, Standing
  <2>3. Numbered(v)'
    BY <1>1, <1>2, <1>5, <2>1, <2>2 DEF Numbered, Writing
  <2> QED
    BY <1>3, <1>4, <2>3
<1>6. CASE ~Writing(v)
  <2>1. Len(reports) \in Nat /\ Len(reports') \in Nat
    BY <1>2 DEF Shelved
  <2>2. req[v] # Idle /\ req[v].phase = "numbered"
          => req[v].version \in 1..(Len(reports') + 1)
             /\ req[v].version \in Versions
    BY <1>2, <2>1 DEF Numbered
  <2>3. Numbered(v)'
    BY <1>1, <1>6, <2>2 DEF Numbered, Writing
  <2> QED
    BY <1>3, <1>4, <2>3
<1> QED
  BY <1>5, <1>6

-----------------------------------------------------------------------------
(* Theorems *)

LEMMA TypeInvInit == Init => TypeInv
<1> SUFFICES ASSUME Init PROVE TypeInv
  OBVIOUS
<1>1. TypeOK
  BY BoundAssumption
  DEF Init, TypeOK, Rating, Score, Statuses, File, Versions
<1>2. Shelved
  BY BoundAssumption DEF Init, Shelved
<1>3. Requests
  BY DEF Init, Requests, Known, Held, Numbered, Writing
<1> QED
  BY <1>1, <1>2, <1>3 DEF TypeInv

LEMMA TypeInvStep == TypeInv /\ [Next]_vars => TypeInv'
<1> SUFFICES ASSUME TypeInv, [Next]_vars PROVE TypeInv'
  OBVIOUS
<1>1. Sound
  BY StepSound
<1>2. CASE UNCHANGED vars
  <2>1. Shelved' /\ Requests'
    BY <1>2 DEF vars, TypeInv, Shelved, Requests, Known, Held, Numbered, Writing,
                Complete, Standing, ContentOf, DetailOf
  <2> QED
    BY <1>1, <2>1 DEF TypeInv, Sound
<1>3. ASSUME NEW w \in Workers, Acts(w)
      PROVE  TypeInv'
  <2>1. Shelved'
    BY <1>3, ReportsGrow
  <2>2. \A v \in Workers : Known(v)' /\ Held(v)' /\ Numbered(v)'
    BY <1>1, <1>3, OwnKept, OtherKept
  <2>3. Requests'
    BY <2>2 DEF Requests
  <2> QED
    BY <1>1, <2>1, <2>3 DEF TypeInv, Sound
<1> QED
  BY <1>2, <1>3 DEF Next, Acts

\* Every reachable state of the review is well typed: in particular a published
\* report has a score for every practice, whatever was stale when it was built.
THEOREM TypeCorrect == Spec => []TypeOK
<1>1. TypeInv => TypeOK
  BY DEF TypeInv
<1> QED
  BY <1>1, TypeInvInit, TypeInvStep, PTL DEF Spec

\* A package is ready only if every practice has a final score, however approvals,
\* adjustments and scorings of any number of administrators interleave.
THEOREM FinalsComplete == Spec => []ReadyComplete
<1>1. Init => ReadyComplete
  BY DEF Init, ReadyComplete
<1>2. TypeInv /\ ReadyComplete /\ [Next]_vars => ReadyComplete'
  BY StepSound DEF Sound
<1> QED
  BY <1>1, <1>2, TypeInvInit, TypeInvStep, PTL DEF Spec

LEMMA FilesKept ==
  ASSUME TypeInv, ExportsMatch, NEW w \in Workers, Acts(w)
  PROVE  /\ ExportsMatch'
         /\ \A v \in DOMAIN reports : files'[v] = files[v]
<1>1. /\ files \in [Versions -> [json : File, pdf : File]]
      /\ DOMAIN reports \subseteq Versions
      /\ reports \in Seq(Content) /\ Numbered(w)
  BY DEF TypeInv, TypeOK, Shelved, Requests
<1>2. CASE ExportJson(w) \/ ExportPdf(w)
  <2>1. req[w].version = Len(reports) + 1
    BY <1>1, <1>2 DEF ExportJson, ExportPdf, Publishes, Numbered, Writing
  <2>2. req[w].version \notin DOMAIN reports
    BY <1>1, <2>1
  <2>3. \A v \in DOMAIN reports : files'[v] = files[v]
    BY <1>1, <1>2, <2>2 DEF ExportJson, ExportPdf
  <2>4. reports' = reports
    BY <1>2 DEF ExportJson, ExportPdf, data
  <2> QED
    BY <2>3, <2>4 DEF ExportsMatch
<1>3. CASE Commit(w)
  <2> DEFINE v == req[w].version
  <2>1. /\ reports' = Append(reports, ContentOf(req[w].seen))
        /\ v = Len(reports) + 1
    BY <1>3, CommitAppends
  <2>2. files' = files
    BY <1>3 DEF Commit
  <2>3. /\ files[v].json = ContentOf(req[w].seen)
        /\ files[v].pdf = ContentOf(req[w].seen)
    BY <1>1, <1>3 DEF Commit, Publishes, Numbered, Writing
  <2> HIDE DEF v
  <2>4. /\ DOMAIN reports' = 1..(Len(reports) + 1)
        /\ reports'[Len(reports) + 1] = ContentOf(req[w].seen)
        /\ \A n \in 1..Len(reports) : reports'[n] = reports[n]
        /\ DOMAIN reports = 1..Len(reports) /\ Len(reports) \in Nat
    BY <1>1, <2>1
  <2>5. \A n \in 1..(Len(reports) + 1) :
          files[n].json = reports'[n] /\ files[n].pdf = reports'[n]
    BY <2>1, <2>3, <2>4 DEF ExportsMatch
  <2> QED
    BY <2>2, <2>4, <2>5 DEF ExportsMatch
<1>4. CASE ~(ExportJson(w) \/ ExportPdf(w) \/ Commit(w))
  <2>1. files' = files
    BY <1>4 DEF Acts, Load, Abort, Enter, Rescore, AdjustScore, Approve,
                SaveDetail, Move, DraftDetail, Number, Insert
  <2>2. reports' = reports
    BY <1>4, ReportsGrow
  <2> QED
    BY <2>1, <2>2 DEF ExportsMatch
<1> QED
  BY <1>2, <1>3, <1>4

LEMMA FilesInit == Init => ExportsMatch
BY DEF Init, ExportsMatch

LEMMA FilesStep == TypeInv /\ ExportsMatch /\ [Next]_vars => ExportsMatch'
<1> SUFFICES ASSUME TypeInv, ExportsMatch, [Next]_vars PROVE ExportsMatch'
  OBVIOUS
<1>1. CASE UNCHANGED vars
  BY <1>1 DEF vars, ExportsMatch
<1>2. CASE Next
  BY <1>2, FilesKept DEF Next, Acts
<1> QED
  BY <1>1, <1>2

\* The files of every version on the shelf say what its report says, after any
\* crashes and failures and for any number of competing publications.
THEOREM FilesMatch == Spec => []ExportsMatch
BY TypeInvInit, TypeInvStep, FilesInit, FilesStep, PTL DEF Spec

LEMMA ShelfStep ==
  ASSUME TypeInv, ExportsMatch, NEW w \in Workers, Acts(w)
  PROVE  [Shelf!Publish]_(Shelf!shelfVars)
<1>1. ExportsMatch' /\ \A v \in DOMAIN reports : files'[v] = files[v]
  BY FilesKept
<1>2. reports \in Seq(Content)
  BY DEF TypeInv, Shelved
<1>3. CASE Commit(w)
  <2> DEFINE content == ContentOf(req[w].seen)
             v == Len(reports) + 1
  <2>1. /\ reports' = Append(reports, content) /\ reports' \in Seq(Content)
        /\ Len(reports') = v
    BY <1>3, CommitAppends
  <2> HIDE DEF content
  <2>2. /\ Len(reports) \in Nat /\ DOMAIN reports = 1..Len(reports)
        /\ DOMAIN reports' = 1..v /\ reports'[v] = content
        /\ v \in DOMAIN reports'
    BY <1>2, <2>1
  <2>3. content \in Content
    BY <2>1, <2>2
  <2>4. v \in Versions
    BY <1>3, CommitAppends
  <2>5. files'[v] \in [json : File, pdf : File]
    BY <2>4, <1>3, CommitSound DEF Sound, TypeOK
  <2>6. files'[v] = [json |-> content, pdf |-> content]
    BY <1>1, <2>2, <2>5 DEF ExportsMatch
  <2>7. Offered = [n \in 1..Len(reports) |-> files[n]]
        /\ Offered' = [n \in 1..v |-> files'[n]]
    BY <2>2 DEF Offered
  <2>8. Offered' = Append(Offered, [json |-> content, pdf |-> content])
    <3> DEFINE S == {files[n] : n \in 1..Len(reports)} \cup {files'[v]}
               longer == Append(Offered, files'[v])
    <3>1. Offered \in Seq(S) /\ Len(Offered) = Len(reports)
      BY <2>2, <2>7
    <3>2. /\ longer \in Seq(S) /\ Len(longer) = v /\ longer[v] = files'[v]
          /\ \A n \in 1..Len(reports) : longer[n] = Offered[n]
      BY <2>2, <3>1
    <3> HIDE DEF longer, S
    <3>3. DOMAIN longer = 1..v /\ longer = [n \in DOMAIN longer |-> longer[n]]
      BY <3>2
    <3>4. \A n \in 1..v : longer[n] = files'[n]
      <4> SUFFICES ASSUME NEW n \in 1..v PROVE longer[n] = files'[n]
        OBVIOUS
      <4>1. CASE n = v
        BY <4>1, <3>2
      <4>2. CASE n # v
        <5>1. n \in 1..Len(reports)
          BY <4>2, <2>2
        <5> QED
          BY <5>1, <1>1, <2>2, <2>7, <3>2
      <4> QED
        BY <4>1, <4>2
    <3>5. longer = Offered'
      BY <2>7, <3>3, <3>4
    <3> QED
      BY <2>6, <3>5 DEF longer
  <2>9. Shelf!Publish
    BY <2>1, <2>2, <2>3, <2>8 DEF Shelf!Publish
  <2> QED
    BY <2>9
<1>4. CASE ~Commit(w)
  <2>1. reports' = reports
    BY <1>4, ReportsGrow
  <2>2. Offered' = Offered
    BY <1>1, <2>1 DEF Offered
  <2> QED
    BY <2>1, <2>2 DEF Shelf!shelfVars
<1> QED
  BY <1>3, <1>4

LEMMA ShelfNext ==
  TypeInv /\ ExportsMatch /\ [Next]_vars => [Shelf!Publish]_(Shelf!shelfVars)
<1> SUFFICES ASSUME TypeInv, ExportsMatch, [Next]_vars
             PROVE  [Shelf!Publish]_(Shelf!shelfVars)
  OBVIOUS
<1>1. CASE UNCHANGED vars
  BY <1>1 DEF vars, Shelf!shelfVars, Offered
<1>2. CASE Next
  BY <1>2, ShelfStep DEF Next, Acts
<1> QED
  BY <1>1, <1>2

LEMMA ShelfInit == Init => Shelf!SInit
BY DEF Init, Shelf!SInit, Offered

\* The review implements the shelf: reports are numbered without gaps, never
\* change, and are offered with files that agree with them.
THEOREM ShelfImplemented == Spec => ImplementsShelf
BY TypeInvInit, TypeInvStep, FilesInit, FilesStep, ShelfInit, ShelfNext, PTL
DEF Spec, ImplementsShelf, Shelf!SSpec

-----------------------------------------------------------------------------
(* One reviewer *)

\* One administrator's browser scores, adjusts and approves; others publish, draft
\* the detailed report and move the assessment along as they like.  Two reviewers
\* break both theorems below: an approval overwrites what was adjusted or scored
\* since its rows were read.
OneReviewer ==
  \E reviewer \in Workers : \A w \in Workers : \A job \in JobsOf[w] :
    job.op \in {"start", "score", "approve"} => w = reviewer

\* A worker serves the requests it may be given, and a scoring is one of them.
Assigned ==
  \A w \in Workers :
    req[w] # Idle => /\ req[w].job \in JobsOf[w]
                     /\ req[w].phase = "entered" => req[w].job.op = "start"

\* An approval sees the final scores as they are.
FinalsCurrent ==
  \A w \in Workers :
    req[w] # Idle /\ req[w].job.op = "approve"
      => \A p \in Practices : req[w].seen.cov[p].final = cov[p].final

\* What of a review row an approval rests on.
SameReview(r, s) == r.ready = s.ready /\ r.overall = s.overall

\* The reviewer's requests see the review row they have loaded as it is.
RowCurrent ==
  \A w \in Workers :
    LET seen == req[w].seen
    IN req[w] # Idle /\ req[w].job.op \in {"start", "approve"} =>
         IF seen.at = 0 THEN SameReview(seen.row, EmptyRow)
         ELSE SameReview(seen.row, reviews[seen.at])

\* A package that is ready carries a scoring that was approved, and so does one
\* that is being published.
ReadyApproved ==
  \A i \in DOMAIN reviews : reviews[i].ready => reviews[i].overall \in approved
SeenApproved ==
  \A w \in Workers :
    req[w] # Idle /\ req[w].job.op = "publish"
      => req[w].seen.row.overall \in approved

ReviewerInv ==
  /\ Assigned /\ FinalsCurrent /\ RowCurrent
  /\ ReadyApproved /\ SeenApproved /\ ReportsApproved

\* A request in flight after a step has just been accepted, or was in flight.
LEMMA RequestAfter ==
  ASSUME TypeInv, NEW w \in Workers, Acts(w), NEW v \in Workers, req'[v] # Idle
  PROVE  \/ /\ UNCHANGED <<cov, reviews, approved>>
            /\ \E job \in JobsOf[v] : Accepts(job) /\ req'[v].job = job
            /\ req'[v].seen.cov = cov /\ req'[v].seen.at = Len(reviews)
            /\ req'[v].seen.row = Latest
            /\ req'[v].phase = "loaded"
         \/ /\ req[v] # Idle
            /\ req'[v].job = req[v].job /\ req'[v].seen = req[v].seen
            /\ req'[v].phase = "entered"
                 => req[v].phase = "entered" \/ req[v].job.op = "start"
<1>1. TypeOK /\ req \in [Workers -> Request \cup {Idle}]
  BY DEF TypeInv, TypeOK
<1>2. CASE v # w
  BY <1>2, OthersKept
<1>3. CASE v = w /\ Load(w)
  <2>1. PICK job \in JobsOf[w] :
          /\ Accepts(job)
          /\ req' = [req EXCEPT ![w] =
                    [phase |-> "loaded", job |-> job, version |-> 0,
                     seen |-> [status |-> status, cov |-> cov,
                               at |-> Len(reviews), row |-> Latest,
                               actions |-> actions]]]
    BY <1>3 DEF Load
  <2>2. /\ req'[w].job = job
        /\ req'[w].seen.cov = cov /\ req'[w].seen.at = Len(reviews)
        /\ req'[w].seen.row = Latest /\ req'[w].phase = "loaded"
    BY <1>1, <2>1
  <2>3. UNCHANGED <<cov, reviews, approved>>
    BY <1>3 DEF Load, data
  <2> QED
    BY <1>3, <2>1, <2>2, <2>3
<1>4. CASE v = w /\ ~Load(w)
  <2>1. \/ req'[w] = Idle
        \/ /\ req[w] # Idle
           /\ \E phase \in Phases :
                /\ req' = [req EXCEPT ![w].phase = phase]
                /\ phase = "entered" => req[w].job.op = "start"
        \/ /\ req[w] # Idle
           /\ req' = [req EXCEPT ![w].phase = "numbered", ![w].version = NextVersion]
    <3>1. CASE \/ Abort(w) \/ Rescore(w) \/ AdjustScore(w) \/ Approve(w)
               \/ SaveDetail(w) \/ Move(w) \/ Commit(w)
      BY <1>1, <3>1 DEF Abort, Rescore, AdjustScore, Approve, SaveDetail, Move,
                        Commit, Finish
    <3>2. CASE Enter(w)
      BY <3>2 DEF Enter, Serves, Phases
    <3>3. CASE DraftDetail(w) \/ Insert(w) \/ ExportJson(w) \/ ExportPdf(w)
      BY <3>3 DEF DraftDetail, Insert, ExportJson, ExportPdf, Publishes, Goes,
                  Phases
    <3>4. CASE Number(w)
      BY <3>4 DEF Number, Publishes
    <3> QED
      BY <1>4, <3>1, <3>2, <3>3, <3>4 DEF Acts
  <2>2. req[w] # Idle /\ req[w] \in Request
    BY <1>1, <1>4, <2>1, InFlight
  <2>3. /\ req'[w].job = req[w].job /\ req'[w].seen = req[w].seen
        /\ req'[w].phase = "entered" => req[w].job.op = "start"
    BY <1>1, <1>4, <2>1, <2>2 DEF Request
  <2> QED
    BY <1>4, <2>2, <2>3
<1> QED
  BY <1>2, <1>3, <1>4

\* Only an adjustment and an approval touch the final scores.
LEMMA FinalsWriter ==
  ASSUME TypeInv, NEW w \in Workers, Acts(w),
         NEW p \in Practices, cov'[p].final # cov[p].final
  PROVE  AdjustScore(w) \/ Approve(w)
<1>1. cov \in [Practices -> Rating]
  BY DEF TypeInv, TypeOK
<1>2. CASE Rescore(w)
  <2>1. PICK r \in Scorings :
          cov' = [q \in Practices |->
                    IF q \in DOMAIN r
                    THEN [Rescored(cov[q]) EXCEPT
                            !.ai = Put(@, req[w].seen.cov[q].ai, r[q])]
                    ELSE cov[q]]
    BY <1>2 DEF Rescore
  <2>2. cov[p] \in Rating
    BY <1>1
  <2>3. CASE p \in DOMAIN r
    <3>1. cov'[p] = [cov[p] EXCEPT !.ai = Put(@, req[w].seen.cov[p].ai, r[p])]
      BY <2>1, <2>3 DEF Rescored
    <3> QED
      BY <2>2, <3>1 DEF Rating
  <2>4. CASE p \notin DOMAIN r
    BY <2>1, <2>4
  <2> QED
    BY <2>3, <2>4
<1>3. CASE ~(Rescore(w) \/ AdjustScore(w) \/ Approve(w))
  BY <1>3 DEF Acts, Load, Abort, Enter, SaveDetail, Move, DraftDetail, Number,
              Insert, ExportJson, ExportPdf, Commit, data
<1> QED
  BY <1>2, <1>3

\* Drafting the detailed report leaves what an approval rests on alone.
LEMMA DraftKept ==
  ASSUME TypeInv, NEW w \in Workers, SaveDetail(w) \/ Commit(w)
  PROVE  /\ \A i \in DOMAIN reviews :
              i \in DOMAIN reviews' /\ SameReview(reviews'[i], reviews[i])
         /\ \A i \in DOMAIN reviews' :
              i \notin DOMAIN reviews => SameReview(reviews'[i], EmptyRow)
<1> DEFINE at == req[w].seen.at
<1>1. /\ TypeOK /\ Known(w) /\ reviews \in Seq(Row)
      /\ req[w] # Idle
  BY DEF TypeInv, TypeOK, Requests, SaveDetail, Serves, Commit, Publishes
<1>2. at \in Nat /\ at <= Len(reviews)
  BY <1>1, InFlight DEF Known
<1>3. ASSUME NEW d, at # 0,
             reviews' = [reviews EXCEPT ![at].draft = d]
      PROVE  /\ DOMAIN reviews' = DOMAIN reviews
             /\ \A i \in DOMAIN reviews : SameReview(reviews'[i], reviews[i])
  <2> HIDE DEF at
  <2>1. at \in 1..Len(reviews) /\ reviews[at] \in Row
    BY <1>1, <1>2, <1>3
  <2>2. reviews' = [reviews EXCEPT ![at] = [reviews[at] EXCEPT !.draft = d]]
    BY <1>3
  <2>3. SameReview([reviews[at] EXCEPT !.draft = d], reviews[at])
    BY <2>1 DEF SameReview, Row
  <2> QED
    BY <1>1, <2>1, <2>2, <2>3 DEF SameReview
<1>4. CASE Commit(w)
  <2>1. at # 0
    BY <1>1, <1>4, PublishJob DEF Commit, Publishes
  <2>2. \/ reviews' = reviews
        \/ reviews' = [reviews EXCEPT ![at].draft = DetailOf(req[w].seen)]
    BY <1>4 DEF Commit
  <2> QED
    BY <1>3, <2>1, <2>2 DEF SameReview
<1>5. CASE SaveDetail(w)
  <2> DEFINE draft == Standing(req[w].seen.cov)
             row == [EmptyRow EXCEPT !.draft = draft]
  <2>1. reviews' = IF at = 0 THEN Append(reviews, row)
                   ELSE [reviews EXCEPT ![at].draft = draft]
    BY <1>5 DEF SaveDetail
  <2>2. CASE at = 0
    <3>1. SameReview(row, EmptyRow)
      BY DEF SameReview, EmptyRow
    <3> HIDE DEF row
    <3>2. reviews' = Append(reviews, row)
      BY <2>1, <2>2
    <3>3. /\ DOMAIN reviews' = 1..(Len(reviews) + 1)
          /\ reviews'[Len(reviews) + 1] = row
          /\ \A i \in 1..Len(reviews) : reviews'[i] = reviews[i]
      BY <1>1, <3>2
    <3> QED
      BY <1>1, <3>1, <3>3 DEF SameReview
  <2>3. CASE at # 0
    BY <1>3, <2>1, <2>3
  <2> QED
    BY <2>2, <2>3
<1> QED
  BY <1>4, <1>5

\* Only a scoring and an approval touch what an approval rests on.
LEMMA RowsWriter ==
  ASSUME TypeInv, NEW w \in Workers, Acts(w), ~Rescore(w), ~Approve(w)
  PROVE  /\ \A i \in DOMAIN reviews :
              i \in DOMAIN reviews' /\ SameReview(reviews'[i], reviews[i])
         /\ \A i \in DOMAIN reviews' :
              i \notin DOMAIN reviews => SameReview(reviews'[i], EmptyRow)
<1>1. CASE SaveDetail(w) \/ Commit(w)
  BY <1>1, DraftKept
<1>2. CASE ~(SaveDetail(w) \/ Commit(w))
  <2>1. reviews' = reviews
    BY <1>2 DEF Acts, Load, Abort, Enter, AdjustScore, Move, DraftDetail,
                Number, Insert, ExportJson, ExportPdf, data
  <2> QED
    BY <2>1 DEF SameReview
<1> QED
  BY <1>1, <1>2

\* A reviewer's step that writes ends the reviewer's request: none is in flight.
LEMMA ReviewerDone ==
  ASSUME OneReviewer, TypeInv, Assigned, NEW w \in Workers,
         Rescore(w) \/ AdjustScore(w) \/ Approve(w), Acts(w),
         NEW v \in Workers, req[v] # Idle,
         req[v].job.op \in {"start", "score", "approve"}
  PROVE  req'[v] = Idle
<1>1. req[w] # Idle
  BY DEF Rescore, MayScore, AdjustScore, Approve, Serves
<1>2. req[w].job.op \in {"start", "score", "approve"}
  <2>1. CASE AdjustScore(w) \/ Approve(w)
    BY <2>1 DEF AdjustScore, Approve, Serves
  <2>2. CASE Rescore(w)
    BY <1>1, <2>2 DEF Rescore, MayScore, Serves, Assigned
  <2> QED
    BY <2>1, <2>2
<1>3. v = w
  BY <1>1, <1>2 DEF OneReviewer, Assigned
<1>4. Finish(w) /\ req \in [Workers -> Request \cup {Idle}]
  BY DEF Rescore, AdjustScore, Approve, TypeInv, TypeOK
<1> QED
  BY <1>3, <1>4 DEF Finish

LEMMA AssignedStep ==
  ASSUME TypeInv, Assigned, NEW w \in Workers, Acts(w)
  PROVE  Assigned'
<1> SUFFICES ASSUME NEW v \in Workers, req'[v] # Idle
             PROVE  /\ req'[v].job \in JobsOf[v]
                    /\ req'[v].phase = "entered" => req'[v].job.op = "start"
  BY DEF Assigned
<1> QED
  BY RequestAfter DEF Assigned

LEMMA FinalsStep ==
  ASSUME OneReviewer, TypeInv, Assigned, FinalsCurrent,
         NEW w \in Workers, Acts(w)
  PROVE  FinalsCurrent'
<1> SUFFICES ASSUME NEW v \in Workers, req'[v] # Idle,
                    req'[v].job.op = "approve", NEW p \in Practices
             PROVE  req'[v].seen.cov[p].final = cov'[p].final
  BY DEF FinalsCurrent
<1>1. CASE req'[v].seen.cov = cov /\ UNCHANGED cov
  BY <1>1
<1>2. CASE /\ req[v] # Idle
           /\ req'[v].job = req[v].job /\ req'[v].seen = req[v].seen
  <2>1. req[v].seen.cov[p].final = cov[p].final
    BY <1>2 DEF FinalsCurrent
  <2>2. ~(AdjustScore(w) \/ Approve(w))
    BY <1>2, ReviewerDone
  <2>3. cov'[p].final = cov[p].final
    BY <2>2, FinalsWriter
  <2> QED
    BY <1>2, <2>1, <2>3
<1> QED
  BY <1>1, <1>2, RequestAfter

LEMMA RowStep ==
  ASSUME OneReviewer, TypeInv, Assigned, RowCurrent,
         NEW w \in Workers, Acts(w)
  PROVE  RowCurrent'
<1> SUFFICES ASSUME NEW v \in Workers, req'[v] # Idle,
                    req'[v].job.op \in {"start", "approve"}
             PROVE  IF req'[v].seen.at = 0
                    THEN SameReview(req'[v].seen.row, EmptyRow)
                    ELSE SameReview(req'[v].seen.row, reviews'[req'[v].seen.at])
  BY DEF RowCurrent, SameReview, EmptyRow
<1>1. reviews \in Seq(Row) /\ TypeOK
  BY DEF TypeInv, TypeOK
<1>2. CASE /\ req'[v].seen.at = Len(reviews) /\ req'[v].seen.row = Latest
           /\ reviews' = reviews
  BY <1>1, <1>2 DEF Latest, SameReview
<1>3. CASE /\ req[v] # Idle
           /\ req'[v].job = req[v].job /\ req'[v].seen = req[v].seen
  <2> DEFINE seen == req[v].seen
  <2>1. IF seen.at = 0 THEN SameReview(seen.row, EmptyRow)
        ELSE SameReview(seen.row, reviews[seen.at])
    BY <1>3 DEF RowCurrent
  <2>2. ~(Rescore(w) \/ Approve(w))
    BY <1>3, ReviewerDone
  <2>3. seen.at \in Nat /\ seen.at <= Len(reviews)
    BY <1>1, <1>3, InFlight DEF TypeInv, Requests, Known
  <2>4. \A i \in DOMAIN reviews : SameReview(reviews'[i], reviews[i])
    BY <2>2, RowsWriter
  <2>5. seen.at # 0 => seen.at \in DOMAIN reviews
    BY <1>1, <2>3
  <2> HIDE DEF seen
  <2>6. IF seen.at = 0 THEN SameReview(seen.row, EmptyRow)
        ELSE SameReview(seen.row, reviews'[seen.at])
    BY <2>1, <2>4, <2>5 DEF SameReview
  <2> QED
    BY <1>3, <2>6 DEF seen
<1> QED
  BY <1>2, <1>3, RequestAfter

\* A scoring leaves the package it changes not ready.
LEMMA ScoringWithdraws ==
  ASSUME TypeInv, Assigned, RowCurrent, NEW w \in Workers, Rescore(w)
  PROVE  \A i \in DOMAIN reviews' :
           reviews'[i].ready
             => i \in DOMAIN reviews /\ reviews'[i] = reviews[i]
<1> DEFINE seen == req[w].seen
           last == Len(reviews)
           loaded == IF last = seen.at THEN seen.row ELSE Latest
           row == [Latest EXCEPT !.overall = scorings + 1,
                                 !.ready = Withdraw(@, loaded.ready)]
<1>1. /\ req[w] # Idle /\ req[w].job.op = "start"
      /\ reviews' = Update(last, row)
  BY DEF Rescore, MayScore, Serves, Assigned
<1>2. /\ TypeOK /\ reviews \in Seq(Row) /\ Latest \in Row /\ last \in Nat
      /\ seen.row \in Row
  BY <1>1, InFlight, LatestType DEF TypeInv, TypeOK
<1>3. loaded.ready = Latest.ready
  <2>1. CASE last = seen.at
    BY <1>1, <1>2, <2>1 DEF RowCurrent, SameReview, Latest
  <2>2. CASE last # seen.at
    BY <2>2
  <2> QED
    BY <2>1, <2>2
<1>4. row.ready = FALSE
  <2>1. Latest.ready \in BOOLEAN
    BY <1>2 DEF Row
  <2>2. row.ready = Withdraw(Latest.ready, loaded.ready)
    BY <1>2 DEF Row
  <2>3. row.ready = IF FALSE = Latest.ready THEN Latest.ready ELSE FALSE
    BY <1>3, <2>2 DEF Withdraw, Put
  <2> QED
    BY <2>1, <2>3
<1> HIDE DEF row, last
<1>5. reviews' = IF last = 0 THEN Append(reviews, row)
                 ELSE [reviews EXCEPT ![last] = row]
  BY <1>1 DEF Update
<1> QED
  BY <1>2, <1>4, <1>5

\* An approval makes a package ready that carries the scoring it approves.
LEMMA ApprovalRecorded ==
  ASSUME TypeInv, RowCurrent, ReadyApproved, NEW w \in Workers, Approve(w)
  PROVE  ReadyApproved'
<1> DEFINE seen == req[w].seen
           fresh == [EmptyRow EXCEPT !.ready = TRUE]
           row == [reviews[seen.at] EXCEPT !.ready = Put(@, seen.row.ready, TRUE)]
<1>1. /\ req[w] # Idle /\ req[w].job.op = "approve"
      /\ reviews' = IF seen.at = 0 THEN Append(reviews, fresh)
                    ELSE [reviews EXCEPT ![seen.at].ready =
                            Put(@, seen.row.ready, TRUE)]
      /\ approved' = approved \cup {seen.row.overall}
  BY DEF Approve, Serves
<1>2. /\ TypeOK /\ reviews \in Seq(Row) /\ Known(w)
      /\ seen.at \in Nat /\ seen.at <= Len(reviews)
  BY <1>1, InFlight DEF TypeInv, Requests, Known, TypeOK
<1>3. CASE seen.at = 0
  <2>1. fresh.overall = seen.row.overall
    BY <1>1, <1>3 DEF RowCurrent, SameReview, EmptyRow
  <2> HIDE DEF fresh
  <2>2. /\ DOMAIN reviews' = 1..(Len(reviews) + 1)
        /\ reviews'[Len(reviews) + 1] = fresh
        /\ \A i \in 1..Len(reviews) : reviews'[i] = reviews[i]
    BY <1>1, <1>2, <1>3
  <2>3. fresh.overall \in approved' /\ approved \subseteq approved'
    BY <1>1, <2>1
  <2>4. ASSUME NEW i \in DOMAIN reviews', reviews'[i].ready
        PROVE  reviews'[i].overall \in approved'
    <3>1. i = Len(reviews) + 1 \/ i \in 1..Len(reviews)
      BY <1>2, <2>2
    <3>2. i \in 1..Len(reviews) => i \in DOMAIN reviews /\ reviews'[i] = reviews[i]
      BY <1>2, <2>2
    <3> QED
      BY <2>2, <2>3, <2>4, <3>1, <3>2 DEF ReadyApproved
  <2> QED
    BY <2>4 DEF ReadyApproved
<1>4. CASE seen.at # 0
  <2>1. seen.at \in 1..Len(reviews) /\ reviews[seen.at] \in Row
    BY <1>2, <1>4
  <2>2. row.overall = seen.row.overall
    BY <1>1, <1>4, <2>1 DEF RowCurrent, SameReview, Row
  <2>3. reviews' = [reviews EXCEPT ![seen.at] = row]
    BY <1>1, <1>4
  <2> HIDE DEF row
  <2>4. /\ DOMAIN reviews' = DOMAIN reviews
        /\ \A i \in DOMAIN reviews :
             reviews'[i] = IF i = seen.at THEN row ELSE reviews[i]
    BY <1>2, <2>1, <2>3
  <2>5. row.overall \in approved' /\ approved \subseteq approved'
    BY <1>1, <2>2
  <2> HIDE DEF seen
  <2>6. ASSUME NEW i \in DOMAIN reviews', reviews'[i].ready
        PROVE  reviews'[i].overall \in approved'
    BY <2>4, <2>5, <2>6 DEF ReadyApproved
  <2> QED
    BY <2>6 DEF ReadyApproved
<1> QED
  BY <1>3, <1>4

LEMMA ReadyStep ==
  ASSUME TypeInv, Assigned, RowCurrent, ReadyApproved,
         NEW w \in Workers, Acts(w)
  PROVE  ReadyApproved' /\ approved \subseteq approved'
<1>1. CASE Approve(w)
  BY <1>1, ApprovalRecorded DEF Approve
<1>2. CASE ~Approve(w)
  <2>1. approved' = approved
    BY <1>2 DEF Acts, Load, Abort, Enter, Rescore, AdjustScore, SaveDetail, Move,
                DraftDetail, Number, Insert, ExportJson, ExportPdf, Commit, data
  <2>2. CASE Rescore(w)
    BY <2>1, <2>2, ScoringWithdraws DEF ReadyApproved
  <2>3. CASE ~Rescore(w)
    BY <1>2, <2>1, <2>3, RowsWriter DEF ReadyApproved, SameReview, EmptyRow
  <2> QED
    BY <2>1, <2>2, <2>3
<1> QED
  BY <1>1, <1>2

LEMMA SeenStep ==
  ASSUME TypeInv, Assigned, RowCurrent, ReadyApproved, SeenApproved,
         NEW w \in Workers, Acts(w)
  PROVE  SeenApproved'
<1> SUFFICES ASSUME NEW v \in Workers, req'[v] # Idle, req'[v].job.op = "publish"
             PROVE  req'[v].seen.row.overall \in approved'
  BY DEF SeenApproved
<1>1. approved \subseteq approved'
  BY ReadyStep
<1>2. CASE /\ \E job \in JobsOf[v] : Accepts(job) /\ req'[v].job = job
           /\ req'[v].seen.row = Latest
  <2>1. Latest.ready
    BY <1>2 DEF Accepts
  <2>2. Len(reviews) \in DOMAIN reviews /\ Latest = reviews[Len(reviews)]
    <3>1. reviews \in Seq(Row)
      BY DEF TypeInv, TypeOK
    <3>2. reviews # <<>>
      BY <2>1 DEF Latest, EmptyRow
    <3> QED
      BY <3>1, <3>2 DEF Latest
  <2> QED
    BY <1>1, <1>2, <2>1, <2>2 DEF ReadyApproved
<1>3. CASE /\ req[v] # Idle
           /\ req'[v].job = req[v].job /\ req'[v].seen = req[v].seen
  BY <1>1, <1>3 DEF SeenApproved
<1> QED
  BY <1>2, <1>3, RequestAfter

LEMMA ReportsStep ==
  ASSUME TypeInv, SeenApproved, ReportsApproved, approved \subseteq approved',
         NEW w \in Workers, Acts(w)
  PROVE  ReportsApproved'
<1>1. CASE Commit(w)
  <2> DEFINE content == ContentOf(req[w].seen)
  <2>1. content.overall \in approved'
    BY <1>1 DEF SeenApproved, Commit, Publishes, ContentOf
  <2>2. reports' = Append(reports, content) /\ reports \in Seq(Content)
    BY <1>1, CommitAppends DEF TypeInv, Shelved
  <2> HIDE DEF content
  <2>3. /\ DOMAIN reports' = 1..(Len(reports) + 1)
        /\ reports'[Len(reports) + 1] = content
        /\ \A n \in 1..Len(reports) : reports'[n] = reports[n]
        /\ DOMAIN reports = 1..Len(reports)
    BY <2>2
  <2> QED
    BY <2>1, <2>3 DEF ReportsApproved
<1>2. CASE ~Commit(w)
  BY <1>2, ReportsGrow DEF ReportsApproved
<1> QED
  BY <1>1, <1>2

LEMMA ReviewerInit == Init => ReviewerInv
BY DEF Init, ReviewerInv, Assigned, FinalsCurrent, RowCurrent, ReadyApproved,
       SeenApproved, ReportsApproved

LEMMA ReviewerStep ==
  ASSUME OneReviewer
  PROVE  TypeInv /\ ReviewerInv /\ [Next]_vars => ReviewerInv'
<1> SUFFICES ASSUME TypeInv, ReviewerInv, [Next]_vars PROVE ReviewerInv'
  OBVIOUS
<1>1. CASE UNCHANGED vars
  BY <1>1 DEF vars, ReviewerInv, Assigned, FinalsCurrent, RowCurrent,
              SameReview, EmptyRow, ReadyApproved, SeenApproved, ReportsApproved
<1>2. CASE Next
  <2>1. PICK w \in Workers : Acts(w)
    BY <1>2 DEF Next, Acts
  <2>2. /\ Assigned /\ FinalsCurrent /\ RowCurrent
        /\ ReadyApproved /\ SeenApproved /\ ReportsApproved
    BY DEF ReviewerInv
  <2>3. Assigned' /\ FinalsCurrent' /\ RowCurrent'
    BY <2>1, <2>2, AssignedStep, FinalsStep, RowStep
  <2>4. ReadyApproved' /\ SeenApproved' /\ approved \subseteq approved'
    BY <2>1, <2>2, ReadyStep, SeenStep
  <2>5. ReportsApproved'
    BY <2>1, <2>2, <2>4, ReportsStep
  <2> QED
    BY <2>3, <2>4, <2>5 DEF ReviewerInv
<1> QED
  BY <1>1, <1>2

\* With one reviewer, every published report carries the overall maturity,
\* strengths and gaps of a scoring that was approved, whoever publishes, drafts
\* and moves the assessment meanwhile and however often the reviewer scores anew.
THEOREM OnlyApproved == ASSUME OneReviewer PROVE Spec => []ReportsApproved
<1>1. ReviewerInv => ReportsApproved
  BY DEF ReviewerInv
<1>2. TypeInv /\ ReviewerInv /\ [Next]_vars => ReviewerInv'
  BY ReviewerStep
<1> QED
  BY <1>1, <1>2, ReviewerInit, TypeInvInit, TypeInvStep, PTL DEF Spec

\* With one reviewer, a final score changes only by the request that sets it: an
\* approval fills in what is missing and overwrites nothing.
THEOREM DecisionsKept == ASSUME OneReviewer PROVE Spec => FinalsKept
<1>1. TypeInv /\ ReviewerInv /\ [Next]_vars =>
        [\A p \in Practices :
           cov[p].final # None /\ cov'[p].final # cov[p].final
           => \E w \in Workers : /\ req[w] # Idle /\ req[w].job.op = "score"
                                /\ req[w].job.practice = p]_vars
  <2> SUFFICES ASSUME TypeInv, ReviewerInv, Next,
                      NEW p \in Practices, cov[p].final # None,
                      cov'[p].final # cov[p].final
               PROVE  \E w \in Workers : /\ req[w] # Idle /\ req[w].job.op = "score"
                                         /\ req[w].job.practice = p
    BY DEF vars
  <2>1. PICK w \in Workers : Acts(w)
    BY DEF Next, Acts
  <2>2. cov \in [Practices -> Rating] /\ TypeOK
    BY DEF TypeInv, TypeOK
  <2>3. CASE AdjustScore(w)
    <3>1. /\ req[w] # Idle /\ req[w].job.op = "score"
          /\ \E score : cov' = [cov EXCEPT ![req[w].job.practice].final = score]
      BY <2>3 DEF AdjustScore, Serves
    <3>2. req[w].job.practice = p
      BY <2>2, <3>1
    <3> QED
      BY <3>1, <3>2
  <2>4. CASE Approve(w)
    <3> DEFINE seen == req[w].seen
    <3>1. req[w] # Idle /\ req[w].job.op = "approve"
      BY <2>4 DEF Approve, Serves
    <3>2. seen.cov[p].final = cov[p].final
      BY <3>1 DEF ReviewerInv, FinalsCurrent
    <3>3. ~Fills(seen.cov[p])
      BY <3>2 DEF Fills
    <3>4. cov'[p] = cov[p]
      BY <2>4, <3>3 DEF Approve
    <3> QED
      BY <3>4
  <2> QED
    BY <2>1, <2>3, <2>4, FinalsWriter
<1>2. TypeInv /\ ReviewerInv /\ [Next]_vars => ReviewerInv'
  BY ReviewerStep
<1> QED
  BY <1>1, <1>2, ReviewerInit, TypeInvInit, TypeInvStep, PTL
  DEF Spec, FinalsKept

=============================================================================
