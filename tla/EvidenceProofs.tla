----------------------------- MODULE EvidenceProofs -----------------------------
(***************************************************************************)
(* What holds of the evidence for any projects, repositories, sessions and *)
(* requests, however the providers answer.                                 *)
(***************************************************************************)
EXTENDS Evidence, Least, FiniteSetTheorems, TLAPS

-----------------------------------------------------------------------------
(* The inductive invariant *)

\* Pages 1 to n of issues, each once and in order.
Pages(n) == [p \in 1..n |-> p]

\* The issues are asked for before all but the list of pipelines, and only what the
\* selection names is asked for.
Ordered(asks) ==
  \A i, j \in DOMAIN asks : i < j /\ asks[j] = "issues" => asks[i] = "pipelines"
Selected(source, asks) ==
  \A i \in DOMAIN asks : /\ asks[i] \in Kinds => source.repo # None
                         /\ asks[i] = "issues" => source.project # None
Pending(asks) == \E i \in DOMAIN asks : asks[i] = "issues"

\* A search that goes on has all pages before the one it asks for, and has seen the
\* tokens of all pages up to it: whatever is handed out again, it notices.
Searching(s, total) ==
  /\ s.token = 1 \/ s.token <= total
  /\ s.token \in Nat \ {0}
  /\ 2..s.token \subseteq s.seen
  /\ s.got = Pages(s.token - 1)

Searched(source, asks, search, failed) ==
  source.project # None /\ "jira" \notin failed =>
    IF Pending(asks) THEN Searching(search, PagesOf[source.project])
    ELSE search.got = Pages(PagesOf[source.project])

RequestOK(w) ==
  LET r == req[w]
  IN r # Idle =>
       /\ r \in Short \cup Reader
       /\ r.job \in JobsOf[w]
       /\ r.snapshot \in 0..Len(snapshots)
       /\ r.job.op \in {"exclude", "confirm"} => r.snapshot # 0
       /\ r.phase # "loaded" => Ordered(r.asks) /\ Selected(r.source, r.asks)
       /\ r.phase # "loaded" /\ r.job.op = "collect" =>
            Searched(r.source, r.asks, r.search, r.failed)
       /\ r.phase = "stored" => r.asks = <<>> /\ r.file \in payloads

IssuesOK(s) ==
  s.jira \notin {"connection_failure", "interview_only"}
    => s.issues = Pages(PagesOf[s.source.project])
QualityOK(s) ==
  LET selected == {s.jira, s.azure} \ {"interview_only"}
  IN /\ s.jira = "interview_only" <=> s.source.project = None
     /\ s.azure = "interview_only" <=> s.source.repo = None
     /\ selected = {} <=> s.quality = "interview_only"
     /\ \A q \in selected : Rank(s.quality) <= Rank(q)

\* What a snapshot was when it was written, and stays.
Sound(s) == s \in Snapshot /\ IssuesOK(s) /\ QualityOK(s)

SnapshotsOK ==
  /\ snapshots \in Seq(Snapshot)
  /\ \A i \in DOMAIN snapshots :
       /\ Sound(snapshots[i]) /\ snapshots[i].file \in payloads
       /\ snapshots[i].supersededBy \in {0} \cup (i + 1)..Len(snapshots)

Inv ==
  /\ status \in Statuses
  /\ selection \in Selection \cup {None}
  /\ SnapshotsOK
  /\ \E n \in Nat : payloads = 1..n
  /\ lock \in Workers \cup {None}
  /\ DOMAIN req = Workers /\ req = [w \in Workers |-> req[w]]
  /\ \A w \in Workers : RequestOK(w)

-----------------------------------------------------------------------------
(* Data *)

LEMMA JobTypes ==
  ASSUME NEW job \in Job
  PROVE  /\ job.op \in {"select", "move", "collect", "exclude", "confirm"}
         /\ job.op = "select" => job.to \in Selection
         /\ job.op = "move" => job.to \in Statuses
         /\ job.op = "exclude" => job.labels \subseteq Labels
BY DEF Job

LEMMA InFlight ==
  ASSUME Inv, NEW w \in Workers, req[w] # Idle
  PROVE  /\ req[w] \in Short \cup Reader /\ RequestOK(w)
         /\ req[w].job \in Job
         /\ req[w].phase # "loaded" => req[w] \in Reader
<1>1. RequestOK(w) /\ req[w] \in Short \cup Reader /\ req[w].job \in JobsOf[w]
  BY DEF Inv, RequestOK
<1>2. req[w].job \in Job
  BY <1>1, EvidenceAssumption
<1>3. req[w] \in Short => req[w].phase = "loaded"
  BY DEF Short
<1> QED
  BY <1>1, <1>2, <1>3

\* The ranks of the qualities, from the worst to the best.
LEMMA RankOf ==
  ASSUME NEW q \in Quality, q # "interview_only"
  PROVE  Rank(q) \in 1..6 /\ Qualities[Rank(q)] = q
<1>1. DOMAIN Qualities = 1..6
  BY DEF Qualities
<1>2. PICK i \in DOMAIN Qualities : Qualities[i] = q
  BY DEF Quality
<1> QED
  BY <1>1, <1>2 DEF Rank

LEMMA RankAt ==
  ASSUME NEW i \in 1..6
  PROVE  /\ Rank(Qualities[i]) = i /\ Qualities[i] \in Quality
         /\ Qualities[i] # "interview_only"
<1>1. DOMAIN Qualities = 1..6
  BY DEF Qualities
<1>2. \A j \in 1..6 : Qualities[j] = Qualities[i] => j = i
  BY DEF Qualities
<1>3. Qualities[i] # "interview_only"
  BY DEF Qualities
<1> QED
  BY <1>1, <1>2, <1>3 DEF Rank, Quality

\* The worse of two qualities, or the one that was selected.
LEMMA CombineWorst ==
  ASSUME NEW jira \in Quality, NEW azure \in Quality
  PROVE  LET selected == {jira, azure} \ {"interview_only"}
         IN /\ Combine(jira, azure) \in Quality
            /\ selected = {} <=> Combine(jira, azure) = "interview_only"
            /\ \A q \in selected : Rank(Combine(jira, azure)) <= Rank(q)
<1>1. CASE jira = "interview_only"
  BY <1>1, RankOf DEF Combine
<1>2. CASE jira # "interview_only" /\ azure = "interview_only"
  BY <1>2, RankOf DEF Combine
<1>3. CASE jira # "interview_only" /\ azure # "interview_only"
  <2> DEFINE ranks == {Rank(jira), Rank(azure)}
             worst == Qualities[Min(ranks)]
  <2>1. ranks \in SUBSET Nat /\ ranks # {} /\ ranks \subseteq 1..6
    BY <1>3, RankOf
  <2>2. Min(ranks) \in 1..6 /\ Min(ranks) <= Rank(jira) /\ Min(ranks) <= Rank(azure)
    BY <2>1, MinNat
  <2>3. Rank(worst) = Min(ranks) /\ worst \in Quality /\ worst # "interview_only"
    BY <2>2, RankAt
  <2>4. Combine(jira, azure) = worst
    BY <1>3 DEF Combine
  <2> HIDE DEF worst, ranks
  <2> QED
    BY <1>3, <2>2, <2>3, <2>4
<1> QED
  BY <1>1, <1>2, <1>3

LEMMA JudgedType ==
  ASSUME NEW failed \in BOOLEAN, NEW empty \in BOOLEAN
  PROVE  /\ \A q \in JiraJudged(failed, empty) :
              /\ q \in Quality /\ q # "interview_only"
              /\ failed => q = "connection_failure"
         /\ \A q \in AzureJudged(failed, empty) : q \in Quality /\ q # "interview_only"
<1>1. /\ "connection_failure" = Qualities[1] /\ "no_activity" = Qualities[2]
      /\ "incomplete_adoption" = Qualities[3] /\ "unrepresentative" = Qualities[4]
      /\ "reliable_immature" = Qualities[5] /\ "reliable" = Qualities[6]
  BY DEF Qualities
<1>2. {"connection_failure", "no_activity", "incomplete_adoption", "unrepresentative",
       "reliable_immature", "reliable"} \subseteq Quality \ {"interview_only"}
  BY <1>1, RankAt
<1> QED
  BY <1>2 DEF JiraJudged, AzureJudged, JiraQuality, AzureQuality

-----------------------------------------------------------------------------
(* The search for issues *)

LEMMA PagesAppend ==
  ASSUME NEW n \in Nat
  PROVE  Append(Pages(n), n + 1) = Pages(n + 1) /\ Pages(n) \in Seq(Nat)
<1>1. Pages(n) \in Seq(Nat) /\ Len(Pages(n)) = n
  BY DEF Pages
<1>2. Pages(n + 1) \in Seq(Nat) /\ Len(Pages(n + 1)) = n + 1
  BY DEF Pages
<1>3. Append(Pages(n), n + 1) \in Seq(Nat) /\ Len(Append(Pages(n), n + 1)) = n + 1
  BY <1>1
<1>4. \A p \in 1..(n + 1) : Append(Pages(n), n + 1)[p] = p /\ Pages(n + 1)[p] = p
  BY <1>1 DEF Pages
<1> QED
  BY <1>1, <1>2, <1>3, <1>4

\* A round of the search ends it with all pages, finds a token it has seen, or goes on.
LEMMA SearchRound ==
  ASSUME NEW total \in Nat, NEW s \in Search, Searching(s, total),
         NEW next \in NextTokens(s, total)
  PROVE  LET taken == Takes(s, total)
         IN /\ taken \in Search
            /\ Over(next) => taken.got = Pages(total)
            /\ ~Over(next) /\ ~Stalls(taken, next) =>
                 /\ GoesOn(taken, next) \in Search
                 /\ Searching(GoesOn(taken, next), total)
<1> DEFINE taken == Takes(s, total)
           t == s.token
<1>1. /\ t \in Nat \ {0} /\ s.page \in Nat /\ s.seen \subseteq Nat /\ s.got \in Seq(Nat)
      /\ t = 1 \/ t <= total
      /\ 2..t \subseteq s.seen /\ s.got = Pages(t - 1)
  BY DEF Search, Searching
<1>2. next \in Nat
  BY <1>1 DEF NextTokens
<1>3. /\ taken \in Search /\ taken.token = t /\ taken.seen = s.seen /\ taken.page = s.page
      /\ taken.got = IF t <= total THEN Pages(t) ELSE Pages(0)
  <2>1. CASE t <= total
    <3>1. Append(s.got, t) \in Seq(Nat)
      BY <1>1
    <3>2. taken = [s EXCEPT !.got = Append(s.got, t)]
      BY <2>1 DEF Takes
    <3>3. Append(Pages(t - 1), t) = Pages(t)
      <4>1. t \in Nat \ {0}
        BY <1>1
      <4> HIDE DEF t
      <4>2. t - 1 \in Nat /\ (t - 1) + 1 = t
        BY <4>1
      <4> QED
        BY <4>2, PagesAppend
    <3> QED
      BY <1>1, <2>1, <3>1, <3>2, <3>3 DEF Search
  <2>2. CASE ~(t <= total)
    BY <1>1, <2>2 DEF Takes
  <2> QED
    BY <2>1, <2>2
<1> HIDE DEF taken, t
<1>4. ASSUME Over(next) PROVE taken.got = Pages(total)
  <2>1. ~(t < total)
    BY <1>1, <1>4 DEF Over, NextTokens, t
  <2>2. CASE t <= total
    BY <1>1, <1>3, <2>1, <2>2
  <2>3. CASE ~(t <= total)
    <3>1. total = 0
      BY <1>1, <2>3
    <3> QED
      BY <1>3, <2>3, <3>1
  <2> QED
    BY <2>2, <2>3
<1>5. ASSUME ~Over(next), ~Stalls(taken, next)
      PROVE  GoesOn(taken, next) \in Search /\ Searching(GoesOn(taken, next), total)
  <2>1. next = t + 1 /\ t < total
    BY <1>1, <1>3, <1>5 DEF Over, NextTokens, Stalls, t
  <2> DEFINE went == GoesOn(taken, next)
  <2>2. /\ went.token = t + 1 /\ went.seen = s.seen \cup {t + 1} /\ went.got = Pages(t)
        /\ went \in Search
    <3>1. /\ taken \in Search /\ taken.got = Pages(t) /\ taken.seen = s.seen
          /\ taken.page + 1 \in Nat /\ taken.seen \cup {next} \in SUBSET Nat /\ next = t + 1
      BY <1>1, <1>2, <1>3, <2>1
    <3>2. went \in Search /\ went.token = next /\ went.seen = taken.seen \cup {next}
          /\ went.got = taken.got
      BY <1>2, <3>1 DEF GoesOn, Search
    <3> QED
      BY <3>1, <3>2
  <2> HIDE DEF went
  <2>3. 2..(t + 1) \subseteq s.seen \cup {t + 1}
    BY <1>1
  <2>4. (t + 1) - 1 = t /\ t + 1 <= total /\ t + 1 \in Nat \ {0}
    BY <1>1, <2>1
  <2>5. Searching(went, total)
    BY <2>2, <2>3, <2>4 DEF Searching
  <2> QED
    BY <2>2, <2>5 DEF went
<1> QED
  BY <1>3, <1>4, <1>5 DEF taken

LEMMA SearchTypes ==
  ASSUME NEW total \in Nat, NEW s \in Search, NEW next \in NextTokens(s, total)
  PROVE  /\ Takes(s, total) \in Search
         /\ ~Over(next) => GoesOn(Takes(s, total), next) \in Search
<1> DEFINE taken == Takes(s, total)
<1>1. /\ s.token \in Nat /\ s.page \in Nat /\ s.seen \in SUBSET Nat /\ s.got \in Seq(Nat)
      /\ Append(s.got, s.token) \in Seq(Nat)
  BY DEF Search
<1>2. taken \in Search
  BY <1>1 DEF Search, Takes
<1>3. next \in Nat
  BY <1>1 DEF NextTokens
<1> HIDE DEF taken
<1>4. taken.page + 1 \in Nat /\ taken.seen \cup {next} \in SUBSET Nat
  BY <1>2, <1>3 DEF Search
<1>5. GoesOn(taken, next) \in Search
  BY <1>2, <1>3, <1>4 DEF GoesOn, Search
<1> QED
  BY <1>2, <1>5 DEF taken

\* What is left to ask for after the first.
LEMMA AsksLeft ==
  ASSUME NEW asks \in Seq(Ask), asks # <<>>, Ordered(asks)
  PROVE  /\ Tail(asks) \in Seq(Ask) /\ Ordered(Tail(asks)) /\ Head(asks) \in Ask
         /\ DOMAIN Tail(asks) = 1..(Len(asks) - 1) /\ DOMAIN asks = 1..Len(asks)
         /\ \A i \in DOMAIN Tail(asks) : i + 1 \in DOMAIN asks /\ Tail(asks)[i] = asks[i + 1]
         /\ Head(asks) = "issues" => Pending(asks) /\ ~Pending(Tail(asks))
         /\ Head(asks) = "pipelines" => (Pending(Tail(asks)) <=> Pending(asks))
         /\ Head(asks) \in Kinds => ~Pending(asks) /\ ~Pending(Tail(asks))
<1>1. /\ Len(asks) \in Nat \ {0} /\ Tail(asks) \in Seq(Ask) /\ DOMAIN asks = 1..Len(asks)
      /\ Len(Tail(asks)) = Len(asks) - 1 /\ DOMAIN Tail(asks) = 1..(Len(asks) - 1)
      /\ Head(asks) = asks[1] /\ asks[1] \in Ask
      /\ \A i \in 1..(Len(asks) - 1) : Tail(asks)[i] = asks[i + 1]
  OBVIOUS
<1>2. \A i \in DOMAIN Tail(asks) : i + 1 \in DOMAIN asks /\ Tail(asks)[i] = asks[i + 1]
  BY <1>1
<1>3. Ordered(Tail(asks))
  <2> SUFFICES ASSUME NEW i \in DOMAIN Tail(asks), NEW j \in DOMAIN Tail(asks),
                      i < j, Tail(asks)[j] = "issues"
               PROVE  Tail(asks)[i] = "pipelines"
    BY DEF Ordered
  <2>1. i + 1 < j + 1
    BY <1>1
  <2> QED
    BY <1>2, <2>1 DEF Ordered
<1>4. Head(asks) # "pipelines" => ~Pending(Tail(asks))
  <2> SUFFICES ASSUME NEW i \in DOMAIN Tail(asks), Tail(asks)[i] = "issues"
               PROVE  Head(asks) = "pipelines"
    BY DEF Pending
  <2>1. 1 \in DOMAIN asks /\ 1 < i + 1 /\ i + 1 \in DOMAIN asks /\ asks[i + 1] = "issues"
    BY <1>1, <1>2
  <2> QED
    BY <1>1, <2>1 DEF Ordered
<1>5. \A j \in DOMAIN asks : j # 1 => j - 1 \in DOMAIN Tail(asks) /\ Tail(asks)[j - 1] = asks[j]
  BY <1>1
<1>6. Pending(asks) <=> Head(asks) = "issues" \/ Pending(Tail(asks))
  <2>1. 1 \in DOMAIN asks
    BY <1>1
  <2> QED
    BY <1>1, <1>2, <1>5, <2>1 DEF Pending
<1> QED
  BY <1>1, <1>2, <1>3, <1>4, <1>6 DEF Kinds

LEMMA NothingAsked ==
  Ordered(<<>>) /\ ~Pending(<<>>) /\ <<>> \in Seq(Ask) /\ DOMAIN <<>> = {}
<1>1. <<>> \in Seq(Ask) /\ DOMAIN <<>> = {}
  OBVIOUS
<1> QED
  BY <1>1 DEF Ordered, Pending

-----------------------------------------------------------------------------
(* Steps *)

LEMMA RequestKept ==
  ASSUME Inv, NEW v \in Workers, req'[v] = req[v], Len(snapshots') \in Nat,
         Len(snapshots) <= Len(snapshots'), payloads \subseteq payloads'
  PROVE  RequestOK(v)'
<1>1. RequestOK(v) /\ Len(snapshots) \in Nat
  BY DEF Inv, SnapshotsOK
<1>2. 0..Len(snapshots) \subseteq 0..Len(snapshots')
  BY <1>1
<1> QED
  BY <1>1, <1>2 DEF RequestOK

LEMMA SnapshotsKept ==
  ASSUME Inv, UNCHANGED snapshots, payloads \subseteq payloads'
  PROVE  SnapshotsOK' /\ Len(snapshots') \in Nat /\ Len(snapshots) = Len(snapshots')
BY DEF Inv, SnapshotsOK

LEMMA Assembled ==
  ASSUME Inv, NEW w \in Workers, NEW r, req' = [req EXCEPT ![w] = r], RequestOK(w)',
         SnapshotsOK', Len(snapshots) <= Len(snapshots'), payloads \subseteq payloads',
         \E n \in Nat : payloads' = 1..n,
         status' \in Statuses, selection' \in Selection \cup {None},
         lock' \in Workers \cup {None}
  PROVE  Inv'
<1>1. Len(snapshots') \in Nat
  BY DEF SnapshotsOK
<1>2. \A v \in Workers \ {w} : req'[v] = req[v]
  BY DEF Inv
<1>3. \A v \in Workers : RequestOK(v)'
  BY <1>1, <1>2, RequestKept
<1>4. DOMAIN req' = Workers /\ req' = [v \in Workers |-> req'[v]]
  BY DEF Inv
<1> QED
  BY <1>3, <1>4 DEF Inv

LEMMA Finished ==
  ASSUME Inv, NEW w \in Workers, Finish(w), SnapshotsOK',
         Len(snapshots) <= Len(snapshots'), UNCHANGED payloads,
         status' \in Statuses, selection' \in Selection \cup {None}
  PROVE  Inv'
<1>1. req' = [req EXCEPT ![w] = Idle] /\ lock' \in Workers \cup {None}
  BY DEF Finish, Inv
<1>2. req'[w] = Idle
  BY <1>1 DEF Inv
<1>3. RequestOK(w)'
  BY <1>2 DEF RequestOK
<1> QED
  BY <1>1, <1>3, Assembled DEF Inv

LEMMA QuietFinish ==
  ASSUME Inv, NEW w \in Workers, Finish(w), UNCHANGED <<snapshots, payloads>>,
         status' \in Statuses, selection' \in Selection \cup {None}
  PROVE  Inv'
<1>1. SnapshotsOK' /\ Len(snapshots') \in Nat /\ Len(snapshots) = Len(snapshots')
  BY SnapshotsKept
<1>2. Len(snapshots) <= Len(snapshots')
  BY <1>1
<1> QED
  BY <1>1, <1>2, Finished

LEMMA AbortStep ==
  ASSUME Inv, NEW w \in Workers, Abort(w)
  PROVE  Inv'
BY QuietFinish DEF Abort, Finish, tables, Inv

LEMMA SelectStep ==
  ASSUME Inv, NEW w \in Workers, Select(w)
  PROVE  Inv'
<1>1. req[w].job.to \in Selection
  BY InFlight, JobTypes DEF Select, Serves
<1> QED
  BY <1>1, QuietFinish DEF Select, Inv

LEMMA MoveStep ==
  ASSUME Inv, NEW w \in Workers, Move(w)
  PROVE  Inv'
<1>1. req[w].job.to \in Statuses
  BY InFlight, JobTypes DEF Move, Serves
<1> QED
  BY <1>1, QuietFinish DEF Move, Inv

\* A snapshot that is written again keeps its source and what was read from it.
LEMMA Rewritten ==
  ASSUME Inv, NEW i \in DOMAIN snapshots, NEW s, Sound(s),
         s.file = snapshots[i].file, s.supersededBy = snapshots[i].supersededBy,
         snapshots' = [snapshots EXCEPT ![i] = s], UNCHANGED payloads
  PROVE  SnapshotsOK' /\ Len(snapshots) <= Len(snapshots')
<1>1. s \in Snapshot /\ snapshots \in Seq(Snapshot)
  BY DEF Inv, SnapshotsOK, Sound
<1>2. /\ snapshots' \in Seq(Snapshot) /\ Len(snapshots') = Len(snapshots)
      /\ DOMAIN snapshots' = DOMAIN snapshots /\ Len(snapshots) \in Nat
      /\ snapshots'[i] = s
      /\ \A j \in DOMAIN snapshots : j # i => snapshots'[j] = snapshots[j]
  BY <1>1
<1>3. \A j \in DOMAIN snapshots' :
        /\ Sound(snapshots'[j]) /\ snapshots'[j].file \in payloads'
        /\ snapshots'[j].supersededBy \in {0} \cup (j + 1)..Len(snapshots')
  BY <1>2 DEF Inv, SnapshotsOK
<1> QED
  BY <1>2, <1>3 DEF SnapshotsOK

LEMMA ConfirmStep ==
  ASSUME Inv, NEW w \in Workers, Confirm(w)
  PROVE  Inv'
<1> DEFINE i == req[w].snapshot
           s == [snapshots[i] EXCEPT !.immutable = TRUE]
<1>1. /\ req[w] # Idle /\ req[w].job.op = "confirm" /\ Finish(w)
      /\ snapshots' = [snapshots EXCEPT ![i].immutable = TRUE]
      /\ UNCHANGED <<status, selection, payloads>>
  BY DEF Confirm, Serves
<1>2. i \in 0..Len(snapshots) /\ i # 0 /\ snapshots \in Seq(Snapshot)
  BY <1>1, InFlight DEF RequestOK, Inv, SnapshotsOK
<1>3. i \in DOMAIN snapshots
  BY <1>2
<1> HIDE DEF i
<1>4. Sound(snapshots[i]) /\ snapshots[i] \in Snapshot
  BY <1>3 DEF Inv, SnapshotsOK, Sound
<1>5. Sound(s) /\ s.file = snapshots[i].file /\ s.supersededBy = snapshots[i].supersededBy
  BY <1>4 DEF Sound, Snapshot, IssuesOK, QualityOK
<1>6. snapshots' = [snapshots EXCEPT ![i] = s]
  BY <1>1
<1> HIDE DEF s
<1>7. SnapshotsOK' /\ Len(snapshots) <= Len(snapshots')
  BY <1>1, <1>3, <1>5, <1>6, Rewritten
<1> QED
  BY <1>1, <1>7, Finished DEF Inv

LEMMA ExcludeStep ==
  ASSUME Inv, NEW w \in Workers, Exclude(w)
  PROVE  Inv'
<1> DEFINE i == req[w].snapshot
           labels == req[w].job.labels
           figures == Remaining(req[w].items, labels)
           s == [snapshots[i] EXCEPT !.excluded = labels, !.figures = figures]
<1>1. /\ req[w] # Idle /\ req[w].job.op = "exclude" /\ req[w].phase = "asking" /\ Finish(w)
      /\ snapshots' = [snapshots EXCEPT ![i].excluded = labels, ![i].figures = figures]
      /\ UNCHANGED <<status, selection, payloads>>
  BY DEF Exclude, Serves
<1>2. i \in 0..Len(snapshots) /\ i # 0 /\ snapshots \in Seq(Snapshot)
  BY <1>1, InFlight DEF RequestOK, Inv, SnapshotsOK
<1>3. i \in DOMAIN snapshots
  BY <1>2
<1>4. req[w] \in Reader /\ labels \in SUBSET Labels
  BY <1>1, InFlight, JobTypes
<1>5. figures \in SUBSET Item
  BY <1>4 DEF Reader, Remaining
<1> HIDE DEF i, labels, figures
<1>6. Sound(snapshots[i]) /\ snapshots[i] \in Snapshot
  BY <1>3 DEF Inv, SnapshotsOK, Sound
<1>7. Sound(s) /\ s.file = snapshots[i].file /\ s.supersededBy = snapshots[i].supersededBy
  BY <1>4, <1>5, <1>6 DEF Sound, Snapshot, IssuesOK, QualityOK
<1>8. snapshots' = [snapshots EXCEPT ![i] = s]
  BY <1>1, <1>2, <1>3
<1> HIDE DEF s
<1>9. SnapshotsOK' /\ Len(snapshots) <= Len(snapshots')
  BY <1>1, <1>3, <1>7, <1>8, Rewritten
<1> QED
  BY <1>1, <1>9, Finished DEF Inv

LEMMA StoreStep ==
  ASSUME Inv, NEW w \in Workers, Store(w)
  PROVE  Inv'
<1> DEFINE r == req[w]
           f == Cardinality(payloads) + 1
           s == [r EXCEPT !.phase = "stored", !.file = f]
<1>1. PICK n \in Nat : payloads = 1..n
  BY DEF Inv
<1>2. f = n + 1
  <2>1. Cardinality(1..n) = IF 1 > n THEN 0 ELSE n - 1 + 1
    BY FS_Interval
  <2> QED
    BY <1>1, <2>1
<1>3. /\ r # Idle /\ r.job.op = "collect" /\ r.phase = "asking" /\ r.asks = <<>>
      /\ payloads' = payloads \cup {f}
      /\ req' = [req EXCEPT ![w].phase = "stored", ![w].file = f]
      /\ UNCHANGED <<status, selection, snapshots, lock>>
  BY DEF Store, Serves, Stores, tables
<1>4. /\ RequestOK(w) /\ r \in Reader /\ r.job \in JobsOf[w] /\ r.snapshot \in 0..Len(snapshots)
      /\ Ordered(r.asks) /\ Selected(r.source, r.asks)
      /\ Searched(r.source, r.asks, r.search, r.failed)
  BY <1>3, InFlight DEF RequestOK
<1>5. payloads' = 1..(n + 1) /\ n + 1 \in Nat /\ f \in Nat /\ f \in payloads'
  BY <1>1, <1>2, <1>3
<1> HIDE DEF f
<1>6. req' = [req EXCEPT ![w] = s]
  BY <1>3 DEF Inv
<1>7. /\ s \in Reader /\ s.phase = "stored" /\ s.file = f /\ s.asks = <<>> /\ s.job = r.job
      /\ s.snapshot = r.snapshot /\ s.source = r.source /\ s.search = r.search
      /\ s.failed = r.failed
  BY <1>3, <1>4, <1>5 DEF Reader
<1> HIDE DEF s
<1>8. req'[w] = s
  BY <1>6 DEF Inv
<1>9. RequestOK(w)'
  BY <1>3, <1>4, <1>5, <1>7, <1>8 DEF RequestOK
<1>10. SnapshotsOK' /\ Len(snapshots) <= Len(snapshots') /\ payloads \subseteq payloads'
  <2>1. payloads \subseteq payloads' /\ UNCHANGED snapshots
    BY <1>3
  <2>2. SnapshotsOK' /\ Len(snapshots') \in Nat /\ Len(snapshots) = Len(snapshots')
    BY <2>1, SnapshotsKept
  <2> QED
    BY <2>1, <2>2
<1> QED
  BY <1>3, <1>5, <1>6, <1>9, <1>10, Assembled DEF Inv

LEMMA SupersededSound ==
  ASSUME NEW s, Sound(s), NEW m \in Nat
  PROVE  LET old == [s EXCEPT !.supersededBy = m]
         IN /\ Sound(old) /\ old \in Snapshot /\ old.file = s.file /\ old.supersededBy = m
            /\ old.immutable = s.immutable /\ old.figures = s.figures
            /\ old.excluded = s.excluded
BY DEF Sound, Snapshot, IssuesOK, QualityOK

LEMMA SupersedesWrites ==
  ASSUME Inv, NEW w \in Workers, req[w].snapshot \in 0..Len(snapshots)
  PROVE  LET base == Supersedes(w)
             n == Len(snapshots)
         IN /\ base \in Seq(Snapshot) /\ Len(base) = n /\ n \in Nat
            /\ \A i \in 1..n :
                 /\ Sound(base[i]) /\ base[i].file \in payloads
                 /\ base[i].supersededBy \in {0} \cup (i + 1)..(n + 1)
                 /\ base[i].immutable = snapshots[i].immutable
                 /\ base[i].figures = snapshots[i].figures
                 /\ base[i].excluded = snapshots[i].excluded
<1> DEFINE r == req[w]
           n == Len(snapshots)
           base == Supersedes(w)
<1>1. /\ snapshots \in Seq(Snapshot) /\ n \in Nat /\ DOMAIN snapshots = 1..n
      /\ \A i \in 1..n :
           /\ snapshots[i] \in Snapshot
           /\ Sound(snapshots[i]) /\ snapshots[i].file \in payloads
           /\ snapshots[i].supersededBy \in {0} \cup (i + 1)..n
  BY DEF Inv, SnapshotsOK
<1>2. CASE base = snapshots
  BY <1>1, <1>2
<1>3. CASE base # snapshots
  <2> DEFINE k == r.snapshot
             old == [snapshots[k] EXCEPT !.supersededBy = n + 1]
  <2>1. k # 0 /\ base = [snapshots EXCEPT ![k].supersededBy = n + 1]
    BY <1>3 DEF Supersedes
  <2>2. k \in 1..n
    BY  <1>1, <2>1
  <2> HIDE DEF k
  <2>3. /\ Sound(old) /\ old.file = snapshots[k].file /\ old.supersededBy = n + 1
        /\ old \in Snapshot /\ old.immutable = snapshots[k].immutable
        /\ old.figures = snapshots[k].figures /\ old.excluded = snapshots[k].excluded
    <3>1. Sound(snapshots[k]) /\ n + 1 \in Nat
      BY <1>1, <2>2
    <3> QED
      BY <3>1, SupersededSound
  <2>4. base = [snapshots EXCEPT ![k] = old]
    BY <2>1
  <2> HIDE DEF old, base
  <2>5. /\ base \in Seq(Snapshot) /\ Len(base) = n /\ base[k] = old
        /\ \A i \in 1..n : i # k => base[i] = snapshots[i]
    BY <1>1, <2>2, <2>3, <2>4
  <2>6. \A i \in 1..n :
          /\ Sound(base[i]) /\ base[i].file \in payloads
          /\ base[i].supersededBy \in {0} \cup (i + 1)..(n + 1)
          /\ base[i].immutable = snapshots[i].immutable
          /\ base[i].figures = snapshots[i].figures
          /\ base[i].excluded = snapshots[i].excluded
    BY <1>1, <2>2, <2>3, <2>5
  <2> QED
    BY <1>1, <2>5, <2>6 DEF base
<1> QED
  BY <1>2, <1>3

LEMMA CollectStep ==
  ASSUME Inv, NEW w \in Workers, Collect(w)
  PROVE  Inv'
<1> DEFINE r == req[w]
           n == Len(snapshots)
           base == Supersedes(w)
<1>1. /\ r # Idle /\ r.job.op = "collect" /\ r.phase = "stored" /\ Finish(w)
      /\ UNCHANGED <<selection, payloads>>
      /\ status' = IF r.status \in {"setup", "collecting_evidence"}
                   THEN "evidence_ready" ELSE status
  BY DEF Collect, Serves
<1>2. /\ r \in Reader /\ r.snapshot \in 0..n /\ r.asks = <<>> /\ r.file \in payloads
      /\ Searched(r.source, <<>>, r.search, r.failed)
  BY <1>1, InFlight DEF RequestOK
<1>3. PICK jira \in Judged(r.source.project,
                      JiraJudged("jira" \in r.failed, r.search.got = <<>>)),
           azure \in Judged(r.source.repo,
                       AzureJudged("azure" \in r.failed, r.items = {})) :
        snapshots' = Append(base,
          [source |-> r.source, file |-> r.file, issues |-> r.search.got,
           figures |-> r.items, jira |-> jira, azure |-> azure,
           quality |-> Combine(jira, azure), excluded |-> {},
           immutable |-> FALSE, supersededBy |-> 0])
  BY DEF Collect
<1> DEFINE s == [source |-> r.source, file |-> r.file, issues |-> r.search.got,
                 figures |-> r.items, jira |-> jira, azure |-> azure,
                 quality |-> Combine(jira, azure), excluded |-> {},
                 immutable |-> FALSE, supersededBy |-> 0]
<1>4. /\ r.source \in Selection /\ r.file \in Nat /\ r.items \in SUBSET Item
      /\ r.search \in Search /\ r.search.got \in Seq(Nat)
  BY <1>2 DEF Reader, Search
<1>5. /\ jira \in Quality /\ azure \in Quality
      /\ jira = "interview_only" <=> r.source.project = None
      /\ azure = "interview_only" <=> r.source.repo = None
      /\ r.source.project # None /\ "jira" \in r.failed => jira = "connection_failure"
  <2> DEFINE jf == "jira" \in r.failed
             je == r.search.got = <<>>
             af == "azure" \in r.failed
             ae == r.items = {}
  <2>1. jf \in BOOLEAN /\ je \in BOOLEAN /\ af \in BOOLEAN /\ ae \in BOOLEAN
    OBVIOUS
  <2>2. jira \in Judged(r.source.project, JiraJudged(jf, je))
        /\ azure \in Judged(r.source.repo, AzureJudged(af, ae))
    OBVIOUS
  <2>3. "interview_only" \in Quality
    BY DEF Quality
  <2>4. jf <=> "jira" \in r.failed
    OBVIOUS
  <2> HIDE DEF jf, je, af, ae
  <2>5. /\ \A q \in JiraJudged(jf, je) : /\ q \in Quality /\ q # "interview_only"
                                         /\ jf => q = "connection_failure"
        /\ \A q \in AzureJudged(af, ae) : q \in Quality /\ q # "interview_only"
    BY <2>1, JudgedType
  <2> QED
    BY <2>2, <2>3, <2>4, <2>5 DEF Judged
<1>6. /\ Combine(jira, azure) \in Quality
      /\ {jira, azure} \ {"interview_only"} = {} <=> Combine(jira, azure) = "interview_only"
      /\ \A q \in {jira, azure} \ {"interview_only"} : Rank(Combine(jira, azure)) <= Rank(q)
  BY <1>5, CombineWorst
<1>7. s \in Snapshot
  BY <1>4, <1>5, <1>6 DEF Snapshot
<1>8. IssuesOK(s)
  BY <1>2, <1>5, NothingAsked DEF IssuesOK, Searched
<1>9. QualityOK(s)
  BY <1>5, <1>6 DEF QualityOK
<1>10. Sound(s) /\ s.file \in payloads /\ s.supersededBy = 0
  BY <1>2, <1>7, <1>8, <1>9 DEF Sound
<1>11. /\ base \in Seq(Snapshot) /\ Len(base) = n /\ n \in Nat
       /\ \A i \in 1..n :
            /\ Sound(base[i]) /\ base[i].file \in payloads
            /\ base[i].supersededBy \in {0} \cup (i + 1)..(n + 1)
  BY <1>2, SupersedesWrites
<1> HIDE DEF s, base, n
<1>12. /\ snapshots' \in Seq(Snapshot) /\ Len(snapshots') = n + 1
       /\ DOMAIN snapshots' = 1..(n + 1)
       /\ snapshots'[n + 1] = s /\ \A i \in 1..n : snapshots'[i] = base[i]
  BY <1>3, <1>7, <1>11 DEF s
<1>13. \A i \in 1..(n + 1) :
         /\ Sound(snapshots'[i]) /\ snapshots'[i].file \in payloads
         /\ snapshots'[i].supersededBy \in {0} \cup (i + 1)..(n + 1)
  BY <1>10, <1>11, <1>12
<1>14. SnapshotsOK' /\ Len(snapshots) <= Len(snapshots')
  BY <1>1, <1>11, <1>12, <1>13 DEF SnapshotsOK, n
<1>15. status' \in Statuses
  BY <1>1 DEF Inv, Statuses
<1> QED
  BY <1>1, <1>14, <1>15, Finished DEF Inv

\* A request to a provider that has ended.
LEMMA AskedStep ==
  ASSUME Inv, NEW w \in Workers, req[w] \in Reader, req[w].phase = "asking",
         req[w] # Idle, UNCHANGED <<tables, payloads, lock>>,
         NEW asks \in Seq(Ask), NEW search \in Search, NEW items \in SUBSET Item,
         NEW failed \in SUBSET {"jira", "azure"}, Goes(w, asks, search, items, failed),
         Ordered(asks), Selected(req[w].source, asks),
         req[w].job.op = "collect" => Searched(req[w].source, asks, search, failed)
  PROVE  Inv'
<1> DEFINE r == req[w]
           s == [r EXCEPT !.asks = asks, !.attempt = 1, !.search = search,
                          !.items = items, !.failed = failed]
<1>1. req' = [req EXCEPT ![w] = s]
  BY DEF Goes
<1>2. s \in Reader /\ s.asks = asks /\ s.search = search /\ s.failed = failed
      /\ s.job = r.job /\ s.snapshot = r.snapshot /\ s.source = r.source
      /\ s.phase = "asking"
  BY DEF Reader
<1> HIDE DEF s
<1>3. req'[w] = s
  BY <1>1 DEF Inv
<1>4. SnapshotsOK' /\ Len(snapshots) <= Len(snapshots') /\ payloads \subseteq payloads'
  BY SnapshotsKept DEF tables
<1>5. RequestOK(w)'
  BY <1>2, <1>3, InFlight DEF RequestOK, tables
<1> QED
  BY <1>1, <1>4, <1>5, Assembled DEF Inv, tables

LEMMA RetryStep ==
  ASSUME Inv, NEW w \in Workers, req[w] \in Reader, req[w].phase = "asking",
         req[w] # Idle, UNCHANGED <<tables, payloads, lock>>,
         req' = [req EXCEPT ![w].attempt = @ + 1]
  PROVE  Inv'
<1> DEFINE r == req[w]
           s == [r EXCEPT !.attempt = r.attempt + 1]
<1>1. req' = [req EXCEPT ![w] = s]
  OBVIOUS
<1>2. s \in Reader /\ s.asks = r.asks /\ s.search = r.search /\ s.failed = r.failed
      /\ s.job = r.job /\ s.snapshot = r.snapshot /\ s.source = r.source
      /\ s.phase = "asking"
  BY DEF Reader
<1> HIDE DEF s
<1>3. req'[w] = s
  BY <1>1 DEF Inv
<1>4. SnapshotsOK' /\ Len(snapshots) <= Len(snapshots') /\ payloads \subseteq payloads'
  BY SnapshotsKept DEF tables
<1>5. RequestOK(w)'
  BY <1>2, <1>3, InFlight DEF RequestOK, tables
<1> QED
  BY <1>1, <1>4, <1>5, Assembled DEF Inv, tables

LEMMA AskNextStep ==
  ASSUME Inv, NEW w \in Workers, AskNext(w)
  PROVE  Inv'
<1> DEFINE r == req[w]
           ask == Head(r.asks)
           rest == Tail(r.asks)
<1>1. /\ r # Idle /\ r.phase = "asking" /\ r.asks # <<>>
      /\ UNCHANGED <<tables, payloads, lock>>
  BY DEF AskNext
<1>2. /\ r \in Reader /\ r.asks \in Seq(Ask) /\ r.search \in Search /\ r.items \in SUBSET Item
      /\ r.failed \in SUBSET {"jira", "azure"} /\ r.source \in Selection
      /\ Ordered(r.asks) /\ Selected(r.source, r.asks)
      /\ r.job.op = "collect" => Searched(r.source, r.asks, r.search, r.failed)
  BY <1>1, InFlight DEF RequestOK, Reader
<1>3. /\ rest \in Seq(Ask) /\ Ordered(rest) /\ ask \in Ask
      /\ DOMAIN r.asks = 1..Len(r.asks)
      /\ \A i \in DOMAIN rest : i + 1 \in DOMAIN r.asks /\ rest[i] = r.asks[i + 1]
      /\ ask = "issues" => Pending(r.asks) /\ ~Pending(rest)
      /\ ask = "pipelines" => (Pending(rest) <=> Pending(r.asks))
      /\ ask \in Kinds => ~Pending(r.asks) /\ ~Pending(rest)
  BY <1>1, <1>2, AsksLeft
<1>4. Selected(r.source, rest)
  BY <1>2, <1>3 DEF Selected
<1>5. /\ ask \in Kinds => r.source.repo # None
      /\ ask = "issues" => r.source.project # None
  <2>1. 1 \in DOMAIN r.asks /\ ask = r.asks[1]
    BY <1>1, <1>2
  <2> QED
    BY <1>2, <2>1 DEF Selected
<1>6. NewSearch \in Search
  BY DEF NewSearch, Search
<1>7. ASSUME ask = "issues", JiraFails(w) PROVE Inv'
  <2>1. Goes(w, rest, NewSearch, r.items, r.failed \cup {"jira"})
    BY <1>7 DEF JiraFails
  <2>2. Searched(r.source, rest, NewSearch, r.failed \cup {"jira"})
    BY DEF Searched
  <2> QED
    BY <1>1, <1>2, <1>3, <1>4, <1>6, <2>1, <2>2, AskedStep
<1>8. ASSUME ask \in Kinds, AzureFails(w) PROVE Inv'
  <2>1. Goes(w, <<>>, r.search, {}, r.failed \cup {"azure"})
    BY <1>8 DEF AzureFails
  <2>2. r.job.op = "collect" => Searched(r.source, <<>>, r.search, r.failed \cup {"azure"})
    BY <1>2, <1>3, <1>8, NothingAsked DEF Searched
  <2>3. Selected(r.source, <<>>)
    BY NothingAsked DEF Selected
  <2> QED
    BY <1>1, <1>2, <2>1, <2>2, <2>3, NothingAsked, AskedStep
<1>9. ASSUME ask = "pipelines", Goes(w, rest, r.search, r.items, r.failed) PROVE Inv'
  <2>1. r.job.op = "collect" => Searched(r.source, rest, r.search, r.failed)
    BY <1>2, <1>3, <1>9 DEF Searched
  <2> QED
    BY <1>1, <1>2, <1>3, <1>4, <1>9, <2>1, AskedStep
<1>10. ASSUME ask \in Kinds,
              Goes(w, rest, r.search, r.items \cup Answer(r.source.repo, ask), r.failed)
       PROVE  Inv'
  <2>1. r.job.op = "collect" => Searched(r.source, rest, r.search, r.failed)
    BY <1>2, <1>3, <1>10 DEF Searched
  <2>2. r.source.repo \in Repos
    BY <1>2, <1>5, <1>10 DEF Selection
  <2>3. Answer(r.source.repo, ask) \subseteq Item
    BY <2>2, EvidenceAssumption DEF Answer, Newest
  <2>4. r.items \cup Answer(r.source.repo, ask) \in SUBSET Item
    BY <1>2, <2>3
  <2> QED
    BY <1>1, <1>2, <1>3, <1>4, <1>10, <2>1, <2>4, AskedStep
<1>11. ASSUME ask = "issues",
              LET total == PagesOf[r.source.project]
                  taken == Takes(r.search, total)
              IN \E next \in NextTokens(r.search, total) :
                   IF Over(next) THEN Goes(w, rest, taken, r.items, r.failed)
                   ELSE IF Stalls(taken, next) THEN JiraFails(w)
                   ELSE Goes(w, r.asks, GoesOn(taken, next), r.items, r.failed)
       PROVE  Inv'
  <2> DEFINE total == PagesOf[r.source.project]
             taken == Takes(r.search, total)
  <2>1. PICK next \in NextTokens(r.search, total) :
          IF Over(next) THEN Goes(w, rest, taken, r.items, r.failed)
          ELSE IF Stalls(taken, next) THEN JiraFails(w)
          ELSE Goes(w, r.asks, GoesOn(taken, next), r.items, r.failed)
    BY <1>11
  <2>2. r.source.project # None /\ total \in Nat
    BY <1>2, <1>5, <1>11, EvidenceAssumption DEF Selection
  <2>3. /\ taken \in Search /\ (~Over(next) => GoesOn(taken, next) \in Search)
    BY <1>2, <2>2, SearchTypes
  <2>4. Searching(r.search, total) =>
          /\ Over(next) => taken.got = Pages(total)
          /\ ~Over(next) /\ ~Stalls(taken, next) => Searching(GoesOn(taken, next), total)
    BY <1>2, <2>2, SearchRound
  <2>5. r.job.op = "collect" /\ "jira" \notin r.failed => Searching(r.search, total)
    BY <1>2, <1>3, <1>11, <2>2 DEF Searched
  <2> HIDE DEF taken
  <2>6. CASE Over(next)
    <3>1. r.job.op = "collect" => Searched(r.source, rest, taken, r.failed)
      BY <1>3, <1>11, <2>4, <2>5, <2>6 DEF Searched
    <3> QED
      BY <1>1, <1>2, <1>3, <1>4, <2>1, <2>3, <2>6, <3>1, AskedStep
  <2>7. CASE ~Over(next) /\ Stalls(taken, next)
    BY <1>7, <1>11, <2>1, <2>7
  <2>8. CASE ~Over(next) /\ ~Stalls(taken, next)
    <3>1. r.job.op = "collect" => Searched(r.source, r.asks, GoesOn(taken, next), r.failed)
      BY <1>3, <1>11, <2>4, <2>5, <2>8 DEF Searched
    <3> QED
      BY <1>1, <1>2, <2>1, <2>3, <2>8, <3>1, AskedStep
  <2> QED
    BY <2>6, <2>7, <2>8
<1>12. ASSUME req' = [req EXCEPT ![w].attempt = @ + 1] PROVE Inv'
  BY <1>1, <1>2, <1>12, RetryStep
<1> QED
  BY <1>7, <1>8, <1>9, <1>10, <1>11, <1>12 DEF AskNext

LEMMA AskLists ==
  /\ <<>> \in Seq(Ask) /\ Len(<<>>) = 0 /\ <<>> \in Seq(Ask \ {"issues"})
  /\ <<"pipelines">> \in Seq(Ask) /\ Len(<<"pipelines">>) = 1 /\ <<"pipelines">>[1] = "pipelines"
  /\ <<"pipelines">> \in Seq(Ask \ {"issues"})
  /\ <<"issues">> \in Seq(Ask) /\ Len(<<"issues">>) = 1 /\ <<"issues">>[1] = "issues"
  /\ <<"commits", "prs", "runs">> \in Seq(Ask) /\ Len(<<"commits", "prs", "runs">>) = 3
  /\ \A i \in 1..3 : <<"commits", "prs", "runs">>[i] \in Kinds
  /\ <<"commits", "prs">> \in Seq(Ask \ {"issues"}) /\ <<"runs">> \in Seq(Ask \ {"issues"})
<1>1. /\ <<>> \in Seq(Ask) /\ Len(<<>>) = 0 /\ <<>> \in Seq(Ask \ {"issues"})
  OBVIOUS
<1>2. /\ <<"pipelines">> \in Seq(Ask) /\ Len(<<"pipelines">>) = 1
      /\ <<"pipelines">>[1] = "pipelines" /\ <<"pipelines">> \in Seq(Ask \ {"issues"})
  BY DEF Ask
<1>3. <<"issues">> \in Seq(Ask) /\ Len(<<"issues">>) = 1 /\ <<"issues">>[1] = "issues"
  BY DEF Ask
<1>4. <<"commits", "prs", "runs">> \in Seq(Ask) /\ Len(<<"commits", "prs", "runs">>) = 3
  BY DEF Ask, Kinds
<1>5. \A i \in 1..3 : <<"commits", "prs", "runs">>[i] \in Kinds
  BY DEF Kinds
<1>6. <<"commits", "prs">> \in Seq(Ask \ {"issues"}) /\ <<"runs">> \in Seq(Ask \ {"issues"})
  BY DEF Ask, Kinds
<1> QED
  BY <1>1, <1>2, <1>3, <1>4, <1>5, <1>6

LEMMA Joined ==
  ASSUME NEW f \in Seq(Ask), NEW g \in Seq(Ask), NEW h \in Seq(Ask)
  PROVE  LET all == (f \o g) \o h
             b == Len(f) + Len(g)
         IN /\ all \in Seq(Ask) /\ DOMAIN all = 1..(b + Len(h))
            /\ \A i \in 1..Len(f) : all[i] = f[i]
            /\ \A i \in (Len(f) + 1)..b : all[i] = g[i - Len(f)]
            /\ \A i \in (b + 1)..(b + Len(h)) : all[i] = h[i - b]
<1>1. /\ f \o g \in Seq(Ask) /\ Len(f \o g) = Len(f) + Len(g)
      /\ \A i \in 1..Len(f) : (f \o g)[i] = f[i]
      /\ \A i \in (Len(f) + 1)..(Len(f) + Len(g)) : (f \o g)[i] = g[i - Len(f)]
  OBVIOUS
<1> DEFINE fg == f \o g
<1> HIDE DEF fg
<1>2. fg \in Seq(Ask)
  BY <1>1 DEF fg
<1>3. /\ fg \o h \in Seq(Ask) /\ DOMAIN (fg \o h) = 1..(Len(fg) + Len(h))
      /\ \A i \in 1..Len(fg) : (fg \o h)[i] = fg[i]
      /\ \A i \in (Len(fg) + 1)..(Len(fg) + Len(h)) : (fg \o h)[i] = h[i - Len(fg)]
  BY <1>2
<1> QED
  BY <1>1, <1>3 DEF fg

\* What a collection and exclusions ask for, and in which order.
LEMMA CollectAsksOK ==
  ASSUME NEW s \in Selection
  PROVE  /\ CollectAsks(s) \in Seq(Ask) /\ Ordered(CollectAsks(s))
         /\ Selected(s, CollectAsks(s))
         /\ Pending(CollectAsks(s)) <=> s.project # None
<1> DEFINE first == IF s.repo # None /\ ~s.pipelines THEN <<"pipelines">> ELSE <<>>
           issues == IF s.project # None THEN <<"issues">> ELSE <<>>
           last == IF s.repo # None THEN <<"commits", "prs", "runs">> ELSE <<>>
<1>1. /\ first \in Seq(Ask) /\ Len(first) \in {0, 1}
      /\ \A i \in 1..Len(first) : first[i] = "pipelines"
  BY AskLists
<1>2. /\ issues \in Seq(Ask) /\ Len(issues) = IF s.project # None THEN 1 ELSE 0
      /\ \A i \in 1..Len(issues) : issues[i] = "issues"
  BY AskLists
<1>3. /\ last \in Seq(Ask) /\ Len(last) = IF s.repo # None THEN 3 ELSE 0
      /\ \A i \in 1..Len(last) : last[i] \in Kinds
  BY AskLists
<1> HIDE DEF first, issues, last
<1>4. CollectAsks(s) = (first \o issues) \o last
  BY DEF CollectAsks, first, issues, last
<1> DEFINE a == Len(first)
           b == Len(first) + Len(issues)
           n == b + Len(last)
           asks == (first \o issues) \o last
<1>5. /\ asks \in Seq(Ask) /\ DOMAIN asks = 1..n
      /\ a \in Nat /\ b \in {a, a + 1} /\ n \in {b, b + 3}
      /\ b = IF s.project # None THEN a + 1 ELSE a
      /\ n = IF s.repo # None THEN b + 3 ELSE b
      /\ \A i \in 1..a : asks[i] = "pipelines"
      /\ \A i \in (a + 1)..b : asks[i] = "issues"
      /\ \A i \in (b + 1)..n : asks[i] \in Kinds
  <2>1. /\ asks \in Seq(Ask) /\ DOMAIN asks = 1..n
        /\ \A i \in 1..a : asks[i] = first[i]
        /\ \A i \in (a + 1)..b : asks[i] = issues[i - a]
        /\ \A i \in (b + 1)..n : asks[i] = last[i - b]
    BY <1>1, <1>2, <1>3, Joined
  <2>2. /\ Len(first) \in {0, 1} /\ Len(issues) \in Nat /\ Len(last) \in Nat
        /\ Len(issues) = 1 \/ Len(issues) = 0
        /\ Len(last) = 3 \/ Len(last) = 0
        /\ s.project # None <=> Len(issues) = 1
        /\ s.repo # None <=> Len(last) = 3
    BY <1>1, <1>2, <1>3
  <2>3. /\ a \in {0, 1} /\ a \in Nat /\ b \in Nat /\ n \in Nat
        /\ Len(issues) = b - a /\ Len(last) = n - b
        /\ b = a + 1 \/ b = a
        /\ n = b + 3 \/ n = b
        /\ s.project # None <=> b = a + 1
        /\ s.repo # None <=> n = b + 3
    <3> DEFINE x == Len(first)
               y == Len(issues)
               z == Len(last)
    <3>1. /\ x \in {0, 1} /\ y \in Nat /\ z \in Nat
          /\ y = 1 \/ y = 0
          /\ z = 3 \/ z = 0
          /\ s.project # None <=> y = 1
          /\ s.repo # None <=> z = 3
      BY <2>2
    <3>2. a = x /\ b = x + y /\ n = x + y + z
      OBVIOUS
    <3> HIDE DEF x, y, z, a, b, n, asks
    <3>3. a \in Nat /\ b \in Nat /\ n \in Nat /\ y = b - a /\ z = n - b
      BY <3>1, <3>2
    <3>4. /\ b = a + 1 \/ b = a
          /\ n = b + 3 \/ n = b
          /\ y = 1 <=> b = a + 1
          /\ z = 3 <=> n = b + 3
      BY <3>1, <3>2
    <3>5. y = Len(issues) /\ z = Len(last)
      BY DEF y, z
    <3> QED
      BY <3>1, <3>2, <3>3, <3>4, <3>5
  <2>4. Len(first) = a
    OBVIOUS
  <2> HIDE DEF asks, a, b, n
  <2>5. /\ \A i \in (a + 1)..b : i - a \in 1..(b - a)
        /\ \A i \in (b + 1)..n : i - b \in 1..(n - b)
    BY <2>3
  <2>6. \A i \in 1..a : asks[i] = "pipelines"
    BY <1>1, <2>1, <2>4
  <2>7. \A i \in (a + 1)..b : asks[i] = "issues"
    BY <1>2, <2>1, <2>3, <2>5
  <2>8. \A i \in (b + 1)..n : asks[i] \in Kinds
    BY <1>3, <2>1, <2>3, <2>5
  <2> QED
    BY <2>1, <2>2, <2>3, <2>6, <2>7, <2>8
<1> HIDE DEF a, b, n, asks
<1>6. \A i \in DOMAIN asks : /\ asks[i] = "issues" <=> i \in (a + 1)..b
                             /\ asks[i] = "pipelines" <=> i \in 1..a
                             /\ asks[i] \in Kinds <=> i \in (b + 1)..n
  <2>1. \A i \in 1..n : i \in 1..a \/ i \in (a + 1)..b \/ i \in (b + 1)..n
    BY <1>5
  <2> QED
    BY <1>5, <2>1 DEF Kinds
<1>7. Ordered(asks)
  <2> SUFFICES ASSUME NEW i \in DOMAIN asks, NEW j \in DOMAIN asks, i < j, asks[j] = "issues"
               PROVE  asks[i] = "pipelines"
    BY DEF Ordered
  <2>1. j \in (a + 1)..b
    BY <1>6
  <2>2. i \in 1..a
    BY <1>5, <2>1
  <2> QED
    BY <1>6, <2>2
<1>8. Selected(s, asks)
  BY <1>5, <1>6 DEF Selected
<1>9. Pending(asks) <=> s.project # None
  <2>1. CASE s.project # None
    <3>1. a + 1 \in DOMAIN asks /\ a + 1 \in (a + 1)..b
      BY <1>5, <2>1
    <3> QED
      BY <1>6, <2>1, <3>1 DEF Pending
  <2>2. CASE s.project = None
    <3>1. (a + 1)..b = {}
      BY <1>5, <2>2
    <3> QED
      BY <1>6, <2>2, <3>1 DEF Pending
  <2> QED
    BY <2>1, <2>2
<1> QED
  BY <1>4, <1>5, <1>7, <1>8, <1>9 DEF asks

LEMMA ExcludeAsksOK ==
  ASSUME NEW s \in Selection, s.repo # None
  PROVE  /\ ExcludeAsks(s) \in Seq(Ask) /\ Ordered(ExcludeAsks(s))
         /\ Selected(s, ExcludeAsks(s))
<1> DEFINE lists == IF s.pipelines THEN <<>> ELSE <<"pipelines">>
           asks == <<"commits", "prs">> \o lists \o <<"runs">>
<1>1. ExcludeAsks(s) = asks
  BY DEF ExcludeAsks
<1>3. asks \in Seq(Ask \ {"issues"})
  <2>1. lists \in Seq(Ask \ {"issues"}) /\ <<"commits", "prs">> \in Seq(Ask \ {"issues"})
        /\ <<"runs">> \in Seq(Ask \ {"issues"})
    BY AskLists
  <2> HIDE DEF lists
  <2> QED
    BY <2>1
<1> HIDE DEF asks
<1>4. \A i \in DOMAIN asks : asks[i] # "issues" /\ asks[i] \in Ask
  BY <1>3
<1>5. asks \in Seq(Ask)
  BY <1>3
<1> QED
  BY <1>1, <1>4, <1>5 DEF Ordered, Selected

LEMMA Called ==
  ASSUME Inv, NEW w \in Workers, UNCHANGED <<tables, payloads>>,
         lock' \in Workers \cup {None},
         NEW job \in JobsOf[w], NEW about \in 0..Len(snapshots),
         job.op \in {"exclude", "confirm"} => about # 0,
         NEW s \in Short \cup Reader, s.job = job, s.snapshot = about,
         s.phase # "stored",
         s.phase # "loaded" => Ordered(s.asks) /\ Selected(s.source, s.asks),
         s.phase # "loaded" /\ job.op = "collect" =>
           Searched(s.source, s.asks, s.search, s.failed),
         req' = [req EXCEPT ![w] = s]
  PROVE  Inv'
<1>1. req'[w] = s
  BY DEF Inv
<1>2. SnapshotsOK' /\ Len(snapshots) <= Len(snapshots') /\ payloads \subseteq payloads'
  BY SnapshotsKept DEF tables
<1>3. RequestOK(w)'
  BY <1>1 DEF RequestOK, tables
<1> QED
  BY <1>2, <1>3, Assembled DEF Inv, tables

LEMMA CallStep ==
  ASSUME Inv, NEW w \in Workers, Call(w)
  PROVE  Inv'
<1>1. PICK job \in JobsOf[w], about \in 0..Len(snapshots) :
        /\ CASE job.op = "select" ->
                  about = 0 /\ status \in {"setup", "collecting_evidence"}
             [] job.op = "move" -> about = 0 /\ CanTransition(status, job.to)
             [] job.op = "collect" ->
                  /\ selection # None /\ about = Latest
                  /\ Len(snapshots) < MaxSnapshots /\ Cardinality(payloads) < MaxFiles
                  /\ about # 0 /\ snapshots[about].immutable => job.refresh
             [] job.op = "exclude" ->
                  /\ about # 0 /\ Editable(about)
                  /\ selection # None /\ selection.repo # None
                  /\ snapshots[about].excluded # {} => lock = None
             [] job.op = "confirm" -> about # 0
        /\ req' = [req EXCEPT ![w] =
             CASE job.op = "collect" -> Reading(job, about, CollectAsks(selection))
               [] job.op = "exclude" -> Reading(job, about, ExcludeAsks(selection))
               [] OTHER -> Loaded(job, about)]
        /\ lock' = IF job.op = "exclude" /\ snapshots[about].excluded # {} THEN w ELSE lock
  BY DEF Call
<1> DEFINE s == CASE job.op = "collect" -> Reading(job, about, CollectAsks(selection))
                  [] job.op = "exclude" -> Reading(job, about, ExcludeAsks(selection))
                  [] OTHER -> Loaded(job, about)
<1>2. /\ req' = [req EXCEPT ![w] = s] /\ UNCHANGED <<tables, payloads>>
      /\ lock' \in Workers \cup {None}
  BY <1>1 DEF Call, Inv
<1>3. /\ job \in Job /\ job.op \in {"select", "move", "collect", "exclude", "confirm"}
      /\ about \in Nat
      /\ job.op \in {"exclude", "confirm"} => about # 0
      /\ job.op \in {"collect", "exclude"} => selection \in Selection
      /\ job.op = "exclude" => selection.repo # None
      /\ status \in Statuses
  <2>1. job \in Job
    BY EvidenceAssumption
  <2>2. snapshots \in Seq(Snapshot) /\ about \in Nat
    BY DEF Inv, SnapshotsOK
  <2> QED
    BY <1>1, <2>1, <2>2, JobTypes DEF Inv
<1>4. CASE job.op \notin {"collect", "exclude"}
  <2>1. s = Loaded(job, about)
    BY <1>4
  <2>2. s \in Short /\ s.job = job /\ s.snapshot = about /\ s.phase = "loaded"
    BY <1>3, <2>1 DEF Loaded, Short
  <2> QED
    BY <1>2, <1>3, <1>4, <2>2, Called
<1>5. CASE job.op \in {"collect", "exclude"}
  <2> DEFINE asks == IF job.op = "collect" THEN CollectAsks(selection)
                     ELSE ExcludeAsks(selection)
  <2>1. s = Reading(job, about, asks)
    BY <1>5
  <2>2. /\ asks \in Seq(Ask) /\ Ordered(asks) /\ Selected(selection, asks)
        /\ job.op = "collect" => (Pending(asks) <=> selection.project # None)
    BY <1>3, <1>5, CollectAsksOK, ExcludeAsksOK
  <2> HIDE DEF asks
  <2>3. NewSearch \in Search /\ \A total \in Nat : Searching(NewSearch, total)
    BY DEF NewSearch, Search, Searching, Pages
  <2>4. /\ s \in Reader /\ s.job = job /\ s.snapshot = about /\ s.phase = "asking"
        /\ s.source = selection /\ s.asks = asks /\ s.search = NewSearch /\ s.failed = {}
    BY <1>3, <1>5, <2>1, <2>2, <2>3 DEF Reading, Reader
  <2>5. job.op = "collect" => Searched(selection, asks, NewSearch, {})
    <3>1. selection \in Selection /\ selection.project # None
            => PagesOf[selection.project] \in Nat
      BY EvidenceAssumption DEF Selection
    <3> QED
      BY <1>3, <2>2, <2>3, <3>1 DEF Searched
  <2> QED
    BY <1>2, <1>3, <1>5, <2>2, <2>4, <2>5, Called
<1> QED
  BY <1>4, <1>5

LEMMA InvInit == Init => Inv
<1> SUFFICES ASSUME Init PROVE Inv
  OBVIOUS
<1>1. snapshots = <<>> /\ payloads = {} /\ req = [w \in Workers |-> Idle]
      /\ status = "setup" /\ selection = None /\ lock = None
  BY DEF Init
<1>2. SnapshotsOK
  BY <1>1 DEF SnapshotsOK
<1>3. payloads = 1..0
  BY <1>1
<1>4. \A w \in Workers : RequestOK(w)
  BY <1>1 DEF RequestOK
<1> QED
  BY <1>1, <1>2, <1>3, <1>4 DEF Inv, Statuses

LEMMA InvStep ==
  ASSUME Inv, [Next]_vars
  PROVE  Inv'
<1>1. CASE UNCHANGED vars
  BY <1>1 DEF vars, tables, Inv, SnapshotsOK, RequestOK
<1>2. ASSUME NEW w \in Workers,
             \/ Call(w) \/ Abort(w) \/ AskNext(w) \/ Store(w) \/ Collect(w) \/ Exclude(w)
             \/ Confirm(w) \/ Select(w) \/ Move(w) \/ GivesUp(w)
      PROVE  Inv'
  BY <1>2, CallStep, AbortStep, AskNextStep, StoreStep, CollectStep, ExcludeStep,
     ConfirmStep, SelectStep, MoveStep DEF GivesUp
<1> QED
  BY <1>1, <1>2 DEF Next, Step

LEMMA InvAlways == Spec => []Inv
BY InvInit, InvStep, PTL DEF Spec

-----------------------------------------------------------------------------
(* Theorems *)

\* The rows, the files and what the requests have read are always well formed; a
\* snapshot is superseded by a later one.
THEOREM TypeCorrect == Spec => []TypeOK
<1>1. Inv => TypeOK
  <2> SUFFICES ASSUME Inv PROVE TypeOK
    OBVIOUS
  <2>1. \A w \in Workers : req[w] \in Short \cup Reader \cup {Idle}
    BY DEF Inv, RequestOK
  <2>2. req \in [Workers -> Short \cup Reader \cup {Idle}]
    BY <2>1 DEF Inv
  <2> QED
    BY <2>2 DEF Inv, SnapshotsOK, Sound, TypeOK
<1> QED
  BY <1>1, InvAlways, PTL

\* Every snapshot has the file of its payload, whatever fails, crashes or is asked for
\* again on the way: files are never taken back, rows may be.
THEOREM PayloadsAreKept == Spec => []PayloadKept
<1>1. Inv => PayloadKept
  BY DEF Inv, SnapshotsOK, PayloadKept
<1> QED
  BY <1>1, InvAlways, PTL

\* For any number of pages, any bound on them and any tokens handed out: a search that
\* did not fail has left no page out and has none twice.
THEOREM IssuesAreComplete == Spec => []IssuesComplete
<1>1. Inv => IssuesComplete
  BY DEF Inv, SnapshotsOK, Sound, IssuesOK, IssuesComplete, Pages
<1> QED
  BY <1>1, InvAlways, PTL

\* Whatever fails and whatever is found: the quality of a snapshot is none better than
\* that of any source selected for it, and says so when there was none.
THEOREM QualityIsHonest == Spec => []QualityHonest
<1>1. Inv => QualityHonest
  BY DEF Inv, SnapshotsOK, Sound, QualityOK, QualityHonest
<1> QED
  BY <1>1, InvAlways, PTL

-----------------------------------------------------------------------------
(* Confirmation *)

\* Who confirms is the only one who excludes: exclusions that another session has in
\* hand when the snapshot is confirmed are applied to it all the same.
OneCurator ==
  \A v, w \in Workers :
    (\E job \in JobsOf[v] : job.op = "confirm") /\ (\E job \in JobsOf[w] : job.op = "exclude")
      => v = w

\* What exclusions are about to change is not confirmed.
Unconfirmed ==
  \A w \in Workers : req[w] # Idle /\ req[w].job.op = "exclude" =>
    ~snapshots[req[w].snapshot].immutable


\* A request is about the same snapshot until it ends.
LEMMA WorksOn ==
  ASSUME Inv, NEW w \in Workers, AskNext(w) \/ Store(w)
  PROVE  req[w] # Idle /\ req'[w].job = req[w].job /\ req'[w].snapshot = req[w].snapshot
<1> DEFINE Same == req'[w].job = req[w].job /\ req'[w].snapshot = req[w].snapshot
<1>1. req[w] # Idle /\ req[w].phase = "asking"
  BY DEF AskNext, Store, Serves
<1>2. req[w] \in Reader /\ DOMAIN req = Workers
  BY <1>1, InFlight DEF Inv
<1>3. ASSUME NEW asks, NEW search, NEW items, NEW failed, Goes(w, asks, search, items, failed)
      PROVE  Same
  BY <1>2, <1>3 DEF Goes, Reader
<1>4. ASSUME req' = [req EXCEPT ![w].attempt = @ + 1] PROVE Same
  BY <1>2, <1>4 DEF Reader
<1>5. ASSUME Store(w) PROVE Same
  <2>1. \E f : req' = [req EXCEPT ![w].phase = "stored", ![w].file = f]
    BY <1>5 DEF Store
  <2> QED
    BY <1>2, <2>1 DEF Reader
<1> HIDE DEF Same
<1>6. ASSUME JiraFails(w) \/ AzureFails(w) PROVE Same
  BY <1>3, <1>6 DEF JiraFails, AzureFails
<1>7. ASSUME AskNext(w) PROVE Same
  BY <1>3, <1>4, <1>6, <1>7 DEF AskNext
<1> QED
  BY <1>1, <1>5, <1>7 DEF Same

LEMMA Carried ==
  ASSUME Inv, [Next]_vars, NEW v \in Workers, req'[v] # Idle, ~Call(v)
  PROVE  /\ req[v] # Idle /\ req'[v].job = req[v].job
         /\ req'[v].snapshot = req[v].snapshot
<1>1. CASE req'[v] = req[v]
  BY <1>1
<1>2. CASE req'[v] # req[v]
  <2>1. ~UNCHANGED vars
    BY <1>2 DEF vars
  <2>2. PICK w \in Workers : Call(w) \/ AskNext(w) \/ Store(w) \/ Finish(w)
    BY <2>1 DEF Next, Step, Abort, Finish, Collect, Exclude, Confirm, Select, Move, GivesUp
  <2>3. v = w
    <3>1. ASSUME v # w PROVE FALSE
      <4>1. ASSUME NEW s, req' = [req EXCEPT ![w] = s] PROVE FALSE
        BY <1>2, <3>1, <4>1 DEF Inv
      <4>2. \E s : req' = [req EXCEPT ![w] = s]
        BY <2>2 DEF Call, AskNext, Goes, JiraFails, AzureFails, Store, Finish
      <4> QED
        BY <4>1, <4>2
    <3> QED
      BY <3>1
  <2>4. ~Finish(w)
    BY <2>3 DEF Finish, Inv
  <2> QED
    BY <2>2, <2>3, <2>4, WorksOn
<1> QED
  BY <1>1, <1>2

\* What exclusions and confirmations set, and nobody else.
Kept(i) == /\ snapshots'[i].immutable = snapshots[i].immutable
           /\ snapshots'[i].figures = snapshots[i].figures
           /\ snapshots'[i].excluded = snapshots[i].excluded

LEMMA Untouched ==
  ASSUME Inv, [Next]_vars, ~\E w \in Workers : Confirm(w) \/ Exclude(w),
         NEW i \in DOMAIN snapshots
  PROVE  Kept(i)
<1>1. CASE UNCHANGED snapshots
  BY <1>1 DEF Kept
<1>2. ASSUME NEW w \in Workers, Collect(w) PROVE Kept(i)
  <2> DEFINE base == Supersedes(w)
             n == Len(snapshots)
  <2>1. snapshots \in Seq(Snapshot) /\ n \in Nat /\ DOMAIN snapshots = 1..n
    BY DEF Inv, SnapshotsOK
  <2>2. \E s : snapshots' = Append(base, s)
    BY <1>2 DEF Collect
  <2>3. req[w].snapshot \in 0..Len(snapshots)
    BY <1>2, InFlight DEF Collect, Serves, RequestOK
  <2>4. /\ base \in Seq(Snapshot) /\ Len(base) = n
        /\ base[i].immutable = snapshots[i].immutable
        /\ base[i].figures = snapshots[i].figures
        /\ base[i].excluded = snapshots[i].excluded
    BY <2>1, <2>3, SupersedesWrites
  <2> HIDE DEF base
  <2>5. snapshots'[i] = base[i]
    BY <2>1, <2>2, <2>4
  <2> QED
    BY <2>4, <2>5 DEF Kept
<1>3. UNCHANGED snapshots \/ \E w \in Workers : Collect(w)
  BY DEF Next, Step, vars, tables, Call, Abort, AskNext, Store, Select, Move, GivesUp
<1> QED
  BY <1>1, <1>2, <1>3

LEMMA ConfirmedStep ==
  ASSUME OneCurator, Inv, Unconfirmed, [Next]_vars
  PROVE  /\ Unconfirmed'
         /\ \A i \in DOMAIN snapshots : snapshots[i].immutable =>
              /\ snapshots'[i].immutable
              /\ snapshots'[i].figures = snapshots[i].figures
              /\ snapshots'[i].excluded = snapshots[i].excluded
<1>1. snapshots \in Seq(Snapshot) /\ Len(snapshots) \in Nat
      /\ DOMAIN snapshots = 1..Len(snapshots)
  BY DEF Inv, SnapshotsOK
<1>2. ASSUME NEW w \in Workers, Exclude(w), NEW i \in DOMAIN snapshots
      PROVE  /\ snapshots'[i].immutable = snapshots[i].immutable
             /\ snapshots[i].immutable => Kept(i)
  <2> DEFINE k == req[w].snapshot
  <2>1. /\ req[w] # Idle /\ req[w].job.op = "exclude"
        /\ \E a, b : snapshots' = [snapshots EXCEPT ![k].excluded = a, ![k].figures = b]
    BY <1>2 DEF Exclude, Serves
  <2>2. ~snapshots[k].immutable
    BY <2>1 DEF Unconfirmed
  <2> HIDE DEF k
  <2>3. snapshots[i] \in Snapshot
    BY <1>1
  <2> QED
    BY <1>1, <2>1, <2>2, <2>3 DEF Kept, Snapshot
<1>3. ASSUME NEW w \in Workers, Confirm(w), NEW i \in DOMAIN snapshots
      PROVE  snapshots[i].immutable => Kept(i)
  <2> DEFINE k == req[w].snapshot
  <2>1. snapshots' = [snapshots EXCEPT ![k].immutable = TRUE]
    BY <1>3 DEF Confirm
  <2> HIDE DEF k
  <2>2. snapshots[i] \in Snapshot
    BY <1>1
  <2> QED
    BY <1>1, <2>1, <2>2 DEF Kept, Snapshot
<1>4. \A i \in DOMAIN snapshots : snapshots[i].immutable => Kept(i)
  BY <1>2, <1>3, Untouched
<1>5. ASSUME NEW w \in Workers, req'[w] # Idle, req'[w].job.op = "exclude"
      PROVE  ~snapshots'[req'[w].snapshot].immutable
  <2>1. CASE Call(w)
    <3>1. PICK job \in JobsOf[w], about \in 0..Len(snapshots) :
            /\ job.op = "exclude" => ~snapshots[about].immutable
            /\ req' = [req EXCEPT ![w] =
                 CASE job.op = "collect" -> Reading(job, about, CollectAsks(selection))
                   [] job.op = "exclude" -> Reading(job, about, ExcludeAsks(selection))
                   [] OTHER -> Loaded(job, about)]
      BY <2>1 DEF Call, Editable
    <3>2. req'[w].job = job /\ req'[w].snapshot = about
      BY <3>1 DEF Inv, Reading, Loaded
    <3> QED
      BY <1>5, <2>1, <3>1, <3>2 DEF Call, tables
  <2>2. CASE ~Call(w)
    <3> DEFINE k == req[w].snapshot
    <3>1. req[w] # Idle /\ req'[w].job = req[w].job /\ req'[w].snapshot = k
      BY <1>5, <2>2, Carried
    <3>2. k \in 0..Len(snapshots) /\ k # 0 /\ req[w].job \in JobsOf[w]
      BY <1>5, <3>1, InFlight DEF RequestOK
    <3>3. k \in DOMAIN snapshots /\ ~snapshots[k].immutable
      BY <1>1, <1>5, <3>1, <3>2 DEF Unconfirmed
    <3>4. ~\E v \in Workers : Confirm(v)
      <4> SUFFICES ASSUME NEW v \in Workers, Confirm(v) PROVE FALSE
        OBVIOUS
      <4>1. req[v] # Idle /\ req[v].job.op = "confirm" /\ Finish(v)
        BY DEF Confirm, Serves
      <4>2. req[v].job \in JobsOf[v]
        BY <4>1, InFlight DEF RequestOK
      <4>3. v = w
        BY <1>5, <3>1, <3>2, <4>1, <4>2 DEF OneCurator
      <4> QED
        BY <1>5, <4>1, <4>3 DEF Finish, Inv
    <3>5. snapshots'[k].immutable = snapshots[k].immutable
      BY <1>2, <3>3, <3>4, Untouched DEF Kept
    <3> QED
      BY <3>1, <3>3, <3>5
  <2> QED
    BY <2>1, <2>2
<1> QED
  BY <1>4, <1>5 DEF Unconfirmed, Kept

\* When who confirms is the only one who excludes: what is confirmed stays so, and its
\* figures and exclusions stay, whatever is collected, refreshed and asked for later.
THEOREM ConfirmedIsFrozen ==
  ASSUME OneCurator
  PROVE  Spec => ConfirmedFrozen
<1>1. Init => Unconfirmed
  BY DEF Init, Unconfirmed
<1>2. Inv /\ Unconfirmed /\ [Next]_vars => Unconfirmed'
  BY ConfirmedStep
<1>3. Inv /\ Unconfirmed /\ [Next]_vars =>
        [\A i \in DOMAIN snapshots : snapshots[i].immutable =>
           /\ snapshots'[i].immutable
           /\ snapshots'[i].figures = snapshots[i].figures
           /\ snapshots'[i].excluded = snapshots[i].excluded]_vars
  BY ConfirmedStep
<1> QED
  BY <1>1, <1>2, <1>3, InvAlways, PTL DEF Spec, ConfirmedFrozen

=============================================================================
