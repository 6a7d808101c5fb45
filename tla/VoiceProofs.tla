----------------------------- MODULE VoiceProofs -----------------------------
(***************************************************************************)
(* Proofs about Voice: what the draft shows, that the page stays well      *)
(* formed, that no upload is left behind, and, as long as no recording is  *)
(* begun while an earlier one is open, that finishing leaves nothing open  *)
(* and says nothing twice.                                                 *)
(***************************************************************************)
EXTENDS Voice, Least, FiniteSetTheorems, TLAPS

-----------------------------------------------------------------------------
(* The draft of an answer *)

\* The numbers of a set that come up to a number are finitely many.
LEMMA UpToCounts ==
  ASSUME NEW m \in Nat, NEW S \in SUBSET (1..m), NEW k \in 0..m
  PROVE  /\ IsFiniteSet(S)
         /\ UpTo(S, k) \in Nat
         /\ UpTo(S, k) <= Cardinality(S)
<1>1. IsFiniteSet(1..m)
  BY FS_Interval
<1>2. IsFiniteSet(S)
  BY <1>1, FS_Subset
<1>3. {j \in S : j <= k} \in SUBSET S
  OBVIOUS
<1> QED
  BY <1>2, <1>3, FS_Subset, FS_CardinalityType, Zenon DEF UpTo

\* None comes up to zero, and the count up to a number is one more than the count
\* up to the one before when the number is in the set.
LEMMA UpToSteps ==
  ASSUME NEW m \in Nat, NEW S \in SUBSET (1..m)
  PROVE  /\ UpTo(S, 0) = 0
         /\ UpTo(S, m) = Cardinality(S)
         /\ \A k \in 1..m : UpTo(S, k) = IF k \in S THEN UpTo(S, k - 1) + 1
                                         ELSE UpTo(S, k - 1)
<1>0. \A j \in S : j \in Nat /\ 1 <= j /\ j <= m
  OBVIOUS
<1>1. {j \in S : j <= 0} = {}
  <2>1. \A j \in S : ~(j <= 0)
    BY <1>0
  <2> QED
    BY <2>1, Zenon
<1>4. {j \in S : j <= m} = S
  BY <1>0, Zenon
<1>2. UpTo(S, 0) = 0 /\ UpTo(S, m) = Cardinality(S)
  BY <1>1, <1>4, FS_EmptySet DEF UpTo
<1>3. ASSUME NEW k \in 1..m
      PROVE  UpTo(S, k) = IF k \in S THEN UpTo(S, k - 1) + 1 ELSE UpTo(S, k - 1)
  <2> DEFINE A == {j \in S : j <= k - 1}
  <2>1. A \in SUBSET S /\ k \notin A
    OBVIOUS
  <2>2. IsFiniteSet(A)
    <3>1. k \in 0..m
      OBVIOUS
    <3> QED
      BY <2>1, <3>1, UpToCounts, FS_Subset
  <2>3. {j \in S : j <= k} = IF k \in S THEN A \cup {k} ELSE A
    <3>1. \A j \in S : j <= k <=> j = k \/ j <= k - 1
      BY <1>0
    <3> QED
      BY <3>1
  <2> HIDE DEF A
  <2>4. Cardinality(A \cup {k}) = Cardinality(A) + 1
    BY <2>1, <2>2, FS_AddElement
  <2>5. UpTo(S, k - 1) = Cardinality(A)
    BY DEF UpTo, A
  <2> QED
    BY <2>3, <2>4, <2>5 DEF UpTo
<1> QED
  BY <1>2, <1>3

\* Every count up to the whole is reached, at a number of the set.
LEMMA UpToReaches ==
  ASSUME NEW m \in Nat, NEW S \in SUBSET (1..m), NEW n \in 1..Cardinality(S)
  PROVE  \E i \in S : UpTo(S, i) = n
<1> DEFINE K == {k \in 0..m : UpTo(S, k) >= n}
<1>0. IsFiniteSet(S)
  BY UpToCounts, 0 \in 0..m
<1>1. Cardinality(S) \in Nat /\ UpTo(S, 0) = 0 /\ UpTo(S, m) = Cardinality(S)
  BY <1>0, UpToSteps, FS_CardinalityType
<1>2. K \in SUBSET Nat /\ m \in K
  BY <1>1
<1>3. PICK k \in K : \A j \in K : k <= j
  BY <1>2, LeastNat
<1>4. k \in 1..m /\ UpTo(S, k) >= n
  BY <1>1, <1>3
<1>5. k - 1 \in 0..m /\ ~(UpTo(S, k - 1) >= n)
  BY <1>3, <1>4
<1>6. UpTo(S, k) = IF k \in S THEN UpTo(S, k - 1) + 1 ELSE UpTo(S, k - 1)
  BY <1>4, UpToSteps
<1>7. UpTo(S, k - 1) \in Nat
  BY <1>5, UpToCounts
<1> HIDE DEF K
<1>8. k \in S /\ UpTo(S, k) = n
  BY <1>4, <1>5, <1>6, <1>7
<1> QED
  BY <1>8

\* The n-th number of a set is the only one up to which there are n.
LEMMA NthOf ==
  ASSUME NEW m \in Nat, NEW S \in SUBSET (1..m)
  PROVE  /\ \A n \in 1..Cardinality(S) : Nth(S, n) \in S /\ UpTo(S, Nth(S, n)) = n
         /\ \A i \in S : UpTo(S, i) \in 1..Cardinality(S) /\ Nth(S, UpTo(S, i)) = i
<1>1. ASSUME NEW n \in 1..Cardinality(S)
      PROVE  Nth(S, n) \in S /\ UpTo(S, Nth(S, n)) = n
  BY UpToReaches, Zenon DEF Nth
<1>2. ASSUME NEW i \in S, NEW j \in S, UpTo(S, i) = UpTo(S, j), i < j
      PROVE  FALSE
  <2> DEFINE A == {k \in S : k <= i}
             B == {k \in S : k <= j}
  <2>0. \A k \in S : k \in Nat
    OBVIOUS
  <2>3. i \in Nat /\ j \in Nat
    BY <2>0
  <2>1. A \in SUBSET B /\ j \in B /\ j \notin A /\ B \in SUBSET S
    <3>1. j <= j /\ ~(j <= i) /\ \A k \in Nat : k <= i => k <= j
      BY <1>2, <2>3
    <3> QED
      BY <2>0, <3>1, Zenon
  <2>2. IsFiniteSet(S) /\ Cardinality(A) = Cardinality(B)
    BY <1>2, UpToCounts, 0 \in 0..m DEF UpTo
  <2> HIDE DEF A, B
  <2>4. IsFiniteSet(B)
    BY <2>1, <2>2, FS_Subset
  <2>5. A = B
    BY <2>1, <2>2, <2>4, FS_Subset
  <2> QED
    BY <2>1, <2>5
<1>3. ASSUME NEW i \in S
      PROVE  UpTo(S, i) \in 1..Cardinality(S)
  <2>1. i \in 1..m /\ i \in 0..m /\ i - 1 \in 0..m
    OBVIOUS
  <2>2. UpTo(S, i) \in Nat /\ UpTo(S, i) <= Cardinality(S) /\ UpTo(S, i - 1) \in Nat
        /\ IsFiniteSet(S)
    BY <2>1, UpToCounts
  <2>3. UpTo(S, i) = UpTo(S, i - 1) + 1
    BY <2>1, <1>3, UpToSteps
  <2>4. Cardinality(S) \in Nat
    BY <2>2, FS_CardinalityType
  <2> QED
    BY <2>2, <2>3, <2>4
<1>4. ASSUME NEW i \in S
      PROVE  Nth(S, UpTo(S, i)) = i
  <2>1. Nth(S, UpTo(S, i)) \in S /\ UpTo(S, Nth(S, UpTo(S, i))) = UpTo(S, i)
    BY <1>1, <1>3
  <2>2. \A k \in S : k \in Nat
    OBVIOUS
  <2>3. i < Nth(S, UpTo(S, i)) \/ Nth(S, UpTo(S, i)) < i \/ Nth(S, UpTo(S, i)) = i
    <3>1. i \in Nat /\ Nth(S, UpTo(S, i)) \in Nat
      BY <2>1, <2>2, Zenon
    <3> QED
      BY <3>1
  <2> QED
    BY <1>2, <2>1, <2>3
<1> QED
  BY <1>1, <1>3, <1>4

NoRepeat(text) == \A i, j \in DOMAIN text : text[i] = text[j] => i = j
Named(store) == \A i, j \in DOMAIN store : store[i].id = store[j].id => i = j

\* What is shown of a draft is the words of the segments that have some, none twice.
LEMMA DisplayShows ==
  ASSUME NEW store \in Seq(Items)
  PROVE  /\ DisplayAnswerText(store) \in Texts
         /\ ToSet(DisplayAnswerText(store)) = {store[i].id : i \in Worded(store)}
         /\ Named(store) => NoRepeat(DisplayAnswerText(store))
<1> DEFINE S == Worded(store)
           text == DisplayAnswerText(store)
<1>1. Len(store) \in Nat /\ S \in SUBSET (1..Len(store))
  BY DEF Worded
<1>2. /\ \A n \in 1..Cardinality(S) : Nth(S, n) \in S /\ UpTo(S, Nth(S, n)) = n
      /\ \A i \in S : UpTo(S, i) \in 1..Cardinality(S) /\ Nth(S, UpTo(S, i)) = i
  <2> HIDE DEF S
  <2> QED
    BY <1>1, NthOf
<1>3. Cardinality(S) \in Nat
  <2> HIDE DEF S
  <2> QED
    BY <1>1, UpToCounts, FS_CardinalityType, 0 \in 0..Len(store)
<1>4. text = [n \in 1..Cardinality(S) |-> store[Nth(S, n)].id]
  BY DEF DisplayAnswerText
<1>5. \A i \in S : i \in DOMAIN store /\ store[i].id \in Words
  <2>1. \A i \in DOMAIN store : store[i] \in Items
    OBVIOUS
  <2> QED
    BY <2>1 DEF Items, Worded
<1> HIDE DEF S, text
<1>6. /\ text \in Texts
      /\ DOMAIN text = 1..Cardinality(S)
      /\ \A n \in 1..Cardinality(S) : text[n] = store[Nth(S, n)].id
  BY <1>2, <1>3, <1>4, <1>5 DEF Texts
<1>7. ToSet(text) = {store[i].id : i \in S}
  <2>1. ToSet(text) = {text[n] : n \in 1..Cardinality(S)}
    BY <1>6 DEF ToSet
  <2> QED
    BY <1>2, <1>6, <2>1
<1>8. ASSUME Named(store) PROVE NoRepeat(text)
  <2>1. ASSUME NEW a \in 1..Cardinality(S), NEW b \in 1..Cardinality(S), text[a] = text[b]
        PROVE  a = b
    <3>1. Nth(S, a) = Nth(S, b)
      BY <1>2, <1>5, <1>6, <1>8, <2>1 DEF Named
    <3> QED
      BY <1>2, <3>1
  <2> QED
    BY <1>6, <2>1 DEF NoRepeat
<1> QED
  BY <1>6, <1>7, <1>8 DEF S, text

\* A delta and a completed text keep the segments, each named once, and lose words of
\* the draft only where the text is completed with nothing.
Kept(before, after) ==
  /\ after \in Seq(Items)
  /\ Named(after)
  /\ ToSet(DisplayAnswerText(before)) \subseteq
       ToSet(DisplayAnswerText(after))
         \cup {item.id : item \in {i \in ToSet(after) : i.completed = "blank"}}

LEMMA SegmentsKept ==
  ASSUME NEW store \in Seq(Items), Named(store), NEW id \in Words,
         NEW text \in {"text", "blank"}
  PROVE  /\ Kept(store, ApplyDelta(store, id))
         /\ Kept(store, ApplyCompleted(store, id, text))
<1>1. \A i \in DOMAIN store : store[i] \in Items
  OBVIOUS
<1>2. Item(id, TRUE, "no") \in Items /\ Item(id, FALSE, text) \in Items
  BY DEF Item, Items
<1>3. ASSUME NEW item \in Items, item.id = id, HasText(item) \/ item.completed = "blank"
      PROVE  /\ ~Seen(store, id) => Kept(store, Append(store, item))
             /\ Kept(store, [i \in DOMAIN store |->
                              IF store[i].id = id THEN item ELSE store[i]])
  <2>1. ASSUME ~Seen(store, id) PROVE Kept(store, Append(store, item))
    <3> DEFINE after == Append(store, item)
    <3>1. /\ after \in Seq(Items)
          /\ DOMAIN after = 1..(Len(store) + 1)
          /\ \A i \in DOMAIN store : i \in DOMAIN after /\ after[i] = store[i]
          /\ after[Len(store) + 1] = item
          /\ DOMAIN store = 1..Len(store) /\ Len(store) \in Nat
      OBVIOUS
    <3> HIDE DEF after
    <3>2. \A i \in DOMAIN after : i \in DOMAIN store \/ i = Len(store) + 1
      BY <3>1
    <3>3. Named(after)
      <4>1. ASSUME NEW i \in DOMAIN after, NEW j \in DOMAIN after,
                   after[i].id = after[j].id
            PROVE  i = j
        BY <1>3, <2>1, <3>1, <3>2, <4>1 DEF Named, Seen
      <4> QED
        BY <4>1, Zenon DEF Named
    <3>4. \A i \in Worded(store) : i \in Worded(after) /\ after[i].id = store[i].id
      BY <3>1, Zenon DEF Worded
    <3>5. {store[i].id : i \in Worded(store)} \subseteq {after[i].id : i \in Worded(after)}
      BY <3>4, Zenon
    <3> QED
      BY <3>1, <3>3, <3>5, DisplayShows, Zenon DEF Kept, after
  <2>2. Kept(store, [i \in DOMAIN store |-> IF store[i].id = id THEN item ELSE store[i]])
    <3> DEFINE after == [i \in DOMAIN store |-> IF store[i].id = id THEN item ELSE store[i]]
    <3>1. /\ after \in Seq(Items)
          /\ DOMAIN after = DOMAIN store
          /\ \A i \in DOMAIN store :
               after[i] = IF store[i].id = id THEN item ELSE store[i]
      BY <1>1
    <3> HIDE DEF after
    <3>2. \A i \in DOMAIN store : after[i].id = store[i].id
      BY <1>3, <3>1
    <3>3. Named(after)
      BY <3>1, <3>2, Zenon DEF Named
    <3>4. ToSet(after) = {after[i] : i \in DOMAIN after}
      BY DEF ToSet
    <3>5. ASSUME NEW i \in Worded(store)
          PROVE  store[i].id \in {after[j].id : j \in Worded(after)}
                   \cup {x.id : x \in {y \in ToSet(after) : y.completed = "blank"}}
      <4>1. i \in DOMAIN store /\ i \in DOMAIN after /\ HasText(store[i])
        BY <3>1 DEF Worded
      <4>2. HasText(after[i]) \/ after[i].completed = "blank"
        BY <1>3, <3>1, <4>1
      <4>3. i \in Worded(after) \/ after[i] \in {y \in ToSet(after) : y.completed = "blank"}
        BY <3>4, <4>1, <4>2 DEF Worded
      <4> QED
        BY <3>2, <4>1, <4>3
    <3>6. /\ ToSet(DisplayAnswerText(store)) = {store[i].id : i \in Worded(store)}
          /\ ToSet(DisplayAnswerText(after)) = {after[i].id : i \in Worded(after)}
      BY <3>1, DisplayShows
    <3>7. ToSet(DisplayAnswerText(store))
            \subseteq ToSet(DisplayAnswerText(after))
              \cup {x.id : x \in {y \in ToSet(after) : y.completed = "blank"}}
      BY <3>5, <3>6
    <3>8. Kept(store, after)
      BY <3>1, <3>3, <3>7 DEF Kept
    <3> QED
      BY <3>8, Zenon DEF after
  <2> QED
    BY <2>1, <2>2
<1>4. /\ Item(id, TRUE, "no").id = id /\ HasText(Item(id, TRUE, "no"))
      /\ Item(id, FALSE, text).id = id
      /\ HasText(Item(id, FALSE, text)) \/ Item(id, FALSE, text).completed = "blank"
  BY DEF Item, HasText
<1>5. Kept(store, store)
  BY DEF Kept
<1> QED
  BY <1>2, <1>3, <1>4, <1>5 DEF ApplyDelta, ApplyCompleted

-----------------------------------------------------------------------------
(* What each event does to the state of the capture *)

LEMMA Reduces ==
  ASSUME NEW c \in Contexts, NEW text \in Texts
  PROVE
    /\ Reduce(c, Event("START")) =
         IF c.state \in {"idle", "error", "fallback_text", "ready_to_edit",
                        "refinement_failed", "permission_denied", "disconnected"}
         THEN [c EXCEPT !.partial = <<>>, !.frozen = <<>>, !.attempts = 0,
                        !.state = "requesting_permission"]
         ELSE c
    /\ Reduce(c, Event("PERMISSION_GRANTED")) =
         IF c.state \in {"requesting_permission", "reconnecting"}
         THEN [c EXCEPT !.state = "connecting"] ELSE c
    /\ Reduce(c, Event("PERMISSION_DENIED")) = [c EXCEPT !.state = "permission_denied"]
    /\ Reduce(c, Event("CONNECTED")) =
         IF c.state \in {"connecting", "reconnecting", "ready"}
         THEN [c EXCEPT !.attempts = 0, !.state = "listening"] ELSE c
    /\ Reduce(c, Event("RECONNECTED")) =
         IF c.state = "reconnecting" THEN [c EXCEPT !.state = "listening"] ELSE c
    /\ Reduce(c, Says("PARTIAL", text)) =
         IF c.state \in LiveSpeaking
         THEN [c EXCEPT !.partial = text,
                        !.state = IF c.state = "paused" THEN "paused" ELSE "live_draft"]
         ELSE c
    /\ Reduce(c, Says("FINAL_SEGMENT", text)) =
         IF c.state \in LiveSpeaking \cup {"finishing"}
         THEN [c EXCEPT !.partial = text, !.final = text,
                        !.state = IF c.state \in {"paused", "finishing"} THEN c.state
                                  ELSE "live_draft"]
         ELSE c
    /\ Reduce(c, Event("PAUSE")) =
         IF c.state \in {"listening", "live_draft"} THEN [c EXCEPT !.state = "paused"] ELSE c
    /\ Reduce(c, Event("RESUME")) =
         IF c.state = "paused"
         THEN [c EXCEPT !.state = IF c.partial = <<>> THEN "listening" ELSE "live_draft"]
         ELSE c
    /\ Reduce(c, Event("FINISH")) =
         IF c.state \in LiveSpeaking
         THEN [c EXCEPT !.partial = <<>>, !.frozen = c.final \o c.partial,
                        !.final = c.final \o c.partial, !.state = "finishing"]
         ELSE c
    /\ Reduce(c, Event("FINISHING_DONE")) =
         IF c.state = "finishing" THEN [c EXCEPT !.state = "refining"] ELSE c
    /\ Reduce(c, Event("REFINING")) =
         IF c.state \in {"finishing", "refining", "refinement_failed"}
         THEN [c EXCEPT !.state = "refining"] ELSE c
    /\ Reduce(c, Says("REFINED", text)) =
         IF c.state \in {"refining", "finishing"}
         THEN [c EXCEPT !.final = text, !.state = "ready_to_edit"] ELSE c
    /\ Reduce(c, Event("REFINE_FAILED")) =
         IF c.state \in {"refining", "finishing"}
         THEN [c EXCEPT !.final = FrozenOr(c), !.state = "refinement_failed"] ELSE c
    /\ \A type \in {"DISCONNECT", "SESSION_EXPIRED"} :
         Reduce(c, Event(type)) =
           IF c.state \in LiveSpeaking \cup {"connecting"}
           THEN [c EXCEPT !.attempts = c.attempts + 1, !.state = "reconnecting"] ELSE c
    /\ \A type \in {"RECONNECT_FAILED", "FALLBACK_TEXT"} :
         Reduce(c, Event(type)) = [c EXCEPT !.state = "fallback_text"]
    /\ Reduce(c, Event("ERROR")) = [c EXCEPT !.state = "error"]
    /\ Reduce(c, Event("DISCARD")) = CreateContext
<1>1. Reduce(c, Event("START")) =
         IF c.state \in {"idle", "error", "fallback_text", "ready_to_edit",
                        "refinement_failed", "permission_denied", "disconnected"}
         THEN [c EXCEPT !.partial = <<>>, !.frozen = <<>>, !.attempts = 0,
                        !.state = "requesting_permission"]
         ELSE c
  BY DEF Reduce, Event, Says, From, Goes, Keeps, Contexts, States
<1>2. Reduce(c, Event("PERMISSION_GRANTED")) =
         IF c.state \in {"requesting_permission", "reconnecting"}
         THEN [c EXCEPT !.state = "connecting"] ELSE c
  BY DEF Reduce, Event, Says, From, Goes, Keeps, Contexts, States
<1>3. Reduce(c, Event("PERMISSION_DENIED")) = [c EXCEPT !.state = "permission_denied"]
  BY DEF Reduce, Event, Says, From, Goes, Keeps, Contexts, States
<1>4. Reduce(c, Event("CONNECTED")) =
         IF c.state \in {"connecting", "reconnecting", "ready"}
         THEN [c EXCEPT !.attempts = 0, !.state = "listening"] ELSE c
  BY DEF Reduce, Event, Says, From, Goes, Keeps, Contexts, States
<1>5. Reduce(c, Event("RECONNECTED")) =
         IF c.state = "reconnecting" THEN [c EXCEPT !.state = "listening"] ELSE c
  BY DEF Reduce, Event, Says, From, Goes, Keeps, Contexts, States
<1>6. Reduce(c, Says("PARTIAL", text)) =
         IF c.state \in LiveSpeaking
         THEN [c EXCEPT !.partial = text,
                        !.state = IF c.state = "paused" THEN "paused" ELSE "live_draft"]
         ELSE c
  <2> DEFINE e == Says("PARTIAL", text)
  <2>1. From(e.type) = LiveSpeaking /\ e.type = "PARTIAL" /\ e.text = text
    BY DEF From, Says
  <2>2. Keeps(c, e) = [c EXCEPT !.partial = text]
    BY <2>1 DEF Keeps
  <2>3. ASSUME c.state \in LiveSpeaking
        PROVE  Goes(c, e) = IF c.state = "paused" THEN "paused" ELSE "live_draft"
    BY <2>1, <2>3 DEF Goes, LiveSpeaking
  <2> HIDE DEF e
  <2> QED
    BY <2>1, <2>2, <2>3 DEF Reduce, Contexts, e
<1>7. Reduce(c, Says("FINAL_SEGMENT", text)) =
         IF c.state \in LiveSpeaking \cup {"finishing"}
         THEN [c EXCEPT !.partial = text, !.final = text,
                        !.state = IF c.state \in {"paused", "finishing"} THEN c.state
                                  ELSE "live_draft"]
         ELSE c
  BY DEF Reduce, Event, Says, From, Goes, Keeps, Contexts, States
<1>8. Reduce(c, Event("PAUSE")) =
         IF c.state \in {"listening", "live_draft"} THEN [c EXCEPT !.state = "paused"] ELSE c
  BY DEF Reduce, Event, Says, From, Goes, Keeps, Contexts, States
<1>9. Reduce(c, Event("RESUME")) =
         IF c.state = "paused"
         THEN [c EXCEPT !.state = IF c.partial = <<>> THEN "listening" ELSE "live_draft"]
         ELSE c
  BY DEF Reduce, Event, Says, From, Goes, Keeps, Contexts, States
<1>10. Reduce(c, Event("FINISH")) =
         IF c.state \in LiveSpeaking
         THEN [c EXCEPT !.partial = <<>>, !.frozen = c.final \o c.partial,
                        !.final = c.final \o c.partial, !.state = "finishing"]
         ELSE c
  BY DEF Reduce, Event, Says, From, Goes, Keeps, Contexts, States
<1>11. Reduce(c, Event("FINISHING_DONE")) =
         IF c.state = "finishing" THEN [c EXCEPT !.state = "refining"] ELSE c
  BY DEF Reduce, Event, Says, From, Goes, Keeps, Contexts, States
<1>12. Reduce(c, Event("REFINING")) =
         IF c.state \in {"finishing", "refining", "refinement_failed"}
         THEN [c EXCEPT !.state = "refining"] ELSE c
  BY DEF Reduce, Event, Says, From, Goes, Keeps, Contexts, States
<1>13. Reduce(c, Says("REFINED", text)) =
         IF c.state \in {"refining", "finishing"}
         THEN [c EXCEPT !.final = text, !.state = "ready_to_edit"] ELSE c
  BY DEF Reduce, Event, Says, From, Goes, Keeps, Contexts, States
<1>14. Reduce(c, Event("REFINE_FAILED")) =
         IF c.state \in {"refining", "finishing"}
         THEN [c EXCEPT !.final = FrozenOr(c), !.state = "refinement_failed"] ELSE c
  BY DEF Reduce, Event, Says, From, Goes, Keeps, Contexts, States
<1>15. \A type \in {"DISCONNECT", "SESSION_EXPIRED"} :
         Reduce(c, Event(type)) =
           IF c.state \in LiveSpeaking \cup {"connecting"}
           THEN [c EXCEPT !.attempts = c.attempts + 1, !.state = "reconnecting"] ELSE c
  BY DEF Reduce, Event, Says, From, Goes, Keeps, Contexts, States
<1>16. \A type \in {"RECONNECT_FAILED", "FALLBACK_TEXT"} :
         Reduce(c, Event(type)) = [c EXCEPT !.state = "fallback_text"]
  BY DEF Reduce, Event, Says, From, Goes, Keeps, Contexts, States
<1>17. Reduce(c, Event("ERROR")) = [c EXCEPT !.state = "error"]
  BY DEF Reduce, Event, Says, From, Goes, Keeps, Contexts, States
<1>18. Reduce(c, Event("DISCARD")) = CreateContext
  BY DEF Reduce, Event, Says, From, Goes, Keeps, Contexts, States
<1> QED
  BY <1>1, <1>2, <1>3, <1>4, <1>5, <1>6, <1>7, <1>8, <1>9, <1>10, <1>11, <1>12, <1>13, <1>14, <1>15, <1>16, <1>17, <1>18

-----------------------------------------------------------------------------
(* The page stays well formed *)

\* The texts of events are texts.
LEMMA TextEmpty == <<>> \in Texts
BY DEF Texts

Losses == {"DISCONNECT", "SESSION_EXPIRED"}
Events ==
  {Event(type) : type \in {"START", "PERMISSION_GRANTED", "PERMISSION_DENIED",
                           "CONNECTED", "RECONNECTED", "PAUSE", "RESUME", "FINISH",
                           "FINISHING_DONE", "REFINING", "REFINE_FAILED",
                           "RECONNECT_FAILED", "FALLBACK_TEXT", "ERROR", "DISCARD"}}
    \cup {Says(type, text) : type \in {"PARTIAL", "FINAL_SEGMENT", "REFINED"}, text \in Texts}

\* A third attempt to recover is the last: whoever captures or tries to has made less.
Tried(c, states) == c.attempts = 3 => c.state \notin states
Capturing == LiveSpeaking \cup {"connecting", "requesting_permission"}
Bounded(c) == Tried(c, Capturing \cup {"reconnecting"})

\* Events keep the state of a capture well formed.
LEMMA ReduceTyped ==
  ASSUME NEW c \in Contexts, NEW e \in Events, Bounded(c)
  PROVE  Reduce(c, e) \in Contexts /\ Bounded(Reduce(c, e))
<1> DEFINE d == Reduce(c, e)
<1>1. /\ c.state \in States /\ c.partial \in Texts /\ c.final \in Texts
      /\ c.frozen \in Texts /\ c.attempts \in 0..3
  BY DEF Contexts
<1>2. c.final \o c.partial \in Texts /\ FrozenOr(c) \in Texts /\ <<>> \in Texts
  BY <1>1 DEF Texts, FrozenOr
<1>3. /\ {"requesting_permission", "connecting", "permission_denied", "listening",
          "paused", "live_draft", "finishing", "refining", "ready_to_edit",
          "refinement_failed", "fallback_text", "error", "idle"} \subseteq States
      /\ 0 \in 0..3
  BY DEF States
<1>4. ASSUME e = Event("START")
      PROVE  d \in Contexts /\ Bounded(d)
  <2> DEFINE v == [c EXCEPT !.partial = <<>>, !.frozen = <<>>, !.attempts = 0,
                         !.state = "requesting_permission"]
  <2>1. d = IF c.state \in {"idle", "error", "fallback_text", "ready_to_edit", "refinement_failed", "permission_denied", "disconnected"} THEN v ELSE c
    BY <1>4, <1>2, Reduces
  <2>2. v \in Contexts
    BY <1>1, <1>2, <1>3 DEF Contexts
  <2>3. c.state \in {"idle", "error", "fallback_text", "ready_to_edit", "refinement_failed", "permission_denied", "disconnected"} => Bounded(v)
    BY <1>1 DEF Bounded, Tried, Capturing, LiveSpeaking, Contexts
  <2> QED
    BY <2>1, <2>2, <2>3
<1>5. ASSUME e = Event("PERMISSION_GRANTED")
      PROVE  d \in Contexts /\ Bounded(d)
  <2> DEFINE v == [c EXCEPT !.state = "connecting"]
  <2>1. d = IF c.state \in {"requesting_permission", "reconnecting"} THEN v ELSE c
    BY <1>5, <1>2, Reduces
  <2>2. v \in Contexts
    BY <1>1, <1>2, <1>3 DEF Contexts
  <2>3. c.state \in {"requesting_permission", "reconnecting"} => Bounded(v)
    BY <1>1 DEF Bounded, Tried, Capturing, LiveSpeaking, Contexts
  <2> QED
    BY <2>1, <2>2, <2>3
<1>6. ASSUME e = Event("PERMISSION_DENIED")
      PROVE  d \in Contexts /\ Bounded(d)
  <2> DEFINE v == [c EXCEPT !.state = "permission_denied"]
  <2>1. d = v
    BY <1>6, <1>2, Reduces
  <2>2. v \in Contexts
    BY <1>1, <1>2, <1>3 DEF Contexts
  <2>3. Bounded(v)
    BY <1>1 DEF Bounded, Tried, Capturing, LiveSpeaking, Contexts
  <2> QED
    BY <2>1, <2>2, <2>3
<1>7. ASSUME e = Event("CONNECTED")
      PROVE  d \in Contexts /\ Bounded(d)
  <2> DEFINE v == [c EXCEPT !.attempts = 0, !.state = "listening"]
  <2>1. d = IF c.state \in {"connecting", "reconnecting", "ready"} THEN v ELSE c
    BY <1>7, <1>2, Reduces
  <2>2. v \in Contexts
    BY <1>1, <1>2, <1>3 DEF Contexts
  <2>3. c.state \in {"connecting", "reconnecting", "ready"} => Bounded(v)
    BY <1>1 DEF Bounded, Tried, Capturing, LiveSpeaking, Contexts
  <2> QED
    BY <2>1, <2>2, <2>3
<1>8. ASSUME e = Event("RECONNECTED")
      PROVE  d \in Contexts /\ Bounded(d)
  <2> DEFINE v == [c EXCEPT !.state = "listening"]
  <2>1. d = IF c.state = "reconnecting" THEN v ELSE c
    BY <1>8, <1>2, Reduces
  <2>2. v \in Contexts
    BY <1>1, <1>2, <1>3 DEF Contexts
  <2>3. c.state = "reconnecting" => Bounded(v)
    BY <1>1 DEF Bounded, Tried, Capturing, LiveSpeaking, Contexts
  <2> QED
    BY <2>1, <2>2, <2>3
<1>9. ASSUME e = Event("PAUSE")
      PROVE  d \in Contexts /\ Bounded(d)
  <2> DEFINE v == [c EXCEPT !.state = "paused"]
  <2>1. d = IF c.state \in {"listening", "live_draft"} THEN v ELSE c
    BY <1>9, <1>2, Reduces
  <2>2. v \in Contexts
    BY <1>1, <1>2, <1>3 DEF Contexts
  <2>3. c.state \in {"listening", "live_draft"} => Bounded(v)
    BY <1>1 DEF Bounded, Tried, Capturing, LiveSpeaking, Contexts
  <2> QED
    BY <2>1, <2>2, <2>3
<1>10. ASSUME e = Event("RESUME")
      PROVE  d \in Contexts /\ Bounded(d)
  <2> DEFINE v == [c EXCEPT !.state = IF c.partial = <<>> THEN "listening" ELSE
                         "live_draft"]
  <2>1. d = IF c.state = "paused" THEN v ELSE c
    BY <1>10, <1>2, Reduces
  <2>2. v \in Contexts
    BY <1>1, <1>2, <1>3 DEF Contexts
  <2>3. c.state = "paused" => Bounded(v)
    BY <1>1 DEF Bounded, Tried, Capturing, LiveSpeaking, Contexts
  <2> QED
    BY <2>1, <2>2, <2>3
<1>11. ASSUME e = Event("FINISH")
      PROVE  d \in Contexts /\ Bounded(d)
  <2> DEFINE v == [c EXCEPT !.partial = <<>>, !.frozen = c.final \o c.partial,
                         !.final = c.final \o c.partial,
                         !.state = "finishing"]
  <2>1. d = IF c.state \in LiveSpeaking THEN v ELSE c
    BY <1>11, <1>2, Reduces
  <2>2. v \in Contexts
    BY <1>1, <1>2, <1>3 DEF Contexts
  <2>3. c.state \in LiveSpeaking => Bounded(v)
    BY <1>1 DEF Bounded, Tried, Capturing, LiveSpeaking, Contexts
  <2> QED
    BY <2>1, <2>2, <2>3
<1>12. ASSUME e = Event("FINISHING_DONE")
      PROVE  d \in Contexts /\ Bounded(d)
  <2> DEFINE v == [c EXCEPT !.state = "refining"]
  <2>1. d = IF c.state = "finishing" THEN v ELSE c
    BY <1>12, <1>2, Reduces
  <2>2. v \in Contexts
    BY <1>1, <1>2, <1>3 DEF Contexts
  <2>3. c.state = "finishing" => Bounded(v)
    BY <1>1 DEF Bounded, Tried, Capturing, LiveSpeaking, Contexts
  <2> QED
    BY <2>1, <2>2, <2>3
<1>13. ASSUME e = Event("REFINING")
      PROVE  d \in Contexts /\ Bounded(d)
  <2> DEFINE v == [c EXCEPT !.state = "refining"]
  <2>1. d = IF c.state \in {"finishing", "refining", "refinement_failed"} THEN v ELSE c
    BY <1>13, <1>2, Reduces
  <2>2. v \in Contexts
    BY <1>1, <1>2, <1>3 DEF Contexts
  <2>3. c.state \in {"finishing", "refining", "refinement_failed"} => Bounded(v)
    BY <1>1 DEF Bounded, Tried, Capturing, LiveSpeaking, Contexts
  <2> QED
    BY <2>1, <2>2, <2>3
<1>14. ASSUME e = Event("REFINE_FAILED")
      PROVE  d \in Contexts /\ Bounded(d)
  <2> DEFINE v == [c EXCEPT !.final = FrozenOr(c), !.state =
                         "refinement_failed"]
  <2>1. d = IF c.state \in {"refining", "finishing"} THEN v ELSE c
    BY <1>14, <1>2, Reduces
  <2>2. v \in Contexts
    BY <1>1, <1>2, <1>3 DEF Contexts
  <2>3. c.state \in {"refining", "finishing"} => Bounded(v)
    BY <1>1 DEF Bounded, Tried, Capturing, LiveSpeaking, Contexts
  <2> QED
    BY <2>1, <2>2, <2>3
<1>15. ASSUME e = Event("RECONNECT_FAILED")
      PROVE  d \in Contexts /\ Bounded(d)
  <2> DEFINE v == [c EXCEPT !.state = "fallback_text"]
  <2>1. d = v
    BY <1>15, <1>2, Reduces
  <2>2. v \in Contexts
    BY <1>1, <1>2, <1>3 DEF Contexts
  <2>3. Bounded(v)
    BY <1>1 DEF Bounded, Tried, Capturing, LiveSpeaking, Contexts
  <2> QED
    BY <2>1, <2>2, <2>3
<1>16. ASSUME e = Event("FALLBACK_TEXT")
      PROVE  d \in Contexts /\ Bounded(d)
  <2> DEFINE v == [c EXCEPT !.state = "fallback_text"]
  <2>1. d = v
    BY <1>16, <1>2, Reduces
  <2>2. v \in Contexts
    BY <1>1, <1>2, <1>3 DEF Contexts
  <2>3. Bounded(v)
    BY <1>1 DEF Bounded, Tried, Capturing, LiveSpeaking, Contexts
  <2> QED
    BY <2>1, <2>2, <2>3
<1>17. ASSUME e = Event("ERROR")
      PROVE  d \in Contexts /\ Bounded(d)
  <2> DEFINE v == [c EXCEPT !.state = "error"]
  <2>1. d = v
    BY <1>17, <1>2, Reduces
  <2>2. v \in Contexts
    BY <1>1, <1>2, <1>3 DEF Contexts
  <2>3. Bounded(v)
    BY <1>1 DEF Bounded, Tried, Capturing, LiveSpeaking, Contexts
  <2> QED
    BY <2>1, <2>2, <2>3
<1>18. ASSUME e = Event("DISCARD") PROVE d \in Contexts /\ Bounded(d)
  <2>1. d = CreateContext
    BY <1>18, <1>2, Reduces
  <2> QED
    BY <1>2, <1>3, <2>1 DEF CreateContext, Contexts, Bounded, Tried
<1>19. ASSUME NEW text \in Texts, e = Says("PARTIAL", text)
      PROVE  d \in Contexts /\ Bounded(d)
  <2> DEFINE v == [c EXCEPT !.partial = text, !.state = IF c.state = "paused"
                         THEN "paused" ELSE "live_draft"]
  <2>1. d = IF c.state \in LiveSpeaking THEN v ELSE c
    BY <1>19, <1>2, Reduces
  <2>2. v \in Contexts
    BY <1>1, <1>2, <1>3 DEF Contexts
  <2>3. c.state \in LiveSpeaking => Bounded(v)
    BY <1>1 DEF Bounded, Tried, Capturing, LiveSpeaking, Contexts
  <2> QED
    BY <2>1, <2>2, <2>3
<1>20. ASSUME NEW text \in Texts, e = Says("FINAL_SEGMENT", text)
      PROVE  d \in Contexts /\ Bounded(d)
  <2> DEFINE v == [c EXCEPT !.partial = text, !.final = text, !.state = IF
                         c.state \in {"paused", "finishing"}
                         THEN c.state ELSE "live_draft"]
  <2>1. d = IF c.state \in LiveSpeaking \cup {"finishing"} THEN v ELSE c
    BY <1>20, <1>2, Reduces
  <2>2. v \in Contexts
    BY <1>1, <1>2, <1>3 DEF Contexts
  <2>3. c.state \in LiveSpeaking \cup {"finishing"} => Bounded(v)
    BY <1>1 DEF Bounded, Tried, Capturing, LiveSpeaking, Contexts
  <2> QED
    BY <2>1, <2>2, <2>3
<1>21. ASSUME NEW text \in Texts, e = Says("REFINED", text)
      PROVE  d \in Contexts /\ Bounded(d)
  <2> DEFINE v == [c EXCEPT !.final = text, !.state = "ready_to_edit"]
  <2>1. d = IF c.state \in {"refining", "finishing"} THEN v ELSE c
    BY <1>21, <1>2, Reduces
  <2>2. v \in Contexts
    BY <1>1, <1>2, <1>3 DEF Contexts
  <2>3. c.state \in {"refining", "finishing"} => Bounded(v)
    BY <1>1 DEF Bounded, Tried, Capturing, LiveSpeaking, Contexts
  <2> QED
    BY <2>1, <2>2, <2>3
<1> QED
  BY <1>4, <1>5, <1>6, <1>7, <1>8, <1>9, <1>10, <1>11, <1>12,
     <1>13, <1>14, <1>15, <1>16, <1>17, <1>18, <1>19, <1>20, <1>21 DEF Events

LEMMA LossTyped ==
  ASSUME NEW c \in Contexts, NEW type \in Losses, Bounded(c)
  PROVE  /\ Reduce(c, Event(type)) \in Contexts
         /\ Tried(Reduce(c, Event(type)), Capturing)
<1>1. /\ c.state \in States /\ c.partial \in Texts /\ c.final \in Texts
      /\ c.frozen \in Texts /\ c.attempts \in 0..3
  BY DEF Contexts
<1>2. Reduce(c, Event(type)) =
           IF c.state \in LiveSpeaking \cup {"connecting"}
           THEN [c EXCEPT !.attempts = c.attempts + 1, !.state = "reconnecting"] ELSE c
  BY Reduces, TextEmpty DEF Losses
<1>3. CASE c.state \in LiveSpeaking \cup {"connecting"}
  <2>1. c.attempts # 3
    BY <1>3 DEF Bounded, Tried, Capturing
  <2>2. c.attempts + 1 \in 0..3
    BY <1>1, <2>1
  <2>3. "reconnecting" \in States /\ "reconnecting" \notin Capturing
    BY DEF States, Capturing, LiveSpeaking
  <2> DEFINE d == [c EXCEPT !.attempts = c.attempts + 1, !.state = "reconnecting"]
  <2>4. d \in Contexts /\ d.state = "reconnecting"
    BY <2>2, <2>3 DEF Contexts
  <2> QED
    BY <1>2, <1>3, <2>3, <2>4 DEF Tried
<1>4. CASE c.state \notin LiveSpeaking \cup {"connecting"}
  BY <1>2, <1>4 DEF Bounded, Tried
<1> QED
  BY <1>3, <1>4

\* The fields of a page that one operator sets keep it well formed.
LEMMA TabSet ==
  ASSUME NEW t \in Tabs
  PROVE  /\ \A c \in Contexts, a \in Texts : [t EXCEPT !.ctx = c, !.answer = a] \in Tabs
         /\ \A ps \in SUBSET Peers, id \in 0..MaxConnections :
              [t EXCEPT !.peers = ps, !.peer = id] \in Tabs
         /\ \A ms \in SUBSET ((0..MaxTakes) \X {"stream", "recorder"}),
              s, r \in 0..MaxTakes :
              [t EXCEPT !.mics = ms, !.stream = s, !.recorder = r] \in Tabs
         /\ \A b, c \in 0..MaxTakes : [t EXCEPT !.audioBlob = b, !.chunks = c] \in Tabs
         /\ \A fs \in SUBSET Flows : [t EXCEPT !.flows = fs] \in Tabs
         /\ \A b \in BOOLEAN : [t EXCEPT !.timer = b] \in Tabs
         /\ \A b \in BOOLEAN, a \in Texts : [t EXCEPT !.editing = b, !.answer = a] \in Tabs
         /\ \A st \in Seq(Items) : [t EXCEPT !.store = st] \in Tabs
<1>1. \A c \in Contexts, a \in Texts : [t EXCEPT !.ctx = c, !.answer = a] \in Tabs
  BY DEF Tabs
<1>2. \A ps \in SUBSET Peers, id \in 0..MaxConnections :
              [t EXCEPT !.peers = ps, !.peer = id] \in Tabs
  BY DEF Tabs
<1>3. \A ms \in SUBSET ((0..MaxTakes) \X {"stream", "recorder"}),
              s, r \in 0..MaxTakes :
              [t EXCEPT !.mics = ms, !.stream = s, !.recorder = r] \in Tabs
  BY DEF Tabs
<1>4. \A b, c \in 0..MaxTakes : [t EXCEPT !.audioBlob = b, !.chunks = c] \in Tabs
  BY DEF Tabs
<1>5. \A fs \in SUBSET Flows : [t EXCEPT !.flows = fs] \in Tabs
  BY DEF Tabs
<1>6. \A b \in BOOLEAN : [t EXCEPT !.timer = b] \in Tabs
  BY DEF Tabs
<1>7. \A b \in BOOLEAN, a \in Texts : [t EXCEPT !.editing = b, !.answer = a] \in Tabs
  BY DEF Tabs
<1>8. \A st \in Seq(Items) : [t EXCEPT !.store = st] \in Tabs
  BY DEF Tabs
<1> QED
  BY <1>1, <1>2, <1>3, <1>4, <1>5, <1>6, <1>7, <1>8

LEMMA Bounds ==
  /\ 0 \in 0..MaxTakes /\ 0 \in 0..MaxConnections /\ 0 \in 0..MaxUploads
  /\ 0 \in 0..MaxAttempts /\ 1 \in 0..MaxAttempts /\ 0 \in 0..MaxMessages
  /\ {MaxAttempts, MaxTakes, MaxItems, MaxConnections, MaxMessages, MaxUploads} \subseteq Nat
BY VoiceAssumption

LEMMA TabFields ==
  ASSUME NEW t \in Tabs
  PROVE  /\ t.outcome \in {"asking", "processing", "sufficient"}
         /\ t.answer \in Texts /\ t.take \in 0..MaxTakes /\ t.ctx \in Contexts
         /\ t.store \in Seq(Items) /\ t.stream \in 0..MaxTakes
         /\ t.recorder \in 0..MaxTakes /\ t.chunks \in 0..MaxTakes
         /\ t.audioBlob \in 0..MaxTakes /\ t.peer \in 0..MaxConnections
         /\ t.mics \in SUBSET ((0..MaxTakes) \X {"stream", "recorder"})
         /\ t.peers \in SUBSET Peers /\ t.flows \in SUBSET Flows
         /\ t.sessions \in 0..MaxConnections /\ t.messages \in 0..MaxMessages
BY DEF Tabs

\* What is shown of a page is a text.
LEMMA ShownText ==
  ASSUME NEW t \in Tabs
  PROVE  GetDisplayText(t) \in Texts /\ DisplayAnswerText(t.store) \in Texts
<1>1. DisplayAnswerText(t.store) \in Texts /\ t.ctx \in Contexts
  BY TabFields, DisplayShows
<1>2. DisplayTranscript(t.ctx) \in Texts
  BY <1>1 DEF DisplayTranscript, FrozenOr, Contexts
<1> QED
  BY <1>1, <1>2 DEF GetDisplayText

Steady(t) == t \in Tabs /\ Named(t.store) /\ Bounded(t.ctx)

\* An event changes the state of the capture and perhaps what is in the box.
LEMMA DispatchSets ==
  ASSUME NEW t \in Tabs, NEW e
  PROVE  Dispatch(t, e) =
           [t EXCEPT !.ctx = Reduce(t.ctx, e), !.answer = Dispatch(t, e).answer]
BY DEF Tabs, Dispatch, OnContext

LEMMA DispatchText ==
  ASSUME NEW t \in Tabs, NEW e, Reduce(t.ctx, e) \in Contexts
  PROVE  /\ Dispatch(t, e) \in Tabs
         /\ Dispatch(t, e).store = t.store
         /\ Dispatch(t, e).ctx = Reduce(t.ctx, e)
<1> DEFINE u == [t EXCEPT !.ctx = Reduce(t.ctx, e)]
<1>1. u \in Tabs /\ u.answer = t.answer
  BY DEF Tabs
<1>2. GetDisplayText(u) \in Texts /\ t.answer \in Texts
  BY <1>1, ShownText, TabFields
<1> HIDE DEF u
<1>3. OnContext(u).answer \in Texts
  BY <1>1, <1>2 DEF OnContext, Tabs
<1>4. Dispatch(t, e).answer \in Texts
  BY <1>3, Zenon DEF Dispatch, u
<1> DEFINE a == Dispatch(t, e).answer
           d == Dispatch(t, e)
<1>5. d = [t EXCEPT !.ctx = Reduce(t.ctx, e), !.answer = a] /\ a \in Texts
  BY <1>4, DispatchSets, Zenon
<1> HIDE DEF a, d
<1>6. d \in Tabs
  BY <1>5, TabSet
<1>7. d.store = t.store /\ d.ctx = Reduce(t.ctx, e)
  BY <1>5 DEF Tabs
<1> QED
  BY <1>6, <1>7 DEF d

LEMMA DispatchSteady ==
  ASSUME NEW t, Steady(t), NEW e \in Events
  PROVE  Steady(Dispatch(t, e))
<1>1. t \in Tabs /\ t.ctx \in Contexts /\ Bounded(t.ctx)
  BY TabFields DEF Steady
<1>2. Reduce(t.ctx, e) \in Contexts /\ Bounded(Reduce(t.ctx, e))
  BY <1>1, ReduceTyped
<1> QED
  BY <1>1, <1>2, DispatchText DEF Steady

\* Closing a connection, or all that a recording uses.
LEMMA TeardownSets ==
  ASSUME NEW t \in Tabs
  PROVE  TeardownMedia(t) =
           [t EXCEPT !.peers = {p \in t.peers : p.id # t.peer}, !.peer = 0,
                     !.mics = t.mics \ {Stream(t.stream), Clone(t.recorder)},
                     !.stream = 0, !.recorder = 0]
BY DEF Tabs, TeardownMedia, TeardownPeerOnly

LEMMA SteadyCloses ==
  ASSUME NEW t, Steady(t)
  PROVE  /\ Steady(TeardownPeerOnly(t))
         /\ Steady(TeardownMedia(t))
         /\ Steady(ReleaseAudioBlob(t))
<1>1. t \in Tabs /\ Named(t.store) /\ Bounded(t.ctx)
  BY DEF Steady
<1>2. /\ {p \in t.peers : p.id # t.peer} \in SUBSET Peers
      /\ 0 \in 0..MaxConnections /\ 0 \in 0..MaxTakes
  BY <1>1, TabFields, Bounds
<1>3. Steady(TeardownPeerOnly(t))
  <2> DEFINE ps == {p \in t.peers : p.id # t.peer}
             u == [t EXCEPT !.peers = ps, !.peer = 0]
  <2>1. u \in Tabs
    <3> HIDE DEF ps
    <3> QED
      BY <1>1, <1>2, TabSet DEF ps
  <2>2. u.store = t.store /\ u.ctx = t.ctx
    BY <1>1 DEF Tabs
  <2> QED
    BY <1>1, <2>1, <2>2, Zenon DEF Steady, TeardownPeerOnly
<1>4. ASSUME NEW u, Steady(u)
      PROVE  Steady([u EXCEPT !.mics = u.mics \ {Stream(t.stream), Clone(t.recorder)},
                              !.stream = 0, !.recorder = 0])
  <2> DEFINE ms == u.mics \ {Stream(t.stream), Clone(t.recorder)}
             v == [u EXCEPT !.mics = ms, !.stream = 0, !.recorder = 0]
  <2>1. u \in Tabs /\ ms \in SUBSET ((0..MaxTakes) \X {"stream", "recorder"})
    BY <1>4, TabFields DEF Steady
  <2> HIDE DEF ms
  <2>2. v \in Tabs
    BY <1>2, <2>1, TabSet
  <2>3. v.store = u.store /\ v.ctx = u.ctx
    BY <2>1 DEF Tabs
  <2>4. Steady(v)
    BY <1>4, <2>2, <2>3 DEF Steady
  <2> QED
    BY <2>4, Zenon DEF ms
<1>5. Steady(TeardownMedia(t))
  <2> DEFINE u == TeardownPeerOnly(t)
  <2>1. u.mics = t.mics /\ Steady(u)
    BY <1>1, <1>3 DEF TeardownPeerOnly, Tabs
  <2> HIDE DEF u
  <2>2. Steady([u EXCEPT !.mics = u.mics \ {Stream(t.stream), Clone(t.recorder)},
                         !.stream = 0, !.recorder = 0])
    BY <1>4, <2>1
  <2> QED
    BY <2>2, Zenon DEF TeardownMedia, u
<1>6. Steady(ReleaseAudioBlob(t))
  <2> DEFINE u == [t EXCEPT !.audioBlob = 0, !.chunks = 0]
  <2>1. u \in Tabs
    BY <1>1, <1>2, TabSet
  <2>2. u.store = t.store /\ u.ctx = t.ctx
    BY <1>1 DEF Tabs
  <2> QED
    BY <1>1, <2>1, <2>2, Zenon DEF Steady, ReleaseAudioBlob
<1> QED
  BY <1>3, <1>5, <1>6

\* The calls that are awaited.
LEMMA FlowTyped ==
  ASSUME NEW kind \in {"start", "recover", "finish", "retry"},
         NEW at \in {"mic", "session", "answer", "collect", "recorder", "refine"},
         NEW take \in 0..MaxTakes, NEW live \in Texts
  PROVE  /\ Flow(kind, at, take) \in Flows
         /\ [Flow(kind, at, take) EXCEPT !.live = live] \in Flows
BY Bounds, TextEmpty DEF Flow, Flows

LEMMA SteadyFlows ==
  ASSUME NEW t, Steady(t), NEW f, NEW g \in Flows
  PROVE  Steady(Begins(t, g)) /\ Steady(Ends(t, f)) /\ Steady(Continues(t, f, g))
<1>1. t \in Tabs /\ Named(t.store) /\ Bounded(t.ctx) /\ t.flows \in SUBSET Flows
  BY TabFields DEF Steady
<1>2. ASSUME NEW fs \in SUBSET Flows
      PROVE  Steady([t EXCEPT !.flows = fs])
  <2> DEFINE u == [t EXCEPT !.flows = fs]
  <2>1. u \in Tabs
    BY <1>1, TabSet
  <2>2. u.store = t.store /\ u.ctx = t.ctx
    BY <1>1 DEF Tabs
  <2> QED
    BY <1>1, <2>1, <2>2, Zenon DEF Steady
<1>3. /\ t.flows \cup {g} \in SUBSET Flows /\ t.flows \ {f} \in SUBSET Flows
      /\ (t.flows \ {f}) \cup {g} \in SUBSET Flows
  BY <1>1
<1> QED
  BY <1>2, <1>3, Zenon DEF Begins, Ends, Continues

LEMMA EventsAre ==
  /\ \A type \in {"START", "PERMISSION_GRANTED", "PERMISSION_DENIED",
                  "CONNECTED", "RECONNECTED", "PAUSE", "RESUME", "FINISH",
                  "FINISHING_DONE", "REFINING", "REFINE_FAILED",
                  "RECONNECT_FAILED", "FALLBACK_TEXT", "ERROR", "DISCARD"} :
       Event(type) \in Events
  /\ \A type \in {"PARTIAL", "FINAL_SEGMENT", "REFINED"}, text \in Texts :
       Says(type, text) \in Events
BY DEF Events

\* The failures and what follows a connection.
LEMMA SteadyFails ==
  ASSUME NEW t, Steady(t), NEW f
  PROVE  Steady(Breaks(t)) /\ Steady(Fails(t, f)) /\ Steady(Follows(t, f))
<1>1. /\ Event("ERROR") \in Events /\ Event("FALLBACK_TEXT") \in Events
      /\ Event("RECONNECT_FAILED") \in Events /\ Event("RECONNECTED") \in Events
  BY EventsAre
<1>2. Steady(Breaks(t))
  BY <1>1, DispatchSteady, Zenon DEF Breaks
<1>3. Steady(Fails(t, f))
  BY <1>1, <1>2, DispatchSteady, SteadyCloses, Zenon DEF Fails
<1>4. Steady([t EXCEPT !.timer = TRUE])
  <2>1. t \in Tabs
    BY DEF Steady
  <2>2. [t EXCEPT !.timer = TRUE] \in Tabs
    BY <2>1, TabSet
  <2>3. [t EXCEPT !.timer = TRUE].store = t.store /\ [t EXCEPT !.timer = TRUE].ctx = t.ctx
    BY <2>1 DEF Tabs
  <2> QED
    BY <2>2, <2>3, Zenon DEF Steady
<1>5. Steady(Follows(t, f))
  BY <1>1, <1>4, DispatchSteady, Zenon DEF Follows
<1> QED
  BY <1>2, <1>3, <1>5

\* Losing the connection, and trying to recover it.
LEMMA SteadyRecovers ==
  ASSUME NEW t, Steady(t), NEW type \in Losses
  PROVE  Steady(Recover(Dispatch(t, Event(type))))
<1> DEFINE u == Dispatch(t, Event(type))
           c == Reduce(t.ctx, Event(type))
<1>1. t \in Tabs /\ t.ctx \in Contexts /\ Bounded(t.ctx) /\ Named(t.store)
  BY TabFields DEF Steady
<1>2. c \in Contexts /\ Tried(c, Capturing)
  BY <1>1, LossTyped
<1>3. u \in Tabs /\ u.store = t.store /\ u.ctx = c
  BY <1>1, <1>2, DispatchText
<1> HIDE DEF u, c
<1>4. c.attempts \in 0..3
  BY <1>2 DEF Contexts
<1>5. CASE c.state # "reconnecting" \/ ~(c.attempts > 2)
  <2>1. Bounded(c)
    BY <1>2, <1>4, <1>5 DEF Bounded, Tried
  <2>2. Steady(u)
    BY <1>1, <1>3, <2>1 DEF Steady
  <2>3. /\ Event("RECONNECT_FAILED") \in Events
        /\ Event("PERMISSION_GRANTED") \in Events
    BY EventsAre
  <2>4. Flow("recover", "mic", u.take) \in Flows /\ Flow("recover", "session", u.stream) \in Flows
    BY <1>3, TabFields, TextEmpty, FlowTyped
  <2>5. Steady(Begins(TeardownPeerOnly(u), Flow("recover", "mic", u.take)))
    BY <2>2, <2>4, SteadyCloses, SteadyFlows, Zenon
  <2>6. Steady(Begins(Dispatch(TeardownPeerOnly(u), Event("PERMISSION_GRANTED")),
                      Flow("recover", "session", u.stream)))
    BY <2>2, <2>3, <2>4, SteadyCloses, SteadyFlows, DispatchSteady, Zenon
  <2>7. Steady(TeardownPeerOnly(Dispatch(u, Event("RECONNECT_FAILED"))))
    BY <2>2, <2>3, SteadyCloses, DispatchSteady, Zenon
  <2> QED
    BY <2>2, <2>5, <2>6, <2>7, Zenon DEF Recover, u
<1>6. CASE c.state = "reconnecting" /\ c.attempts > 2
  <2> DEFINE v == Dispatch(u, Event("RECONNECT_FAILED"))
             d == [c EXCEPT !.state = "fallback_text"]
  <2>1. Reduce(c, Event("RECONNECT_FAILED")) = d
    BY <1>2, Reduces, TextEmpty
  <2>2. d \in Contexts /\ Bounded(d)
    <3>1. "fallback_text" \in States
      BY DEF States
    <3>2. d \in Contexts /\ d.state = "fallback_text"
      BY <1>2, <3>1 DEF Contexts
    <3> QED
      BY <3>2 DEF Bounded, Tried, Capturing, LiveSpeaking
  <2>3. v \in Tabs /\ v.store = u.store /\ v.ctx = d
    BY <1>3, <2>1, <2>2, DispatchText
  <2>4. Steady(v)
    BY <1>1, <1>3, <2>2, <2>3 DEF Steady
  <2>5. Recover(u) = TeardownPeerOnly(v)
    BY <1>3, <1>6 DEF Recover
  <2> QED
    BY <2>4, <2>5, SteadyCloses, Zenon DEF u
<1> QED
  BY <1>5, <1>6

\* Discarding what was recorded.
LEMMA SteadyDiscards ==
  ASSUME NEW t, Steady(t)
  PROVE  Steady(Discard(t)) /\ Steady(ResetVoiceForNextAnswer(t))
<1>1. ASSUME NEW u, Steady(u)
      PROVE  Steady(Discard(u))
  <2> DEFINE a == [u EXCEPT !.timer = FALSE]
             b == ReleaseAudioBlob(TeardownMedia(a))
             c == [b EXCEPT !.audioBlob = u.recorder, !.store = CreateStore]
  <2>1. u \in Tabs /\ Named(u.store) /\ Bounded(u.ctx) /\ u.recorder \in 0..MaxTakes
    BY <1>1, TabFields DEF Steady
  <2>2. Steady(a)
    <3>1. a \in Tabs
      BY <2>1, TabSet
    <3>2. a.store = u.store /\ a.ctx = u.ctx
      BY <2>1 DEF Tabs
    <3> QED
      BY <2>1, <3>1, <3>2 DEF Steady
  <2> HIDE DEF a
  <2>3. Steady(b)
    BY <2>2, SteadyCloses, Zenon
  <2> HIDE DEF b
  <2>4. Steady(c)
    <3>1. b \in Tabs /\ Bounded(b.ctx)
      BY <2>3 DEF Steady
    <3>2. <<>> \in Seq(Items)
      OBVIOUS
    <3>3. c \in Tabs /\ c.store = <<>> /\ c.ctx = b.ctx
      BY <2>1, <3>1, <3>2 DEF Tabs, CreateStore
    <3>4. Named(c.store)
      BY <3>3 DEF Named
    <3> QED
      BY <3>1, <3>3, <3>4 DEF Steady
  <2> HIDE DEF c
  <2>5. Steady(Dispatch(c, Event("DISCARD")))
    BY <2>4, EventsAre, DispatchSteady
  <2> QED
    BY <2>5, Zenon DEF Discard, a, b, c
<1>2. Steady([t EXCEPT !.editing = FALSE, !.answer = <<>>])
  <2> DEFINE u == [t EXCEPT !.editing = FALSE, !.answer = <<>>]
  <2>1. t \in Tabs
    BY DEF Steady
  <2>2. u \in Tabs
    BY <2>1, TextEmpty, TabSet
  <2>3. u.store = t.store /\ u.ctx = t.ctx
    BY <2>1 DEF Tabs
  <2> QED
    BY <2>2, <2>3, Zenon DEF Steady
<1> QED
  BY <1>1, <1>2, Zenon DEF ResetVoiceForNextAnswer

\* What only sets other fields leaves a page well formed.
LEMMA SteadySame ==
  ASSUME NEW t, Steady(t), NEW u \in Tabs, u.store = t.store, u.ctx = t.ctx
  PROVE  Steady(u)
BY DEF Steady

\* Freezing a text, and finishing.
LEMMA SteadyFrozen ==
  ASSUME NEW t, Steady(t), NEW text \in Texts
  PROVE  /\ Steady([t EXCEPT !.ctx.frozen = text, !.ctx.final = text])
         /\ Steady(OnContext([t EXCEPT !.ctx.frozen = text, !.ctx.final = text]))
<1> DEFINE c == [t.ctx EXCEPT !.frozen = text, !.final = text]
           u == [t EXCEPT !.ctx.frozen = text, !.ctx.final = text]
<1>1. t \in Tabs /\ t.ctx \in Contexts /\ Bounded(t.ctx) /\ t.answer \in Texts
  BY TabFields DEF Steady
<1>2. c \in Contexts /\ c.state = t.ctx.state /\ c.attempts = t.ctx.attempts
  BY <1>1 DEF Contexts
<1>3. Bounded(c)
  BY <1>1, <1>2 DEF Bounded, Tried
<1> HIDE DEF c
<1>4. u = [t EXCEPT !.ctx = c, !.answer = t.answer]
  BY <1>1 DEF Tabs, Contexts, c
<1>5. u \in Tabs
  <2> HIDE DEF u
  <2> QED
    BY <1>1, <1>2, <1>4, TabSet
<1>6. u.ctx = c /\ u.store = t.store
  BY <1>1, <1>4 DEF Tabs
<1> HIDE DEF u
<1>7. Steady(u)
  BY <1>3, <1>5, <1>6 DEF Steady
<1>8. Steady(OnContext(u))
  <2> DEFINE v == [u EXCEPT !.ctx = c, !.answer = GetDisplayText(u)]
  <2>1. v \in Tabs
    BY <1>2, <1>5, ShownText, TabSet
  <2>2. v.store = u.store /\ v.ctx = u.ctx /\ v = [u EXCEPT !.answer = GetDisplayText(u)]
    BY <1>5, <1>6 DEF Tabs
  <2>3. Steady(v)
    BY <1>7, <2>1, <2>2, SteadySame, Zenon
  <2> QED
    BY <1>7, <2>2, <2>3, Zenon DEF OnContext
<1> QED
  BY <1>7, <1>8 DEF u

LEMMA SteadyFinish ==
  ASSUME NEW t, Steady(t)
  PROVE  Steady(Finish(t))
<1> DEFINE before == DisplayAnswerText(t.store)
           frozen == Dispatch(t, Event("FINISH"))
           kept == IF before # <<>> /\ frozen.ctx.frozen = <<>>
                   THEN OnContext([frozen EXCEPT !.ctx.frozen = before, !.ctx.final = before])
                   ELSE frozen
<1>1. t \in Tabs /\ before \in Texts /\ t.take \in 0..MaxTakes
  BY TabFields, ShownText DEF Steady
<1>2. Steady(frozen)
  BY EventsAre, DispatchSteady
<1> HIDE DEF before, frozen
<1>3. Steady(kept)
  BY <1>1, <1>2, SteadyFrozen, Zenon
<1>4. [Flow("finish", "collect", t.take) EXCEPT !.live = before] \in Flows
  BY <1>1, FlowTyped
<1>5. Steady(Begins(kept, [Flow("finish", "collect", t.take) EXCEPT !.live = before]))
  BY <1>3, <1>4, SteadyFlows
<1> QED
  BY <1>5, Zenon DEF Finish, before, frozen

Formed == TypeOK /\ Bounded(tab.ctx)

LEMMA FormedSteady ==
  ASSUME Formed
  PROVE  Steady(tab)
BY DEF Formed, TypeOK, Steady, Named

\* The host's actions.
LEMMA HostSteady ==
  ASSUME Steady(tab), Host \/ Submitted \/ SubmitFails \/ TimeUp
  PROVE  Steady(tab')
<1>1. /\ tab \in Tabs /\ tab.take \in 0..MaxTakes /\ tab.audioBlob \in 0..MaxTakes
      /\ tab.ctx \in Contexts
  BY TabFields DEF Steady
<1>2. CASE Start
  <2> DEFINE a == [tab EXCEPT !.editing = tab.editing /\ tab.ctx.state = "permission_denied",
                              !.take = tab.take + 1,
                              !.overlapped = tab.overlapped \/ tab.flows # {} \/ tab.mics # {}]
             t == Dispatch(a, Event("START"))
             b == [t EXCEPT !.store = CreateStore]
  <2>1. tab.take + 1 \in 0..MaxTakes
    <3>1. tab.take < MaxTakes /\ MaxTakes \in Nat
      BY <1>2, Bounds, Zenon DEF Start
    <3> QED
      BY <1>1, <3>1
  <2>2. a \in Tabs
    BY <1>1, <2>1 DEF Tabs
  <2>3. a.store = tab.store /\ a.ctx = tab.ctx
    BY <1>1 DEF Tabs
  <2>4. Steady(a)
    BY <2>2, <2>3, SteadySame, Zenon
  <2> HIDE DEF a
  <2>5. Steady(t)
    BY <2>4, EventsAre, DispatchSteady
  <2>6. t \in Tabs /\ t.take \in 0..MaxTakes /\ Bounded(t.ctx)
    BY <2>5, TabFields DEF Steady
  <2> HIDE DEF t
  <2>7. Steady(b)
    <3>1. <<>> \in Seq(Items)
      OBVIOUS
    <3>2. b \in Tabs
      BY <2>6, <3>1, TabSet DEF CreateStore
    <3>3. b.store = <<>> /\ b.ctx = t.ctx
      BY <2>6 DEF Tabs, CreateStore
    <3>4. Named(b.store)
      BY <3>3 DEF Named
    <3> QED
      BY <2>6, <3>2, <3>3, <3>4 DEF Steady
  <2> HIDE DEF b
  <2>8. Steady(ReleaseAudioBlob(b)) /\ Flow("start", "mic", t.take) \in Flows
    BY <2>6, <2>7, SteadyCloses, FlowTyped, TextEmpty
  <2>9. Steady(Begins(ReleaseAudioBlob(b), Flow("start", "mic", t.take)))
    BY <2>8, SteadyFlows
  <2> QED
    BY <1>2, <2>9, Zenon DEF Start, a, b, t
<1>3. CASE Pause \/ Resume
  <2>1. Steady(Dispatch(tab, Event("PAUSE"))) /\ Steady(Dispatch(tab, Event("RESUME")))
    BY EventsAre, DispatchSteady
  <2> QED
    BY <1>3, <2>1, Zenon DEF Pause, Resume
<1>4. CASE HostFinishes \/ TimeUp
  <2> DEFINE u == [tab EXCEPT !.editing = FALSE]
  <2>1. u \in Tabs /\ u.store = tab.store /\ u.ctx = tab.ctx
    BY <1>1 DEF Tabs
  <2>2. Steady(Finish(u)) /\ Steady(Finish(tab))
    BY <2>1, SteadySame, SteadyFinish, Zenon
  <2> QED
    BY <1>4, <2>2, Zenon DEF HostFinishes, TimeUp
<1>5. CASE RetryRefine
  <2>1. Steady(Dispatch(tab, Event("REFINE_FAILED"))) /\ Steady(Dispatch(tab, Event("REFINING")))
    BY EventsAre, DispatchSteady
  <2>2. FrozenOr(tab.ctx) \in Texts
    BY <1>1 DEF FrozenOr, Contexts
  <2>3. [Flow("retry", "refine", tab.audioBlob) EXCEPT !.live = FrozenOr(tab.ctx)] \in Flows
    BY <1>1, <2>2, FlowTyped
  <2>4. Steady(Begins(Dispatch(tab, Event("REFINING")),
                 [Flow("retry", "refine", tab.audioBlob) EXCEPT !.live = FrozenOr(tab.ctx)]))
    BY <2>1, <2>3, SteadyFlows
  <2> QED
    BY <1>5, <2>1, <2>4, Zenon DEF RetryRefine
<1>6. CASE HostEdits
  <2>1. <<Typed>> \in Texts
    BY Bounds DEF Texts, Words, Typed
  <2>2. tab' \in Tabs
    BY <1>1, <1>6, <2>1 DEF HostEdits, Tabs
  <2>3. tab'.store = tab.store /\ tab'.ctx = tab.ctx
    BY <1>1, <1>6 DEF HostEdits, Tabs
  <2> QED
    BY <2>2, <2>3, SteadySame, Zenon
<1>7. CASE HostDiscards
  BY <1>7, SteadyDiscards DEF HostDiscards
<1>8. CASE Submitted \/ ContinueNext
  <2> DEFINE u == ResetVoiceForNextAnswer(tab)
  <2>1. Steady(u)
    BY SteadyDiscards
  <2> HIDE DEF u
  <2>2. PICK outcome \in {"asking", "sufficient"} : tab' = [u EXCEPT !.outcome = outcome]
    BY <1>8, Zenon DEF Submitted, ContinueNext, u
  <2>3. u \in Tabs
    BY <2>1 DEF Steady
  <2>4. tab' \in Tabs /\ tab'.store = u.store /\ tab'.ctx = u.ctx
    BY <2>2, <2>3 DEF Tabs
  <2> QED
    BY <2>1, <2>4, SteadySame, Zenon
<1>9. CASE Submit \/ SubmitFails
  <2>1. PICK outcome \in {"asking", "processing"} : tab' = [tab EXCEPT !.outcome = outcome]
    BY <1>9, Zenon DEF Submit, SubmitFails
  <2>2. tab' \in Tabs /\ tab'.store = tab.store /\ tab'.ctx = tab.ctx
    BY <1>1, <2>1 DEF Tabs
  <2> QED
    BY <2>2, SteadySame, Zenon
<1> QED
  BY <1>2, <1>3, <1>4, <1>5, <1>6, <1>7, <1>8, <1>9 DEF Host

\* A message of the provider names what it says.
LEMMA ProviderDoes ==
  ASSUME Steady(tab), Provider
  PROVE  \E p \in tab.peers :
           \/ Disconnected(p) \/ ProviderError(p)
           \/ \E id \in Words : Delta(p, id) \/ Completed(p, id)
<1>1. tab.peers \in SUBSET Peers /\ tab.store \in Seq(Items)
  BY TabFields DEF Steady
<1>2. PICK p \in tab.peers :
        \/ Disconnected(p) \/ ProviderError(p)
        \/ \E id \in DeltaNames(p) : Delta(p, id)
        \/ \E id \in CompletedNames(p) : Completed(p, id)
  BY Zenon DEF Provider
<1>3. Segments(p) \subseteq Words
  <2>1. p.take \in 0..MaxTakes /\ p.id \in 0..MaxConnections
    BY <1>1, <1>2, Bounds DEF Peers
  <2>2. \A n \in 1..MaxItems : n \in Nat
    OBVIOUS
  <2> QED
    BY <2>1, <2>2 DEF Segments, Said, Words
<1>4. Pending \in Words /\ Numbered(Len(tab.store)) \in Words
  BY <1>1, Bounds DEF Pending, Numbered, Words
<1>5. DeltaNames(p) \subseteq Words /\ CompletedNames(p) \subseteq Words
  BY <1>3, <1>4 DEF DeltaNames, CompletedNames
<1> QED
  BY <1>2, <1>5

\* What the provider does.
LEMMA ProviderSteady ==
  ASSUME Steady(tab), Provider
  PROVE  Steady(tab')
<1>1. /\ tab \in Tabs /\ tab.peers \in SUBSET Peers /\ tab.messages \in 0..MaxMessages
      /\ tab.store \in Seq(Items) /\ Named(tab.store)
  BY TabFields DEF Steady
<1>2. PICK p \in tab.peers :
        \/ Disconnected(p) \/ ProviderError(p)
        \/ \E id \in Words : Delta(p, id) \/ Completed(p, id)
  BY ProviderDoes
<1>3. CASE Disconnected(p)
  <2> DEFINE gone == [tab EXCEPT !.peers = @ \ {p}]
  <2>1. gone \in Tabs
    BY <1>1 DEF Tabs
  <2>2. gone.store = tab.store /\ gone.ctx = tab.ctx
    BY <1>1 DEF Tabs
  <2>3. Steady(gone)
    BY <2>1, <2>2, SteadySame, Zenon
  <2> HIDE DEF gone
  <2>4. Steady(Recover(Dispatch(gone, Event("DISCONNECT"))))
    BY <2>3, SteadyRecovers DEF Losses
  <2> QED
    BY <1>3, <2>3, <2>4, Zenon DEF Disconnected, gone
<1>4. ASSUME tab.messages < MaxMessages, NEW store \in Seq(Items), Named(store)
      PROVE  Steady([Heard EXCEPT !.store = store]) /\ Steady(Heard)
  <2>1. tab.messages + 1 \in 0..MaxMessages
    BY <1>1, <1>4, Bounds
  <2>2. Heard \in Tabs /\ Heard.store = tab.store /\ Heard.ctx = tab.ctx
    BY <1>1, <2>1 DEF Heard, Tabs
  <2>3. Steady(Heard)
    BY <2>2, SteadySame, Zenon
  <2> DEFINE u == [Heard EXCEPT !.store = store]
  <2>4. u \in Tabs /\ u.store = store /\ u.ctx = Heard.ctx
    BY <1>4, <2>2 DEF Tabs
  <2> QED
    BY <1>4, <2>3, <2>4 DEF Steady
<1>5. CASE ProviderError(p)
  <2>1. tab.messages < MaxMessages
    BY <1>5 DEF ProviderError, Sends
  <2>2. Steady(Heard)
    BY <1>1, <1>4, <2>1
  <2>3. Steady(Dispatch(Heard, Event("ERROR"))) /\ Steady(TeardownMedia(Breaks(Heard)))
    BY <2>2, EventsAre, DispatchSteady, SteadyFails, SteadyCloses
  <2> QED
    BY <1>5, <2>3, Zenon DEF ProviderError
<1>6. ASSUME NEW id \in Words, Delta(p, id) \/ Completed(p, id)
      PROVE  Steady(tab')
  <2>1. id \in Words
    BY <1>6
  <2>2. tab.messages < MaxMessages
    BY <1>6, Zenon DEF Delta, Completed, Sends
  <2>3. ASSUME NEW store \in Seq(Items), Named(store), NEW type \in {"PARTIAL", "FINAL_SEGMENT"},
               Emits(store, type)
        PROVE  Steady(tab')
    <3>1. Steady([Heard EXCEPT !.store = store])
      BY <1>4, <2>2, <2>3
    <3>2. Says(type, DisplayAnswerText(store)) \in Events
      BY DisplayShows, EventsAre
    <3>3. Steady(Dispatch([Heard EXCEPT !.store = store], Says(type, DisplayAnswerText(store))))
      BY <3>1, <3>2, DispatchSteady
    <3> QED
      BY <2>3, <3>3, Zenon DEF Emits
  <2>4. CASE Delta(p, id)
    <3>1. Kept(tab.store, ApplyDelta(tab.store, id))
      BY <1>1, <2>1, SegmentsKept
    <3> QED
      BY <2>3, <2>4, <3>1 DEF Delta, Kept
  <2>5. CASE Completed(p, id)
    <3>1. PICK text \in {"text", "blank"} :
            Emits(ApplyCompleted(tab.store, id, text), "FINAL_SEGMENT")
      BY <2>5 DEF Completed
    <3>2. Kept(tab.store, ApplyCompleted(tab.store, id, text))
      BY <1>1, <2>1, SegmentsKept
    <3> QED
      BY <2>3, <3>1, <3>2 DEF Kept
  <2> QED
    BY <1>6, <2>4, <2>5
<1> QED
  BY <1>2, <1>3, <1>5, <1>6

\* The page once the microphone is on, and with the recorder it gets.
Granted(f) ==
  Dispatch([tab EXCEPT !.stream = f.take, !.mics = tab.mics \cup {Stream(f.take)}],
           Event("PERMISSION_GRANTED"))

LEMMA GrantedIs ==
  ASSUME NEW f, MicrophoneGranted(f)
  PROVE  \E t \in IF f.kind = "recover" THEN {Granted(f)} ELSE Records(Granted(f), f.take) :
           tab' = Continues(t, f, [f EXCEPT !.at = "session"])
BY Zenon DEF MicrophoneGranted, Granted

LEMMA RecordsAre ==
  ASSUME NEW t \in Tabs, NEW take \in 0..MaxTakes, NEW a \in Records(t, take)
  PROVE  /\ a \in Tabs
         /\ a.outcome = t.outcome /\ a.editing = t.editing /\ a.take = t.take
         /\ a.store = t.store /\ a.overlapped = t.overlapped /\ a.stream = t.stream
         /\ a.peer = t.peer /\ a.peers = t.peers /\ a.ctx = t.ctx /\ a.answer = t.answer
         /\ a.flows = t.flows
         /\ \/ a.recorder = 0 /\ a.mics = t.mics
            \/ a.recorder = take /\ a.mics = t.mics \cup {Clone(take)}
<1> DEFINE none == [t EXCEPT !.recorder = 0]
           both == t.mics \cup {Clone(take)}
           made == [t EXCEPT !.recorder = take, !.chunks = take, !.mics = both]
           ever == t.leaked \cup {take}
           left(c) == [t EXCEPT !.recorder = 0, !.chunks = c, !.leaked = ever]
<1>1. a = none \/ a = made \/ a = left(0) \/ a = left(t.chunks)
  BY DEF Records
<1>2. /\ both \in SUBSET ((0..MaxTakes) \X {"stream", "recorder"})
      /\ ever \in SUBSET (0..MaxTakes) /\ 0 \in 0..MaxTakes /\ t.chunks \in 0..MaxTakes
  BY Bounds DEF Tabs, Clone
<1>3. CASE a = none
  BY <1>2, <1>3 DEF Tabs
<1>4. CASE a = made
  <2> HIDE DEF both
  <2>1. a \in Tabs
    BY <1>2, <1>4 DEF Tabs
  <2>2. a.recorder = take /\ a.mics = both
    BY <1>4 DEF Tabs
  <2> QED
    BY <1>4, <2>1, <2>2 DEF Tabs, both
<1>5. ASSUME NEW c \in 0..MaxTakes, a = left(c)
      PROVE  a \in Tabs /\ a.recorder = 0 /\ a.mics = t.mics
  <2> HIDE DEF ever
  <2> QED
    BY <1>2, <1>5 DEF Tabs
<1>6. ASSUME NEW c \in 0..MaxTakes, a = left(c)
      PROVE  /\ a.outcome = t.outcome /\ a.editing = t.editing /\ a.take = t.take
             /\ a.store = t.store /\ a.overlapped = t.overlapped /\ a.stream = t.stream
             /\ a.peer = t.peer /\ a.peers = t.peers /\ a.ctx = t.ctx /\ a.answer = t.answer
             /\ a.flows = t.flows
  <2> HIDE DEF ever
  <2> QED
    BY <1>6 DEF Tabs
<1> HIDE DEF left, none, made
<1> QED
  BY <1>1, <1>2, <1>3, <1>4, <1>5, <1>6

\* A recording is made, or a connection is.
LEMMA ConnectingSteady ==
  ASSUME Steady(tab), NEW f \in tab.flows, Connecting(f)
  PROVE  Steady(tab')
<1>1. /\ tab \in Tabs /\ f \in Flows /\ tab.peers \in SUBSET Peers
      /\ tab.mics \in SUBSET ((0..MaxTakes) \X {"stream", "recorder"})
      /\ tab.sessions \in 0..MaxConnections
  BY TabFields DEF Steady
<1>2. f.take \in 0..MaxTakes
  BY <1>1 DEF Flows
<1>3. CASE MicrophoneGranted(f)
  <2> DEFINE got == [tab EXCEPT !.stream = f.take, !.mics = @ \cup {Stream(f.take)}]
             granted == Dispatch(got, Event("PERMISSION_GRANTED"))
             g == [f EXCEPT !.at = "session"]
  <2>1. Stream(f.take) \in (0..MaxTakes) \X {"stream", "recorder"}
        /\ Clone(f.take) \in (0..MaxTakes) \X {"stream", "recorder"}
    BY <1>2 DEF Stream, Clone
  <2>2. got \in Tabs
    BY <1>1, <1>2, <2>1 DEF Tabs
  <2>3. got.store = tab.store /\ got.ctx = tab.ctx
    BY <1>1 DEF Tabs
  <2>4. Steady(got)
    BY <2>2, <2>3, SteadySame, Zenon
  <2> HIDE DEF got
  <2>5. Steady(granted)
    BY <2>4, EventsAre, DispatchSteady
  <2>6. granted = Granted(f)
    BY Zenon DEF Granted, got
  <2> HIDE DEF granted
  <2>7. PICK t \in IF f.kind = "recover" THEN {granted} ELSE Records(granted, f.take) :
          tab' = Continues(t, f, g)
    BY <1>3, <2>6, GrantedIs
  <2>8. Steady(t)
    <3>1. granted \in Tabs
      BY <2>5 DEF Steady
    <3>2. t = granted \/ (t \in Tabs /\ t.store = granted.store /\ t.ctx = granted.ctx)
      BY <1>2, <2>7, <3>1, RecordsAre
    <3> QED
      BY <2>5, <3>2, SteadySame, Zenon
  <2>9. g \in Flows
    BY <1>1 DEF Flows
  <2> QED
    BY <2>7, <2>8, <2>9, SteadyFlows
<1>4. CASE MicrophoneRefused(f) \/ SessionRefused(f) \/ ConnectionFails(f)
  <2>1. Steady(Ends(Fails(tab, f), f))
    BY <1>1, SteadyFails, SteadyFlows
  <2>2. Steady(TeardownMedia(Dispatch(tab, Event("PERMISSION_DENIED"))))
    BY EventsAre, DispatchSteady, SteadyCloses
  <2>3. Steady(Ends(TeardownMedia(Dispatch(tab, Event("PERMISSION_DENIED"))), f))
    BY <1>1, <2>2, SteadyFlows
  <2> QED
    BY <1>4, <2>1, <2>3, Zenon DEF MicrophoneRefused, SessionRefused, ConnectionFails
<1>5. CASE SessionMade(f)
  <2> DEFINE id == tab.sessions + 1
             opening == [tab EXCEPT !.sessions = id, !.peer = id,
                                    !.peers = @ \cup {[id |-> id, take |-> f.take, up |-> FALSE]}]
             g == [f EXCEPT !.at = "answer", !.peer = id]
  <2>1. id \in 0..MaxConnections /\ id \in 1..MaxConnections
    <3>1. tab.sessions < MaxConnections /\ MaxConnections \in Nat
      BY <1>5, Bounds, Zenon DEF SessionMade
    <3> QED
      BY <1>1, <3>1
  <2>2. tab' = Continues(opening, f, g)
    BY <1>5, Zenon DEF SessionMade
  <2> HIDE DEF id
  <2>3. [id |-> id, take |-> f.take, up |-> FALSE] \in Peers
    BY <1>2, <2>1 DEF Peers
  <2>4. opening \in Tabs
    BY <1>1, <2>1, <2>3 DEF Tabs
  <2>5. opening.store = tab.store /\ opening.ctx = tab.ctx
    BY <1>1 DEF Tabs
  <2>6. Steady(opening)
    BY <2>4, <2>5, SteadySame, Zenon
  <2>7. g \in Flows
    BY <1>1, <2>1 DEF Flows
  <2> HIDE DEF opening, g
  <2> QED
    BY <2>2, <2>6, <2>7, SteadyFlows
<1>6. CASE Connected(f)
  <2>1. PICK p \in tab.peers :
          LET up == [tab EXCEPT !.peers = (@ \ {p}) \cup {[p EXCEPT !.up = TRUE]}]
          IN tab' = Ends(Follows(Dispatch(up, Event("CONNECTED")), f), f)
    BY <1>6, Zenon DEF Connected
  <2> DEFINE up == [tab EXCEPT !.peers = (@ \ {p}) \cup {[p EXCEPT !.up = TRUE]}]
  <2>2. p \in Peers
    BY <1>1
  <2>3. [p EXCEPT !.up = TRUE] \in Peers
    BY <2>2 DEF Peers
  <2>4. up \in Tabs
    BY <1>1, <2>3 DEF Tabs
  <2>5. up.store = tab.store /\ up.ctx = tab.ctx
    BY <1>1 DEF Tabs
  <2>6. Steady(up)
    BY <2>4, <2>5, SteadySame, Zenon
  <2> HIDE DEF up
  <2>7. Steady(Ends(Follows(Dispatch(up, Event("CONNECTED")), f), f))
    BY <1>1, <2>6, EventsAre, DispatchSteady, SteadyFails, SteadyFlows
  <2> QED
    BY <2>1, <2>7, Zenon DEF up
<1>7. CASE SessionExpired(f)
  <2>1. Steady(Ends(tab, f))
    BY <1>1, SteadyFlows
  <2>2. Steady(Recover(Dispatch(Ends(tab, f), Event("SESSION_EXPIRED"))))
    BY <2>1, SteadyRecovers DEF Losses
  <2> QED
    BY <1>7, <2>2, SteadyFails DEF SessionExpired
<1> QED
  BY <1>3, <1>4, <1>5, <1>6, <1>7 DEF Connecting

\* What the recorder of a finished recording leaves.
LEMMA FinishingSteady ==
  ASSUME Steady(tab), NEW f \in tab.flows, Finishing(f)
  PROVE  Steady(tab')
<1>1. /\ tab \in Tabs /\ f \in Flows /\ tab.recorder \in 0..MaxTakes
      /\ tab.chunks \in 0..MaxTakes /\ tab.audioBlob \in 0..MaxTakes
      /\ tab.mics \in SUBSET ((0..MaxTakes) \X {"stream", "recorder"})
  BY TabFields DEF Steady
<1>2. f.live \in Texts
  BY <1>1 DEF Flows
<1>3. CASE CollectLiveDraft(f)
  <2> DEFINE draft == Drafted(f)
             t == OnContext([tab EXCEPT !.ctx.frozen = draft, !.ctx.final = draft])
             g == [f EXCEPT !.at = "recorder", !.live = draft]
  <2>1. draft \in Texts
    BY <1>1, <1>2, ShownText DEF Drafted
  <2>2. tab' = Continues(t, f, g)
    BY <1>3, Zenon DEF CollectLiveDraft
  <2> HIDE DEF draft
  <2>3. Steady(t) /\ g \in Flows
    BY <1>1, <2>1, SteadyFrozen DEF Flows
  <2> HIDE DEF t, g
  <2> QED
    BY <2>2, <2>3, SteadyFlows
<1>4. CASE RecorderStops(f)
  <2> DEFINE blob == IF tab.recorder # 0 THEN tab.recorder ELSE tab.chunks
             off == [tab EXCEPT !.recorder = 0, !.mics = @ \ {Clone(tab.recorder)},
                                !.audioBlob = IF blob # 0 THEN blob ELSE @, !.timer = FALSE]
             refining == Dispatch(Dispatch(TeardownPeerOnly(off), Event("FINISHING_DONE")),
                                  Event("REFINING"))
             outcome == IF f.live # <<>> THEN Says("REFINED", f.live) ELSE Event("REFINE_FAILED")
             g == [f EXCEPT !.at = "refine", !.take = blob]
  <2>1. \/ tab' = Continues(refining, f, g)
        \/ tab' = Ends(TeardownMedia(ReleaseAudioBlob(Dispatch(refining, outcome))), f)
    BY <1>4, Zenon DEF RecorderStops
  <2>2. blob \in 0..MaxTakes
    BY <1>1
  <2>3. g \in Flows
    BY <1>1, <2>2 DEF Flows
  <2> HIDE DEF g
  <2>4. off \in Tabs
    BY <1>1, <2>2, Bounds DEF Tabs
  <2>5. off.store = tab.store /\ off.ctx = tab.ctx
    BY <1>1 DEF Tabs
  <2>6. Steady(off)
    BY <2>4, <2>5, SteadySame, Zenon
  <2> HIDE DEF off
  <2>7. Steady(refining)
    BY <2>6, EventsAre, SteadyCloses, DispatchSteady
  <2>8. outcome \in Events
    BY <1>2, EventsAre
  <2> HIDE DEF refining, outcome
  <2>9. Steady(Dispatch(refining, outcome))
    BY <2>7, <2>8, DispatchSteady
  <2> QED
    BY <1>1, <2>1, <2>3, <2>7, <2>9, SteadyCloses, SteadyFlows
<1> QED
  BY <1>3, <1>4 DEF Finishing

LEMMA AnsweredSteady ==
  ASSUME Steady(tab), NEW f \in tab.flows, Refuses(f) \/ Replies(f)
  PROVE  Steady(tab')
<1>1. f \in Flows
  BY TabFields DEF Steady
<1>2. <<Refined(f.take)>> \in Texts
  BY <1>1, Bounds DEF Flows, Texts, Words, Refined
<1>3. /\ Event("REFINE_FAILED") \in Events
      /\ Says("REFINED", <<Refined(f.take)>>) \in Events
  BY <1>2, EventsAre
<1>4. ASSUME NEW t, Steady(t)
      PROVE  Steady(Ends(IF f.kind = "finish" THEN TeardownMedia(t) ELSE t, f))
  BY <1>1, <1>4, SteadyCloses, SteadyFlows
<1>5. /\ Steady(Dispatch(tab, Event("REFINE_FAILED")))
      /\ Steady(ReleaseAudioBlob(Dispatch(tab, Says("REFINED", <<Refined(f.take)>>))))
  BY <1>3, DispatchSteady, SteadyCloses
<1> QED
  BY <1>4, <1>5, Zenon DEF Refuses, Replies

LEMMA RefinesSteady ==
  ASSUME Formed, NEW f \in tab.flows, Refines(f)
  PROVE  Steady(tab')
<1>1. Steady(tab) /\ f \in Flows /\ stored \in 0..MaxUploads
  BY FormedSteady, TabFields DEF Steady, Formed, TypeOK
<1>2. CASE UploadRefused(f) \/ Transcribed(f) \/ Polished(f) \/ Crash(f)
  BY <1>1, <1>2, AnsweredSteady, Zenon DEF UploadRefused, Transcribed, Polished, Crash
<1>3. CASE UploadStored(f)
  <2> DEFINE g == [f EXCEPT !.at = "transcribe", !.attempt = 1, !.upload = stored']
  <2>1. stored' \in 0..MaxUploads
    <3>1. stored < MaxUploads /\ stored' = stored + 1 /\ MaxUploads \in Nat
      BY <1>3, Bounds, Zenon DEF UploadStored
    <3> QED
      BY <1>1, <3>1
  <2>2. g \in Flows
    BY <1>1, <2>1, Bounds DEF Flows
  <2>3. tab' = Continues(tab, f, g) \/ Refuses(f)
    BY <1>3, Zenon DEF UploadStored
  <2> HIDE DEF g
  <2> QED
    BY <1>1, <2>2, <2>3, SteadyFlows, AnsweredSteady
<1>4. CASE AttemptFails(f)
  <2>1. f.attempt < MaxAttempts => f.attempt + 1 \in 0..MaxAttempts
    <3>1. f.attempt \in 0..MaxAttempts /\ MaxAttempts \in Nat
      BY <1>1, Bounds DEF Flows
    <3> QED
      BY <3>1
  <2>2. PICK g \in Flows : tab' = Continues(tab, f, g)
    <3>1. f.attempt < MaxAttempts => [f EXCEPT !.attempt = f.attempt + 1] \in Flows
      BY <1>1, <2>1 DEF Flows
    <3>2. [f EXCEPT !.at = "polish"] \in Flows
      BY <1>1 DEF Flows
    <3> QED
      BY <1>4, <3>1, <3>2, Zenon DEF AttemptFails
  <2> QED
    BY <1>1, <2>2, SteadyFlows
<1>5. CASE UploadNotStored(f)
  <2> DEFINE g == [f EXCEPT !.at = "polish"]
  <2>1. g \in Flows
    BY <1>1 DEF Flows
  <2>2. tab' = Continues(tab, f, g)
    BY <1>5, Zenon DEF UploadNotStored
  <2> HIDE DEF g
  <2> QED
    BY <1>1, <2>1, <2>2, SteadyFlows
<1> QED
  BY <1>2, <1>3, <1>4, <1>5 DEF Refines

\* What is on the server after a removal: what was not to be removed, what is new, and
\* what could not be removed, marked.
Uploads == [id : 1..MaxUploads, retained : BOOLEAN, marked : BOOLEAN]
Left(u) == u \in Uploads /\ u.marked

LEMMA RemovesLeave ==
  ASSUME Formed, NEW uploads \in SUBSET disk, NEW new, Removes(uploads, new)
  PROVE  \A u \in disk' : u \in disk \ uploads \/ u \in new \/ Left(u)
<1>1. disk \subseteq Uploads
  BY DEF Formed, TypeOK, Uploads
<1>2. PICK left \in SUBSET uploads :
        disk' = (disk \ uploads) \cup {Marked(u) : u \in left} \cup new
  BY Zenon DEF Removes
<1>3. ASSUME NEW u \in left
      PROVE  Left(Marked(u))
  <2>1. u \in Uploads
    BY <1>1
  <2> QED
    BY <2>1 DEF Uploads, Marked, Left
<1> QED
  BY <1>2, <1>3

LEMMA ExpiresLeaves ==
  ASSUME Formed, NEW new, Expires(new)
  PROVE  \A u \in disk' : u \in disk \/ u \in new \/ Left(u)
<1>1. PICK expired \in SUBSET {u \in disk : u.retained /\ ~u.marked /\ u.id \notin stray} :
        Removes(expired, new)
  BY Zenon DEF Expires
<1>2. expired \in SUBSET disk
  BY <1>1
<1> QED
  BY <1>1, <1>2, RemovesLeave

LEMMA CleanupLeaves ==
  ASSUME Formed, NEW f, Cleanup(f)
  PROVE  \A u \in disk' : \/ u \in disk /\ (u.id = f.upload => u.retained)
                         \/ Left(u)
<1>1. PICK uploads : uploads = {u \in Upload(f) : ~u.retained}
  OBVIOUS
<1>2. /\ uploads \in SUBSET disk
      /\ \A u \in disk \ uploads : u.id = f.upload => u.retained
  BY <1>1 DEF Upload
<1>3. PICK none : none = {}
  OBVIOUS
<1>4. Removes(uploads, none)
  BY <1>1, <1>3, Zenon DEF Cleanup
<1>5. \A u \in disk' : u \in disk \ uploads \/ u \in none \/ Left(u)
  BY <1>2, <1>4, RemovesLeave, Zenon
<1> QED
  BY <1>2, <1>3, <1>5

\* The uploads on the server are uploads that were stored.
LEMMA ServerTyped ==
  ASSUME Formed, Next
  PROVE  /\ disk' \subseteq Uploads
         /\ stray' \subseteq 1..MaxUploads
         /\ stored' \in 0..MaxUploads
<1>1. /\ disk \subseteq Uploads /\ stray \subseteq 1..MaxUploads
      /\ stored \in 0..MaxUploads /\ MaxUploads \in Nat
  BY Bounds DEF Formed, TypeOK, Uploads
<1>2. ASSUME NEW new \in SUBSET Uploads, Expires(new)
      PROVE  disk' \subseteq Uploads
  BY <1>1, <1>2, ExpiresLeaves DEF Left
<1>3. CASE Server
  BY <1>1, <1>3 DEF Server
<1>4. ASSUME NEW f \in tab.flows, Connecting(f) \/ Finishing(f)
      PROVE  Server \/ (Expires({}) /\ UNCHANGED <<stray, stored>>)
  BY <1>4, Zenon DEF Connecting, MicrophoneGranted, MicrophoneRefused, SessionMade,
     SessionRefused, Connected, ConnectionFails, SessionExpired, Finishing,
     CollectLiveDraft, RecorderStops, Server
<1>5. Host \/ Provider \/ TimeUp \/ Submitted \/ SubmitFails => Server
  BY Zenon DEF Host, Start, Pause, Resume, HostFinishes, RetryRefine, HostEdits,
     HostDiscards, Submit, ContinueNext, Provider, Disconnected, ProviderError, Delta,
     Completed, TimeUp, Submitted, SubmitFails
<1>6. ASSUME stored < MaxUploads, stored' = stored + 1, NEW retained \in BOOLEAN,
             Expires({New(retained)}), stray' = stray \/ stray' = stray \cup {stored'}
      PROVE  /\ disk' \subseteq Uploads /\ stray' \subseteq 1..MaxUploads
             /\ stored' \in 0..MaxUploads
  <2>1. stored' \in 0..MaxUploads /\ stored' \in 1..MaxUploads
    BY <1>1, <1>6
  <2>2. {New(retained)} \in SUBSET Uploads
    BY <1>6, <2>1 DEF New, Uploads
  <2> QED
    BY <1>1, <1>2, <1>6, <2>1, <2>2
<1>7. ASSUME NEW f \in tab.flows, UploadStored(f) \/ UploadNotStored(f)
      PROVE  /\ disk' \subseteq Uploads /\ stray' \subseteq 1..MaxUploads
             /\ stored' \in 0..MaxUploads
  <2>1. CASE UploadStored(f)
    <3>1. /\ stored < MaxUploads /\ stored' = stored + 1
          /\ stray' = stray \/ stray' = stray \cup {stored'}
          /\ \E retained \in BOOLEAN : Expires({New(retained)})
      BY <2>1, Zenon DEF UploadStored
    <3> QED
      BY <1>6, <3>1
  <2>2. CASE UploadNotStored(f)
    <3>1. \/ Expires({}) /\ stray' = stray /\ stored' = stored
          \/ /\ stored < MaxUploads /\ stored' = stored + 1 /\ stray' = stray \cup {stored'}
             /\ \E retained \in BOOLEAN : Expires({New(retained)})
      BY <2>2, Zenon DEF UploadNotStored
    <3>2. {} \in SUBSET Uploads
      OBVIOUS
    <3> QED
      BY <1>1, <1>2, <1>6, <3>1, <3>2
  <2> QED
    BY <1>7, <2>1, <2>2
<1>8. ASSUME NEW f \in tab.flows, Refines(f), ~UploadStored(f), ~UploadNotStored(f)
      PROVE  /\ disk' = disk \/ Cleanup(f)
             /\ stray' = stray \/ stray' = stray \cup {u.id : u \in Upload(f)}
             /\ stored' = stored
  BY <1>8, Zenon DEF Refines, UploadRefused, Transcribed, AttemptFails, Polished, Crash,
     Server
<1>9. ASSUME NEW f \in tab.flows
      PROVE  /\ {u.id : u \in Upload(f)} \subseteq 1..MaxUploads
             /\ Cleanup(f) => disk' \subseteq Uploads
  <2>1. {u.id : u \in Upload(f)} \subseteq 1..MaxUploads
    BY <1>1 DEF Upload, Uploads
  <2>2. ASSUME Cleanup(f) PROVE disk' \subseteq Uploads
    BY <1>1, <2>2, CleanupLeaves DEF Left
  <2> QED
    BY <2>1, <2>2
<1>10. ASSUME \E f \in tab.flows : Connecting(f) \/ Finishing(f)
       PROVE  /\ disk' \subseteq Uploads /\ stray' \subseteq 1..MaxUploads
              /\ stored' \in 0..MaxUploads
  <2>1. PICK f \in tab.flows : Connecting(f) \/ Finishing(f)
    BY <1>10
  <2>2. Server \/ (Expires({}) /\ UNCHANGED <<stray, stored>>)
    BY <1>4, <2>1
  <2>3. {} \in SUBSET Uploads
    OBVIOUS
  <2> QED
    BY <1>1, <1>2, <2>2, <2>3 DEF Server
<1>11. ASSUME \E f \in tab.flows : Refines(f)
       PROVE  /\ disk' \subseteq Uploads /\ stray' \subseteq 1..MaxUploads
              /\ stored' \in 0..MaxUploads
  <2>1. PICK f \in tab.flows : Refines(f)
    BY <1>11
  <2> QED
    BY <1>1, <1>7, <1>8, <1>9, <2>1
<1> QED
  BY <1>1, <1>5, <1>10, <1>11 DEF Next, Server

LEMMA FormedStep ==
  ASSUME Formed, [Next]_vars
  PROVE  Formed'
<1>1. CASE Next
  <2>1. Steady(tab')
    BY <1>1, FormedSteady, HostSteady, ProviderSteady, ConnectingSteady, FinishingSteady,
       RefinesSteady, Zenon DEF Next
  <2>2. /\ disk' \subseteq [id : 1..MaxUploads, retained : BOOLEAN, marked : BOOLEAN]
        /\ stray' \subseteq 1..MaxUploads
        /\ stored' \in 0..MaxUploads
    BY <1>1, ServerTyped, Zenon DEF Uploads
  <2> QED
    BY <2>1, <2>2, Zenon DEF Formed, TypeOK, Steady, Named
<1>2. CASE UNCHANGED vars
  BY <1>2 DEF vars, Formed, TypeOK
<1> QED
  BY <1>1, <1>2

LEMMA FormedInit ==
  ASSUME Init
  PROVE  Formed
<1>1. CreateContext \in Contexts /\ <<>> \in Texts /\ CreateStore \in Seq(Items)
  BY TextEmpty DEF CreateContext, CreateStore, Contexts, States
<1>2. tab \in Tabs
  BY <1>1, Bounds DEF Init, Tabs
<1>3. tab.store = <<>> /\ tab.ctx.attempts = 0
  BY DEF Init, CreateStore, CreateContext
<1>4. disk = {} /\ stray = {} /\ stored = 0
  BY DEF Init
<1> QED
  BY <1>2, <1>3, <1>4, Bounds DEF Formed, TypeOK, Bounded, Tried

\* The page and the uploads are what they are declared to be; the segments of a draft
\* are named once each, and no capture counts more attempts to recover than three.
THEOREM VoiceTypes ==
  Spec => []TypeOK
<1>1. Init => Formed
  BY FormedInit
<1>2. Formed /\ [Next]_vars => Formed'
  BY FormedStep
<1>3. Formed => TypeOK
  BY DEF Formed
<1> QED
  BY <1>1, <1>2, <1>3, PTL DEF Spec

-----------------------------------------------------------------------------
(* What the operators on a page set *)

\* What an event does, and what it leaves.
LEMMA DispatchEffect ==
  ASSUME NEW t, Steady(t), NEW e \in Events
  PROVE  /\ Dispatch(t, e) =
              [t EXCEPT !.ctx = Reduce(t.ctx, e), !.answer = Dispatch(t, e).answer]
         /\ Steady(Dispatch(t, e)) /\ Dispatch(t, e) \in Tabs
<1>1. t \in Tabs
  BY DEF Steady
<1>2. Steady(Dispatch(t, e))
  BY DispatchSteady
<1> QED
  BY <1>1, <1>2, DispatchSets, Zenon DEF Steady

LEMMA BreaksSets ==
  ASSUME NEW t, Steady(t)
  PROVE  Breaks(t) = [t EXCEPT !.ctx = [t.ctx EXCEPT !.state = "fallback_text"],
                               !.answer = Breaks(t).answer]
<1> DEFINE u == Dispatch(t, Event("ERROR"))
           v == Dispatch(u, Event("FALLBACK_TEXT"))
<1>1. t \in Tabs /\ t.ctx \in Contexts
  BY TabFields DEF Steady
<1>2. Event("ERROR") \in Events /\ Event("FALLBACK_TEXT") \in Events
  BY EventsAre
<1>3. /\ u = [t EXCEPT !.ctx = Reduce(t.ctx, Event("ERROR")), !.answer = u.answer]
      /\ Steady(u)
  BY <1>2, DispatchEffect, Zenon
<1>4. Reduce(t.ctx, Event("ERROR")) = [t.ctx EXCEPT !.state = "error"]
  BY <1>1, TextEmpty, Reduces
<1>5. u.ctx = [t.ctx EXCEPT !.state = "error"] /\ u \in Tabs /\ u.ctx \in Contexts
  <2>1. u \in Tabs
    BY <1>3 DEF Steady
  <2> HIDE DEF u
  <2> QED
    BY <1>1, <1>3, <1>4, <2>1, TabFields DEF Tabs
<1>6. /\ v = [u EXCEPT !.ctx = Reduce(u.ctx, Event("FALLBACK_TEXT")), !.answer = v.answer]
      /\ v \in Tabs
  BY <1>2, <1>3, DispatchEffect, Zenon
<1>7. Reduce(u.ctx, Event("FALLBACK_TEXT")) = [u.ctx EXCEPT !.state = "fallback_text"]
  BY <1>5, TextEmpty, Reduces
<1>8. v = Breaks(t)
  BY Zenon DEF Breaks
<1> HIDE DEF u, v
<1>9. [u.ctx EXCEPT !.state = "fallback_text"] = [t.ctx EXCEPT !.state = "fallback_text"]
  BY <1>1, <1>5 DEF Contexts
<1>10. v = [t EXCEPT !.ctx = [t.ctx EXCEPT !.state = "fallback_text"], !.answer = v.answer]
  BY <1>1, <1>3, <1>5, <1>6, <1>7, <1>9 DEF Tabs
<1> QED
  BY <1>8, <1>10

\* A start that fails closes all; a recovery that fails, its connection.
LEMMA FailsSets ==
  ASSUME NEW t, Steady(t), NEW f
  PROVE  \E text \in Texts :
           LET broken == [t.ctx EXCEPT !.state = "fallback_text"]
               others == {p \in t.peers : p.id # t.peer}
           IN Fails(t, f) =
                IF f.kind = "start"
                THEN [t EXCEPT !.ctx = broken, !.answer = text, !.peers = others, !.peer = 0,
                               !.mics = t.mics \ {Stream(t.stream), Clone(t.recorder)},
                               !.stream = 0, !.recorder = 0]
                ELSE [t EXCEPT !.ctx = broken, !.answer = text, !.peers = others, !.peer = 0]
<1> DEFINE broken == [t.ctx EXCEPT !.state = "fallback_text"]
           others == {p \in t.peers : p.id # t.peer}
<1>1. t \in Tabs /\ t.ctx \in Contexts
  BY TabFields DEF Steady
<1>2. CASE f.kind = "start"
  <2> DEFINE u == Breaks(t)
  <2>1. u = [t EXCEPT !.ctx = broken, !.answer = u.answer]
    BY BreaksSets, Zenon
  <2>2. u \in Tabs /\ u.answer \in Texts
    BY SteadyFails, TabFields DEF Steady
  <2>3. Fails(t, f) = TeardownMedia(u)
    BY <1>2, Zenon DEF Fails
  <2> HIDE DEF u, broken
  <2>4. TeardownMedia(u) =
           [u EXCEPT !.peers = {p \in u.peers : p.id # u.peer}, !.peer = 0,
                     !.mics = u.mics \ {Stream(u.stream), Clone(u.recorder)},
                     !.stream = 0, !.recorder = 0]
    BY <2>2, TeardownSets
  <2>5. /\ u.peers = t.peers /\ u.peer = t.peer /\ u.mics = t.mics /\ u.stream = t.stream
        /\ u.recorder = t.recorder
    BY <1>1, <2>1 DEF Tabs
  <2> DEFINE ms == t.mics \ {Stream(t.stream), Clone(t.recorder)}
  <2>6. TeardownMedia(u) = [u EXCEPT !.peers = others, !.peer = 0, !.mics = ms,
                                     !.stream = 0, !.recorder = 0]
    BY <2>4, <2>5
  <2> HIDE DEF others, ms
  <2>7. TeardownMedia(u) =
          [t EXCEPT !.ctx = broken, !.answer = u.answer, !.peers = others, !.peer = 0,
                    !.mics = ms, !.stream = 0, !.recorder = 0]
    BY <1>1, <2>1, <2>2, <2>6 DEF Tabs
  <2> QED
    BY <1>2, <2>2, <2>3, <2>7, Zenon DEF broken, others, ms
<1>3. CASE f.kind # "start"
  <2> DEFINE u == Dispatch(t, Event("RECONNECT_FAILED"))
  <2>1. Reduce(t.ctx, Event("RECONNECT_FAILED")) = broken
    BY <1>1, TextEmpty, Reduces
  <2>2. u = [t EXCEPT !.ctx = broken, !.answer = u.answer] /\ u \in Tabs
    BY <2>1, EventsAre, DispatchEffect
  <2>3. u.answer \in Texts
    BY <2>2, TabFields
  <2>4. Fails(t, f) = TeardownPeerOnly(u)
    BY <1>3, Zenon DEF Fails
  <2> HIDE DEF u, broken
  <2>5. u.peers = t.peers /\ u.peer = t.peer
    BY <1>1, <2>2 DEF Tabs
  <2>6. TeardownPeerOnly(u) = [u EXCEPT !.peers = others, !.peer = 0]
    BY <2>5 DEF TeardownPeerOnly
  <2> HIDE DEF others
  <2>7. TeardownPeerOnly(u) =
          [t EXCEPT !.ctx = broken, !.answer = u.answer, !.peers = others, !.peer = 0]
    BY <1>1, <2>2, <2>6 DEF Tabs
  <2> QED
    BY <1>3, <2>3, <2>4, <2>7, Zenon DEF broken, others
<1> QED
  BY <1>2, <1>3

\* What is awaited is changed by Begins, Ends and Continues alone.
LEMMA FlowsOf ==
  ASSUME NEW t \in Tabs
  PROVE  /\ \A e : Dispatch(t, e).flows = t.flows
         /\ TeardownPeerOnly(t).flows = t.flows
         /\ TeardownMedia(t).flows = t.flows
         /\ ReleaseAudioBlob(t).flows = t.flows
         /\ OnContext(t).flows = t.flows
         /\ \A g : Begins(t, g).flows = t.flows \cup {g}
         /\ \A f : Ends(t, f).flows = t.flows \ {f}
         /\ \A f, g : Continues(t, f, g).flows = (t.flows \ {f}) \cup {g}
<1>1. ASSUME NEW e PROVE Dispatch(t, e).flows = t.flows
  <2> DEFINE d == Dispatch(t, e)
  <2>1. d = [t EXCEPT !.ctx = Reduce(t.ctx, e), !.answer = d.answer]
    BY DispatchSets, Zenon
  <2> HIDE DEF d
  <2>2. d.flows = t.flows
    BY <2>1 DEF Tabs
  <2> QED
    BY <2>2 DEF d
<1>2. TeardownPeerOnly(t).flows = t.flows
  BY DEF TeardownPeerOnly, Tabs
<1>3. TeardownMedia(t).flows = t.flows
  BY DEF TeardownMedia, TeardownPeerOnly, Tabs
<1>4. ReleaseAudioBlob(t).flows = t.flows
  BY DEF ReleaseAudioBlob, Tabs
<1>5. OnContext(t).flows = t.flows
  BY DEF OnContext, Tabs
<1>6. \A g : Begins(t, g).flows = t.flows \cup {g}
  BY DEF Begins, Tabs
<1>7. \A f : Ends(t, f).flows = t.flows \ {f}
  BY DEF Ends, Tabs
<1>8. \A f, g : Continues(t, f, g).flows = (t.flows \ {f}) \cup {g}
  BY DEF Continues, Tabs
<1> QED
  BY <1>1, <1>2, <1>3, <1>4, <1>5, <1>6, <1>7, <1>8

LEMMA FlowsFollow ==
  ASSUME NEW t, Steady(t), NEW f
  PROVE  /\ Breaks(t).flows = t.flows /\ Fails(t, f).flows = t.flows
         /\ Follows(t, f).flows = t.flows
         /\ Discard(t).flows = t.flows
         /\ ResetVoiceForNextAnswer(t).flows = t.flows
<1>1. t \in Tabs
  BY DEF Steady
<1>2. Breaks(t).flows = t.flows
  <2> DEFINE u == Dispatch(t, Event("ERROR"))
  <2>1. u \in Tabs /\ u.flows = t.flows
    BY <1>1, EventsAre, DispatchEffect, FlowsOf
  <2> HIDE DEF u
  <2>2. Dispatch(u, Event("FALLBACK_TEXT")).flows = u.flows
    BY <2>1, FlowsOf
  <2> QED
    BY <2>1, <2>2, Zenon DEF Breaks, u
<1>3. Fails(t, f).flows = t.flows
  <2> DEFINE u == Breaks(t)
             v == Dispatch(t, Event("RECONNECT_FAILED"))
  <2>1. u \in Tabs /\ v \in Tabs /\ u.flows = t.flows /\ v.flows = t.flows
    BY <1>1, <1>2, EventsAre, DispatchEffect, SteadyFails, FlowsOf DEF Steady
  <2> HIDE DEF u, v
  <2>2. TeardownMedia(u).flows = t.flows /\ TeardownPeerOnly(v).flows = t.flows
    BY <2>1, FlowsOf
  <2> QED
    BY <2>2, Zenon DEF Fails, u, v
<1>4. Follows(t, f).flows = t.flows
  <2>1. [t EXCEPT !.timer = TRUE].flows = t.flows
    BY <1>1 DEF Tabs
  <2> QED
    BY <1>1, <2>1, FlowsOf, Zenon DEF Follows
<1>5. ASSUME NEW u, Steady(u)
      PROVE  Discard(u).flows = u.flows
  <2> DEFINE a == [u EXCEPT !.timer = FALSE]
             b == TeardownMedia(a)
             c == ReleaseAudioBlob(b)
             d == [c EXCEPT !.audioBlob = u.recorder, !.store = CreateStore]
  <2>1. u \in Tabs /\ u.recorder \in 0..MaxTakes
    BY <1>5, TabFields DEF Steady
  <2>2. a \in Tabs /\ a.store = u.store /\ a.ctx = u.ctx /\ a.flows = u.flows
    BY <2>1 DEF Tabs
  <2>3. Steady(a)
    BY <1>5, <2>2, SteadySame, Zenon
  <2> HIDE DEF a
  <2>4. Steady(b) /\ b.flows = a.flows
    BY <2>2, <2>3, SteadyCloses, FlowsOf
  <2> HIDE DEF b
  <2>5. c \in Tabs /\ c.flows = b.flows
    BY <2>4, SteadyCloses, FlowsOf DEF Steady
  <2> HIDE DEF c
  <2>6. <<>> \in Seq(Items)
    OBVIOUS
  <2>7. d \in Tabs /\ d.flows = c.flows
    BY <2>1, <2>5, <2>6 DEF Tabs, CreateStore
  <2> HIDE DEF d
  <2>8. Dispatch(d, Event("DISCARD")).flows = d.flows
    BY <2>7, FlowsOf
  <2> QED
    BY <2>2, <2>4, <2>5, <2>7, <2>8, Zenon DEF Discard, a, b, c, d
<1>6. ResetVoiceForNextAnswer(t).flows = t.flows
  <2> DEFINE u == [t EXCEPT !.editing = FALSE, !.answer = <<>>]
  <2>1. u \in Tabs
    BY <1>1, TextEmpty, TabSet
  <2>2. u.store = t.store /\ u.ctx = t.ctx /\ u.flows = t.flows
    BY <1>1 DEF Tabs
  <2>3. Steady(u)
    BY <2>1, <2>2, SteadySame, Zenon
  <2> HIDE DEF u
  <2> QED
    BY <1>5, <2>2, <2>3, Zenon DEF ResetVoiceForNextAnswer, u
<1> QED
  BY <1>2, <1>3, <1>4, <1>5, <1>6

\* A lost connection is recovered by a call of its own, or not at all.
LEMMA FlowsRecover ==
  ASSUME NEW t, Steady(t), NEW type \in Losses
  PROVE  LET u == Recover(Dispatch(t, Event(type)))
         IN \/ u.flows = t.flows
            \/ \E g : g.at \in {"mic", "session"} /\ u.flows = t.flows \cup {g}
<1> DEFINE u == Dispatch(t, Event(type))
<1>1. t \in Tabs /\ t.ctx \in Contexts /\ Bounded(t.ctx)
  BY TabFields DEF Steady
<1>2. u \in Tabs /\ u.flows = t.flows
  BY <1>1, LossTyped, DispatchText, FlowsOf
<1> HIDE DEF u
<1>3. u.ctx.state # "reconnecting" => Recover(u).flows = t.flows
  BY <1>2, Zenon DEF Recover
<1>4. TeardownPeerOnly(Dispatch(u, Event("RECONNECT_FAILED"))).flows = t.flows
  <2> DEFINE d == Dispatch(u, Event("RECONNECT_FAILED"))
  <2>1. d = [u EXCEPT !.ctx = Reduce(u.ctx, Event("RECONNECT_FAILED")), !.answer = d.answer]
    BY <1>2, DispatchSets, Zenon
  <2> HIDE DEF d
  <2>2. TeardownPeerOnly(d).flows = u.flows
    BY <1>2, <2>1 DEF TeardownPeerOnly, Tabs
  <2> QED
    BY <1>2, <2>2, Zenon DEF d
<1>5. Begins(TeardownPeerOnly(u), Flow("recover", "mic", u.take)).flows
        = t.flows \cup {Flow("recover", "mic", u.take)}
  BY <1>2 DEF Begins, TeardownPeerOnly, Tabs
<1>6. Begins(Dispatch(TeardownPeerOnly(u), Event("PERMISSION_GRANTED")),
             Flow("recover", "session", u.stream)).flows
        = t.flows \cup {Flow("recover", "session", u.stream)}
  <2> DEFINE c == TeardownPeerOnly(u)
             d == Dispatch(c, Event("PERMISSION_GRANTED"))
             ps == {p \in u.peers : p.id # u.peer}
  <2>1. c \in Tabs /\ c.flows = u.flows
    <3>1. ps \in SUBSET Peers
      BY <1>2, TabFields
    <3>2. c = [u EXCEPT !.peers = ps, !.peer = 0]
      BY DEF TeardownPeerOnly
    <3> HIDE DEF ps, c
    <3>3. c \in Tabs
      BY <1>2, <3>1, <3>2, Bounds, TabSet
    <3> QED
      BY <1>2, <3>2, <3>3 DEF Tabs
  <2> HIDE DEF c
  <2>2. d = [c EXCEPT !.ctx = Reduce(c.ctx, Event("PERMISSION_GRANTED")), !.answer = d.answer]
    BY <2>1, DispatchSets, Zenon
  <2> HIDE DEF d
  <2>3. Begins(d, Flow("recover", "session", u.stream)).flows
          = t.flows \cup {Flow("recover", "session", u.stream)}
    BY <1>2, <2>1, <2>2 DEF Begins, Tabs
  <2> QED
    BY <2>3, Zenon DEF c, d
<1>7. Flow("recover", "mic", u.take).at = "mic" /\ Flow("recover", "session", u.stream).at = "session"
  BY DEF Flow
<1> DEFINE g == Flow("recover", "mic", u.take)
           h == Flow("recover", "session", u.stream)
<1>8. \/ Recover(u).flows = t.flows \/ Recover(u).flows = t.flows \cup {g}
      \/ Recover(u).flows = t.flows \cup {h}
  BY <1>3, <1>4, <1>5, <1>6, Zenon DEF Recover
<1> HIDE DEF g, h
<1>9. g.at = "mic" /\ h.at = "session"
  BY <1>7 DEF g, h
<1> QED
  BY <1>8, <1>9 DEF u

-----------------------------------------------------------------------------
(* No upload is left *)

Served(flows) == {f \in flows : f.at \in {"transcribe", "polish"}}

\* One request is served at a time, and its file goes before its draft is polished.
Lasting ==
  /\ \A f, g \in Serving : f = g
  /\ \A f \in tab.flows, u \in disk :
       f.at = "polish" /\ u.id = f.upload => u.retained \/ u.marked \/ u.id \in stray
  /\ NoAudioLeft

\* The host and the provider leave what is served alone.
LEMMA HostServes ==
  ASSUME Steady(tab), Host \/ Submitted \/ SubmitFails \/ TimeUp
  PROVE  Served(tab'.flows) = Served(tab.flows)
<1>1. tab \in Tabs
  BY DEF Steady
<1>2. ASSUME NEW g, g.at \notin {"transcribe", "polish"}, tab'.flows = tab.flows \cup {g}
      PROVE  Served(tab'.flows) = Served(tab.flows)
  BY <1>2 DEF Served
<1>3. CASE Start
  <2> DEFINE a == [tab EXCEPT !.editing = tab.editing /\ tab.ctx.state = "permission_denied",
                              !.take = tab.take + 1,
                              !.overlapped = tab.overlapped \/ tab.flows # {} \/ tab.mics # {}]
             t == Dispatch(a, Event("START"))
             b == [t EXCEPT !.store = CreateStore]
  <2>1. tab.take + 1 \in 0..MaxTakes
    <3>1. tab.take < MaxTakes /\ MaxTakes \in Nat /\ tab.take \in 0..MaxTakes
      BY <1>1, <1>3, Bounds, TabFields, Zenon DEF Start
    <3> QED
      BY <3>1
  <2>2. a \in Tabs
    BY <1>1, <2>1 DEF Tabs
  <2>3. a.store = tab.store /\ a.ctx = tab.ctx /\ a.flows = tab.flows
    BY <1>1 DEF Tabs
  <2>4. Steady(a)
    BY <2>2, <2>3, SteadySame, Zenon
  <2> HIDE DEF a
  <2>5. t \in Tabs /\ t.flows = a.flows
    BY <2>2, <2>4, EventsAre, DispatchEffect, FlowsOf
  <2> HIDE DEF t
  <2>6. b \in Tabs /\ b.flows = t.flows
    <3>1. <<>> \in Seq(Items)
      OBVIOUS
    <3>2. b \in Tabs
      BY <2>5, <3>1, TabSet DEF CreateStore
    <3> QED
      BY <2>5, <3>2 DEF Tabs
  <2> HIDE DEF b
  <2>7. ReleaseAudioBlob(b) \in Tabs /\ ReleaseAudioBlob(b).flows = b.flows
    BY <2>6, FlowsOf, TabSet, Bounds DEF ReleaseAudioBlob
  <2>8. tab' = Begins(ReleaseAudioBlob(b), Flow("start", "mic", t.take))
    BY <1>3, Zenon DEF Start, a, t, b
  <2>9. tab'.flows = tab.flows \cup {Flow("start", "mic", t.take)}
    BY <2>3, <2>5, <2>6, <2>7, <2>8, FlowsOf
  <2>10. Flow("start", "mic", t.take).at \notin {"transcribe", "polish"}
    BY DEF Flow
  <2> QED
    BY <1>2, <2>9, <2>10
<1>4. ASSUME NEW u \in Tabs, Steady(u), u.flows = tab.flows, tab' = Finish(u)
      PROVE  Served(tab'.flows) = Served(tab.flows)
  <2> DEFINE before == DisplayAnswerText(u.store)
             frozen == Dispatch(u, Event("FINISH"))
             kept == IF before # <<>> /\ frozen.ctx.frozen = <<>>
                     THEN OnContext([frozen EXCEPT !.ctx.frozen = before, !.ctx.final = before])
                     ELSE frozen
             g == [Flow("finish", "collect", u.take) EXCEPT !.live = before]
  <2>1. Steady(frozen) /\ frozen \in Tabs /\ frozen.flows = tab.flows
    BY <1>4, EventsAre, DispatchEffect, FlowsOf
  <2>2. before \in Texts
    BY <1>4, ShownText
  <2>3. tab' = Begins(kept, g) /\ g.at = "collect"
    BY <1>4 DEF Finish, Flow
  <2> HIDE DEF frozen, before
  <2>4. kept \in Tabs /\ kept.flows = tab.flows
    <3> DEFINE w == [frozen EXCEPT !.ctx.frozen = before, !.ctx.final = before]
    <3>1. Steady(w) /\ Steady(OnContext(w)) /\ w.flows = frozen.flows
      BY <2>1, <2>2, SteadyFrozen DEF Tabs
    <3> HIDE DEF w
    <3>2. w \in Tabs /\ OnContext(w) \in Tabs /\ OnContext(w).flows = w.flows
      BY <3>1, FlowsOf DEF Steady
    <3> QED
      BY <2>1, <3>1, <3>2, Zenon DEF w
  <2> HIDE DEF kept, g
  <2>5. tab'.flows = tab.flows \cup {g}
    BY <2>3, <2>4, FlowsOf
  <2> QED
    BY <1>2, <2>3, <2>5
<1>5. CASE HostFinishes \/ TimeUp
  <2> DEFINE u == [tab EXCEPT !.editing = FALSE]
  <2>1. u \in Tabs /\ u.store = tab.store /\ u.ctx = tab.ctx /\ u.flows = tab.flows
    BY <1>1 DEF Tabs
  <2>2. Steady(u)
    BY <2>1, SteadySame, Zenon
  <2>3. tab' = Finish(u) \/ tab' = Finish(tab)
    BY <1>5, Zenon DEF HostFinishes, TimeUp
  <2> HIDE DEF u
  <2> QED
    BY <1>1, <1>4, <2>1, <2>2, <2>3
<1>6. CASE Pause \/ Resume
  <2>1. PICK e : tab' = Dispatch(tab, e)
    BY <1>6, Zenon DEF Pause, Resume
  <2>2. tab'.flows = tab.flows
    BY <1>1, <2>1, FlowsOf
  <2> QED
    BY <2>2
<1>7. CASE RetryRefine
  <2> DEFINE d == Dispatch(tab, Event("REFINING"))
             g == [Flow("retry", "refine", tab.audioBlob) EXCEPT !.live = FrozenOr(tab.ctx)]
  <2>1. d \in Tabs /\ d.flows = tab.flows /\ g.at = "refine"
        /\ Dispatch(tab, Event("REFINE_FAILED")).flows = tab.flows
    BY <1>1, EventsAre, DispatchEffect, FlowsOf DEF Flow
  <2>2. tab' = Dispatch(tab, Event("REFINE_FAILED")) \/ tab' = Begins(d, g)
    BY <1>7, Zenon DEF RetryRefine
  <2> HIDE DEF d, g
  <2>3. tab'.flows = tab.flows \/ tab'.flows = tab.flows \cup {g}
    BY <2>1, <2>2, FlowsOf
  <2> QED
    BY <1>2, <2>1, <2>3
<1>8. CASE HostDiscards \/ Submitted \/ ContinueNext
  <2> DEFINE u == ResetVoiceForNextAnswer(tab)
  <2>1. u \in Tabs /\ u.flows = tab.flows
    BY <1>1, SteadyDiscards, FlowsFollow DEF Steady
  <2>2. tab' = u \/ \E outcome : tab' = [u EXCEPT !.outcome = outcome]
    BY <1>8, Zenon DEF HostDiscards, Submitted, ContinueNext
  <2> HIDE DEF u
  <2>3. tab'.flows = tab.flows
    BY <2>1, <2>2 DEF Tabs
  <2> QED
    BY <2>3
<1>9. CASE HostEdits \/ Submit \/ SubmitFails
  <2>1. tab'.flows = tab.flows
    BY <1>1, <1>9 DEF HostEdits, Submit, SubmitFails, Tabs
  <2> QED
    BY <2>1
<1> QED
  BY <1>3, <1>5, <1>6, <1>7, <1>8, <1>9 DEF Host

LEMMA ProviderServes ==
  ASSUME Steady(tab), Provider
  PROVE  Served(tab'.flows) = Served(tab.flows)
<1>1. tab \in Tabs
  BY DEF Steady
<1>2. PICK p \in tab.peers :
        \/ Disconnected(p) \/ ProviderError(p)
        \/ \E id \in Words : Delta(p, id) \/ Completed(p, id)
  BY ProviderDoes
<1>3. CASE Disconnected(p)
  <2> DEFINE gone == [tab EXCEPT !.peers = @ \ {p}]
  <2>1. gone \in Tabs /\ gone.store = tab.store /\ gone.ctx = tab.ctx /\ gone.flows = tab.flows
    BY <1>1 DEF Tabs
  <2>2. Steady(gone)
    BY <2>1, SteadySame, Zenon
  <2>3. tab' = gone \/ tab' = Recover(Dispatch(gone, Event("DISCONNECT")))
    BY <1>3, Zenon DEF Disconnected
  <2> HIDE DEF gone
  <2>4. \/ tab'.flows = tab.flows
        \/ \E g : g.at \in {"mic", "session"} /\ tab'.flows = tab.flows \cup {g}
    BY <2>1, <2>2, <2>3, FlowsRecover DEF Losses
  <2> QED
    BY <2>4 DEF Served
<1>5. CASE \E id \in Words : Delta(p, id) \/ Completed(p, id)
  <2>1. PICK store, type : Emits(store, type)
    BY <1>5, Zenon DEF Delta, Completed
  <2> DEFINE e == Says(type, DisplayAnswerText(store))
             m == tab.messages + 1
             d == Dispatch([[tab EXCEPT !.messages = m] EXCEPT !.store = store], e)
  <2>2. tab' = d
    BY <2>1, Zenon DEF Emits, Heard
  <2> HIDE DEF e, m
  <2>4. d.flows = tab.flows
    BY <1>1 DEF Tabs, Dispatch, OnContext
  <2> HIDE DEF d
  <2>3. tab'.flows = tab.flows
    BY <2>2, <2>4
  <2> QED
    BY <2>3
<1>6. CASE ProviderError(p)
  <2>1. tab.messages < MaxMessages /\ MaxMessages \in Nat /\ tab.messages \in 0..MaxMessages
    BY <1>1, <1>6, Bounds, TabFields, Zenon DEF ProviderError, Sends
  <2>2. tab.messages + 1 \in 0..MaxMessages
    BY <2>1
  <2>3. Heard \in Tabs /\ Heard.store = tab.store /\ Heard.ctx = tab.ctx
        /\ Heard.flows = tab.flows
    BY <1>1, <2>2 DEF Heard, Tabs
  <2>4. Steady(Heard)
    BY <2>3, SteadySame, Zenon
  <2>5. /\ Dispatch(Heard, Event("ERROR")).flows = tab.flows
        /\ TeardownMedia(Breaks(Heard)).flows = tab.flows
    <3> DEFINE u == Breaks(Heard)
    <3>1. u \in Tabs /\ u.flows = tab.flows
      BY <2>3, <2>4, SteadyFails, FlowsFollow DEF Steady
    <3> HIDE DEF u
    <3>2. TeardownMedia(u).flows = tab.flows
      BY <3>1, FlowsOf
    <3> QED
      BY <2>3, <3>2, FlowsOf DEF u
  <2>6. tab'.flows = tab.flows
    BY <1>6, <2>5, Zenon DEF ProviderError
  <2> QED
    BY <2>6
<1> QED
  BY <1>2, <1>3, <1>5, <1>6

LEMMA ConnectingServes ==
  ASSUME Steady(tab), NEW f \in tab.flows, Connecting(f) \/ Finishing(f)
  PROVE  Served(tab'.flows) = Served(tab.flows)
<1>1. tab \in Tabs /\ f \in Flows
  BY TabFields DEF Steady
<1>2. f.at \notin {"transcribe", "polish"}
  BY DEF Connecting, MicrophoneGranted, MicrophoneRefused, SessionMade, SessionRefused,
         Connected, ConnectionFails, SessionExpired, Finishing, CollectLiveDraft, RecorderStops
<1>3. ASSUME \/ tab'.flows = tab.flows \ {f}
             \/ \E g : /\ g.at \notin {"transcribe", "polish"}
                      /\ \/ tab'.flows = (tab.flows \ {f}) \cup {g}
                         \/ tab'.flows = tab.flows \cup {g}
      PROVE  Served(tab'.flows) = Served(tab.flows)
  BY <1>2, <1>3 DEF Served
<1>4. CASE MicrophoneGranted(f)
  <2> DEFINE got == [tab EXCEPT !.stream = f.take, !.mics = tab.mics \cup {Stream(f.take)}]
             granted == Dispatch(got, Event("PERMISSION_GRANTED"))
             g == [f EXCEPT !.at = "session"]
  <2>1. Stream(f.take) \in (0..MaxTakes) \X {"stream", "recorder"} /\ f.take \in 0..MaxTakes
    BY <1>1 DEF Flows, Stream
  <2>2. got \in Tabs /\ got.store = tab.store /\ got.ctx = tab.ctx /\ got.flows = tab.flows
    BY <1>1, <2>1 DEF Tabs
  <2>3. Steady(got)
    BY <2>2, SteadySame, Zenon
  <2> HIDE DEF got
  <2>4. granted \in Tabs /\ granted.flows = tab.flows
    <3>1. Steady(granted) /\ granted.flows = got.flows
      BY <2>2, <2>3, EventsAre, DispatchSteady, FlowsOf
    <3> QED
      BY <2>2, <3>1 DEF Steady
  <2>5. granted = Granted(f)
    BY Zenon DEF Granted, got
  <2> HIDE DEF granted
  <2>6. PICK t \in IF f.kind = "recover" THEN {granted} ELSE Records(granted, f.take) :
          tab' = Continues(t, f, g)
    BY <1>4, <2>5, GrantedIs
  <2>7. t \in Tabs /\ t.flows = tab.flows
    <3>1. t = granted \/ (t \in Tabs /\ t.flows = granted.flows)
      BY <2>1, <2>4, <2>6, RecordsAre
    <3> QED
      BY <2>4, <3>1
  <2>8. g.at = "session"
    BY <1>1 DEF Flows
  <2> HIDE DEF g
  <2>9. tab'.flows = (tab.flows \ {f}) \cup {g}
    BY <2>6, <2>7, FlowsOf
  <2> QED
    BY <1>3, <2>8, <2>9
<1>5. CASE MicrophoneRefused(f) \/ SessionRefused(f) \/ ConnectionFails(f)
  <2> DEFINE u == Fails(tab, f)
             v == TeardownMedia(Dispatch(tab, Event("PERMISSION_DENIED")))
  <2>1. u \in Tabs /\ u.flows = tab.flows
    BY SteadyFails, FlowsFollow DEF Steady
  <2>2. v \in Tabs /\ v.flows = tab.flows
    <3> DEFINE d == Dispatch(tab, Event("PERMISSION_DENIED"))
    <3>1. Steady(d) /\ d \in Tabs /\ d.flows = tab.flows
      BY <1>1, EventsAre, DispatchEffect, FlowsOf
    <3> HIDE DEF d
    <3>2. TeardownMedia(d) \in Tabs /\ TeardownMedia(d).flows = tab.flows
      BY <3>1, SteadyCloses, FlowsOf DEF Steady
    <3> QED
      BY <3>2 DEF d
  <2>3. tab' = Ends(u, f) \/ tab' = Ends(v, f)
    BY <1>5, Zenon DEF MicrophoneRefused, SessionRefused, ConnectionFails
  <2> HIDE DEF u, v
  <2> QED
    BY <1>3, <2>1, <2>2, <2>3, FlowsOf
<1>6. CASE SessionMade(f)
  <2> DEFINE id == tab.sessions + 1
             opening == [tab EXCEPT !.sessions = id, !.peer = id,
                                    !.peers = @ \cup {[id |-> id, take |-> f.take, up |-> FALSE]}]
             g == [f EXCEPT !.at = "answer", !.peer = id]
  <2>1. tab' = Continues(opening, f, g)
    BY <1>6, Zenon DEF SessionMade
  <2>2. g.at = "answer"
    BY <1>1 DEF Flows
  <2> HIDE DEF id, g
  <2>3. Continues(opening, f, g).flows = (tab.flows \ {f}) \cup {g}
    BY <1>1 DEF Continues, Tabs
  <2> HIDE DEF opening
  <2> QED
    BY <1>3, <2>1, <2>2, <2>3
<1>7. CASE Connected(f)
  <2>1. PICK p \in tab.peers :
          LET up == [tab EXCEPT !.peers = (@ \ {p}) \cup {[p EXCEPT !.up = TRUE]}]
          IN tab' = Ends(Follows(Dispatch(up, Event("CONNECTED")), f), f)
    BY <1>7, Zenon DEF Connected
  <2> DEFINE up == [tab EXCEPT !.peers = (@ \ {p}) \cup {[p EXCEPT !.up = TRUE]}]
             d == Dispatch(up, Event("CONNECTED"))
             w == Follows(d, f)
  <2>2. p \in Peers
    BY <1>1, TabFields
  <2>3. [p EXCEPT !.up = TRUE] \in Peers
    BY <2>2 DEF Peers
  <2>4. up \in Tabs
    BY <1>1, <2>3 DEF Tabs
  <2>5. up.store = tab.store /\ up.ctx = tab.ctx /\ up.flows = tab.flows
    BY <1>1 DEF Tabs
  <2>6. Steady(up)
    BY <2>4, <2>5, SteadySame, Zenon
  <2>7. tab' = Ends(w, f)
    BY <2>1, Zenon
  <2> HIDE DEF up
  <2>8. Steady(d) /\ d.flows = tab.flows
    BY <2>4, <2>5, <2>6, EventsAre, DispatchEffect, FlowsOf
  <2> HIDE DEF d
  <2>9. w \in Tabs /\ w.flows = tab.flows
    BY <2>8, SteadyFails, FlowsFollow DEF Steady
  <2> HIDE DEF w
  <2> QED
    BY <1>3, <2>7, <2>9, FlowsOf
<1>8. CASE SessionExpired(f)
  <2> DEFINE e == Ends(tab, f)
             r == Recover(Dispatch(e, Event("SESSION_EXPIRED")))
  <2>1. Steady(e) /\ e.flows = tab.flows \ {f}
    BY <1>1, SteadyFlows, FlowsOf
  <2> HIDE DEF e
  <2>2. /\ Steady(r)
        /\ \/ r.flows = tab.flows \ {f}
           \/ \E g : g.at \in {"mic", "session"} /\ r.flows = (tab.flows \ {f}) \cup {g}
    BY <2>1, SteadyRecovers, FlowsRecover DEF Losses
  <2>3. tab' = Follows(r, f)
    BY <1>8, Zenon DEF SessionExpired, e
  <2> HIDE DEF r
  <2>4. tab'.flows = r.flows
    BY <2>2, <2>3, FlowsFollow
  <2> QED
    BY <1>3, <2>2, <2>4
<1>9. CASE CollectLiveDraft(f)
  <2> DEFINE draft == Drafted(f)
             t == OnContext([tab EXCEPT !.ctx.frozen = draft, !.ctx.final = draft])
             g == [f EXCEPT !.at = "recorder", !.live = draft]
  <2>1. tab' = Continues(t, f, g)
    BY <1>9, Zenon DEF CollectLiveDraft
  <2> HIDE DEF draft
  <2>2. g.at = "recorder"
    BY <1>1 DEF Flows
  <2> HIDE DEF g
  <2>3. Continues(t, f, g).flows = (tab.flows \ {f}) \cup {g}
    BY <1>1 DEF Continues, Tabs, OnContext
  <2> HIDE DEF t
  <2> QED
    BY <1>3, <2>1, <2>2, <2>3
<1>10. CASE RecorderStops(f)
  <2> DEFINE blob == IF tab.recorder # 0 THEN tab.recorder ELSE tab.chunks
             off == [tab EXCEPT !.recorder = 0, !.mics = @ \ {Clone(tab.recorder)},
                                !.audioBlob = IF blob # 0 THEN blob ELSE @, !.timer = FALSE]
             c == TeardownPeerOnly(off)
             d == Dispatch(c, Event("FINISHING_DONE"))
             refining == Dispatch(d, Event("REFINING"))
             outcome == IF f.live # <<>> THEN Says("REFINED", f.live) ELSE Event("REFINE_FAILED")
             h == Dispatch(refining, outcome)
             g == [f EXCEPT !.at = "refine", !.take = blob]
  <2>1. \/ tab' = Continues(refining, f, g)
        \/ tab' = Ends(TeardownMedia(ReleaseAudioBlob(h)), f)
    BY <1>10, Zenon DEF RecorderStops
  <2>2. blob \in 0..MaxTakes /\ g.at = "refine"
    BY <1>1, TabFields DEF Flows
  <2> HIDE DEF g
  <2>3. off \in Tabs /\ off.store = tab.store /\ off.ctx = tab.ctx /\ off.flows = tab.flows
    <3>1. tab.mics \in SUBSET ((0..MaxTakes) \X {"stream", "recorder"})
      BY <1>1, TabFields
    <3>2. off \in Tabs
      BY <1>1, <2>2, <3>1, Bounds DEF Tabs
    <3> QED
      BY <1>1, <3>2 DEF Tabs
  <2>4. Steady(off)
    BY <2>3, SteadySame, Zenon
  <2> HIDE DEF off
  <2>5. Steady(c) /\ c \in Tabs /\ c.flows = tab.flows
    BY <2>3, <2>4, SteadyCloses, FlowsOf DEF Steady
  <2> HIDE DEF c
  <2>6. Steady(d) /\ d \in Tabs /\ d.flows = tab.flows
    BY <2>5, EventsAre, DispatchEffect, FlowsOf
  <2> HIDE DEF d
  <2>7. Steady(refining) /\ refining \in Tabs /\ refining.flows = tab.flows
    BY <2>6, EventsAre, DispatchEffect, FlowsOf
  <2> HIDE DEF refining
  <2>8. outcome \in Events
    BY <1>1, EventsAre DEF Flows
  <2> HIDE DEF outcome
  <2>9. Steady(h) /\ h \in Tabs /\ h.flows = tab.flows
    BY <2>7, <2>8, DispatchEffect, FlowsOf
  <2> HIDE DEF h
  <2>10. ReleaseAudioBlob(h) \in Tabs /\ Steady(ReleaseAudioBlob(h))
         /\ ReleaseAudioBlob(h).flows = tab.flows
    BY <2>9, SteadyCloses, FlowsOf DEF Steady
  <2>11. TeardownMedia(ReleaseAudioBlob(h)) \in Tabs
         /\ TeardownMedia(ReleaseAudioBlob(h)).flows = tab.flows
    BY <2>10, SteadyCloses, FlowsOf DEF Steady
  <2> QED
    BY <1>3, <2>1, <2>2, <2>7, <2>11, FlowsOf
<1> QED
  BY <1>4, <1>5, <1>6, <1>7, <1>8, <1>9, <1>10 DEF Connecting, Finishing

\* A request that ends takes its call away.
LEMMA AnsweredFlows ==
  ASSUME Steady(tab), NEW f, Refuses(f) \/ Replies(f)
  PROVE  tab'.flows = tab.flows \ {f}
<1> DEFINE d == Dispatch(tab, Event("REFINE_FAILED"))
           e == Dispatch(tab, Says("REFINED", <<Refined(f.take)>>))
           r == ReleaseAudioBlob(e)
<1>1. tab \in Tabs
  BY DEF Steady
<1>2. d.flows = tab.flows /\ r.flows = tab.flows
  BY <1>1 DEF Dispatch, OnContext, ReleaseAudioBlob, Tabs
<1>3. /\ Ends(d, f).flows = tab.flows \ {f} /\ Ends(TeardownMedia(d), f).flows = tab.flows \ {f}
  BY <1>1 DEF Dispatch, OnContext, ReleaseAudioBlob, Tabs, Ends, TeardownMedia, TeardownPeerOnly
<1>4. /\ Ends(r, f).flows = tab.flows \ {f} /\ Ends(TeardownMedia(r), f).flows = tab.flows \ {f}
  BY <1>1 DEF Dispatch, OnContext, ReleaseAudioBlob, Tabs, Ends, TeardownMedia, TeardownPeerOnly
<1>5. \/ tab' = Ends(d, f) \/ tab' = Ends(TeardownMedia(d), f)
      \/ tab' = Ends(r, f) \/ tab' = Ends(TeardownMedia(r), f)
  BY Zenon DEF Refuses, Replies
<1> HIDE DEF d, r
<1> QED
  BY <1>3, <1>4, <1>5

LEMMA LastingStep ==
  ASSUME Formed, Lasting, [Next]_vars
  PROVE  Lasting'
<1>1. /\ Steady(tab) /\ tab \in Tabs /\ tab.flows \in SUBSET Flows
  BY FormedSteady, TabFields DEF Steady
<1>2. Serving = Served(tab.flows) /\ Serving' = Served(tab'.flows)
  BY DEF Serving, Served
\* Calls that are not served may be added or taken away; files may go, or stay marked.
<1>3. ASSUME Served(tab'.flows) = Served(tab.flows), stray' = stray,
             \A u \in disk' : u \in disk \/ u.marked
      PROVE  Lasting'
  <2>1. \A f \in tab'.flows : f.at = "polish" => f \in tab.flows
    BY <1>3 DEF Served
  <2>2. \A f \in tab'.flows, u \in disk' :
          f.at = "polish" /\ u.id = f.upload => u.retained \/ u.marked \/ u.id \in stray'
    BY <1>3, <2>1 DEF Lasting
  <2>3. NoAudioLeft'
    BY <1>2, <1>3 DEF Lasting, NoAudioLeft
  <2>4. \A f, g \in Serving' : f = g
    BY <1>2, <1>3 DEF Lasting
  <2> QED
    BY <2>2, <2>3, <2>4 DEF Lasting
<1>4. CASE Host \/ Provider \/ TimeUp \/ Submitted \/ SubmitFails
  <2>1. disk' = disk /\ stray' = stray
    BY <1>4, Zenon DEF Host, Start, Pause, Resume, HostFinishes, RetryRefine, HostEdits,
       HostDiscards, Submit, ContinueNext, Provider, Disconnected, ProviderError, Delta,
       Completed, TimeUp, Submitted, SubmitFails, Server
  <2> QED
    BY <1>1, <1>3, <1>4, <2>1, HostServes, ProviderServes, Zenon
<1>5. ASSUME NEW f \in tab.flows, Connecting(f) \/ Finishing(f)
      PROVE  Lasting'
  <2>1. stray' = stray /\ (disk' = disk \/ Expires({}))
    BY <1>5, Zenon DEF Connecting, MicrophoneGranted, MicrophoneRefused, SessionMade,
     SessionRefused, Connected, ConnectionFails, SessionExpired, Finishing,
     CollectLiveDraft, RecorderStops, Server
  <2>2. \A u \in disk' : u \in disk \/ u.marked
    BY <2>1, ExpiresLeaves DEF Left
  <2> QED
    BY <1>1, <1>3, <1>5, <2>1, <2>2, ConnectingServes
<1>6. ASSUME NEW f \in tab.flows, Refines(f)
      PROVE  Lasting'
  <2>1. f \in Flows
    BY <1>1
  \* The request has ended, without a file of its own that has a row.
  <2>2. ASSUME Refuses(f) \/ Replies(f), stray \subseteq stray',
               \A u \in disk' : u \in disk \/ u.marked,
               \A u \in disk' : u.id = f.upload /\ f \in Serving =>
                                  u.retained \/ u.marked \/ u.id \in stray'
        PROVE  Lasting'
    <3>1. tab'.flows = tab.flows \ {f}
      BY <1>1, <2>2, AnsweredFlows
    <3>2. \A g : g \in Serving' <=> g \in Serving /\ g # f
      BY <1>2, <3>1 DEF Served
    <3>3. \A g, h \in Serving' : g = h
      BY <3>2 DEF Lasting
    <3>4. \A g \in tab'.flows, u \in disk' :
            g.at = "polish" /\ u.id = g.upload => u.retained \/ u.marked \/ u.id \in stray'
      BY <2>2, <3>1 DEF Lasting
    <3>5. ASSUME NEW u \in disk'
          PROVE  u.retained \/ u.marked \/ u.id \in stray' \/ \E g \in Serving' : g.upload = u.id
      <4>1. u \in disk => u.retained \/ u.marked \/ u.id \in stray
                           \/ \E g \in Serving : g.upload = u.id
        BY DEF Lasting, NoAudioLeft
      <4> QED
        BY <2>2, <3>2, <3>5, <4>1
    <3> QED
      BY <3>3, <3>4, <3>5 DEF Lasting, NoAudioLeft
  <2>3. CASE UploadRefused(f)
    <3>1. Refuses(f) /\ disk' = disk /\ stray' = stray /\ f \notin Serving
      BY <2>3, Zenon DEF UploadRefused, Server
    <3> QED
      BY <2>2, <3>1
  <2>4. CASE UploadStored(f)
    <3> DEFINE g == [f EXCEPT !.at = "transcribe", !.attempt = 1, !.upload = stored']
    <3>1. Serving = {} /\ f \notin Serving
      BY <2>4, Zenon DEF UploadStored
    <3>2. PICK retained \in BOOLEAN : Expires({New(retained)})
      BY <2>4, Zenon DEF UploadStored
    <3>3. \A u \in disk' : u \in disk \/ u.marked \/ u.id = stored'
      <4>1. New(retained).id = stored'
        BY <2>4 DEF New, UploadStored
      <4> QED
        BY <3>2, <4>1, ExpiresLeaves DEF Left
    <3>4. \A u \in disk : u.retained \/ u.marked \/ u.id \in stray
      BY <3>1 DEF Lasting, NoAudioLeft
    <3>5. CASE tab' = Continues(tab, f, g) /\ stray' = stray
      <4>1. g.at = "transcribe" /\ g.upload = stored'
        BY <2>1 DEF Flows
      <4> HIDE DEF g
      <4>2. tab'.flows = (tab.flows \ {f}) \cup {g}
        BY <1>1, <3>5, FlowsOf
      <4>3. Serving' = {g}
        BY <1>2, <3>1, <4>1, <4>2 DEF Served
      <4>4. \A h \in tab'.flows, u \in disk' :
              h.at = "polish" /\ u.id = h.upload => u.retained \/ u.marked \/ u.id \in stray'
        <5>1. \A h \in tab'.flows : h.at # "polish"
          BY <1>2, <4>1, <4>3 DEF Served
        <5> QED
          BY <5>1
      <4>5. NoAudioLeft'
        BY <3>3, <3>4, <3>5, <4>1, <4>3 DEF NoAudioLeft
      <4> QED
        BY <4>3, <4>4, <4>5 DEF Lasting
    <3>6. CASE Refuses(f) /\ stray' = stray \cup {stored'}
      <4>1. tab'.flows = tab.flows \ {f}
        BY <1>1, <3>6, AnsweredFlows
      <4>2. Serving' = {}
        BY <1>2, <3>1, <4>1 DEF Served
      <4>3. NoAudioLeft'
        BY <3>3, <3>4, <3>6 DEF NoAudioLeft
      <4>4. \A h \in tab'.flows : h.at # "polish"
        BY <1>2, <4>2 DEF Served
      <4> QED
        BY <4>2, <4>3, <4>4 DEF Lasting
    <3>7. \/ tab' = Continues(tab, f, g) /\ stray' = stray
          \/ Refuses(f) /\ stray' = stray \cup {stored'}
      BY <2>4, Zenon DEF UploadStored
    <3> QED
      BY <3>5, <3>6, <3>7
  <2>5. CASE Transcribed(f)
    <3>1. (Refuses(f) \/ Replies(f)) /\ Cleanup(f) /\ stray' = stray
      BY <2>5, Zenon DEF Transcribed
    <3>2. \A u \in disk' : \/ u \in disk /\ (u.id = f.upload => u.retained)
                           \/ u.marked
      BY <3>1, CleanupLeaves DEF Left
    <3> QED
      BY <2>2, <3>1, <3>2
  <2>6. CASE AttemptFails(f)
    <3>1. f \in Serving
      BY <2>6 DEF AttemptFails, Serving
    <3>2. PICK g : /\ tab' = Continues(tab, f, g) /\ stray' = stray
                   /\ g.upload = f.upload
                   /\ \/ g.at = "transcribe" /\ disk' = disk
                      \/ g.at = "polish" /\ Cleanup(f)
      <4>1. CASE tab' = Continues(tab, f, [f EXCEPT !.attempt = @ + 1]) /\ disk' = disk
        <5>1. /\ [f EXCEPT !.attempt = @ + 1].upload = f.upload
              /\ [f EXCEPT !.attempt = @ + 1].at = "transcribe"
          BY <2>1, <2>6 DEF Flows, AttemptFails
        <5> QED
          BY <2>6, <4>1, <5>1 DEF AttemptFails
      <4>2. CASE tab' = Continues(tab, f, [f EXCEPT !.at = "polish"]) /\ Cleanup(f)
        <5>1. /\ [f EXCEPT !.at = "polish"].upload = f.upload
              /\ [f EXCEPT !.at = "polish"].at = "polish"
          BY <2>1 DEF Flows
        <5> QED
          BY <2>6, <4>2, <5>1 DEF AttemptFails
      <4> QED
        BY <2>6, <4>1, <4>2 DEF AttemptFails
    <3>3. tab'.flows = (tab.flows \ {f}) \cup {g}
      BY <1>1, <3>2, FlowsOf
    <3>4. Serving = {f}
      BY <3>1 DEF Lasting
    <3>5. Serving' = {g}
      BY <1>2, <3>2, <3>3, <3>4 DEF Served
    <3>6. ASSUME NEW u \in disk'
          PROVE  /\ u \in disk \/ u.marked
                 /\ g.at = "polish" /\ u.id = g.upload => u.retained \/ u.marked
      <4>1. CASE disk' = disk /\ g.at = "transcribe"
        BY <3>6, <4>1
      <4>2. CASE Cleanup(f)
        BY <3>2, <3>6, <4>2, CleanupLeaves DEF Left
      <4> QED
        BY <3>2, <4>1, <4>2
    <3>7. NoAudioLeft'
      <4>1. \A u \in disk : \/ u.retained \/ u.marked \/ u.id \in stray
                            \/ f.upload = u.id
        BY <3>4 DEF Lasting, NoAudioLeft
      <4> QED
        BY <3>2, <3>5, <3>6, <4>1 DEF NoAudioLeft
    <3>8. \A h \in tab'.flows, u \in disk' :
            h.at = "polish" /\ u.id = h.upload => u.retained \/ u.marked \/ u.id \in stray'
      <4>1. \A h \in tab'.flows : h.at = "polish" => h = g
        BY <1>2, <3>5 DEF Served
      <4> QED
        BY <3>6, <4>1
    <3> QED
      BY <3>5, <3>7, <3>8 DEF Lasting
  <2>7. CASE Polished(f)
    <3>1. (Refuses(f) \/ Replies(f)) /\ disk' = disk /\ stray' = stray /\ f.at = "polish"
      BY <2>7, Zenon DEF Polished, Server
    <3>2. \A u \in disk : u.id = f.upload => u.retained \/ u.marked \/ u.id \in stray
      BY <3>1 DEF Lasting
    <3> QED
      BY <2>2, <3>1, <3>2
  <2>8. CASE Crash(f)
    <3>1. Refuses(f) /\ disk' = disk /\ stray' = stray \cup {u.id : u \in Upload(f)}
      BY <2>8, Zenon DEF Crash
    <3>2. \A u \in disk : u.id = f.upload => u.id \in stray'
      BY <3>1 DEF Upload
    <3> QED
      BY <2>2, <3>1, <3>2
  <2>9. CASE UploadNotStored(f)
    <3> DEFINE g == [f EXCEPT !.at = "polish"]
    <3>1. Serving = {} /\ f \notin Serving /\ tab' = Continues(tab, f, g)
      BY <2>9, Zenon DEF UploadNotStored
    <3>2. /\ g.at = "polish"
          /\ \/ Expires({}) /\ stray' = stray
             \/ /\ stray' = stray \cup {stored'} /\ stored' = stored + 1
                /\ \E retained \in BOOLEAN : Expires({New(retained)})
      <4>1. g.at = "polish"
        BY <2>1 DEF Flows
      <4> HIDE DEF g
      <4> QED
        BY <2>9, <4>1, Zenon DEF UploadNotStored
    <3> HIDE DEF g
    <3>3. \A u \in disk : u.retained \/ u.marked \/ u.id \in stray
      BY <3>1 DEF Lasting, NoAudioLeft
    <3>4. \A u \in disk' : u.retained \/ u.marked \/ u.id \in stray'
      <4>1. CASE Expires({}) /\ stray' = stray
        BY <3>3, <4>1, ExpiresLeaves DEF Left
      <4>2. CASE /\ stray' = stray \cup {stored'} /\ stored' = stored + 1
                 /\ \E retained \in BOOLEAN : Expires({New(retained)})
        <5>1. PICK retained \in BOOLEAN : Expires({New(retained)})
          BY <4>2
        <5>2. New(retained).id = stored'
          BY <4>2 DEF New
        <5> QED
          BY <3>3, <4>2, <5>1, <5>2, ExpiresLeaves DEF Left
      <4> QED
        BY <3>2, <4>1, <4>2
    <3>5. tab'.flows = (tab.flows \ {f}) \cup {g}
      BY <1>1, <3>1, FlowsOf
    <3>6. Serving' = {g}
      BY <1>2, <3>1, <3>2, <3>5 DEF Served
    <3> QED
      BY <3>4, <3>6 DEF Lasting, NoAudioLeft
  <2> QED
    BY <1>6, <2>3, <2>4, <2>5, <2>6, <2>7, <2>8, <2>9 DEF Refines
<1>7. CASE UNCHANGED vars
  BY <1>7, <1>2, <1>3 DEF vars
<1> QED
  BY <1>4, <1>5, <1>6, <1>7, Zenon DEF Next

\* An upload that is not to be retained is on the server only while its request is
\* served, unless it has no row (the server died serving it, or could not write it
\* whole) or could not be removed when it should.
THEOREM UploadsGo ==
  Spec => []NoAudioLeft
<1>1. Init => Formed /\ Lasting
  <2>1. Init => Lasting
    BY DEF Init, Lasting, NoAudioLeft, Serving
  <2> QED
    BY <2>1, FormedInit
<1>2. Formed /\ Lasting /\ [Next]_vars => (Formed /\ Lasting)'
  BY FormedStep, LastingStep
<1>3. Lasting => NoAudioLeft
  BY DEF Lasting
<1> QED
  BY <1>1, <1>2, <1>3, PTL DEF Spec

-----------------------------------------------------------------------------
(* What the operators leave of a page, part by part *)

SameHands(u, t) ==
  /\ u.outcome = t.outcome /\ u.editing = t.editing /\ u.take = t.take
  /\ u.store = t.store /\ u.overlapped = t.overlapped
SameMedia(u, t) == u.stream = t.stream /\ u.recorder = t.recorder /\ u.mics = t.mics
SamePeers(u, t) == u.peer = t.peer /\ u.peers = t.peers
SameText(u, t) == u.ctx = t.ctx /\ u.answer = t.answer

\* What is in the box once the capture is in state c.
Boxed(c, t) ==
  CASE c.state \in {"ready_to_edit", "refinement_failed"} ->
         IF c.final # <<>> THEN c.final ELSE t.answer
    [] c.state \in {"finishing", "refining"} ->
         IF FrozenOr(c) # <<>> THEN FrozenOr(c) ELSE t.answer
    [] c.state = "fallback_text" ->
         IF DisplayAnswerText(t.store) # <<>> THEN DisplayAnswerText(t.store) ELSE t.answer
    [] c.state \in LiveSpeaking \cup {"reconnecting"} ->
         IF t.editing THEN t.answer ELSE DisplayAnswerText(t.store)
    [] OTHER -> t.answer

LEMMA OnContextSets ==
  ASSUME NEW t \in Tabs
  PROVE  /\ OnContext(t).answer = Boxed(t.ctx, t) /\ OnContext(t).ctx = t.ctx
         /\ SameHands(OnContext(t), t) /\ SameMedia(OnContext(t), t)
         /\ SamePeers(OnContext(t), t) /\ OnContext(t).flows = t.flows
<1>1. /\ OnContext(t).ctx = t.ctx
      /\ SameHands(OnContext(t), t) /\ SameMedia(OnContext(t), t)
      /\ SamePeers(OnContext(t), t) /\ OnContext(t).flows = t.flows
  BY DEF OnContext, Tabs, SameHands, SameMedia, SamePeers
<1>2. OnContext(t).answer = IF Replaces(t) THEN GetDisplayText(t) ELSE t.answer
  BY DEF OnContext, Tabs
<1>3. (IF Replaces(t) THEN GetDisplayText(t) ELSE t.answer) = Boxed(t.ctx, t)
  <2> DEFINE c == t.ctx
  <2>1. CASE c.state \in {"ready_to_edit", "refinement_failed"}
    BY <2>1 DEF Boxed, Replaces, GetDisplayText, DisplayTranscript, LiveSpeaking
  <2>2. CASE c.state \in {"finishing", "refining"}
    BY <2>2 DEF Boxed, Replaces, GetDisplayText, DisplayTranscript, LiveSpeaking
  <2>3. CASE c.state = "fallback_text"
    BY <2>3 DEF Boxed, Replaces, GetDisplayText, DisplayTranscript, LiveSpeaking
  <2>4. CASE c.state \in LiveSpeaking \cup {"reconnecting"}
    BY <2>4 DEF Boxed, Replaces, GetDisplayText, DisplayTranscript, LiveSpeaking
  <2>5. CASE /\ c.state \notin {"ready_to_edit", "refinement_failed", "finishing", "refining",
                                "fallback_text", "reconnecting"}
             /\ c.state \notin LiveSpeaking
    BY <2>5 DEF Boxed, Replaces, GetDisplayText, DisplayTranscript, LiveSpeaking
  <2> QED
    BY <2>1, <2>2, <2>3, <2>4, <2>5
<1> QED
  BY <1>1, <1>2, <1>3

\* An event changes the state of the capture and what is in the box.
LEMMA DispatchesIn ==
  ASSUME NEW t \in Tabs, NEW e, Reduce(t.ctx, e) \in Contexts, NEW u, u = Dispatch(t, e)
  PROVE  /\ u \in Tabs /\ u.ctx = Reduce(t.ctx, e) /\ u.answer = Boxed(u.ctx, t)
         /\ SameHands(u, t) /\ SameMedia(u, t) /\ SamePeers(u, t) /\ u.flows = t.flows
<1> DEFINE c == Reduce(t.ctx, e)
           v == [t EXCEPT !.ctx = c]
<1>1. u \in Tabs /\ u = OnContext(v)
  BY DispatchText, Zenon DEF Dispatch
<1> HIDE DEF c
<1>2. v \in Tabs /\ v.ctx = c /\ v.answer = t.answer /\ v.store = t.store
      /\ SameHands(v, t) /\ SameMedia(v, t) /\ SamePeers(v, t) /\ v.flows = t.flows
  <2>1. c \in Contexts
    BY DEF c
  <2> QED
    BY <2>1 DEF Tabs, SameHands, SameMedia, SamePeers
<1> HIDE DEF v
<1>3. /\ u.ctx = c /\ u.answer = Boxed(c, v)
      /\ SameHands(u, v) /\ SameMedia(u, v) /\ SamePeers(u, v) /\ u.flows = v.flows
  BY <1>1, <1>2, OnContextSets
<1>4. SameHands(u, t) /\ SameMedia(u, t) /\ SamePeers(u, t) /\ u.flows = t.flows
  BY <1>2, <1>3, Zenon DEF SameHands, SameMedia, SamePeers
<1>5. v.editing = t.editing
  BY <1>2, Zenon DEF SameHands
<1>6. Boxed(c, v) = Boxed(c, t)
  BY <1>2, <1>5, Zenon DEF Boxed
<1> QED
  BY <1>1, <1>3, <1>4, <1>6, Zenon DEF c

LEMMA Dispatches ==
  ASSUME NEW t, Steady(t), NEW e \in Events, NEW u, u = Dispatch(t, e)
  PROVE  /\ Steady(u) /\ u.ctx = Reduce(t.ctx, e) /\ u.answer = Boxed(u.ctx, t)
         /\ SameHands(u, t) /\ SameMedia(u, t) /\ SamePeers(u, t) /\ u.flows = t.flows
<1>1. t \in Tabs /\ t.ctx \in Contexts /\ Bounded(t.ctx)
  BY TabFields DEF Steady
<1>2. Reduce(t.ctx, e) \in Contexts
  BY <1>1, ReduceTyped
<1>3. Steady(u)
  BY DispatchSteady, Zenon
<1> QED
  BY <1>1, <1>2, <1>3, DispatchesIn, Zenon

LEMMA Closes ==
  ASSUME NEW t, Steady(t)
  PROVE  /\ \A u : u = TeardownPeerOnly(t) =>
              /\ Steady(u) /\ SameHands(u, t) /\ SameMedia(u, t) /\ SameText(u, t)
              /\ u.flows = t.flows /\ u.peer = 0
              /\ u.peers = {p \in t.peers : p.id # t.peer}
         /\ \A u : u = TeardownMedia(t) =>
              /\ Steady(u) /\ SameHands(u, t) /\ SameText(u, t)
              /\ u.flows = t.flows /\ u.peer = 0 /\ u.stream = 0 /\ u.recorder = 0
              /\ u.peers = {p \in t.peers : p.id # t.peer}
              /\ u.mics = t.mics \ {Stream(t.stream), Clone(t.recorder)}
         /\ \A u : u = ReleaseAudioBlob(t) =>
              /\ Steady(u) /\ SameHands(u, t) /\ SameMedia(u, t) /\ SamePeers(u, t)
              /\ SameText(u, t) /\ u.flows = t.flows
<1>1. t \in Tabs
  BY DEF Steady
<1>2. ASSUME NEW u, u = TeardownPeerOnly(t)
      PROVE  /\ Steady(u) /\ SameHands(u, t) /\ SameMedia(u, t) /\ SameText(u, t)
             /\ u.flows = t.flows /\ u.peer = 0
             /\ u.peers = {p \in t.peers : p.id # t.peer}
  <2> DEFINE ps == {p \in t.peers : p.id # t.peer}
  <2>1. Steady(u)
    BY <1>2, SteadyCloses
  <2>2. u = [t EXCEPT !.peers = ps, !.peer = 0]
    BY <1>2 DEF TeardownPeerOnly
  <2> HIDE DEF ps
  <2>3. /\ SameHands(u, t) /\ SameMedia(u, t) /\ SameText(u, t)
        /\ u.flows = t.flows /\ u.peer = 0 /\ u.peers = ps
    BY <1>1, <2>2 DEF Tabs, SameHands, SameMedia, SameText
  <2> QED
    BY <2>1, <2>3, Zenon DEF ps
<1>3. ASSUME NEW u, u = TeardownMedia(t)
      PROVE  /\ Steady(u) /\ SameHands(u, t) /\ SameText(u, t)
             /\ u.flows = t.flows /\ u.peer = 0 /\ u.stream = 0 /\ u.recorder = 0
             /\ u.peers = {p \in t.peers : p.id # t.peer}
             /\ u.mics = t.mics \ {Stream(t.stream), Clone(t.recorder)}
  <2> DEFINE ps == {p \in t.peers : p.id # t.peer}
             ms == t.mics \ {Stream(t.stream), Clone(t.recorder)}
  <2>1. Steady(u)
    BY <1>3, SteadyCloses
  <2>2. u = [t EXCEPT !.peers = ps, !.peer = 0, !.mics = ms, !.stream = 0, !.recorder = 0]
    BY <1>1, <1>3, TeardownSets
  <2> HIDE DEF ps, ms
  <2>3. /\ SameHands(u, t) /\ SameText(u, t) /\ u.stream = 0 /\ u.recorder = 0
        /\ u.flows = t.flows /\ u.peer = 0 /\ u.peers = ps /\ u.mics = ms
    BY <1>1, <2>2 DEF Tabs, SameHands, SameText
  <2> QED
    BY <2>1, <2>3, Zenon DEF ps, ms
<1>4. ASSUME NEW u, u = ReleaseAudioBlob(t)
      PROVE  /\ Steady(u) /\ SameHands(u, t) /\ SameMedia(u, t) /\ SamePeers(u, t)
             /\ SameText(u, t) /\ u.flows = t.flows
  <2>1. Steady(u)
    BY <1>4, SteadyCloses
  <2>2. /\ SameHands(u, t) /\ SameMedia(u, t) /\ SamePeers(u, t)
        /\ SameText(u, t) /\ u.flows = t.flows
    BY <1>1, <1>4 DEF Tabs, ReleaseAudioBlob, SameHands, SameMedia, SamePeers, SameText
  <2> QED
    BY <2>1, <2>2
<1> QED
  BY <1>2, <1>3, <1>4

LEMMA Awaited ==
  ASSUME NEW t, Steady(t)
  PROVE  /\ \A g \in Flows : \A u : u = Begins(t, g) =>
              /\ Steady(u) /\ SameHands(u, t) /\ SameMedia(u, t) /\ SamePeers(u, t)
              /\ SameText(u, t) /\ u.flows = t.flows \cup {g}
         /\ \A f, u : u = Ends(t, f) =>
              /\ Steady(u) /\ SameHands(u, t) /\ SameMedia(u, t) /\ SamePeers(u, t)
              /\ SameText(u, t) /\ u.flows = t.flows \ {f}
         /\ \A g \in Flows : \A f, u : u = Continues(t, f, g) =>
              /\ Steady(u) /\ SameHands(u, t) /\ SameMedia(u, t) /\ SamePeers(u, t)
              /\ SameText(u, t) /\ u.flows = (t.flows \ {f}) \cup {g}
<1>1. t \in Tabs
  BY DEF Steady
<1>2. ASSUME NEW fs
      PROVE  LET u == [t EXCEPT !.flows = fs]
             IN /\ SameHands(u, t) /\ SameMedia(u, t) /\ SamePeers(u, t)
                /\ SameText(u, t) /\ u.flows = fs
  BY <1>1 DEF Tabs, SameHands, SameMedia, SamePeers, SameText
<1>3. ASSUME NEW g \in Flows, NEW u, u = Begins(t, g)
      PROVE  /\ Steady(u) /\ SameHands(u, t) /\ SameMedia(u, t) /\ SamePeers(u, t)
             /\ SameText(u, t) /\ u.flows = t.flows \cup {g}
  BY <1>2, <1>3, SteadyFlows, Zenon DEF Begins
<1>4. ASSUME NEW f, NEW u, u = Ends(t, f)
      PROVE  /\ Steady(u) /\ SameHands(u, t) /\ SameMedia(u, t) /\ SamePeers(u, t)
             /\ SameText(u, t) /\ u.flows = t.flows \ {f}
  <2>1. Flow("start", "mic", 0) \in Flows
    BY Bounds, TextEmpty, FlowTyped
  <2> QED
    BY <1>2, <1>4, <2>1, SteadyFlows, Zenon DEF Ends
<1>5. ASSUME NEW g \in Flows, NEW f, NEW u, u = Continues(t, f, g)
      PROVE  /\ Steady(u) /\ SameHands(u, t) /\ SameMedia(u, t) /\ SamePeers(u, t)
             /\ SameText(u, t) /\ u.flows = (t.flows \ {f}) \cup {g}
  BY <1>2, <1>5, SteadyFlows, Zenon DEF Continues
<1> QED
  BY <1>3, <1>4, <1>5, Zenon

-----------------------------------------------------------------------------
(* Order, while no recordings have overlapped *)

Opens(f) == f.kind \in {"start", "recover"}
Reviewed == {"ready_to_edit", "refinement_failed"}

\* While no recordings have overlapped: at most one call is awaited, ...
OneCall(t) == \A f, g \in t.flows : f = g

\* ... the state of the capture tells which, ...
StateOf(t) ==
  /\ t.ctx.state \in {"requesting_permission", "connecting"} => \E f \in t.flows : Opens(f)
  /\ t.ctx.state \in {"finishing", "refining"} => \E f \in t.flows : ~Opens(f)
  /\ t.ctx.state \notin {"ready", "reconnecting", "disconnected"}
  /\ t.ctx.state \in LiveSpeaking =>
       t.flows = {} /\ t.stream = t.take /\ t.stream # 0 /\ Stream(t.stream) \in t.mics
  /\ t.ctx.state \in LiveSpeaking \cup {"finishing", "refining"} => t.outcome = "asking"
  /\ t.ctx.state \in Reviewed => t.mics = {} /\ t.peers = {} /\ t.flows = {}

\* ... who makes a recording or a connection has what it made so far, ...
OpeningIs(t) ==
  \A f \in t.flows : Opens(f) =>
    /\ t.outcome = "asking" /\ f.take = t.take /\ t.take # 0
    /\ \/ /\ f.at = "mic" /\ f.kind = "start" /\ t.ctx.state = "requesting_permission"
          /\ t.mics = {} /\ t.peers = {}
       \/ /\ f.at = "session" /\ t.ctx.state = "connecting" /\ t.stream = t.take
          /\ Stream(t.stream) \in t.mics /\ t.peers = {}
       \/ /\ f.at = "answer" /\ t.ctx.state = "connecting" /\ t.stream = t.take
          /\ Stream(t.stream) \in t.mics
          /\ f.peer = t.peer /\ \A p \in t.peers : ~p.up

\* ... finishing a recording may outlast the capture, retrying may not, ...
ClosingIs(t) ==
  \A f \in t.flows : ~Opens(f) =>
    \/ /\ f.kind = "finish"
       /\ t.ctx.state \in {"finishing", "refining", "error", "fallback_text", "idle"}
       /\ f.at \in {"collect", "recorder", "refine", "transcribe", "polish"}
       /\ t.ctx.state = "finishing" => f.at \in {"collect", "recorder"}
    \/ /\ f.kind = "retry" /\ t.ctx.state = "refining"
       /\ f.at \in {"refine", "transcribe", "polish"}
       /\ t.mics = {} /\ t.peers = {}

\* ... and what is open belongs to the one recording.
OpenIs(t) ==
  /\ \A p \in t.peers : p.id = t.peer
  /\ t.mics \subseteq {Stream(t.stream), Clone(t.recorder)}
  /\ t.peers # {} => Stream(t.stream) \in t.mics

\* The texts say nothing twice, except what finishing puts together until the draft is
\* collected.
Collects(t) == \E f \in t.flows : f.at = "collect"
Drafting == LiveSpeaking \cup {"requesting_permission", "connecting"}

Clean(t) ==
  /\ t.ctx.state \in Drafting => t.ctx.partial = DisplayAnswerText(t.store)
  /\ ~Collects(t) => NoRepeat(t.ctx.final) /\ NoRepeat(t.ctx.frozen)
  /\ \A f \in t.flows :
       /\ f.kind = "finish" => NoRepeat(f.live)
       /\ f.at = "collect" /\ f.live = <<>> =>
            NoRepeat(t.answer) /\ NoRepeat(t.ctx.frozen) /\ NoRepeat(t.ctx.final)
       /\ f.kind = "start" => ~t.editing
  /\ t.ctx.state = "permission_denied" => ~t.editing
  /\ t.ctx.state \in LiveSpeaking => NoRepeat(t.answer)
  /\ t.ctx.state = "connecting" /\ t.editing => NoRepeat(t.answer)
  /\ t.ctx.state \in {"finishing", "refining"} \cup Reviewed /\ ~Collects(t) => NoRepeat(t.answer)

InOrder(t) == OneCall(t) /\ StateOf(t) /\ OpeningIs(t) /\ ClosingIs(t) /\ OpenIs(t)
Orderly == ~tab.overlapped => InOrder(tab) /\ Clean(tab)

LEMMA EmptyDraft == DisplayAnswerText(<<>>) = <<>> /\ NoRepeat(<<>>)
<1>1. Worded(<<>>) = {}
  BY DEF Worded
<1>2. Cardinality(Worded(<<>>)) = 0
  BY <1>1, FS_EmptySet
<1>3. DisplayAnswerText(<<>>) = [n \in {} |-> <<>>[Nth(Worded(<<>>), n)].id]
  BY <1>2 DEF DisplayAnswerText
<1> QED
  BY <1>3 DEF NoRepeat

\* The texts of a page, and what a host types.
LEMMA CleanTexts ==
  ASSUME NEW t, Steady(t)
  PROVE  /\ t.ctx \in Contexts /\ t.ctx.partial \in Texts /\ t.ctx.final \in Texts
         /\ t.ctx.frozen \in Texts /\ t.ctx.state \in States
         /\ t.answer \in Texts /\ NoRepeat(DisplayAnswerText(t.store))
         /\ DisplayAnswerText(t.store) \in Texts
         /\ NoRepeat(<<Typed>>) /\ t.flows \in SUBSET Flows
<1>1. t \in Tabs /\ Named(t.store)
  BY DEF Steady
<1>2. /\ t.ctx \in Contexts /\ t.answer \in Texts /\ t.store \in Seq(Items)
      /\ t.flows \in SUBSET Flows
  BY <1>1, TabFields
<1>3. NoRepeat(DisplayAnswerText(t.store)) /\ DisplayAnswerText(t.store) \in Texts
  BY <1>1, <1>2, DisplayShows
<1> QED
  BY <1>2, <1>3 DEF Contexts, NoRepeat

LEMMA StartOrder ==
  ASSUME Steady(tab), Orderly, Start, ~tab'.overlapped
  PROVE  InOrder(tab') /\ Clean(tab')
<1> DEFINE edited == tab.editing /\ tab.ctx.state = "permission_denied"
           overlaps == tab.overlapped \/ tab.flows # {} \/ tab.mics # {}
           next == tab.take + 1
           a == [tab EXCEPT !.editing = edited, !.take = next, !.overlapped = overlaps]
           t == Dispatch(a, Event("START"))
           b == [t EXCEPT !.store = CreateStore]
           r == ReleaseAudioBlob(b)
           g == Flow("start", "mic", t.take)
<1>1. /\ tab \in Tabs /\ tab.take \in 0..MaxTakes /\ tab.take < MaxTakes /\ MaxTakes \in Nat
      /\ tab.outcome = "asking"
      /\ tab.ctx.state \in {"idle", "permission_denied", "ready_to_edit",
                            "refinement_failed", "fallback_text", "error"}
      /\ tab' = Begins(r, g)
  BY TabFields, Bounds, Zenon DEF Steady, Start, Editable, Shown
<1>2. next \in 0..MaxTakes /\ next # 0
  <2>1. /\ tab.take \in 0..MaxTakes /\ tab.take < MaxTakes /\ MaxTakes \in Nat
    BY <1>1, Zenon
  <2> QED
    BY <2>1
<1>21. edited \in BOOLEAN /\ overlaps \in BOOLEAN
  BY Zenon
<1> HIDE DEF edited, overlaps, next
<1>3. /\ a \in Tabs /\ a.store = tab.store /\ a.ctx = tab.ctx /\ a.flows = tab.flows
      /\ a.take = next /\ a.outcome = tab.outcome /\ a.peers = tab.peers
      /\ a.peer = tab.peer /\ a.mics = tab.mics /\ a.stream = tab.stream
      /\ a.recorder = tab.recorder /\ a.answer = tab.answer
  <2>1. tab \in Tabs
    BY <1>1, Zenon
  <2>2. a \in Tabs
    BY <1>2, <1>21, <2>1 DEF Tabs
  <2>3. /\ a.store = tab.store /\ a.ctx = tab.ctx /\ a.flows = tab.flows
        /\ a.take = next /\ a.outcome = tab.outcome /\ a.peers = tab.peers
    BY <2>1 DEF Tabs
  <2>4. /\ a.peer = tab.peer /\ a.mics = tab.mics /\ a.stream = tab.stream
        /\ a.recorder = tab.recorder /\ a.answer = tab.answer
    BY <2>1 DEF Tabs
  <2> QED
    BY <2>2, <2>3, <2>4
<1>4. /\ a.editing = edited /\ a.overlapped = overlaps
  <2>1. tab \in Tabs
    BY <1>1, Zenon
  <2> QED
    BY <2>1 DEF Tabs
<1>5. Steady(a)
  BY <1>3, SteadySame, Zenon
<1> HIDE DEF a
<1>6. /\ Steady(t) /\ t.ctx = Reduce(a.ctx, Event("START")) /\ t.answer = Boxed(t.ctx, a)
      /\ SameHands(t, a) /\ SameMedia(t, a) /\ SamePeers(t, a) /\ t.flows = a.flows
  BY <1>5, EventsAre, Dispatches
<1> HIDE DEF t
<1>7. /\ Steady(b) /\ b.store = <<>> /\ b.ctx = t.ctx /\ b.answer = t.answer
      /\ b.outcome = t.outcome /\ b.editing = t.editing /\ b.take = t.take
      /\ b.overlapped = t.overlapped /\ SameMedia(b, t) /\ SamePeers(b, t)
      /\ b.flows = t.flows
  <2>1. t \in Tabs /\ Bounded(t.ctx) /\ <<>> \in Seq(Items)
    BY <1>6 DEF Steady
  <2>2. b \in Tabs
    BY <2>1, TabSet DEF CreateStore
  <2>3. /\ b.store = <<>> /\ b.ctx = t.ctx /\ b.answer = t.answer
        /\ b.outcome = t.outcome /\ b.editing = t.editing /\ b.take = t.take
        /\ b.overlapped = t.overlapped /\ SameMedia(b, t) /\ SamePeers(b, t)
        /\ b.flows = t.flows
    BY <2>1 DEF Tabs, CreateStore, SameMedia, SamePeers
  <2>4. Named(b.store)
    BY <2>3 DEF Named
  <2> QED
    BY <2>1, <2>2, <2>3, <2>4 DEF Steady
<1> HIDE DEF b
<1>8. /\ Steady(r) /\ SameHands(r, b) /\ SameMedia(r, b) /\ SamePeers(r, b)
      /\ SameText(r, b) /\ r.flows = b.flows
  BY <1>7, Closes
<1> HIDE DEF r
<1>9. /\ g \in Flows /\ g.kind = "start" /\ g.at = "mic" /\ g.take = t.take
  <2>1. t.take \in 0..MaxTakes
    BY <1>6, TabFields DEF Steady
  <2> QED
    BY <2>1, TextEmpty, FlowTyped DEF Flow
<1> HIDE DEF g
<1>10. /\ SameHands(tab', r) /\ SameMedia(tab', r) /\ SamePeers(tab', r)
       /\ SameText(tab', r) /\ tab'.flows = r.flows \cup {g}
  BY <1>1, <1>8, <1>9, Awaited
\* Nothing was awaited and no microphone on.
<1>11. tab'.overlapped = a.overlapped /\ tab'.editing = a.editing
  BY <1>6, <1>7, <1>8, <1>10, Zenon DEF SameHands
<1>12. ~tab.overlapped /\ tab.flows = {} /\ tab.mics = {}
  BY <1>4, <1>11, Zenon DEF overlaps
<1>13. InOrder(tab) /\ Clean(tab)
  BY <1>12 DEF Orderly
<1>14. ~tab'.editing
  BY <1>4, <1>11, <1>13, Zenon DEF Clean, edited
<1>15. tab.peers = {}
  BY <1>12, <1>13 DEF InOrder, OpenIs
<1>16. tab.ctx \in Contexts /\ NoRepeat(tab.ctx.final)
  BY <1>12, <1>13, CleanTexts DEF Clean, Collects
<1>17. /\ tab'.ctx.state = "requesting_permission" /\ tab'.ctx.partial = <<>>
       /\ tab'.ctx.frozen = <<>> /\ tab'.ctx.final = tab.ctx.final
  <2>1. tab'.ctx = Reduce(tab.ctx, Event("START"))
    BY <1>3, <1>6, <1>7, <1>8, <1>10, Zenon DEF SameText
  <2>2. Reduce(tab.ctx, Event("START")) =
          [tab.ctx EXCEPT !.partial = <<>>, !.frozen = <<>>, !.attempts = 0,
                          !.state = "requesting_permission"]
    BY <1>1, <1>16, TextEmpty, Reduces
  <2> QED
    BY <1>16, <2>1, <2>2 DEF Contexts
<1>18. /\ tab'.flows = {g} /\ tab'.mics = {} /\ tab'.peers = {} /\ tab'.outcome = "asking"
       /\ tab'.take = g.take /\ tab'.take # 0 /\ tab'.store = <<>>
  BY <1>1, <1>2, <1>3, <1>6, <1>7, <1>8, <1>9, <1>10, <1>12, <1>15
     DEF SameHands, SameMedia, SamePeers
<1>19. InOrder(tab')
  BY <1>9, <1>17, <1>18
     DEF InOrder, OneCall, StateOf, OpeningIs, ClosingIs, OpenIs, Opens, LiveSpeaking, Reviewed
<1>20. Clean(tab')
  BY <1>9, <1>14, <1>16, <1>17, <1>18, EmptyDraft
     DEF Clean, Collects, Drafting, LiveSpeaking, Reviewed
<1> QED
  BY <1>19, <1>20

\* What an event does to the context, part by part.
SameTexts(d, c) == d.partial = c.partial /\ d.final = c.final /\ d.frozen = c.frozen

LEMMA Moves ==
  ASSUME NEW c \in Contexts
  PROVE
    /\ \A d : d = Reduce(c, Event("PERMISSION_GRANTED")) =>
         /\ SameTexts(d, c)
         /\ d.state = IF c.state \in {"requesting_permission", "reconnecting"}
                      THEN "connecting" ELSE c.state
    /\ \A d : d = Reduce(c, Event("PERMISSION_DENIED")) =>
         SameTexts(d, c) /\ d.state = "permission_denied"
    /\ \A d : d = Reduce(c, Event("CONNECTED")) =>
         /\ SameTexts(d, c)
         /\ d.state = IF c.state \in {"connecting", "reconnecting", "ready"}
                      THEN "listening" ELSE c.state
    /\ \A d : d = Reduce(c, Event("RECONNECTED")) =>
         /\ SameTexts(d, c)
         /\ d.state = IF c.state = "reconnecting" THEN "listening" ELSE c.state
    /\ \A d : d = Reduce(c, Event("PAUSE")) =>
         /\ SameTexts(d, c)
         /\ d.state = IF c.state \in {"listening", "live_draft"} THEN "paused" ELSE c.state
    /\ \A d : d = Reduce(c, Event("RESUME")) =>
         /\ SameTexts(d, c)
         /\ d.state = IF c.state # "paused" THEN c.state
                      ELSE IF c.partial = <<>> THEN "listening" ELSE "live_draft"
    /\ \A d : d = Reduce(c, Event("FINISHING_DONE")) =>
         /\ SameTexts(d, c)
         /\ d.state = IF c.state = "finishing" THEN "refining" ELSE c.state
    /\ \A d : d = Reduce(c, Event("REFINING")) =>
         /\ SameTexts(d, c)
         /\ d.state = IF c.state \in {"finishing", "refining", "refinement_failed"}
                      THEN "refining" ELSE c.state
    /\ \A d : d = Reduce(c, Event("REFINE_FAILED")) =>
         /\ d.partial = c.partial /\ d.frozen = c.frozen
         /\ IF c.state \in {"refining", "finishing"}
            THEN d.state = "refinement_failed" /\ d.final = FrozenOr(c)
            ELSE d.state = c.state /\ d.final = c.final
    /\ \A type \in Losses : \A d : d = Reduce(c, Event(type)) =>
         /\ SameTexts(d, c)
         /\ d.state = IF c.state \in LiveSpeaking \cup {"connecting"}
                      THEN "reconnecting" ELSE c.state
    /\ \A type \in {"RECONNECT_FAILED", "FALLBACK_TEXT"} : \A d : d = Reduce(c, Event(type)) =>
         SameTexts(d, c) /\ d.state = "fallback_text"
    /\ \A d : d = Reduce(c, Event("ERROR")) => SameTexts(d, c) /\ d.state = "error"
<1> USE TextEmpty DEF Contexts, SameTexts
<1>1. \A d : d = Reduce(c, Event("PERMISSION_GRANTED")) =>
        /\ SameTexts(d, c)
        /\ d.state = IF c.state \in {"requesting_permission", "reconnecting"}
                     THEN "connecting" ELSE c.state
  <2>1. Reduce(c, Event("PERMISSION_GRANTED")) =
          IF c.state \in {"requesting_permission", "reconnecting"}
          THEN [c EXCEPT !.state = "connecting"] ELSE c
    BY Reduces
  <2> QED
    BY <2>1
<1>2. \A d : d = Reduce(c, Event("PERMISSION_DENIED")) =>
        SameTexts(d, c) /\ d.state = "permission_denied"
  <2>1. Reduce(c, Event("PERMISSION_DENIED")) = [c EXCEPT !.state = "permission_denied"]
    BY Reduces
  <2> QED
    BY <2>1
<1>3. \A d : d = Reduce(c, Event("CONNECTED")) =>
        /\ SameTexts(d, c)
        /\ d.state = IF c.state \in {"connecting", "reconnecting", "ready"}
                     THEN "listening" ELSE c.state
  <2>1. Reduce(c, Event("CONNECTED")) =
          IF c.state \in {"connecting", "reconnecting", "ready"}
          THEN [c EXCEPT !.attempts = 0, !.state = "listening"] ELSE c
    BY Reduces
  <2> QED
    BY <2>1
<1>4. \A d : d = Reduce(c, Event("RECONNECTED")) =>
        /\ SameTexts(d, c)
        /\ d.state = IF c.state = "reconnecting" THEN "listening" ELSE c.state
  <2>1. Reduce(c, Event("RECONNECTED")) =
          IF c.state = "reconnecting" THEN [c EXCEPT !.state = "listening"] ELSE c
    BY Reduces
  <2> QED
    BY <2>1
<1>5. \A d : d = Reduce(c, Event("PAUSE")) =>
        /\ SameTexts(d, c)
        /\ d.state = IF c.state \in {"listening", "live_draft"} THEN "paused" ELSE c.state
  <2>1. Reduce(c, Event("PAUSE")) =
          IF c.state \in {"listening", "live_draft"} THEN [c EXCEPT !.state = "paused"] ELSE c
    BY Reduces
  <2> QED
    BY <2>1
<1>6. \A d : d = Reduce(c, Event("RESUME")) =>
        /\ SameTexts(d, c)
        /\ d.state = IF c.state # "paused" THEN c.state
                     ELSE IF c.partial = <<>> THEN "listening" ELSE "live_draft"
  <2>1. Reduce(c, Event("RESUME")) =
          IF c.state = "paused"
          THEN [c EXCEPT !.state = IF c.partial = <<>> THEN "listening" ELSE "live_draft"]
          ELSE c
    BY Reduces
  <2> DEFINE next == IF c.partial = <<>> THEN "listening" ELSE "live_draft"
  <2>2. Reduce(c, Event("RESUME")) = IF c.state = "paused" THEN [c EXCEPT !.state = next] ELSE c
    BY <2>1
  <2> HIDE DEF next
  <2>3. \A d : d = Reduce(c, Event("RESUME")) =>
          SameTexts(d, c) /\ d.state = IF c.state # "paused" THEN c.state ELSE next
    BY <2>2
  <2> QED
    BY <2>3 DEF next
<1>7. \A d : d = Reduce(c, Event("FINISHING_DONE")) =>
        /\ SameTexts(d, c)
        /\ d.state = IF c.state = "finishing" THEN "refining" ELSE c.state
  <2>1. Reduce(c, Event("FINISHING_DONE")) =
          IF c.state = "finishing" THEN [c EXCEPT !.state = "refining"] ELSE c
    BY Reduces
  <2> QED
    BY <2>1
<1>8. \A d : d = Reduce(c, Event("REFINING")) =>
        /\ SameTexts(d, c)
        /\ d.state = IF c.state \in {"finishing", "refining", "refinement_failed"}
                     THEN "refining" ELSE c.state
  <2>1. Reduce(c, Event("REFINING")) =
          IF c.state \in {"finishing", "refining", "refinement_failed"}
          THEN [c EXCEPT !.state = "refining"] ELSE c
    BY Reduces
  <2> QED
    BY <2>1
<1>9. \A d : d = Reduce(c, Event("REFINE_FAILED")) =>
        /\ d.partial = c.partial /\ d.frozen = c.frozen
        /\ IF c.state \in {"refining", "finishing"}
           THEN d.state = "refinement_failed" /\ d.final = FrozenOr(c)
           ELSE d.state = c.state /\ d.final = c.final
  <2>1. Reduce(c, Event("REFINE_FAILED")) =
          IF c.state \in {"refining", "finishing"}
          THEN [c EXCEPT !.final = FrozenOr(c), !.state = "refinement_failed"] ELSE c
    BY Reduces
  <2> QED
    BY <2>1
<1>10. \A type \in Losses : \A d : d = Reduce(c, Event(type)) =>
         /\ SameTexts(d, c)
         /\ d.state = IF c.state \in LiveSpeaking \cup {"connecting"}
                      THEN "reconnecting" ELSE c.state
  <2>1. \A type \in Losses :
          Reduce(c, Event(type)) =
            IF c.state \in LiveSpeaking \cup {"connecting"}
            THEN [c EXCEPT !.attempts = c.attempts + 1, !.state = "reconnecting"] ELSE c
    BY Reduces DEF Losses
  <2> DEFINE more == c.attempts + 1
             d == [c EXCEPT !.attempts = more, !.state = "reconnecting"]
  <2> HIDE DEF more
  <2>2. SameTexts(d, c) /\ d.state = "reconnecting"
    OBVIOUS
  <2> HIDE DEF d, SameTexts
  <2>3. ASSUME NEW type \in Losses
        PROVE  Reduce(c, Event(type)) = IF c.state \in LiveSpeaking \cup {"connecting"} THEN d ELSE c
    BY <2>1 DEF d, more
  <2>4. SameTexts(c, c)
    BY DEF SameTexts
  <2> QED
    BY <2>2, <2>3, <2>4, Zenon
<1>11. \A type \in {"RECONNECT_FAILED", "FALLBACK_TEXT"} : \A d : d = Reduce(c, Event(type)) =>
         SameTexts(d, c) /\ d.state = "fallback_text"
  <2>1. \A type \in {"RECONNECT_FAILED", "FALLBACK_TEXT"} :
          Reduce(c, Event(type)) = [c EXCEPT !.state = "fallback_text"]
    BY Reduces
  <2> QED
    BY <2>1
<1>12. \A d : d = Reduce(c, Event("ERROR")) => SameTexts(d, c) /\ d.state = "error"
  <2>1. Reduce(c, Event("ERROR")) = [c EXCEPT !.state = "error"]
    BY Reduces
  <2> QED
    BY <2>1
<1> QED
  BY <1>1, <1>2, <1>3, <1>4, <1>5, <1>6, <1>7, <1>8, <1>9, <1>10, <1>11, <1>12, Zenon

\* What is in the box.
LEMMA BoxedTexts ==
  ASSUME NEW t, Steady(t), NEW c
  PROVE  /\ NoRepeat(c.final) /\ NoRepeat(c.frozen) /\ NoRepeat(t.answer) =>
              NoRepeat(Boxed(c, t))
         /\ c.state \in LiveSpeaking \cup {"reconnecting"} =>
              Boxed(c, t) = IF t.editing THEN t.answer ELSE DisplayAnswerText(t.store)
         /\ c.state \in {"finishing", "refining"} =>
              Boxed(c, t) = IF FrozenOr(c) # <<>> THEN FrozenOr(c) ELSE t.answer
         /\ c.state \in Reviewed =>
              Boxed(c, t) = IF c.final # <<>> THEN c.final ELSE t.answer
         /\ c.state = "fallback_text" /\ NoRepeat(t.answer) => NoRepeat(Boxed(c, t))
         /\ c.state \notin LiveSpeaking \cup Reviewed
                \cup {"reconnecting", "finishing", "refining", "fallback_text"} =>
              Boxed(c, t) = t.answer
<1> DEFINE shown == DisplayAnswerText(t.store)
<1>1. NoRepeat(shown)
  BY CleanTexts
<1> HIDE DEF shown
<1>2. CASE c.state \in Reviewed
  <2>1. Boxed(c, t) = IF c.final # <<>> THEN c.final ELSE t.answer
    BY <1>2 DEF Boxed, Reviewed, LiveSpeaking
  <2> QED
    BY <1>1, <1>2, <2>1 DEF Reviewed, LiveSpeaking
<1>3. CASE c.state \in {"finishing", "refining"}
  <2>1. Boxed(c, t) = IF FrozenOr(c) # <<>> THEN FrozenOr(c) ELSE t.answer
    BY <1>3 DEF Boxed, LiveSpeaking
  <2> QED
    BY <1>1, <1>3, <2>1 DEF Reviewed, LiveSpeaking, FrozenOr
<1>4. CASE c.state = "fallback_text"
  <2>1. Boxed(c, t) = IF shown # <<>> THEN shown ELSE t.answer
    BY <1>4 DEF Boxed, shown, LiveSpeaking
  <2> QED
    BY <1>1, <1>4, <2>1 DEF Reviewed, LiveSpeaking
<1>5. CASE c.state \in LiveSpeaking \cup {"reconnecting"}
  <2>1. Boxed(c, t) = IF t.editing THEN t.answer ELSE shown
    BY <1>5 DEF Boxed, shown, LiveSpeaking
  <2> QED
    BY <1>1, <1>5, <2>1 DEF Reviewed, LiveSpeaking, shown
<1>6. CASE c.state \notin LiveSpeaking \cup Reviewed
                \cup {"reconnecting", "finishing", "refining", "fallback_text"}
  <2>1. Boxed(c, t) = t.answer
    BY <1>6 DEF Boxed, Reviewed
  <2> QED
    BY <1>6, <2>1
<1> QED
  BY <1>2, <1>3, <1>4, <1>5, <1>6

LEMMA OnlyCall ==
  ASSUME NEW t, OneCall(t), NEW f \in t.flows
  PROVE  /\ t.flows = {f} /\ t.flows \ {f} = {}
         /\ \A g : (t.flows \ {f}) \cup {g} = {g}
BY DEF OneCall

LEMMA PauseOrder ==
  ASSUME Steady(tab), InOrder(tab), Clean(tab), Pause \/ Resume
  PROVE  InOrder(tab') /\ Clean(tab') /\ tab'.overlapped = tab.overlapped
<1>1. /\ tab.ctx.state \in LiveSpeaking
      /\ tab' = Dispatch(tab, Event("PAUSE")) \/ tab' = Dispatch(tab, Event("RESUME"))
  BY DEF Pause, Resume, LiveSpeaking
<1>2. tab.ctx \in Contexts /\ NoRepeat(DisplayAnswerText(tab.store))
  BY CleanTexts
<1>3. /\ SameTexts(tab'.ctx, tab.ctx) /\ tab'.ctx.state \in LiveSpeaking
      /\ tab'.answer = Boxed(tab'.ctx, tab) /\ tab'.flows = tab.flows
      /\ SameHands(tab', tab) /\ SameMedia(tab', tab) /\ SamePeers(tab', tab)
  <2>1. CASE tab' = Dispatch(tab, Event("PAUSE"))
    <3>1. /\ tab'.ctx = Reduce(tab.ctx, Event("PAUSE"))
          /\ tab'.answer = Boxed(tab'.ctx, tab) /\ tab'.flows = tab.flows
          /\ SameHands(tab', tab) /\ SameMedia(tab', tab) /\ SamePeers(tab', tab)
      <4>1. Event("PAUSE") \in Events
        BY EventsAre
      <4> QED
        BY <2>1, <4>1, Dispatches, Zenon
    <3> QED
      BY <1>1, <1>2, <3>1, Moves DEF LiveSpeaking
  <2>2. CASE tab' = Dispatch(tab, Event("RESUME"))
    <3>1. /\ tab'.ctx = Reduce(tab.ctx, Event("RESUME"))
          /\ tab'.answer = Boxed(tab'.ctx, tab) /\ tab'.flows = tab.flows
          /\ SameHands(tab', tab) /\ SameMedia(tab', tab) /\ SamePeers(tab', tab)
      <4>1. Event("RESUME") \in Events
        BY EventsAre
      <4> QED
        BY <2>2, <4>1, Dispatches, Zenon
    <3> QED
      BY <1>1, <1>2, <3>1, Moves DEF LiveSpeaking
  <2> QED
    BY <1>1, <2>1, <2>2
<1>4. /\ tab.flows = {} /\ NoRepeat(tab.answer) /\ tab.outcome = "asking"
      /\ tab.ctx.partial = DisplayAnswerText(tab.store)
      /\ NoRepeat(tab.ctx.final) /\ NoRepeat(tab.ctx.frozen)
  BY <1>1 DEF InOrder, StateOf, Clean, Collects, Drafting
<1>5. NoRepeat(tab'.answer)
  BY <1>1, <1>2, <1>3, <1>4 DEF Boxed, LiveSpeaking
<1>6. InOrder(tab')
  BY <1>1, <1>3, <1>4
     DEF InOrder, OneCall, StateOf, OpeningIs, ClosingIs, OpenIs, LiveSpeaking, Reviewed,
         SameHands, SameMedia, SamePeers
<1>7. Clean(tab')
  BY <1>3, <1>4, <1>5
     DEF Clean, Collects, Drafting, LiveSpeaking, Reviewed, SameHands, SameTexts
<1> QED
  BY <1>3, <1>6, <1>7 DEF SameHands

\* What an action on the page leaves of the order: who is awaited, what is open.
SameOrder(u, t) ==
  /\ u.flows = t.flows /\ u.ctx.state = t.ctx.state /\ u.take = t.take
  /\ u.outcome = t.outcome /\ SameMedia(u, t) /\ SamePeers(u, t)

LEMMA OrderKept ==
  ASSUME NEW t, InOrder(t), NEW u, SameOrder(u, t)
  PROVE  InOrder(u)
BY DEF InOrder, OneCall, StateOf, OpeningIs, ClosingIs, OpenIs, SameOrder, SameMedia, SamePeers

LEMMA EditsOrder ==
  ASSUME Steady(tab), InOrder(tab), Clean(tab), HostEdits
  PROVE  InOrder(tab') /\ Clean(tab') /\ tab'.overlapped = tab.overlapped
<1> DEFINE text == <<Typed>>
           edited == tab.editing \/ tab.ctx.state \in LiveSpeaking
<1>1. /\ tab \in Tabs /\ tab' = [tab EXCEPT !.answer = text, !.editing = edited]
      /\ NoRepeat(text)
  BY CleanTexts, Zenon DEF Steady, HostEdits
<1> HIDE DEF text, edited
<1>2. /\ SameOrder(tab', tab) /\ tab'.answer = text /\ tab'.editing = edited
      /\ tab'.ctx = tab.ctx /\ tab'.store = tab.store /\ tab'.overlapped = tab.overlapped
  BY <1>1 DEF Tabs, SameOrder, SameMedia, SamePeers
<1>3. InOrder(tab')
  BY <1>2, OrderKept
<1>4. edited => tab.editing \/ (tab.ctx.state \in LiveSpeaking /\ tab.flows = {})
  BY DEF edited, InOrder, StateOf
<1>5. Clean(tab')
  BY <1>1, <1>2, <1>4 DEF Clean, Collects, SameOrder, LiveSpeaking
<1> QED
  BY <1>2, <1>3, <1>5

LEMMA SubmitOrder ==
  ASSUME Steady(tab), InOrder(tab), Clean(tab), Submit \/ SubmitFails
  PROVE  InOrder(tab') /\ Clean(tab') /\ tab'.overlapped = tab.overlapped
<1>1. ASSUME NEW outcome, tab' = [tab EXCEPT !.outcome = outcome]
      PROVE  /\ tab'.flows = tab.flows /\ tab'.ctx = tab.ctx /\ tab'.take = tab.take
             /\ tab'.outcome = outcome /\ SameMedia(tab', tab) /\ SamePeers(tab', tab)
             /\ tab'.store = tab.store /\ tab'.answer = tab.answer
             /\ tab'.editing = tab.editing /\ tab'.overlapped = tab.overlapped
  BY <1>1 DEF Steady, Tabs, SameMedia, SamePeers
<1>2. \/ Editable /\ tab' = [tab EXCEPT !.outcome = "processing"]
      \/ tab.outcome = "processing" /\ tab' = [tab EXCEPT !.outcome = "asking"]
  BY DEF Submit, SubmitFails, Submitting
<1>3. /\ tab'.flows = tab.flows /\ tab'.ctx = tab.ctx /\ tab'.take = tab.take
      /\ SameMedia(tab', tab) /\ SamePeers(tab', tab)
      /\ tab'.store = tab.store /\ tab'.answer = tab.answer
      /\ tab'.editing = tab.editing /\ tab'.overlapped = tab.overlapped
  BY <1>1, <1>2
<1>4. /\ tab.ctx.state \notin LiveSpeaking \cup {"finishing", "refining"}
      /\ \A f \in tab.flows : ~Opens(f)
  BY <1>2 DEF Editable, Shown, InOrder, StateOf, OpeningIs, LiveSpeaking
<1>5. InOrder(tab')
  BY <1>3, <1>4 DEF InOrder, OneCall, StateOf, OpeningIs, ClosingIs, OpenIs, SameMedia, SamePeers
<1>6. Clean(tab')
  BY <1>3 DEF Clean, Collects
<1> QED
  BY <1>3, <1>5, <1>6

\* The page is ready for the next answer.
LEMMA ResetSets ==
  ASSUME NEW t, Steady(t), NEW u, u = ResetVoiceForNextAnswer(t)
  PROVE  /\ u \in Tabs /\ u.ctx = CreateContext /\ u.answer = <<>> /\ u.store = <<>> /\ ~u.editing
         /\ u.outcome = t.outcome /\ u.take = t.take /\ u.overlapped = t.overlapped
         /\ u.stream = 0 /\ u.recorder = 0 /\ u.peer = 0 /\ u.flows = t.flows
         /\ u.peers = {p \in t.peers : p.id # t.peer}
         /\ u.mics = t.mics \ {Stream(t.stream), Clone(t.recorder)}
<1> DEFINE z == [t EXCEPT !.editing = FALSE, !.answer = <<>>]
           a == [z EXCEPT !.timer = FALSE]
           m == TeardownMedia(a)
           b == ReleaseAudioBlob(m)
           c == [b EXCEPT !.audioBlob = z.recorder, !.store = CreateStore]
<1>1. t \in Tabs /\ <<>> \in Texts
  BY TextEmpty DEF Steady
<1>2. /\ a \in Tabs /\ a.editing = FALSE /\ a.answer = <<>> /\ a.ctx = t.ctx
      /\ a.store = t.store /\ z.recorder = t.recorder
      /\ a.outcome = t.outcome /\ a.take = t.take /\ a.overlapped = t.overlapped
      /\ SameMedia(a, t) /\ SamePeers(a, t) /\ a.flows = t.flows
  <2> DEFINE none == <<>>
  <2> HIDE DEF none
  <2>1. none \in Texts
    BY <1>1 DEF none
  <2>2. a = [t EXCEPT !.editing = FALSE, !.answer = none, !.timer = FALSE]
    BY <1>1 DEF Tabs, none
  <2>3. z.recorder = t.recorder
    BY <1>1 DEF Tabs
  <2> HIDE DEF a, z
  <2>4. /\ a \in Tabs /\ a.editing = FALSE /\ a.answer = none /\ a.ctx = t.ctx
        /\ a.store = t.store
        /\ a.outcome = t.outcome /\ a.take = t.take /\ a.overlapped = t.overlapped
        /\ SameMedia(a, t) /\ SamePeers(a, t) /\ a.flows = t.flows
    BY <1>1, <2>1, <2>2 DEF Tabs, SameMedia, SamePeers
  <2> QED
    BY <2>3, <2>4 DEF none
<1>3. Steady(a)
  BY <1>2, SteadySame, Zenon
<1>4. u = Dispatch(c, Event("DISCARD"))
  BY DEF ResetVoiceForNextAnswer, Discard
<1> HIDE DEF a, z
<1>5. /\ Steady(m) /\ SameHands(m, a) /\ SameText(m, a)
      /\ m.flows = a.flows /\ m.peer = 0 /\ m.stream = 0 /\ m.recorder = 0
      /\ m.peers = {p \in a.peers : p.id # a.peer}
      /\ m.mics = a.mics \ {Stream(a.stream), Clone(a.recorder)}
  BY <1>3, Closes
<1> HIDE DEF m
<1>6. /\ Steady(b) /\ SameHands(b, m) /\ SameMedia(b, m) /\ SamePeers(b, m)
      /\ SameText(b, m) /\ b.flows = m.flows
  BY <1>5, Closes
<1> HIDE DEF b
<1>7. /\ Steady(c) /\ c.store = <<>> /\ c.ctx = b.ctx /\ c.answer = b.answer
      /\ c.outcome = b.outcome /\ c.editing = b.editing /\ c.take = b.take
      /\ c.overlapped = b.overlapped /\ SameMedia(c, b) /\ SamePeers(c, b)
      /\ c.flows = b.flows
  <2>1. /\ b \in Tabs /\ Bounded(b.ctx) /\ <<>> \in Seq(Items)
        /\ z.recorder \in 0..MaxTakes
    BY <1>1, <1>2, <1>6, TabFields DEF Steady
  <2>2. c \in Tabs
    BY <2>1 DEF CreateStore, Tabs
  <2>3. /\ c.store = <<>> /\ c.ctx = b.ctx /\ c.answer = b.answer
        /\ c.outcome = b.outcome /\ c.editing = b.editing /\ c.take = b.take
        /\ c.overlapped = b.overlapped /\ SameMedia(c, b) /\ SamePeers(c, b)
        /\ c.flows = b.flows
    BY <2>1 DEF Tabs, CreateStore, SameMedia, SamePeers
  <2>4. Named(c.store)
    BY <2>3 DEF Named
  <2> QED
    BY <2>1, <2>2, <2>3, <2>4 DEF Steady
<1> HIDE DEF c
<1>8. /\ Steady(u) /\ u.ctx = Reduce(c.ctx, Event("DISCARD")) /\ u.answer = Boxed(u.ctx, c)
      /\ SameHands(u, c) /\ SameMedia(u, c) /\ SamePeers(u, c) /\ u.flows = c.flows
  <2>1. Event("DISCARD") \in Events
    BY EventsAre
  <2> QED
    BY <1>4, <1>7, <2>1, Dispatches, Zenon
<1>9. u.ctx = CreateContext
  BY <1>8, Zenon DEF Reduce, Event
<1>10. u.answer = c.answer
  BY <1>8, <1>9 DEF Boxed, CreateContext, LiveSpeaking
<1>11. /\ u.answer = <<>> /\ u.store = <<>> /\ ~u.editing
       /\ u.outcome = t.outcome /\ u.take = t.take /\ u.overlapped = t.overlapped
       /\ u.flows = t.flows
  BY <1>2, <1>5, <1>6, <1>7, <1>8, <1>10, Zenon DEF SameHands, SameText
<1>12. /\ u.stream = 0 /\ u.recorder = 0 /\ u.peer = 0
       /\ u.peers = {p \in t.peers : p.id # t.peer}
       /\ u.mics = t.mics \ {Stream(t.stream), Clone(t.recorder)}
  <2>1. /\ u.stream = 0 /\ u.recorder = 0 /\ u.peer = 0
        /\ u.peers = m.peers /\ u.mics = m.mics
    BY <1>5, <1>6, <1>7, <1>8, Zenon DEF SameMedia, SamePeers
  <2>2. /\ a.peers = t.peers /\ a.peer = t.peer /\ a.mics = t.mics
        /\ a.stream = t.stream /\ a.recorder = t.recorder
    BY <1>2, Zenon DEF SameMedia, SamePeers
  <2>3. /\ m.peers = {p \in a.peers : p.id # a.peer}
        /\ m.mics = a.mics \ {Stream(a.stream), Clone(a.recorder)}
    BY <1>5, Zenon
  <2> QED
    BY <2>1, <2>2, <2>3
<1> QED
  BY <1>8, <1>9, <1>11, <1>12 DEF Steady

LEMMA ResetOrder ==
  ASSUME Steady(tab), InOrder(tab), Clean(tab), HostDiscards \/ Submitted \/ ContinueNext
  PROVE  InOrder(tab') /\ Clean(tab') /\ tab'.overlapped = tab.overlapped
<1> DEFINE u == ResetVoiceForNextAnswer(tab)
<1>1. /\ u \in Tabs /\ u.ctx = CreateContext /\ u.answer = <<>> /\ u.store = <<>> /\ ~u.editing
      /\ u.overlapped = tab.overlapped /\ u.flows = tab.flows
      /\ u.peers = {p \in tab.peers : p.id # tab.peer}
      /\ u.mics = tab.mics \ {Stream(tab.stream), Clone(tab.recorder)}
  BY ResetSets
<1>2. /\ tab' = u \/ \E outcome : tab' = [u EXCEPT !.outcome = outcome]
      /\ tab.ctx.state \in LiveSpeaking \/ tab.outcome # "asking"
  BY Zenon DEF HostDiscards, Submitted, Submitting, ContinueNext
<1> HIDE DEF u
<1>3. /\ tab'.ctx = CreateContext /\ tab'.answer = <<>> /\ tab'.store = <<>> /\ ~tab'.editing
      /\ tab'.overlapped = tab.overlapped /\ tab'.flows = tab.flows
      /\ tab'.peers = u.peers /\ tab'.mics = u.mics
  <2>1. CASE tab' = u
    BY <1>1, <2>1
  <2>2. ASSUME NEW outcome, tab' = [u EXCEPT !.outcome = outcome]
        PROVE  /\ tab'.ctx = u.ctx /\ tab'.answer = u.answer /\ tab'.store = u.store
               /\ tab'.editing = u.editing
               /\ tab'.overlapped = u.overlapped /\ tab'.flows = u.flows
               /\ tab'.peers = u.peers /\ tab'.mics = u.mics
    BY <1>1, <2>2 DEF Tabs
  <2> QED
    BY <1>1, <1>2, <2>1, <2>2
\* Who discards awaits nothing; who submits, at most a recording being finished.
<1>4. \A f \in tab.flows : f.kind = "finish" /\ ~Opens(f)
  BY <1>2 DEF InOrder, StateOf, OpeningIs, ClosingIs, LiveSpeaking, Opens
<1>5. tab'.peers = {} /\ tab'.mics = {}
  BY <1>1, <1>3 DEF InOrder, OpenIs
<1>6. InOrder(tab')
  BY <1>3, <1>4, <1>5
     DEF InOrder, OneCall, StateOf, OpeningIs, ClosingIs, OpenIs, CreateContext, LiveSpeaking, Reviewed
<1>7. Clean(tab')
  BY <1>3, <1>4, EmptyDraft DEF Clean, Collects, CreateContext, Drafting, LiveSpeaking, Reviewed
<1> QED
  BY <1>3, <1>6, <1>7

LEMMA RetryOrder ==
  ASSUME Steady(tab), InOrder(tab), Clean(tab), RetryRefine
  PROVE  InOrder(tab') /\ Clean(tab') /\ tab'.overlapped = tab.overlapped
<1> DEFINE g == [Flow("retry", "refine", tab.audioBlob) EXCEPT !.live = FrozenOr(tab.ctx)]
           d == Dispatch(tab, Event("REFINING"))
           n == Dispatch(tab, Event("REFINE_FAILED"))
<1>1. /\ tab.ctx.state = "refinement_failed" /\ tab.outcome = "asking"
      /\ tab' = IF tab.audioBlob = 0 THEN n ELSE Begins(d, g)
  BY Zenon DEF RetryRefine, Shown
<1>2. /\ tab.mics = {} /\ tab.peers = {} /\ tab.flows = {}
      /\ NoRepeat(tab.ctx.final) /\ NoRepeat(tab.ctx.frozen) /\ NoRepeat(tab.answer)
  BY <1>1 DEF InOrder, StateOf, Reviewed, Clean, Collects
<1>3. tab.ctx \in Contexts /\ tab.ctx.final \in Texts /\ tab.ctx.frozen \in Texts
  BY CleanTexts
<1>4. Event("REFINING") \in Events /\ Event("REFINE_FAILED") \in Events
  BY EventsAre
<1>5. g \in Flows /\ g.kind = "retry" /\ g.at = "refine"
  <2>1. tab.audioBlob \in 0..MaxTakes /\ FrozenOr(tab.ctx) \in Texts
    BY <1>3, TabFields DEF Steady, FrozenOr
  <2> QED
    BY <2>1, TextEmpty, FlowTyped DEF Flow
<1> HIDE DEF g
<1>6. /\ Steady(d) /\ d.ctx = Reduce(tab.ctx, Event("REFINING")) /\ d.answer = Boxed(d.ctx, tab)
      /\ SameHands(d, tab) /\ SameMedia(d, tab) /\ SamePeers(d, tab) /\ d.flows = tab.flows
  BY <1>4, Dispatches, Zenon
<1>7. /\ Steady(n) /\ n.ctx = Reduce(tab.ctx, Event("REFINE_FAILED"))
      /\ n.answer = Boxed(n.ctx, tab)
      /\ SameHands(n, tab) /\ SameMedia(n, tab) /\ SamePeers(n, tab) /\ n.flows = tab.flows
  BY <1>4, Dispatches, Zenon
<1> HIDE DEF d, n
<1>8. CASE tab' = n
  <2>1. /\ n.ctx.state = tab.ctx.state /\ n.ctx.final = tab.ctx.final
        /\ n.ctx.frozen = tab.ctx.frozen
    BY <1>1, <1>3, <1>7, Moves
  <2>2. NoRepeat(n.answer)
    BY <1>2, <1>7, <2>1, BoxedTexts
  <2>3. InOrder(tab')
    BY <1>7, <1>8, <2>1, OrderKept DEF SameOrder, SameHands
  <2>4. Clean(tab')
    BY <1>1, <1>2, <1>7, <1>8, <2>1, <2>2 DEF Clean, Collects, Drafting, LiveSpeaking, Reviewed
  <2> QED
    BY <1>7, <1>8, <2>3, <2>4 DEF SameHands
<1>9. CASE tab' = Begins(d, g)
  <2>1. SameTexts(d.ctx, tab.ctx) /\ d.ctx.state = "refining"
    BY <1>1, <1>3, <1>6, Moves
  <2>2. /\ SameHands(tab', d) /\ SameMedia(tab', d) /\ SamePeers(tab', d)
        /\ SameText(tab', d) /\ tab'.flows = d.flows \cup {g}
    BY <1>5, <1>6, <1>9, Awaited
  <2>3. NoRepeat(d.answer)
    BY <1>2, <1>6, <2>1, BoxedTexts DEF SameTexts
  <2>4. /\ tab'.flows = {g} /\ tab'.mics = {} /\ tab'.peers = {} /\ tab'.outcome = "asking"
        /\ tab'.ctx.state = "refining" /\ NoRepeat(tab'.answer)
        /\ NoRepeat(tab'.ctx.final) /\ NoRepeat(tab'.ctx.frozen)
    BY <1>1, <1>2, <1>6, <2>1, <2>2, <2>3
       DEF SameHands, SameMedia, SamePeers, SameText, SameTexts
  <2>5. InOrder(tab')
    BY <1>5, <2>4 DEF InOrder, OneCall, StateOf, OpeningIs, ClosingIs, OpenIs, Opens,
                      LiveSpeaking, Reviewed
  <2>6. Clean(tab')
    BY <1>5, <2>4 DEF Clean, Collects, Drafting, LiveSpeaking, Reviewed
  <2> QED
    BY <1>6, <2>2, <2>5, <2>6 DEF SameHands
<1> QED
  BY <1>1, <1>8, <1>9

\* Finishing: nothing was awaited, and what the segments say so far is set down.
LEMMA FinishOrder ==
  ASSUME Steady(tab), InOrder(tab), Clean(tab), tab.ctx.state \in LiveSpeaking,
         NEW t, Steady(t), SameOrder(t, tab), SameText(t, tab), t.store = tab.store,
         t.overlapped = tab.overlapped, tab' = Finish(t)
  PROVE  InOrder(tab') /\ Clean(tab') /\ tab'.overlapped = tab.overlapped
<1> DEFINE before == DisplayAnswerText(t.store)
           d == Dispatch(t, Event("FINISH"))
           g == [Flow("finish", "collect", t.take) EXCEPT !.live = before]
<1>1. /\ tab.flows = {} /\ NoRepeat(tab.answer) /\ tab.outcome = "asking"
      /\ tab.ctx.partial = DisplayAnswerText(tab.store)
      /\ NoRepeat(tab.ctx.final) /\ NoRepeat(tab.ctx.frozen)
  BY DEF InOrder, StateOf, Clean, Collects, Drafting
<1>2. /\ t.ctx \in Contexts /\ t.ctx.final \in Texts
      /\ before \in Texts /\ NoRepeat(before) /\ t.take \in 0..MaxTakes
  BY CleanTexts, TabFields DEF Steady
<1>3. t.ctx.partial = before /\ t.ctx.state \in LiveSpeaking
  BY <1>1 DEF SameText
<1>4. /\ Steady(d) /\ d.ctx = Reduce(t.ctx, Event("FINISH")) /\ d.answer = Boxed(d.ctx, t)
      /\ SameHands(d, t) /\ SameMedia(d, t) /\ SamePeers(d, t) /\ d.flows = t.flows
  <2>1. Event("FINISH") \in Events
    BY EventsAre
  <2> QED
    BY <2>1, Dispatches, Zenon
<1>5. tab' = Begins(IF before # <<>> /\ d.ctx.frozen = <<>>
                    THEN OnContext([d EXCEPT !.ctx.frozen = before, !.ctx.final = before])
                    ELSE d, g)
  BY Zenon DEF Finish
<1>6. g \in Flows /\ g.kind = "finish" /\ g.at = "collect" /\ g.live = before
  <2> HIDE DEF before
  <2> QED
    BY <1>2, TextEmpty, FlowTyped DEF Flow
<1> HIDE DEF before, d, g
<1>7. /\ d.ctx.state = "finishing" /\ d.ctx.frozen = t.ctx.final \o before
      /\ d.ctx.final = t.ctx.final \o before
  <2>1. Reduce(t.ctx, Event("FINISH")) =
          [t.ctx EXCEPT !.partial = <<>>, !.frozen = t.ctx.final \o t.ctx.partial,
                        !.final = t.ctx.final \o t.ctx.partial, !.state = "finishing"]
    BY <1>2, <1>3, TextEmpty, Reduces
  <2> DEFINE joined == t.ctx.final \o t.ctx.partial
             none == <<>>
  <2>2. d.ctx = [t.ctx EXCEPT !.partial = none, !.frozen = joined, !.final = joined,
                              !.state = "finishing"]
    BY <1>4, <2>1
  <2> HIDE DEF joined, none
  <2>3. d.ctx.state = "finishing" /\ d.ctx.frozen = joined /\ d.ctx.final = joined
    BY <1>2, <2>2 DEF Contexts
  <2> QED
    BY <1>3, <2>3 DEF joined
<1>8. before # <<>> => d.ctx.frozen # <<>>
  <2>1. t.ctx.final \in Seq(Words) /\ before \in Seq(Words)
    BY <1>2 DEF Texts
  <2>2. Len(t.ctx.final \o before) = Len(t.ctx.final) + Len(before)
    BY <2>1
  <2>3. before # <<>> => Len(before) > 0
    BY <2>1
  <2>4. Len(t.ctx.final) \in Nat /\ Len(before) \in Nat
    BY <2>1
  <2> QED
    BY <1>7, <2>2, <2>3, <2>4
<1>9. /\ SameHands(tab', d) /\ SameMedia(tab', d) /\ SamePeers(tab', d)
      /\ SameText(tab', d) /\ tab'.flows = d.flows \cup {g}
  <2>1. tab' = Begins(d, g)
    BY <1>5, <1>8
  <2> QED
    BY <1>4, <1>6, <2>1, Awaited
<1>10. /\ tab'.flows = {g} /\ tab'.ctx = d.ctx /\ tab'.answer = d.answer
       /\ tab'.outcome = "asking" /\ tab'.overlapped = tab.overlapped
       /\ SameMedia(tab', tab) /\ SamePeers(tab', tab)
  BY <1>1, <1>4, <1>9 DEF SameOrder, SameHands, SameMedia, SamePeers, SameText
<1>11. InOrder(tab')
  BY <1>6, <1>7, <1>10 DEF InOrder, OneCall, StateOf, OpeningIs, ClosingIs, OpenIs, Opens,
                      LiveSpeaking, Reviewed, SameMedia, SamePeers
\* Had nothing been said, the text is the one before.
<1>12. before = <<>> => NoRepeat(d.answer) /\ NoRepeat(d.ctx.final) /\ NoRepeat(d.ctx.frozen)
  <2>1. ASSUME before = <<>>
        PROVE  d.ctx.final = t.ctx.final /\ d.ctx.frozen = t.ctx.final
    <3>1. t.ctx.final \in Seq(Words)
      BY <1>2 DEF Texts
    <3>2. t.ctx.final \o <<>> = t.ctx.final
      BY <3>1
    <3> QED
      BY <1>7, <2>1, <3>2
  <2>2. t.ctx.final = tab.ctx.final /\ t.answer = tab.answer
    BY DEF SameText
  <2> QED
    BY <1>1, <1>4, <2>1, <2>2, BoxedTexts
<1>13. Clean(tab')
  BY <1>2, <1>6, <1>7, <1>10, <1>12 DEF Clean, Collects, Drafting, LiveSpeaking, Reviewed
<1> QED
  BY <1>10, <1>11, <1>13

LEMMA FinishesOrder ==
  ASSUME Steady(tab), InOrder(tab), Clean(tab), HostFinishes \/ TimeUp
  PROVE  InOrder(tab') /\ Clean(tab') /\ tab'.overlapped = tab.overlapped
<1>1. CASE HostFinishes
  <2> DEFINE t == [tab EXCEPT !.editing = FALSE]
  <2>1. /\ tab \in Tabs /\ tab.ctx.state \in LiveSpeaking /\ tab' = Finish(t)
    BY <1>1, Zenon DEF HostFinishes, Steady
  <2>2. /\ t \in Tabs /\ SameOrder(t, tab) /\ SameText(t, tab) /\ t.store = tab.store
        /\ t.overlapped = tab.overlapped
    BY <2>1 DEF Tabs, SameOrder, SameMedia, SamePeers, SameText
  <2>3. Steady(t)
    BY <2>2, SteadySame, Zenon DEF SameText
  <2> HIDE DEF t
  <2> QED
    BY <2>1, <2>2, <2>3, FinishOrder
<1>2. CASE TimeUp
  <2>1. /\ tab.ctx.state \in LiveSpeaking /\ tab' = Finish(tab)
    BY <1>2 DEF TimeUp, LiveSpeaking
  <2>2. SameOrder(tab, tab) /\ SameText(tab, tab)
    BY DEF SameOrder, SameMedia, SamePeers, SameText
  <2> QED
    BY <2>1, <2>2, FinishOrder
<1> QED
  BY <1>1, <1>2

\* Recovering from a loss: after too many attempts, typing; else a new connection for
\* the recording there is.
LEMMA RecoverSets ==
  ASSUME NEW t, Steady(t), NEW type \in Losses, t.ctx.state \in LiveSpeaking \cup {"connecting"},
         t.stream # 0, \A p \in t.peers : p.id = t.peer,
         NEW u, u = Recover(Dispatch(t, Event(type)))
  PROVE  /\ Steady(u) /\ SameHands(u, t) /\ SameMedia(u, t) /\ SameTexts(u.ctx, t.ctx)
         /\ u.peers = {}
         /\ \/ u.ctx.state = "fallback_text" /\ u.flows = t.flows
            \/ /\ u.ctx.state = "connecting" /\ (t.editing => u.answer = t.answer)
               /\ u.flows = t.flows \cup {Flow("recover", "session", t.stream)}
<1> DEFINE v == Dispatch(t, Event(type))
<1>1. t \in Tabs /\ t.ctx \in Contexts /\ Bounded(t.ctx)
  BY TabFields DEF Steady
<1>2. Reduce(t.ctx, Event(type)) \in Contexts /\ Tried(Reduce(t.ctx, Event(type)), Capturing)
  BY <1>1, LossTyped
<1>3. /\ v \in Tabs /\ v.ctx = Reduce(t.ctx, Event(type)) /\ v.answer = Boxed(v.ctx, t)
      /\ SameHands(v, t) /\ SameMedia(v, t) /\ SamePeers(v, t) /\ v.flows = t.flows
  BY <1>1, <1>2, DispatchesIn, Zenon
<1>4. Steady(u)
  BY SteadyRecovers
<1>5. u = Recover(v)
  OBVIOUS
<1> HIDE DEF v
<1>6. SameTexts(v.ctx, t.ctx) /\ v.ctx.state = "reconnecting" /\ v.ctx \in Contexts
  BY <1>1, <1>2, <1>3, Moves
<1>7. /\ v.stream = t.stream /\ v.stream # 0 /\ v.peers = t.peers /\ v.peer = t.peer
      /\ v.editing = t.editing
  BY <1>3, Zenon DEF SameHands, SameMedia, SamePeers
<1>8. v.editing => v.answer = t.answer
  BY <1>3, <1>6, <1>7, BoxedTexts
<1>9. {p \in v.peers : p.id # v.peer} = {}
  BY <1>7
<1>10. CASE v.ctx.attempts > 2
  <2> DEFINE w == Dispatch(v, Event("RECONNECT_FAILED"))
             d == Reduce(v.ctx, Event("RECONNECT_FAILED"))
  <2>1. u = TeardownPeerOnly(w)
    BY <1>5, <1>6, <1>10 DEF Recover
  <2>2. d = [v.ctx EXCEPT !.state = "fallback_text"]
    BY <1>6, TextEmpty, Reduces
  <2>3. d \in Contexts /\ SameTexts(d, v.ctx) /\ d.state = "fallback_text"
    <3>1. "fallback_text" \in States
      BY DEF States
    <3> QED
      BY <1>6, <2>2, <3>1 DEF Contexts, SameTexts
  <2>4. /\ w \in Tabs /\ w.ctx = d
        /\ SameHands(w, v) /\ SameMedia(w, v) /\ SamePeers(w, v) /\ w.flows = v.flows
    BY <1>3, <2>3, DispatchesIn, Zenon
  <2> HIDE DEF w, d
  <2>5. {p \in w.peers : p.id # w.peer} = {}
    BY <1>9, <2>4 DEF SamePeers
  <2>6. /\ SameHands(u, w) /\ SameMedia(u, w) /\ u.ctx = w.ctx /\ u.peers = {}
        /\ u.flows = w.flows
    <3> DEFINE none == {p \in w.peers : p.id # w.peer}
    <3>1. u = [w EXCEPT !.peers = none, !.peer = 0]
      BY <2>1, Zenon DEF TeardownPeerOnly
    <3> HIDE DEF none
    <3>2. /\ SameHands(u, w) /\ SameMedia(u, w) /\ u.ctx = w.ctx /\ u.peers = none
          /\ u.flows = w.flows
      BY <2>4, <3>1 DEF Tabs, SameHands, SameMedia
    <3> QED
      BY <2>5, <3>2 DEF none
  <2> QED
    BY <1>3, <1>4, <1>6, <2>3, <2>4, <2>6, Zenon DEF SameHands, SameMedia, SameTexts
<1>11. CASE ~(v.ctx.attempts > 2)
  <2> DEFINE m == TeardownPeerOnly(v)
             w == Dispatch(m, Event("PERMISSION_GRANTED"))
             g == Flow("recover", "session", v.stream)
  <2>1. u = Begins(w, g)
    BY <1>5, <1>6, <1>7, <1>11 DEF Recover
  <2>2. Steady(v)
    <3>1. v.ctx.attempts \in 0..3
      BY <1>6 DEF Contexts
    <3>2. Bounded(v.ctx)
      BY <1>2, <1>3, <1>11, <3>1 DEF Bounded, Tried
    <3>3. Named(v.store)
      BY <1>3, Zenon DEF SameHands, Steady
    <3> QED
      BY <1>3, <3>2, <3>3 DEF Steady
  <2>3. /\ Steady(m) /\ SameHands(m, v) /\ SameMedia(m, v) /\ SameText(m, v)
        /\ m.flows = v.flows /\ m.peers = {}
    BY <1>9, <2>2, Closes
  <2> HIDE DEF m
  <2>4. /\ Steady(w) /\ w.ctx = Reduce(m.ctx, Event("PERMISSION_GRANTED"))
        /\ w.answer = Boxed(w.ctx, m)
        /\ SameHands(w, m) /\ SameMedia(w, m) /\ SamePeers(w, m) /\ w.flows = m.flows
    <3>1. Event("PERMISSION_GRANTED") \in Events
      BY EventsAre
    <3> QED
      BY <2>3, <3>1, Dispatches, Zenon
  <2> HIDE DEF w
  <2>5. SameTexts(w.ctx, v.ctx) /\ w.ctx.state = "connecting"
    <3>1. m.ctx = v.ctx
      BY <2>3, Zenon DEF SameText
    <3> QED
      BY <1>6, <2>4, <3>1, Moves
  <2>6. w.answer = v.answer
    <3>1. w.answer = m.answer
      BY <2>3, <2>4, <2>5, BoxedTexts DEF LiveSpeaking, Reviewed
    <3> QED
      BY <2>3, <3>1, Zenon DEF SameText
  <2>7. g \in Flows
    BY <1>3, TabFields, TextEmpty, FlowTyped
  <2> HIDE DEF g
  <2>8. /\ SameHands(u, w) /\ SameMedia(u, w) /\ SamePeers(u, w)
        /\ SameText(u, w) /\ u.flows = w.flows \cup {g}
    BY <2>1, <2>4, <2>7, Awaited
  <2>9. /\ SameHands(u, t) /\ SameMedia(u, t) /\ u.peers = {}
    BY <1>3, <2>3, <2>4, <2>8, Zenon DEF SameHands, SameMedia, SamePeers
  <2>10. /\ u.ctx.state = "connecting" /\ SameTexts(u.ctx, t.ctx)
         /\ (t.editing => u.answer = t.answer)
    BY <1>6, <1>7, <1>8, <2>5, <2>6, <2>8, Zenon DEF SameText, SameTexts
  <2>11. u.flows = t.flows \cup {Flow("recover", "session", t.stream)}
    BY <1>3, <1>7, <2>3, <2>4, <2>8, Zenon DEF g
  <2> QED
    BY <1>4, <2>9, <2>10, <2>11
<1> QED
  BY <1>10, <1>11

\* While a connection is up, all that may be awaited is a recording being finished.
LEMMA UpPeer ==
  ASSUME NEW t, InOrder(t), NEW p \in t.peers, p.up
  PROVE  /\ \A f \in t.flows : f.kind = "finish" /\ ~Opens(f)
         /\ t.ctx.state \notin {"requesting_permission", "connecting"} \cup Reviewed
<1>1. \A f \in t.flows : ~Opens(f)
  BY DEF InOrder, OpeningIs
<1>2. \A f \in t.flows : f.kind = "finish"
  BY <1>1 DEF InOrder, ClosingIs
<1>3. t.ctx.state \notin {"requesting_permission", "connecting"}
  BY <1>1 DEF InOrder, StateOf
<1>4. t.ctx.state \notin Reviewed
  BY DEF InOrder, StateOf
<1> QED
  BY <1>1, <1>2, <1>3, <1>4

\* The capture has come to rest, or goes on being finished, and its texts stay.
LEMMA RestOrder ==
  ASSUME NEW t, InOrder(t), Clean(t), NEW u, u.flows = t.flows,
         u.outcome = t.outcome, u.editing = t.editing, u.take = t.take,
         SameTexts(u.ctx, t.ctx), OpenIs(u),
         \A f \in t.flows : f.kind = "finish" /\ ~Opens(f),
         \/ u.ctx.state \in {"error", "fallback_text"}
         \/ u.ctx.state = t.ctx.state /\ u.ctx.state \notin Drafting \cup Reviewed,
         \/ \E f \in t.flows : f.at = "collect" /\ f.live # <<>>
         \/ NoRepeat(t.answer) => NoRepeat(u.answer)
  PROVE  InOrder(u) /\ Clean(u)
<1>1. InOrder(u)
  BY DEF InOrder, OneCall, StateOf, OpeningIs, ClosingIs, Drafting, LiveSpeaking, Reviewed
<1>2. ASSUME \E f \in t.flows : f.at = "collect" /\ f.live # <<>>
      PROVE  Clean(u)
  BY <1>2 DEF Clean, Collects, InOrder, OneCall, Drafting, LiveSpeaking, SameTexts, Reviewed
<1>3. ASSUME NoRepeat(t.answer) => NoRepeat(u.answer)
      PROVE  Clean(u)
  BY <1>3 DEF Clean, Collects, Drafting, LiveSpeaking, SameTexts, Reviewed
<1> QED
  BY <1>1, <1>2, <1>3

LEMMA DisconnectOrder ==
  ASSUME Steady(tab), InOrder(tab), Clean(tab), NEW p \in tab.peers, Disconnected(p)
  PROVE  InOrder(tab') /\ Clean(tab') /\ tab'.overlapped = tab.overlapped
<1> DEFINE rest == tab.peers \ {p}
           gone == [tab EXCEPT !.peers = rest]
           kept == {"finishing", "refining", "ready_to_edit"}
           t == Dispatch(gone, Event("DISCONNECT"))
<1>1. /\ p.up /\ tab \in Tabs
      /\ tab' = IF tab.ctx.state \in kept THEN gone ELSE Recover(t)
  BY Zenon DEF Disconnected, Steady
<1>2. /\ \A f \in tab.flows : f.kind = "finish" /\ ~Opens(f)
      /\ tab.ctx.state \notin {"requesting_permission", "connecting"} \cup Reviewed
  BY <1>1, UpPeer
<1>3. rest \subseteq tab.peers /\ rest \in SUBSET Peers
  BY <1>1, TabFields
<1> HIDE DEF rest
<1>4. /\ gone \in Tabs /\ SameHands(gone, tab) /\ SameMedia(gone, tab) /\ SameText(gone, tab)
      /\ gone.flows = tab.flows /\ gone.peers = rest /\ gone.peer = tab.peer
  BY <1>1, <1>3 DEF Tabs, SameHands, SameMedia, SameText
<1>5. Steady(gone) /\ gone.ctx = tab.ctx /\ gone.answer = tab.answer
  <2>1. gone.store = tab.store /\ gone.ctx = tab.ctx /\ gone.answer = tab.answer
    BY <1>4, Zenon DEF SameHands, SameText
  <2> QED
    BY <1>4, <2>1, SteadySame, Zenon
<1>6. OpenIs(gone)
  BY <1>3, <1>4 DEF InOrder, OpenIs, SameMedia
<1>7. /\ gone.outcome = tab.outcome /\ gone.editing = tab.editing /\ gone.take = tab.take
      /\ gone.overlapped = tab.overlapped /\ SameTexts(gone.ctx, tab.ctx)
  BY <1>4, <1>5, Zenon DEF SameHands, SameTexts
<1> HIDE DEF gone
<1>8. CASE tab.ctx.state \in kept
  <2>1. tab' = gone /\ tab.ctx.state \notin Drafting
    BY <1>1, <1>8 DEF Drafting, LiveSpeaking
  <2> QED
    BY <1>2, <1>4, <1>5, <1>6, <1>7, <2>1, RestOrder
<1>9. CASE tab.ctx.state \in LiveSpeaking
  <2>1. /\ tab.flows = {} /\ tab.stream = tab.take /\ tab.stream # 0
        /\ Stream(tab.stream) \in tab.mics /\ tab.outcome = "asking" /\ NoRepeat(tab.answer)
        /\ tab.ctx.partial = DisplayAnswerText(tab.store)
        /\ NoRepeat(tab.ctx.final) /\ NoRepeat(tab.ctx.frozen)
        /\ \A q \in tab.peers : q.id = tab.peer
        /\ tab.mics \subseteq {Stream(tab.stream), Clone(tab.recorder)}
    BY <1>9 DEF InOrder, StateOf, OpenIs, Clean, Collects, Drafting
  <2>2. tab' = Recover(t)
    BY <1>1, <1>9 DEF LiveSpeaking
  <2>3. gone.stream # 0 /\ \A q \in gone.peers : q.id = gone.peer
    BY <1>3, <1>4, <2>1 DEF SameMedia
  <2>4. /\ SameHands(tab', gone) /\ SameMedia(tab', gone) /\ SameTexts(tab'.ctx, gone.ctx)
        /\ tab'.peers = {}
        /\ \/ tab'.ctx.state = "fallback_text" /\ tab'.flows = gone.flows
           \/ /\ tab'.ctx.state = "connecting" /\ (gone.editing => tab'.answer = gone.answer)
              /\ tab'.flows = gone.flows \cup {Flow("recover", "session", gone.stream)}
    BY <1>5, <1>9, <2>2, <2>3, RecoverSets DEF Losses
  <2>5. /\ tab'.outcome = "asking" /\ tab'.editing = tab.editing /\ tab'.take = tab.take
        /\ tab'.store = tab.store /\ tab'.overlapped = tab.overlapped
        /\ tab'.stream = tab.stream /\ tab'.mics = tab.mics /\ tab'.recorder = tab.recorder
        /\ SameTexts(tab'.ctx, tab.ctx) /\ gone.flows = {} /\ gone.stream = tab.stream
    BY <1>4, <1>5, <2>1, <2>4 DEF SameHands, SameMedia
  <2>6. CASE tab'.ctx.state = "fallback_text" /\ tab'.flows = {}
    <3>1. InOrder(tab')
      BY <2>1, <2>4, <2>5, <2>6 DEF InOrder, OneCall, StateOf, OpeningIs, ClosingIs, OpenIs,
                                    LiveSpeaking, Reviewed
    <3>2. Clean(tab')
      BY <2>1, <2>5, <2>6 DEF Clean, Collects, Drafting, LiveSpeaking, Reviewed, SameTexts
    <3> QED
      BY <2>5, <3>1, <3>2
  <2>7. CASE /\ tab'.ctx.state = "connecting" /\ (tab.editing => tab'.answer = tab.answer)
             /\ tab'.flows = {Flow("recover", "session", tab.stream)}
    <3> DEFINE g == Flow("recover", "session", tab.stream)
    <3>1. /\ tab'.flows = {g} /\ g.kind = "recover" /\ g.at = "session" /\ g.take = tab.stream
      BY <2>7 DEF Flow
    <3> HIDE DEF g
    <3>2. InOrder(tab')
      BY <2>1, <2>4, <2>5, <2>7, <3>1
         DEF InOrder, OneCall, StateOf, OpeningIs, ClosingIs, OpenIs, Opens, LiveSpeaking, Reviewed
    <3>3. Clean(tab')
      BY <2>1, <2>5, <2>7, <3>1 DEF Clean, Collects, Drafting, LiveSpeaking, Reviewed, SameTexts
    <3> QED
      BY <2>5, <3>2, <3>3
  <2> QED
    BY <1>5, <1>7, <2>4, <2>5, <2>6, <2>7
<1>10. CASE tab.ctx.state \notin kept \cup LiveSpeaking
  <2> DEFINE c == Reduce(tab.ctx, Event("DISCONNECT"))
  <2>1. tab.ctx \in Contexts /\ Bounded(tab.ctx)
    BY TabFields DEF Steady
  <2>2. c = tab.ctx
    <3>1. c = IF tab.ctx.state \in LiveSpeaking \cup {"connecting"}
              THEN [tab.ctx EXCEPT !.attempts = tab.ctx.attempts + 1, !.state = "reconnecting"]
              ELSE tab.ctx
      BY <2>1, TextEmpty, Reduces
    <3> HIDE DEF c
    <3> QED
      BY <1>2, <1>10, <3>1
  <2>3. /\ t \in Tabs /\ t.ctx = tab.ctx /\ t.answer = Boxed(t.ctx, gone)
        /\ SameHands(t, gone) /\ SameMedia(t, gone) /\ SamePeers(t, gone) /\ t.flows = gone.flows
    BY <1>4, <1>5, <2>1, <2>2, DispatchesIn
  <2>4. tab.ctx.state \notin {"reconnecting"} \cup Drafting
    BY <1>2, <1>10 DEF InOrder, StateOf, Drafting
  <2>5. tab' = t
    BY <1>1, <1>10, <2>3, <2>4 DEF Recover
  <2> HIDE DEF t
  <2>6. NoRepeat(tab.answer) => NoRepeat(t.answer)
    BY <1>2, <1>5, <1>10, <2>3, <2>4, BoxedTexts DEF Drafting
  <2>7. OpenIs(t)
    BY <1>6, <2>3 DEF OpenIs, SameMedia, SamePeers
  <2>8. /\ t.outcome = tab.outcome /\ t.editing = tab.editing /\ t.take = tab.take
        /\ t.overlapped = tab.overlapped /\ SameTexts(t.ctx, tab.ctx) /\ t.flows = tab.flows
    BY <1>4, <1>7, <2>3, Zenon DEF SameHands, SameTexts
  <2> QED
    BY <1>2, <2>3, <2>4, <2>5, <2>6, <2>7, <2>8, RestOrder
<1> QED
  BY <1>8, <1>9, <1>10

LEMMA ErrorOrder ==
  ASSUME Steady(tab), InOrder(tab), Clean(tab), NEW p \in tab.peers, ProviderError(p)
  PROVE  InOrder(tab') /\ Clean(tab') /\ tab'.overlapped = tab.overlapped
<1> DEFINE said == DisplayAnswerText(tab.store)
           d == Dispatch(Heard, Event("ERROR"))
           b == Breaks(Heard)
           m == TeardownMedia(b)
<1>1. p.up /\ tab.messages < MaxMessages /\ tab' = IF said # <<>> THEN d ELSE m
  BY Zenon DEF ProviderError, Sends
<1>2. \A f \in tab.flows : f.kind = "finish" /\ ~Opens(f)
  BY <1>1, UpPeer
<1>3. /\ Heard \in Tabs /\ SameHands(Heard, tab) /\ SameMedia(Heard, tab)
      /\ SamePeers(Heard, tab) /\ SameText(Heard, tab) /\ Heard.flows = tab.flows
  <2> DEFINE more == tab.messages + 1
  <2>1. tab \in Tabs /\ tab.messages \in 0..MaxMessages
    BY TabFields DEF Steady
  <2>2. more \in 0..MaxMessages
    BY <1>1, <2>1, Bounds
  <2>3. Heard = [tab EXCEPT !.messages = more]
    BY Zenon DEF Heard
  <2> HIDE DEF more
  <2> QED
    BY <2>1, <2>2, <2>3 DEF Tabs, SameHands, SameMedia, SamePeers, SameText
<1>4. Steady(Heard) /\ Heard.ctx = tab.ctx /\ Heard.answer = tab.answer /\ Heard.store = tab.store
  <2>1. Heard.ctx = tab.ctx /\ Heard.answer = tab.answer /\ Heard.store = tab.store
    BY <1>3, Zenon DEF SameText, SameHands
  <2> QED
    BY <1>3, <2>1, SteadySame, Zenon
<1>5. tab.ctx \in Contexts
  BY CleanTexts
<1>6. CASE said # <<>>
  <2>1. Event("ERROR") \in Events
    BY EventsAre
  <2>2. /\ d.ctx = Reduce(Heard.ctx, Event("ERROR")) /\ d.answer = Boxed(d.ctx, Heard)
        /\ SameHands(d, Heard) /\ SameMedia(d, Heard) /\ SamePeers(d, Heard)
        /\ d.flows = Heard.flows
    BY <1>4, <2>1, Dispatches, Zenon
  <2>3. tab' = d
    BY <1>1, <1>6
  <2> HIDE DEF d, said
  <2>4. SameTexts(d.ctx, tab.ctx) /\ d.ctx.state = "error"
    BY <1>4, <1>5, <2>2, Moves
  <2>5. d.answer = tab.answer
    BY <1>4, <2>2, <2>4, BoxedTexts DEF LiveSpeaking, Reviewed
  <2>6. /\ d.outcome = tab.outcome /\ d.editing = tab.editing /\ d.take = tab.take
        /\ d.overlapped = tab.overlapped /\ d.flows = tab.flows
        /\ SameMedia(d, tab) /\ SamePeers(d, tab)
    BY <1>3, <2>2, Zenon DEF SameHands, SameMedia, SamePeers
  <2>7. OpenIs(d)
    BY <2>6 DEF InOrder, OpenIs, SameMedia, SamePeers
  <2> QED
    BY <1>2, <2>3, <2>4, <2>5, <2>6, <2>7, RestOrder
<1>7. CASE said = <<>>
  <2>1. tab' = m
    BY <1>1, <1>7
  <2> DEFINE e == Dispatch(Heard, Event("ERROR"))
  <2>2. Event("ERROR") \in Events /\ Event("FALLBACK_TEXT") \in Events
    BY EventsAre
  <2>3. /\ Steady(e) /\ e.ctx = Reduce(Heard.ctx, Event("ERROR")) /\ e.answer = Boxed(e.ctx, Heard)
        /\ SameHands(e, Heard) /\ SameMedia(e, Heard) /\ SamePeers(e, Heard)
        /\ e.flows = Heard.flows
    BY <1>4, <2>2, Dispatches, Zenon
  <2>4. b = Dispatch(e, Event("FALLBACK_TEXT"))
    BY Zenon DEF Breaks
  <2> HIDE DEF e, b
  <2>5. SameTexts(e.ctx, tab.ctx) /\ e.ctx.state = "error" /\ e.ctx \in Contexts
    <3>1. e.ctx \in Contexts
      BY <2>3, CleanTexts
    <3> QED
      BY <1>4, <1>5, <2>3, <3>1, Moves
  <2>6. e.answer = tab.answer
    BY <1>4, <2>3, <2>5, BoxedTexts DEF LiveSpeaking, Reviewed
  <2>7. /\ Steady(b) /\ b.ctx = Reduce(e.ctx, Event("FALLBACK_TEXT")) /\ b.answer = Boxed(b.ctx, e)
        /\ SameHands(b, e) /\ SameMedia(b, e) /\ SamePeers(b, e) /\ b.flows = e.flows
    BY <2>2, <2>3, <2>4, Dispatches, Zenon
  <2>8. SameTexts(b.ctx, tab.ctx) /\ b.ctx.state = "fallback_text"
    <3>1. SameTexts(b.ctx, e.ctx) /\ b.ctx.state = "fallback_text"
      BY <2>5, <2>7, Moves
    <3> QED
      BY <2>5, <3>1 DEF SameTexts
  <2>9. NoRepeat(tab.answer) => NoRepeat(b.answer)
    BY <2>3, <2>6, <2>7, <2>8, BoxedTexts
  <2>10. /\ Steady(m) /\ SameHands(m, b) /\ SameText(m, b)
         /\ m.flows = b.flows /\ m.peer = 0 /\ m.stream = 0 /\ m.recorder = 0
         /\ m.peers = {q \in b.peers : q.id # b.peer}
         /\ m.mics = b.mics \ {Stream(b.stream), Clone(b.recorder)}
    BY <2>7, Closes
  <2> HIDE DEF m
  <2>11. /\ m.outcome = tab.outcome /\ m.editing = tab.editing /\ m.take = tab.take
         /\ m.overlapped = tab.overlapped /\ m.flows = tab.flows
         /\ m.ctx = b.ctx /\ m.answer = b.answer
    BY <1>3, <2>3, <2>7, <2>10, Zenon DEF SameHands, SameText
  <2>12. m.peers = {} /\ m.mics = {}
    <3>1. /\ b.peers = tab.peers /\ b.peer = tab.peer /\ b.mics = tab.mics
          /\ b.stream = tab.stream /\ b.recorder = tab.recorder
      BY <1>3, <2>3, <2>7, Zenon DEF SameMedia, SamePeers
    <3> QED
      BY <2>10, <3>1 DEF InOrder, OpenIs
  <2>13. OpenIs(m)
    BY <2>12 DEF OpenIs
  <2> QED
    BY <1>2, <2>1, <2>8, <2>9, <2>11, <2>13, RestOrder
<1> QED
  BY <1>6, <1>7

\* What the provider sends is shown, or kept for the text that is being finished.
LEMMA EmitsOrder ==
  ASSUME Steady(tab), InOrder(tab), Clean(tab), NEW p \in tab.peers, Sends(p),
         NEW store \in Seq(Items), Named(store), NEW type \in {"PARTIAL", "FINAL_SEGMENT"},
         Emits(store, type)
  PROVE  InOrder(tab') /\ Clean(tab') /\ tab'.overlapped = tab.overlapped
<1> DEFINE said == DisplayAnswerText(store)
           more == tab.messages + 1
           a == [Heard EXCEPT !.store = store]
           e == Says(type, said)
<1>1. /\ tab' = Dispatch(a, e) /\ p.up /\ tab.messages < MaxMessages
      /\ a = [tab EXCEPT !.messages = more, !.store = store]
  BY DEF Emits, Heard, Sends
<1>2. tab \in Tabs /\ more \in 0..MaxMessages
  <2>1. tab \in Tabs /\ tab.messages \in 0..MaxMessages
    BY TabFields DEF Steady
  <2> HIDE DEF a, e
  <2> QED
    BY <1>1, <2>1, Bounds
<1>3. /\ \A f \in tab.flows : f.kind = "finish" /\ ~Opens(f)
      /\ tab.ctx.state \notin {"requesting_permission", "connecting"} \cup Reviewed
  BY <1>1, UpPeer
<1> HIDE DEF more, a
<1>4. /\ a \in Tabs /\ a.store = store /\ a.ctx = tab.ctx /\ a.answer = tab.answer
      /\ a.outcome = tab.outcome /\ a.editing = tab.editing /\ a.take = tab.take
      /\ a.overlapped = tab.overlapped /\ SameMedia(a, tab) /\ SamePeers(a, tab)
      /\ a.flows = tab.flows
  BY <1>1, <1>2 DEF Tabs, SameMedia, SamePeers
<1>5. Steady(a)
  BY <1>4 DEF Steady
<1>6. said \in Texts /\ NoRepeat(said) /\ e \in Events
  <2>1. said \in Texts /\ NoRepeat(said)
    BY DisplayShows
  <2> QED
    BY <2>1, EventsAre
<1> HIDE DEF said, e
<1>7. /\ tab'.ctx = Reduce(tab.ctx, e) /\ tab'.answer = Boxed(tab'.ctx, a)
      /\ SameHands(tab', a) /\ SameMedia(tab', a) /\ SamePeers(tab', a) /\ tab'.flows = a.flows
  <2>1. a.ctx = tab.ctx
    BY <1>4, Zenon
  <2>2. tab' = Dispatch(a, e)
    BY <1>1, Zenon
  <2>3. /\ tab'.ctx = Reduce(a.ctx, e) /\ tab'.answer = Boxed(tab'.ctx, a)
        /\ SameHands(tab', a) /\ SameMedia(tab', a) /\ SamePeers(tab', a) /\ tab'.flows = a.flows
    BY <1>5, <1>6, <2>2, Dispatches
  <2> QED
    BY <2>1, <2>3, Zenon
<1>8. /\ tab'.flows = tab.flows /\ tab'.outcome = tab.outcome /\ tab'.editing = tab.editing
      /\ tab'.take = tab.take /\ tab'.overlapped = tab.overlapped
      /\ SameMedia(tab', tab) /\ SamePeers(tab', tab)
      /\ DisplayAnswerText(tab'.store) = said
  BY <1>4, <1>7, Zenon DEF SameHands, SameMedia, SamePeers, said
<1>9. OpenIs(tab')
  BY <1>8 DEF InOrder, OpenIs, SameMedia, SamePeers
<1>10. tab.ctx \in Contexts
  BY CleanTexts
<1>11. CASE tab.ctx.state \in LiveSpeaking
  <2>1. /\ tab'.ctx.state \in LiveSpeaking /\ tab'.ctx.partial = said
        /\ tab'.ctx.frozen = tab.ctx.frozen /\ tab'.ctx.final \in {tab.ctx.final, said}
    <3> DEFINE next == IF tab.ctx.state = "paused" THEN "paused" ELSE "live_draft"
    <3>1. /\ Reduce(tab.ctx, Says("PARTIAL", said)) =
               [tab.ctx EXCEPT !.partial = said, !.state = next]
          /\ Reduce(tab.ctx, Says("FINAL_SEGMENT", said)) =
               [tab.ctx EXCEPT !.partial = said, !.final = said,
                               !.state = IF tab.ctx.state \in {"paused", "finishing"}
                                         THEN tab.ctx.state ELSE "live_draft"]
      BY <1>6, <1>10, <1>11, Reduces
    <3>2. (IF tab.ctx.state \in {"paused", "finishing"}
           THEN tab.ctx.state ELSE "live_draft") = next
      BY <1>11 DEF LiveSpeaking
    <3>3. next \in LiveSpeaking
      BY DEF LiveSpeaking
    <3> HIDE DEF next
    <3>4. tab'.ctx \in {[tab.ctx EXCEPT !.partial = said, !.state = next],
                        [tab.ctx EXCEPT !.partial = said, !.final = said, !.state = next]}
      BY <1>7, <3>1, <3>2 DEF e
    <3> QED
      BY <1>10, <3>3, <3>4 DEF Contexts
  <2>2. /\ tab.flows = {} /\ NoRepeat(tab.answer)
        /\ NoRepeat(tab.ctx.final) /\ NoRepeat(tab.ctx.frozen)
    BY <1>11 DEF InOrder, StateOf, Clean, Collects
  <2>3. NoRepeat(tab'.answer)
    BY <1>4, <1>5, <1>6, <1>7, <2>1, <2>2, BoxedTexts DEF said
  <2>4. InOrder(tab')
    BY <1>8, <1>9, <1>11, <2>1, <2>2
       DEF InOrder, OneCall, StateOf, OpeningIs, ClosingIs, LiveSpeaking, Reviewed, SameMedia
  <2>5. Clean(tab')
    BY <1>6, <1>8, <2>1, <2>2, <2>3 DEF Clean, Collects, Drafting, LiveSpeaking, Reviewed
  <2> QED
    BY <1>8, <2>4, <2>5
<1>12. CASE tab.ctx.state = "finishing" /\ type = "FINAL_SEGMENT"
  <2>1. /\ tab'.ctx.state = "finishing" /\ tab'.ctx.frozen = tab.ctx.frozen
        /\ tab'.ctx.final = said
    <3>1. Reduce(tab.ctx, Says("FINAL_SEGMENT", said)) =
            [tab.ctx EXCEPT !.partial = said, !.final = said,
                            !.state = IF tab.ctx.state \in {"paused", "finishing"}
                                      THEN tab.ctx.state ELSE "live_draft"]
      BY <1>6, <1>10, <1>12, Reduces
    <3>2. tab'.ctx = [tab.ctx EXCEPT !.partial = said, !.final = said, !.state = "finishing"]
      BY <1>7, <1>12, <3>1 DEF e
    <3> QED
      BY <1>10, <3>2 DEF Contexts
  <2>2. InOrder(tab')
    BY <1>3, <1>8, <1>9, <1>12, <2>1
       DEF InOrder, OneCall, StateOf, OpeningIs, ClosingIs, LiveSpeaking, Reviewed, SameMedia
  <2>3. NoRepeat(tab.ctx.frozen) /\ NoRepeat(tab.answer) => NoRepeat(tab'.answer)
    BY <1>4, <1>5, <1>6, <1>7, <2>1, BoxedTexts
  <2>4. Clean(tab')
    BY <1>3, <1>6, <1>8, <1>12, <2>1, <2>3
       DEF Clean, Collects, Drafting, LiveSpeaking, Reviewed
  <2> QED
    BY <1>8, <2>2, <2>4
<1>13. CASE /\ tab.ctx.state \notin LiveSpeaking
            /\ ~(tab.ctx.state = "finishing" /\ type = "FINAL_SEGMENT")
  <2>1. tab'.ctx = tab.ctx
    <3>1. /\ Reduce(tab.ctx, Says("PARTIAL", said)) = tab.ctx
          /\ tab.ctx.state # "finishing" => Reduce(tab.ctx, Says("FINAL_SEGMENT", said)) = tab.ctx
      BY <1>6, <1>10, <1>13, Reduces
    <3> QED
      BY <1>7, <1>13, <3>1 DEF e
  <2>2. tab.ctx.state \notin Drafting \cup {"reconnecting"}
    BY <1>3, <1>13 DEF InOrder, StateOf, Drafting
  <2>3. SameTexts(tab'.ctx, tab.ctx)
    BY <2>1 DEF SameTexts
  <2>4. \/ \E f \in tab.flows : f.at = "collect" /\ f.live # <<>>
        \/ NoRepeat(tab.answer) => NoRepeat(tab'.answer)
    <3>1. CASE tab.ctx.state \in {"finishing", "refining"}
      <4>1. CASE \E f \in tab.flows : f.at = "collect" /\ f.live # <<>>
        BY <4>1
      <4>2. CASE ~ \E f \in tab.flows : f.at = "collect" /\ f.live # <<>>
        <5>1. NoRepeat(tab.ctx.final) /\ NoRepeat(tab.ctx.frozen)
          BY <4>2 DEF Clean, Collects
        <5> QED
          BY <1>4, <1>5, <1>7, <2>1, <5>1, BoxedTexts
      <4> QED
        BY <4>1, <4>2
    <3>2. CASE tab.ctx.state \notin {"finishing", "refining"}
      BY <1>3, <1>4, <1>5, <1>7, <2>1, <2>2, <3>2, BoxedTexts DEF Drafting
    <3> QED
      BY <3>1, <3>2
  <2> QED
    BY <1>3, <1>8, <1>9, <2>1, <2>2, <2>3, <2>4, RestOrder
<1> QED
  BY <1>11, <1>12, <1>13

LEMMA ProviderOrder ==
  ASSUME Steady(tab), InOrder(tab), Clean(tab), Provider
  PROVE  InOrder(tab') /\ Clean(tab') /\ tab'.overlapped = tab.overlapped
<1>1. tab.peers \in SUBSET Peers /\ tab.store \in Seq(Items) /\ Named(tab.store)
  BY TabFields DEF Steady
<1>2. PICK p \in tab.peers :
        \/ Disconnected(p) \/ ProviderError(p)
        \/ \E id \in Words : Delta(p, id) \/ Completed(p, id)
  BY ProviderDoes
<1>3. ASSUME NEW id \in Words, Delta(p, id) \/ Completed(p, id)
      PROVE  InOrder(tab') /\ Clean(tab') /\ tab'.overlapped = tab.overlapped
  <2>1. id \in Words
    BY <1>3
  <2>2. CASE Delta(p, id)
    <3>1. Kept(tab.store, ApplyDelta(tab.store, id))
      BY <1>1, <2>1, SegmentsKept
    <3>2. Sends(p) /\ Emits(ApplyDelta(tab.store, id), "PARTIAL")
      BY <2>2, Zenon DEF Delta
    <3> QED
      BY <3>1, <3>2, EmitsOrder DEF Kept
  <2>3. CASE Completed(p, id)
    <3>1. PICK text \in {"text", "blank"} :
            Emits(ApplyCompleted(tab.store, id, text), "FINAL_SEGMENT")
      BY <2>3 DEF Completed
    <3>2. Kept(tab.store, ApplyCompleted(tab.store, id, text))
      BY <1>1, <2>1, SegmentsKept
    <3>3. Sends(p)
      BY <2>3, Zenon DEF Completed
    <3> QED
      BY <3>1, <3>2, <3>3, EmitsOrder DEF Kept
  <2> QED
    BY <1>3, <2>2, <2>3
<1> QED
  BY <1>2, <1>3, DisconnectOrder, ErrorOrder

\* Who opens a recording or a connection is the only one, and has what it made so far.
LEMMA Opening ==
  ASSUME NEW t, InOrder(t), NEW f \in t.flows, f.at \in {"mic", "session", "answer"}
  PROVE  /\ t.flows = {f} /\ Opens(f) /\ t.outcome = "asking" /\ f.take = t.take /\ t.take # 0
         /\ f.at = "mic" => /\ f.kind = "start" /\ t.ctx.state = "requesting_permission"
                            /\ t.mics = {} /\ t.peers = {}
         /\ f.at = "session" => /\ t.ctx.state = "connecting" /\ t.stream = t.take
                                /\ Stream(t.stream) \in t.mics /\ t.peers = {}
         /\ f.at = "answer" => /\ t.ctx.state = "connecting" /\ t.stream = t.take
                               /\ Stream(t.stream) \in t.mics
                               /\ f.peer = t.peer /\ \A p \in t.peers : ~p.up
         /\ \A p \in t.peers : p.id = t.peer
         /\ t.mics \subseteq {Stream(t.stream), Clone(t.recorder)}
         /\ t.ctx.state \in {"requesting_permission", "connecting"}
<1>1. Opens(f)
  BY DEF InOrder, ClosingIs
<1>2. t.flows = {f}
  BY OnlyCall DEF InOrder
<1> QED
  BY <1>1, <1>2 DEF InOrder, OpeningIs, OpenIs

\* What is known of its texts.
LEMMA OpeningTexts ==
  ASSUME NEW t, InOrder(t), Clean(t), NEW f \in t.flows, f.at \in {"mic", "session", "answer"}
  PROVE  /\ t.ctx.partial = DisplayAnswerText(t.store)
         /\ NoRepeat(t.ctx.final) /\ NoRepeat(t.ctx.frozen)
         /\ f.kind = "start" => ~t.editing
         /\ t.ctx.state = "connecting" /\ t.editing => NoRepeat(t.answer)
<1>1. t.flows = {f} /\ t.ctx.state \in {"requesting_permission", "connecting"}
  BY Opening
<1> QED
  BY <1>1 DEF Clean, Collects, Drafting

\* The page when nothing is awaited and the capture has come to rest.
LEMMA StillOrder ==
  ASSUME NEW u, u.flows = {}, OpenIs(u), NoRepeat(u.ctx.final), NoRepeat(u.ctx.frozen),
         \/ u.ctx.state \in {"error", "fallback_text", "idle"}
         \/ u.ctx.state = "permission_denied" /\ ~u.editing
         \/ u.ctx.state \in Reviewed /\ u.mics = {} /\ u.peers = {} /\ NoRepeat(u.answer)
  PROVE  InOrder(u) /\ Clean(u)
<1>1. InOrder(u)
  BY DEF InOrder, OneCall, StateOf, OpeningIs, ClosingIs, LiveSpeaking, Reviewed
<1>2. Clean(u)
  BY DEF Clean, Collects, Drafting, LiveSpeaking, Reviewed
<1> QED
  BY <1>1, <1>2

LEMMA FailsParts ==
  ASSUME NEW t, Steady(t), NEW f, NEW u, u = Fails(t, f)
  PROVE  /\ Steady(u) /\ SameHands(u, t) /\ SameTexts(u.ctx, t.ctx)
         /\ u.ctx.state = "fallback_text" /\ u.flows = t.flows
         /\ (\A p \in t.peers : p.id = t.peer) => u.peers = {}
         /\ f.kind = "start" => u.mics = t.mics \ {Stream(t.stream), Clone(t.recorder)}
         /\ f.kind # "start" => SameMedia(u, t)
<1> DEFINE broken == [t.ctx EXCEPT !.state = "fallback_text"]
           others == {p \in t.peers : p.id # t.peer}
           closed == t.mics \ {Stream(t.stream), Clone(t.recorder)}
<1>1. t \in Tabs /\ t.ctx \in Contexts
  BY TabFields DEF Steady
<1>2. Steady(u)
  BY SteadyFails
<1>3. PICK text \in Texts :
        Fails(t, f) =
            IF f.kind = "start"
            THEN [t EXCEPT !.ctx = broken, !.answer = text, !.peers = others, !.peer = 0,
                           !.mics = closed, !.stream = 0, !.recorder = 0]
            ELSE [t EXCEPT !.ctx = broken, !.answer = text, !.peers = others, !.peer = 0]
  BY FailsSets, Zenon
<1>4. SameTexts(broken, t.ctx) /\ broken.state = "fallback_text"
  BY <1>1 DEF Contexts, SameTexts
<1>5. closed \subseteq t.mics
  OBVIOUS
<1> HIDE DEF broken, others, closed
<1>6. CASE f.kind = "start"
  <2>1. /\ SameHands(u, t) /\ u.ctx = broken /\ u.flows = t.flows
        /\ u.peers = others /\ u.mics = closed /\ u.stream = 0
    BY <1>1, <1>3, <1>6 DEF Tabs, SameHands
  <2> QED
    BY <1>2, <1>4, <1>5, <1>6, <2>1 DEF others, closed
<1>7. CASE f.kind # "start"
  <2>1. /\ SameHands(u, t) /\ u.ctx = broken /\ u.flows = t.flows
        /\ u.peers = others /\ SameMedia(u, t)
    BY <1>1, <1>3, <1>7 DEF Tabs, SameHands, SameMedia
  <2> QED
    BY <1>2, <1>4, <1>7, <2>1 DEF others, SameMedia
<1> QED
  BY <1>6, <1>7

LEMMA FailsOrder ==
  ASSUME Steady(tab), InOrder(tab), Clean(tab), NEW f \in tab.flows,
         f.at \in {"mic", "session", "answer"}, tab' = Ends(Fails(tab, f), f)
  PROVE  InOrder(tab') /\ Clean(tab') /\ tab'.overlapped = tab.overlapped
<1>1. /\ tab.flows = {f}
      /\ f.at # "mic" => Stream(tab.stream) \in tab.mics
      /\ f.at = "mic" => tab.mics = {}
      /\ \A p \in tab.peers : p.id = tab.peer
      /\ tab.mics \subseteq {Stream(tab.stream), Clone(tab.recorder)}
  BY Opening
<1>2. NoRepeat(tab.ctx.final) /\ NoRepeat(tab.ctx.frozen)
  BY OpeningTexts
<1> PICK u : u = Fails(tab, f)
  OBVIOUS
<1>3. /\ Steady(u) /\ SameHands(u, tab) /\ SameTexts(u.ctx, tab.ctx)
      /\ u.ctx.state = "fallback_text" /\ u.flows = tab.flows
      /\ u.peers = {}
      /\ f.kind = "start" => u.mics = tab.mics \ {Stream(tab.stream), Clone(tab.recorder)}
      /\ f.kind # "start" => SameMedia(u, tab)
  <2>1. /\ Steady(u) /\ SameHands(u, tab) /\ SameTexts(u.ctx, tab.ctx)
        /\ u.ctx.state = "fallback_text" /\ u.flows = tab.flows
        /\ (\A p \in tab.peers : p.id = tab.peer) => u.peers = {}
        /\ f.kind = "start" => u.mics = tab.mics \ {Stream(tab.stream), Clone(tab.recorder)}
        /\ f.kind # "start" => SameMedia(u, tab)
    BY FailsParts, Zenon
  <2> QED
    BY <1>1, <2>1, Zenon
<1>4. tab' = Ends(u, f)
  OBVIOUS
<1>5. /\ SameHands(tab', u) /\ SameMedia(tab', u) /\ SamePeers(tab', u)
      /\ SameText(tab', u) /\ tab'.flows = u.flows \ {f}
  BY <1>3, <1>4, Awaited
<1>6. tab'.flows = {} /\ tab'.peers = {}
  BY <1>1, <1>3, <1>5 DEF SamePeers
<1>7. tab'.mics \subseteq {Stream(tab'.stream), Clone(tab'.recorder)}
  BY <1>1, <1>3, <1>5 DEF SameMedia
<1>8. /\ NoRepeat(tab'.ctx.final) /\ NoRepeat(tab'.ctx.frozen)
      /\ tab'.ctx.state = "fallback_text" /\ tab'.overlapped = tab.overlapped
  BY <1>2, <1>3, <1>5, Zenon DEF SameText, SameTexts, SameHands
<1>9. OpenIs(tab')
  BY <1>6, <1>7 DEF OpenIs
<1> QED
  BY <1>6, <1>8, <1>9, StillOrder

LEMMA DeniedOrder ==
  ASSUME Steady(tab), InOrder(tab), Clean(tab), NEW f \in tab.flows,
         f.at = "mic", f.kind = "start",
         tab' = Ends(TeardownMedia(Dispatch(tab, Event("PERMISSION_DENIED"))), f)
  PROVE  InOrder(tab') /\ Clean(tab') /\ tab'.overlapped = tab.overlapped
<1> DEFINE d == Dispatch(tab, Event("PERMISSION_DENIED"))
           m == TeardownMedia(d)
<1>1. tab.flows = {f} /\ tab.mics = {} /\ tab.peers = {}
  BY Opening
<1>2. NoRepeat(tab.ctx.final) /\ NoRepeat(tab.ctx.frozen) /\ ~tab.editing
  BY OpeningTexts
<1>3. /\ Steady(d) /\ d.ctx = Reduce(tab.ctx, Event("PERMISSION_DENIED"))
      /\ SameHands(d, tab) /\ SameMedia(d, tab) /\ SamePeers(d, tab) /\ d.flows = tab.flows
  <2>1. Event("PERMISSION_DENIED") \in Events
    BY EventsAre
  <2> QED
    BY <2>1, Dispatches, Zenon
<1>4. tab' = Ends(m, f)
  OBVIOUS
<1> HIDE DEF d
<1>5. SameTexts(d.ctx, tab.ctx) /\ d.ctx.state = "permission_denied"
  BY <1>3, CleanTexts, Moves
<1>6. /\ Steady(m) /\ SameHands(m, d) /\ SameText(m, d) /\ m.flows = d.flows
      /\ m.peers = {p \in d.peers : p.id # d.peer}
      /\ m.mics = d.mics \ {Stream(d.stream), Clone(d.recorder)}
  BY <1>3, Closes
<1> HIDE DEF m
<1>7. /\ SameHands(tab', m) /\ SameMedia(tab', m) /\ SamePeers(tab', m)
      /\ SameText(tab', m) /\ tab'.flows = m.flows \ {f}
  BY <1>4, <1>6, Awaited
<1>8. tab'.flows = {} /\ tab'.peers = {} /\ tab'.mics = {}
  BY <1>1, <1>3, <1>6, <1>7 DEF SameMedia, SamePeers
<1>9. /\ NoRepeat(tab'.ctx.final) /\ NoRepeat(tab'.ctx.frozen) /\ ~tab'.editing
      /\ tab'.ctx.state = "permission_denied" /\ tab'.overlapped = tab.overlapped
  BY <1>2, <1>3, <1>5, <1>6, <1>7, Zenon DEF SameText, SameTexts, SameHands
<1>10. OpenIs(tab')
  BY <1>8 DEF OpenIs
<1> QED
  BY <1>8, <1>9, <1>10, StillOrder

LEMMA GrantedOrder ==
  ASSUME Steady(tab), InOrder(tab), Clean(tab), NEW f \in tab.flows, MicrophoneGranted(f)
  PROVE  InOrder(tab') /\ Clean(tab') /\ tab'.overlapped = tab.overlapped
<1> DEFINE on == tab.mics \cup {Stream(f.take)}
           got == [tab EXCEPT !.stream = f.take, !.mics = on]
           w == Dispatch(got, Event("PERMISSION_GRANTED"))
           g == [f EXCEPT !.at = "session"]
           both == w.mics \cup {Clone(f.take)}
<1>1. f.at = "mic"
  BY DEF MicrophoneGranted
<1>2. /\ tab.flows = {f} /\ Opens(f) /\ tab.outcome = "asking" /\ f.take = tab.take
      /\ tab.take # 0 /\ f.kind = "start" /\ tab.ctx.state = "requesting_permission"
      /\ tab.mics = {} /\ tab.peers = {}
  BY <1>1, Opening
<1>3. /\ tab.ctx.partial = DisplayAnswerText(tab.store) /\ ~tab.editing
      /\ NoRepeat(tab.ctx.final) /\ NoRepeat(tab.ctx.frozen)
  BY <1>1, <1>2, OpeningTexts
<1>4. /\ tab \in Tabs /\ f \in Flows /\ f.take \in 0..MaxTakes /\ tab.ctx \in Contexts
  BY TabFields DEF Steady, Flows
<1>5. on \in SUBSET ((0..MaxTakes) \X {"stream", "recorder"})
      /\ Clone(f.take) \in (0..MaxTakes) \X {"stream", "recorder"}
  BY <1>2, <1>4 DEF Stream, Clone
<1>6. on = {Stream(f.take)}
  BY <1>2
<1>7. PICK a \in Records(w, f.take) : tab' = Continues(a, f, g)
  <2>1. f.kind # "recover"
    BY <1>2
  <2>2. w = Granted(f)
    BY Zenon DEF Granted
  <2> HIDE DEF w
  <2> QED
    BY <2>1, <2>2, GrantedIs
<1>8. g \in Flows /\ g.kind = "start" /\ g.at = "session" /\ g.take = f.take
  BY <1>2, <1>4 DEF Flows
<1> HIDE DEF on, g
<1>9. /\ got \in Tabs /\ got.stream = f.take /\ got.mics = on /\ got.recorder = tab.recorder
      /\ SameHands(got, tab) /\ SamePeers(got, tab) /\ SameText(got, tab) /\ got.flows = tab.flows
  BY <1>4, <1>5 DEF Tabs, SameHands, SamePeers, SameText
<1>10. Steady(got) /\ got.ctx = tab.ctx
  <2>1. got.store = tab.store /\ got.ctx = tab.ctx
    BY <1>9, Zenon DEF SameHands, SameText
  <2> QED
    BY <1>9, <2>1, SteadySame, Zenon
<1> HIDE DEF got
<1>11. /\ Steady(w) /\ w.ctx = Reduce(got.ctx, Event("PERMISSION_GRANTED"))
       /\ w.answer = Boxed(w.ctx, got) /\ SameHands(w, got) /\ SameMedia(w, got)
       /\ SamePeers(w, got) /\ w.flows = got.flows
  <2>1. Event("PERMISSION_GRANTED") \in Events
    BY EventsAre
  <2> QED
    BY <1>10, <2>1, Dispatches, Zenon
<1> HIDE DEF w
<1>12. SameTexts(w.ctx, tab.ctx) /\ w.ctx.state = "connecting"
  BY <1>2, <1>4, <1>10, <1>11, Moves
<1>13. /\ w \in Tabs /\ w.mics = on /\ both \in SUBSET ((0..MaxTakes) \X {"stream", "recorder"})
  <2>1. w \in Tabs /\ w.mics = on
    BY <1>9, <1>11 DEF SameMedia, Steady
  <2> QED
    BY <1>5, <2>1
<1> HIDE DEF both
<1>14. /\ Steady(a) /\ SameHands(a, w) /\ SamePeers(a, w) /\ SameText(a, w) /\ a.flows = w.flows
       /\ a.stream = w.stream
       /\ \/ a.recorder = 0 /\ a.mics = on
          \/ a.recorder = f.take /\ a.mics = both
  <2>1. /\ a \in Tabs /\ SameHands(a, w) /\ SamePeers(a, w) /\ SameText(a, w) /\ a.flows = w.flows
        /\ a.stream = w.stream
        /\ \/ a.recorder = 0 /\ a.mics = on
           \/ a.recorder = f.take /\ a.mics = both
    BY <1>4, <1>7, <1>13, RecordsAre DEF SameHands, SamePeers, SameText, both
  <2> QED
    BY <1>11, <2>1, SteadySame, Zenon DEF SameHands, SameText
<1>16. both = {Stream(f.take), Clone(f.take)}
  BY <1>6, <1>13 DEF both
<1>17. /\ SameHands(tab', a) /\ SameMedia(tab', a) /\ SamePeers(tab', a)
       /\ SameText(tab', a) /\ tab'.flows = (a.flows \ {f}) \cup {g}
  BY <1>7, <1>8, <1>14, Awaited
<1>18. /\ SameHands(tab', tab) /\ SamePeers(tab', tab) /\ tab'.flows = {g}
       /\ tab'.ctx.state = "connecting" /\ SameTexts(tab'.ctx, tab.ctx)
  <2>3. tab'.flows = {g}
    BY <1>2, <1>9, <1>11, <1>14, <1>17
  <2>4. SameHands(tab', tab) /\ SamePeers(tab', tab)
    BY <1>9, <1>11, <1>14, <1>17, Zenon DEF SameHands, SamePeers
  <2>5. tab'.ctx = w.ctx
    BY <1>14, <1>17, Zenon DEF SameText
  <2> QED
    BY <1>12, <2>3, <2>4, <2>5
<1>19. /\ tab'.stream = f.take /\ Stream(tab'.stream) \in tab'.mics
       /\ tab'.mics \subseteq {Stream(tab'.stream), Clone(tab'.recorder)}
  BY <1>6, <1>9, <1>11, <1>14, <1>16, <1>17 DEF SameMedia
<1>20. InOrder(tab')
  BY <1>2, <1>8, <1>18, <1>19
     DEF InOrder, OneCall, StateOf, OpeningIs, ClosingIs, OpenIs, Opens, LiveSpeaking, Reviewed,
         SameHands, SamePeers
<1>21. Clean(tab')
  BY <1>3, <1>8, <1>18 DEF Clean, Collects, Drafting, LiveSpeaking, Reviewed, SameHands, SameTexts
<1> QED
  BY <1>18, <1>20, <1>21 DEF SameHands

LEMMA RefusedOrder ==
  ASSUME Steady(tab), InOrder(tab), Clean(tab), NEW f \in tab.flows,
         SessionRefused(f) \/ ConnectionFails(f) \/ MicrophoneRefused(f)
  PROVE  InOrder(tab') /\ Clean(tab') /\ tab'.overlapped = tab.overlapped
<1>1. CASE f.at \in {"mic", "session", "answer"} /\ tab' = Ends(Fails(tab, f), f)
  BY <1>1, FailsOrder, Zenon
<1>2. CASE /\ f.at = "mic" /\ f.kind = "start"
           /\ tab' = Ends(TeardownMedia(Dispatch(tab, Event("PERMISSION_DENIED"))), f)
  BY <1>2, DeniedOrder, Zenon
<1> QED
  BY <1>1, <1>2, Zenon DEF SessionRefused, ConnectionFails, MicrophoneRefused

\* A session has been made: its connection is the only one.
LEMMA SessionOrder ==
  ASSUME Steady(tab), InOrder(tab), Clean(tab), NEW f \in tab.flows, SessionMade(f)
  PROVE  InOrder(tab') /\ Clean(tab') /\ tab'.overlapped = tab.overlapped
<1> DEFINE id == tab.sessions + 1
           new == [id |-> id, take |-> f.take, up |-> FALSE]
           ps == tab.peers \cup {new}
           a == [tab EXCEPT !.sessions = id, !.peer = id, !.peers = ps]
           g == [f EXCEPT !.at = "answer", !.peer = id]
<1>1. f.at = "session" /\ tab.sessions < MaxConnections /\ tab' = Continues(a, f, g)
  BY Zenon DEF SessionMade
<1>2. /\ tab.flows = {f} /\ Opens(f) /\ tab.outcome = "asking" /\ f.take = tab.take
      /\ tab.take # 0 /\ tab.ctx.state = "connecting" /\ tab.stream = tab.take
      /\ Stream(tab.stream) \in tab.mics /\ tab.peers = {}
      /\ tab.mics \subseteq {Stream(tab.stream), Clone(tab.recorder)}
  BY <1>1, Opening
<1>3. /\ tab.ctx.partial = DisplayAnswerText(tab.store)
      /\ NoRepeat(tab.ctx.final) /\ NoRepeat(tab.ctx.frozen)
      /\ f.kind = "start" => ~tab.editing
      /\ tab.editing => NoRepeat(tab.answer)
  BY <1>1, <1>2, OpeningTexts
<1>4. /\ tab \in Tabs /\ f \in Flows /\ f.take \in 0..MaxTakes
      /\ tab.sessions \in 0..MaxConnections
  BY TabFields DEF Steady, Flows
<1>5. id \in 1..MaxConnections /\ id \in 0..MaxConnections
  BY <1>1, <1>4, Bounds
<1>6. ps = {new}
  BY <1>2
<1> HIDE DEF id
<1>7. new \in Peers /\ new.id = id /\ new.up = FALSE
  BY <1>4, <1>5 DEF Peers
<1>8. g \in Flows /\ g.kind = f.kind /\ g.at = "answer" /\ g.take = f.take /\ g.peer = id
  BY <1>4, <1>5 DEF Flows
<1> HIDE DEF new, g
<1>9. ps \in SUBSET Peers
  BY <1>6, <1>7
<1> HIDE DEF ps
<1>10. /\ a \in Tabs /\ SameHands(a, tab) /\ SameMedia(a, tab) /\ SameText(a, tab)
       /\ a.flows = tab.flows /\ a.peers = ps /\ a.peer = id
  BY <1>4, <1>5, <1>9 DEF Tabs, SameHands, SameMedia, SameText
<1>11. Steady(a)
  <2>1. a.store = tab.store /\ a.ctx = tab.ctx
    BY <1>10, Zenon DEF SameHands, SameText
  <2> QED
    BY <1>10, <2>1, SteadySame, Zenon
<1> HIDE DEF a
<1>12. /\ SameHands(tab', a) /\ SameMedia(tab', a) /\ SamePeers(tab', a)
       /\ SameText(tab', a) /\ tab'.flows = (a.flows \ {f}) \cup {g}
  BY <1>1, <1>8, <1>11, Awaited
<1>13. SameHands(tab', tab) /\ SameMedia(tab', tab) /\ SameText(tab', tab)
  BY <1>10, <1>12, Zenon DEF SameHands, SameMedia, SameText
<1>14. tab'.flows = {g} /\ tab'.peers = {new} /\ tab'.peer = id
  BY <1>2, <1>6, <1>10, <1>12 DEF SamePeers
<1>15. InOrder(tab')
  BY <1>2, <1>7, <1>8, <1>13, <1>14
     DEF InOrder, OneCall, StateOf, OpeningIs, ClosingIs, OpenIs, Opens, LiveSpeaking, Reviewed,
         SameHands, SameMedia, SameText
<1>16. Clean(tab')
  BY <1>2, <1>3, <1>8, <1>13, <1>14
     DEF Clean, Collects, Drafting, LiveSpeaking, Reviewed, SameHands, SameText, Opens
<1> QED
  BY <1>13, <1>15, <1>16 DEF SameHands

LEMMA FollowsParts ==
  ASSUME NEW t, Steady(t), t.ctx.state # "reconnecting", NEW f, NEW u, u = Follows(t, f)
  PROVE  /\ Steady(u) /\ SameHands(u, t) /\ SameMedia(u, t) /\ SamePeers(u, t)
         /\ u.flows = t.flows /\ SameTexts(u.ctx, t.ctx) /\ u.ctx.state = t.ctx.state
         /\ u.answer = t.answer \/ u.answer = Boxed(u.ctx, t)
<1>1. t \in Tabs /\ t.ctx \in Contexts
  BY TabFields DEF Steady
<1>2. Steady(u)
  BY SteadyFails
<1>3. CASE f.kind = "start"
  <2>1. u = [t EXCEPT !.timer = TRUE]
    BY <1>3 DEF Follows
  <2>2. /\ SameHands(u, t) /\ SameMedia(u, t) /\ SamePeers(u, t) /\ u.flows = t.flows
        /\ u.ctx = t.ctx /\ u.answer = t.answer
    BY <1>1, <2>1 DEF Tabs, SameHands, SameMedia, SamePeers
  <2> QED
    BY <1>2, <2>2 DEF SameTexts
<1>4. CASE f.kind # "start"
  <2>1. u = Dispatch(t, Event("RECONNECTED"))
    BY <1>4 DEF Follows
  <2>2. /\ u.ctx = Reduce(t.ctx, Event("RECONNECTED")) /\ u.answer = Boxed(u.ctx, t)
        /\ SameHands(u, t) /\ SameMedia(u, t) /\ SamePeers(u, t) /\ u.flows = t.flows
    <3>1. Event("RECONNECTED") \in Events
      BY EventsAre
    <3> QED
      BY <2>1, <3>1, Dispatches
  <2>3. SameTexts(u.ctx, t.ctx) /\ u.ctx.state = t.ctx.state
    BY <1>1, <2>2, Moves
  <2> QED
    BY <1>2, <2>2, <2>3
<1> QED
  BY <1>3, <1>4

\* The provider has taken the call: the team may speak.
LEMMA ConnectedOrder ==
  ASSUME Steady(tab), InOrder(tab), Clean(tab), NEW f \in tab.flows, Connected(f)
  PROVE  InOrder(tab') /\ Clean(tab') /\ tab'.overlapped = tab.overlapped
<1>1. PICK p \in tab.peers :
        /\ p.id = f.peer
        /\ tab' = Ends(Follows(Dispatch([tab EXCEPT !.peers =
                         (tab.peers \ {p}) \cup {[p EXCEPT !.up = TRUE]}],
                       Event("CONNECTED")), f), f)
  BY Zenon DEF Connected
<1> DEFINE q == [p EXCEPT !.up = TRUE]
           ps == (tab.peers \ {p}) \cup {q}
           a == [tab EXCEPT !.peers = ps]
           d == Dispatch(a, Event("CONNECTED"))
<1>2. f.at = "answer" /\ tab' = Ends(Follows(d, f), f)
  BY <1>1, Zenon DEF Connected
<1>3. /\ tab.flows = {f} /\ Opens(f) /\ tab.outcome = "asking" /\ f.take = tab.take
      /\ tab.take # 0 /\ tab.ctx.state = "connecting" /\ tab.stream = tab.take
      /\ Stream(tab.stream) \in tab.mics /\ \A r \in tab.peers : r.id = tab.peer
      /\ tab.mics \subseteq {Stream(tab.stream), Clone(tab.recorder)}
  BY <1>2, Opening
<1>4. /\ tab.ctx.partial = DisplayAnswerText(tab.store)
      /\ NoRepeat(tab.ctx.final) /\ NoRepeat(tab.ctx.frozen)
      /\ tab.editing => NoRepeat(tab.answer)
  BY <1>2, <1>3, OpeningTexts
<1>5. /\ tab \in Tabs /\ p \in Peers /\ tab.peers \in SUBSET Peers /\ tab.ctx \in Contexts
  BY TabFields DEF Steady
<1>6. NoRepeat(DisplayAnswerText(tab.store))
  BY CleanTexts
<1>7. q \in Peers /\ q.id = tab.peer
  BY <1>3, <1>5 DEF Peers
<1> HIDE DEF q
<1>8. ps \in SUBSET Peers /\ \A r \in ps : r.id = tab.peer
  BY <1>3, <1>5, <1>7
<1> HIDE DEF ps
<1>9. /\ a \in Tabs /\ SameHands(a, tab) /\ SameMedia(a, tab) /\ SameText(a, tab)
      /\ a.flows = tab.flows /\ a.peers = ps /\ a.peer = tab.peer
  BY <1>5, <1>8 DEF Tabs, SameHands, SameMedia, SameText
<1>10. Steady(a) /\ a.ctx = tab.ctx /\ a.answer = tab.answer /\ a.store = tab.store
  <2>1. a.store = tab.store /\ a.ctx = tab.ctx /\ a.answer = tab.answer
    BY <1>9, Zenon DEF SameHands, SameText
  <2> QED
    BY <1>9, <2>1, SteadySame, Zenon
<1> HIDE DEF a
<1>11. /\ Steady(d) /\ d.ctx = Reduce(a.ctx, Event("CONNECTED")) /\ d.answer = Boxed(d.ctx, a)
       /\ SameHands(d, a) /\ SameMedia(d, a) /\ SamePeers(d, a) /\ d.flows = a.flows
  <2>1. Event("CONNECTED") \in Events
    BY EventsAre
  <2> QED
    BY <1>10, <2>1, Dispatches, Zenon
<1> HIDE DEF d
<1>12. SameTexts(d.ctx, tab.ctx) /\ d.ctx.state = "listening"
  BY <1>3, <1>5, <1>10, <1>11, Moves
<1>13. d.editing = tab.editing /\ a.editing = tab.editing /\ d.store = tab.store
  BY <1>9, <1>11, Zenon DEF SameHands
<1>14. d.answer = IF tab.editing THEN tab.answer ELSE DisplayAnswerText(tab.store)
  BY <1>10, <1>11, <1>12, <1>13, BoxedTexts DEF LiveSpeaking
<1> PICK u : u = Follows(d, f)
  OBVIOUS
<1>15. /\ Steady(u) /\ SameHands(u, d) /\ SameMedia(u, d) /\ SamePeers(u, d)
       /\ u.flows = d.flows /\ SameTexts(u.ctx, d.ctx) /\ u.ctx.state = d.ctx.state
       /\ u.answer = d.answer \/ u.answer = Boxed(u.ctx, d)
  <2>1. d.ctx.state # "reconnecting"
    BY <1>12
  <2> QED
    BY <1>11, <2>1, FollowsParts, Zenon
<1>16. NoRepeat(u.answer)
  <2>1. NoRepeat(d.answer)
    BY <1>4, <1>6, <1>14
  <2>2. Boxed(u.ctx, d) = IF d.editing THEN d.answer ELSE DisplayAnswerText(d.store)
    BY <1>11, <1>12, <1>15, BoxedTexts DEF LiveSpeaking
  <2> QED
    BY <1>6, <1>13, <1>15, <2>1, <2>2
<1>17. /\ SameHands(tab', u) /\ SameMedia(tab', u) /\ SamePeers(tab', u)
       /\ SameText(tab', u) /\ tab'.flows = u.flows \ {f}
  <2>1. tab' = Ends(u, f)
    BY <1>2
  <2> QED
    BY <1>15, <2>1, Awaited
<1>18. /\ SameHands(tab', tab) /\ SameMedia(tab', tab)
       /\ SameTexts(tab'.ctx, tab.ctx) /\ tab'.ctx.state = "listening" /\ NoRepeat(tab'.answer)
  <2>1. SameHands(tab', tab) /\ SameMedia(tab', tab)
    BY <1>9, <1>11, <1>15, <1>17, Zenon DEF SameHands, SameMedia
  <2>2. tab'.ctx = u.ctx /\ tab'.answer = u.answer
    BY <1>17, Zenon DEF SameText
  <2> QED
    BY <1>12, <1>15, <1>16, <2>1, <2>2 DEF SameTexts
<1>19. tab'.flows = {} /\ tab'.peers = ps /\ tab'.peer = tab.peer
  BY <1>3, <1>9, <1>11, <1>15, <1>17 DEF SamePeers
<1>20. InOrder(tab')
  BY <1>3, <1>8, <1>18, <1>19
     DEF InOrder, OneCall, StateOf, OpeningIs, ClosingIs, OpenIs, Opens, LiveSpeaking, Reviewed,
         SameHands, SameMedia
<1>21. Clean(tab')
  BY <1>4, <1>18, <1>19
     DEF Clean, Collects, Drafting, LiveSpeaking, Reviewed, SameHands, SameTexts
<1> QED
  BY <1>18, <1>20, <1>21 DEF SameHands

\* The provider refuses the credentials: the recording goes on with a new session.
LEMMA ExpiredOrder ==
  ASSUME Steady(tab), InOrder(tab), Clean(tab), NEW f \in tab.flows, SessionExpired(f)
  PROVE  InOrder(tab') /\ Clean(tab') /\ tab'.overlapped = tab.overlapped
<1> DEFINE e == Ends(tab, f)
           r == Recover(Dispatch(e, Event("SESSION_EXPIRED")))
           g == Flow("recover", "session", e.stream)
<1>1. f.at = "answer" /\ tab' = Follows(r, f)
  BY Zenon DEF SessionExpired
<1>2. /\ tab.flows = {f} /\ Opens(f) /\ tab.outcome = "asking" /\ f.take = tab.take
      /\ tab.take # 0 /\ tab.ctx.state = "connecting" /\ tab.stream = tab.take
      /\ Stream(tab.stream) \in tab.mics /\ \A p \in tab.peers : p.id = tab.peer
      /\ tab.mics \subseteq {Stream(tab.stream), Clone(tab.recorder)}
  BY <1>1, Opening
<1>3. /\ tab.ctx.partial = DisplayAnswerText(tab.store)
      /\ NoRepeat(tab.ctx.final) /\ NoRepeat(tab.ctx.frozen)
      /\ tab.editing => NoRepeat(tab.answer)
  BY <1>1, <1>2, OpeningTexts
<1>4. /\ Steady(e) /\ SameHands(e, tab) /\ SameMedia(e, tab) /\ SamePeers(e, tab)
      /\ SameText(e, tab) /\ e.flows = {}
  <2>1. /\ Steady(e) /\ SameHands(e, tab) /\ SameMedia(e, tab) /\ SamePeers(e, tab)
        /\ SameText(e, tab) /\ e.flows = tab.flows \ {f}
    BY Awaited, Zenon
  <2> HIDE DEF e
  <2> QED
    BY <1>2, <2>1
<1>5. /\ e.stream = tab.stream /\ e.ctx = tab.ctx /\ e.answer = tab.answer
      /\ e.editing = tab.editing /\ e.peers = tab.peers /\ e.peer = tab.peer
  BY <1>4, Zenon DEF SameHands, SameMedia, SamePeers, SameText
<1> HIDE DEF e
<1>6. /\ Steady(r) /\ SameHands(r, e) /\ SameMedia(r, e) /\ SameTexts(r.ctx, e.ctx)
      /\ r.peers = {}
      /\ \/ r.ctx.state = "fallback_text" /\ r.flows = e.flows
         \/ /\ r.ctx.state = "connecting" /\ (e.editing => r.answer = e.answer)
            /\ r.flows = e.flows \cup {g}
  <2>1. e.ctx.state \in LiveSpeaking \cup {"connecting"} /\ e.stream # 0
        /\ \A p \in e.peers : p.id = e.peer
    BY <1>2, <1>5
  <2>2. "SESSION_EXPIRED" \in Losses
    BY DEF Losses
  <2> QED
    BY <1>4, <2>1, <2>2, RecoverSets, Zenon
<1> HIDE DEF r
<1>7. /\ SameHands(tab', r) /\ SameMedia(tab', r) /\ SamePeers(tab', r)
      /\ tab'.flows = r.flows /\ SameTexts(tab'.ctx, r.ctx) /\ tab'.ctx.state = r.ctx.state
      /\ tab'.answer = r.answer \/ tab'.answer = Boxed(tab'.ctx, r)
  <2>1. r.ctx.state # "reconnecting"
    BY <1>6
  <2> QED
    BY <1>1, <1>6, <2>1, FollowsParts, Zenon
<1>8. SameHands(tab', tab) /\ SameMedia(tab', tab) /\ SameTexts(tab'.ctx, tab.ctx)
  BY <1>4, <1>5, <1>6, <1>7, Zenon DEF SameHands, SameMedia, SameTexts
<1>9. tab'.peers = {}
  BY <1>6, <1>7 DEF SamePeers
<1>10. CASE r.ctx.state = "fallback_text" /\ r.flows = e.flows
  <2>1. tab'.flows = {} /\ tab'.ctx.state = "fallback_text"
    BY <1>4, <1>7, <1>10
  <2>2. NoRepeat(tab'.ctx.final) /\ NoRepeat(tab'.ctx.frozen)
    BY <1>3, <1>8 DEF SameTexts
  <2>3. OpenIs(tab')
    BY <1>2, <1>8, <1>9 DEF OpenIs, SameMedia
  <2> QED
    BY <1>8, <2>1, <2>2, <2>3, StillOrder DEF SameHands
<1>11. CASE /\ r.ctx.state = "connecting" /\ (e.editing => r.answer = e.answer)
            /\ r.flows = e.flows \cup {g}
  <2>1. /\ g.kind = "recover" /\ g.at = "session" /\ g.take = tab.take
    BY <1>2, <1>5 DEF Flow
  <2> HIDE DEF g
  <2>2. tab'.flows = {g} /\ tab'.ctx.state = "connecting"
    BY <1>4, <1>7, <1>11
  <2>3. tab'.answer = r.answer
    BY <1>6, <1>7, <2>2, BoxedTexts DEF LiveSpeaking, Reviewed
  <2>4. tab'.editing => NoRepeat(tab'.answer)
    BY <1>3, <1>5, <1>8, <1>11, <2>3 DEF SameHands
  <2>5. InOrder(tab')
    BY <1>2, <1>8, <1>9, <2>1, <2>2
       DEF InOrder, OneCall, StateOf, OpeningIs, ClosingIs, OpenIs, Opens, LiveSpeaking, Reviewed,
           SameHands, SameMedia
  <2>6. Clean(tab')
    BY <1>3, <1>8, <2>1, <2>2, <2>4
       DEF Clean, Collects, Drafting, LiveSpeaking, Reviewed, SameHands, SameTexts
  <2> QED
    BY <1>8, <2>5, <2>6 DEF SameHands
<1> QED
  BY <1>6, <1>10, <1>11

LEMMA ConnectingOrder ==
  ASSUME Steady(tab), InOrder(tab), Clean(tab), NEW f \in tab.flows, Connecting(f)
  PROVE  InOrder(tab') /\ Clean(tab') /\ tab'.overlapped = tab.overlapped
BY RefusedOrder, GrantedOrder, SessionOrder, ConnectedOrder, ExpiredOrder, Zenon DEF Connecting

\* Who finishes a recording, or refines it again, is the only one.
LEMMA Closing ==
  ASSUME NEW t, InOrder(t), Clean(t), NEW f \in t.flows,
         f.at \in {"collect", "recorder", "refine", "transcribe", "polish"}
  PROVE  /\ t.flows = {f} /\ ~Opens(f) /\ f.kind \in {"finish", "retry"}
         /\ t.ctx.state \in {"finishing", "refining", "error", "fallback_text", "idle"}
         /\ t.ctx.state = "finishing" => f.at \in {"collect", "recorder"}
         /\ t.ctx.state \in {"finishing", "refining"} => t.outcome = "asking"
         /\ f.at \in {"collect", "recorder"} => f.kind = "finish"
         /\ f.kind = "retry" => t.ctx.state = "refining" /\ t.mics = {} /\ t.peers = {}
         /\ \A p \in t.peers : p.id = t.peer
         /\ t.mics \subseteq {Stream(t.stream), Clone(t.recorder)}
<1>1. ~Opens(f)
  BY DEF InOrder, OpeningIs
<1>2. t.flows = {f}
  BY OnlyCall DEF InOrder
<1>3. t.ctx.state \in {"finishing", "refining"} => t.outcome = "asking"
  BY DEF InOrder, StateOf
<1>4. (\A p \in t.peers : p.id = t.peer) /\ t.mics \subseteq {Stream(t.stream), Clone(t.recorder)}
  BY DEF InOrder, OpenIs
<1> QED
  BY <1>1, <1>2, <1>3, <1>4 DEF InOrder, ClosingIs

LEMMA ClosingTexts ==
  ASSUME NEW t, InOrder(t), Clean(t), NEW f \in t.flows,
         f.at \in {"collect", "recorder", "refine", "transcribe", "polish"}
  PROVE  /\ f.kind = "finish" => NoRepeat(f.live)
         /\ f.at # "collect" =>
              /\ NoRepeat(t.ctx.final) /\ NoRepeat(t.ctx.frozen)
              /\ t.ctx.state \in {"finishing", "refining"} => NoRepeat(t.answer)
         /\ f.at = "collect" /\ f.live = <<>> => NoRepeat(t.answer)
<1>1. t.flows = {f}
  BY Closing
<1> QED
  BY <1>1 DEF Clean, Collects

\* The wait for the draft is over: what finishing put together gives way to it.
LEMMA CollectOrder ==
  ASSUME Steady(tab), InOrder(tab), Clean(tab), NEW f \in tab.flows, CollectLiveDraft(f)
  PROVE  InOrder(tab') /\ Clean(tab') /\ tab'.overlapped = tab.overlapped
<1> DEFINE draft == Drafted(f)
           a == [tab EXCEPT !.ctx.frozen = draft, !.ctx.final = draft]
           c == [tab.ctx EXCEPT !.frozen = draft, !.final = draft]
           t == OnContext(a)
           g == [f EXCEPT !.at = "recorder", !.live = draft]
<1>1. f.at = "collect" /\ tab' = Continues(t, f, g)
  BY Zenon DEF CollectLiveDraft
<1>2. /\ tab.flows = {f} /\ ~Opens(f) /\ f.kind = "finish"
      /\ tab.ctx.state \in {"finishing", "refining", "error", "fallback_text", "idle"}
      /\ tab.ctx.state \in {"finishing", "refining"} => tab.outcome = "asking"
  BY <1>1, Closing
<1>3. NoRepeat(f.live) /\ (f.live = <<>> => NoRepeat(tab.answer))
  BY <1>1, <1>2, ClosingTexts
<1>4. /\ tab \in Tabs /\ tab.ctx \in Contexts /\ f \in Flows /\ f.live \in Texts
  BY TabFields DEF Steady, Flows
<1>5. draft \in Texts /\ NoRepeat(draft) /\ (draft = <<>> => f.live = <<>>)
  BY <1>3, <1>4, CleanTexts DEF Drafted
<1> HIDE DEF draft
<1>6. Steady(t) /\ Steady(a)
  BY <1>5, SteadyFrozen
<1>7. c \in Contexts /\ c.state = tab.ctx.state /\ c.final = draft /\ c.frozen = draft
  BY <1>4, <1>5 DEF Contexts
<1>8. a = [tab EXCEPT !.ctx = c]
  BY <1>4 DEF Tabs, Contexts
<1> HIDE DEF c
<1>9. /\ a.ctx = c /\ a.answer = tab.answer /\ SameHands(a, tab) /\ SameMedia(a, tab)
      /\ SamePeers(a, tab) /\ a.flows = tab.flows
  <2> HIDE DEF a
  <2> QED
    BY <1>4, <1>7, <1>8 DEF Tabs, SameHands, SameMedia, SamePeers
<1>10. /\ t.answer = Boxed(a.ctx, a) /\ t.ctx = a.ctx
       /\ SameHands(t, a) /\ SameMedia(t, a) /\ SamePeers(t, a) /\ t.flows = a.flows
  <2>1. a \in Tabs
    BY <1>6, Zenon DEF Steady
  <2> HIDE DEF a
  <2> QED
    BY <2>1, OnContextSets
<1> HIDE DEF t, a
<1>11. g \in Flows /\ g.kind = "finish" /\ g.at = "recorder" /\ g.live = draft
  BY <1>2, <1>4, <1>5 DEF Flows
<1> HIDE DEF g
<1>12. c.state \in {"finishing", "refining"} => NoRepeat(t.answer)
  <2>1. ASSUME c.state \in {"finishing", "refining"}
        PROVE  NoRepeat(t.answer)
    <3>1. Boxed(c, a) = IF FrozenOr(c) # <<>> THEN FrozenOr(c) ELSE a.answer
      BY <1>6, <2>1, BoxedTexts
    <3>2. FrozenOr(c) = draft
      BY <1>7 DEF FrozenOr
    <3> QED
      BY <1>3, <1>5, <1>9, <1>10, <3>1, <3>2
  <2> QED
    BY <2>1
<1>13. /\ SameHands(tab', t) /\ SameMedia(tab', t) /\ SamePeers(tab', t)
       /\ SameText(tab', t) /\ tab'.flows = (t.flows \ {f}) \cup {g}
  BY <1>1, <1>6, <1>11, Awaited
<1>14. SameHands(tab', tab) /\ SameMedia(tab', tab) /\ SamePeers(tab', tab)
  BY <1>9, <1>10, <1>13, Zenon DEF SameHands, SameMedia, SamePeers
<1>15. /\ tab'.flows = {g} /\ tab'.ctx = c /\ tab'.answer = t.answer
  BY <1>2, <1>9, <1>10, <1>13 DEF SameText
<1>16. OpenIs(tab')
  BY <1>14 DEF InOrder, OpenIs, SameMedia, SamePeers
<1>17. InOrder(tab')
  BY <1>2, <1>7, <1>11, <1>14, <1>15, <1>16
     DEF InOrder, OneCall, StateOf, OpeningIs, ClosingIs, Opens, LiveSpeaking, Reviewed, SameHands
<1>18. Clean(tab')
  BY <1>2, <1>5, <1>7, <1>11, <1>12, <1>15
     DEF Clean, Collects, Drafting, LiveSpeaking, Reviewed
<1> QED
  BY <1>14, <1>17, <1>18 DEF SameHands

\* The outcome of the accuracy pass reaches a page that still refines, or it does not.
LEMMA OutcomeOrder ==
  ASSUME NEW t, Steady(t), NEW e \in Events, NEW u, u = Dispatch(t, e),
         \/ e = Event("REFINE_FAILED")
         \/ \E text \in Texts : NoRepeat(text) /\ e = Says("REFINED", text),
         NoRepeat(t.ctx.final), NoRepeat(t.ctx.frozen),
         t.ctx.state \in {"finishing", "refining"} => NoRepeat(t.answer),
         t.ctx.state \in {"finishing", "refining", "error", "fallback_text", "idle"}
  PROVE  /\ Steady(u) /\ SameHands(u, t) /\ SameMedia(u, t) /\ SamePeers(u, t)
         /\ u.flows = t.flows /\ NoRepeat(u.ctx.final) /\ NoRepeat(u.ctx.frozen)
         /\ \/ u.ctx.state \in Reviewed /\ NoRepeat(u.answer)
            \/ /\ u.ctx.state \in {"error", "fallback_text", "idle"}
               /\ t.ctx.state \notin {"finishing", "refining"}
<1>1. /\ Steady(u) /\ u.ctx = Reduce(t.ctx, e) /\ u.answer = Boxed(u.ctx, t)
      /\ SameHands(u, t) /\ SameMedia(u, t) /\ SamePeers(u, t) /\ u.flows = t.flows
  BY Dispatches, Zenon
<1>2. t.ctx \in Contexts
  BY CleanTexts
<1>3. /\ NoRepeat(u.ctx.final) /\ NoRepeat(u.ctx.frozen)
      /\ IF t.ctx.state \in {"finishing", "refining"}
         THEN u.ctx.state \in Reviewed ELSE u.ctx.state = t.ctx.state
  <2>1. CASE e = Event("REFINE_FAILED")
    <3>1. /\ u.ctx.frozen = t.ctx.frozen
          /\ IF t.ctx.state \in {"refining", "finishing"}
             THEN u.ctx.state = "refinement_failed" /\ u.ctx.final = FrozenOr(t.ctx)
             ELSE u.ctx.state = t.ctx.state /\ u.ctx.final = t.ctx.final
      BY <1>1, <1>2, <2>1, Moves
    <3>2. NoRepeat(FrozenOr(t.ctx))
      BY DEF FrozenOr
    <3> QED
      BY <3>1, <3>2 DEF Reviewed
  <2>2. CASE \E text \in Texts : NoRepeat(text) /\ e = Says("REFINED", text)
    <3>1. PICK text \in Texts : NoRepeat(text) /\ e = Says("REFINED", text)
      BY <2>2
    <3>2. u.ctx = IF t.ctx.state \in {"refining", "finishing"}
                  THEN [t.ctx EXCEPT !.final = text, !.state = "ready_to_edit"] ELSE t.ctx
      BY <1>1, <1>2, <3>1, Reduces
    <3>3. CASE t.ctx.state \in {"refining", "finishing"}
      <4>1. u.ctx.final = text /\ u.ctx.state = "ready_to_edit" /\ u.ctx.frozen = t.ctx.frozen
        BY <1>2, <3>2, <3>3 DEF Contexts
      <4> QED
        BY <3>1, <3>3, <4>1 DEF Reviewed
    <3>4. CASE t.ctx.state \notin {"refining", "finishing"}
      BY <3>2, <3>4
    <3> QED
      BY <3>3, <3>4
  <2> QED
    BY <2>1, <2>2
<1>4. u.ctx.state \in Reviewed => NoRepeat(u.answer)
  <2>1. ASSUME u.ctx.state \in Reviewed
        PROVE  t.ctx.state \in {"finishing", "refining"}
    BY <1>3, <2>1 DEF Reviewed
  <2> QED
    BY <1>1, <1>3, <2>1, BoxedTexts
<1> QED
  BY <1>1, <1>3, <1>4

\* The call that is over closes what its recording had open.
LEMMA ClosedOrder ==
  ASSUME NEW u, Steady(u), NEW f, u.flows = {f}, NoRepeat(u.ctx.final), NoRepeat(u.ctx.frozen),
         \A p \in u.peers : p.id = u.peer,
         u.mics \subseteq {Stream(u.stream), Clone(u.recorder)},
         \/ u.ctx.state \in Reviewed /\ NoRepeat(u.answer)
         \/ u.ctx.state \in {"error", "fallback_text", "idle"},
         \/ tab' = Ends(TeardownMedia(u), f)
         \/ tab' = Ends(u, f) /\ u.mics = {} /\ u.peers = {}
  PROVE  InOrder(tab') /\ Clean(tab') /\ tab'.overlapped = u.overlapped
<1>1. ASSUME NEW v, Steady(v), tab' = Ends(v, f), v.mics = {}, v.peers = {},
             SameHands(v, u), SameText(v, u), v.flows = u.flows
      PROVE  InOrder(tab') /\ Clean(tab') /\ tab'.overlapped = u.overlapped
  <2>1. /\ SameHands(tab', v) /\ SameMedia(tab', v) /\ SamePeers(tab', v)
        /\ SameText(tab', v) /\ tab'.flows = v.flows \ {f}
    BY <1>1, Awaited
  <2>2. tab'.flows = {} /\ tab'.mics = {} /\ tab'.peers = {}
    BY <1>1, <2>1 DEF SameMedia, SamePeers
  <2>3. tab'.ctx = u.ctx /\ tab'.answer = u.answer /\ tab'.overlapped = u.overlapped
    BY <1>1, <2>1, Zenon DEF SameText, SameHands
  <2>4. OpenIs(tab')
    BY <2>2 DEF OpenIs
  <2> QED
    BY <2>2, <2>3, <2>4, StillOrder
<1>2. CASE tab' = Ends(TeardownMedia(u), f)
  <2> PICK v : v = TeardownMedia(u)
    OBVIOUS
  <2>1. /\ Steady(v) /\ SameHands(v, u) /\ SameText(v, u) /\ v.flows = u.flows
        /\ v.peers = {p \in u.peers : p.id # u.peer}
        /\ v.mics = u.mics \ {Stream(u.stream), Clone(u.recorder)}
    BY Closes
  <2>2. v.peers = {} /\ v.mics = {}
    BY <2>1
  <2>3. tab' = Ends(v, f)
    BY <1>2
  <2> QED
    BY <1>1, <2>1, <2>2, <2>3
<1>3. CASE tab' = Ends(u, f) /\ u.mics = {} /\ u.peers = {}
  <2>1. SameHands(u, u) /\ SameText(u, u)
    BY DEF SameHands, SameText
  <2> QED
    BY <1>1, <1>3, <2>1
<1> QED
  BY <1>2, <1>3

\* The recorder has stopped: the recording is refined, or the draft is the answer.
LEMMA RecorderOrder ==
  ASSUME Steady(tab), InOrder(tab), Clean(tab), NEW f \in tab.flows, RecorderStops(f)
  PROVE  InOrder(tab') /\ Clean(tab') /\ tab'.overlapped = tab.overlapped
<1> DEFINE blob == IF tab.recorder # 0 THEN tab.recorder ELSE tab.chunks
           kept == IF blob # 0 THEN blob ELSE tab.audioBlob
           off == [tab EXCEPT !.recorder = 0, !.mics = @ \ {Clone(tab.recorder)},
                              !.audioBlob = IF blob # 0 THEN blob ELSE @, !.timer = FALSE]
           ms == tab.mics \ {Clone(tab.recorder)}
           c == TeardownPeerOnly(off)
           d == Dispatch(c, Event("FINISHING_DONE"))
           r == Dispatch(d, Event("REFINING"))
           outcome == IF f.live # <<>> THEN Says("REFINED", f.live) ELSE Event("REFINE_FAILED")
           h == Dispatch(r, outcome)
           g == [f EXCEPT !.at = "refine", !.take = blob]
<1>1. /\ f.at = "recorder"
      /\ \/ tab' = Continues(r, f, g)
         \/ tab' = Ends(TeardownMedia(ReleaseAudioBlob(h)), f)
  BY Zenon DEF RecorderStops
<1>2. /\ tab.flows = {f} /\ ~Opens(f) /\ f.kind = "finish"
      /\ tab.ctx.state \in {"finishing", "refining", "error", "fallback_text", "idle"}
      /\ tab.ctx.state \in {"finishing", "refining"} => tab.outcome = "asking"
      /\ \A p \in tab.peers : p.id = tab.peer
      /\ tab.mics \subseteq {Stream(tab.stream), Clone(tab.recorder)}
  BY <1>1, Closing
<1>3. /\ NoRepeat(f.live) /\ NoRepeat(tab.ctx.final) /\ NoRepeat(tab.ctx.frozen)
      /\ tab.ctx.state \in {"finishing", "refining"} => NoRepeat(tab.answer)
  BY <1>1, <1>2, ClosingTexts
<1>4. /\ tab \in Tabs /\ tab.ctx \in Contexts /\ f \in Flows /\ f.live \in Texts
      /\ blob \in 0..MaxTakes /\ kept \in 0..MaxTakes
      /\ ms \in SUBSET ((0..MaxTakes) \X {"stream", "recorder"})
  BY TabFields DEF Steady, Flows
<1>5. g \in Flows /\ g.kind = "finish" /\ g.at = "refine" /\ g.live = f.live
  <2> HIDE DEF blob
  <2> QED
    BY <1>2, <1>4 DEF Flows
<1> HIDE DEF g
<1>6. ms \subseteq {Stream(tab.stream)}
  BY <1>2
<1>7. off = [tab EXCEPT !.recorder = 0, !.mics = ms, !.audioBlob = kept, !.timer = FALSE]
  BY <1>4 DEF Tabs
<1> HIDE DEF ms, kept, blob, off
<1>8. /\ off \in Tabs /\ SameHands(off, tab) /\ SamePeers(off, tab) /\ SameText(off, tab)
      /\ off.flows = tab.flows /\ off.stream = tab.stream /\ off.recorder = 0 /\ off.mics = ms
  BY <1>4, <1>7, Bounds DEF Tabs, SameHands, SamePeers, SameText
<1>9. Steady(off)
  <2>1. off.store = tab.store /\ off.ctx = tab.ctx
    BY <1>8, Zenon DEF SameHands, SameText
  <2> QED
    BY <1>8, <2>1, SteadySame, Zenon
<1>10. /\ Steady(c) /\ SameHands(c, off) /\ SameMedia(c, off) /\ SameText(c, off)
       /\ c.flows = off.flows /\ c.peers = {}
  <2>1. {p \in off.peers : p.id # off.peer} = {}
    BY <1>2, <1>8 DEF SamePeers
  <2> QED
    BY <1>9, <2>1, Closes
<1> HIDE DEF c
<1>11. Event("FINISHING_DONE") \in Events /\ Event("REFINING") \in Events
  BY EventsAre
<1>12. /\ Steady(d) /\ d.ctx = Reduce(c.ctx, Event("FINISHING_DONE")) /\ d.answer = Boxed(d.ctx, c)
       /\ SameHands(d, c) /\ SameMedia(d, c) /\ SamePeers(d, c) /\ d.flows = c.flows
  BY <1>10, <1>11, Dispatches, Zenon
<1> HIDE DEF d
<1>13. /\ Steady(r) /\ r.ctx = Reduce(d.ctx, Event("REFINING")) /\ r.answer = Boxed(r.ctx, d)
       /\ SameHands(r, d) /\ SameMedia(r, d) /\ SamePeers(r, d) /\ r.flows = d.flows
  BY <1>11, <1>12, Dispatches, Zenon
<1> HIDE DEF r
<1>14. c.ctx = tab.ctx /\ c.answer = tab.answer
  BY <1>8, <1>10, Zenon DEF SameText
<1>15. /\ SameTexts(d.ctx, tab.ctx)
       /\ d.ctx.state = IF tab.ctx.state = "finishing" THEN "refining" ELSE tab.ctx.state
  BY <1>4, <1>12, <1>14, Moves
<1>16. /\ SameTexts(r.ctx, tab.ctx)
       /\ r.ctx.state = IF tab.ctx.state \in {"finishing", "refining"} THEN "refining"
                        ELSE tab.ctx.state
  <2>1. /\ SameTexts(r.ctx, d.ctx)
        /\ r.ctx.state = IF d.ctx.state \in {"finishing", "refining", "refinement_failed"}
                         THEN "refining" ELSE d.ctx.state
    BY <1>12, <1>13, CleanTexts, Moves
  <2> QED
    BY <1>2, <1>15, <2>1 DEF SameTexts
<1>17. NoRepeat(r.ctx.final) /\ NoRepeat(r.ctx.frozen)
  BY <1>3, <1>16 DEF SameTexts
<1>18. r.ctx.state = "refining" => NoRepeat(r.answer)
  <2>1. ASSUME tab.ctx.state \in {"finishing", "refining"}
        PROVE  NoRepeat(r.answer)
    <3>1. NoRepeat(d.answer)
      BY <1>3, <1>10, <1>12, <1>14, <1>15, <2>1, BoxedTexts DEF SameTexts
    <3> QED
      BY <1>12, <1>13, <1>17, <3>1, BoxedTexts
  <2> QED
    BY <1>2, <1>16, <2>1
<1>19. SameHands(r, tab)
  BY <1>8, <1>10, <1>12, <1>13, Zenon DEF SameHands
<1>20. /\ r.stream = tab.stream /\ r.recorder = 0 /\ r.mics = ms /\ r.peers = {}
  BY <1>8, <1>10, <1>12, <1>13, Zenon DEF SameMedia, SamePeers
<1>21. r.flows = {f} /\ r.mics \subseteq {Stream(r.stream), Clone(r.recorder)}
  BY <1>2, <1>6, <1>8, <1>10, <1>12, <1>13, <1>20
<1>22. CASE tab' = Continues(r, f, g)
  <2>1. /\ SameHands(tab', r) /\ SameMedia(tab', r) /\ SamePeers(tab', r)
        /\ SameText(tab', r) /\ tab'.flows = (r.flows \ {f}) \cup {g}
    BY <1>5, <1>13, <1>22, Awaited
  <2>2. tab'.flows = {g} /\ tab'.peers = {} /\ tab'.ctx = r.ctx /\ tab'.answer = r.answer
    BY <1>20, <1>21, <2>1 DEF SamePeers, SameText
  <2>3. SameHands(tab', tab)
    BY <1>19, <2>1, Zenon DEF SameHands
  <2>4. OpenIs(tab')
    BY <1>21, <2>1, <2>2 DEF OpenIs, SameMedia
  <2>5. InOrder(tab')
    BY <1>2, <1>5, <1>16, <2>2, <2>3, <2>4
       DEF InOrder, OneCall, StateOf, OpeningIs, ClosingIs, Opens, LiveSpeaking, Reviewed, SameHands
  <2>6. Clean(tab')
    BY <1>2, <1>3, <1>5, <1>16, <1>17, <1>18, <2>2
       DEF Clean, Collects, Drafting, LiveSpeaking, Reviewed
  <2> QED
    BY <2>3, <2>5, <2>6 DEF SameHands
<1>23. CASE tab' = Ends(TeardownMedia(ReleaseAudioBlob(h)), f)
  <2>1. /\ outcome \in Events
        /\ \/ outcome = Event("REFINE_FAILED")
           \/ \E text \in Texts : NoRepeat(text) /\ outcome = Says("REFINED", text)
    BY <1>3, <1>4, EventsAre
  <2>2. r.ctx.state \in {"finishing", "refining", "error", "fallback_text", "idle"}
        /\ (r.ctx.state \in {"finishing", "refining"} => NoRepeat(r.answer))
    BY <1>2, <1>16, <1>18
  <2> HIDE DEF outcome
  <2>3. /\ Steady(h) /\ SameHands(h, r) /\ SameMedia(h, r) /\ SamePeers(h, r)
        /\ h.flows = r.flows /\ NoRepeat(h.ctx.final) /\ NoRepeat(h.ctx.frozen)
        /\ \/ h.ctx.state \in Reviewed /\ NoRepeat(h.answer)
           \/ h.ctx.state \in {"error", "fallback_text", "idle"}
    BY <1>13, <1>17, <2>1, <2>2, OutcomeOrder
  <2> PICK u : u = ReleaseAudioBlob(h)
    OBVIOUS
  <2>4. tab' = Ends(TeardownMedia(u), f)
    BY <1>23
  <2> HIDE DEF h
  <2>5. /\ Steady(u) /\ SameHands(u, h) /\ SameMedia(u, h) /\ SamePeers(u, h)
        /\ SameText(u, h) /\ u.flows = h.flows
    BY <2>3, Closes
  <2>6. /\ u.mics \subseteq {Stream(u.stream), Clone(u.recorder)} /\ u.peers = {} /\ u.flows = {f}
    BY <1>20, <1>21, <2>3, <2>5 DEF SameMedia, SamePeers
  <2>7. u.ctx = h.ctx /\ u.answer = h.answer /\ u.overlapped = tab.overlapped
    BY <1>19, <2>3, <2>5, Zenon DEF SameText, SameHands
  <2> QED
    BY <2>3, <2>4, <2>5, <2>6, <2>7, ClosedOrder
<1> QED
  BY <1>1, <1>22, <1>23

LEMMA FinishingOrder ==
  ASSUME Steady(tab), InOrder(tab), Clean(tab), NEW f \in tab.flows, Finishing(f)
  PROVE  InOrder(tab') /\ Clean(tab') /\ tab'.overlapped = tab.overlapped
BY CollectOrder, RecorderOrder, Zenon DEF Finishing

\* The request has ended, with a text or without.
LEMMA AnsweredOrder ==
  ASSUME Steady(tab), InOrder(tab), Clean(tab), NEW f \in tab.flows,
         f.at \in {"refine", "transcribe", "polish"}, Refuses(f) \/ Replies(f)
  PROVE  InOrder(tab') /\ Clean(tab') /\ tab'.overlapped = tab.overlapped
<1>1. /\ tab.flows = {f} /\ f.kind \in {"finish", "retry"}
      /\ tab.ctx.state \in {"finishing", "refining", "error", "fallback_text", "idle"}
      /\ f.kind = "retry" => tab.mics = {} /\ tab.peers = {}
      /\ \A p \in tab.peers : p.id = tab.peer
      /\ tab.mics \subseteq {Stream(tab.stream), Clone(tab.recorder)}
  BY Closing
<1>2. /\ NoRepeat(tab.ctx.final) /\ NoRepeat(tab.ctx.frozen)
      /\ tab.ctx.state \in {"finishing", "refining"} => NoRepeat(tab.answer)
  BY ClosingTexts
<1>3. PICK e, d :
        /\ e \in Events
        /\ d = Dispatch(tab, e)
        /\ \/ e = Event("REFINE_FAILED")
           \/ \E text \in Texts : NoRepeat(text) /\ e = Says("REFINED", text)
        /\ \E u \in {d, ReleaseAudioBlob(d)} :
             tab' = Ends(IF f.kind = "finish" THEN TeardownMedia(u) ELSE u, f)
  <2>1. CASE Refuses(f)
    <3>1. Event("REFINE_FAILED") \in Events
      BY EventsAre
    <3>2. tab' = Ends(IF f.kind = "finish" THEN TeardownMedia(Dispatch(tab, Event("REFINE_FAILED")))
                      ELSE Dispatch(tab, Event("REFINE_FAILED")), f)
      BY <2>1, Zenon DEF Refuses
    <3> QED
      BY <3>1, <3>2
  <2>2. CASE Replies(f)
    <3> DEFINE text == <<Refined(f.take)>>
    <3>1. f \in Flows
      BY TabFields DEF Steady
    <3>2. text \in Texts /\ NoRepeat(text)
      BY <3>1, Bounds DEF Flows, Texts, Words, Refined, NoRepeat
    <3> HIDE DEF text
    <3>3. Says("REFINED", text) \in Events
      BY <3>2, EventsAre
    <3>4. tab' = Ends(IF f.kind = "finish"
                      THEN TeardownMedia(ReleaseAudioBlob(Dispatch(tab, Says("REFINED", text))))
                      ELSE ReleaseAudioBlob(Dispatch(tab, Says("REFINED", text))), f)
      BY <2>2, Zenon DEF Replies, text
    <3> QED
      BY <3>2, <3>3, <3>4
  <2> QED
    BY <2>1, <2>2
<1>4. /\ Steady(d) /\ SameHands(d, tab) /\ SameMedia(d, tab) /\ SamePeers(d, tab)
      /\ d.flows = tab.flows /\ NoRepeat(d.ctx.final) /\ NoRepeat(d.ctx.frozen)
      /\ \/ d.ctx.state \in Reviewed /\ NoRepeat(d.answer)
         \/ d.ctx.state \in {"error", "fallback_text", "idle"}
  BY <1>1, <1>2, <1>3, OutcomeOrder
<1>5. PICK u \in {d, ReleaseAudioBlob(d)} :
        tab' = Ends(IF f.kind = "finish" THEN TeardownMedia(u) ELSE u, f)
  BY <1>3
<1>6. /\ Steady(u) /\ SameHands(u, d) /\ SameMedia(u, d) /\ SamePeers(u, d)
      /\ SameText(u, d) /\ u.flows = d.flows
  <2>1. CASE u = d
    BY <1>4, <2>1 DEF SameHands, SameMedia, SamePeers, SameText
  <2>2. CASE u = ReleaseAudioBlob(d)
    BY <1>4, <2>2, Closes
  <2> QED
    BY <1>5, <2>1, <2>2
<1>7. /\ u.mics = tab.mics /\ u.stream = tab.stream /\ u.recorder = tab.recorder
      /\ u.peers = tab.peers /\ u.peer = tab.peer /\ u.flows = tab.flows
      /\ u.ctx = d.ctx /\ u.answer = d.answer /\ u.overlapped = tab.overlapped
  BY <1>4, <1>6, Zenon DEF SameHands, SameMedia, SamePeers, SameText
<1>8. /\ u.flows = {f} /\ \A p \in u.peers : p.id = u.peer
      /\ u.mics \subseteq {Stream(u.stream), Clone(u.recorder)}
  BY <1>1, <1>7
<1>9. \/ tab' = Ends(TeardownMedia(u), f)
      \/ tab' = Ends(u, f) /\ u.mics = {} /\ u.peers = {}
  BY <1>1, <1>5, <1>7
<1> QED
  BY <1>4, <1>6, <1>7, <1>8, <1>9, ClosedOrder

\* The server goes on with the request.
LEMMA ServedOrder ==
  ASSUME Steady(tab), InOrder(tab), Clean(tab), NEW f \in tab.flows,
         f.at \in {"refine", "transcribe", "polish"}, NEW g \in Flows,
         g.kind = f.kind, g.live = f.live, g.at \in {"transcribe", "polish"},
         tab' = Continues(tab, f, g)
  PROVE  InOrder(tab') /\ Clean(tab') /\ tab'.overlapped = tab.overlapped
<1>1. /\ tab.flows = {f} /\ ~Opens(f) /\ f.kind \in {"finish", "retry"}
      /\ tab.ctx.state \in {"refining", "error", "fallback_text", "idle"}
      /\ tab.ctx.state = "refining" => tab.outcome = "asking"
      /\ f.kind = "retry" => tab.ctx.state = "refining" /\ tab.mics = {} /\ tab.peers = {}
  BY Closing
<1>2. /\ NoRepeat(tab.ctx.final) /\ NoRepeat(tab.ctx.frozen)
      /\ tab.ctx.state = "refining" => NoRepeat(tab.answer)
      /\ f.kind = "finish" => NoRepeat(f.live)
  BY ClosingTexts
<1>3. /\ SameHands(tab', tab) /\ SameMedia(tab', tab) /\ SamePeers(tab', tab)
      /\ SameText(tab', tab) /\ tab'.flows = (tab.flows \ {f}) \cup {g}
  BY Awaited
<1>4. tab'.flows = {g} /\ tab'.ctx = tab.ctx /\ tab'.answer = tab.answer
  BY <1>1, <1>3 DEF SameText
<1>5. OpenIs(tab')
  BY <1>3 DEF InOrder, OpenIs, SameMedia, SamePeers
<1>6. InOrder(tab')
  BY <1>1, <1>3, <1>4, <1>5
     DEF InOrder, OneCall, StateOf, OpeningIs, ClosingIs, Opens, LiveSpeaking, Reviewed,
         SameHands, SameMedia, SamePeers
<1>7. Clean(tab')
  BY <1>1, <1>2, <1>4 DEF Clean, Collects, Drafting, LiveSpeaking, Reviewed
<1> QED
  BY <1>3, <1>6, <1>7 DEF SameHands

LEMMA RefinesOrder ==
  ASSUME Formed, InOrder(tab), Clean(tab), NEW f \in tab.flows, Refines(f)
  PROVE  InOrder(tab') /\ Clean(tab') /\ tab'.overlapped = tab.overlapped
<1>1. Steady(tab) /\ f \in Flows /\ stored \in 0..MaxUploads
  BY FormedSteady, TabFields DEF Steady, Formed, TypeOK
<1>2. CASE UploadRefused(f) \/ Transcribed(f) \/ Polished(f) \/ Crash(f)
  <2>1. Refuses(f) \/ Replies(f)
    BY <1>2, Zenon DEF UploadRefused, Transcribed, Polished, Crash
  <2>2. f.at \in {"refine", "transcribe", "polish"}
    BY <1>2 DEF UploadRefused, Transcribed, Polished, Crash, Serving
  <2> QED
    BY <1>1, <2>1, <2>2, AnsweredOrder
<1>3. CASE UploadStored(f)
  <2> DEFINE g == [f EXCEPT !.at = "transcribe", !.attempt = 1, !.upload = stored']
  <2>1. stored' \in 0..MaxUploads
    <3>1. stored < MaxUploads /\ stored' = stored + 1 /\ MaxUploads \in Nat
      BY <1>3, Bounds, Zenon DEF UploadStored
    <3> QED
      BY <1>1, <3>1
  <2>2. g \in Flows /\ g.kind = f.kind /\ g.live = f.live /\ g.at = "transcribe"
    BY <1>1, <2>1, Bounds DEF Flows
  <2>3. f.at = "refine" /\ (tab' = Continues(tab, f, g) \/ Refuses(f))
    BY <1>3, Zenon DEF UploadStored
  <2> HIDE DEF g
  <2>4. CASE tab' = Continues(tab, f, g)
    BY <1>1, <2>2, <2>3, <2>4, ServedOrder
  <2>5. CASE Refuses(f)
    BY <1>1, <2>3, <2>5, AnsweredOrder
  <2> QED
    BY <2>3, <2>4, <2>5
<1>4. CASE AttemptFails(f)
  <2>1. f.attempt < MaxAttempts => f.attempt + 1 \in 0..MaxAttempts
    <3>1. f.attempt \in 0..MaxAttempts /\ MaxAttempts \in Nat
      BY <1>1, Bounds DEF Flows
    <3> QED
      BY <3>1
  <2> DEFINE more == f.attempt + 1
             a == [f EXCEPT !.attempt = more]
             b == [f EXCEPT !.at = "polish"]
  <2>2. /\ f.at = "transcribe"
        /\ \/ f.attempt < MaxAttempts /\ tab' = Continues(tab, f, a)
           \/ tab' = Continues(tab, f, b)
    BY <1>4, Zenon DEF AttemptFails
  <2>3. b \in Flows /\ b.kind = f.kind /\ b.live = f.live /\ b.at = "polish"
    BY <1>1 DEF Flows
  <2>4. f.attempt < MaxAttempts => more \in 0..MaxAttempts
    BY <2>1
  <2> HIDE DEF more, b
  <2>5. /\ more \in 0..MaxAttempts => a \in Flows
        /\ a.kind = f.kind /\ a.live = f.live /\ a.at = f.at
    BY <1>1 DEF Flows
  <2> HIDE DEF a
  <2>6. CASE f.attempt < MaxAttempts /\ tab' = Continues(tab, f, a)
    BY <1>1, <2>2, <2>4, <2>5, <2>6, ServedOrder
  <2>7. CASE tab' = Continues(tab, f, b)
    BY <1>1, <2>2, <2>3, <2>7, ServedOrder
  <2> QED
    BY <2>2, <2>6, <2>7
<1>5. CASE UploadNotStored(f)
  <2> DEFINE g == [f EXCEPT !.at = "polish"]
  <2>1. g \in Flows /\ g.kind = f.kind /\ g.live = f.live /\ g.at = "polish"
    BY <1>1 DEF Flows
  <2>2. f.at = "refine" /\ tab' = Continues(tab, f, g)
    BY <1>5, Zenon DEF UploadNotStored
  <2> HIDE DEF g
  <2> QED
    BY <1>1, <2>1, <2>2, ServedOrder
<1> QED
  BY <1>2, <1>3, <1>4, <1>5 DEF Refines

\* Recordings that have overlapped have overlapped.
Over(t) == "overlapped" \in DOMAIN t /\ t.overlapped

LEMMA OverlapKept ==
  ASSUME NEW t, Over(t)
  PROVE  /\ \A v : Over([t EXCEPT !.answer = v])
         /\ \A v, w : Over([t EXCEPT !.audioBlob = v, !.store = w])
         /\ \A v : Over([t EXCEPT !.timer = v])
         /\ \A v : Over([t EXCEPT !.store = v])
         /\ \A v, w : Over([t EXCEPT !.editing = v, !.answer = w])
         /\ \A v : Over([t EXCEPT !.editing = v])
         /\ \A v : Over([t EXCEPT !.peers = v])
         /\ \A v : Over([t EXCEPT !.ctx.frozen = v, !.ctx.final = v])
BY DEF Over

LEMMA OverlapOf ==
  ASSUME NEW t, Over(t)
  PROVE  /\ Over(OnContext(t)) /\ Over(TeardownPeerOnly(t)) /\ Over(TeardownMedia(t))
         /\ Over(ReleaseAudioBlob(t))
         /\ \A e : Over(Dispatch(t, e))
         /\ \A f : Over(Ends(t, f)) /\ Over(Begins(t, f))
         /\ \A f, g : Over(Continues(t, f, g))
<1>1. ASSUME NEW u, Over(u)
      PROVE  Over(OnContext(u))
  BY <1>1, OverlapKept, Zenon DEF OnContext
<1>2. \A e : Over([t EXCEPT !.ctx = Reduce(@, e)])
  BY DEF Over
<1>3. \A e : Over(Dispatch(t, e))
  BY <1>1, <1>2, Zenon DEF Dispatch
<1>4. Over(TeardownPeerOnly(t)) /\ Over(ReleaseAudioBlob(t))
  BY DEF Over, TeardownPeerOnly, ReleaseAudioBlob
<1>5. Over(TeardownMedia(t))
  <2> PICK u : u = TeardownPeerOnly(t)
    OBVIOUS
  <2>1. TeardownMedia(t) = [u EXCEPT !.mics = @ \ {Stream(t.stream), Clone(t.recorder)},
                                     !.stream = 0, !.recorder = 0]
    BY DEF TeardownMedia
  <2>2. Over(u)
    BY <1>4
  <2> QED
    BY <2>1, <2>2 DEF Over
<1>6. /\ \A f : Over(Ends(t, f)) /\ Over(Begins(t, f))
      /\ \A f, g : Over(Continues(t, f, g))
  BY DEF Over, Ends, Begins, Continues
<1> QED
  BY <1>1, <1>3, <1>4, <1>5, <1>6

LEMMA OverlapIn ==
  ASSUME NEW t, Over(t)
  PROVE  /\ \A f : Over(Fails(t, f)) /\ Over(Follows(t, f))
         /\ Over(Breaks(t)) /\ Over(Recover(t)) /\ Over(Finish(t))
         /\ Over(ResetVoiceForNextAnswer(t))
<1>1. Over(Breaks(t))
  BY OverlapOf, Zenon DEF Breaks
<1>2. \A f : Over(Fails(t, f))
  BY <1>1, OverlapOf, Zenon DEF Fails
<1>3. \A f : Over(Follows(t, f))
  BY OverlapOf, OverlapKept, Zenon DEF Follows
<1>4. Over(Recover(t))
  BY OverlapOf, Zenon DEF Recover
<1>5. Over(Finish(t))
  <2> PICK before : before = DisplayAnswerText(t.store)
    OBVIOUS
  <2> PICK d : d = Dispatch(t, Event("FINISH"))
    OBVIOUS
  <2>1. Over(d) /\ Over(OnContext([d EXCEPT !.ctx.frozen = before, !.ctx.final = before]))
    BY OverlapOf, OverlapKept, Zenon
  <2>2. \E u \in {d, OnContext([d EXCEPT !.ctx.frozen = before, !.ctx.final = before])} :
          \E g : Finish(t) = Begins(u, g)
    BY DEF Finish
  <2> QED
    BY <2>1, <2>2, OverlapOf, Zenon
<1>6. ASSUME NEW u, Over(u)
      PROVE  Over(Discard(u))
  <2> PICK a : a = [u EXCEPT !.timer = FALSE]
    OBVIOUS
  <2> PICK b : b = ReleaseAudioBlob(TeardownMedia(a))
    OBVIOUS
  <2> PICK c : c = [b EXCEPT !.audioBlob = u.recorder, !.store = CreateStore]
    OBVIOUS
  <2>1. Over(c)
    BY <1>6, OverlapOf, OverlapKept, Zenon
  <2>2. Discard(u) = Dispatch(c, Event("DISCARD"))
    BY DEF Discard
  <2>3. Over(Dispatch(c, Event("DISCARD")))
    BY <2>1, OverlapOf
  <2> QED
    BY <2>2, <2>3
<1>7. Over(ResetVoiceForNextAnswer(t))
  BY <1>6, OverlapKept, Zenon DEF ResetVoiceForNextAnswer
<1> QED
  BY <1>1, <1>2, <1>3, <1>4, <1>5, <1>7

LEMMA HostOverlaps ==
  ASSUME Over(tab), Host \/ TimeUp \/ Submitted \/ SubmitFails
  PROVE  Over(tab')
<1>1. CASE Start
  <2> DEFINE a == [tab EXCEPT !.editing = @ /\ tab.ctx.state = "permission_denied",
                              !.take = @ + 1,
                              !.overlapped = @ \/ tab.flows # {} \/ tab.mics # {}]
             t == Dispatch(a, Event("START"))
  <2>1. Over(a)
    BY DEF Over
  <2>2. tab' = Begins(ReleaseAudioBlob([t EXCEPT !.store = CreateStore]), Flow("start", "mic", t.take))
    BY <1>1, Zenon DEF Start
  <2> HIDE DEF a
  <2>3. Over(t)
    BY <2>1, OverlapOf
  <2> HIDE DEF t
  <2>4. Over(ReleaseAudioBlob([t EXCEPT !.store = CreateStore]))
    BY <2>3, OverlapOf, OverlapKept, Zenon
  <2> QED
    BY <2>2, <2>4, OverlapOf
<1>2. CASE Pause \/ Resume
  <2>1. tab' = Dispatch(tab, Event("PAUSE")) \/ tab' = Dispatch(tab, Event("RESUME"))
    BY <1>2, Zenon DEF Pause, Resume
  <2> QED
    BY <2>1, OverlapOf
<1>3. CASE HostFinishes \/ TimeUp
  <2>1. tab' = Finish([tab EXCEPT !.editing = FALSE]) \/ tab' = Finish(tab)
    BY <1>3, Zenon DEF HostFinishes, TimeUp
  <2>2. Over([tab EXCEPT !.editing = FALSE])
    BY OverlapKept
  <2> QED
    BY <2>1, <2>2, OverlapIn
<1>4. CASE RetryRefine
  <2>1. tab' = Dispatch(tab, Event("REFINE_FAILED"))
        \/ \E g : tab' = Begins(Dispatch(tab, Event("REFINING")), g)
    BY <1>4 DEF RetryRefine
  <2>2. Over(Dispatch(tab, Event("REFINE_FAILED"))) /\ Over(Dispatch(tab, Event("REFINING")))
    BY OverlapOf
  <2> QED
    BY <2>1, <2>2, OverlapOf
<1>5. CASE HostEdits \/ Submit \/ SubmitFails
  BY <1>5 DEF Over, HostEdits, Submit, SubmitFails
<1>6. CASE HostDiscards \/ Submitted \/ ContinueNext
  <2> PICK u : u = ResetVoiceForNextAnswer(tab)
    OBVIOUS
  <2>1. Over(u)
    BY OverlapIn
  <2>2. tab' = u \/ \E outcome : tab' = [u EXCEPT !.outcome = outcome]
    BY <1>6 DEF HostDiscards, Submitted, ContinueNext
  <2> QED
    BY <2>1, <2>2 DEF Over
<1> QED
  BY <1>1, <1>2, <1>3, <1>4, <1>5, <1>6, Zenon DEF Host

LEMMA ProviderOverlaps ==
  ASSUME Over(tab), Provider
  PROVE  Over(tab')
<1>1. Over(Heard) /\ \A store : Over([Heard EXCEPT !.store = store])
  BY DEF Over, Heard
<1>2. ASSUME NEW p \in tab.peers, Disconnected(p)
      PROVE  Over(tab')
  <2> PICK gone : gone = [tab EXCEPT !.peers = @ \ {p}]
    OBVIOUS
  <2>1. Over(gone)
    BY DEF Over
  <2>2. tab' = gone \/ tab' = Recover(Dispatch(gone, Event("DISCONNECT")))
    BY <1>2 DEF Disconnected
  <2>3. Over(Dispatch(gone, Event("DISCONNECT")))
    BY <2>1, OverlapOf
  <2> QED
    BY <2>1, <2>2, <2>3, OverlapIn
<1>3. ASSUME NEW p \in tab.peers, ProviderError(p)
      PROVE  Over(tab')
  <2>1. tab' = Dispatch(Heard, Event("ERROR")) \/ tab' = TeardownMedia(Breaks(Heard))
    BY <1>3, Zenon DEF ProviderError
  <2>2. Over(Dispatch(Heard, Event("ERROR"))) /\ Over(Breaks(Heard))
    BY <1>1, OverlapOf, OverlapIn
  <2> QED
    BY <2>1, <2>2, OverlapOf
<1>4. ASSUME NEW store, NEW type, Emits(store, type)
      PROVE  Over(tab')
  BY <1>1, <1>4, OverlapOf, Zenon DEF Emits
<1> QED
  BY <1>2, <1>3, <1>4, Zenon DEF Provider, Delta, Completed

LEMMA ConnectingOverlaps ==
  ASSUME Over(tab), NEW f \in tab.flows, Connecting(f)
  PROVE  Over(tab')
<1>1. CASE MicrophoneGranted(f)
  <2> PICK got : got = [tab EXCEPT !.stream = f.take, !.mics = @ \cup {Stream(f.take)}]
    OBVIOUS
  <2> PICK granted : granted = Dispatch(got, Event("PERMISSION_GRANTED"))
    OBVIOUS
  <2>1. Over(got)
    BY DEF Over
  <2>2. Over(granted)
    BY <2>1, OverlapOf
  <2>3. PICK t \in IF f.kind = "recover" THEN {granted} ELSE Records(granted, f.take) :
          tab' = Continues(t, f, [f EXCEPT !.at = "session"])
    BY <1>1, Zenon DEF MicrophoneGranted
  <2>4. ASSUME NEW t1 \in Records(granted, f.take)
        PROVE  Over(t1)
    BY <2>2, <2>4 DEF Over, Records
  <2>5. Over(t)
    BY <2>2, <2>3, <2>4
  <2> QED
    BY <2>3, <2>5, OverlapOf
<1>2. CASE MicrophoneRefused(f) \/ SessionRefused(f) \/ ConnectionFails(f)
  <2>1. \/ tab' = Ends(Fails(tab, f), f)
        \/ tab' = Ends(TeardownMedia(Dispatch(tab, Event("PERMISSION_DENIED"))), f)
    BY <1>2, Zenon DEF MicrophoneRefused, SessionRefused, ConnectionFails
  <2>2. Over(Dispatch(tab, Event("PERMISSION_DENIED"))) /\ Over(Fails(tab, f))
    BY OverlapOf, OverlapIn
  <2>3. Over(TeardownMedia(Dispatch(tab, Event("PERMISSION_DENIED"))))
    BY <2>2, OverlapOf
  <2> QED
    BY <2>1, <2>2, <2>3, OverlapOf
<1>3. CASE SessionMade(f)
  <2> PICK id : id = tab.sessions + 1
    OBVIOUS
  <2> PICK a : a = [tab EXCEPT !.sessions = id, !.peer = id,
                               !.peers = @ \cup {[id |-> id, take |-> f.take, up |-> FALSE]}]
    OBVIOUS
  <2>1. Over(a)
    BY DEF Over
  <2>2. tab' = Continues(a, f, [f EXCEPT !.at = "answer", !.peer = id])
    BY <1>3 DEF SessionMade
  <2> QED
    BY <2>1, <2>2, OverlapOf
<1>4. CASE Connected(f)
  <2> PICK p \in tab.peers :
        tab' = Ends(Follows(Dispatch([tab EXCEPT !.peers =
                        (tab.peers \ {p}) \cup {[p EXCEPT !.up = TRUE]}],
                      Event("CONNECTED")), f), f)
    BY <1>4, Zenon DEF Connected
  <2> PICK up : up = [tab EXCEPT !.peers = (tab.peers \ {p}) \cup {[p EXCEPT !.up = TRUE]}]
    OBVIOUS
  <2>1. Over(Dispatch(up, Event("CONNECTED")))
    BY OverlapOf, OverlapKept, Zenon
  <2>2. Over(Follows(Dispatch(up, Event("CONNECTED")), f))
    BY <2>1, OverlapIn, Zenon
  <2> QED
    BY <2>2, OverlapOf
<1>5. CASE SessionExpired(f)
  <2>1. Over(Ends(tab, f))
    BY OverlapOf
  <2>2. Over(Dispatch(Ends(tab, f), Event("SESSION_EXPIRED")))
    BY <2>1, OverlapOf, Zenon
  <2>3. Over(Recover(Dispatch(Ends(tab, f), Event("SESSION_EXPIRED"))))
    BY <2>2, OverlapIn, Zenon
  <2> QED
    BY <1>5, <2>3, OverlapIn, Zenon DEF SessionExpired
<1> QED
  BY <1>1, <1>2, <1>3, <1>4, <1>5, Zenon DEF Connecting

LEMMA ClosingOverlaps ==
  ASSUME Over(tab), NEW f \in tab.flows, Finishing(f) \/ Refines(f)
  PROVE  Over(tab')
<1>1. CASE CollectLiveDraft(f)
  <2> PICK draft : draft = Drafted(f)
    OBVIOUS
  <2> PICK t : t = OnContext([tab EXCEPT !.ctx.frozen = draft, !.ctx.final = draft])
    OBVIOUS
  <2>1. Over(t)
    BY OverlapOf, OverlapKept, Zenon
  <2>2. tab' = Continues(t, f, [f EXCEPT !.at = "recorder", !.live = draft])
    BY <1>1 DEF CollectLiveDraft
  <2> QED
    BY <2>1, <2>2, OverlapOf
<1>2. CASE RecorderStops(f)
  <2> PICK blob : blob = IF tab.recorder # 0 THEN tab.recorder ELSE tab.chunks
    OBVIOUS
  <2> DEFINE off == [tab EXCEPT !.recorder = 0, !.mics = @ \ {Clone(tab.recorder)},
                                !.audioBlob = IF blob # 0 THEN blob ELSE @, !.timer = FALSE]
             c == TeardownPeerOnly(off)
             d == Dispatch(c, Event("FINISHING_DONE"))
             r == Dispatch(d, Event("REFINING"))
             outcome == IF f.live # <<>> THEN Says("REFINED", f.live) ELSE Event("REFINE_FAILED")
             h == Dispatch(r, outcome)
  <2>1. Over(off)
    BY DEF Over
  <2>2. \/ tab' = Continues(r, f, [f EXCEPT !.at = "refine", !.take = blob])
        \/ tab' = Ends(TeardownMedia(ReleaseAudioBlob(h)), f)
    BY <1>2 DEF RecorderStops
  <2> HIDE DEF off, outcome
  <2>3. Over(c)
    BY <2>1, OverlapOf
  <2>4. Over(d)
    BY <2>3, OverlapOf, Zenon
  <2>5. Over(r)
    BY <2>4, OverlapOf, Zenon
  <2>6. Over(h)
    BY <2>5, OverlapOf, Zenon
  <2> HIDE DEF r, h
  <2>7. Over(ReleaseAudioBlob(h))
    BY <2>6, OverlapOf
  <2>8. Over(TeardownMedia(ReleaseAudioBlob(h)))
    BY <2>7, OverlapOf
  <2> QED
    BY <2>2, <2>5, <2>8, OverlapOf
<1>3. CASE Refines(f)
  <2>1. \/ Refuses(f) \/ Replies(f)
        \/ \E g : tab' = Continues(tab, f, g)
    BY <1>3, Zenon DEF Refines, UploadRefused, UploadStored, UploadNotStored, Transcribed,
       AttemptFails, Polished, Crash
  <2>2. ASSUME NEW t, Over(t)
        PROVE  Over(Ends(IF f.kind = "finish" THEN TeardownMedia(t) ELSE t, f))
    <3>1. Over(TeardownMedia(t))
      BY <2>2, OverlapOf
    <3> QED
      BY <2>2, <3>1, OverlapOf
  <2>3. /\ Over(Dispatch(tab, Event("REFINE_FAILED")))
        /\ Over(ReleaseAudioBlob(Dispatch(tab, Says("REFINED", <<Refined(f.take)>>))))
    BY OverlapOf, Zenon
  <2> QED
    BY <2>1, <2>2, <2>3, OverlapOf, Zenon DEF Refuses, Replies
<1> QED
  BY <1>1, <1>2, <1>3, Zenon DEF Finishing

-----------------------------------------------------------------------------

LEMMA OrderlyStep ==
  ASSUME Formed, Orderly, [Next]_vars
  PROVE  Orderly'
<1>1. Steady(tab) /\ tab \in Tabs
  BY FormedSteady DEF Steady
<1>2. CASE Start
  BY <1>1, <1>2, StartOrder DEF Orderly
<1>3. CASE Next /\ ~Start /\ ~tab.overlapped
  <2>1. InOrder(tab) /\ Clean(tab)
    BY <1>3 DEF Orderly
  <2>2. CASE Host
    BY <1>1, <1>3, <2>1, <2>2, PauseOrder, EditsOrder, SubmitOrder, ResetOrder, RetryOrder,
       FinishesOrder, Zenon DEF Host, Orderly
  <2>3. CASE TimeUp \/ Submitted \/ SubmitFails
    BY <1>1, <1>3, <2>1, <2>3, FinishesOrder, SubmitOrder, ResetOrder, Zenon DEF Orderly
  <2>4. CASE Provider
    BY <1>1, <1>3, <2>1, <2>4, ProviderOrder, Zenon DEF Orderly
  <2>5. CASE \E f \in tab.flows : Connecting(f) \/ Finishing(f) \/ Refines(f)
    BY <1>1, <1>3, <2>1, <2>5, ConnectingOrder, FinishingOrder, RefinesOrder, Zenon DEF Orderly
  <2> QED
    BY <1>3, <2>2, <2>3, <2>4, <2>5, Zenon DEF Next
<1>4. CASE Next /\ tab.overlapped
  <2>1. Over(tab)
    BY <1>1, <1>4 DEF Over, Tabs
  <2>2. Over(tab')
    BY <1>4, <2>1, HostOverlaps, ProviderOverlaps, ConnectingOverlaps, ClosingOverlaps, Zenon
       DEF Next
  <2> QED
    BY <2>2 DEF Over, Orderly
<1>5. CASE UNCHANGED vars
  BY <1>5 DEF vars, Orderly
<1> QED
  BY <1>2, <1>3, <1>4, <1>5

LEMMA OrderlyInit ==
  ASSUME Init
  PROVE  Orderly
<1>1. /\ tab.outcome = "asking" /\ tab.answer = <<>> /\ ~tab.editing /\ tab.flows = {}
      /\ tab.mics = {} /\ tab.peers = {} /\ tab.ctx.state = "idle"
      /\ tab.ctx.final = <<>> /\ tab.ctx.frozen = <<>>
  BY DEF Init, CreateContext
<1>2. OpenIs(tab)
  BY <1>1 DEF OpenIs
<1>3. InOrder(tab) /\ Clean(tab)
  BY <1>1, <1>2, EmptyDraft, StillOrder
<1> QED
  BY <1>3 DEF Orderly

\* Once a finished recording is there to be reviewed, the microphone is off, every
\* connection closed and no call awaited, whatever failed on the way, unless
\* recordings have overlapped; all but the clone of a recorder that failed.
THEOREM MicOff ==
  Spec => []MicReleased
<1>1. Init => Formed /\ Orderly
  BY FormedInit, OrderlyInit
<1>2. Formed /\ Orderly /\ [Next]_vars => (Formed /\ Orderly)'
  BY FormedStep, OrderlyStep
<1>3. Orderly => MicReleased
  BY DEF Orderly, InOrder, StateOf, Reviewed, MicReleased
<1> QED
  BY <1>1, <1>2, <1>3, PTL DEF Spec

\* The text the host is given to review says nothing twice, unless recordings have
\* overlapped: what finishing puts together from the completed text and the live draft
\* gives way to the collected draft before the page can be reviewed.  It is the text of
\* messages that name their segment; without names a segment is said under two.
THEOREM SaidOnce ==
  Spec => []NothingSaidTwice
<1>1. Init => Formed /\ Orderly
  BY FormedInit, OrderlyInit
<1>2. Formed /\ Orderly /\ [Next]_vars => (Formed /\ Orderly)'
  BY FormedStep, OrderlyStep
<1>3. Orderly => NothingSaidTwice
  <2>1. ASSUME Orderly, tab.ctx.state \in Reviewed, ~tab.overlapped
        PROVE  NoRepeat(tab.answer)
    <3>1. tab.flows = {} /\ Clean(tab)
      BY <2>1 DEF Orderly, InOrder, StateOf
    <3> QED
      BY <2>1, <3>1 DEF Clean, Collects
  <2> QED
    BY <2>1 DEF NothingSaidTwice, Reviewed, NoRepeat
<1> QED
  BY <1>1, <1>2, <1>3, PTL DEF Spec

=============================================================================
