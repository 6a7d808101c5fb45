-------------------------------- MODULE Draft --------------------------------
(***************************************************************************)
(* The live draft of an answer: lib/transcriptReconciliation.ts.  A store  *)
(* holds the segments the provider has named, in the order they were first *)
(* seen; the text of a segment is the segment itself, so a text is the     *)
(* sequence of the segments it is made of.                                 *)
(***************************************************************************)
EXTENDS Naturals, Sequences, FiniteSets

CreateStore == <<>>

\* provisional: some delta came before the segment was completed.  A segment may be
\* completed with no words in it.
Item(id, provisional, completed) ==
  [id |-> id, provisional |-> provisional, completed |-> completed]

Seen(store, id) == \E i \in DOMAIN store : store[i].id = id
IsCompleted(store, id) ==
  \E i \in DOMAIN store : store[i].id = id /\ store[i].completed # "no"

\* Changed form: a delta after the completed text opens the segment again.
ApplyDeltaReopens(store, id) ==
  IF ~Seen(store, id) \/ IsCompleted(store, id) THEN Append(store, Item(id, TRUE, "no"))
  ELSE [i \in DOMAIN store |->
          IF store[i].id = id THEN Item(id, TRUE, "no") ELSE store[i]]

\* A delta that comes after the completed text is ignored.
ApplyDelta(store, id) ==
  IF ~Seen(store, id) THEN Append(store, Item(id, TRUE, "no"))
  ELSE IF IsCompleted(store, id) THEN store
  ELSE [i \in DOMAIN store |->
          IF store[i].id = id THEN Item(id, TRUE, "no") ELSE store[i]]

\* The completed text takes the place of the deltas, in the segment's place.
ApplyCompleted(store, id, text) ==
  IF ~Seen(store, id) THEN Append(store, Item(id, FALSE, text))
  ELSE [i \in DOMAIN store |->
          IF store[i].id = id THEN Item(id, FALSE, text) ELSE store[i]]

HasText(item) == item.provisional \/ item.completed = "text"

\* The segments with words in them, in their order: the n-th is the one up to which
\* there are n.
Worded(store) == {i \in DOMAIN store : HasText(store[i])}
UpTo(S, i) == Cardinality({j \in S : j <= i})
Nth(S, n) == CHOOSE i \in S : UpTo(S, i) = n
DisplayAnswerText(store) ==
  LET shown == Worded(store)
  IN [n \in 1..Cardinality(shown) |-> store[Nth(shown, n)].id]

=============================================================================
