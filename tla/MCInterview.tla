----------------------------- MODULE MCInterview -----------------------------
(***************************************************************************)
(* Small instances of Interview for TLC.  Practices 1 and 2 share a        *)
(* domain, 3 has its own.                                                  *)
(***************************************************************************)
EXTENDS Interview, TLC

CONSTANTS k1, k2, k3, r1, host, peer

DomainOf2 == (1 :> "d1") @@ (2 :> "d2")
DomainOf3 == (1 :> "d1") @@ (2 :> "d1") @@ (3 :> "d2")

-----------------------------------------------------------------------------
(* Analyses *)

Rate(state, conf, contra) == [state |-> state, conf |-> conf, contra |-> contra]
Update(p, state, conf) == p :> Rate(state, conf, FALSE)
Says(updates, clarify) == [updates |-> updates, clarify |-> clarify]

\* Enough to move coverage up and down and to ask for clarifications.
AnalysesSmall ==
  { Says(Update(1, "sufficient", 80) @@ Update(2, "partial", 60), FALSE),
    Says(Update(1, "partial", 40), FALSE),
    Says(Update(1, "clarify", 40), TRUE) }

AnalysesFull ==
  { Says(Update(1, "sufficient", 80) @@ Update(2, "partial", 60), FALSE),
    Says(Update(1, "clarify", 40), TRUE),
    Says(Update(2, "clarify", 30) @@ Update(3, "not_discussed", 20), FALSE),
    Says(1 :> Rate("partial", 70, TRUE), FALSE),
    Says(Update(3, "insufficient", 50), FALSE) }

\* A scoring that takes practice 1 for poorly covered after all, and leaves the
\* others out.
ScoringsLive == {Update(1, "partial", 40)}

-----------------------------------------------------------------------------
(* Jobs *)

Submit(keys) == [op : {"submit"}, key : keys, clarification : BOOLEAN]
Answers(keys) == [op : {"submit"}, key : keys, clarification : {FALSE}]
Ingest == [op : {"ingest"}, key : {r1}, asked : {{}, {1}}]
Draft == [op : {"draft"}, text : BOOLEAN]
MoveTo(statuses) == [op : {"transition"}, to : statuses]
Reopen(S) == [op : {"reopen"}, practice : S]
Plain(ops) == [op : ops]

\* One host, with the administrator's inclusions and moves beside.
JobsRoom ==
  (host :> Plain({"start", "complete"}) \cup Submit({k1, k2, k3}) \cup Draft)
  @@ (peer :> Ingest)

\* The same request twice, and the interview started over.
JobsRetry ==
  (host :> Plain({"start"}) \cup Submit({k1, k2}))
  @@ (peer :> Plain({"start"}) \cup Submit({k1, k2}) \cup Ingest
              \cup MoveTo({"evidence_ready"}))

\* One request at a time, the whole life of the interview.
JobsSerial ==
  host :> (Plain({"start", "complete", "review"}) \cup Answers({k1, k2, k3})
           \cup [op : {"ingest"}, key : {r1}, asked : {{1}}] \cup Reopen({1}))

\* One request at a time, up to the review.
JobsReview ==
  host :> (Plain({"start", "complete", "review", "regenerate"})
           \cup Submit({k1, k2, k3}))

=============================================================================
