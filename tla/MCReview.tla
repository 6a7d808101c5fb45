------------------------------- MODULE MCReview -------------------------------
(***************************************************************************)
(* Small instances of Review for TLC.                                      *)
(***************************************************************************)
EXTENDS Review, TLC

CONSTANTS p1, p2, admin, peer

\* The model scores every practice, or leaves one out.
ScoringsSome == {(p1 :> 2) @@ (p2 :> 2), p1 :> 4}
ScoringsOne == {p1 :> 2}

Plain(ops) == [op : ops]
Adjust(S, scores) == [op : {"score"}, practice : S, score : scores]
MoveTo(statuses) == [op : {"transition"}, to : statuses]

\* One administrator reviews and publishes; a peer publishes too, drafts the
\* detailed report and moves the assessment along.
JobsReview ==
  (admin :> Plain({"start", "approve", "publish", "reopen"})
            \cup Adjust({p1}, {4}))
  @@ (peer :> Plain({"publish", "detail"}) \cup MoveTo({"interview_complete"}))

\* Two administrators review.
JobsRace ==
  (admin :> Plain({"start", "approve"}))
  @@ (peer :> Plain({"start", "publish"}))

=============================================================================
