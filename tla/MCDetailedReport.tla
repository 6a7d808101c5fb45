--------------------------- MODULE MCDetailedReport ---------------------------
(***************************************************************************)
(* A small instance of DetailedReport for TLC.                             *)
(***************************************************************************)
EXTENDS DetailedReport, TLC

CONSTANTS author, peer, t1, t2

Change(sections, texts) == [op : {"edit"}, change : [section : sections, to : texts]]

\* A report rewritten as a whole, with the narrative left to be generated.
Whole ==
  [body |-> [s \in Stages |-> IF s = "narrative" THEN "pending" ELSE t2],
   meta |-> [statuses |-> [s \in Stages |-> "none"], incomplete |-> FALSE]]

\* One administrator reviews, generates and edits, a peer publishes.
JobsOfTwo ==
  (author :> [op : {"review"}]
             \cup [op : {"generate"}, targets : {Stages, {"domains"}, {"narrative"}}]
             \cup Change({"domains"}, {t1, t2})
             \cup Change({"full"}, {Whole}))
  @@ (peer :> [op : {"publish"}])

=============================================================================
