----------------------------- MODULE MCStandards -----------------------------
(***************************************************************************)
(* Small instances of Standards for TLC.                                   *)
(***************************************************************************)
EXTENDS Standards, TLC

CONSTANTS s1, s2, a, copy, words, secrets, admin, peer

CopiesOne == (a :> <<copy>>) @@ (copy :> <<>>)

Asked(asks, group) == [fact |-> secrets, asks |-> asks, group |-> group]
Always == [text |-> words, active |-> TRUE, mode |-> "always", rules |-> {}]
When(rules) == [Always EXCEPT !.mode = "conditions", !.rules = rules]

\* The console's editor sends every field; the last form is the one it should refuse.
Forms == {Always, When({Asked("is", "all")}), When({})}

Says(applies) == a :> [status |-> "finding", applies |-> applies]

LibraryOne ==
  (s1 :> [key |-> a, text |-> words, active |-> TRUE, mode |-> "conditions",
          rules |-> [rule : {Asked("is", "all")}, row : {1}]])
  @@ (s2 :> None)

\* Two sessions: both work on the library; one of them starts the interview, sends it
\* back, answers and edits the finding.
JobsLibrary ==
  (admin :> [op : {"create"}, key : {copy}, form : {Always}]
            \cup [op : {"update"}, patch : Forms]
            \cup [op : {"toggle"}, active : BOOLEAN]
            \cup [op : {"duplicate", "delete"}])
  @@ (peer :> [op : {"update"}, patch : Forms]
              \cup [op : {"duplicate"}]
              \cup [op : {"import"}, bundle :
                     {<<[key |-> copy, form |-> When({Asked("is", "all")})],
                        [key |-> a, form |-> Always]>>}]
              \cup [op : {"start"}] \cup [op : {"move"}, to : {"evidence_ready"}]
              \cup [op : {"context"}, to : {[f \in {secrets} |-> TRUE]}]
              \cup [op : {"edit"}, key : {a}, status : {"aligned"}]
              \cup [op : {"analyse"}, verdicts : {Says(TRUE)}])

=============================================================================
