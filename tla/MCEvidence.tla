------------------------------ MODULE MCEvidence ------------------------------
(***************************************************************************)
(* Small instances of Evidence for TLC.                                    *)
(***************************************************************************)
EXTENDS Evidence, TLC

CONSTANTS p1, a, b, admin, host

PagesTwo == p1 :> 2
Did(k, l, i) == [kind |-> k, label |-> l, id |-> i]
ActivityOne == a :> {Did("commits", "team", 1), Did("commits", "bots", 2), Did("runs", "team", 3)}
ActivityTwo == (a :> {Did("commits", "team", 1)}) @@ (b :> {Did("commits", "team", 2)})

From(projects, repos, pipes) ==
  [op : {"select"}, to : [project : projects, repo : repos, pipelines : pipes]]
MoveTo(S) == [op : {"move"}, to : S]

SignsNone == {[few |-> FALSE, brief |-> FALSE, poor |-> FALSE]}

\* The administrator collects, excludes and confirms; the host selects sources and
\* starts the interview.
JobsSetup ==
  (admin :> [op : {"collect"}, refresh : BOOLEAN] \cup [op : {"confirm"}]
            \cup [op : {"exclude"}, labels : {{"bots"}}])
  @@ (host :> From({p1}, {a}, {FALSE}) \cup From({None}, {None}, {FALSE})
              \cup MoveTo({"interview_active"}))

\* One request after the other, two repositories.
JobsExclude ==
  admin :> ([op : {"collect"}, refresh : {FALSE}] \cup From({None}, {a, b}, {TRUE})
            \cup MoveTo({"collecting_evidence"})
            \cup [op : {"exclude"}, labels : {{"bots"}}])

=============================================================================
