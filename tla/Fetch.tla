-------------------------------- MODULE Fetch --------------------------------
(***************************************************************************)
(* Reading from a provider: one request with its retries, as request_json  *)
(* of integrations/http.py makes it, and the paging of the Jira client's   *)
(* issue search.                                                           *)
(***************************************************************************)
EXTENDS Naturals, Sequences

CONSTANTS
  MaxAttempts,     \* attempts of one request: MAX_RETRIES
  MaxPages         \* pages of one search: _MAX_ISSUE_PAGES

\* What an attempt ends in: an answer, a status worth a retry (RETRY_STATUSES), any
\* other refusal, no answer in time, or a connection that fails.
Replies == {"ok", "busy", "refused", "timeout", "broken"}

Retries(reply, attempt) == reply \in {"busy", "timeout"} /\ attempt < MaxAttempts
Fails(reply, attempt) == reply # "ok" /\ ~Retries(reply, attempt)

-----------------------------------------------------------------------------
(* Pages are numbered; the token that asks for page p is p, none is 0.  A   *)
(* provider of total pages may, instead of going on, hand out a token again.*)

Search == [page : Nat, token : Nat, seen : SUBSET Nat, got : Seq(Nat)]
NewSearch == [page |-> 1, token |-> 1, seen |-> {}, got |-> <<>>]

NextTokens(s, total) ==
  {IF s.token < total THEN s.token + 1 ELSE 0} \cup 2..s.token

\* One round of iter_issue_pages once the answer is there: the page is taken, then
\* the search is over, fails, or goes on.
Takes(s, total) ==
  IF s.token <= total THEN [s EXCEPT !.got = Append(@, s.token)] ELSE s
Over(next) == next = 0
StallsAtLimit(s, next) == s.page + 1 > MaxPages
Stalls(s, next) == next \in s.seen \/ s.page + 1 > MaxPages
GoesOn(s, next) ==
  [s EXCEPT !.token = next, !.seen = @ \cup {next}, !.page = @ + 1]

=============================================================================
