-------------------------------- MODULE Remote --------------------------------
(***************************************************************************)
(* Remote participation in one workshop: services/remote.py with the tokens*)
(* of services/tokens.py and the limiter of core/rate_limit.py.            *)
(*                                                                         *)
(* The host enables participation and hands out invite links; whoever has  *)
(* one joins and sends contributions, with or without an attachment; hosts *)
(* include, defer or dismiss them.  Requests run in threads, on rows loaded*)
(* without a lock, and write in one step (see Interview); a submission     *)
(* holds SQLite's write lock while it stores its attachment:               *)
(*   Knock, Flush, [Attach,] Commit                                        *)
(* The inclusion calls the interview (Interview!Include), of which only the*)
(* turn it records under the contribution's key is represented here.       *)
(***************************************************************************)
EXTENDS Rows, RateLimit, FiniteSets, FiniteSetsExt

CONSTANTS
  Emails,          \* participants
  Contributions,   \* identifiers of remote_contributions
  Workers,         \* threads of the pool
  JobsOf,          \* JobsOf[w]: the requests a thread may be given
  Ttl,             \* how long an invite is good for: remote_invite_ttl_seconds
  MaxAge,          \* how old a token may be: assessment_token_ttl_seconds
  MaxTime,         \* bound on the clock
  MaxInvites,      \* bound on the invites
  MaxRequests,     \* bound on the submissions admitted
  None

VARIABLES
  enabled,        \* assessments.remote_participation_enabled
  invites,        \* remote_invites, in the order of creation
  revocations,    \* access_token_revocations, by the invite's token
  contributors,   \* remote_contributors: the invite an email joined with
  inbox,          \* remote_contributions
  turns,          \* contributions with an interview turn under their key
  uploads,        \* contributions with a file under uploads/remote
  lock,           \* who holds SQLite's write lock over several steps
  req,            \* the request each worker is serving
  now,
  bucket,         \* the limiter's bucket for submissions of this client
  admitted        \* when submissions were admitted (history)

vars == <<enabled, invites, revocations, contributors, inbox, turns, uploads,
          lock, req, now, bucket, admitted>>
tables == <<enabled, invites, revocations, contributors, inbox, turns>>
clock == <<now, bucket, admitted>>

-----------------------------------------------------------------------------
(* Data *)

Invite == [expires : Nat, revoked : BOOLEAN]
Statuses == {"pending", "included", "deferred", "dismissed"}
Contribution == [status : Statuses, by : Emails, turn : BOOLEAN, file : BOOLEAN]

Job == [op : {"enable"}, on : BOOLEAN]
       \cup [op : {"create"}]
       \cup [op : {"revoke"}, jti : Nat]
       \cup [op : {"join"}, email : Emails]
       \cup [op : {"submit"}, email : Emails, attach : BOOLEAN]
       \cup [op : {"dispose"}, action : {"include", "defer", "dismiss"}]

\* Rows loaded, the invite of the token and the contribution the request is about.
Request == [phase : {"loaded", "flushed", "attached"}, job : Job,
            invites : Seq(Invite), token : Nat,
            about : Contributions \cup {None}, status : Statuses]
Idle == [phase |-> "idle"]

ASSUME BoundAssumption ==
  /\ Ttl \in Nat /\ MaxAge \in Nat /\ MaxTime \in Nat
  /\ MaxInvites \in Nat /\ MaxRequests \in Nat
ASSUME JobAssumption == JobsOf \in [Workers -> SUBSET Job]
ASSUME NullAssumption == None \notin Contributions /\ None \notin Workers

TypeOK ==
  /\ enabled \in BOOLEAN
  /\ invites \in Seq(Invite)
  /\ revocations \subseteq DOMAIN invites
  /\ DOMAIN contributors \subseteq Emails
  /\ \A e \in DOMAIN contributors : contributors[e] \in DOMAIN invites
  /\ DOMAIN inbox \subseteq Contributions
  /\ \A c \in DOMAIN inbox :
       inbox[c] \in Contribution /\ inbox[c].by \in DOMAIN contributors
  /\ turns \subseteq DOMAIN inbox
  /\ uploads \subseteq Contributions
  /\ lock \in Workers \cup {None}
  /\ req \in [Workers -> Request \cup {Idle}]
  /\ now \in Nat /\ bucket \in Seq(Nat) /\ admitted \in Seq(Nat)

Extend(f, x, v) == [y \in DOMAIN f \cup {x} |-> IF y = x THEN v ELSE f[y]]

Init ==
  /\ enabled = FALSE
  /\ invites = <<>>
  /\ revocations = {}
  /\ contributors = [e \in {} |-> 0]
  /\ inbox = [c \in {} |-> None]
  /\ turns = {}
  /\ uploads = {}
  /\ lock = None
  /\ req = [w \in Workers |-> Idle]
  /\ now = 0
  /\ bucket = <<>>
  /\ admitted = <<>>

-----------------------------------------------------------------------------
(* Arrival of a request *)

\* verify_assessment_access_token: the token is no older than the settings allow
\* for any token, whatever its own lifetime.
Young(j) == now - (invites[j].expires - Ttl) <= MaxAge

\* _verify_remote_token: signed by us, not revoked in either table, not expired.
Verified(j) ==
  /\ Young(j)
  /\ j \notin revocations
  /\ ~invites[j].revoked
  /\ invites[j].expires >= now

\* _active_invite: the link the host's screen offers, 0 for none.
ActiveInvite ==
  Max({j \in DOMAIN invites : ~invites[j].revoked /\ invites[j].expires >= now}
      \cup {0})

Loaded(job, token, about) ==
  [phase |-> "loaded", job |-> job, token |-> token, about |-> about,
   invites |-> IF job.op \in {"create", "revoke"} THEN invites ELSE <<>>,
   status |-> IF about = None THEN "pending" ELSE inbox[about].status]

Take(w, job, token, about) ==
  req' = [req EXCEPT ![w] = Loaded(job, token, about)]

\* The host's requests.
Call(w) ==
  /\ req[w] = Idle
  /\ \E job \in JobsOf[w] :
       \/ job.op = "enable" /\ Take(w, job, 0, None)
       \/ job.op = "create" /\ enabled /\ Take(w, job, 0, None)
       \/ job.op = "revoke" /\ job.jti \in DOMAIN invites /\ Take(w, job, 0, None)
       \/ /\ job.op = "dispose"
          /\ \E c \in DOMAIN inbox :
               /\ job.action = "include" => inbox[c].status = "pending"
               /\ Take(w, job, 0, c)
  /\ UNCHANGED <<tables, uploads, lock, clock>>

KnowsAnybody(email) == TRUE
Knows(email) == email \in DOMAIN contributors

\* Somebody with a link: the limiter counts a submission before the token is
\* looked at.  (Joining has a bucket of its own, which is not represented.)
Knock(w) ==
  /\ req[w] = Idle
  /\ \E job \in JobsOf[w], j \in DOMAIN invites :
       /\ job.op \in {"join", "submit"}
       /\ LET good == Verified(j) /\ enabled
          IN \/ /\ job.op = "join" /\ good
                /\ Take(w, job, j, None)
                /\ UNCHANGED <<bucket, admitted>>
             \/ /\ job.op = "submit" /\ Len(admitted) < MaxRequests
                /\ IF Admits(bucket, now)
                   THEN /\ bucket' = Append(Pruned(bucket, now), now)
                        /\ admitted' = Append(admitted, now)
                        /\ IF good /\ Knows(job.email)
                           THEN Take(w, job, j, None)
                           ELSE UNCHANGED req
                   ELSE /\ bucket' = Pruned(bucket, now)
                        /\ UNCHANGED <<req, admitted>>
  /\ UNCHANGED <<tables, uploads, lock, now>>

\* Any failure, a crash included; the limiter's memory goes with the process, so
\* that its promise is per process: a crash that loses it is not represented.
Abort(w) ==
  /\ req[w] # Idle
  /\ req' = [req EXCEPT ![w] = Idle]
  /\ lock' = IF lock = w THEN None ELSE lock
  /\ UNCHANGED <<tables, uploads, clock>>

Serves(w, op) ==
  /\ req[w] # Idle /\ req[w].job.op = op /\ req[w].phase = "loaded"
  /\ lock = None
Finish(w) == req' = [req EXCEPT ![w] = Idle]

-----------------------------------------------------------------------------
(* The host *)

SetEnabled(w) ==
  /\ Serves(w, "enable")
  /\ enabled' = req[w].job.on
  /\ Finish(w)
  /\ UNCHANGED <<invites, revocations, contributors, inbox, turns, uploads, lock, clock>>

\* create_invite revokes the invites it has read, in both tables.
PriorsLast(rows) == {j \in DOMAIN rows : ~rows[j].revoked /\ j < Len(rows)}
Priors(rows) == {j \in DOMAIN rows : ~rows[j].revoked}
CreateInvite(w) ==
  /\ Serves(w, "create") /\ Len(invites) < MaxInvites
  /\ LET priors == Priors(req[w].invites)
         kept == [j \in DOMAIN invites |->
                    [invites[j] EXCEPT !.revoked = @ \/ j \in priors]]
     IN /\ invites' = Append(kept, [expires |-> now + Ttl, revoked |-> FALSE])
        /\ revocations' = revocations \cup priors
  /\ Finish(w)
  /\ UNCHANGED <<enabled, contributors, inbox, turns, uploads, lock, clock>>

\* revoke_invite: nothing is written when the row loaded was revoked.
RevokeInvite(w) ==
  /\ Serves(w, "revoke")
  /\ LET j == req[w].job.jti
     IN IF req[w].invites[j].revoked THEN UNCHANGED <<invites, revocations>>
        ELSE /\ invites' = [invites EXCEPT ![j].revoked = TRUE]
             /\ revocations' = revocations \cup {j}
  /\ Finish(w)
  /\ UNCHANGED <<enabled, contributors, inbox, turns, uploads, lock, clock>>

\* dispose.  The turn is inserted under the contribution's key, which fails when
\* another inclusion came first.
InsertsAnyway(c) == TRUE
Inserts(c) == c \notin turns
Dispose(w) ==
  /\ Serves(w, "dispose")
  /\ LET c == req[w].about
         became == CASE req[w].job.action = "include" -> "included"
                     [] req[w].job.action = "defer" -> "deferred"
                     [] req[w].job.action = "dismiss" -> "dismissed"
         row == [inbox[c] EXCEPT !.status = Put(@, req[w].status, became)]
     IN IF req[w].job.action = "include"
        THEN /\ Inserts(c)
             /\ turns' = turns \cup {c}
             /\ inbox' = [inbox EXCEPT ![c] = [row EXCEPT !.turn = TRUE]]
        ELSE inbox' = [inbox EXCEPT ![c] = row] /\ UNCHANGED turns
  /\ Finish(w)
  /\ UNCHANGED <<enabled, invites, revocations, contributors, uploads, lock, clock>>

-----------------------------------------------------------------------------
(* The participants *)

Join(w) ==
  /\ Serves(w, "join")
  /\ contributors' = Extend(contributors, req[w].job.email, req[w].token)
  /\ Finish(w)
  /\ UNCHANGED <<enabled, invites, revocations, inbox, turns, uploads, lock, clock>>

\* A row is a new one, and nothing was ever stored under its identifier.
Fresh == Contributions \ (DOMAIN inbox \cup uploads)

Flush(w) ==
  /\ Serves(w, "submit") /\ Fresh # {}
  /\ lock' = w
  /\ req' = [req EXCEPT ![w].phase = "flushed", ![w].about = CHOOSE c \in Fresh : TRUE]
  /\ UNCHANGED <<tables, uploads, clock>>

AttachesLater(w) == UNCHANGED uploads
Stores(w) == uploads' = uploads \cup {req[w].about}
Attach(w) ==
  /\ req[w] # Idle /\ req[w].phase = "flushed" /\ req[w].job.attach
  /\ Stores(w)
  /\ req' = [req EXCEPT ![w].phase = "attached"]
  /\ UNCHANGED <<tables, lock, clock>>

Commit(w) ==
  /\ req[w] # Idle
  /\ req[w].phase = IF req[w].job.op = "submit" /\ req[w].job.attach
                    THEN "attached" ELSE "flushed"
  /\ inbox' = Extend(inbox, req[w].about,
                [status |-> "pending", by |-> req[w].job.email, turn |-> FALSE,
                 file |-> req[w].job.attach])
  /\ lock' = None
  /\ Finish(w)
  /\ UNCHANGED <<enabled, invites, revocations, contributors, turns, uploads, clock>>

Tick ==
  /\ now < MaxTime
  /\ now' = now + 1
  /\ UNCHANGED <<tables, uploads, lock, req, bucket, admitted>>

Next ==
  \/ Tick
  \/ \E w \in Workers :
       \/ Call(w) \/ Knock(w) \/ Abort(w)
       \/ SetEnabled(w) \/ CreateInvite(w) \/ RevokeInvite(w) \/ Dispose(w)
       \/ Join(w) \/ Flush(w) \/ Attach(w) \/ Commit(w)

Spec == Init /\ [][Next]_vars

-----------------------------------------------------------------------------
(* Properties *)

\* The link that lets people in is the one the host is shown, and no other, as
\* create_invite intends, while one administrator creates invites, whoever else
\* revokes them.  (Two creations at once leave two live links, of which the host
\* sees one; a link made to live longer than MaxAge is shown but refused.)
OnlyOneLive == \A j \in DOMAIN invites : Verified(j) <=> j = ActiveInvite

\* A contribution that says it has an attachment has a file, whatever fails
\* between the file and the row; and the attachments of contributions that were
\* never stored are never taken for those of another.
AttachmentsStored == \A c \in DOMAIN inbox : inbox[c].file <=> c \in uploads

\* No window of the limiter's length ever admits more submissions than the limit,
\* counting both of its ends.
RateKept ==
  \A t \in 0..MaxTime :
    Cardinality({i \in DOMAIN admitted : admitted[i] \in t..(t + Window)}) <= Limit

\* Whatever two hosts do at once, a contribution is recorded at most once and one
\* that is included is in the transcript.
Placed == [c \in DOMAIN inbox |-> inbox[c].status]
Kept == INSTANCE Inbox WITH Notes <- Contributions, inbox <- Placed,
                            recorded <- turns
ImplementsInbox == Kept!BSpec

=============================================================================
