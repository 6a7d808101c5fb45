----------------------------- MODULE RemoteProofs -----------------------------
(***************************************************************************)
(* What holds of remote participation for any participants, hosts, number  *)
(* of links and contributions, and for any limit and window.               *)
(***************************************************************************)
EXTENDS Remote, Least, FiniteSetTheorems, TLAPS

-----------------------------------------------------------------------------
(* The inductive invariant *)

\* What a request was let in for is still there: the link, the participant, the
\* contribution; an inclusion has seen the contribution pending.
Known(w) ==
  LET job == req[w].job
  IN req[w] # Idle =>
       /\ job.op \in {"join", "submit"} => req[w].token \in DOMAIN invites
       /\ job.op = "submit" => job.email \in DOMAIN contributors
       /\ job.op = "revoke" => job.jti \in DOMAIN invites
       /\ job.op = "create" => Len(req[w].invites) <= Len(invites)
       /\ job.op = "dispose" => req[w].about \in DOMAIN inbox
       /\ job.op = "dispose" /\ job.action = "include" => req[w].status = "pending"
       /\ req[w].phase # "loaded" => job.op = "submit"

\* A submission that has flushed its row holds the lock, and its identifier is its own:
\* nobody's contribution, with a file once it has stored one.
Uploading(w) ==
  req[w] # Idle /\ req[w].phase # "loaded" =>
    /\ lock = w
    /\ req[w].about \in Contributions \ DOMAIN inbox
    /\ req[w].about \in uploads <=> req[w].phase = "attached"

TypeInv == TypeOK /\ \A w \in Workers : Known(w) /\ Uploading(w)

-----------------------------------------------------------------------------
(* Types of the parts *)

LEMMA InFlight ==
  ASSUME TypeOK, NEW w \in Workers, req[w] # Idle
  PROVE  /\ req[w] \in Request
         /\ req[w].job \in Job /\ req[w].invites \in Seq(Invite) /\ req[w].token \in Nat
         /\ req[w].about \in Contributions \cup {None} /\ req[w].status \in Statuses
<1>1. req[w] \in Request
  BY DEF TypeOK
<1> QED
  BY <1>1 DEF Request

LEMMA JobTypes ==
  ASSUME NEW job \in Job
  PROVE  /\ job.op \in {"enable", "create", "revoke", "join", "submit", "dispose"}
         /\ job.op = "enable" => job.on \in BOOLEAN
         /\ job.op = "revoke" => job.jti \in Nat
         /\ job.op \in {"join", "submit"} => job.email \in Emails
         /\ job.op = "submit" => job.attach \in BOOLEAN
         /\ job.op = "dispose" => job.action \in {"include", "defer", "dismiss"}
BY DEF Job

LEMMA FinishType ==
  ASSUME TypeOK, NEW w \in Workers, Finish(w)
  PROVE  req' \in [Workers -> Request \cup {Idle}]
BY DEF TypeOK, Finish

LEMMA TakeType ==
  ASSUME TypeOK, NEW w \in Workers, NEW job \in JobsOf[w], NEW token \in Nat,
         NEW about \in Contributions \cup {None}, about # None => about \in DOMAIN inbox,
         Take(w, job, token, about)
  PROVE  /\ req' \in [Workers -> Request \cup {Idle}]
         /\ req'[w] = Loaded(job, token, about)
         /\ \A v \in Workers \ {w} : req'[v] = req[v]
<1>1. job \in Job
  BY JobAssumption
<1>2. about # None => inbox[about].status \in Statuses
  BY DEF TypeOK, Contribution
<1>3. Loaded(job, token, about) \in Request
  BY <1>1, <1>2 DEF Loaded, Request, TypeOK, Statuses
<1> QED
  BY <1>3 DEF Take, TypeOK

-----------------------------------------------------------------------------
(* What the requests know is never taken away *)

Grows ==
  /\ DOMAIN invites \subseteq DOMAIN invites' /\ Len(invites) <= Len(invites')
  /\ DOMAIN contributors \subseteq DOMAIN contributors'
  /\ DOMAIN inbox \subseteq DOMAIN inbox'

LEMMA KnownKept ==
  ASSUME TypeInv, Grows, NEW v \in Workers, req'[v] = req[v]
  PROVE  Known(v)'
<1>1. CASE req[v] = Idle
  BY <1>1 DEF Known
<1>2. CASE req[v] # Idle
  <2>1. req[v].invites \in Seq(Invite)
    BY <1>2, InFlight DEF TypeInv
  <2>2. Len(req[v].invites) \in Nat /\ Len(invites) \in Nat /\ invites \in Seq(Invite)
    BY <2>1 DEF TypeInv, TypeOK
  <2>3. req[v].job.op = "create" =>
          Len(req[v].invites) <= Len(invites) /\ Len(invites) <= Len(invites')
    BY <1>2 DEF TypeInv, Known, Grows
  <2> QED
    BY <1>2, <2>2, <2>3 DEF TypeInv, Known, Grows
<1> QED
  BY <1>1, <1>2

\* An action of w, when w holds the lock or nobody does, leaves other requests sound.
LEMMA OthersKept ==
  ASSUME TypeInv, Grows, NEW w \in Workers, lock \in {None, w},
         \A v \in Workers \ {w} : req'[v] = req[v]
  PROVE  \A v \in Workers \ {w} : Known(v)' /\ Uploading(v)'
<1> SUFFICES ASSUME NEW v \in Workers \ {w} PROVE Known(v)' /\ Uploading(v)'
  OBVIOUS
<1>1. Known(v)'
  BY KnownKept
<1>2. lock # v
  BY NullAssumption
<1>3. Uploading(v)'
  BY <1>2 DEF TypeInv, Uploading
<1> QED
  BY <1>1, <1>3

\* A request that begins or ends while nothing is written.
LEMMA QuietStep ==
  ASSUME TypeInv, NEW w \in Workers, UNCHANGED <<tables, uploads>>,
         lock' = lock \/ (lock = w /\ lock' = None),
         \A v \in Workers \ {w} : req'[v] = req[v],
         req' \in [Workers -> Request \cup {Idle}],
         now' \in Nat /\ bucket' \in Seq(Nat) /\ admitted' \in Seq(Nat),
         req'[w] # Idle => req'[w].phase = "loaded",
         Known(w)'
  PROVE  TypeInv'
<1>1. TypeOK'
  BY DEF TypeInv, TypeOK, tables
<1>2. Grows
  BY DEF Grows, tables, TypeInv, TypeOK
<1>3. ASSUME NEW v \in Workers \ {w}
      PROVE  Known(v)' /\ Uploading(v)'
  <2>1. Known(v)'
    BY <1>2, KnownKept
  <2>2. lock = v => lock' = v
    OBVIOUS
  <2>3. Uploading(v)'
    BY <2>2 DEF TypeInv, Uploading, tables
  <2> QED
    BY <2>1, <2>3
<1>4. Uploading(w)'
  BY DEF Uploading
<1> QED
  BY <1>1, <1>3, <1>4 DEF TypeInv

LEMMA CallKeeps ==
  ASSUME TypeInv, NEW w \in Workers, Call(w)
  PROVE  TypeInv'
<1>1. PICK job \in JobsOf[w], c \in DOMAIN inbox \cup {None} :
        /\ Take(w, job, 0, c)
        /\ job.op \in {"enable", "create", "revoke", "dispose"}
        /\ job.op = "revoke" => job.jti \in DOMAIN invites
        /\ job.op = "dispose" => c # None
        /\ job.op = "dispose" /\ job.action = "include" => inbox[c].status = "pending"
  BY NullAssumption DEF Call, TypeInv, TypeOK
<1>2. c \in Contributions \cup {None} /\ (c # None => c \in DOMAIN inbox)
  BY DEF TypeInv, TypeOK
<1>3. /\ req' \in [Workers -> Request \cup {Idle}]
      /\ req'[w] = Loaded(job, 0, c)
      /\ \A v \in Workers \ {w} : req'[v] = req[v]
  BY <1>1, <1>2, TakeType DEF TypeInv
<1>4. /\ UNCHANGED <<tables, uploads>> /\ UNCHANGED clock /\ lock' = lock
      /\ req[w] = Idle
  BY DEF Call
<1>5. Known(w)'
  BY <1>1, <1>2, <1>3, <1>4 DEF Known, Loaded, tables, TypeInv, TypeOK
<1>6. req'[w].phase = "loaded"
  BY <1>3 DEF Loaded
<1> QED
  BY <1>3, <1>4, <1>5, <1>6, QuietStep DEF clock, TypeInv, TypeOK

\* Times of the limiter.
LEMMA PrunedType ==
  ASSUME NEW b \in Seq(Nat), NEW t \in Nat
  PROVE  /\ Front(b, t) \in 1..(Len(b) + 1)
         /\ Front(b, t) <= Len(b) => Keeps(b[Front(b, t)], t)
         /\ \A i \in 1..(Front(b, t) - 1) : ~Keeps(b[i], t)
         /\ Pruned(b, t) \in Seq(Nat)
         /\ Len(Pruned(b, t)) = Len(b) + 1 - Front(b, t)
         /\ \A i \in 1..Len(Pruned(b, t)) : Pruned(b, t)[i] = b[Front(b, t) + i - 1]
<1>1. Stays(b, t) \in SUBSET Nat /\ Len(b) + 1 \in Stays(b, t)
  BY DEF Stays
<1> DEFINE front == Front(b, t)
<1>3. front \in Stays(b, t) /\ \A j \in Stays(b, t) : front <= j
  BY <1>1, MinNat DEF Front
<1> HIDE DEF front
<1>4. /\ front \in 1..(Len(b) + 1)
      /\ front <= Len(b) => Keeps(b[front], t)
  BY <1>3 DEF Stays
<1>5. ASSUME NEW i \in 1..(front - 1)
      PROVE  ~Keeps(b[i], t)
  <2>1. i \in 1..(Len(b) + 1) /\ i <= Len(b) /\ ~(front <= i)
    BY <1>4
  <2> QED
    BY <1>3, <2>1 DEF Stays
<1>6. Pruned(b, t) = SubSeq(b, front, Len(b))
  BY DEF Pruned, front
<1>7. /\ Pruned(b, t) \in Seq(Nat)
      /\ Len(Pruned(b, t)) = Len(b) + 1 - front
      /\ \A i \in 1..Len(Pruned(b, t)) : Pruned(b, t)[i] = b[front + i - 1]
  BY <1>4, <1>6
<1> QED
  BY <1>4, <1>5, <1>7 DEF front

LEMMA KnockKeeps ==
  ASSUME TypeInv, NEW w \in Workers, Knock(w)
  PROVE  TypeInv'
<1>1. PICK job \in JobsOf[w], j \in DOMAIN invites :
        /\ job.op \in {"join", "submit"}
        /\ \/ UNCHANGED req
           \/ Take(w, job, j, None) /\ (job.op = "submit" => job.email \in DOMAIN contributors)
        /\ \/ UNCHANGED <<bucket, admitted>>
           \/ bucket' = Append(Pruned(bucket, now), now) /\ admitted' = Append(admitted, now)
           \/ bucket' = Pruned(bucket, now) /\ UNCHANGED admitted
  BY DEF Knock, Knows
<1>2. /\ UNCHANGED <<tables, uploads, lock, now>>
      /\ req[w] = Idle
  BY DEF Knock
<1>3. j \in Nat /\ now \in Nat /\ bucket \in Seq(Nat) /\ admitted \in Seq(Nat)
      /\ Pruned(bucket, now) \in Seq(Nat)
  BY PrunedType DEF TypeInv, TypeOK
<1>a. Append(Pruned(bucket, now), now) \in Seq(Nat) /\ Append(admitted, now) \in Seq(Nat)
  BY <1>3
<1>4. now' \in Nat /\ bucket' \in Seq(Nat) /\ admitted' \in Seq(Nat)
  <2> HIDE DEF Pruned
  <2> QED
    BY <1>1, <1>2, <1>3, <1>a, Zenon
<1>5. CASE UNCHANGED req
  <2>1. Known(w)' /\ req'[w] = Idle
    BY <1>2, <1>5 DEF Known
  <2>2. req' \in [Workers -> Request \cup {Idle}]
    BY <1>5 DEF TypeInv, TypeOK
  <2> QED
    BY <1>2, <1>4, <1>5, <2>1, <2>2, QuietStep
<1>6. CASE Take(w, job, j, None) /\ (job.op = "submit" => job.email \in DOMAIN contributors)
  <2>1. /\ req' \in [Workers -> Request \cup {Idle}]
        /\ req'[w] = Loaded(job, j, None)
        /\ \A v \in Workers \ {w} : req'[v] = req[v]
    BY <1>3, <1>6, TakeType DEF TypeInv
  <2>2. Known(w)' /\ req'[w].phase = "loaded"
    BY <1>1, <1>2, <1>6, <2>1 DEF Known, Loaded, tables
  <2> QED
    BY <1>2, <1>4, <2>1, <2>2, QuietStep
<1> QED
  BY <1>1, <1>5, <1>6

LEMMA AbortKeeps ==
  ASSUME TypeInv, NEW w \in Workers, Abort(w)
  PROVE  TypeInv'
<1>1. /\ req' \in [Workers -> Request \cup {Idle}]
      /\ req'[w] = Idle
      /\ \A v \in Workers \ {w} : req'[v] = req[v]
  BY DEF Abort, TypeInv, TypeOK
<1>2. Known(w)'
  BY <1>1 DEF Known
<1>3. lock' = lock \/ (lock = w /\ lock' = None)
  BY DEF Abort
<1> QED
  BY <1>1, <1>2, <1>3, QuietStep DEF Abort, clock, TypeInv, TypeOK

-----------------------------------------------------------------------------
(* Requests that write and end *)

\* What remains to be shown of them: the types of what they write.
LEMMA EndKeeps ==
  ASSUME TypeInv, NEW w \in Workers, lock \in {None, w}, Finish(w), Grows, TypeOK'
  PROVE  TypeInv'
<1>1. req'[w] = Idle /\ \A v \in Workers \ {w} : req'[v] = req[v]
  BY DEF Finish, TypeInv, TypeOK
<1>2. Known(w)' /\ Uploading(w)'
  BY <1>1 DEF Known, Uploading
<1>3. \A v \in Workers \ {w} : Known(v)' /\ Uploading(v)'
  BY <1>1, OthersKept
<1> QED
  BY <1>2, <1>3 DEF TypeInv

LEMMA EnableKeeps ==
  ASSUME TypeInv, NEW w \in Workers, SetEnabled(w)
  PROVE  TypeInv'
<1>1. enabled' \in BOOLEAN
  BY InFlight, JobTypes DEF SetEnabled, Serves, TypeInv
<1>2. TypeOK'
  BY <1>1, FinishType DEF SetEnabled, clock, TypeInv, TypeOK
<1>3. Grows
  BY DEF SetEnabled, Grows, TypeInv, TypeOK
<1> QED
  BY <1>2, <1>3, EndKeeps DEF SetEnabled, Serves

\* Marking some links of the sequence as revoked.
LEMMA MarksType ==
  ASSUME NEW s \in Seq(Invite), NEW S
  PROVE  /\ [j \in DOMAIN s |-> [s[j] EXCEPT !.revoked = @ \/ j \in S]] \in Seq(Invite)
         /\ Len([j \in DOMAIN s |-> [s[j] EXCEPT !.revoked = @ \/ j \in S]]) = Len(s)
<1> DEFINE t == [j \in 1..Len(s) |-> [s[j] EXCEPT !.revoked = @ \/ j \in S]]
<1>1. ASSUME NEW j \in 1..Len(s)
      PROVE  [s[j] EXCEPT !.revoked = @ \/ j \in S] \in Invite
  <2>1. s[j] \in Invite
    OBVIOUS
  <2> QED
    BY <2>1 DEF Invite
<1>2. t \in [1..Len(s) -> Invite]
  BY <1>1
<1>3. t \in Seq(Invite) /\ Len(t) = Len(s)
  BY <1>2
<1>4. t = [j \in DOMAIN s |-> [s[j] EXCEPT !.revoked = @ \/ j \in S]]
  OBVIOUS
<1> QED
  BY <1>3, <1>4

LEMMA CreateWrites ==
  ASSUME TypeInv, NEW w \in Workers, CreateInvite(w)
  PROVE  /\ invites' \in Seq(Invite) /\ Len(invites') = Len(invites) + 1
         /\ revocations' = revocations \cup Priors(req[w].invites)
         /\ Priors(req[w].invites) \subseteq DOMAIN invites
         /\ invites'[Len(invites) + 1] = [expires |-> now + Ttl, revoked |-> FALSE]
         /\ \A j \in DOMAIN invites :
              invites'[j] = [invites[j] EXCEPT
                               !.revoked = @ \/ j \in Priors(req[w].invites)]
<1> DEFINE priors == Priors(req[w].invites)
           kept == [j \in DOMAIN invites |->
                      [invites[j] EXCEPT !.revoked = @ \/ j \in priors]]
           new == [expires |-> now + Ttl, revoked |-> FALSE]
<1>1. /\ req[w] # Idle /\ req[w].job.op = "create"
      /\ invites' = Append(kept, new) /\ revocations' = revocations \cup priors
  BY DEF CreateInvite, Serves
<1>2. invites \in Seq(Invite) /\ now \in Nat
  BY DEF TypeInv, TypeOK
<1>3. req[w].invites \in Seq(Invite) /\ Len(req[w].invites) <= Len(invites)
  BY <1>1, InFlight DEF TypeInv, Known
<1>4. priors \subseteq DOMAIN invites
  BY <1>2, <1>3 DEF Priors
<1> HIDE DEF priors
<1>5. kept \in Seq(Invite) /\ Len(kept) = Len(invites)
  BY <1>2, MarksType
<1>6. new \in Invite
  BY <1>2, BoundAssumption DEF Invite
<1> HIDE DEF new
<1>7. \A j \in DOMAIN invites :
        kept[j] = [invites[j] EXCEPT !.revoked = @ \/ j \in priors]
  OBVIOUS
<1> HIDE DEF kept
<1>8. /\ invites' \in Seq(Invite) /\ Len(invites') = Len(invites) + 1
      /\ invites'[Len(invites) + 1] = new
      /\ \A j \in 1..Len(invites) : invites'[j] = kept[j]
  BY <1>1, <1>5, <1>6
<1>9. ASSUME NEW j \in DOMAIN invites
      PROVE  invites'[j] = [invites[j] EXCEPT !.revoked = @ \/ j \in priors]
  <2>1. j \in 1..Len(invites)
    BY <1>2
  <2>2. invites'[j] = kept[j]
    BY <1>8, <2>1
  <2> QED
    BY <1>7, <2>2, Zenon
<1> QED
  BY <1>1, <1>4, <1>8, <1>9 DEF priors, new

LEMMA CreateKeeps ==
  ASSUME TypeInv, NEW w \in Workers, CreateInvite(w)
  PROVE  TypeInv'
<1>1. /\ invites' \in Seq(Invite) /\ Len(invites') = Len(invites) + 1
      /\ revocations' = revocations \cup Priors(req[w].invites)
      /\ Priors(req[w].invites) \subseteq DOMAIN invites
  BY CreateWrites
<1>2. invites \in Seq(Invite)
  BY DEF TypeInv, TypeOK
<1>3. DOMAIN invites \subseteq DOMAIN invites' /\ revocations' \subseteq DOMAIN invites'
  BY <1>1, <1>2 DEF TypeInv, TypeOK
<1>4. /\ UNCHANGED <<enabled, contributors, inbox, turns, uploads, lock, clock>>
      /\ Finish(w) /\ lock = None
  BY DEF CreateInvite, Serves
<1>5. TypeOK'
  BY <1>1, <1>3, <1>4, FinishType DEF clock, TypeInv, TypeOK
<1>6. Grows
  BY <1>1, <1>2, <1>3, <1>4 DEF Grows
<1> QED
  BY <1>4, <1>5, <1>6, EndKeeps

LEMMA RevokeKeeps ==
  ASSUME TypeInv, NEW w \in Workers, RevokeInvite(w)
  PROVE  TypeInv'
<1> DEFINE j == req[w].job.jti
<1>1. /\ req[w] # Idle /\ req[w].job.op = "revoke" /\ lock = None
      /\ \/ UNCHANGED <<invites, revocations>>
         \/ /\ invites' = [invites EXCEPT ![j].revoked = TRUE]
            /\ revocations' = revocations \cup {j}
      /\ Finish(w)
      /\ UNCHANGED <<enabled, contributors, inbox, turns, uploads, lock, clock>>
  BY DEF RevokeInvite, Serves
<1>2. j \in DOMAIN invites /\ invites \in Seq(Invite)
  BY <1>1 DEF TypeInv, TypeOK, Known
<1> HIDE DEF j
<1>3. [invites[j] EXCEPT !.revoked = TRUE] \in Invite
  <2>1. invites[j] \in Invite
    BY <1>2
  <2> QED
    BY <2>1 DEF Invite
<1>4. /\ [invites EXCEPT ![j].revoked = TRUE] \in Seq(Invite)
      /\ DOMAIN [invites EXCEPT ![j].revoked = TRUE] = DOMAIN invites
      /\ Len([invites EXCEPT ![j].revoked = TRUE]) = Len(invites)
  BY <1>2, <1>3
<1>5. /\ invites' \in Seq(Invite) /\ DOMAIN invites' = DOMAIN invites
      /\ Len(invites') = Len(invites) /\ revocations' \subseteq DOMAIN invites
  BY <1>1, <1>2, <1>4 DEF TypeInv, TypeOK
<1>6. TypeOK'
  BY <1>1, <1>5, FinishType DEF clock, TypeInv, TypeOK
<1>7. Grows
  BY <1>1, <1>2, <1>5 DEF Grows
<1> QED
  BY <1>1, <1>6, <1>7, EndKeeps

\* The contribution a host has decided about, whatever the decision.
LEMMA DisposeWrites ==
  ASSUME TypeInv, NEW w \in Workers, Dispose(w)
  PROVE  LET c == req[w].about
             include == req[w].job.action = "include"
         IN /\ c \in DOMAIN inbox
            /\ \E status \in Statuses :
                 /\ inbox' = [inbox EXCEPT ![c] =
                                [inbox[c] EXCEPT !.status = status,
                                                 !.turn = @ \/ include]]
                 /\ include => status = "included"
                 /\ ~include => status \in {inbox[c].status, "deferred", "dismissed"}
            /\ include => c \notin turns /\ turns' = turns \cup {c}
            /\ ~include => turns' = turns
<1> DEFINE c == req[w].about
           act == req[w].job.action
           became == CASE act = "include" -> "included"
                       [] act = "defer" -> "deferred"
                       [] act = "dismiss" -> "dismissed"
           status == Put(inbox[c].status, req[w].status, became)
           row == [inbox[c] EXCEPT !.status = Put(@, req[w].status, became)]
<1>1. /\ req[w] # Idle /\ req[w].job.op = "dispose"
      /\ IF act = "include"
           THEN /\ c \notin turns /\ turns' = turns \cup {c}
                /\ inbox' = [inbox EXCEPT ![c] = [row EXCEPT !.turn = TRUE]]
           ELSE inbox' = [inbox EXCEPT ![c] = row] /\ UNCHANGED turns
  BY DEF Dispose, Serves, Inserts
<1>2. /\ c \in DOMAIN inbox /\ (act = "include" => req[w].status = "pending")
      /\ req[w].status \in Statuses /\ req[w].job \in Job
      /\ inbox[c] \in Contribution
  BY <1>1, InFlight DEF TypeInv, Known, TypeOK
<1>3. act \in {"include", "defer", "dismiss"}
  BY <1>1, <1>2, JobTypes
<1> HIDE DEF c, act
<1>4. /\ status \in Statuses
      /\ act = "include" => status = "included"
      /\ act # "include" => status \in {inbox[c].status, "deferred", "dismissed"}
  BY <1>2, <1>3 DEF Put, Statuses, Contribution
<1>5. row = [inbox[c] EXCEPT !.status = status]
  OBVIOUS
<1> HIDE DEF row, status
<1> DEFINE decided == [inbox[c] EXCEPT !.status = status, !.turn = @ \/ act = "include"]
<1>6. act = "include" => [row EXCEPT !.turn = TRUE] = decided
  BY <1>2, <1>5 DEF Contribution
<1>7. act # "include" => row = decided
  BY <1>2, <1>5 DEF Contribution
<1> HIDE DEF decided
<1>8. inbox' = [inbox EXCEPT ![c] = decided]
  BY <1>1, <1>6, <1>7, Zenon
<1> QED
  <2>1. /\ act = "include" => c \notin turns /\ turns' = turns \cup {c}
        /\ act # "include" => turns' = turns
    BY <1>1, Zenon
  <2>2. c \in DOMAIN inbox
    BY <1>2, Zenon
  <2> QED
    BY <2>1, <2>2, <1>4, <1>8, Zenon DEF c, act, decided

LEMMA DisposeKeeps ==
  ASSUME TypeInv, NEW w \in Workers, Dispose(w)
  PROVE  TypeInv'
<1> DEFINE c == req[w].about
           include == req[w].job.action = "include"
<1>1. PICK status \in Statuses :
        inbox' = [inbox EXCEPT ![c] = [inbox[c] EXCEPT !.status = status,
                                                       !.turn = @ \/ include]]
  BY DisposeWrites
<1>2. c \in DOMAIN inbox /\ turns' \in {turns, turns \cup {c}}
  BY DisposeWrites
<1>3. inbox[c] \in Contribution /\ inbox[c].by \in DOMAIN contributors
  BY <1>2 DEF TypeInv, TypeOK
<1> DEFINE decided == [inbox[c] EXCEPT !.status = status, !.turn = @ \/ include]
<1>4. decided \in Contribution /\ decided.by = inbox[c].by
  BY <1>3 DEF Contribution
<1> HIDE DEF decided, c
<1>5. /\ DOMAIN inbox' = DOMAIN inbox
      /\ \A d \in DOMAIN inbox : inbox'[d] = IF d = c THEN decided ELSE inbox[d]
  BY <1>1 DEF decided
<1>6. /\ UNCHANGED <<enabled, invites, revocations, contributors, uploads, lock, clock>>
      /\ Finish(w) /\ lock = None
  BY DEF Dispose, Serves
<1>7. \A d \in DOMAIN inbox' :
        inbox'[d] \in Contribution /\ inbox'[d].by \in DOMAIN contributors
  BY <1>3, <1>4, <1>5 DEF TypeInv, TypeOK
<1>8. turns' \subseteq DOMAIN inbox'
  BY <1>2, <1>5 DEF TypeInv, TypeOK
<1>9. TypeOK'
  BY <1>5, <1>6, <1>7, <1>8, FinishType DEF clock, TypeInv, TypeOK
<1>10. Grows
  BY <1>5, <1>6 DEF Grows, TypeInv, TypeOK
<1> QED
  BY <1>6, <1>9, <1>10, EndKeeps

LEMMA JoinKeeps ==
  ASSUME TypeInv, NEW w \in Workers, Join(w)
  PROVE  TypeInv'
<1>1. /\ req[w] # Idle /\ req[w].job.op = "join" /\ lock = None /\ Finish(w)
      /\ contributors' = Extend(contributors, req[w].job.email, req[w].token)
      /\ UNCHANGED <<enabled, invites, revocations, inbox, turns, uploads, lock, clock>>
  BY DEF Join, Serves
<1>2. req[w].job.email \in Emails /\ req[w].token \in DOMAIN invites
  BY <1>1, InFlight, JobTypes DEF TypeInv, Known
<1>3. /\ DOMAIN contributors' = DOMAIN contributors \cup {req[w].job.email}
      /\ \A e \in DOMAIN contributors' :
           contributors'[e] \in {contributors[e], req[w].token}
      /\ \A e \in DOMAIN contributors' :
           e \notin DOMAIN contributors => contributors'[e] = req[w].token
  BY <1>1 DEF Extend
<1>4. /\ DOMAIN contributors' \subseteq Emails
      /\ \A e \in DOMAIN contributors' : contributors'[e] \in DOMAIN invites
  BY <1>2, <1>3 DEF TypeInv, TypeOK
<1>5. TypeOK'
  BY <1>1, <1>3, <1>4, FinishType DEF clock, TypeInv, TypeOK
<1>6. Grows
  BY <1>1, <1>3 DEF Grows, TypeInv, TypeOK
<1> QED
  BY <1>1, <1>5, <1>6, EndKeeps

LEMMA FlushKeeps ==
  ASSUME TypeInv, NEW w \in Workers, Flush(w)
  PROVE  TypeInv'
<1> DEFINE c == CHOOSE d \in Fresh : TRUE
<1>1. /\ req[w] # Idle /\ req[w].job.op = "submit" /\ lock = None /\ lock' = w
      /\ req' = [req EXCEPT ![w].phase = "flushed", ![w].about = c]
      /\ UNCHANGED <<tables, uploads, clock>> /\ Fresh # {}
  BY DEF Flush, Serves
<1>2. c \in Contributions /\ c \notin DOMAIN inbox /\ c \notin uploads
  BY <1>1 DEF Fresh
<1> HIDE DEF c
<1>3. req[w] \in Request
  BY <1>1, InFlight DEF TypeInv
<1> DEFINE next == [req[w] EXCEPT !.phase = "flushed", !.about = c]
<1>4. next \in Request /\ next.phase = "flushed" /\ next.about = c
      /\ next.job = req[w].job /\ next.token = req[w].token
  BY <1>2, <1>3 DEF Request
<1>5. req' = [req EXCEPT ![w] = next]
  BY <1>1
<1> HIDE DEF next
<1>6. /\ req' \in [Workers -> Request \cup {Idle}] /\ req'[w] = next
      /\ \A v \in Workers \ {w} : req'[v] = req[v]
  BY <1>4, <1>5 DEF TypeInv, TypeOK
<1>7. TypeOK'
  BY <1>1, <1>6 DEF clock, tables, TypeInv, TypeOK
<1>8. Grows
  BY <1>1 DEF Grows, tables, TypeInv, TypeOK
<1>9. \A v \in Workers \ {w} : Known(v)' /\ Uploading(v)'
  BY <1>1, <1>6, <1>8, OthersKept
<1>10. Known(w)'
  BY <1>1, <1>4, <1>6 DEF Known, tables, TypeInv
<1>11. Uploading(w)'
  BY <1>1, <1>2, <1>4, <1>6 DEF Uploading, tables
<1> QED
  BY <1>7, <1>9, <1>10, <1>11 DEF TypeInv

LEMMA AttachKeeps ==
  ASSUME TypeInv, NEW w \in Workers, Attach(w)
  PROVE  TypeInv'
<1> DEFINE c == req[w].about
<1>1. /\ req[w] # Idle /\ req[w].phase = "flushed" /\ uploads' = uploads \cup {c}
      /\ req' = [req EXCEPT ![w].phase = "attached"]
      /\ UNCHANGED <<tables, lock, clock>>
  BY DEF Attach, Stores
<1>2. lock = w /\ c \in Contributions /\ c \notin DOMAIN inbox
  BY <1>1 DEF TypeInv, Uploading
<1>3. req[w] \in Request /\ req[w].job.op = "submit"
  BY <1>1, InFlight DEF TypeInv, Known
<1> DEFINE next == [req[w] EXCEPT !.phase = "attached"]
<1>4. next \in Request /\ next.phase = "attached" /\ next.about = c
      /\ next.job = req[w].job /\ next.token = req[w].token
  BY <1>3 DEF Request
<1>5. req' = [req EXCEPT ![w] = next]
  BY <1>1
<1> HIDE DEF next, c
<1>6. /\ req' \in [Workers -> Request \cup {Idle}] /\ req'[w] = next
      /\ \A v \in Workers \ {w} : req'[v] = req[v]
  BY <1>4, <1>5 DEF TypeInv, TypeOK
<1>7. TypeOK'
  BY <1>1, <1>2, <1>6 DEF clock, tables, TypeInv, TypeOK
<1>8. Grows
  BY <1>1 DEF Grows, tables, TypeInv, TypeOK
<1>9. \A v \in Workers \ {w} : Known(v)' /\ Uploading(v)'
  BY <1>2, <1>6, <1>8, OthersKept
<1>10. Known(w)'
  BY <1>1, <1>3, <1>4, <1>6 DEF Known, tables, TypeInv
<1>11. Uploading(w)'
  <2>1. lock' = w /\ c \in uploads' /\ inbox' = inbox
    BY <1>1, <1>2 DEF tables
  <2>2. req'[w].about = c /\ req'[w].phase = "attached"
    BY <1>4, <1>6
  <2> QED
    BY <1>2, <2>1, <2>2 DEF Uploading
<1> QED
  BY <1>7, <1>9, <1>10, <1>11 DEF TypeInv

LEMMA CommitWrites ==
  ASSUME TypeInv, NEW w \in Workers, Commit(w)
  PROVE  LET c == req[w].about
             new == [status |-> "pending", by |-> req[w].job.email, turn |-> FALSE,
                     file |-> req[w].job.attach]
         IN /\ c \in Contributions \ DOMAIN inbox
            /\ new \in Contribution /\ new.by \in DOMAIN contributors
            /\ DOMAIN inbox' = DOMAIN inbox \cup {c}
            /\ \A d \in DOMAIN inbox' : inbox'[d] = IF d = c THEN new ELSE inbox[d]
            /\ c \in uploads <=> req[w].job.attach
            /\ lock = w
<1> DEFINE c == req[w].about
           new == [status |-> "pending", by |-> req[w].job.email, turn |-> FALSE,
                   file |-> req[w].job.attach]
<1>1. /\ req[w] # Idle /\ inbox' = Extend(inbox, c, new)
      /\ req[w].phase = IF req[w].job.op = "submit" /\ req[w].job.attach
                        THEN "attached" ELSE "flushed"
  BY DEF Commit
<1>2. /\ req[w].job.op = "submit" /\ c \in Contributions \ DOMAIN inbox /\ lock = w
      /\ c \in uploads <=> req[w].phase = "attached"
  BY <1>1 DEF TypeInv, Known, Uploading
<1>3. /\ req[w].job.email \in Emails /\ req[w].job.attach \in BOOLEAN
      /\ req[w].job.email \in DOMAIN contributors
  BY <1>1, <1>2, InFlight, JobTypes DEF TypeInv, Known
<1>4. new \in Contribution /\ new.by \in DOMAIN contributors
  BY <1>3 DEF Contribution, Statuses
<1>5. c \in uploads <=> req[w].job.attach
  BY <1>1, <1>2
<1> HIDE DEF new, c
<1>6. /\ DOMAIN inbox' = DOMAIN inbox \cup {c}
      /\ \A d \in DOMAIN inbox' : inbox'[d] = IF d = c THEN new ELSE inbox[d]
  BY <1>1 DEF Extend
<1> QED
  BY <1>2, <1>4, <1>5, <1>6 DEF new, c

LEMMA CommitKeeps ==
  ASSUME TypeInv, NEW w \in Workers, Commit(w)
  PROVE  TypeInv'
<1>1. PICK c \in Contributions \ DOMAIN inbox, new \in Contribution :
        /\ new.by \in DOMAIN contributors
        /\ DOMAIN inbox' = DOMAIN inbox \cup {c}
        /\ \A d \in DOMAIN inbox' : inbox'[d] = IF d = c THEN new ELSE inbox[d]
        /\ lock = w
  BY CommitWrites
<1>2. /\ UNCHANGED <<enabled, invites, revocations, contributors, turns, uploads, clock>>
      /\ lock' = None /\ Finish(w)
  BY DEF Commit
<1>3. /\ DOMAIN inbox' \subseteq Contributions
      /\ \A d \in DOMAIN inbox' :
           inbox'[d] \in Contribution /\ inbox'[d].by \in DOMAIN contributors
  BY <1>1 DEF TypeInv, TypeOK
<1>4. TypeOK'
  BY <1>1, <1>2, <1>3, FinishType DEF clock, TypeInv, TypeOK
<1>5. Grows
  BY <1>1, <1>2 DEF Grows, TypeInv, TypeOK
<1> QED
  BY <1>1, <1>2, <1>4, <1>5, EndKeeps

LEMMA TickKeeps ==
  ASSUME TypeInv, UNCHANGED <<tables, uploads, lock, req>>,
         now' \in Nat, bucket' \in Seq(Nat), admitted' \in Seq(Nat)
  PROVE  TypeInv'
BY DEF TypeInv, TypeOK, Known, Uploading, tables

-----------------------------------------------------------------------------
(* Invariance *)

LEMMA TypeInit == Init => TypeInv
<1> SUFFICES ASSUME Init PROVE TypeInv
  OBVIOUS
<1>1. req \in [Workers -> Request \cup {Idle}]
  BY DEF Init
<1>2. DOMAIN contributors = {} /\ DOMAIN inbox = {}
  BY DEF Init
<1>3. invites \in Seq(Invite) /\ DOMAIN invites = {} /\ bucket \in Seq(Nat) /\ admitted \in Seq(Nat)
  BY DEF Init
<1>4. enabled \in BOOLEAN /\ revocations = {} /\ turns = {} /\ uploads = {} /\ lock = None /\ now = 0
  BY DEF Init
<1>5. TypeOK
  BY <1>1, <1>2, <1>3, <1>4 DEF TypeOK
<1> QED
  BY <1>5 DEF Init, TypeInv, Known, Uploading

LEMMA TypeStep ==
  ASSUME TypeInv, [Next]_vars
  PROVE  TypeInv'
<1>1. CASE Tick
  BY <1>1, TickKeeps DEF Tick, TypeInv, TypeOK
<1>2. CASE UNCHANGED vars
  BY <1>2, TickKeeps DEF vars, tables, TypeInv, TypeOK
<1>3. ASSUME NEW w \in Workers,
             \/ Call(w) \/ Knock(w) \/ Abort(w)
             \/ SetEnabled(w) \/ CreateInvite(w) \/ RevokeInvite(w) \/ Dispose(w)
             \/ Join(w) \/ Flush(w) \/ Attach(w) \/ Commit(w)
      PROVE  TypeInv'
  BY <1>3, CallKeeps, KnockKeeps, AbortKeeps, EnableKeeps, CreateKeeps, RevokeKeeps,
     DisposeKeeps, JoinKeeps, FlushKeeps, AttachKeeps, CommitKeeps
<1> QED
  BY <1>1, <1>2, <1>3 DEF Next

LEMMA TypeAlways == Spec => []TypeInv
BY TypeInit, TypeStep, PTL DEF Spec

\* Every row, every request and the limiter's bucket are always well formed: a request
\* in flight finds the link, the participant and the contribution it was let in for.
THEOREM TypeCorrect == Spec => []TypeOK
<1>1. TypeInv => TypeOK
  BY DEF TypeInv
<1> QED
  BY <1>1, TypeAlways, PTL

-----------------------------------------------------------------------------
(* Attachments *)

LEMMA AttachmentsStep ==
  ASSUME TypeInv, AttachmentsStored, [Next]_vars
  PROVE  AttachmentsStored'
<1>1. CASE UNCHANGED <<inbox, uploads>>
  BY <1>1 DEF AttachmentsStored
<1>2. ASSUME NEW w \in Workers, Dispose(w)
      PROVE  AttachmentsStored'
  <2> DEFINE c == req[w].about
             include == req[w].job.action = "include"
  <2>1. PICK status \in Statuses :
          inbox' = [inbox EXCEPT ![c] = [inbox[c] EXCEPT !.status = status,
                                                         !.turn = @ \/ include]]
    BY <1>2, DisposeWrites
  <2>2. c \in DOMAIN inbox /\ inbox[c] \in Contribution
    BY <1>2, DisposeWrites DEF TypeInv, TypeOK
  <2> DEFINE decided == [inbox[c] EXCEPT !.status = status, !.turn = @ \/ include]
  <2>3. decided.file = inbox[c].file
    BY <2>2 DEF Contribution
  <2> HIDE DEF decided, c
  <2>4. DOMAIN inbox' = DOMAIN inbox /\ \A d \in DOMAIN inbox : inbox'[d].file = inbox[d].file
    BY <2>1, <2>2, <2>3 DEF decided
  <2>5. uploads' = uploads
    BY <1>2 DEF Dispose
  <2> QED
    BY <2>4, <2>5 DEF AttachmentsStored
<1>3. ASSUME NEW w \in Workers, Attach(w)
      PROVE  AttachmentsStored'
  <2>1. /\ uploads' = uploads \cup {req[w].about} /\ inbox' = inbox
        /\ req[w] # Idle /\ req[w].phase = "flushed"
    BY <1>3 DEF Attach, Stores, tables
  <2>2. req[w].about \notin DOMAIN inbox
    BY <2>1 DEF TypeInv, Uploading
  <2> QED
    BY <2>1, <2>2 DEF AttachmentsStored
<1>4. ASSUME NEW w \in Workers, Commit(w)
      PROVE  AttachmentsStored'
  <2> DEFINE c == req[w].about
             new == [status |-> "pending", by |-> req[w].job.email, turn |-> FALSE,
                     file |-> req[w].job.attach]
  <2>1. /\ c \notin DOMAIN inbox /\ DOMAIN inbox' = DOMAIN inbox \cup {c}
        /\ \A d \in DOMAIN inbox' : inbox'[d] = IF d = c THEN new ELSE inbox[d]
        /\ c \in uploads <=> new.file
    BY <1>4, CommitWrites
  <2>2. uploads' = uploads
    BY <1>4 DEF Commit
  <2> HIDE DEF c, new
  <2>3. ASSUME NEW d \in DOMAIN inbox'
        PROVE  inbox'[d].file <=> d \in uploads'
    <3>1. CASE d = c
      BY <2>1, <2>2, <3>1, Zenon
    <3>2. CASE d # c
      <4>1. d \in DOMAIN inbox /\ inbox'[d] = inbox[d]
        BY <2>1, <3>2
      <4> QED
        BY <2>2, <4>1, Zenon DEF AttachmentsStored
    <3> QED
      BY <3>1, <3>2
  <2> QED
    BY <2>3, Zenon DEF AttachmentsStored
<1>5. ASSUME NEW w \in Workers,
             \/ Call(w) \/ Knock(w) \/ Abort(w) \/ SetEnabled(w) \/ CreateInvite(w)
             \/ RevokeInvite(w) \/ Join(w) \/ Flush(w)
      PROVE  UNCHANGED <<inbox, uploads>>
  BY <1>5 DEF Call, Knock, Abort, SetEnabled, CreateInvite, RevokeInvite, Join, Flush, tables
<1>6. Tick \/ UNCHANGED vars => UNCHANGED <<inbox, uploads>>
  BY DEF Tick, vars, tables
<1> QED
  BY <1>1, <1>2, <1>3, <1>4, <1>5, <1>6 DEF Next

\* Whatever fails between the file and the row, and whoever else is at work: a
\* contribution says it has an attachment exactly when a file is stored for it.
THEOREM AttachmentsAreStored == Spec => []AttachmentsStored
<1>1. Init => AttachmentsStored
  BY DEF Init, AttachmentsStored
<1> QED
  BY <1>1, AttachmentsStep, TypeAlways, PTL DEF Spec

-----------------------------------------------------------------------------
(* The inbox the host is promised *)

\* An administrator's decision.
LEMMA DisposeRefines ==
  ASSUME TypeInv, NEW w \in Workers, Dispose(w)
  PROVE  \/ \E c \in Contributions : Kept!Record(c) \/ Kept!SetAside(c)
         \/ UNCHANGED <<Placed, turns>>
<1> DEFINE c == req[w].about
           include == req[w].job.action = "include"
<1>1. PICK status \in Statuses :
        /\ inbox' = [inbox EXCEPT ![c] = [inbox[c] EXCEPT !.status = status,
                                                          !.turn = @ \/ include]]
        /\ include => status = "included"
        /\ ~include => status \in {inbox[c].status, "deferred", "dismissed"}
  BY DisposeWrites
<1>2. /\ c \in DOMAIN inbox /\ inbox[c] \in Contribution /\ c \in Contributions
      /\ include => c \notin turns /\ turns' = turns \cup {c}
      /\ ~include => turns' = turns
  BY DisposeWrites DEF TypeInv, TypeOK
<1> DEFINE decided == [inbox[c] EXCEPT !.status = status, !.turn = @ \/ include]
<1>3. decided.status = status
  BY <1>2 DEF Contribution
<1> HIDE DEF decided, c, include
<1>4. /\ DOMAIN inbox' = DOMAIN inbox
      /\ \A d \in DOMAIN inbox : inbox'[d].status = IF d = c THEN status ELSE inbox[d].status
  BY <1>1, <1>2, <1>3 DEF decided
<1>5. Placed' = [d \in DOMAIN Placed \cup {c} |-> IF d = c THEN status ELSE Placed[d]]
  BY <1>2, <1>4 DEF Placed
<1>6. c \in DOMAIN Placed
  BY <1>2 DEF Placed
<1>7. CASE include
  BY <1>1, <1>2, <1>5, <1>6, <1>7 DEF Kept!Record, Kept!Put1
<1>8. CASE ~include /\ status \in {"deferred", "dismissed"}
  BY <1>1, <1>2, <1>5, <1>6, <1>8 DEF Kept!SetAside, Kept!Put1
<1>9. CASE ~include /\ status = inbox[c].status
  <2>1. Placed' = Placed
    BY <1>2, <1>4, <1>9 DEF Placed
  <2> QED
    BY <1>2, <1>9, <2>1
<1> QED
  BY <1>1, <1>7, <1>8, <1>9

\* A contribution that has been stored.
LEMMA CommitRefines ==
  ASSUME TypeInv, NEW w \in Workers, Commit(w)
  PROVE  \E c \in Contributions : Kept!Arrive(c)
<1>1. PICK c \in Contributions \ DOMAIN inbox, new \in Contribution :
        /\ new.status = "pending" /\ DOMAIN inbox' = DOMAIN inbox \cup {c}
        /\ \A d \in DOMAIN inbox' : inbox'[d] = IF d = c THEN new ELSE inbox[d]
  BY CommitWrites
<1>2. Placed' = [d \in DOMAIN Placed \cup {c} |-> IF d = c THEN "pending" ELSE Placed[d]]
  BY <1>1 DEF Placed
<1>3. c \notin DOMAIN Placed
  BY DEF Placed
<1>4. UNCHANGED turns
  BY DEF Commit
<1> QED
  BY <1>2, <1>3, <1>4 DEF Kept!Arrive, Kept!Put1

LEMMA InboxStep ==
  ASSUME TypeInv, [Next]_vars
  PROVE  [Kept!BNext]_Kept!inboxVars
<1>1. UNCHANGED <<inbox, turns>> => UNCHANGED Kept!inboxVars
  BY DEF Kept!inboxVars, Placed
<1>2. ASSUME NEW w \in Workers, Dispose(w)
      PROVE  [Kept!BNext]_Kept!inboxVars
  BY <1>2, DisposeRefines DEF Kept!BNext, Kept!inboxVars
<1>3. ASSUME NEW w \in Workers, Commit(w)
      PROVE  Kept!BNext
  BY <1>3, CommitRefines DEF Kept!BNext
<1>4. ASSUME NEW w \in Workers,
             \/ Call(w) \/ Knock(w) \/ Abort(w) \/ SetEnabled(w) \/ CreateInvite(w)
             \/ RevokeInvite(w) \/ Join(w) \/ Flush(w) \/ Attach(w)
      PROVE  UNCHANGED <<inbox, turns>>
  BY <1>4 DEF Call, Knock, Abort, SetEnabled, CreateInvite, RevokeInvite, Join, Flush,
     Attach, tables
<1>5. Tick \/ UNCHANGED vars => UNCHANGED <<inbox, turns>>
  BY DEF Tick, vars, tables
<1> QED
  BY <1>1, <1>2, <1>3, <1>4, <1>5 DEF Next

\* However many hosts decide at once, on rows however old: what participants send
\* arrives once, is recorded at most once, and only by being included.
THEOREM InboxKept == Spec => ImplementsInbox
<1>1. Init => Kept!BInit
  BY DEF Init, Kept!BInit, Placed
<1> QED
  BY <1>1, InboxStep, TypeAlways, PTL DEF Spec, ImplementsInbox, Kept!BSpec

-----------------------------------------------------------------------------
(* The limiter *)

\* The bucket is the end of the history; what has left it left it for being too old,
\* and time does not make it younger.
Gone == Len(admitted) - Len(bucket)
BucketInv ==
  /\ Gone \in Nat
  /\ \A i \in 1..Len(bucket) : bucket[i] = admitted[Gone + i]
  /\ \A i \in 1..Gone : ~Keeps(admitted[i], now)

InWindow(s, t) == {i \in DOMAIN s : s[i] \in t..(t + Window)}

\* Pruning keeps the bucket the end of the history.
LEMMA PruneKeeps ==
  ASSUME TypeOK, BucketInv
  PROVE  LET pruned == Pruned(bucket, now)
             gone == Len(admitted) - Len(pruned)
         IN /\ pruned \in Seq(Nat) /\ gone \in Nat /\ Len(pruned) \in Nat
            /\ \A i \in 1..Len(pruned) : pruned[i] = admitted[gone + i]
            /\ \A i \in 1..gone : ~Keeps(admitted[i], now)
<1> DEFINE front == Front(bucket, now)
           pruned == Pruned(bucket, now)
           gone == Len(admitted) - Len(pruned)
<1>1. /\ bucket \in Seq(Nat) /\ now \in Nat /\ admitted \in Seq(Nat)
      /\ Len(bucket) \in Nat /\ Len(admitted) \in Nat
  BY DEF TypeOK
<1>2. /\ front \in 1..(Len(bucket) + 1)
      /\ \A i \in 1..(front - 1) : ~Keeps(bucket[i], now)
      /\ pruned \in Seq(Nat)
      /\ Len(pruned) = Len(bucket) + 1 - front
      /\ \A i \in 1..Len(pruned) : pruned[i] = bucket[front + i - 1]
  BY <1>1, PrunedType
<1> HIDE DEF front, pruned
<1>3. gone = Gone + front - 1 /\ gone \in Nat /\ Len(pruned) \in Nat
  BY <1>1, <1>2 DEF BucketInv, Gone
<1>4. ASSUME NEW i \in 1..Len(pruned)
      PROVE  pruned[i] = admitted[gone + i]
  <2>a. front \in Nat /\ Gone \in Nat /\ i \in Nat /\ Len(pruned) \in Nat
    BY <1>1, <1>2, <1>3 DEF BucketInv
  <2>b. front >= 1 /\ i >= 1 /\ i <= Len(bucket) + 1 - front
    BY <1>2
  <2>c. front + i - 1 \in 1..Len(bucket)
    BY <1>1, <2>a, <2>b
  <2>d. Gone + (front + i - 1) = gone + i
    <3> HIDE DEF gone
    <3> QED
      BY <1>3, <2>a
  <2>1. front + i - 1 \in 1..Len(bucket) /\ Gone + (front + i - 1) = gone + i
    BY <2>c, <2>d
  <2>2. bucket[front + i - 1] = admitted[Gone + (front + i - 1)]
    BY <2>1 DEF BucketInv
  <2> QED
    BY <1>2, <2>1, <2>2
<1>5. ASSUME NEW i \in 1..gone
      PROVE  ~Keeps(admitted[i], now)
  <2>1. CASE i <= Gone
    BY <1>3, <2>1 DEF BucketInv
  <2>2. CASE i > Gone
    <3>1. i - Gone \in 1..(front - 1) /\ i - Gone \in 1..Len(bucket)
      BY <1>1, <1>2, <1>3, <2>2 DEF BucketInv
    <3>2. bucket[i - Gone] = admitted[Gone + (i - Gone)] /\ Gone + (i - Gone) = i
      BY <1>3, <3>1 DEF BucketInv
    <3> QED
      BY <1>2, <3>1, <3>2
  <2> QED
    BY <1>3, <2>1, <2>2 DEF BucketInv
<1> QED
  BY <1>2, <1>3, <1>4, <1>5 DEF pruned

\* An admission that finds room in the pruned bucket leaves room in every window.
LEMMA AdmissionFits ==
  ASSUME TypeOK, BucketInv, Admits(bucket, now), NEW t \in Nat,
         Cardinality(InWindow(admitted, t)) <= Limit
  PROVE  Cardinality(InWindow(Append(admitted, now), t)) <= Limit
<1> DEFINE pruned == Pruned(bucket, now)
           gone == Len(admitted) - Len(pruned)
           last == Len(admitted) + 1
           longer == Append(admitted, now)
<1>1. /\ gone \in Nat /\ Len(pruned) \in Nat
      /\ \A i \in 1..gone : ~Keeps(admitted[i], now)
  BY PruneKeeps
<1>2. Len(pruned) < Limit
  BY DEF Admits
<1>3. now \in Nat /\ admitted \in Seq(Nat) /\ last \in Nat \ {0} /\ Len(admitted) \in Nat
  BY DEF TypeOK
<1>4. /\ DOMAIN longer = 1..last /\ longer[last] = now
      /\ \A i \in 1..(last - 1) : longer[i] = admitted[i]
  BY <1>3
<1> HIDE DEF longer
<1>5. CASE now \in t..(t + Window)
  <2>1. ASSUME NEW i \in InWindow(longer, t)
        PROVE  i \in (gone + 1)..last
    <3>1. i \in 1..last /\ longer[i] >= t
      BY <1>4, <1>3 DEF InWindow
    <3>2. ASSUME i <= gone PROVE FALSE
      <4>1. i \in 1..gone /\ i \in 1..Len(admitted)
        BY <1>1, <1>3, <3>1, <3>2
      <4>a. longer[i] = admitted[i] /\ admitted[i] \in Nat
        BY <1>3, <1>4, <4>1
      <4>2. ~Keeps(admitted[i], now)
        BY <1>1, <4>1
      <4> QED
        BY <1>3, <1>5, <3>1, <4>a, <4>2, WindowAssumption DEF Keeps
    <3> QED
      BY <1>1, <1>3, <3>1, <3>2
  <2>2. InWindow(longer, t) \in SUBSET ((gone + 1)..last)
    BY <2>1
  <2>3. /\ IsFiniteSet((gone + 1)..last)
        /\ Cardinality((gone + 1)..last) =
             IF gone + 1 > last THEN 0 ELSE last - (gone + 1) + 1
    BY <1>1, <1>3, FS_Interval
  <2>4. /\ IsFiniteSet(InWindow(longer, t))
        /\ Cardinality(InWindow(longer, t)) <= Cardinality((gone + 1)..last)
    BY <2>2, <2>3, FS_Subset
  <2>5. Cardinality(InWindow(longer, t)) \in Nat
    BY <2>4, FS_CardinalityType
  <2>6. Cardinality((gone + 1)..last) = Len(pruned) + 1
    BY <1>1, <1>3, <2>3
  <2> QED
    BY <1>1, <1>2, <2>4, <2>5, <2>6, WindowAssumption DEF longer
<1>6. CASE now \notin t..(t + Window)
  <2>1. InWindow(longer, t) = InWindow(admitted, t)
    <3>1. DOMAIN admitted = 1..(last - 1)
      BY <1>3
    <3>2. \A i \in 1..last : i = last \/ i \in 1..(last - 1)
      BY <1>3
    <3>3. \A i \in 1..(last - 1) : i \in 1..last
      BY <1>3
    <3> QED
      BY <1>4, <1>6, <3>1, <3>2, <3>3 DEF InWindow
  <2> QED
    BY <2>1 DEF longer
<1> QED
  BY <1>5, <1>6

LEMMA RateStep ==
  ASSUME TypeInv, BucketInv, RateKept, [Next]_vars
  PROVE  BucketInv' /\ RateKept'
<1>1. TypeOK /\ now \in Nat /\ bucket \in Seq(Nat) /\ admitted \in Seq(Nat)
  BY DEF TypeInv, TypeOK
<1>2. CASE UNCHANGED clock
  BY <1>2 DEF BucketInv, Gone, RateKept, clock
<1>3. CASE Tick
  <2>1. now' = now + 1 /\ UNCHANGED <<bucket, admitted>>
    BY <1>3 DEF Tick
  <2>2. Gone \in Nat /\ Gone <= Len(admitted)
    BY <1>1 DEF BucketInv, Gone
  <2>3. ASSUME NEW i \in 1..Gone
        PROVE  ~Keeps(admitted[i], now')
    <3>1. ~Keeps(admitted[i], now) /\ admitted[i] \in Nat
      BY <1>1, <2>2 DEF BucketInv
    <3> QED
      BY <1>1, <2>1, <3>1, WindowAssumption DEF Keeps
  <2>4. BucketInv'
    BY <2>1, <2>3 DEF BucketInv, Gone
  <2> QED
    BY <2>1, <2>4 DEF RateKept
<1>4. ASSUME NEW w \in Workers, Knock(w)
      PROVE  BucketInv' /\ RateKept'
  <2> DEFINE pruned == Pruned(bucket, now)
             gone == Len(admitted) - Len(pruned)
  <2>1. now' = now /\ ~UNCHANGED <<bucket, admitted>> =>
          \/ /\ Admits(bucket, now)
             /\ bucket' = Append(pruned, now) /\ admitted' = Append(admitted, now)
          \/ bucket' = pruned /\ admitted' = admitted
    BY <1>4 DEF Knock
  <2>2. /\ pruned \in Seq(Nat) /\ gone \in Nat /\ Len(pruned) \in Nat
        /\ \A i \in 1..Len(pruned) : pruned[i] = admitted[gone + i]
        /\ \A i \in 1..gone : ~Keeps(admitted[i], now)
    BY <1>1, PruneKeeps
  <2> HIDE DEF pruned
  <2>3. now' = now
    BY <1>4 DEF Knock
  <2>4. CASE bucket' = pruned /\ admitted' = admitted
    <3>1. BucketInv'
      BY <2>2, <2>3, <2>4 DEF BucketInv, Gone
    <3> QED
      BY <2>4, <3>1 DEF RateKept
  <2>5. CASE /\ Admits(bucket, now)
             /\ bucket' = Append(pruned, now) /\ admitted' = Append(admitted, now)
    <3>1. /\ Len(bucket') = Len(pruned) + 1 /\ Len(admitted') = Len(admitted) + 1
          /\ bucket'[Len(pruned) + 1] = now /\ admitted'[Len(admitted) + 1] = now
          /\ \A i \in 1..Len(pruned) : bucket'[i] = pruned[i]
          /\ \A i \in 1..Len(admitted) : admitted'[i] = admitted[i]
      BY <1>1, <2>2, <2>5
    <3>2. Gone' = gone /\ Len(admitted) \in Nat /\ gone + Len(pruned) = Len(admitted)
      BY <1>1, <2>2, <3>1 DEF Gone
    <3>3. ASSUME NEW i \in 1..Len(bucket')
          PROVE  bucket'[i] = admitted'[Gone' + i]
      <4>1. CASE i = Len(pruned) + 1
        BY <2>2, <3>1, <3>2, <4>1
      <4>2. CASE i \in 1..Len(pruned)
        <5>1. gone + i \in 1..Len(admitted)
          BY <2>2, <3>2, <4>2
        <5> QED
          BY <2>2, <3>1, <3>2, <4>2, <5>1
      <4> QED
        BY <2>2, <3>1, <4>1, <4>2
    <3>4. ASSUME NEW i \in 1..Gone'
          PROVE  ~Keeps(admitted'[i], now')
      <4>1. i \in 1..gone /\ i \in 1..Len(admitted)
        BY <2>2, <3>2
      <4> QED
        BY <2>2, <2>3, <3>1, <4>1
    <3>5. BucketInv'
      BY <2>2, <3>2, <3>3, <3>4 DEF BucketInv
    <3>6. ASSUME NEW t \in 0..MaxTime
          PROVE  Cardinality(InWindow(admitted', t)) <= Limit
      <4>1. Cardinality(InWindow(admitted, t)) <= Limit
        BY DEF RateKept, InWindow
      <4> QED
        BY <1>1, <2>5, <4>1, AdmissionFits, BoundAssumption
    <3> QED
      BY <3>5, <3>6 DEF RateKept, InWindow
  <2>6. CASE UNCHANGED <<bucket, admitted>>
    BY <2>3, <2>6 DEF BucketInv, Gone, RateKept
  <2> QED
    BY <2>1, <2>3, <2>4, <2>5, <2>6
<1>5. ASSUME NEW w \in Workers,
             \/ Call(w) \/ Abort(w) \/ SetEnabled(w) \/ CreateInvite(w)
             \/ RevokeInvite(w) \/ Dispose(w) \/ Join(w) \/ Flush(w) \/ Attach(w) \/ Commit(w)
      PROVE  UNCHANGED clock
  BY <1>5 DEF Call, Abort, SetEnabled, CreateInvite, RevokeInvite, Dispose, Join, Flush,
     Attach, Commit
<1>6. UNCHANGED vars => UNCHANGED clock
  BY DEF vars, clock
<1> QED
  BY <1>2, <1>3, <1>4, <1>5, <1>6 DEF Next

LEMMA RateInit == Init => BucketInv /\ RateKept
<1> SUFFICES ASSUME Init PROVE BucketInv /\ RateKept
  OBVIOUS
<1>1. bucket = <<>> /\ admitted = <<>> /\ now = 0
  BY DEF Init
<1>2. BucketInv
  BY <1>1 DEF BucketInv, Gone
<1>3. ASSUME NEW t \in 0..MaxTime
      PROVE  {i \in DOMAIN admitted : admitted[i] \in t..(t + Window)} = {}
  BY <1>1
<1>4. Cardinality({}) = 0
  BY FS_EmptySet
<1> QED
  BY <1>2, <1>3, <1>4, WindowAssumption DEF RateKept

\* However the requests of a client interleave with time, no window of the limiter's
\* length, both its ends included, admits more of them than the limit.
THEOREM RateIsKept == Spec => []RateKept
BY RateInit, RateStep, TypeAlways, PTL DEF Spec

-----------------------------------------------------------------------------
(* The link that lets people in *)

\* One administrator creates invites, whoever revokes them; and a link is not made to
\* live longer than any token may.
OneInviter ==
  \A u, v \in Workers :
    (\E job \in JobsOf[u] : job.op = "create") /\ (\E job \in JobsOf[v] : job.op = "create")
      => u = v

\* Only the last link can be live, both tables agree on which are revoked, and a
\* creation under way has read all links, none of which can have come to life since.
LinkInv ==
  /\ \A j \in DOMAIN invites : ~invites[j].revoked => j = Len(invites)
  /\ \A j \in DOMAIN invites : invites[j].revoked <=> j \in revocations
  /\ \A w \in Workers : req[w] # Idle =>
       /\ req[w].job \in JobsOf[w]
       /\ req[w].job.op = "create" =>
            /\ Len(req[w].invites) = Len(invites)
            /\ \A j \in DOMAIN invites : req[w].invites[j].revoked => invites[j].revoked

\* A request after a step is the one before it or has just been loaded.
Same(v) == req[v] # Idle /\ req'[v].job = req[v].job /\ req'[v].invites = req[v].invites
New(v) == /\ req'[v].job \in JobsOf[v] /\ UNCHANGED <<invites, revocations>>
          /\ req'[v].job.op = "create" => req'[v].invites = invites

LEMMA RequestsStep ==
  ASSUME TypeInv, [Next]_vars, NEW v \in Workers, req'[v] # Idle
  PROVE  Same(v) \/ New(v)
<1>1. CASE req'[v] = req[v]
  BY <1>1 DEF Same
<1>2. ASSUME NEW w \in Workers, NEW job \in JobsOf[w], NEW j, NEW c,
             Take(w, job, j, c), UNCHANGED tables
      PROVE  Same(v) \/ New(v)
  <2>1. v # w => req'[v] = req[v]
    BY <1>2 DEF Take, TypeInv, TypeOK
  <2>2. v = w => New(v)
    BY <1>2 DEF Take, TypeInv, TypeOK, Loaded, New, tables
  <2> QED
    BY <1>1, <2>1, <2>2
<1>3. ASSUME NEW w \in Workers, Call(w)
      PROVE  Same(v) \/ New(v)
  BY <1>2, <1>3 DEF Call
<1>4. ASSUME NEW w \in Workers, Knock(w)
      PROVE  Same(v) \/ New(v)
  <2>1. UNCHANGED tables /\ (UNCHANGED req
          \/ \E job \in JobsOf[w], j \in DOMAIN invites : Take(w, job, j, None))
    BY <1>4 DEF Knock
  <2> QED
    BY <1>1, <1>2, <2>1
<1>5. ASSUME NEW w \in Workers, req' = [req EXCEPT ![w] = Idle]
      PROVE  Same(v) \/ New(v)
  BY <1>1, <1>5 DEF TypeInv, TypeOK
<1>6. ASSUME NEW w \in Workers,
             \/ Abort(w) \/ SetEnabled(w) \/ CreateInvite(w) \/ RevokeInvite(w)
             \/ Dispose(w) \/ Join(w) \/ Commit(w)
      PROVE  Same(v) \/ New(v)
  BY <1>5, <1>6 DEF Abort, SetEnabled, CreateInvite, RevokeInvite, Dispose, Join, Commit,
     Finish
<1>7. ASSUME NEW w \in Workers, Flush(w) \/ Attach(w)
      PROVE  Same(v) \/ New(v)
  <2>1. v # w => req'[v] = req[v]
    BY <1>7 DEF Flush, Attach, TypeInv, TypeOK
  <2>2. v = w => req[w] \in Request
    BY <1>7, InFlight DEF Flush, Attach, Serves, TypeInv
  <2>3. v = w => Same(v)
    BY <1>7, <2>2 DEF Flush, Attach, Serves, TypeInv, TypeOK, Same, Request
  <2> QED
    BY <1>1, <2>1, <2>3
<1>8. Tick \/ UNCHANGED vars => UNCHANGED req
  BY DEF Tick, vars
<1> QED
  BY <1>1, <1>3, <1>4, <1>6, <1>7, <1>8 DEF Next

\* A link that is revoked stays revoked.
LEMMA RevokeWrites ==
  ASSUME TypeInv, LinkInv, NEW w \in Workers, RevokeInvite(w)
  PROVE  /\ DOMAIN invites' = DOMAIN invites /\ Len(invites') = Len(invites)
         /\ \A j \in DOMAIN invites : invites[j].revoked => invites'[j].revoked
         /\ \A j \in DOMAIN invites : invites'[j].revoked <=> j \in revocations'
<1> DEFINE j == req[w].job.jti
<1>1. /\ req[w] # Idle /\ req[w].job.op = "revoke"
      /\ \/ UNCHANGED <<invites, revocations>>
         \/ /\ invites' = [invites EXCEPT ![j].revoked = TRUE]
            /\ revocations' = revocations \cup {j}
  BY DEF RevokeInvite, Serves
<1>2. j \in DOMAIN invites /\ invites \in Seq(Invite)
  BY <1>1 DEF TypeInv, TypeOK, Known
<1> HIDE DEF j
<1>3. CASE UNCHANGED <<invites, revocations>>
  BY <1>3 DEF LinkInv
<1>4. CASE /\ invites' = [invites EXCEPT ![j].revoked = TRUE]
           /\ revocations' = revocations \cup {j}
  <2>1. invites[j] \in Invite
    BY <1>2
  <2>2. [invites[j] EXCEPT !.revoked = TRUE].revoked = TRUE
    BY <2>1 DEF Invite
  <2> DEFINE marked == [invites[j] EXCEPT !.revoked = TRUE]
  <2> HIDE DEF marked
  <2>3. marked.revoked = TRUE /\ marked \in Invite
    BY <2>1, <2>2 DEF marked, Invite
  <2>4. invites' = [invites EXCEPT ![j] = marked]
    BY <1>4 DEF marked
  <2>5. /\ DOMAIN invites' = DOMAIN invites /\ Len(invites') = Len(invites)
        /\ \A i \in DOMAIN invites : invites'[i] = IF i = j THEN marked ELSE invites[i]
    BY <1>2, <2>3, <2>4
  <2>6. ASSUME NEW i \in DOMAIN invites
        PROVE  /\ invites[i].revoked => invites'[i].revoked
               /\ invites'[i].revoked <=> i \in revocations'
    <3>1. CASE i = j
      BY <1>4, <2>3, <2>5, <3>1
    <3>2. CASE i # j
      <4>1. invites'[i] = invites[i] /\ (i \in revocations' <=> i \in revocations)
        BY <1>4, <2>5, <3>2
      <4> QED
        BY <4>1, Zenon DEF LinkInv
    <3> QED
      BY <3>1, <3>2
  <2> QED
    BY <2>5, <2>6
<1> QED
  BY <1>1, <1>3, <1>4

\* What a step does to the links, when it does not create one.
LEMMA LinksMarked ==
  ASSUME TypeInv, LinkInv, [Next]_vars, ~\E w \in Workers : CreateInvite(w)
  PROVE  /\ DOMAIN invites' = DOMAIN invites /\ Len(invites') = Len(invites)
         /\ \A j \in DOMAIN invites : invites[j].revoked => invites'[j].revoked
         /\ \A j \in DOMAIN invites : invites'[j].revoked <=> j \in revocations'
<1>1. CASE UNCHANGED <<invites, revocations>>
  BY <1>1 DEF LinkInv
<1>2. ASSUME NEW w \in Workers,
             \/ Call(w) \/ Knock(w) \/ Abort(w) \/ SetEnabled(w) \/ Dispose(w) \/ Join(w)
             \/ Flush(w) \/ Attach(w) \/ Commit(w)
      PROVE  UNCHANGED <<invites, revocations>>
  BY <1>2 DEF Call, Knock, Abort, SetEnabled, Dispose, Join, Flush, Attach, Commit, tables
<1>3. Tick \/ UNCHANGED vars => UNCHANGED <<invites, revocations>>
  BY DEF Tick, vars, tables
<1>4. ASSUME NEW w \in Workers, RevokeInvite(w)
      PROVE  /\ DOMAIN invites' = DOMAIN invites /\ Len(invites') = Len(invites)
             /\ \A j \in DOMAIN invites : invites[j].revoked => invites'[j].revoked
             /\ \A j \in DOMAIN invites : invites'[j].revoked <=> j \in revocations'
  BY <1>4, RevokeWrites
<1> QED
  BY <1>1, <1>2, <1>3, <1>4 DEF Next

LEMMA LinkStep ==
  ASSUME OneInviter, TypeInv, LinkInv, [Next]_vars
  PROVE  LinkInv'
<1>1. invites \in Seq(Invite) /\ Len(invites) \in Nat /\ DOMAIN invites = 1..Len(invites)
  BY DEF TypeInv, TypeOK
<1>2. ASSUME NEW v \in Workers, req'[v] # Idle
      PROVE  req'[v].job \in JobsOf[v]
  <2>1. CASE Same(v)
    BY <2>1 DEF Same, LinkInv
  <2>2. CASE New(v)
    BY <2>2 DEF New
  <2> QED
    BY <1>2, <2>1, <2>2, RequestsStep
<1>3. CASE ~\E w \in Workers : CreateInvite(w)
  <2>1. /\ DOMAIN invites' = DOMAIN invites /\ Len(invites') = Len(invites)
        /\ \A j \in DOMAIN invites : invites[j].revoked => invites'[j].revoked
        /\ \A j \in DOMAIN invites : invites'[j].revoked <=> j \in revocations'
    BY <1>3, LinksMarked
  <2>2. \A j \in DOMAIN invites' : ~invites'[j].revoked => j = Len(invites')
    BY <2>1 DEF LinkInv
  <2>3. ASSUME NEW v \in Workers, req'[v] # Idle, req'[v].job.op = "create"
        PROVE  /\ Len(req'[v].invites) = Len(invites')
               /\ \A j \in DOMAIN invites' :
                    req'[v].invites[j].revoked => invites'[j].revoked
    <3>1. CASE Same(v)
      BY <2>1, <2>3, <3>1 DEF Same, LinkInv
    <3>2. CASE New(v)
      BY <2>1, <2>3, <3>2 DEF New
    <3> QED
      BY <2>3, <3>1, <3>2, RequestsStep
  <2> QED
    BY <1>2, <2>1, <2>2, <2>3 DEF LinkInv
<1>4. ASSUME NEW w \in Workers, CreateInvite(w)
      PROVE  LinkInv'
  <2> DEFINE priors == Priors(req[w].invites)
             n == Len(invites)
  <2>1. /\ req[w] # Idle /\ req[w].job.op = "create" /\ Finish(w)
    BY <1>4 DEF CreateInvite, Serves
  <2>2. /\ invites' \in Seq(Invite) /\ Len(invites') = n + 1
        /\ revocations' = revocations \cup priors /\ priors \subseteq DOMAIN invites
        /\ invites'[n + 1] = [expires |-> now + Ttl, revoked |-> FALSE]
        /\ \A j \in DOMAIN invites :
             invites'[j] = [invites[j] EXCEPT !.revoked = @ \/ j \in priors]
    BY <1>4, CreateWrites
  <2>3. ASSUME NEW j \in DOMAIN invites
        PROVE  j \in priors \/ invites[j].revoked
    <3>1. j \in DOMAIN req[w].invites
      <4>1. req[w].invites \in Seq(Invite) /\ Len(req[w].invites) = n
        BY <2>1, InFlight DEF TypeInv, LinkInv
      <4> QED
        BY <1>1, <4>1
    <3>2. req[w].invites[j].revoked => invites[j].revoked
      BY <2>1 DEF LinkInv
    <3> QED
      BY <3>1, <3>2, Zenon DEF Priors
  <2> HIDE DEF priors
  <2>4. ASSUME NEW j \in DOMAIN invites
        PROVE  invites'[j].revoked /\ j \in revocations'
    <3>1. invites[j] \in Invite
      BY <1>1
    <3>2. [invites[j] EXCEPT !.revoked = @ \/ j \in priors].revoked
            = (invites[j].revoked \/ j \in priors)
      BY <3>1 DEF Invite
    <3>3. invites[j].revoked => j \in revocations
      BY DEF LinkInv
    <3>4. invites'[j].revoked
      BY <2>2, <2>3, <3>2, Zenon
    <3> QED
      BY <2>2, <2>3, <3>3, <3>4
  <2>5. DOMAIN invites' = 1..(n + 1)
    BY <2>2
  <2>6. invites'[n + 1].revoked = FALSE /\ n + 1 \notin revocations'
    BY <1>1, <2>2 DEF TypeInv, TypeOK
  <2>7. \A j \in DOMAIN invites' : j = n + 1 \/ j \in DOMAIN invites
    BY <1>1, <2>5
  <2>8. ASSUME NEW v \in Workers, req'[v] # Idle
        PROVE  req'[v].job.op # "create"
    <3>1. v # w /\ req'[v] = req[v]
      BY <2>1, <2>8 DEF Finish, TypeInv, TypeOK
    <3>2. req[v].job \in JobsOf[v] /\ req[w].job \in JobsOf[w]
      BY <2>1, <2>8, <3>1 DEF LinkInv
    <3> QED
      BY <2>1, <3>1, <3>2 DEF OneInviter
  <2>9. \A j \in DOMAIN invites' : ~invites'[j].revoked => j = Len(invites')
    BY <2>2, <2>4, <2>7
  <2>10. \A j \in DOMAIN invites' : invites'[j].revoked <=> j \in revocations'
    BY <2>4, <2>6, <2>7, Zenon
  <2> QED
    BY <1>2, <2>8, <2>9, <2>10 DEF LinkInv
<1> QED
  BY <1>3, <1>4

LEMMA LinkMeansOneLive ==
  ASSUME Ttl <= MaxAge, TypeOK, LinkInv
  PROVE  OnlyOneLive
<1> SUFFICES ASSUME NEW j \in DOMAIN invites
             PROVE  Verified(j) <=> j = ActiveInvite
  BY DEF OnlyOneLive
<1> DEFINE Lives(i) == ~invites[i].revoked /\ invites[i].expires >= now
           live == {i \in DOMAIN invites : Lives(i)}
<1>1. /\ j \in Nat \ {0} /\ now \in Nat /\ invites[j].expires \in Nat
      /\ \A i \in DOMAIN invites : i \in Nat \ {0}
  <2>1. invites \in Seq(Invite) /\ now \in Nat
    BY DEF TypeOK
  <2>2. invites[j] \in Invite
    BY <2>1
  <2> QED
    BY <2>1, <2>2 DEF Invite
<1>2. Verified(j) <=> j \in live
  <2>1. invites[j].expires >= now => Young(j)
    BY <1>1, BoundAssumption DEF Young
  <2>2. invites[j].revoked <=> j \in revocations
    BY DEF LinkInv
  <2> QED
    BY <2>1, <2>2, Zenon DEF Verified
<1>3. ActiveInvite = Max(live \cup {0})
  BY DEF ActiveInvite
<1>4. \A i \in live : i = Len(invites)
  BY DEF LinkInv
<1> HIDE DEF live
<1>5. CASE live = {}
  <2>1. ActiveInvite = 0
    BY <1>3, <1>5 DEF Max
  <2> QED
    BY <1>1, <1>2, <1>5, <2>1
<1>6. ASSUME NEW i \in live
      PROVE  Verified(j) <=> j = ActiveInvite
  <2>1. live = {i} /\ i \in Nat \ {0}
    BY <1>1, <1>4, <1>6 DEF live
  <2>2. i \in {i, 0} /\ \A y \in {i, 0} : i >= y
    BY <2>1
  <2>3. Max({i, 0}) \in {i, 0} /\ \A y \in {i, 0} : Max({i, 0}) >= y
    BY <2>2 DEF Max
  <2>4. Max({i, 0}) = i
    BY <2>1, <2>3
  <2>5. ActiveInvite = i
    BY <1>3, <2>1, <2>4
  <2> QED
    BY <1>2, <2>1, <2>5
<1> QED
  BY <1>5, <1>6

LEMMA LinkInit == Init => LinkInv
<1> SUFFICES ASSUME Init PROVE LinkInv
  OBVIOUS
<1>1. DOMAIN invites = {} /\ \A w \in Workers : req[w] = Idle
  BY DEF Init
<1> QED
  BY <1>1 DEF LinkInv

\* While one administrator creates invites, however many others revoke them and
\* whatever is in flight: the link that lets people in is the one the host is shown.
THEOREM OneLinkLives ==
  ASSUME OneInviter, Ttl <= MaxAge
  PROVE  Spec => []OnlyOneLive
<1>1. TypeInv /\ LinkInv => OnlyOneLive
  BY LinkMeansOneLive DEF TypeInv
<1>2. TypeInv /\ LinkInv /\ [Next]_vars => LinkInv'
  BY LinkStep
<1> QED
  BY <1>1, <1>2, LinkInit, TypeAlways, PTL DEF Spec

=============================================================================
