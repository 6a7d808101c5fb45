------------------------------ MODULE Transcript ------------------------------
(***************************************************************************)
(* What the interview promises to the people in the workshop, whatever the *)
(* number of requests in flight, retries, failures and restarts:           *)
(*   - the log of turns only grows, at its end;                            *)
(*   - a turn is logged under a key that was never used, so an answer or a *)
(*     contribution counts once however often it is sent;                  *)
(*   - an answer of the room comes with at most one question of the        *)
(*     system, right behind it;                                            *)
(*   - a remote contribution leaves what the host sees as it is.           *)
(***************************************************************************)
EXTENDS Integers, Sequences

CONSTANTS
  AnswerKeys,    \* keys of the room's answers
  RemoteKeys,    \* keys of the remote contributions
  SystemKeys,    \* keys of the system's own turns
  Screens        \* what the host's screen may show

VARIABLES log, screen

transcriptVars == <<log, screen>>

\* A step puts n entries behind the log, each under a key of its own.
New(i) == log'[Len(log) + i]
Grows(n) ==
  /\ Len(log') = Len(log) + n
  /\ \A i \in 1..Len(log) : log'[i] = log[i]
  /\ \A i \in 1..n : \A j \in 1..(Len(log) + i - 1) : New(i).key # log'[j].key

FromSystem(e) == e.source = "system" /\ e.key \in SystemKeys
FromRoom(e) == e.source = "room" /\ e.key \in AnswerKeys
FromRemote(e) == e.source = "remote" /\ e.key \in RemoteKeys

TInit == log = <<>> /\ screen \in Screens

\* The interview starts with a question of the system.
Open ==
  /\ log = <<>>
  /\ Grows(1) /\ FromSystem(New(1))
  /\ screen' \in Screens

\* The interview starts anew, a draft is saved, a topic is reopened.
Refresh == log # <<>> /\ UNCHANGED log /\ screen' \in Screens

\* An answer of the room.
Answer ==
  /\ log # <<>>
  /\ \/ Grows(1) /\ FromRoom(New(1))
     \/ Grows(2) /\ FromRoom(New(1)) /\ FromSystem(New(2))
  /\ screen' \in Screens

\* A contribution from outside the room.
Contribute ==
  /\ log # <<>>
  /\ Grows(1) /\ FromRemote(New(1))
  /\ UNCHANGED screen

TNext == Open \/ Refresh \/ Answer \/ Contribute

TSpec == TInit /\ [][TNext]_transcriptVars

=============================================================================
