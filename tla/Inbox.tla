-------------------------------- MODULE Inbox --------------------------------
(***************************************************************************)
(* What the host is promised about what remote participants send: it       *)
(* arrives once and waits; nothing reaches the transcript but by being     *)
(* included, once, and what is included is in the transcript.              *)
(***************************************************************************)
CONSTANT Notes   \* what participants may send

VARIABLES
  inbox,     \* inbox[n]: where the host has put a note that has arrived
  recorded   \* notes in the transcript

inboxVars == <<inbox, recorded>>

Places == {"pending", "deferred", "dismissed", "included"}

BInit == inbox = [n \in {} |-> "pending"] /\ recorded = {}

Put1(n, place) ==
  inbox' = [m \in DOMAIN inbox \cup {n} |-> IF m = n THEN place ELSE inbox[m]]

Arrive(n) == n \notin DOMAIN inbox /\ Put1(n, "pending") /\ UNCHANGED recorded

Record(n) ==
  /\ n \in DOMAIN inbox /\ n \notin recorded
  /\ Put1(n, "included")
  /\ recorded' = recorded \cup {n}

\* A note set aside may be in the transcript already, when two hosts decide.
SetAside(n) ==
  /\ n \in DOMAIN inbox
  /\ \E place \in {"deferred", "dismissed"} : Put1(n, place)
  /\ UNCHANGED recorded

BNext == \E n \in Notes : Arrive(n) \/ Record(n) \/ SetAside(n)

BSpec == BInit /\ [][BNext]_inboxVars

=============================================================================
