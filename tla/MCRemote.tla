------------------------------- MODULE MCRemote -------------------------------
(***************************************************************************)
(* A small instance of Remote for TLC.                                     *)
(***************************************************************************)
EXTENDS Remote, TLC

CONSTANTS e1, host, peer, guest

\* One host hands out the links and disposes of contributions, a second host
\* revokes links and disposes too, a guest joins and submits.
JobsWorkshop ==
  (host :> [op : {"create"}] \cup [op : {"enable"}, on : {TRUE}]
           \cup [op : {"dispose"}, action : {"include"}])
  @@ (peer :> [op : {"revoke"}, jti : {1}]
              \cup [op : {"dispose"}, action : {"include", "dismiss"}])
  @@ (guest :> [op : {"join"}, email : {e1}]
               \cup [op : {"submit"}, email : {e1}, attach : BOOLEAN])

=============================================================================
