------------------------------- MODULE MCVoice -------------------------------
(***************************************************************************)
(* A small instance of Voice for TLC; its constants are all numbers.       *)
(***************************************************************************)
EXTENDS Voice
=============================================================================
