--------------------------------- MODULE Mic ---------------------------------
(***************************************************************************)
(* The states of a voice capture: the reducer of lib/voiceStateMachine.ts. *)
(* Labels and messages are left out, and so is refinedTranscript, which    *)
(* only diagnostics read.                                                  *)
(***************************************************************************)
EXTENDS Naturals, Sequences

States ==
  {"idle", "requesting_permission", "ready", "connecting", "listening", "paused",
   "live_draft", "finishing", "refining", "ready_to_edit", "refinement_failed",
   "reconnecting", "disconnected", "permission_denied", "error", "fallback_text"}

LiveSpeaking == {"listening", "paused", "live_draft"}

CreateContext ==
  [state |-> "idle", partial |-> <<>>, final |-> <<>>, frozen |-> <<>>, attempts |-> 0]

-----------------------------------------------------------------------------
(* Events; those with a text carry it. *)

Event(type) == [type |-> type, text |-> <<>>]
Says(type, text) == [type |-> type, text |-> text]

\* The states in which an event does something.
From(type) ==
  CASE type = "START" -> {"idle", "error", "fallback_text", "ready_to_edit",
                          "refinement_failed", "permission_denied", "disconnected"}
    [] type = "PERMISSION_GRANTED" -> {"requesting_permission", "reconnecting"}
    [] type = "CONNECTED" -> {"connecting", "reconnecting", "ready"}
    [] type = "PARTIAL" -> LiveSpeaking
    [] type = "FINAL_SEGMENT" -> LiveSpeaking \cup {"finishing"}
    [] type = "PAUSE" -> {"listening", "live_draft"}
    [] type = "RESUME" -> {"paused"}
    [] type = "FINISH" -> LiveSpeaking
    [] type = "FINISHING_DONE" -> {"finishing"}
    [] type = "REFINING" -> {"finishing", "refining", "refinement_failed"}
    [] type \in {"REFINED", "REFINE_FAILED"} -> {"refining", "finishing"}
    [] type \in {"DISCONNECT", "SESSION_EXPIRED"} -> LiveSpeaking \cup {"connecting"}
    [] type = "RECONNECTED" -> {"reconnecting"}
    [] OTHER -> States      \* refusals, errors, DISCARD

\* Where the state goes.
Goes(c, e) ==
  CASE e.type = "START" -> "requesting_permission"
    [] e.type = "PERMISSION_GRANTED" -> "connecting"
    [] e.type = "PERMISSION_DENIED" -> "permission_denied"
    [] e.type \in {"CONNECTED", "RECONNECTED"} -> "listening"
    [] e.type \in {"PARTIAL", "FINAL_SEGMENT"} ->
         IF c.state \in {"paused", "finishing"} THEN c.state ELSE "live_draft"
    [] e.type = "PAUSE" -> "paused"
    [] e.type = "RESUME" -> IF c.partial = <<>> THEN "listening" ELSE "live_draft"
    [] e.type = "FINISH" -> "finishing"
    [] e.type \in {"FINISHING_DONE", "REFINING"} -> "refining"
    [] e.type = "REFINED" -> "ready_to_edit"
    [] e.type = "REFINE_FAILED" -> "refinement_failed"
    [] e.type \in {"DISCONNECT", "SESSION_EXPIRED"} -> "reconnecting"
    [] e.type \in {"RECONNECT_FAILED", "FALLBACK_TEXT"} -> "fallback_text"
    [] e.type = "ERROR" -> "error"

FrozenOr(c) == IF c.frozen # <<>> THEN c.frozen ELSE c.final

\* What becomes of the texts and of the count of attempts.
Keeps(c, e) ==
  CASE e.type = "START" ->
         [c EXCEPT !.partial = <<>>, !.frozen = <<>>, !.attempts = 0]
    [] e.type = "CONNECTED" -> [c EXCEPT !.attempts = 0]
    [] e.type = "PARTIAL" -> [c EXCEPT !.partial = e.text]
    [] e.type = "FINAL_SEGMENT" -> [c EXCEPT !.partial = e.text, !.final = e.text]
    [] e.type = "FINISH" -> [c EXCEPT !.partial = <<>>,
                                      !.frozen = c.final \o c.partial,
                                      !.final = c.final \o c.partial]
    [] e.type = "REFINED" -> [c EXCEPT !.final = e.text]
    [] e.type = "REFINE_FAILED" -> [c EXCEPT !.final = FrozenOr(c)]
    [] e.type \in {"DISCONNECT", "SESSION_EXPIRED"} -> [c EXCEPT !.attempts = @ + 1]
    [] OTHER -> c

Reduce(c, e) ==
  IF e.type = "DISCARD" THEN CreateContext
  ELSE IF c.state \notin From(e.type) THEN c
  ELSE [Keeps(c, e) EXCEPT !.state = Goes(c, e)]

\* displayTranscript once the host has finished.
DisplayTranscript(c) ==
  IF c.state \in {"finishing", "refining"} THEN FrozenOr(c) ELSE c.final

=============================================================================
