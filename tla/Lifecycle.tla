------------------------------ MODULE Lifecycle ------------------------------
(***************************************************************************)
(* The assessment life cycle: the statuses of models/enums.py and the      *)
(* table ALLOWED_TRANSITIONS that LifecycleService.transition consults.    *)
(* The modules of the services extend this one.                            *)
(***************************************************************************)

Statuses == { "setup", "collecting_evidence", "evidence_ready",
              "interview_active", "interview_complete", "admin_review",
              "published", "archived" }

Allowed ==
  [ s \in Statuses |->
      CASE s = "setup"               -> {"collecting_evidence", "archived"}
        [] s = "collecting_evidence" -> {"evidence_ready", "setup", "archived"}
        [] s = "evidence_ready"      -> {"interview_active",
                                         "collecting_evidence", "archived"}
        [] s = "interview_active"    -> {"interview_complete",
                                         "evidence_ready", "archived"}
        [] s = "interview_complete"  -> {"admin_review", "interview_active",
                                         "archived"}
        [] s = "admin_review"        -> {"published", "interview_active",
                                         "interview_complete", "archived"}
        [] s = "published"           -> {"admin_review", "archived"}
        [] s = "archived"            -> {} ]

\* The test transition() makes on the row it has loaded, before it writes.
CanTransition(from, to) == to \in Allowed[from]

=============================================================================
