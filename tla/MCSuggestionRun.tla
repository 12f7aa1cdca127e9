-------------------------- MODULE MCSuggestionRun --------------------------
(* Values of the constants of SuggestionRun for TLC. *)
EXTENDS SuggestionRun, TLC

CONSTANTS t1, t2

MCTasks == {t1, t2}
\* the user presses Run now while the scheduler has the same user due
MCTrigger == t1 :> "user" @@ t2 :> "scheduler"
\* the user presses Run now and an admin sweeps all users
MCAdminTrigger == t1 :> "user" @@ t2 :> "admin"
=============================================================================
