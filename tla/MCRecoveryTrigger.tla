-------------------------- MODULE MCRecoveryTrigger --------------------------
(* The schedule is shorter than the attempts allowed, so that its last     *)
(* wait is used twice; the table holds fewer jobs than there are threads   *)
(* and requests, so that jobs are pruned, running ones included.           *)
EXTENDS RecoveryTrigger

MCSchedule == <<30, 120>>

MCRequested == {"clear_failure", "reload_selected_model"}
=============================================================================
