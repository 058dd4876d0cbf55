-------------------------- MODULE BackendLifecycle --------------------------
(***************************************************************************)
(* What BackendManager promises its callers: lifecycle operations are      *)
(* serialised (docs/backend-lifecycle-control-plane.md, section 3.4), each *)
(* one ends in a phase from which the next can be requested, only an       *)
(* operation or a reported crash moves the phase, and only an operation    *)
(* creates or removes the container.  A stop always ends in "stopped"; if  *)
(* it could not remove the container, it tells so in last_error.  (The     *)
(* document, section 4.1, promises more: see StoppedMeansRemoved of        *)
(* BackendManager.)                                                        *)
(***************************************************************************)
VARIABLES
  phase,   (* the phase the snapshot shows                                  *)
  op,      (* the operation under way: "none", "start" or "stop"            *)
  gone,    (* there is no container                                         *)
  told     (* the snapshot shows an error                                   *)

lifecycle == <<phase, op, gone, told>>

Init ==
  /\ phase \in {"idle", "disabled"}
  /\ op = "none"
  /\ gone \in BOOLEAN
  /\ told = FALSE

BeginStart ==
  /\ op = "none"
  /\ phase \in {"idle", "failed", "stopped", "unknown"}
  /\ phase' = "start_requested"
  /\ op' = "start"
  /\ told' = FALSE
  /\ UNCHANGED gone

BeginStop ==
  /\ op = "none"
  /\ phase \in {"healthy", "failed", "unknown"}
  /\ phase' = "stopping"
  /\ op' = "stop"
  /\ UNCHANGED <<gone, told>>

(* A start climbs one rung at a time; a crash report may have thrown it    *)
(* back to "failed" in between.  It is up only with a container, and fails *)
(* only with an error.                                                     *)
Climb ==
  /\ op = "start"
  /\ \/ /\ phase \in {"start_requested", "failed"}
        /\ phase' = "starting"
        /\ UNCHANGED told
     \/ /\ phase \in {"start_requested", "starting", "failed"}
        /\ phase' = "running"
        /\ ~gone
        /\ UNCHANGED told
     \/ /\ phase \in {"running", "failed"}
        /\ phase' = "healthy"
        /\ ~gone
        /\ UNCHANGED told
     \/ phase' = "failed" /\ told'
  /\ UNCHANGED <<op, gone>>

(* A start removes what is left under the name before it is up.            *)
Replace ==
  /\ op = "start"
  /\ phase \in {"start_requested", "starting", "failed"}
  /\ gone' \in BOOLEAN
  /\ UNCHANGED <<phase, op, told>>

EndStart ==
  /\ op = "start"
  /\ phase \in {"healthy", "failed"}
  /\ op' = "none"
  /\ UNCHANGED <<phase, gone, told>>

TakeDown ==
  /\ op = "stop"
  /\ gone'
  /\ UNCHANGED <<phase, op, told>>

EndStop ==
  /\ op = "stop"
  /\ phase' = "stopped"
  /\ op' = "none"
  /\ told' \in {told, TRUE}
  /\ gone \/ told'
  /\ UNCHANGED gone

CrashReported ==
  /\ phase' = "failed"
  /\ told'
  /\ UNCHANGED <<op, gone>>

Next ==
  \/ BeginStart \/ Climb \/ Replace \/ EndStart
  \/ BeginStop \/ TakeDown \/ EndStop
  \/ CrashReported

Spec == Init /\ [][Next]_lifecycle

=============================================================================
