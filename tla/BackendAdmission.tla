-------------------------- MODULE BackendAdmission --------------------------
(***************************************************************************)
(* The backend manager beside build_model_status (proxy/qz_model_status.py)*)
(* as a request for the launch model computes it: three looks at the       *)
(* manager and a GET /v1/models after the first and the last of them,      *)
(* while lifecycle threads, crash reports and the container go on.         *)
(*                                                                         *)
(* A computation that can no longer end in "ready" is dropped at once:     *)
(* what the other verdicts say is the subject of StatusReport.             *)
(***************************************************************************)
EXTENDS BackendManager

VARIABLE reading   (* the computation, and what it went through *)

Status == INSTANCE ModelStatus WITH NoModel <- NoLaunch

(* at       how far it is: "named" and "snapped" wait for the inventory    *)
(* loaded   backend_loaded_model                                           *)
(* model    the launch model of the last look                              *)
(* namedOk  the backend was servable when the name was looked up,          *)
(* phaseOk  and when the phase was                                         *)
(* calm     neither the phase nor the launch model moved meanwhile         *)
Idle == [at |-> "idle", loaded |-> NoLaunch, model |-> NoLaunch,
         namedOk |-> TRUE, phaseOk |-> TRUE, calm |-> TRUE]

(* The backend is there, nothing takes it down, and its GPU check did not  *)
(* end on the CPU.                                                         *)
Servable ==
  /\ phase = "healthy"
  /\ container # "absent"
  /\ \A t \in Threads : pc[t] \notin StopPcs
  /\ RequireGpu => gpuState \notin Blocking

-----------------------------------------------------------------------------
(* _backend_loaded_model: the name stands if the inventory confirms it.    *)
LookAtName ==
  /\ reading.at = "idle"
  /\ reading' = [Idle EXCEPT
       !.at = "named",
       !.loaded = IF phase = "healthy" /\ healthOk THEN launch ELSE NoLaunch,
       !.namedOk = phase = "healthy" /\ healthOk => Servable]

ConfirmName ==
  /\ reading.at = "named"
  /\ \/ container = "healthy" /\ reading' = [reading EXCEPT !.at = "confirmed"]
     \/ reading' = [reading EXCEPT !.at = "confirmed", !.loaded = NoLaunch]

(* _backend_manager_state.                                                 *)
LookAtPhase ==
  /\ reading.at = "confirmed"
  /\ reading' = IF phase = "healthy"
                 THEN [reading EXCEPT !.at = "phased", !.phaseOk = Servable]
                 ELSE Idle

(* The view after the last look, if the inventory has the launch model     *)
(* loaded, for a request that has selected this model.                     *)
View ==
  [phase |-> "healthy", healthOk |-> healthOk, gpu |-> gpuState,
   gpuRequired |-> RequireGpu, launch |-> launch, selected |-> launch,
   lastLoad |-> "none", rolledBack |-> FALSE, entry |-> "loaded",
   recovering |-> FALSE, inFlight |-> FALSE]

LookAtSnapshot ==
  /\ reading.at = "phased"
  /\ reading' = IF Status!SelectedModelReady(View)
                 THEN [reading EXCEPT !.at = "snapped", !.model = launch]
                 ELSE Idle

(* The inventory of a container that answers may have the model loaded.    *)
Conclusion ==
  /\ reading.at = "snapped"
  /\ \/ container = "healthy" /\ reading' = [reading EXCEPT !.at = "ready"]
     \/ reading' = Idle

Forget == reading.at = "ready" /\ reading' = Idle

ReadingStep ==
  \/ LookAtName \/ ConfirmName \/ LookAtPhase \/ LookAtSnapshot
  \/ Conclusion \/ Forget

(* The computation notices nothing of what goes on; calm only records it.  *)
Watch ==
  reading' = IF reading.at = "idle" THEN reading
            ELSE [reading EXCEPT !.calm = @ /\ UNCHANGED <<phase, launch>>]

AdmissionInit == Init /\ reading = Idle

AdmissionNext ==
  \/ Next /\ Watch
  \/ ReadingStep /\ UNCHANGED vars

AdmissionSpec == AdmissionInit /\ [][AdmissionNext]_<<vars, reading>>

LiveAdmissionSpec == AdmissionSpec /\ Fairness

-----------------------------------------------------------------------------
(* The request asks for the model its status calls ready: the gate also    *)
(* compares it with backend_loaded_model.                                  *)
Admitted == reading.at = "ready" /\ reading.loaded = reading.model

(* A ready verdict is true of a moment of its own computation, however its *)
(* looks were spread over stops, starts and crash reports: the backend was *)
(* servable when the phase was looked at and, if the gate admits the       *)
(* request, when its very model was; and it still is, with that model,     *)
(* unless the phase or the launch model moved meanwhile.                   *)
ReadyMeansServable ==
  reading.at = "ready" =>
    /\ reading.phaseOk
    /\ Admitted => reading.namedOk
    /\ reading.calm => Servable /\ launch = reading.model

-----------------------------------------------------------------------------
(* What TLC refutes.                                                       *)

(* A stop that begins between two looks goes unnoticed.                    *)
ReadyIsStillServable == reading.at = "ready" => Servable
=============================================================================
