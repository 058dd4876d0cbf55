----------------------------- MODULE ModelStatus -----------------------------
(***************************************************************************)
(* build_model_status (proxy/qz_model_status.py) and the tests the gate of *)
(* POST /v1/responses makes on it (proxy/qz_request_router.py).            *)
(*                                                                         *)
(* A view is what one call can see:                                        *)
(*   phase, healthOk, gpu   the backend manager's snapshot                 *)
(*   gpuRequired            its require_gpu                                *)
(*   launch                 the launch model, or NoModel                   *)
(*   selected               the selection of the model-state file          *)
(*   lastLoad, rolledBack   its last_load_result, and whether the          *)
(*                          selection is one a failed load rolled back to  *)
(*   entry                  the launch model's entry in the router's       *)
(*                          inventory, "absent" when there is none         *)
(*   recovering             some model of the inventory is recovering      *)
(*   inFlight               load_model_http() was called recently          *)
(* launch_model_error is never set to anything but None, so it is left     *)
(* out, and so are the texts of the recommended actions.                   *)
(***************************************************************************)
EXTENDS Naturals

CONSTANT NoModel

LoadResults == {"none", "loaded", "failed"}

(* "crashed": unloaded, with failed or a non-zero exit code.               *)
Entries == {"absent", "unloaded", "loading", "loaded", "crashed"}

Rising == {"start_requested", "starting", "running"}

GpuBlocking(v) == v.gpuRequired /\ v.gpu \in {"cpu_fallback", "failed"}

(* Without a launch model there is no entry to look at, but a model that   *)
(* the router recovers is looked for all the same.                         *)
RouterStatus(v) ==
  IF v.phase # "healthy" THEN "unloaded"
  ELSE IF v.launch # NoModel /\ v.entry \in {"loading", "loaded"} THEN v.entry
  ELSE IF v.recovering THEN "recovering"
  ELSE IF v.launch # NoModel /\ v.entry = "crashed" THEN "crashed"
  ELSE "unloaded"

LoadedModel(v) ==
  IF v.phase = "healthy" /\ v.healthOk /\ v.entry = "loaded"
    THEN v.launch ELSE NoModel

LaunchMatchesSelected(v) == v.selected # NoModel /\ v.selected = v.launch

SelectedModelReady(v) ==
  /\ v.phase = "healthy"
  /\ v.healthOk
  /\ LaunchMatchesSelected(v)
  /\ ~GpuBlocking(v)
  /\ RouterStatus(v) = "loaded"

SwitchState(v) ==
  IF SelectedModelReady(v) THEN "loaded"
  ELSE IF v.rolledBack THEN IF v.phase \in Rising THEN "restarting" ELSE "rolled_back"
  ELSE IF v.lastLoad = "failed" THEN "failed"
  ELSE IF v.phase \in {"start_requested", "starting"} THEN "restarting"
  ELSE IF v.phase = "running" \/ RouterStatus(v) = "loading" THEN "loading"
  ELSE IF v.phase = "healthy" /\ v.lastLoad = "loaded" /\ RouterStatus(v) = "loaded" THEN "loaded"
  ELSE IF v.phase = "healthy" /\ v.inFlight THEN "loading"
  ELSE "idle"

AdmissionState(v) ==
  IF SelectedModelReady(v) THEN "ready"
  ELSE IF GpuBlocking(v) THEN "failed_gpu_not_available"
  ELSE IF RouterStatus(v) = "crashed" THEN "failed_runtime_crash"
  ELSE IF RouterStatus(v) = "recovering" THEN "loading"
  ELSE IF v.selected = NoModel THEN "unavailable"
  ELSE IF v.lastLoad = "failed" /\ RouterStatus(v) # "loading" THEN "failed"
  ELSE IF v.phase \in {"start_requested", "starting"} THEN "starting"
  ELSE IF v.phase = "running" THEN "loading"
  ELSE IF v.phase = "failed" THEN "failed"
  ELSE IF v.phase \in {"idle", "stopped", "disabled", "unknown"} THEN "unavailable"
  ELSE IF ~v.healthOk THEN "failed"
  ELSE IF v.phase = "healthy" /\ LaunchMatchesSelected(v) THEN "loading"
  ELSE "unavailable"

-----------------------------------------------------------------------------
(* What the gate makes of it for a request that asks for model m.          *)

RequestMatchesActive(v, m) == m # NoModel /\ LoadedModel(v) = m

Admits(v, m) == SelectedModelReady(v) /\ RequestMatchesActive(v, m)

TransitionalWait(v, m) ==
  \/ AdmissionState(v) \in {"starting", "loading"}
  \/ /\ ~RequestMatchesActive(v, m)
     /\ SwitchState(v) \in {"restarting", "loading"}

TerminalWait(v) ==
  AdmissionState(v) \in {"failed", "failed_gpu_not_available",
                         "failed_runtime_crash", "unavailable"}

=============================================================================
