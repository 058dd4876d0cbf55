---------------------------- MODULE ServiceStatus ----------------------------
(***************************************************************************)
(* The chain behind GET /qz/control-plane and /qz/recovery/plan:           *)
(* build_control_plane_status (proxy/qz_control_plane.py),                 *)
(* build_service_status (qz_service_status.py) and build_recovery_plan     *)
(* (qz_recovery_plan.py).                                                  *)
(*                                                                         *)
(* One probe of the world is a view (see ModelStatus) together with        *)
(*   init       "initializing", "ready" or "failed"                        *)
(*   catalog    the model catalog is in memory                             *)
(*   visible    it has a model with a valid profile                        *)
(*   health     GET /health within the probe's timeout: "none", "ok", "bad"*)
(*   probed     the status summary was built without an exception          *)
(*   mismatch   the confirmed context length is not the selected one       *)
(*   chosen     the state of the catalog's selection in the inventory, as  *)
(*              the summary reads it: "unknown" when it has no entry or    *)
(*              the entry no state, "other" when it has one that is not    *)
(*              "loaded"                                                   *)
(* The catalog's selection is the one of the model-state file.             *)
(***************************************************************************)
EXTENDS ModelStatus, FiniteSets

Actions == {"refresh_catalog", "clear_failure", "select_model",
            "reload_selected_model", "start_backend", "restart_backend"}

-----------------------------------------------------------------------------
(* The control-plane payload.                                              *)

ProxyReady(w) == w.init = "ready"

(* status_snapshot: ready when the selection is loaded, or when nothing is *)
(* known of it and the manager is healthy, whatever model it was told to   *)
(* launch.                                                                 *)
SummaryReady(w) ==
  /\ ProxyReady(w) /\ w.probed /\ w.health = "ok"
  /\ \/ w.chosen = "loaded"
     \/ w.chosen = "unknown" /\ w.phase = "healthy" /\ w.healthOk

BackendReachable(w) ==
  SelectedModelReady(w) \/ (ProxyReady(w) /\ w.probed /\ w.health # "none")

BackendReady(w) == SelectedModelReady(w) \/ SummaryReady(w)

RestartRequired(w) == ProxyReady(w) /\ w.probed /\ w.mismatch

-----------------------------------------------------------------------------
(* build_service_status.                                                   *)

ProxyState(w) ==
  IF w.init = "failed" THEN "failed"
  ELSE IF ProxyReady(w) THEN "ready" ELSE "initializing"

CatalogState(w) ==
  IF w.init = "failed" THEN "failed"
  ELSE IF w.catalog THEN "ready"
  ELSE IF ProxyReady(w) THEN "loading" ELSE "unknown"

(* A health request without an answer has the status 0, an integer that is *)
(* not 200; only a summary that was not built leaves no status at all.     *)
BackendState(w) ==
  IF ~BackendReachable(w) THEN "unreachable"
  ELSE IF ProxyReady(w) /\ w.probed /\ w.health # "ok" THEN "unhealthy"
  ELSE "healthy"

(* Slip: the launch model is enough, whatever is selected.                 *)
ModelStateOfLaunch(w) ==
  IF LoadedModel(w) # NoModel THEN "loaded"
  ELSE IF AdmissionState(w) \in {"starting", "loading"} THEN "loading"
  ELSE IF AdmissionState(w) = "failed" THEN "failed"
  ELSE IF ~BackendReady(w) THEN "unloaded"
  ELSE "unknown"

ModelState(w) ==
  IF SelectedModelReady(w) THEN "loaded"
  ELSE IF AdmissionState(w) \in {"starting", "loading"} THEN "loading"
  ELSE IF AdmissionState(w) = "failed" THEN "failed"
  ELSE IF RestartRequired(w) THEN "mismatch"
  ELSE IF ~w.visible /\ w.selected = NoModel THEN "none"
  ELSE IF ~BackendReachable(w) THEN "unknown"
  ELSE IF ProxyReady(w) /\ ~w.probed THEN "failed"
  ELSE IF BackendReady(w) /\ LoadedModel(w) # NoModel THEN "loaded"
  ELSE IF ~BackendReady(w) THEN "unloaded"
  ELSE "unknown"

RequestAdmission(w) ==
  IF ProxyState(w) # "ready" \/ CatalogState(w) # "ready" THEN "rejected_proxy_not_ready"
  ELSE IF ~w.visible THEN "rejected_model_missing"
  ELSE IF BackendState(w) = "unreachable" THEN "rejected_backend_unavailable"
  ELSE IF BackendState(w) = "unhealthy" THEN "rejected_backend_not_ready"
  ELSE IF ModelState(w) # "loaded" THEN "rejected_model_not_loaded"
  ELSE "accepted"

Waiting(w) == ProxyState(w) = "initializing" \/ CatalogState(w) = "loading"

RecoveryState(w) ==
  IF ProxyState(w) = "failed" THEN "failed"
  ELSE IF Waiting(w) THEN "in_progress"
  ELSE IF BackendState(w) # "healthy" THEN "available"
  ELSE IF ModelState(w) = "loading" THEN "in_progress"
  ELSE IF ModelState(w) \in {"failed", "mismatch", "unloaded"} THEN "available"
  ELSE "none"

(* Slip: a backend that does not answer is restarted.                      *)
OperatorActionRestarts(w) ==
  IF Waiting(w) THEN "remote_wait"
  ELSE IF ProxyState(w) = "failed" THEN "inspect_logs"
  ELSE IF BackendState(w) # "healthy" THEN "restart_backend"
  ELSE IF ModelState(w) \in {"failed", "mismatch"} THEN "restart_backend"
  ELSE IF ModelState(w) \in {"none", "unloaded"} THEN "select_model"
  ELSE IF ModelState(w) = "unknown" THEN "refresh_catalog"
  ELSE ""

(* Slip: nothing is advised for an unknown model.                          *)
OperatorActionForKnown(w) ==
  IF Waiting(w) THEN "remote_wait"
  ELSE IF ProxyState(w) = "failed" THEN "inspect_logs"
  ELSE IF BackendState(w) = "unreachable" THEN "start_backend"
  ELSE IF BackendState(w) = "unhealthy" THEN "restart_backend"
  ELSE IF ModelState(w) \in {"failed", "mismatch"} THEN "restart_backend"
  ELSE IF ModelState(w) \in {"none", "unloaded"} THEN "select_model"
  ELSE ""

OperatorAction(w) ==
  IF Waiting(w) THEN "remote_wait"
  ELSE IF ProxyState(w) = "failed" THEN "inspect_logs"
  ELSE IF BackendState(w) = "unreachable" THEN "start_backend"
  ELSE IF BackendState(w) = "unhealthy" THEN "restart_backend"
  ELSE IF ModelState(w) \in {"failed", "mismatch"} THEN "restart_backend"
  ELSE IF ModelState(w) \in {"none", "unloaded"} THEN "select_model"
  ELSE IF ModelState(w) = "unknown" THEN "refresh_catalog"
  ELSE ""

Fatal(w) == ProxyState(w) = "failed"

Retryable(w) == ~Fatal(w) /\ (Waiting(w) \/ ModelState(w) = "loading")

Recoverable(w) ==
  /\ ~Fatal(w)
  /\ ~(/\ ProxyReady(w) /\ CatalogState(w) = "ready"
       /\ BackendState(w) = "healthy" /\ ModelState(w) = "loaded")

-----------------------------------------------------------------------------
(* build_recovery_plan.  A request r has an action, whether it names a     *)
(* model and whether it is forced; c is the rest of its circumstances:     *)
(* authority, local, active (requests in flight), backoff and inProgress.  *)

WouldInterrupt == {"reload_selected_model", "restart_backend"}

StateAllows(w, r) ==
  CASE r.action = "refresh_catalog" -> ProxyReady(w) /\ CatalogState(w) # "loading"
    [] r.action = "select_model" -> ProxyReady(w) /\ CatalogState(w) = "ready"
    [] r.action = "reload_selected_model" -> BackendState(w) \in {"healthy", "unhealthy"}
    [] r.action = "start_backend" -> BackendState(w) = "unreachable"
    [] r.action = "restart_backend" ->
         \/ BackendState(w) = "unhealthy"
         \/ ModelState(w) \in {"mismatch", "failed"}
         \/ r.force
    [] r.action = "clear_failure" -> Fatal(w) \/ ModelState(w) = "failed"

Feasible(w, r, c) ==
  /\ r.action # "refresh_catalog" => c.authority /\ c.local /\ ~c.inProgress
  /\ r.action \notin {"refresh_catalog", "clear_failure"} => ~c.backoff
  /\ StateAllows(w, r)
  /\ r.action = "select_model" => r.model
  /\ r.action \in WouldInterrupt /\ c.active > 0 => r.force

=============================================================================
