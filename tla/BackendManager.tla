--------------------------- MODULE BackendManager ---------------------------
(***************************************************************************)
(* The owner of the llama.cpp container (proxy/qz_backend_manager.py).     *)
(*                                                                         *)
(* HTTP handler threads call start(), stop(), set_launch_model() and       *)
(* record_runtime_failure(); each accepted start() or stop() spawns a      *)
(* daemon thread that drives docker, and the proxy spawns one more thread  *)
(* for the delayed autostart.  Every critical section of self._lock and    *)
(* every call to docker or to the health endpoint is one action, so that   *)
(* anything may happen between two of them.                                *)
(*                                                                         *)
(* _default_runner never raises (a docker failure is a return code), so    *)
(* the only exceptions of _do_start are the RuntimeErrors it raises.       *)
(* None and False of the two optional flags are one value here: every      *)
(* reader tests them with "is True".                                       *)
(***************************************************************************)
EXTENDS Naturals, FiniteSets

CONSTANTS
  Threads,      (* identities the lifecycle threads are drawn from           *)
  Models,       (* model files the backend can be told to launch             *)
  NoLaunch,     (* no launch model has been set                              *)
  RequireGpu,   (* require_gpu: may a CPU-only backend serve requests?       *)
  GpuRetries,   (* gpu_check_retry_count                                     *)
  HealthPolls,  (* polls of /health that fit before health_check_timeout     *)
  CrashReports  (* does a caller reach record_runtime_failure()?  The only   *)
                (* one, for /v1/responses in qz_request_router.py, follows   *)
                (* a block that always returns for that path.                *)

ASSUME ManagerAssumption ==
  /\ NoLaunch \notin Models
  /\ RequireGpu \in BOOLEAN
  /\ GpuRetries \in Nat
  /\ HealthPolls \in Nat
  /\ CrashReports \in BOOLEAN

VARIABLES
  phase,             (* _state.phase                                         *)
  busy,              (* _busy                                                *)
  containerRunning,  (* _state.container_running is True                     *)
  healthOk,          (* _state.backend_health_ok is True                     *)
  everHealthy,       (* _state.last_healthy_at is set                        *)
  diedAfterHealthy,  (* _state.backend_died_after_healthy                    *)
  gpuState,          (* _state.gpu_offload_state                             *)
  lastError,         (* _state.last_error is set                             *)
  launch,            (* _launch_model_*, mirrored in _state                  *)
  autostartCalled,   (* begin_autostart() has run                            *)
  pc,                (* where each lifecycle thread is                       *)
  fresh,             (* the thread launched the container itself             *)
  left,              (* polls or retries the thread has left                 *)
  verdict,           (* the thread's latest GPU verdict                      *)
  eager,             (* models whose eager load thread is posting            *)
  container          (* the docker container, outside the proxy              *)

state     == <<phase, busy, containerRunning, healthOk, everHealthy,
               diedAfterHealthy, gpuState, lastError>>
locals    == <<fresh, left, verdict>>
settings  == <<launch, autostartCalled, eager>>
vars      == <<state, locals, settings, pc, container>>

-----------------------------------------------------------------------------
Phases == {"disabled", "idle", "start_requested", "starting", "running",
           "healthy", "failed", "stopping", "stopped", "unknown"}

RunningPhases == {"start_requested", "starting", "running", "healthy"}

GpuStates == {"unknown", "gpu", "cpu_fallback", "failed"}

Blocking == {"cpu_fallback", "failed"}

StartPcs == {"probe", "attach", "remove", "announce", "run", "up", "health",
             "eager", "gpu", "retry", "verdict", "raised", "release"}

StopPcs  == {"stop", "stop_remove", "stop_done", "stop_failed"}

ActivePcs == StartPcs \cup StopPcs

Up == {"booting", "healthy"}

Containers == {"absent", "exited"} \cup Up

Active == {t \in Threads : pc[t] \in ActivePcs}

Init ==
  /\ phase \in {"idle", "disabled"}
  /\ busy = FALSE
  /\ containerRunning = FALSE
  /\ healthOk = FALSE
  /\ everHealthy = FALSE
  /\ diedAfterHealthy = FALSE
  /\ gpuState = "unknown"
  /\ lastError = FALSE
  /\ launch = NoLaunch
  /\ autostartCalled = FALSE
  /\ pc = [t \in Threads |-> "none"]
  /\ fresh = [t \in Threads |-> FALSE]
  /\ left = [t \in Threads |-> 0]
  /\ verdict = [t \in Threads |-> "unknown"]
  /\ eager = {}
  /\ container \in Containers   \* it survives restarts of the proxy

Goto(t, label) == pc' = [pc EXCEPT ![t] = label]

-----------------------------------------------------------------------------
(* The public operations.  A call that is refused changes nothing.         *)

SetLaunchModel(m) ==
  /\ launch' = m
  /\ UNCHANGED <<state, locals, autostartCalled, eager, pc, container>>

RecordRuntimeFailure ==
  /\ CrashReports
  /\ phase' = "failed"
  /\ healthOk' = FALSE
  /\ containerRunning' = FALSE
  /\ diedAfterHealthy' = everHealthy
  /\ lastError' = TRUE
  /\ UNCHANGED <<busy, everHealthy, gpuState, locals, settings, pc, container>>

BeginAutostart(t) ==
  /\ pc[t] = "none"
  /\ ~autostartCalled
  /\ autostartCalled' = TRUE
  /\ IF phase = "idle" THEN Goto(t, "delay") ELSE UNCHANGED pc
  /\ UNCHANGED <<state, locals, launch, eager, container>>

ClaimStart ==
  /\ busy' = TRUE
  /\ phase' = "start_requested"
  /\ lastError' = FALSE
  /\ UNCHANGED <<containerRunning, healthOk, everHealthy, diedAfterHealthy,
                 gpuState>>

Start(t) ==
  /\ pc[t] = "none"
  /\ phase \notin RunningPhases \cup {"disabled"}
  /\ ~busy
  /\ ClaimStart
  /\ Goto(t, "probe")
  /\ UNCHANGED <<locals, settings, container>>

(* Slip: stop() leaves the phase to the thread it spawns.                  *)
StopKeepsPhase(t) ==
  /\ pc[t] = "none"
  /\ phase \notin {"disabled", "stopping", "stopped", "idle"}
  /\ ~busy
  /\ busy' = TRUE
  /\ Goto(t, "stop")
  /\ UNCHANGED <<phase, containerRunning, healthOk, everHealthy,
                 diedAfterHealthy, gpuState, lastError, locals, settings,
                 container>>

Stop(t) ==
  /\ pc[t] = "none"
  /\ phase \notin {"disabled", "stopping", "stopped", "idle"}
  /\ ~busy
  /\ busy' = TRUE
  /\ phase' = "stopping"
  /\ Goto(t, "stop")
  /\ UNCHANGED <<containerRunning, healthOk, everHealthy, diedAfterHealthy,
                 gpuState, lastError, locals, settings, container>>

-----------------------------------------------------------------------------
(* _autostart_with_delay: the phase is read again after the delay.         *)

(* Slip: the phase is not read again after the delay.                      *)
AutostartFireUnchecked(t) ==
  /\ pc[t] = "delay"
  /\ ClaimStart
  /\ Goto(t, "probe")
  /\ UNCHANGED <<locals, settings, container>>

AutostartFire(t) ==
  /\ pc[t] = "delay"
  /\ IF phase = "idle" /\ ~busy
       THEN ClaimStart /\ Goto(t, "probe")
       ELSE Goto(t, "none") /\ UNCHANGED state
  /\ UNCHANGED <<locals, settings, container>>

-----------------------------------------------------------------------------
(* _do_start.                                                              *)

(* docker ps and one GET /health: only a healthy container can be seen     *)
(* healthy, but docker or the request may fail and hide it.                *)
Probe(t) ==
  /\ pc[t] = "probe"
  /\ \/ container = "healthy" /\ Goto(t, "attach")
     \/ Goto(t, "remove")
  /\ UNCHANGED <<state, locals, settings, container>>

Attach(t) ==
  /\ pc[t] = "attach"
  /\ phase' = "running"
  /\ containerRunning' = TRUE
  /\ fresh' = [fresh EXCEPT ![t] = FALSE]
  /\ Goto(t, "eager")
  /\ UNCHANGED <<busy, healthOk, everHealthy, diedAfterHealthy, gpuState,
                 lastError, left, verdict, settings, container>>

(* docker rm -f: its return code is ignored.                               *)
Remove(t) ==
  /\ pc[t] = "remove"
  /\ container' \in {"absent", container}
  /\ Goto(t, "announce")
  /\ UNCHANGED <<state, locals, settings>>

Announce(t) ==
  /\ pc[t] = "announce"
  /\ phase' = "starting"
  /\ Goto(t, "run")
  /\ UNCHANGED <<busy, containerRunning, healthOk, everHealthy,
                 diedAfterHealthy, gpuState, lastError, locals, settings,
                 container>>

(* docker run: the name must be free; a failed run may leave a dead        *)
(* container behind under that name.                                       *)
Run(t) ==
  /\ pc[t] = "run"
  /\ \/ /\ container = "absent"
        /\ container' = "booting"
        /\ Goto(t, "up")
     \/ /\ container' \in IF container = "absent" THEN {"absent", "exited"}
                                                  ELSE {container}
        /\ Goto(t, "raised")
  /\ UNCHANGED <<state, locals, settings>>

MarkRunning(t) ==
  /\ pc[t] = "up"
  /\ phase' = "running"
  /\ containerRunning' = TRUE
  /\ fresh' = [fresh EXCEPT ![t] = TRUE]
  /\ left' = [left EXCEPT ![t] = HealthPolls]
  /\ Goto(t, "health")
  /\ UNCHANGED <<busy, healthOk, everHealthy, diedAfterHealthy, gpuState,
                 lastError, verdict, settings, container>>

(* One round of the health loop: the deadline, docker ps, GET /health.     *)
AwaitHealth(t) ==
  /\ pc[t] = "health"
  /\ \/ Goto(t, "raised") /\ UNCHANGED left
     \/ left[t] > 0 /\ container = "healthy" /\ Goto(t, "eager") /\ UNCHANGED left
     \/ left[t] > 0 /\ container \in Up
        /\ left' = [left EXCEPT ![t] = @ - 1] /\ UNCHANGED pc
  /\ UNCHANGED <<state, fresh, verdict, settings, container>>

EagerLoad(t) ==
  /\ pc[t] = "eager"
  /\ eager' = IF fresh[t] /\ launch # NoLaunch THEN eager \cup {launch} ELSE eager
  /\ left' = [left EXCEPT ![t] = GpuRetries]
  /\ Goto(t, "gpu")
  /\ UNCHANGED <<state, fresh, verdict, launch, autostartCalled, container>>

(* What one look at the logs and, when they are not conclusive, at the     *)
(* model inventory says about GPU offload.                                 *)
GpuVerdict(log, confirmed) ==
  IF log \in {"unknown", "failed"} /\ confirmed THEN "gpu" ELSE log

GpuCheck(t) ==
  \E log \in GpuStates, confirmed \in BOOLEAN :
    verdict' = [verdict EXCEPT ![t] = GpuVerdict(log, confirmed)]

FirstGpuCheck(t) ==
  /\ pc[t] = "gpu"
  /\ GpuCheck(t)
  /\ Goto(t, "retry")
  /\ UNCHANGED <<state, fresh, left, settings, container>>

(* The bounded window in which a missing GPU is still provisional.         *)
GpuWindowOpen(t) == RequireGpu /\ verdict[t] # "gpu" /\ left[t] > 0

RetryGpuCheck(t) ==
  /\ pc[t] = "retry"
  /\ GpuWindowOpen(t)
  /\ \/ /\ verdict' = [verdict EXCEPT ![t] = "failed"]   \* not in docker ps
        /\ Goto(t, "verdict")
        /\ UNCHANGED left
     \/ /\ container \in Up
        /\ GpuCheck(t)
        /\ left' = [left EXCEPT ![t] = @ - 1]
        /\ UNCHANGED pc
  /\ UNCHANGED <<state, fresh, settings, container>>

CloseGpuWindow(t) ==
  /\ pc[t] = "retry"
  /\ ~GpuWindowOpen(t)
  /\ Goto(t, "verdict")
  /\ UNCHANGED <<state, locals, settings, container>>

(* Slip: the CPU fallback is not one of the blocking verdicts.             *)
GpuBlocksOnFailureOnly(t) == RequireGpu /\ verdict[t] = "failed"

GpuBlocks(t) == RequireGpu /\ verdict[t] \in Blocking

(* Not enough evidence after the last retry counts as "unknown" and lets   *)
(* the backend become healthy.                                             *)
Conclude(t) ==
  /\ pc[t] = "verdict"
  /\ phase' = IF GpuBlocks(t) THEN "failed" ELSE "healthy"
  /\ healthOk' = ~GpuBlocks(t)
  /\ everHealthy' = (everHealthy \/ ~GpuBlocks(t))
  /\ gpuState' = verdict[t]
  /\ lastError' = (lastError \/ GpuBlocks(t))
  /\ Goto(t, "release")
  /\ UNCHANGED <<busy, containerRunning, diedAfterHealthy, locals, settings,
                 container>>

Fail(t) ==
  /\ pc[t] = "raised"
  /\ phase' = "failed"
  /\ containerRunning' = FALSE
  /\ healthOk' = FALSE
  /\ lastError' = TRUE
  /\ Goto(t, "release")
  /\ UNCHANGED <<busy, everHealthy, diedAfterHealthy, gpuState, locals,
                 settings, container>>

(* Slip: no finally clause.                                                *)
ReleaseKeepsBusy(t) ==
  /\ pc[t] = "release"
  /\ Goto(t, "none")
  /\ UNCHANGED <<state, locals, settings, container>>

(* The finally clause; the thread's local variables are gone with it.      *)
Release(t) ==
  /\ pc[t] = "release"
  /\ busy' = FALSE
  /\ Goto(t, "none")
  /\ fresh' = [fresh EXCEPT ![t] = FALSE]
  /\ left' = [left EXCEPT ![t] = 0]
  /\ verdict' = [verdict EXCEPT ![t] = "unknown"]
  /\ UNCHANGED <<phase, containerRunning, healthOk, everHealthy,
                 diedAfterHealthy, gpuState, lastError, settings, container>>

-----------------------------------------------------------------------------
(* _do_stop.  Both docker calls may fail without ending the thread; a      *)
(* docker rm -f that fails (it may have removed the container all the      *)
(* same, when it timed out) says why.                                      *)

StopContainer(t) ==
  /\ pc[t] = "stop"
  /\ container' \in {container, IF container \in Up THEN "exited" ELSE container}
  /\ Goto(t, "stop_remove")
  /\ UNCHANGED <<state, locals, settings>>

StopRemove(t) ==
  /\ pc[t] = "stop_remove"
  /\ \/ container' = "absent" /\ Goto(t, "stop_done")
     \/ container' \in {"absent", container} /\ Goto(t, "stop_failed")
  /\ UNCHANGED <<state, locals, settings>>

(* Slip: the error of rm -f is dropped.                                    *)
StopDoneSilently(t) ==
  /\ pc[t] \in {"stop_done", "stop_failed"}
  /\ phase' = "stopped"
  /\ containerRunning' = FALSE
  /\ healthOk' = FALSE
  /\ busy' = FALSE
  /\ Goto(t, "none")
  /\ UNCHANGED <<everHealthy, diedAfterHealthy, gpuState, lastError, locals,
                 settings, container>>

(* The finally clause: the phase is "stopped" whatever rm -f returned.     *)
StopDone(t) ==
  /\ pc[t] \in {"stop_done", "stop_failed"}
  /\ phase' = "stopped"
  /\ containerRunning' = FALSE
  /\ healthOk' = FALSE
  /\ lastError' = (lastError \/ pc[t] = "stop_failed")
  /\ busy' = FALSE
  /\ Goto(t, "none")
  /\ UNCHANGED <<everHealthy, diedAfterHealthy, gpuState, locals, settings,
                 container>>

-----------------------------------------------------------------------------
(* Outside the proxy's lifecycle threads.                                  *)

ContainerBoots ==
  /\ container = "booting"
  /\ container' = "healthy"
  /\ UNCHANGED <<state, locals, settings, pc>>

ContainerDies ==
  /\ container \in Up
  /\ container' = "exited"
  /\ UNCHANGED <<state, locals, settings, pc>>

EagerLoadReturns(m) ==
  /\ m \in eager
  /\ eager' = eager \ {m}
  /\ UNCHANGED <<state, locals, launch, autostartCalled, pc, container>>

-----------------------------------------------------------------------------
StartStep(t) ==
  \/ Probe(t) \/ Attach(t) \/ Remove(t) \/ Announce(t) \/ Run(t)
  \/ MarkRunning(t) \/ AwaitHealth(t) \/ EagerLoad(t) \/ FirstGpuCheck(t)
  \/ RetryGpuCheck(t) \/ CloseGpuWindow(t) \/ Conclude(t) \/ Fail(t)
  \/ Release(t)

StopStep(t) == StopContainer(t) \/ StopRemove(t) \/ StopDone(t)

Worker(t) == AutostartFire(t) \/ StartStep(t) \/ StopStep(t)

Next ==
  \/ \E t \in Threads : BeginAutostart(t) \/ Start(t) \/ Stop(t) \/ Worker(t)
  \/ \E m \in Models : SetLaunchModel(m) \/ EagerLoadReturns(m)
  \/ RecordRuntimeFailure
  \/ ContainerBoots
  \/ ContainerDies

Spec == Init /\ [][Next]_vars

(* A spawned thread keeps running until its function returns: docker calls *)
(* and probes have timeouts.  Callers and the container promise nothing.   *)
Fairness == \A t \in Threads : WF_vars(Worker(t))

LiveSpec == Spec /\ Fairness

-----------------------------------------------------------------------------
(* Type invariant.                                                         *)
TypeOK ==
  /\ phase \in Phases
  /\ busy \in BOOLEAN
  /\ containerRunning \in BOOLEAN
  /\ healthOk \in BOOLEAN
  /\ everHealthy \in BOOLEAN
  /\ diedAfterHealthy \in BOOLEAN
  /\ gpuState \in GpuStates
  /\ lastError \in BOOLEAN
  /\ launch \in Models \cup {NoLaunch}
  /\ autostartCalled \in BOOLEAN
  /\ pc \in [Threads -> ActivePcs \cup {"none", "delay"}]
  /\ fresh \in [Threads -> BOOLEAN]
  /\ left \in [Threads -> Nat]
  /\ verdict \in [Threads -> GpuStates]
  /\ eager \subseteq Models
  /\ container \in Containers

(* The busy flag serialises docker: no two lifecycle threads are past      *)
(* their claim at once, whichever of start(), stop() and the delayed       *)
(* autostart spawned them, and the flag is up exactly while one is.        *)
OneLifecycleThread ==
  /\ \A t, u \in Active : t = u
  /\ busy <=> Active # {}

(* start() refuses while the phase is one of the running ones, so such a   *)
(* phase may only be shown while a thread is there to leave it: otherwise  *)
(* no start() would ever be accepted again.                                *)
NoWedgedPhase ==
  phase \in {"start_requested", "starting", "running", "stopping"} => busy

(* The manager never removes a container it presents as running: a phase   *)
(* that claims one implies the container was not taken away by rm -f.      *)
RunningPhaseHasContainer ==
  phase \in {"running", "healthy"} => container # "absent"

(* Readiness is computed from the phase and from backend_health_ok: the    *)
(* flag is up in every healthy snapshot, and otherwise only while the      *)
(* container is being stopped.                                             *)
HealthFlagTracksPhase ==
  /\ phase = "healthy" => healthOk
  /\ healthOk => phase \in {"healthy", "stopping"}

(* With require_gpu a backend that fell back to the CPU never becomes      *)
(* healthy, whatever the provisional verdicts of the window were.          *)
CpuBackendNeverHealthy ==
  RequireGpu /\ phase = "healthy" => gpuState \notin Blocking

(* An operation that did not do what its phase says tells so: a failed     *)
(* snapshot has an error, and so has a stopped one whose container is      *)
(* still there, whichever crash reports came in between.                   *)
FailureTold ==
  /\ phase = "failed" => lastError
  /\ phase = "stopped" => container = "absent" \/ lastError

(* What a snapshot shows (phase, backend_health_ok, gpu_offload_state,     *)
(* last_error) is true of the backend and of the threads that work on it,  *)
(* and agrees with itself, whichever threads wrote it.                     *)
SnapshotTruthful ==
  /\ NoWedgedPhase
  /\ RunningPhaseHasContainer
  /\ HealthFlagTracksPhase
  /\ CpuBackendNeverHealthy
  /\ FailureTold

(* The manager implements the serialised lifecycle.                        *)
Op ==
  IF ~busy THEN "none"
  ELSE IF \E t \in Threads : pc[t] \in StopPcs THEN "stop" ELSE "start"

Lifecycle == INSTANCE BackendLifecycle
  WITH op <- Op, gone <- (container = "absent"), told <- lastError

LifecycleSpec == Lifecycle!Spec

(* Every accepted operation ends: the flag that makes start() and stop()   *)
(* refuse does not stay up, and a requested start reaches a verdict.       *)
OperationsEnd ==
  /\ busy ~> ~busy
  /\ phase = "start_requested" ~> phase \in {"healthy", "failed"}

-----------------------------------------------------------------------------
(* What the documents say and the code does not do.                        *)

(* backend-lifecycle-control-plane.md, section 4.3: a healthy backend      *)
(* whose container exits becomes failed.                                   *)
DeadContainerNoticed ==
  (phase = "healthy" /\ container = "exited") ~> phase # "healthy"

(* The docstring of _do_stop and backend-lifecycle-control-plane.md,       *)
(* section 4.1: "stopped" is shown only when the container was removed.    *)
StoppedMeansRemoved == phase = "stopped" => container = "absent"

=============================================================================
