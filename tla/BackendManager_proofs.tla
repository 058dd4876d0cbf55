----------------------- MODULE BackendManager_proofs -----------------------
(***************************************************************************)
(* The safety invariants of BackendManager, and that it implements the     *)
(* serialised lifecycle, for every set of threads and models, every retry  *)
(* count and either setting of require_gpu.                                *)
(*                                                                         *)
(* The invariants are not inductive alone: whether a step of a lifecycle   *)
(* thread may leave the phase it finds depends on where the thread is.     *)
(* PhaseAt adds that, thread by thread.  It would not survive a second     *)
(* active thread, which is why OneLifecycleThread comes first.  What a     *)
(* status that is computed look by look beside the threads may say rests   *)
(* on the invariant at each look and on what moved since (ReadingOK).      *)
(*                                                                         *)
(* And the agreement of StatusReport, whose situations have the snapshots  *)
(* that those invariants leave (SnapshotsArePossible).                     *)
(***************************************************************************)
EXTENDS BackendAdmission, StatusReport, TLAPS

(* Only a crash report can take the phase from under a lifecycle thread.   *)
PhaseAt(t) ==
  /\ pc[t] \in {"probe", "attach", "remove", "announce"}
       => phase \in {"start_requested", "failed"}
  /\ pc[t] \in {"run", "up"} => phase \in {"starting", "failed"}
  /\ pc[t] \in {"health", "eager", "gpu", "retry", "verdict"}
       => phase \in {"running", "failed"}
  /\ pc[t] = "raised" => phase \in {"starting", "running", "failed"}
  /\ pc[t] = "release" => phase \in {"healthy", "failed"}
  /\ pc[t] \in StopPcs => phase \in {"stopping", "failed"}
  /\ pc[t] \in {"attach", "up", "health", "eager", "gpu", "retry", "verdict"}
       => container # "absent"
  /\ pc[t] = "stop_done" => container = "absent"

IInv ==
  /\ TypeOK
  /\ OneLifecycleThread
  /\ \A t \in Threads : PhaseAt(t)
  /\ NoWedgedPhase
  /\ RunningPhaseHasContainer
  /\ HealthFlagTracksPhase
  /\ CpuBackendNeverHealthy
  /\ FailureTold

-----------------------------------------------------------------------------
LEMMA InitInductive == Init => IInv
<1> SUFFICES ASSUME Init PROVE IInv
  OBVIOUS
<1> USE DEF Init
<1>1. TypeOK
  BY DEF TypeOK, Phases, GpuStates, Containers, Up, ActivePcs
<1>2. OneLifecycleThread
  BY DEF OneLifecycleThread, Active, ActivePcs, StartPcs, StopPcs
<1>3. \A t \in Threads : PhaseAt(t)
  BY DEF PhaseAt, StopPcs
<1>4. NoWedgedPhase /\ RunningPhaseHasContainer /\ CpuBackendNeverHealthy
  BY DEF NoWedgedPhase, RunningPhaseHasContainer, CpuBackendNeverHealthy
<1>5. HealthFlagTracksPhase /\ FailureTold
  BY DEF HealthFlagTracksPhase, FailureTold
<1> QED
  BY <1>1, <1>2, <1>3, <1>4, <1>5 DEF IInv

(* The two halves of the type invariant: the flags and the rest.           *)
FlagsOK ==
  /\ busy \in BOOLEAN
  /\ containerRunning \in BOOLEAN
  /\ healthOk \in BOOLEAN
  /\ everHealthy \in BOOLEAN
  /\ diedAfterHealthy \in BOOLEAN
  /\ lastError \in BOOLEAN
  /\ autostartCalled \in BOOLEAN

ValuesOK ==
  /\ phase \in Phases
  /\ gpuState \in GpuStates
  /\ launch \in Models \cup {NoLaunch}
  /\ pc \in [Threads -> ActivePcs \cup {"none", "delay"}]
  /\ fresh \in [Threads -> BOOLEAN]
  /\ left \in [Threads -> Nat]
  /\ verdict \in [Threads -> GpuStates]
  /\ eager \subseteq Models
  /\ container \in Containers

LEMMA FlagsStep ==
  ASSUME TypeOK, [Next]_vars
  PROVE  FlagsOK'
<1> USE DEF TypeOK, FlagsOK, vars, state, settings
<1>1. CASE UNCHANGED vars
  BY <1>1
<1>2. ASSUME NEW t \in Threads, BeginAutostart(t) \/ Start(t) \/ Stop(t)
             \/ AutostartFire(t)
      PROVE  FlagsOK'
  BY <1>2 DEF BeginAutostart, Start, Stop, AutostartFire, ClaimStart
<1>3. ASSUME NEW t \in Threads, StartStep(t)
      PROVE  FlagsOK'
  <2>1. CASE Probe(t) \/ Attach(t) \/ Remove(t) \/ Announce(t) \/ Run(t)
             \/ MarkRunning(t) \/ AwaitHealth(t) \/ EagerLoad(t)
    BY <2>1 DEF Probe, Attach, Remove, Announce, Run, MarkRunning,
       AwaitHealth, EagerLoad
  <2>2. CASE FirstGpuCheck(t) \/ RetryGpuCheck(t) \/ CloseGpuWindow(t)
    BY <2>2 DEF FirstGpuCheck, RetryGpuCheck, CloseGpuWindow
  <2>3. CASE Conclude(t) \/ Fail(t) \/ Release(t)
    BY <2>3 DEF Conclude, Fail, Release, GpuBlocks
  <2> QED
    BY <1>3, <2>1, <2>2, <2>3 DEF StartStep
<1>4. ASSUME NEW t \in Threads, StopStep(t)
      PROVE  FlagsOK'
  BY <1>4 DEF StopStep, StopContainer, StopRemove, StopDone
<1>5. ASSUME NEW m \in Models, SetLaunchModel(m) \/ EagerLoadReturns(m)
      PROVE  FlagsOK'
  BY <1>5 DEF SetLaunchModel, EagerLoadReturns
<1>6. CASE RecordRuntimeFailure \/ ContainerBoots \/ ContainerDies
  BY <1>6 DEF RecordRuntimeFailure, ContainerBoots, ContainerDies
<1> QED
  BY <1>1, <1>2, <1>3, <1>4, <1>5, <1>6 DEF Next, Worker

LEMMA ValuesStep ==
  ASSUME ValuesOK, [Next]_vars
  PROVE  ValuesOK'
<1> USE DEF ValuesOK, Phases, GpuStates, Containers, Up, ActivePcs,
        StartPcs, StopPcs, Goto, vars, state, locals, settings
<1>1. CASE UNCHANGED vars
  BY <1>1
<1>2. ASSUME NEW t \in Threads, BeginAutostart(t) \/ Start(t) \/ Stop(t)
             \/ AutostartFire(t)
      PROVE  ValuesOK'
  BY <1>2 DEF BeginAutostart, Start, Stop, AutostartFire, ClaimStart
<1>3. ASSUME NEW t \in Threads, StartStep(t)
      PROVE  ValuesOK'
  <2>1. CASE Probe(t) \/ Attach(t) \/ Remove(t) \/ Announce(t)
    BY <2>1 DEF Probe, Attach, Remove, Announce
  <2>2. CASE Run(t)
    BY <2>2 DEF Run
  <2>8. CASE MarkRunning(t)
    <3>1. fresh' \in [Threads -> BOOLEAN]
      BY <2>8 DEF MarkRunning
    <3>2. left' \in [Threads -> Nat]
      BY <2>8, ManagerAssumption DEF MarkRunning
    <3> QED
      BY <2>8, <3>1, <3>2 DEF MarkRunning
  <2>3. CASE AwaitHealth(t)
    BY <2>3 DEF AwaitHealth
  <2>4. CASE EagerLoad(t)
    BY <2>4, ManagerAssumption DEF EagerLoad
  <2>5. CASE FirstGpuCheck(t) \/ CloseGpuWindow(t)
    BY <2>5 DEF FirstGpuCheck, CloseGpuWindow, GpuCheck, GpuVerdict
  <2>6. CASE RetryGpuCheck(t)
    BY <2>6 DEF RetryGpuCheck, GpuWindowOpen, GpuCheck, GpuVerdict
  <2>7. CASE Conclude(t)
    <3>1. phase' \in {"failed", "healthy"} /\ gpuState' = verdict[t]
      BY <2>7 DEF Conclude
    <3> QED
      BY <2>7, <3>1 DEF Conclude
  <2>9. CASE Fail(t)
    BY <2>9 DEF Fail
  <2>10. CASE Release(t)
    <3>1. fresh' \in [Threads -> BOOLEAN]
      BY <2>10 DEF Release
    <3>2. left' \in [Threads -> Nat]
      BY <2>10 DEF Release
    <3>3. verdict' \in [Threads -> GpuStates]
      BY <2>10 DEF Release
    <3> QED
      BY <2>10, <3>1, <3>2, <3>3 DEF Release
  <2> QED
    BY <1>3, <2>1, <2>2, <2>3, <2>4, <2>5, <2>6, <2>7, <2>8, <2>9, <2>10
       DEF StartStep
<1>4. ASSUME NEW t \in Threads, StopStep(t)
      PROVE  ValuesOK'
  BY <1>4 DEF StopStep, StopContainer, StopRemove, StopDone
<1>5. ASSUME NEW m \in Models, SetLaunchModel(m) \/ EagerLoadReturns(m)
      PROVE  ValuesOK'
  BY <1>5 DEF SetLaunchModel, EagerLoadReturns
<1>6. CASE RecordRuntimeFailure \/ ContainerBoots \/ ContainerDies
  BY <1>6 DEF RecordRuntimeFailure, ContainerBoots, ContainerDies
<1> QED
  BY <1>1, <1>2, <1>3, <1>4, <1>5, <1>6 DEF Next, Worker

LEMMA TypeStep ==
  ASSUME TypeOK, [Next]_vars
  PROVE  TypeOK'
<1>1. ValuesOK
  BY DEF TypeOK, ValuesOK
<1> QED
  BY <1>1, FlagsStep, ValuesStep DEF TypeOK, FlagsOK, ValuesOK

(* The claims of start(), stop() and the delayed autostart are made under  *)
(* the lock, with the flag down: a claim is made when no thread is active. *)
LEMMA OneThreadStep ==
  ASSUME TypeOK, OneLifecycleThread, [Next]_vars
  PROVE  OneLifecycleThread'
<1> USE DEF TypeOK, OneLifecycleThread, Active, ActivePcs, StartPcs, StopPcs,
        Goto, vars, state, locals, settings
<1>1. CASE UNCHANGED vars
  BY <1>1
<1>2. ASSUME NEW t \in Threads, BeginAutostart(t)
      PROVE  OneLifecycleThread'
  BY <1>2 DEF BeginAutostart
<1>3. ASSUME NEW t \in Threads, Start(t) \/ Stop(t) \/ AutostartFire(t)
      PROVE  OneLifecycleThread'
  BY <1>3 DEF Start, Stop, AutostartFire, ClaimStart
<1>4. ASSUME NEW t \in Threads, StartStep(t), ~Release(t)
      PROVE  OneLifecycleThread'
  <2>1. t \in Active
    BY <1>4 DEF StartStep, Probe, Attach, Remove, Announce, Run, MarkRunning,
       AwaitHealth, EagerLoad, FirstGpuCheck, RetryGpuCheck, CloseGpuWindow,
       Conclude, Fail
  <2>2. pc' = [pc EXCEPT ![t] = pc'[t]] /\ pc'[t] \in StartPcs
    BY <1>4 DEF StartStep, Probe, Attach, Remove, Announce, Run, MarkRunning,
       AwaitHealth, EagerLoad, FirstGpuCheck, RetryGpuCheck, CloseGpuWindow,
       Conclude, Fail
  <2>3. UNCHANGED busy
    BY <1>4 DEF StartStep, Probe, Attach, Remove, Announce, Run, MarkRunning,
       AwaitHealth, EagerLoad, FirstGpuCheck, RetryGpuCheck, CloseGpuWindow,
       Conclude, Fail
  <2> QED
    BY <2>1, <2>2, <2>3
<1>5. ASSUME NEW t \in Threads, Release(t) \/ StopStep(t)
      PROVE  OneLifecycleThread'
  BY <1>5 DEF Release, StopStep, StopContainer, StopRemove, StopDone
<1>6. ASSUME NEW m \in Models, SetLaunchModel(m) \/ EagerLoadReturns(m)
      PROVE  OneLifecycleThread'
  BY <1>6 DEF SetLaunchModel, EagerLoadReturns
<1>7. CASE RecordRuntimeFailure \/ ContainerBoots \/ ContainerDies
  BY <1>7 DEF RecordRuntimeFailure, ContainerBoots, ContainerDies
<1> QED
  BY <1>1, <1>2, <1>3, <1>4, <1>5, <1>6, <1>7 DEF Next, Worker

(* Where each thread may be, given that no other thread is active.         *)
LEMMA PhaseAtStep ==
  ASSUME IInv, [Next]_vars, NEW u \in Threads
  PROVE  PhaseAt(u)'
<1> USE DEF IInv, TypeOK, PhaseAt, StopPcs, Goto, vars, state
<1>1. CASE UNCHANGED vars
  BY <1>1
<1>3. ASSUME NEW t \in Threads, BeginAutostart(t)
      PROVE  PhaseAt(u)'
  BY <1>3 DEF BeginAutostart
<1>4. ASSUME NEW t \in Threads, Start(t) \/ Stop(t) \/ AutostartFire(t)
      PROVE  PhaseAt(u)'
  BY <1>4 DEF Start, Stop, AutostartFire, ClaimStart, OneLifecycleThread,
     Active, ActivePcs, StartPcs
<1>5. ASSUME NEW t \in Threads, StartStep(t) \/ StopStep(t)
      PROVE  PhaseAt(u)'
  <2>1. t \in Active
    BY <1>5 DEF StartStep, StopStep, Probe, Attach, Remove, Announce, Run,
       MarkRunning, AwaitHealth, EagerLoad, FirstGpuCheck, RetryGpuCheck,
       CloseGpuWindow, Conclude, Fail, Release, StopContainer, StopRemove,
       StopDone, Active, ActivePcs, StartPcs
  <2>2. CASE u # t
    <3>1. u \notin Active
      BY <2>1, <2>2 DEF OneLifecycleThread
    <3>2. pc'[u] = pc[u]
      BY <1>5, <2>2 DEF StartStep, StopStep, Probe, Attach, Remove, Announce,
         Run, MarkRunning, AwaitHealth, EagerLoad, FirstGpuCheck,
         RetryGpuCheck, CloseGpuWindow, Conclude, Fail, Release,
         StopContainer, StopRemove, StopDone
    <3> QED
      BY <3>1, <3>2 DEF Active, ActivePcs, StartPcs
  <2>3. CASE u = t
    <3>1. CASE Probe(t) \/ Attach(t) \/ Remove(t) \/ Announce(t)
      BY <2>3, <3>1 DEF Probe, Attach, Remove, Announce
    <3>2. CASE Run(t) \/ MarkRunning(t) \/ AwaitHealth(t) \/ EagerLoad(t)
      BY <2>3, <3>2 DEF Run, MarkRunning, AwaitHealth, EagerLoad
    <3>3. CASE FirstGpuCheck(t) \/ RetryGpuCheck(t) \/ CloseGpuWindow(t)
      BY <2>3, <3>3 DEF FirstGpuCheck, RetryGpuCheck, CloseGpuWindow
    <3>4. CASE Conclude(t) \/ Fail(t) \/ Release(t)
      BY <2>3, <3>4 DEF Conclude, Fail, Release
    <3>5. CASE StopStep(t)
      BY <2>3, <3>5 DEF StopStep, StopContainer, StopRemove, StopDone
    <3> QED
      BY <1>5, <3>1, <3>2, <3>3, <3>4, <3>5 DEF StartStep
  <2> QED
    BY <2>2, <2>3
<1>6. ASSUME NEW m \in Models, SetLaunchModel(m) \/ EagerLoadReturns(m)
      PROVE  PhaseAt(u)'
  BY <1>6 DEF SetLaunchModel, EagerLoadReturns
<1>7. CASE RecordRuntimeFailure \/ ContainerBoots \/ ContainerDies
  BY <1>7 DEF RecordRuntimeFailure, ContainerBoots, ContainerDies, Up
<1> QED
  BY <1>1, <1>3, <1>4, <1>5, <1>6, <1>7 DEF Next, Worker

-----------------------------------------------------------------------------
(* What the phase says, and the flags that go with it.                     *)
LEMMA PhaseMeaningStep ==
  ASSUME IInv, [Next]_vars
  PROVE  /\ NoWedgedPhase'
         /\ RunningPhaseHasContainer'
         /\ HealthFlagTracksPhase'
         /\ CpuBackendNeverHealthy'
         /\ FailureTold'
<1> DEFINE Goal == /\ NoWedgedPhase
                   /\ RunningPhaseHasContainer
                   /\ HealthFlagTracksPhase
                   /\ CpuBackendNeverHealthy
                   /\ FailureTold
<1> SUFFICES Goal'
  OBVIOUS
<1>b. ASSUME NEW t \in Threads, pc[t] \in ActivePcs
      PROVE  busy
  BY <1>b DEF IInv, OneLifecycleThread, Active
<1> USE DEF IInv, TypeOK, NoWedgedPhase, RunningPhaseHasContainer,
        HealthFlagTracksPhase, CpuBackendNeverHealthy, FailureTold, vars, state,
        settings
<1>1. CASE UNCHANGED vars
  BY <1>1
<1>2. ASSUME NEW t \in Threads, BeginAutostart(t) \/ Start(t) \/ Stop(t)
             \/ AutostartFire(t)
      PROVE  Goal'
  BY <1>2 DEF BeginAutostart, Start, Stop, AutostartFire, ClaimStart,
     RunningPhases
<1>3. ASSUME NEW t \in Threads, StartStep(t)
      PROVE  Goal'
  <2>1. PhaseAt(t)
    OBVIOUS
  <2>2. CASE Probe(t) \/ AwaitHealth(t) \/ EagerLoad(t) \/ FirstGpuCheck(t)
             \/ RetryGpuCheck(t) \/ CloseGpuWindow(t)
    BY <2>2 DEF Probe, AwaitHealth, EagerLoad, FirstGpuCheck, RetryGpuCheck,
       CloseGpuWindow
  <2>3. CASE Attach(t) \/ Announce(t) \/ MarkRunning(t)
    BY <2>1, <2>3, <1>b DEF Attach, Announce, MarkRunning, PhaseAt, ActivePcs,
       StartPcs
  <2>4. CASE Remove(t) \/ Run(t)
    BY <2>1, <2>4 DEF Remove, Run, PhaseAt
  <2>5. CASE Conclude(t)
    <3>1. CASE GpuBlocks(t)
      <4>1. phase' = "failed" /\ ~healthOk' /\ lastError'
        BY <2>5, <3>1 DEF Conclude
      <4> QED
        BY <4>1
    <3>2. CASE ~GpuBlocks(t)
      <4>1. phase' = "healthy" /\ healthOk' /\ gpuState' = verdict[t]
        BY <2>5, <3>2 DEF Conclude
      <4>2. container' # "absent"
        BY <2>1, <2>5 DEF Conclude, PhaseAt
      <4> QED
        BY <3>2, <4>1, <4>2 DEF GpuBlocks
    <3> QED
      BY <3>1, <3>2
  <2>6. CASE Fail(t) \/ Release(t)
    BY <2>1, <2>6 DEF Fail, Release, PhaseAt
  <2> QED
    BY <1>3, <2>2, <2>3, <2>4, <2>5, <2>6 DEF StartStep
<1>4. ASSUME NEW t \in Threads, StopStep(t)
      PROVE  Goal'
  BY <1>4 DEF StopStep, StopContainer, StopRemove, StopDone, PhaseAt, StopPcs,
     Up
<1>5. ASSUME NEW m \in Models, SetLaunchModel(m) \/ EagerLoadReturns(m)
      PROVE  Goal'
  BY <1>5 DEF SetLaunchModel, EagerLoadReturns
<1>6. CASE RecordRuntimeFailure \/ ContainerBoots \/ ContainerDies
  BY <1>6 DEF RecordRuntimeFailure, ContainerBoots, ContainerDies, Up
<1> QED
  BY <1>1, <1>2, <1>3, <1>4, <1>5, <1>6 DEF Next, Worker

LEMMA InductiveStep ==
  ASSUME IInv, [Next]_vars
  PROVE  IInv'
  BY TypeStep, OneThreadStep, PhaseAtStep, PhaseMeaningStep DEF IInv

LEMMA Inductive == Spec => []IInv
  BY InitInductive, InductiveStep, PTL DEF Spec

(* The snapshot's fields keep their types.                                 *)
THEOREM TypeCorrect == Spec => []TypeOK
  BY Inductive, PTL DEF IInv

(* start(), stop() and the delayed autostart never run two lifecycle       *)
(* threads at once, and _busy is up exactly while one runs.                *)
THEOREM Serialised == Spec => []OneLifecycleThread
  BY Inductive, PTL DEF IInv

(* No phase that makes start() refuse outlives the thread that set it,     *)
(* _do_start and _do_stop never remove the container behind a phase that   *)
(* says it runs, the phase and backend_health_ok never contradict each     *)
(* other, and require_gpu lets no CPU-only backend become healthy.         *)
THEOREM ShownIsTrue == Spec => []SnapshotTruthful
  BY Inductive, PTL DEF IInv, SnapshotTruthful

-----------------------------------------------------------------------------
(* The refinement.  The abstract operation is what the one active thread   *)
(* is doing, so it is fixed by the label of any active thread.             *)
LEMMA OpOfThread ==
  ASSUME OneLifecycleThread, NEW t \in Active
  PROVE  Op = IF pc[t] \in StopPcs THEN "stop" ELSE "start"
  BY DEF OneLifecycleThread, Active, ActivePcs, Op

(* A step of a thread that is active before and after it stays in the      *)
(* same operation; one that ends it leaves none.                           *)
LEMMA StartStepRefines ==
  ASSUME IInv, IInv', NEW t \in Threads, StartStep(t)
  PROVE  [Lifecycle!Next]_(Lifecycle!lifecycle)
<1> USE DEF IInv, TypeOK, state
<1>1. t \in Active /\ pc[t] \in StartPcs
  BY DEF StartStep, Probe, Attach, Remove, Announce, Run, MarkRunning,
     AwaitHealth, EagerLoad, FirstGpuCheck, RetryGpuCheck, CloseGpuWindow,
     Conclude, Fail, Release, Active, ActivePcs, StartPcs
<1>2. Op = "start"
  BY <1>1, OpOfThread DEF StartPcs, StopPcs
<1>3. ASSUME ~Release(t)
      PROVE  Op' = "start"
  <2>1. pc'[t] \in StartPcs
    BY <1>3 DEF StartStep, Probe, Attach, Remove, Announce, Run, MarkRunning,
       AwaitHealth, EagerLoad, FirstGpuCheck, RetryGpuCheck, CloseGpuWindow,
       Conclude, Fail, Goto, ActivePcs, StartPcs
  <2>2. t \in Active' /\ pc'[t] \notin StopPcs
    BY <2>1 DEF Active, ActivePcs, StartPcs, StopPcs
  <2>3. busy'
    BY <2>2 DEF OneLifecycleThread
  <2>4. \A u \in Threads : pc'[u] \notin StopPcs
    BY <2>2 DEF OneLifecycleThread, Active, ActivePcs
  <2> QED
    BY <2>3, <2>4 DEF Op
<1>4. PhaseAt(t)
  OBVIOUS
<1>5. CASE Probe(t) \/ AwaitHealth(t) \/ EagerLoad(t)
           \/ FirstGpuCheck(t) \/ RetryGpuCheck(t) \/ CloseGpuWindow(t)
  <2>1. UNCHANGED <<phase, container, lastError>>
    BY <1>5 DEF Probe, AwaitHealth, EagerLoad, FirstGpuCheck, RetryGpuCheck,
       CloseGpuWindow
  <2>2. ~Release(t)
    BY <1>5 DEF Probe, AwaitHealth, EagerLoad, FirstGpuCheck, RetryGpuCheck,
       CloseGpuWindow, Release
  <2> QED
    BY <1>2, <1>3, <2>1, <2>2 DEF Lifecycle!lifecycle
<1>8. CASE Remove(t) \/ Run(t)
  <2>1. UNCHANGED <<phase, lastError>>
    BY <1>8 DEF Remove, Run
  <2>2. phase \in {"start_requested", "starting", "failed"}
    BY <1>4, <1>8 DEF PhaseAt, Remove, Run
  <2>3. ~Release(t)
    BY <1>8 DEF Remove, Run, Release
  <2>4. (container' = "absent") \in BOOLEAN
    OBVIOUS
  <2> QED
    BY <1>2, <1>3, <2>1, <2>2, <2>3, <2>4 DEF Lifecycle!Next, Lifecycle!Replace
<1>6. CASE Attach(t) \/ Announce(t) \/ MarkRunning(t) \/ Conclude(t) \/ Fail(t)
  <2>1. ~Release(t)
    BY <1>6 DEF Attach, Announce, MarkRunning, Conclude, Fail, Release
  <2>2. UNCHANGED container
    BY <1>6 DEF Attach, Announce, MarkRunning, Conclude, Fail
  <2>3. CASE Attach(t) \/ Announce(t) \/ MarkRunning(t)
    <3>1. UNCHANGED lastError
      BY <2>3 DEF Attach, Announce, MarkRunning
    <3>2. \/ phase \in {"start_requested", "failed"} /\ phase' = "starting"
          \/ /\ phase \in {"start_requested", "starting", "failed"}
             /\ phase' = "running" /\ container # "absent"
      BY <1>4, <2>3 DEF PhaseAt, Attach, Announce, MarkRunning
    <3> QED
      BY <1>2, <1>3, <2>1, <2>2, <3>1, <3>2 DEF Lifecycle!Next, Lifecycle!Climb
  <2>4. CASE Conclude(t)
    <3>1. phase \in {"running", "failed"} /\ container # "absent"
      BY <1>4, <2>4 DEF PhaseAt, Conclude
    <3>2. CASE GpuBlocks(t)
      <4>1. phase' = "failed" /\ lastError'
        BY <2>4, <3>2 DEF Conclude
      <4> QED
        BY <1>2, <1>3, <2>1, <2>2, <4>1 DEF Lifecycle!Next, Lifecycle!Climb
    <3>3. CASE ~GpuBlocks(t)
      <4>1. phase' = "healthy" /\ lastError' = lastError
        BY <2>4, <3>3 DEF Conclude
      <4> QED
        BY <1>2, <1>3, <2>1, <2>2, <3>1, <4>1 DEF Lifecycle!Next, Lifecycle!Climb
    <3> QED
      BY <3>2, <3>3
  <2>5. CASE Fail(t)
    <3>1. phase' = "failed" /\ lastError'
      BY <2>5 DEF Fail
    <3> QED
      BY <1>2, <1>3, <2>1, <2>2, <3>1 DEF Lifecycle!Next, Lifecycle!Climb
  <2> QED
    BY <1>6, <2>3, <2>4, <2>5
<1>7. CASE Release(t)
  <2>1. /\ Op' = "none" /\ UNCHANGED <<phase, container, lastError>>
        /\ phase \in {"healthy", "failed"}
    BY <1>4, <1>7 DEF Release, Op, PhaseAt
  <2> QED
    BY <1>2, <2>1 DEF Lifecycle!Next, Lifecycle!EndStart
<1> QED
  BY <1>5, <1>6, <1>7, <1>8 DEF StartStep

LEMMA StopStepRefines ==
  ASSUME IInv, IInv', NEW t \in Threads, StopStep(t)
  PROVE  [Lifecycle!Next]_(Lifecycle!lifecycle)
<1> USE DEF IInv, TypeOK, state
<1>1. t \in Active /\ pc[t] \in StopPcs
  BY DEF StopStep, StopContainer, StopRemove, StopDone, Active, ActivePcs, StopPcs
<1>2. Op = "stop"
  BY <1>1, OpOfThread
<1>3. CASE StopContainer(t) \/ StopRemove(t)
  <2>1. /\ pc'[t] \in StopPcs /\ UNCHANGED <<phase, lastError>> /\ busy'
        /\ container' = "absent" \/ (container' = "absent" <=> container = "absent")
    BY <1>1, <1>3 DEF StopContainer, StopRemove, Goto, StopPcs,
       OneLifecycleThread, Up
  <2>2. Op' = "stop"
    BY <2>1 DEF Op
  <2>3. CASE container' = "absent"
    BY <1>2, <2>1, <2>2, <2>3 DEF Lifecycle!Next, Lifecycle!TakeDown
  <2>4. CASE container' # "absent"
    BY <1>2, <2>1, <2>2, <2>4 DEF Lifecycle!lifecycle
  <2> QED
    BY <2>3, <2>4
<1>4. CASE StopDone(t)
  <2>1. Op' = "none" /\ phase' = "stopped" /\ UNCHANGED container
    BY <1>4 DEF StopDone, Op
  <2>2. lastError' \in {lastError, TRUE}
    BY <1>4 DEF StopDone
  <2>3. container = "absent" \/ lastError'
    <3>1. CASE pc[t] = "stop_done"
      BY <3>1 DEF PhaseAt
    <3>2. CASE pc[t] = "stop_failed"
      BY <1>4, <3>2 DEF StopDone
    <3> QED
      BY <1>4, <3>1, <3>2 DEF StopDone
  <2> QED
    BY <1>2, <2>1, <2>2, <2>3 DEF Lifecycle!Next, Lifecycle!EndStop
<1> QED
  BY <1>3, <1>4 DEF StopStep

(* A claim is made when no operation is under way.                         *)
LEMMA ClaimRefines ==
  ASSUME IInv, IInv', NEW t \in Threads,
         Start(t) \/ Stop(t) \/ AutostartFire(t)
  PROVE  [Lifecycle!Next]_(Lifecycle!lifecycle)
<1> USE DEF IInv, TypeOK, state
<1>1. CASE /\ ~busy /\ busy'
           /\ phase' = "start_requested" /\ pc'[t] = "probe"
           /\ lastError' = FALSE /\ UNCHANGED container
           /\ phase \in {"idle", "failed", "stopped", "unknown"}
  <2>1. Op = "none"
    BY <1>1 DEF Op
  <2>2. t \in Active'
    BY <1>1 DEF Active, ActivePcs, StartPcs
  <2>3. \A u \in Threads : pc'[u] \notin StopPcs
    BY <1>1, <2>2 DEF OneLifecycleThread, Active, ActivePcs, StopPcs
  <2>4. Op' = "start"
    BY <1>1, <2>3 DEF Op
  <2> QED
    BY <1>1, <2>1, <2>4 DEF Lifecycle!Next, Lifecycle!BeginStart
<1>2. CASE /\ ~busy /\ busy'
           /\ phase' = "stopping" /\ pc'[t] = "stop"
           /\ UNCHANGED <<container, lastError>>
           /\ phase \in {"healthy", "failed", "unknown"}
  <2>1. Op = "none"
    BY <1>2 DEF Op
  <2>2. Op' = "stop"
    BY <1>2 DEF Op, StopPcs
  <2> QED
    BY <1>2, <2>1, <2>2 DEF Lifecycle!Next, Lifecycle!BeginStop
<1>3. CASE Start(t)
  <2>1. /\ ~busy /\ busy' /\ phase' = "start_requested" /\ pc'[t] = "probe"
        /\ lastError' = FALSE /\ UNCHANGED container
    BY <1>3 DEF Start, ClaimStart, Goto
  <2>2. phase \in {"idle", "failed", "stopped", "unknown"}
    BY <1>3, <2>1 DEF Start, NoWedgedPhase, RunningPhases, Phases
  <2> QED
    BY <2>1, <2>2, <1>1
<1>4. CASE Stop(t)
  <2>1. /\ ~busy /\ busy' /\ phase' = "stopping" /\ pc'[t] = "stop"
        /\ UNCHANGED <<container, lastError>>
    BY <1>4 DEF Stop, Goto
  <2>2. phase \in {"healthy", "failed", "unknown"}
    BY <1>4, <2>1 DEF Stop, NoWedgedPhase, Phases
  <2> QED
    BY <2>1, <2>2, <1>2
<1>5. CASE AutostartFire(t) /\ phase = "idle" /\ ~busy
  <2>1. /\ ~busy /\ busy' /\ phase' = "start_requested" /\ pc'[t] = "probe"
        /\ lastError' = FALSE /\ UNCHANGED container
    BY <1>5 DEF AutostartFire, ClaimStart, Goto
  <2> QED
    BY <2>1, <1>5, <1>1
<1>6. CASE AutostartFire(t) /\ ~(phase = "idle" /\ ~busy)
  <2>1. /\ UNCHANGED <<phase, busy, container, lastError>>
        /\ pc[t] = "delay" /\ pc' = [pc EXCEPT ![t] = "none"]
    BY <1>6 DEF AutostartFire, Goto
  <2>2. Op' = Op
    BY <2>1 DEF Op, StopPcs
  <2> QED
    BY <2>1, <2>2 DEF Lifecycle!lifecycle
<1> QED
  BY <1>3, <1>4, <1>5, <1>6

LEMMA StepRefines ==
  ASSUME IInv, IInv', [Next]_vars
  PROVE  [Lifecycle!Next]_(Lifecycle!lifecycle)
<1>1. ASSUME UNCHANGED <<phase, busy, pc, lastError>>,
             container' = "absent" <=> container = "absent"
      PROVE  UNCHANGED Lifecycle!lifecycle
  BY <1>1 DEF Op, Lifecycle!lifecycle
<1>2. CASE UNCHANGED vars
  BY <1>1, <1>2 DEF vars, state
<1>3. ASSUME NEW t \in Threads, BeginAutostart(t)
      PROVE  UNCHANGED Lifecycle!lifecycle
  <2>1. UNCHANGED <<phase, busy, container, lastError>>
    BY <1>3 DEF BeginAutostart, state
  <2>2. \A u \in Threads : pc'[u] \in StopPcs <=> pc[u] \in StopPcs
    BY <1>3 DEF BeginAutostart, Goto, StopPcs, IInv, TypeOK
  <2> QED
    BY <2>1, <2>2 DEF Op, Lifecycle!lifecycle
<1>4. ASSUME NEW m \in Models, SetLaunchModel(m) \/ EagerLoadReturns(m)
      PROVE  UNCHANGED Lifecycle!lifecycle
  BY <1>1, <1>4 DEF SetLaunchModel, EagerLoadReturns, state
<1>5. CASE ContainerBoots \/ ContainerDies
  BY <1>1, <1>5 DEF ContainerBoots, ContainerDies, Up, state
<1>6. CASE RecordRuntimeFailure
  <2>1. phase' = "failed" /\ lastError' /\ UNCHANGED <<busy, pc, container>>
    BY <1>6 DEF RecordRuntimeFailure
  <2>2. UNCHANGED Op
    BY <2>1 DEF Op
  <2> QED
    BY <2>1, <2>2 DEF Lifecycle!Next, Lifecycle!CrashReported
<1> QED
  BY <1>2, <1>3, <1>4, <1>5, <1>6, StartStepRefines, StopStepRefines,
     ClaimRefines DEF Next, Worker

(* BackendManager implements the serialised lifecycle its callers rely on. *)
THEOREM ImplementsLifecycle == Spec => LifecycleSpec
<1>1. Init => Lifecycle!Init
  BY DEF Init, Lifecycle!Init, Op
<1>2. ASSUME IInv, IInv', [Next]_vars
      PROVE  [Lifecycle!Next]_(Lifecycle!lifecycle)
  BY <1>2, StepRefines
<1> QED
  BY <1>1, <1>2, Inductive, PTL DEF Spec, LifecycleSpec, Lifecycle!Spec

-----------------------------------------------------------------------------
(* A status computed beside all that.  A look that finds the phase healthy *)
(* finds the backend servable: the phase and the health flag are copies    *)
(* the manager keeps, and what makes them true of the container and of the *)
(* threads is the invariant, PhaseAt above all.                            *)
LEMMA HealthyIsServable ==
  ASSUME IInv, phase = "healthy"
  PROVE  Servable
<1>1. container # "absent"
  BY DEF IInv, RunningPhaseHasContainer
<1>2. ASSUME NEW t \in Threads PROVE pc[t] \notin StopPcs
  BY DEF IInv, PhaseAt
<1>3. RequireGpu => gpuState \notin Blocking
  BY DEF IInv, CpuBackendNeverHealthy
<1> QED
  BY <1>1, <1>2, <1>3 DEF Servable

(* What a computation knows at each of its steps.                          *)
Readings ==
  [at : {"idle", "named", "confirmed", "phased", "snapped", "ready"},
   loaded : Models \cup {NoLaunch}, model : Models \cup {NoLaunch},
   namedOk : BOOLEAN, phaseOk : BOOLEAN, calm : BOOLEAN]

ReadingOK ==
  /\ reading \in Readings
  /\ reading.namedOk
  /\ reading.at \in {"phased", "snapped", "ready"} =>
       reading.phaseOk /\ (reading.calm => phase = "healthy")
  /\ reading.at \in {"snapped", "ready"} =>
       (reading.calm => launch = reading.model)

LEMMA AdmissionInvariant == AdmissionSpec => [](IInv /\ ReadingOK)
<1>1. AdmissionInit => IInv /\ ReadingOK
  BY InitInductive DEF AdmissionInit, ReadingOK, Readings, Idle
<1>2. ASSUME IInv, ReadingOK, Next, Watch
      PROVE  ReadingOK'
  <2>1. CASE reading.at = "idle"
    BY <1>2, <2>1 DEF ReadingOK, Watch
  <2>2. CASE reading.at # "idle"
    <3> DEFINE still == reading.calm /\ UNCHANGED <<phase, launch>>
    <3>1. reading' = [reading EXCEPT !.calm = still]
      BY <1>2, <2>2 DEF Watch
    <3>2. reading.calm \in BOOLEAN
      BY <1>2 DEF ReadingOK, Readings
    <3>3. still \in BOOLEAN /\ (still => reading.calm /\ phase' = phase /\ launch' = launch)
      BY <3>2
    <3> HIDE DEF still
    <3> QED
      BY <1>2, <3>1, <3>3 DEF ReadingOK, Readings
  <2> QED
    BY <2>1, <2>2
<1>3. ASSUME IInv, ReadingOK, ReadingStep, UNCHANGED vars
      PROVE  ReadingOK'
  <2>1. UNCHANGED <<phase, launch>>
    BY <1>3 DEF vars, state, settings
  <2>2. launch \in Models \cup {NoLaunch}
    BY <1>3 DEF IInv, TypeOK
  <2>3. Idle \in Readings /\ Idle.at = "idle" /\ Idle.namedOk
    BY DEF Idle, Readings
  <2>4. CASE LookAtName
    <3> DEFINE n == IF phase = "healthy" /\ healthOk THEN launch ELSE NoLaunch
               ok == (phase = "healthy" /\ healthOk) => Servable
    <3>1. ok /\ ok \in BOOLEAN
      BY <1>3, HealthyIsServable
    <3>2. n \in Models \cup {NoLaunch}
      BY <2>2
    <3>3. reading' = [Idle EXCEPT !.at = "named", !.loaded = n, !.namedOk = ok]
      BY <2>4 DEF LookAtName
    <3> HIDE DEF n, ok
    <3> QED
      BY <3>1, <3>2, <3>3 DEF ReadingOK, Readings, Idle
  <2>5. CASE ConfirmName
    BY <1>3, <2>5 DEF ConfirmName, ReadingOK, Readings
  <2>6. CASE LookAtPhase
    <3>1. CASE phase = "healthy"
      <4>1. Servable
        BY <1>3, <3>1, HealthyIsServable
      <4>2. reading' = [reading EXCEPT !.at = "phased", !.phaseOk = TRUE]
        BY <2>6, <3>1, <4>1 DEF LookAtPhase
      <4> QED
        BY <1>3, <2>1, <3>1, <4>2 DEF ReadingOK, Readings
    <3>2. CASE phase # "healthy"
      BY <2>3, <2>6, <3>2 DEF LookAtPhase, ReadingOK
    <3> QED
      BY <3>1, <3>2
  <2>7. CASE LookAtSnapshot
    <3>1. CASE reading' = Idle
      BY <2>3, <3>1 DEF ReadingOK
    <3>2. CASE reading' = [reading EXCEPT !.at = "snapped", !.model = launch]
      BY <1>3, <2>1, <2>2, <2>7, <3>2 DEF LookAtSnapshot, ReadingOK, Readings
    <3> QED
      BY <2>7, <3>1, <3>2 DEF LookAtSnapshot
  <2>8. CASE Conclusion
    <3>1. CASE reading' = Idle
      BY <2>3, <3>1 DEF ReadingOK
    <3>2. CASE reading' = [reading EXCEPT !.at = "ready"]
      BY <1>3, <2>1, <2>8, <3>2 DEF Conclusion, ReadingOK, Readings
    <3> QED
      BY <2>8, <3>1, <3>2 DEF Conclusion
  <2>9. CASE Forget
    BY <2>3, <2>9 DEF Forget, ReadingOK
  <2> QED
    BY <1>3, <2>4, <2>5, <2>6, <2>7, <2>8, <2>9 DEF ReadingStep
<1>4. ASSUME IInv, ReadingOK, [AdmissionNext]_<<vars, reading>>
      PROVE  (IInv /\ ReadingOK)'
  <2>1. IInv'
    BY <1>4, InductiveStep DEF AdmissionNext
  <2>2. CASE UNCHANGED <<vars, reading>>
    BY <1>4, <2>1, <2>2 DEF ReadingOK, vars, state, settings
  <2> QED
    BY <1>2, <1>3, <1>4, <2>1, <2>2 DEF AdmissionNext
<1> QED
  BY <1>1, <1>4, PTL DEF AdmissionSpec

(* build_model_status calls a model ready only if the backend was there to *)
(* serve when it looked at the phase; the gate admits a request only if it *)
(* was when it looked at that very model; and both hold still, unless the  *)
(* phase or the launch model has moved since the first look.               *)
THEOREM ReadyIsServable == AdmissionSpec => []ReadyMeansServable
<1>1. IInv /\ ReadingOK => ReadyMeansServable
  BY HealthyIsServable DEF ReadingOK, ReadyMeansServable
<1> QED
  BY <1>1, AdmissionInvariant, PTL

-----------------------------------------------------------------------------
(* What a status report may see of the manager.                            *)
SnapshotPossible ==
  LET snapshot == [phase |-> phase, healthOk |-> healthOk, gpu |-> gpuState]
  IN  snapshot \in Snapshots /\ PossibleSnapshot(snapshot)

(* The manager never shows a phase "unknown".                              *)
PhaseKnown == phase # "unknown"

LEMMA PhaseIsKnown == Spec => []PhaseKnown
<1> USE DEF PhaseKnown
<1>1. Init => PhaseKnown
  BY DEF Init
<1>2. ASSUME PhaseKnown, [Next]_vars
      PROVE  PhaseKnown'
  <2> USE <1>2 DEF state
  <2>1. CASE UNCHANGED vars
    BY <2>1 DEF vars
  <2>2. ASSUME NEW t \in Threads, BeginAutostart(t) \/ Start(t) \/ Stop(t)
               \/ AutostartFire(t)
        PROVE  PhaseKnown'
    BY <2>2 DEF BeginAutostart, Start, Stop, AutostartFire, ClaimStart
  <2>3. ASSUME NEW t \in Threads, StartStep(t)
        PROVE  PhaseKnown'
    BY <2>3 DEF StartStep, Probe, Attach, Remove, Announce, Run, MarkRunning,
       AwaitHealth, EagerLoad, FirstGpuCheck, RetryGpuCheck, CloseGpuWindow,
       Conclude, Fail, Release
  <2>4. ASSUME NEW t \in Threads, StopStep(t)
        PROVE  PhaseKnown'
    BY <2>4 DEF StopStep, StopContainer, StopRemove, StopDone
  <2>5. ASSUME NEW m \in Models, SetLaunchModel(m) \/ EagerLoadReturns(m)
        PROVE  PhaseKnown'
    BY <2>5 DEF SetLaunchModel, EagerLoadReturns
  <2>6. CASE RecordRuntimeFailure \/ ContainerBoots \/ ContainerDies
    BY <2>6 DEF RecordRuntimeFailure, ContainerBoots, ContainerDies
  <2> QED
    BY <2>1, <2>2, <2>3, <2>4, <2>5, <2>6 DEF Next, Worker
<1> QED
  BY <1>1, <1>2, PTL DEF Spec

(* The snapshots that StatusReport starts from are those of a manager that *)
(* requires a GPU: the report is true of the manager as it is modelled     *)
(* here, not of an assumption about it.                                    *)
THEOREM SnapshotsArePossible ==
  ASSUME RequireGpu
  PROVE  Spec => []SnapshotPossible
<1>1. IInv /\ PhaseKnown => SnapshotPossible
  BY DEF IInv, TypeOK, Phases, GpuStates, HealthFlagTracksPhase, CpuBackendNeverHealthy,
         Blocking, PhaseKnown, SnapshotPossible, Snapshots, ShownPhases, PossibleSnapshot
<1> QED
  BY <1>1, Inductive, PhaseIsKnown, PTL

-----------------------------------------------------------------------------
(* The agreement of the report, the gate and the two recovery endpoints,   *)
(* for any names of models.  Every argument goes through what a report of  *)
(* a loaded model says of the gate (LoadedIsReady).                        *)
Worlds ==
  [phase : ShownPhases, healthOk : BOOLEAN, gpu : {"gpu", "failed"},
   gpuRequired : {TRUE}, selected : {NoModel, Launch, Other},
   launch : {NoModel, Launch}, lastLoad : LoadResults, rolledBack : BOOLEAN,
   entry : Entries, recovering : BOOLEAN, inFlight : BOOLEAN,
   chosen : {"unknown", "other", "loaded"}, health : {"none", "ok", "bad"},
   init : {"initializing", "ready", "failed"}, catalog : BOOLEAN,
   visible : BOOLEAN, probed : BOOLEAN, mismatch : BOOLEAN]

Situation(w) ==
  /\ w \in Worlds
  /\ w.phase = "healthy" => w.healthOk /\ w.gpu # "failed"
  /\ w.init = "ready" => w.catalog
  /\ w.rolledBack => w.lastLoad = "failed"

ReportOf(w) ==
  [admission |-> RequestAdmission(w), action |-> OperatorAction(w),
   recovery |-> RecoveryState(w), retryable |-> Retryable(w),
   recoverable |-> Recoverable(w)]

ReportInv == Situation(world) /\ (status = NotYet \/ status = ReportOf(world))

LEMMA WorldsArePossible ==
  ASSUME NEW s \in Snapshots, PossibleSnapshot(s), NEW l \in Selections,
         PossibleSelection(l), NEW i \in Inventories, NEW p \in Startups, PossibleStartup(p)
  PROVE  Situation(World(s, l, i, p))
  BY DEF World, Worlds, Situation, Snapshots, PossibleSnapshot, Selections,
         PossibleSelection, Inventories, Startups, PossibleStartup, Entries

LEMMA ReportInvariant == ReportSpec => []ReportInv
<1>1. ReportInit => ReportInv
  BY WorldsArePossible DEF ReportInit, ReportInv
<1>2. ReportInv /\ [Report]_reportVars => ReportInv'
  BY DEF ReportInv, Report, reportVars, ReportOf
<1> QED
  BY <1>1, <1>2, PTL DEF ReportSpec

-----------------------------------------------------------------------------
(* The gate admits a request for the selection when the manager and the    *)
(* router have it.                                                         *)
LEMMA ReadyIsAdmitted ==
  ASSUME NEW w, Situation(w), SelectedModelReady(w), w.selected # NoModel
  PROVE  Admits(w, w.selected)
<1>1. w.entry = "loaded" /\ w.phase = "healthy" /\ w.healthOk
  BY DEF SelectedModelReady, RouterStatus, Entries, Situation, Worlds
<1>2. w.selected = w.launch
  BY DEF SelectedModelReady, LaunchMatchesSelected
<1> QED
  BY <1>1, <1>2 DEF Admits, RequestMatchesActive, LoadedModel

(* A status calls a model loaded without the gate having it when another   *)
(* model is loaded; then the selection itself is loaded or nothing is      *)
(* known of it.                                                            *)
LEMMA LoadedIsReady ==
  ASSUME NEW w, Situation(w), ModelState(w) = "loaded", w.selected # NoModel,
         ~ SelectedModelReady(w)
  PROVE  /\ w.phase = "healthy" /\ w.healthOk /\ ~ GpuBlocking(w)
         /\ w.launch # NoModel /\ LoadedModel(w) = w.launch
         /\ w.launch # w.selected
         /\ w.chosen \in {"loaded", "unknown"}
<1>1. BackendReady(w) /\ LoadedModel(w) # NoModel
  BY DEF ModelState
<1>2. /\ w.phase = "healthy" /\ w.healthOk /\ w.entry = "loaded"
      /\ w.launch # NoModel /\ LoadedModel(w) = w.launch
  BY <1>1 DEF LoadedModel
<1>3. w.chosen \in {"loaded", "unknown"}
  BY <1>1 DEF BackendReady, SummaryReady
<1>4. RouterStatus(w) = "loaded"
  BY <1>2 DEF RouterStatus
<1>5. ~ GpuBlocking(w)
  BY <1>2 DEF GpuBlocking, Situation, Worlds
<1>6. w.launch # w.selected
  BY <1>2, <1>4, <1>5 DEF SelectedModelReady, LaunchMatchesSelected
<1> QED
  BY <1>2, <1>3, <1>5, <1>6

(* The switch of a healthy backend leads to the gate or to a wait before   *)
(* it, unless the model it switches to has crashed.                        *)
LEMMA SwitchIsAwaited ==
  ASSUME NEW v, v.phase = "healthy", v.healthOk, ~ GpuBlocking(v),
         v.selected # NoModel, v.launch = v.selected, v.lastLoad # "failed",
         v.entry \in {"absent", "unloaded", "loading", "loaded"}
  PROVE  Admits(v, v.selected) \/ TransitionalWait(v, v.selected)
<1>1. LaunchMatchesSelected(v)
  BY DEF LaunchMatchesSelected
<1>2. CASE v.entry = "loaded"
  <2>1. RouterStatus(v) = "loaded" /\ LoadedModel(v) = v.selected
    BY <1>2 DEF RouterStatus, LoadedModel
  <2> QED
    BY <1>1, <2>1 DEF Admits, SelectedModelReady, RequestMatchesActive
<1>3. CASE v.entry # "loaded"
  <2>1. RouterStatus(v) \in {"loading", "recovering", "unloaded"}
    BY <1>3 DEF RouterStatus
  <2>2. AdmissionState(v) = "loading"
    BY <1>1, <2>1 DEF AdmissionState, SelectedModelReady
  <2> QED
    BY <2>2 DEF TransitionalWait
<1> QED
  BY <1>2, <1>3

LEMMA LoadedIsServed ==
  ASSUME Situation(world), ModelState(world) = "loaded", world.selected # NoModel,
         ProxyReady(world), world.catalog, world.visible
  PROVE  GateAdmits \/ SwitchedFirst
<1>1. CASE SelectedModelReady(world)
  BY <1>1, ReadyIsAdmitted DEF GateAdmits
<1>2. CASE ~ SelectedModelReady(world)
  <2>1. WrongModelLoaded
    BY <1>2, LoadedIsReady DEF WrongModelLoaded
  <2>2. ASSUME NEW v \in AfterSwitch
        PROVE  Admits(v, v.selected) \/ TransitionalWait(v, v.selected)
    <3>1. world.chosen \in {"loaded", "unknown"}
      BY <1>2, LoadedIsReady
    <3>2. LoadAfterSwitch # "failed"
      BY DEF LoadAfterSwitch
    <3>3. PICK e \in EntriesAfterSwitch :
            v = [world EXCEPT !.launch = world.selected, !.entry = e,
                              !.rolledBack = FALSE, !.lastLoad = LoadAfterSwitch]
      BY DEF AfterSwitch
    <3>4. e \in {"absent", "unloaded", "loading", "loaded"}
      BY <3>1 DEF EntriesAfterSwitch
    <3>5. /\ v.phase = world.phase /\ v.healthOk = world.healthOk
          /\ v.selected = world.selected /\ v.launch = world.selected
          /\ v.entry = e /\ v.lastLoad = LoadAfterSwitch
          /\ v.gpu = world.gpu /\ v.gpuRequired = world.gpuRequired
      BY <3>3 DEF Situation, Worlds
    <3>6. world.phase = "healthy" /\ world.healthOk /\ ~ GpuBlocking(world)
      BY <1>2, LoadedIsReady
    <3>7. ~ GpuBlocking(v)
      BY <3>5, <3>6 DEF GpuBlocking
    <3> QED
      BY <3>2, <3>4, <3>5, <3>6, <3>7, SwitchIsAwaited
  <2> QED
    BY <2>1, <2>2 DEF SwitchedFirst
<1> QED
  BY <1>1, <1>2

(* The states of a proxy that is up and does not wait for its catalog.     *)
LEMMA UpAndRunning ==
  ASSUME NEW w, Situation(w), ~ Waiting(w), ProxyState(w) # "failed"
  PROVE  /\ ProxyReady(w) /\ w.catalog
         /\ ProxyState(w) = "ready" /\ CatalogState(w) = "ready"
  BY DEF Situation, Waiting, ProxyState, CatalogState, ProxyReady

LEMMA ReadyProxy ==
  ASSUME NEW w, Situation(w), ProxyReady(w)
  PROVE  w.catalog /\ ~ Waiting(w) /\ ProxyState(w) # "failed"
  BY DEF Situation, Waiting, ProxyState, CatalogState, ProxyReady

LEMMA ModelStates ==
  ASSUME NEW w
  PROVE  ModelState(w) \in {"loaded", "loading", "failed", "mismatch", "none",
                            "unknown", "unloaded"}
  BY DEF ModelState

LEMMA BackendStates ==
  ASSUME NEW w
  PROVE  BackendState(w) \in {"unreachable", "unhealthy", "healthy"}
  BY DEF BackendState

-----------------------------------------------------------------------------
(* A service reported as accepting does accept: whatever the situation,    *)
(* the gate of POST /v1/responses admits a request for the selection, or   *)
(* has the wrong model switched and holds the request meanwhile.           *)
THEOREM AcceptanceIsTrue == ReportSpec => []AcceptedIsServed
<1>1. ReportInv => AcceptedIsServed
  <2> SUFFICES ASSUME ReportInv, Made, world.selected # NoModel,
                      status.admission = "accepted"
               PROVE  GateAdmits \/ SwitchedFirst
    BY DEF AcceptedIsServed
  <2>1. Situation(world) /\ RequestAdmission(world) = "accepted"
    BY DEF ReportInv, Made, ReportOf
  <2>2. /\ ProxyState(world) = "ready" /\ CatalogState(world) = "ready"
        /\ world.visible /\ ModelState(world) = "loaded"
    BY <2>1 DEF RequestAdmission, Situation, Worlds
  <2>3. ProxyReady(world) /\ world.catalog
    BY <2>1, <2>2, ReadyProxy DEF ProxyState
  <2> QED
    BY <2>1, <2>2, <2>3, LoadedIsServed
<1> QED
  BY <1>1, ReportInvariant, PTL

-----------------------------------------------------------------------------
(* What a status advises is allowed by the state it was given in.          *)
LEMMA AdviceIsAllowed ==
  ASSUME NEW w, Situation(w), NEW r, r.action = OperatorAction(w),
         r.action \in Actions
  PROVE  StateAllows(w, r) /\ r.action \notin {"clear_failure", "reload_selected_model"}
<1>1. ~ Waiting(w) /\ ProxyState(w) # "failed"
  BY DEF OperatorAction, Actions
<1>2. ProxyReady(w) /\ CatalogState(w) = "ready"
  BY <1>1, UpAndRunning
<1>3. \/ r.action = "start_backend" /\ BackendState(w) = "unreachable"
      \/ r.action = "restart_backend" /\ BackendState(w) = "unhealthy"
      \/ r.action = "restart_backend" /\ ModelState(w) \in {"failed", "mismatch"}
      \/ r.action = "select_model"
      \/ r.action = "refresh_catalog"
  BY <1>1 DEF OperatorAction, Actions
<1>4. CASE r.action = "start_backend" /\ BackendState(w) = "unreachable"
  BY <1>4 DEF StateAllows
<1>5. CASE r.action = "restart_backend"
  BY <1>3, <1>5 DEF StateAllows
<1>6. CASE r.action = "select_model"
  BY <1>2, <1>6 DEF StateAllows
<1>7. CASE r.action = "refresh_catalog"
  BY <1>2, <1>7 DEF StateAllows
<1> QED
  BY <1>3, <1>4, <1>5, <1>6, <1>7

LEMMA AdvicePlanned ==
  ASSUME Situation(world), OperatorAction(world) \in Actions
  PROVE  Plan(Asks(OperatorAction(world), FALSE), Operator, Quiet)
<1> DEFINE a == OperatorAction(world)
           r == Asks(a, FALSE)
           c == [Quiet EXCEPT !.authority = Operator.authority, !.local = r.local]
<1>1. r.action = a /\ r.model = TRUE /\ r.force = FALSE
  BY DEF Asks
<1>2. /\ c.authority = TRUE /\ c.local = TRUE /\ c.active = 0
      /\ c.backoff = FALSE /\ c.inProgress = FALSE
  BY DEF Quiet, Operator, Asks
<1>3. StateAllows(world, r)
  BY <1>1, AdviceIsAllowed
<1>4. Plan(r, Operator, Quiet) = Feasible(world, r, c)
  BY DEF Plan
<1> HIDE DEF r, c
<1>5. Feasible(world, r, c)
  BY <1>1, <1>2, <1>3 DEF Feasible
<1> QED
  BY <1>4, <1>5 DEF r

(* The planner judges the trigger's question as the operator's, which      *)
(* differs in the model alone.                                             *)
LEMMA PlannedIsTriggered ==
  ASSUME NEW a \in Actions \ {"select_model"}, NEW force \in BOOLEAN,
         NEW c \in Times, WellFormed(Asks(a, force)),
         ~ c.inProgress, ~ c.backoff, Plan(Asks(a, force), Operator, c)
  PROVE  Trigger(Asks(a, force), Operator, c)
<1> DEFINE r == Asks(a, force)
           q == [r EXCEPT !.model = FALSE]
           d == [c EXCEPT !.authority = TRUE, !.local = TRUE]
           e == [c EXCEPT !.authority = Operator.authority, !.local = r.local]
<1>1. /\ r.action = a /\ r.force = force /\ r.local = TRUE
      /\ r.confirm = "right" /\ r.async = FALSE
  BY DEF Asks
<1>2. q.action = a /\ q.force = force
  BY DEF Asks
<1>3. d = e
  BY <1>1 DEF Operator
<1>4. Feasible(world, r, d)
  BY <1>3 DEF Plan
<1>5. MayAct(r, Operator) /\ Confirmed(r, Operator)
  BY <1>1 DEF MayAct, Confirmed, Operator
<1>6. StateAllows(world, q) <=> StateAllows(world, r)
  BY <1>1, <1>2 DEF StateAllows
<1> HIDE DEF r, q, d, e
<1>7. Feasible(world, q, d)
  BY <1>1, <1>2, <1>4, <1>6 DEF Feasible
<1> USE DEF r, q, d
<1> QED
  BY <1>1, <1>5, <1>7 DEF Trigger

(* An operator who follows the advice of a status is not refused for the   *)
(* state it was given in, and the planner and the trigger agree.           *)
THEOREM AdviceCanBeFollowed == ReportSpec => []AdvisedActionFeasible
<1>1. ReportInv => AdvisedActionFeasible
  <2> SUFFICES ASSUME ReportInv, Made PROVE AdvisedActionFeasible
    BY DEF AdvisedActionFeasible
  <2>1. Situation(world) /\ status.action = OperatorAction(world)
    BY DEF ReportInv, Made, ReportOf
  <2>2. ASSUME status.action \in Actions
        PROVE  /\ Plan(Asks(status.action, FALSE), Operator, Quiet)
               /\ status.action # "select_model" =>
                    Trigger(Asks(status.action, FALSE), Operator, Quiet)
    <3>1. Plan(Asks(status.action, FALSE), Operator, Quiet)
      BY <2>1, <2>2, AdvicePlanned
    <3>2. Quiet \in Times /\ ~ Quiet.inProgress /\ ~ Quiet.backoff
      BY DEF Quiet, Times
    <3>3. status.action # "select_model" => WellFormed(Asks(status.action, FALSE))
      BY DEF WellFormed, Asks
    <3> QED
      BY <2>2, <3>1, <3>2, <3>3, PlannedIsTriggered
  <2>3. ASSUME NEW a \in Actions \ {"select_model", "refresh_catalog"},
               NEW force \in BOOLEAN, NEW c \in Times,
               WellFormed(Asks(a, force)), Plan(Asks(a, force), Operator, c),
               a = "clear_failure" => ~ c.backoff
        PROVE  Trigger(Asks(a, force), Operator, c)
    <3>1. ~ c.inProgress /\ ~ c.backoff
      BY <2>3 DEF Plan, Feasible, Asks, Operator, Times
    <3> QED
      BY <2>3, <3>1, PlannedIsTriggered
  <2> QED
    BY <2>2, <2>3 DEF AdvisedActionFeasible
<1> QED
  BY <1>1, ReportInvariant, PTL

-----------------------------------------------------------------------------
(* A status with nothing to do and nothing to wait for is that of a        *)
(* service that serves, and a ready proxy that refuses at once advises     *)
(* something.                                                              *)
THEOREM SilenceIsService == ReportSpec => []SilenceMeansService
<1>1. ReportInv => SilenceMeansService
  <2> SUFFICES ASSUME ReportInv, Made PROVE SilenceMeansService
    BY DEF SilenceMeansService
  <2>1. /\ Situation(world) /\ status.action = OperatorAction(world)
        /\ status.recovery = RecoveryState(world)
        /\ status.admission = RequestAdmission(world)
        /\ status.retryable = Retryable(world)
        /\ status.recoverable = Recoverable(world)
    BY DEF ReportInv, Made, ReportOf
  <2>2. ASSUME status.action = "", status.recovery = "none", world.visible
        PROVE  status.admission = "accepted" /\ ~ status.recoverable /\ ~ status.retryable
    <3>1. ~ Waiting(world) /\ ProxyState(world) # "failed"
      BY <2>1, <2>2 DEF OperatorAction
    <3>2. /\ ProxyReady(world) /\ ProxyState(world) = "ready"
          /\ CatalogState(world) = "ready"
      BY <2>1, <3>1, UpAndRunning
    <3>3. BackendState(world) = "healthy"
      BY <2>1, <2>2, <3>1, BackendStates DEF OperatorAction
    <3>4. ModelState(world) = "loaded"
      BY <2>1, <2>2, <3>1, <3>3, ModelStates DEF OperatorAction, RecoveryState
    <3>5. RequestAdmission(world) = "accepted"
      BY <2>2, <3>2, <3>3, <3>4 DEF RequestAdmission
    <3>6. ~ Recoverable(world) /\ ~ Retryable(world)
      BY <3>1, <3>2, <3>3, <3>4 DEF Recoverable, Retryable
    <3> QED
      BY <2>1, <3>5, <3>6
  <2>3. ASSUME ProxyReady(world), world.visible, world.selected # NoModel,
               ~ GateAdmits, ~ TransitionalWait(world, world.selected),
               ~ SwitchedFirst
        PROVE  status.action \in Actions
    <3>1. world.catalog /\ ~ Waiting(world) /\ ProxyState(world) # "failed"
      BY <2>1, <2>3, ReadyProxy
    <3>2. ModelState(world) # "loaded"
      BY <2>1, <2>3, <3>1, LoadedIsServed
    <3>3. ModelState(world) # "loading"
      BY <2>3 DEF ModelState, TransitionalWait
    <3> QED
      BY <2>1, <3>1, <3>2, <3>3, ModelStates, BackendStates DEF OperatorAction, Actions
  <2> QED
    BY <2>2, <2>3 DEF SilenceMeansService
<1> QED
  BY <1>1, ReportInvariant, PTL
=============================================================================
