---------------------------- MODULE StatusReport ----------------------------
(***************************************************************************)
(* One GET /qz/control-plane over every situation the proxy can be in,     *)
(* beside what the gate of POST /v1/responses and the two recovery         *)
(* endpoints decide in the same situation.  The situation stands still     *)
(* while the report is made; what a status is worth when the backend moves *)
(* between the looks it takes is the subject of BackendAdmission.          *)
(***************************************************************************)
EXTENDS ServiceStatus

CONSTANTS
  Launch,   (* the model the backend was told to launch *)
  Other     (* some other model of the catalog          *)

ASSUME ReportAssumption == Launch # Other /\ NoModel \notin {Launch, Other}

VARIABLES
  world,    (* what the probes of one report see        *)
  status    (* the report, once it is made              *)

reportVars == <<world, status>>

-----------------------------------------------------------------------------
ShownPhases == {"disabled", "idle", "start_requested", "starting", "running",
                "healthy", "failed", "stopping", "stopped"}

Snapshots ==
  [phase : ShownPhases, healthOk : BOOLEAN,
   gpu : {"unknown", "gpu", "cpu_fallback", "failed"}]

(* What the manager leaves of its snapshots when a GPU is required: see    *)
(* SnapshotsArePossible.                                                   *)
PossibleSnapshot(s) ==
  /\ s.phase = "healthy" => s.healthOk /\ s.gpu \notin {"cpu_fallback", "failed"}
  /\ s.healthOk => s.phase \in {"healthy", "stopping"}

Selections ==
  [selected : {NoModel, Launch, Other}, launch : {NoModel, Launch},
   lastLoad : LoadResults, rolledBack : BOOLEAN]

PossibleSelection(s) == s.rolledBack => s.lastLoad = "failed"

Inventories ==
  [entry : Entries, recovering : BOOLEAN, inFlight : BOOLEAN,
   health : {"none", "ok", "bad"}, chosen : {"unknown", "other", "loaded"}]

Startups == [init : {"initializing", "ready", "failed"}, catalog : BOOLEAN,
             visible : BOOLEAN, probed : BOOLEAN, mismatch : BOOLEAN]

(* _initialize_proxy_state stores the catalog before it reports "ready".   *)
PossibleStartup(p) ==
  /\ p.init = "ready" => p.catalog
  /\ p.visible => p.catalog
  /\ p.mismatch => p.probed

(* Of the GPU check a status asks only whether it blocks (GpuBlocking); the *)
(* status of the health request is part of the summary.  Without a launch   *)
(* model there is no entry of it.                                          *)
World(s, l, i, p) ==
  [phase |-> s.phase, healthOk |-> s.healthOk,
   gpu |-> IF s.gpu \in {"cpu_fallback", "failed"} THEN "failed" ELSE "gpu",
   gpuRequired |-> TRUE, selected |-> l.selected, launch |-> l.launch,
   lastLoad |-> l.lastLoad, rolledBack |-> l.rolledBack,
   entry |-> IF l.launch = NoModel THEN "absent" ELSE i.entry,
   recovering |-> i.recovering, inFlight |-> i.inFlight, chosen |-> i.chosen,
   health |-> IF p.probed THEN i.health ELSE "none",
   init |-> p.init, catalog |-> p.catalog, visible |-> p.visible,
   probed |-> p.probed, mismatch |-> p.mismatch]

NotYet == [admission |-> "none", action |-> "none", recovery |-> "none",
           retryable |-> FALSE, recoverable |-> FALSE]

ReportInit ==
  /\ \E s \in {x \in Snapshots : PossibleSnapshot(x)},
        l \in {x \in Selections : PossibleSelection(x)},
        i \in Inventories,
        p \in {x \in Startups : PossibleStartup(x)} : world = World(s, l, i, p)
  /\ status = NotYet

Report ==
  /\ status = NotYet
  /\ status' = [admission |-> RequestAdmission(world),
                action |-> OperatorAction(world),
                recovery |-> RecoveryState(world),
                retryable |-> Retryable(world),
                recoverable |-> Recoverable(world)]
  /\ UNCHANGED world

ReportSpec == ReportInit /\ [][Report]_reportVars

-----------------------------------------------------------------------------
Made == status # NotYet

(* The gate, for a request that asks for the selected model.               *)
GateAdmits ==
  ProxyReady(world) /\ world.catalog /\ world.visible /\ Admits(world, world.selected)

WrongModelLoaded == LoadedModel(world) \notin {NoModel, world.selected}

(* What such a request finds when another model is loaded: it has the      *)
(* model switched (_auto_trigger_model_switch_nonblocking), which tells    *)
(* the manager what to launch and forgets a failed load, while a thread    *)
(* unloads what is loaded and then loads the model.                        *)
EntriesAfterSwitch ==
  {"unloaded", "loading"} \cup
    (CASE world.chosen = "loaded" -> {"loaded"}
       [] world.chosen = "other" -> {"crashed"}
       [] OTHER -> {"absent", "loaded"})

LoadAfterSwitch == IF world.lastLoad = "failed" THEN "none" ELSE world.lastLoad

AfterSwitch ==
  {[world EXCEPT !.launch = world.selected, !.entry = e, !.rolledBack = FALSE,
                 !.lastLoad = LoadAfterSwitch] : e \in EntriesAfterSwitch}

(* It is held open until the switch is over.                               *)
SwitchedFirst ==
  /\ ProxyReady(world) /\ world.catalog /\ world.visible /\ WrongModelLoaded
  /\ \A v \in AfterSwitch :
       Admits(v, v.selected) \/ TransitionalWait(v, v.selected)

-----------------------------------------------------------------------------
(* The two recovery endpoints, asked in the situation of the report.  A    *)
(* request r has an action, names a model or not (model), is forced or     *)
(* not, comes from the machine itself or not (local), gives the right      *)
(* phrase, a wrong one or none (confirm), and is asynchronous or not.  Its *)
(* circumstances c are those of Feasible.  The settings e: authority       *)
(* (QZ_RECOVERY_ACTIONS), localOnly, and whether a phrase is set.          *)
Safe == {"refresh_catalog", "clear_failure"}

Asynchronous == {"reload_selected_model"}

Confirmed(r, e) ==
  \/ r.action \in Safe
  \/ e.phrase /\ r.confirm = "right"

WellFormed(r) ==
  /\ r.action = "select_model" => r.model
  /\ r.action \in Safe => ~r.force

MayAct(r, e) == e.authority /\ (e.localOnly => r.local)

(* POST /qz/recovery/plan: what it calls feasible.                         *)
Plan(r, e, c) ==
  Feasible(world, r, [c EXCEPT !.authority = e.authority, !.local = r.local])

(* POST /qz/recovery/trigger, up to the planner, which it asks for the     *)
(* actions that are not safe, and does not tell the model.                 *)
Trigger(r, e, c) ==
  /\ MayAct(r, e) /\ WellFormed(r)
  /\ r.async => r.action \in Asynchronous
  /\ Confirmed(r, e)
  /\ ~c.inProgress /\ ~c.backoff
  /\ r.action \notin Safe =>
       Feasible(world, [r EXCEPT !.model = FALSE], [c EXCEPT !.authority = TRUE, !.local = TRUE])

-----------------------------------------------------------------------------
(* A local operator with authority, nobody else about.                     *)
Quiet == [authority |-> TRUE, local |-> TRUE, active |-> 0,
          backoff |-> FALSE, inProgress |-> FALSE]

Operator == [authority |-> TRUE, localOnly |-> TRUE, phrase |-> TRUE]

Asks(action, force) == [action |-> action, model |-> TRUE, force |-> force,
                        local |-> TRUE, confirm |-> "right", async |-> FALSE]

Times == [authority : {TRUE}, local : {TRUE}, active : {0, 1}, backoff : BOOLEAN,
          inProgress : BOOLEAN]

(* A service reported as accepting does accept: the handler of POST        *)
(* /v1/responses, which looks at the manager and the inventory and never   *)
(* at the status, admits a request for the selected model or, when another *)
(* model is loaded, switches to it and holds the request meanwhile.        *)
AcceptedIsServed ==
  Made /\ world.selected # NoModel /\ status.admission = "accepted" =>
    GateAdmits \/ SwitchedFirst

(* The action the status advises is one the planner allows, and unless it  *)
(* is select_model, which it never allows the trigger, one the trigger     *)
(* carries out: an operator who follows the advice is not refused for the  *)
(* state it was given in.  And whenever the plan of an action other than   *)
(* select_model and the refresh, which it does not keep back while another *)
(* recovery runs, is feasible, the trigger carries it out.                 *)
AdvisedActionFeasible ==
  /\ Made /\ status.action \in Actions =>
       /\ Plan(Asks(status.action, FALSE), Operator, Quiet)
       /\ status.action # "select_model" =>
            Trigger(Asks(status.action, FALSE), Operator, Quiet)
  /\ Made =>
       \A a \in Actions \ {"select_model", "refresh_catalog"}, force \in BOOLEAN,
          c \in Times :
         WellFormed(Asks(a, force)) /\ Plan(Asks(a, force), Operator, c)
           /\ (a = "clear_failure" => ~c.backoff)
         => Trigger(Asks(a, force), Operator, c)

(* The status is neither silent without reason nor without remedy.  A      *)
(* status with nothing to do and nothing to wait for is that of a service  *)
(* that serves, unless there is no model at all to serve; and a ready      *)
(* proxy that refuses a request for the selected model at once, instead of *)
(* holding it until a load or a switch is over, has an action to advise.   *)
SilenceMeansService ==
  /\ Made /\ status.action = "" /\ status.recovery = "none" /\ world.visible =>
       status.admission = "accepted" /\ ~status.recoverable /\ ~status.retryable
  /\ (/\ Made /\ ProxyReady(world) /\ world.visible /\ world.selected # NoModel
      /\ ~GateAdmits /\ ~TransitionalWait(world, world.selected) /\ ~SwitchedFirst)
     => status.action \in Actions

-----------------------------------------------------------------------------
(* What TLC refutes.                                                       *)

(* request_admission is what /v1/responses would decide: the summary never *)
(* compares the selection with the model that was launched, so a status    *)
(* accepts for the selection when another model is loaded.                 *)
AcceptedIsAdmitted ==
  Made /\ world.selected # NoModel /\ status.admission = "accepted" => GateAdmits

(* select_model is among IMPLEMENTED_TRIGGER_ACTIONS, but the planner the  *)
(* trigger asks is never told the model.                                   *)
SelectionTriggered ==
  Made /\ Plan(Asks("select_model", FALSE), Operator, Quiet) =>
    Trigger(Asks("select_model", FALSE), Operator, Quiet)
=============================================================================
