----------------------------- MODULE ModelSwitch -----------------------------
(***************************************************************************)
(* How the model in the backend is changed (proxy/qz_request_router.py):   *)
(* POST /qz/model/select, select-and-restart and reload, the recovery      *)
(* actions that reload, and the switch that a POST /v1/responses for       *)
(* another model triggers, with the persisted state they share             *)
(* (proxy/qz_model_state.py) and the llama.cpp router they call.           *)
(*                                                                         *)
(* Each request has a thread.  A worker here is one such thread and the    *)
(* daemon thread it leaves behind to do the loading, except for the loader *)
(* of a triggered switch, which runs beside its request.  A read of the    *)
(* state file, a write of it and every HTTP call are actions of their own: *)
(* no lock spans two of them but the request gate.                         *)
(*                                                                         *)
(* The phase "stopped" stands for every phase from which a start is made,  *)
(* "starting" for those in between (BackendManager has them all).  A       *)
(* timeout is a step that may be taken at any time.  The failed candidate, *)
(* which is only displayed, is left out.                                   *)
(***************************************************************************)
EXTENDS Naturals, FiniteSets

CONSTANTS
  Workers,  (* request threads                                              *)
  Models,   (* the GGUF files                                               *)
  NoModel,  (* no model                                                     *)
  Rounds,   (* rounds of unloading and polling a reload makes               *)
  Asked,    (* the kinds of requests that arrive                            *)
  MaxOps    (* bound: requests received in a behaviour                      *)

(* select, select-and-restart and reload; the recovery actions             *)
(* reload_selected_model and restart_backend; /v1/responses; a status GET. *)
Kinds == {"select", "restart", "reload", "recover", "relaunch", "request",
          "status"}

ASSUME SwitchAssumption ==
  /\ Asked \subseteq Kinds
  /\ NoModel \notin Models
  /\ NoModel \notin Workers
  /\ Rounds \in Nat \ {0}
  /\ MaxOps \in Nat

VARIABLES
  file,     (* var/model-state.json                                         *)
  launch,   (* the manager's launch model                                   *)
  phase,    (* the manager's phase                                          *)
  router,   (* status of each model in the llama.cpp router                 *)
  dying,    (* models the router has begun to unload                        *)
  eager,    (* launch model the manager's own load thread is about to post  *)
  recent,   (* load_model_http() was accepted within the last 120 s         *)
  gate,     (* the worker that holds request_gate, or NoModel               *)
  pc,       (* where each worker is                                         *)
  my,       (* its locals                                                   *)
  loader,   (* the loader thread of the switch it triggered                 *)
  outside,  (* history: since the container started, a thread without the   *)
            (* gate has posted a load beside a model or a reload, or a      *)
            (* reload has overlooked a model in an inventory it did not get *)
  ops       (* requests received so far                                     *)

backend == <<phase, router, dying, eager, outside>>
vars    == <<file, launch, backend, recent, gate, pc, my, loader, ops>>

Status == INSTANCE ModelStatus

-----------------------------------------------------------------------------
(* The state file.                                                         *)

States == [selected : Models \cup {NoModel}, rolledBack : BOOLEAN,
           lastLoad : Status!LoadResults, lastGood : Models \cup {NoModel}]

NoState == [selected |-> NoModel, rolledBack |-> FALSE,
            lastLoad |-> "none", lastGood |-> NoModel]

(* state_from_selection, with the observations of f kept; what the reason  *)
(* says of a rollback is replaced.                                         *)
Selection(f, m) == [f EXCEPT !.selected = m, !.rolledBack = FALSE]

(* _persist_model_state: the reason outlives a choice of the same model.   *)
Persisted(f, m) == [f EXCEPT !.selected = m,
                             !.rolledBack = @ /\ f.selected = m]

LoadSuccess(f) == [f EXCEPT !.lastLoad = "loaded", !.lastGood = f.selected]

(* Slip: the rollback does not ask whether there is a last good model.     *)
LoadFailureBlind(f, rollback) ==
  IF rollback
    THEN [f EXCEPT !.lastLoad = "failed", !.selected = f.lastGood,
                   !.rolledBack = TRUE]
    ELSE [f EXCEPT !.lastLoad = "failed"]

LoadFailure(f, rollback) ==
  IF rollback /\ f.lastGood # NoModel
    THEN [f EXCEPT !.lastLoad = "failed", !.selected = f.lastGood,
                   !.rolledBack = TRUE]
    ELSE [f EXCEPT !.lastLoad = "failed"]

-----------------------------------------------------------------------------
(* The router.  "crashed" is unloaded, with the exit code of a failed load.*)

RouterStates == {"unloaded", "loading", "loaded", "crashed"}

Active == {m \in Models : router[m] \in {"loading", "loaded"}}

Loaded == {m \in Models : router[m] = "loaded"}

(* What a reader of the inventory can see of the set s: a GET that fails   *)
(* reads as an empty inventory.                                            *)
Seen(s) == {s, {}}

(* POST /models/load.  It is refused when the model is there already.      *)
Post(m, ok) ==
  \/ /\ ok
     /\ phase # "stopped" /\ m \notin Active
     /\ router' = [router EXCEPT ![m] = "loading"]
     /\ recent' = TRUE
  \/ /\ ~ok
     /\ router' \in {router} \cup   \* accepted, but the answer was lost
          (IF phase # "stopped" /\ m \notin Active
             THEN {[router EXCEPT ![m] = "loading"]} ELSE {})
     /\ UNCHANGED recent

(* POST /models/unload: answered before the model is gone, sometimes       *)
(* without effect, sometimes with an effect and no answer.                 *)
Unload(m) == dying' \in {dying, dying \cup ({m} \cap Active)}

LoadEnds(m) ==
  /\ router[m] = "loading"
  /\ \E s \in {"loaded", "crashed"} : router' = [router EXCEPT ![m] = s]
  /\ dying' = IF router'[m] = "crashed" THEN dying \ {m} ELSE dying
  /\ UNCHANGED <<file, launch, phase, eager, outside, recent, gate, pc, my,
                 loader, ops>>

UnloadEnds(m) ==
  /\ m \in dying
  /\ router' = [router EXCEPT ![m] = "unloaded"]
  /\ dying' = dying \ {m}
  /\ UNCHANGED <<file, launch, phase, eager, outside, recent, gate, pc, my,
                 loader, ops>>

-----------------------------------------------------------------------------
(* The locals of a worker.                                                 *)

Work == [kind : Kinds \cup {"none"}, model : Models \cup {NoModel},
         rollback : BOOLEAN, seen : States, ok : BOOLEAN,
         target : Models \cup {NoModel}, victims : SUBSET Models,
         todo : SUBSET Models, left : 0..Rounds, blind : BOOLEAN]

NoWork == [kind |-> "none", model |-> NoModel, rollback |-> FALSE,
           seen |-> NoState, ok |-> FALSE, target |-> NoModel, victims |-> {},
           todo |-> {}, left |-> 0, blind |-> FALSE]

Loaders == [pc : {"none", "unload", "load", "check"},
            todo : SUBSET Models, target : Models \cup {NoModel}]

NoLoader == [pc |-> "none", todo |-> {}, target |-> NoModel]

(* Inside the request gate: a reload that changes what is loaded, ...      *)
SwapPcs == {"enter", "check", "survey", "unload", "poll", "load", "recheck"}

(* ... and a request.                                                      *)
RequestPcs == {"assess", "trigger", "spawn", "read", "write", "decide", "hold",
               "serve"}

Pcs == {"idle", "read", "write", "launch", "queue", "wait", "record", "judge",
        "settle", "repost", "peek", "reconcile", "note_read", "note"}
         \cup SwapPcs \cup RequestPcs

Goto(w, label) == pc' = [pc EXCEPT ![w] = label]

Finish(w) == Goto(w, "idle") /\ my' = [my EXCEPT ![w] = NoWork]

(* The state file of the run before: none, or one left by a success or by  *)
(* a failure that was rolled back; the backend is down, or up with the     *)
(* selection loaded.                                                       *)
Init ==
  /\ file \in {NoState} \cup
       {[selected |-> m, rolledBack |-> l = "failed", lastLoad |-> l,
         lastGood |-> m] : m \in Models, l \in {"loaded", "failed"}}
  /\ \/ /\ phase = "stopped" /\ launch = NoModel
        /\ router = [m \in Models |-> "unloaded"]
     \/ /\ phase = "healthy" /\ launch = file.selected /\ launch # NoModel
        /\ router = [m \in Models |-> IF m = launch THEN "loaded" ELSE "unloaded"]
  /\ dying = {}
  /\ eager = {}
  /\ recent = FALSE
  /\ gate = NoModel
  /\ pc = [w \in Workers |-> "idle"]
  /\ my = [w \in Workers |-> NoWork]
  /\ loader = [w \in Workers |-> NoLoader]
  /\ outside = FALSE
  /\ ops = 0

-----------------------------------------------------------------------------
(* The manager: start() may be refused, a container comes up with nothing  *)
(* loaded and posts the launch model from a thread of its own, and it may  *)
(* be stopped or fail at any time.                                         *)

Start ==
  /\ phase = "stopped"
  /\ phase' \in {"stopped", "starting"}
  /\ UNCHANGED <<router, dying, eager, outside>>

ComesUp ==
  /\ phase = "starting"
  /\ phase' = "healthy"
  /\ eager' = IF launch = NoModel THEN eager ELSE eager \cup {launch}
  /\ UNCHANGED <<file, launch, router, dying, outside, recent, gate, pc, my,
                 loader, ops>>

GoesDown ==
  /\ phase # "stopped"
  /\ phase' = "stopped"
  /\ router' = [m \in Models |-> "unloaded"]
  /\ dying' = {}
  /\ outside' = FALSE
  /\ UNCHANGED <<file, launch, eager, recent, gate, pc, my, loader, ops>>

(* A load posted by a thread that does not hold the gate.                  *)
PostOutside(m, ok) ==
  /\ Post(m, ok)
  /\ outside' = \/ outside
                \/ /\ router' # router
                   /\ Active # {} \/ \E w \in Workers : pc[w] \in SwapPcs
  /\ UNCHANGED <<phase, dying>>

EagerPost ==
  /\ \E m \in eager, ok \in BOOLEAN :
       PostOutside(m, ok) /\ eager' = eager \ {m}
  /\ UNCHANGED <<file, launch, gate, pc, my, loader, ops>>

RecentExpires ==
  /\ recent
  /\ recent' = FALSE
  /\ UNCHANGED <<file, launch, backend, gate, pc, my, loader, ops>>

-----------------------------------------------------------------------------
(* Requests arrive.  A worker whose loader is still at work stands for a   *)
(* thread that has not ended.                                              *)

FirstPc(kind) ==
  IF kind \in {"select", "restart"} THEN "read"
  ELSE IF kind = "request" THEN "queue"
  ELSE IF kind = "status" THEN "peek" ELSE "launch"

(* The reloads that name no model take the persisted one.                  *)
Receive(w) ==
  /\ pc[w] = "idle" /\ loader[w] = NoLoader
  /\ ops < MaxOps /\ ops' = ops + 1
  /\ \E kind \in Asked, rollback \in BOOLEAN, m \in Models :
       /\ kind \in {"reload", "recover", "relaunch"} => m = file.selected
       /\ kind # "restart" => rollback = (kind = "reload")
       /\ my' = [my EXCEPT ![w] = [NoWork EXCEPT
            !.kind = kind, !.model = IF kind = "status" THEN NoModel ELSE m,
            !.rollback = rollback]]
       /\ Goto(w, FirstPc(kind))
  /\ UNCHANGED <<file, launch, backend, recent, gate, loader>>

(* A selection: the state file is read, and written with the new choice.   *)
ReadState(w) ==
  /\ pc[w] = "read"
  /\ my' = [my EXCEPT ![w].seen = file]
  /\ Goto(w, "write")
  /\ UNCHANGED <<file, launch, backend, recent, gate, loader, ops>>

WriteSelection(w) ==
  /\ pc[w] = "write"
  /\ file' = IF my[w].kind = "request" THEN Persisted(my[w].seen, my[w].model)
                                       ELSE Selection(my[w].seen, my[w].model)
  /\ IF my[w].kind = "select" THEN Finish(w)
     ELSE /\ Goto(w, IF my[w].kind = "request" THEN "decide" ELSE "launch")
          /\ UNCHANGED my
  /\ UNCHANGED <<launch, backend, recent, gate, loader, ops>>

SetLaunch(w) ==
  /\ pc[w] = "launch"
  /\ launch' = my[w].model
  /\ Goto(w, IF my[w].kind = "relaunch" THEN "repost" ELSE "queue")
  /\ UNCHANGED <<file, backend, recent, gate, my, loader, ops>>

(* _do_restart_backend: nothing is unloaded and the gate is not taken.     *)
Relaunch(w) ==
  /\ pc[w] = "repost"
  /\ IF phase = "stopped"
       THEN Start /\ UNCHANGED recent
       ELSE \E ok \in BOOLEAN : PostOutside(launch, ok) /\ UNCHANGED eager
  /\ Finish(w)
  /\ UNCHANGED <<file, launch, gate, loader, ops>>

-----------------------------------------------------------------------------
(* _direct_mode_reload.                                                    *)

(* Slip: only requests wait for the gate.                                  *)
AcquireAtOnce(w) ==
  /\ pc[w] = "queue"
  /\ gate = NoModel \/ my[w].kind # "request"
  /\ gate' = w
  /\ Goto(w, IF my[w].kind = "request" THEN "assess" ELSE "enter")
  /\ UNCHANGED <<file, launch, backend, recent, my, loader, ops>>

Acquire(w) ==
  /\ pc[w] = "queue"
  /\ gate = NoModel /\ gate' = w
  /\ Goto(w, IF my[w].kind = "request" THEN "assess" ELSE "enter")
  /\ UNCHANGED <<file, launch, backend, recent, my, loader, ops>>

(* The reload is over: its result is recorded unless a recovery asked.     *)
Ended(w, ok) ==
  IF my[w].kind = "recover" THEN Finish(w)
  ELSE Goto(w, "record") /\ my' = [my EXCEPT ![w] = [@ EXCEPT !.ok = ok,
         !.target = NoModel, !.victims = {}, !.todo = {}, !.left = 0,
         !.blind = FALSE]]

(* The block under the gate is left, to wait for the backend or at once.   *)
Leave(w) == gate' = NoModel /\ Goto(w, "wait") /\ UNCHANGED my

Return(w, ok) == gate' = NoModel /\ Ended(w, ok)

Enter(w) ==
  /\ pc[w] = "enter"
  /\ \/ Start /\ IF phase' = "starting" THEN Leave(w) ELSE Return(w, FALSE)
     \/ /\ phase # "stopped"
        /\ my' = [my EXCEPT ![w].target = launch]
        /\ Goto(w, "check")
        /\ UNCHANGED <<backend, gate>>
  /\ UNCHANGED <<file, launch, recent, loader, ops>>

Check(w) ==
  /\ pc[w] = "check"
  /\ \E s \in Seen(Loaded) :
       IF my[w].target \in s THEN Return(w, TRUE)
                             ELSE Goto(w, "survey") /\ UNCHANGED <<gate, my>>
  /\ UNCHANGED <<file, launch, backend, recent, loader, ops>>

(* A round unloads the models seen in s, all but the target.               *)
Round(w, s, left, blind) ==
  LET others == s \ {my[w].target}
  IN /\ my' = [my EXCEPT ![w] = [@ EXCEPT !.victims = others, !.todo = others,
                                          !.left = left, !.blind = blind]]
     /\ Goto(w, IF others = {} THEN "load" ELSE "unload")

(* Threads that go on as if what they cannot see were not there.           *)
Overlooks(w, s) == outside' = (outside \/ ~(Active \ {my[w].target} \subseteq s))

(* The whole inventory is read once and used in every round; when it was   *)
(* not answered, each round reads it again.                                *)
Survey(w) ==
  /\ pc[w] = "survey"
  /\ \E blind \in BOOLEAN, s \in Seen(Active) :
       /\ blind \/ s = Active
       /\ Round(w, s, Rounds - 1, blind)
       /\ Overlooks(w, s)
  /\ UNCHANGED <<file, launch, phase, router, dying, eager, recent, gate,
                 loader, ops>>

UnloadOther(w) ==
  /\ pc[w] = "unload"
  /\ \E m \in my[w].todo :
       /\ Unload(m)
       /\ \/ /\ my' = [my EXCEPT ![w].todo = @ \ {m}]
             /\ Goto(w, IF my[w].todo = {m} THEN "poll" ELSE "unload")
             /\ UNCHANGED gate
          \/ Return(w, FALSE)
  /\ UNCHANGED <<file, launch, phase, router, eager, outside, recent, loader,
                 ops>>

(* Slip: the target is posted as soon as the unloads were answered.        *)
PolledGoneAtOnce(w) ==
  /\ pc[w] = "poll"
  /\ Goto(w, "load")
  /\ UNCHANGED <<file, launch, backend, recent, gate, my, loader, ops>>

PolledGone(w) ==
  /\ pc[w] = "poll"
  /\ \E s \in Seen(Active) :
       s \cap my[w].victims = {} /\ Overlooks(w, s \cup (Active \ my[w].victims))
  /\ Goto(w, "load")
  /\ UNCHANGED <<file, launch, phase, router, dying, eager, recent, gate, my,
                 loader, ops>>

(* The 30 s are over and the models are still there.                       *)
PolledOut(w) ==
  /\ pc[w] = "poll"
  /\ Active \cap my[w].victims # {}
  /\ \/ /\ my[w].left > 0
        /\ \E s \in IF my[w].blind THEN Seen(Active)
                                   ELSE {my[w].victims} :
             /\ Round(w, s, my[w].left - 1, my[w].blind)
             /\ Overlooks(w, s \cup (IF my[w].blind THEN {} ELSE Active))
        /\ UNCHANGED gate
     \/ my[w].left = 0 /\ Return(w, FALSE) /\ UNCHANGED outside
  /\ UNCHANGED <<file, launch, phase, router, dying, eager, recent, loader, ops>>

LoadTarget(w) ==
  /\ pc[w] = "load"
  /\ \E ok \in BOOLEAN :
       /\ Post(my[w].target, ok)
       /\ IF ok THEN Leave(w) ELSE Goto(w, "recheck") /\ UNCHANGED <<gate, my>>
  /\ UNCHANGED <<file, launch, phase, dying, eager, outside, loader, ops>>

Recheck(w) ==
  /\ pc[w] = "recheck"
  /\ \E s \in Seen(Active) :
       IF my[w].target \in s THEN Leave(w) ELSE Return(w, FALSE)
  /\ UNCHANGED <<file, launch, backend, recent, loader, ops>>

(* Up to model_load_timeout for the launch model, whoever set it.          *)
Await(w) ==
  /\ pc[w] = "wait"
  /\ \/ phase = "healthy" /\ launch \in Loaded /\ Ended(w, TRUE)
     \/ Ended(w, FALSE)
  /\ UNCHANGED <<file, launch, backend, recent, gate, loader, ops>>

-----------------------------------------------------------------------------
(* _record_load_observation: the state file is read, the router and the    *)
(* logs are looked at, and the file is written back.                       *)

RecordRead(w) ==
  /\ pc[w] = "record"
  /\ my' = [my EXCEPT ![w].seen = file]
  /\ Goto(w, "judge")
  /\ UNCHANGED <<file, launch, backend, recent, gate, loader, ops>>

(* Unless the router confirms the launch model, the recent logs, which may *)
(* be those of an older load, can turn a success into a failure.           *)
Judge(w) ==
  /\ pc[w] = "judge"
  /\ \E s \in Seen(Loaded), oom \in BOOLEAN :
       my' = [my EXCEPT ![w].ok = @ /\ (launch \in s \/ ~oom)]
  /\ Goto(w, "settle")
  /\ UNCHANGED <<file, launch, backend, recent, gate, loader, ops>>

Settle(w) ==
  /\ pc[w] = "settle"
  /\ file' = IF my[w].ok THEN LoadSuccess(my[w].seen)
                         ELSE LoadFailure(my[w].seen, my[w].rollback)
  /\ Finish(w)
  /\ UNCHANGED <<launch, backend, recent, gate, loader, ops>>

-----------------------------------------------------------------------------
(* POST /v1/responses for a model, as far as the gate and the switch go.   *)

(* What build_model_status can see; e is the launch model's entry.         *)
View(e) ==
  [phase |-> phase, healthOk |-> phase = "healthy", gpu |-> "gpu",
   gpuRequired |-> TRUE, launch |-> launch, selected |-> file.selected,
   lastLoad |-> file.lastLoad,
   rolledBack |-> /\ file.rolledBack /\ file.lastLoad = "failed"
                  /\ file.lastGood # NoModel,
   entry |-> e, recovering |-> FALSE, inFlight |-> recent]

Entries == {"absent"} \cup {router[m] : m \in {launch} \cap Models}

Admitted(w) == \E e \in Entries : Status!Admits(View(e), my[w].model)

Refuse(w) == gate' = NoModel /\ Finish(w)

Assess(w) ==
  /\ pc[w] = "assess"
  /\ \E e \in Entries :
       Goto(w, IF Status!Admits(View(e), my[w].model) THEN "serve"
               ELSE IF Status!RequestMatchesActive(View(e), my[w].model)
                 THEN "decide" ELSE "trigger")
  /\ UNCHANGED <<file, launch, backend, recent, gate, my, loader, ops>>

(* _auto_trigger_model_switch_nonblocking.  A switch to the launch model   *)
(* while a load is in flight is not repeated; a model that is there, or    *)
(* coming, is only selected.                                               *)
Trigger(w) ==
  /\ pc[w] = "trigger"
  /\ IF recent /\ launch = my[w].model
       THEN Goto(w, "decide") /\ UNCHANGED launch
       ELSE /\ launch' = my[w].model
            /\ \E s \in Seen(Active) :
                 Goto(w, IF my[w].model \in s THEN "read" ELSE "spawn")
  /\ UNCHANGED <<file, backend, recent, gate, my, loader, ops>>

(* The loader is given the models that are loaded now; one that is still   *)
(* loading is not among them.                                              *)
Spawn(w) ==
  /\ pc[w] = "spawn"
  /\ IF phase = "stopped"
       THEN /\ Start
            /\ Goto(w, IF phase' = "starting" THEN "read" ELSE "decide")
            /\ UNCHANGED loader
       ELSE /\ \E s \in Seen(Loaded) :
                 loader' = [loader EXCEPT ![w] =
                   [pc |-> IF s = {} THEN "load" ELSE "unload", todo |-> s,
                    target |-> launch]]
            /\ Goto(w, "read")
            /\ UNCHANGED backend
  /\ UNCHANGED <<file, launch, recent, gate, my, ops>>

(* The failure of an earlier load was to be cleared before this, but the   *)
(* call that should write the file has its arguments swapped and raises.   *)
Decide(w) ==
  /\ pc[w] = "decide"
  /\ \E e \in Entries :
       IF Status!Admits(View(e), my[w].model)
         THEN Goto(w, "serve") /\ UNCHANGED <<gate, my>>
       ELSE IF Status!TransitionalWait(View(e), my[w].model)
         THEN Goto(w, "hold") /\ UNCHANGED <<gate, my>>
       ELSE Refuse(w)
  /\ UNCHANGED <<file, launch, backend, recent, loader, ops>>

(* Slip: every poll begins the wait, and its deadline, anew.               *)
HoldAgain(w) ==
  /\ pc[w] = "hold"
  /\ Goto(w, IF Admitted(w) THEN "serve" ELSE "decide")
  /\ UNCHANGED <<file, launch, backend, recent, gate, my, loader, ops>>

(* The hold-open loop: ready, terminal, or past its deadline.              *)
Hold(w) ==
  /\ pc[w] = "hold"
  /\ \/ Admitted(w) /\ Goto(w, "serve") /\ UNCHANGED <<gate, my>>
     \/ Refuse(w)
  /\ UNCHANGED <<file, launch, backend, recent, loader, ops>>

Serve(w) ==
  /\ pc[w] = "serve"
  /\ Refuse(w)
  /\ UNCHANGED <<file, launch, backend, recent, loader, ops>>

-----------------------------------------------------------------------------
(* _unload_then_load: the results of the unloads are ignored and nothing   *)
(* waits for them.                                                         *)

LoaderUnload(w) ==
  /\ loader[w].pc = "unload"
  /\ \E m \in loader[w].todo :
       /\ Unload(m)
       /\ loader' = [loader EXCEPT ![w].todo = @ \ {m},
                       ![w].pc = IF loader[w].todo = {m} THEN "load" ELSE @]
  /\ UNCHANGED <<file, launch, phase, router, eager, outside, recent, gate, pc,
                 my, ops>>

LoaderLoad(w) ==
  /\ loader[w].pc = "load"
  /\ \E ok \in BOOLEAN :
       /\ PostOutside(loader[w].target, ok)
       /\ loader' = [loader EXCEPT ![w] =
            IF ok THEN [@ EXCEPT !.pc = "check"] ELSE NoLoader]
  /\ UNCHANGED <<file, launch, eager, gate, pc, my, ops>>

(* The GPU check of the load; a model that came up without is unloaded.    *)
LoaderCheck(w) ==
  /\ loader[w].pc = "check"
  /\ Unload(loader[w].target)
  /\ loader' = [loader EXCEPT ![w] = NoLoader]
  /\ UNCHANGED <<file, launch, phase, router, eager, outside, recent, gate, pc,
                 my, ops>>

-----------------------------------------------------------------------------
(* GET of a status: it writes the persisted selection back when it is not  *)
(* the catalog's, and notes a first good model.                            *)

Peek(w) ==
  /\ pc[w] = "peek"
  /\ my' = [my EXCEPT ![w].seen = file]
  /\ \/ Goto(w, "reconcile")
     \/ file.selected # NoModel /\ Goto(w, "note_read")
  /\ UNCHANGED <<file, launch, backend, recent, gate, loader, ops>>

Reconcile(w) ==
  /\ pc[w] = "reconcile"
  /\ \/ my[w].seen.selected # NoModel /\ file' = my[w].seen
     \/ /\ my[w].seen.selected = NoModel
        /\ \E m \in Models : file' = Persisted(my[w].seen, m)
  /\ Goto(w, "note_read")
  /\ UNCHANGED <<launch, backend, recent, gate, my, loader, ops>>

(* The model it saw loaded is the catalog's selection.                     *)
NoteRead(w) ==
  /\ pc[w] = "note_read"
  /\ \/ /\ phase = "healthy" /\ Loaded # {} /\ file.lastGood = NoModel
        /\ my' = [my EXCEPT ![w].seen = file]
        /\ Goto(w, "note")
     \/ Finish(w)
  /\ UNCHANGED <<file, launch, backend, recent, gate, loader, ops>>

Note(w) ==
  /\ pc[w] = "note"
  /\ file' = LoadSuccess(my[w].seen)
  /\ Finish(w)
  /\ UNCHANGED <<launch, backend, recent, gate, loader, ops>>

-----------------------------------------------------------------------------
Reload(w) ==
  \/ SetLaunch(w) \/ Relaunch(w) \/ Enter(w) \/ Check(w) \/ Survey(w)
  \/ UnloadOther(w) \/ PolledGone(w) \/ PolledOut(w) \/ LoadTarget(w)
  \/ Recheck(w) \/ Await(w) \/ RecordRead(w) \/ Judge(w) \/ Settle(w)

Respond(w) ==
  \/ Assess(w) \/ Trigger(w) \/ Spawn(w) \/ Decide(w) \/ Hold(w) \/ Serve(w)

Persist(w) ==
  \/ ReadState(w) \/ WriteSelection(w) \/ Peek(w) \/ Reconcile(w)
  \/ NoteRead(w) \/ Note(w)

Worker(w) == Acquire(w) \/ Reload(w) \/ Respond(w) \/ Persist(w)

Loader(w) == LoaderUnload(w) \/ LoaderLoad(w) \/ LoaderCheck(w)

Backend ==
  \/ ComesUp \/ GoesDown \/ EagerPost
  \/ \E m \in Models : LoadEnds(m) \/ UnloadEnds(m)

(* The bound is reached and nothing is under way.                          *)
Quiet ==
  /\ ops = MaxOps
  /\ \A w \in Workers : pc[w] = "idle" /\ loader[w] = NoLoader
  /\ UNCHANGED vars

Next ==
  \/ \E w \in Workers : Receive(w) \/ Worker(w) \/ Loader(w)
  \/ Backend
  \/ RecentExpires
  \/ Quiet

Spec == Init /\ [][Next]_vars

(* Every wait of a worker has a timeout, an admitted request ends, and a   *)
(* lock that is released again and again is acquired in the end.  Nothing  *)
(* is assumed of the backend.                                              *)
Fairness ==
  \A w \in Workers : WF_vars(Worker(w)) /\ SF_vars(Acquire(w))

LiveSpec == Spec /\ Fairness

-----------------------------------------------------------------------------
TypeOK ==
  /\ file \in States
  /\ launch \in Models \cup {NoModel}
  /\ phase \in {"stopped", "starting", "healthy"}
  /\ router \in [Models -> RouterStates]
  /\ dying \subseteq Models
  /\ eager \subseteq Models
  /\ recent \in BOOLEAN
  /\ gate \in Workers \cup {NoModel}
  /\ pc \in [Workers -> Pcs]
  /\ my \in [Workers -> Work]
  /\ loader \in [Workers -> Loaders]
  /\ outside \in BOOLEAN
  /\ ops \in 0..MaxOps

(* What the reloads promise: as long as no other thread posts a load       *)
(* beside them and the inventory answers, at most one model is loaded or   *)
(* loading, whatever the router does with the unloads.                     *)
ReloadsKeepOneModel == ~outside => Cardinality(Active) <= 1

(* A request that was admitted is not disturbed by a reload: none is       *)
(* between its look at the router and its last call to it.                 *)
ServedUndisturbed ==
  \A r, w \in Workers : pc[r] = "serve" => pc[w] \notin SwapPcs

(* The operator's choice may be replaced, by whatever order of overlapping *)
(* reads and writes of the state file, and is never erased.                *)
SelectionKept ==
  [][file.selected # NoModel => file'.selected # NoModel]_vars

(* Every reload that was accepted with a 202 comes to an end, behind any   *)
(* number of requests that hold the gate.                                  *)
ReloadsSettle ==
  \A w \in Workers : pc[w] = "launch" ~> pc[w] = "idle"

-----------------------------------------------------------------------------
(* What the documents say and the code does not do.                        *)

(* dual-model-load-contract.md: after any select-and-restart, "Must show 0 *)
(* or 1 models in loaded/loading state".                                   *)
OneModelInVram == Cardinality(Active) <= 1

(* The comment of the triggered switch: the stale failure is cleared "so   *)
(* hold-open doesn't see request_admission_state="failed" during the       *)
(* unload->load window".                                                   *)
StaleFailureCleared ==
  \A w \in Workers :
    pc[w] = "decide" /\ loader[w].pc \in {"unload", "load"} =>
      \A e \in Entries : Status!AdmissionState(View(e)) # "failed"

=============================================================================
