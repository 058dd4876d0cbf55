# QuantZhai: specifications of the proxy

QuantZhai is a threaded HTTP proxy (`src/proxy`, Python) that stands between
the Codex CLI and a llama.cpp router running in a docker container.  It owns
the container, the choice of model, the admission of requests, the rewriting
of the response stream, local tools, recovery from failures and a memory
store.  This directory holds TLA+ modules that model its components, the TLC
configurations that check them on small instances, and theorems about them
that TLAPS checks for every value of their constants.

Paths below are relative to `src/`; `RR` is `proxy/qz_request_router.py`, `BM`
is `proxy/qz_backend_manager.py`, `RS` is `proxy/qz_responses_stream.py`.

1. [The system](#1-the-system)
2. [Modules](#2-modules)
3. [Runs](#3-runs)
4. [Fairness](#4-fairness)
5. [Proofs](#5-proofs)
6. [Where the code and its documents disagree](#6-where-the-code-and-its-documents-disagree)
7. [What is not modelled, and what comes next](#7-what-is-not-modelled-and-what-comes-next)

## 1. The system

Every HTTP request is served on a thread of its own (`ThreadingHTTPServer`).
Handlers spawn daemon threads for what takes minutes.  Almost all state is in
the memory of one process, each piece behind a lock of its own; a few JSON
files are read, changed and written again without any lock.  Nearly every
hard behaviour comes from that: a decision is made on state read under one
lock and acted upon after it has been released.

| Component (source) | State it keeps | Operations | Interacts with | What is hard | What makes it correct |
|---|---|---|---|---|---|
| Backend manager (`BM`) | phase, busy flag, health and GPU flags, launch model | start, stop, delayed autostart, crash report, HTTP load and unload | docker, `/health`, container log; called by the router and the recovery actions | daemon threads of three origins, docker failures, a container that dies, the GPU window of provisional verdicts | one lifecycle thread at a time, no phase it cannot leave, no phase that claims a container it removed, a CPU fallback never shown healthy |
| Model status and admission (`proxy/qz_model_status.py`) | none; derived from a snapshot | readiness, switch state, admission, wait decisions | snapshots of the manager, state file, inventory | a status is put together from looks at different moments, with HTTP calls between them | a ready verdict is true of a moment of its computation |
| Service status and plan (`proxy/qz_control_plane.py`, `qz_service_status.py`, `qz_recovery_plan.py`) | none; derived | report states, advise an action, decide which actions are feasible | everything above; its clients follow the advice | long chains of tests over a dozen inputs | the report, the gate and the planner agree |
| Recovery trigger, throttle, jobs (`RR` 221-287, 1760-2097, `proxy/qz_recovery_state.py`, `qz_recovery_jobs.py`) | claim, failures, waits, closed actions, job table | trigger (sync, async), `clear_failure`, poll a job | plan, manager, model switch | check-then-act in several critical sections, pruned jobs, `clear()` in the middle of anything | the claim is released, failing actions are given up, jobs are settled |
| Model switch (`RR` 734-860, 2334-2847) | `request_gate`, launch model, the router's inventory (external) | select, select-and-restart, reload, reloading recovery actions, switch triggered by a request | manager, llama.cpp router, state file | asynchronous unloads, lost answers, three kinds of threads posting loads | one model in VRAM, no reload under a request that is served |
| Model state file (`proxy/qz_model_state.py`, `qz_model_router.py`) | selection, last good model, last result, rollback | select, observe a load, reconcile at every status GET | written by all of the above | read-modify-write without a lock | the selection is not erased |
| Request gate and `POST /v1/responses` (`RR` 404-521, 686-722, 1050-1090, 3491-4583, `proxy/qz_active_requests.py`) | `request_gate`, registry of active requests | wait for the start, admit, hold open, prepare, serve, retry, register | model switch, stream, escalation, compaction | one lock is held through waits of minutes; the gate and the registry are left by separate calls on each way out; clients give up and ask again | only the holder of the gate is served, nobody who has ended keeps it, the registry lists who is served, whoever stays is answered to the end |
| Sandbox escalation (`proxy/qz_sandbox_escalation.py`) | pending escalations, in memory | send the first denied command back, put the result of its second run in its place | the history each client keeps and sends whole | histories outlive the pending entries: restarts, retries, answers that never come | the result reaches the model whole, once, and ends the round |
| Responses stream (`RS`, `proxy/qz_streaming.py`, `qz_stream_watchdog.py`, `qz_stream_terminal.py`, `qz_sse.py`) | per-run and per-hop state, what has been sent | relay, withhold and run tool calls, continue in hops, repair, close | upstream, tools, client | the upstream stops anywhere; time-outs race events; a retry goes on with the same stream | one well-formed response, which ends |
| Compaction (`proxy/qz_responses.py`, `quantzhai_proxy.py`) | none; the client keeps the history | compact on demand (by the model or without it), compact above a threshold, expand, normalize | the backend, as a model to ask; requests | what is compacted was compacted before; the model may be asked one time and not the next | summaries carry over, recent items survive, outputs keep their calls, nobody is turned back twice |
| Web tool (`proxy/qz_tool_web.py`, `qz_search_policy.py`, `qz_search_config.py`) | per run of a request: counters, signatures, guidance, texts; for all requests: search and page caches | search with fallbacks, open, find, retrieve, capabilities | provider, stream | limits belong to modes, counters to runs, caches to everybody; three sources say what is strict | the operator's caps hold, a strict profile stays in its sources |
| BrainCase store (`proxy/qz_braincase_db.py`, `_write`, `_review`, `_retention`) | memories, their statuses and revisions in SQLite | put, promote, reject, retire, supersede, merge, prune | sessions, manager, operator (a process of its own) | check and update in different statements; failed commits that a later one publishes; kills between the commits of one operation | a superseded record has a successor, the log explains every status, prune spares what it must |
| BrainCase manager and tools (`proxy/qz_braincase_manager.py`, `_tools`, `_render`) | pressure counters; a full-text index beside the records | run in the background, recall, percolate, render | inference backend, store | several runs at once; an index a commit behind; limits applied before filters | a record asked for is not starved by records of other tiers |
| Telemetry bus (`proxy/qz_telemetry.py`) | sequence counter, rings, files | emit, read since, rotate | everything emits | numbers taken outside the lock that appends | a follower misses nothing that is kept |
| Other local tools (`qz_tool_apply_patch.py`, `qz_tools.py`, ...) | none | patch, list | stream | - | - |
| Native and file signals | none | score texts | requests | - | - |
| Model catalog and router facade | catalog in memory | scan, resolve | switch, status | - | - |
| Reports and snapshots (incl. the VRAM cache) | caches | read | - | staleness | - |
| Proxy process | initialization state | start up | everything | - | - |
| Operator scripts | none | call the endpoints | - | - | - |

`PROJECT.json` lists the same components with the modules that cover them, and
the hazards of the code, each at its line with the properties that would catch
it going wrong.

## 2. Modules

    ModelStatus <---- ServiceStatus <---- StatusReport <----+
        ^   ^                                               |
        |   +-------- ModelSwitch <---- ModelSwitch_proofs  |
        |                                                   |
    BackendAdmission <-------------------- BackendManager_proofs
        |
        +----> BackendManager ----> BackendLifecycle   (refinement)

    RecoveryTrigger <---- RecoveryTrigger_proofs
    ResponsesStream <---- ResponsesStream_proofs
    Histories <---- SandboxEscalation <---- RequestGate <---- RequestGate_proofs
        ^
        +---------- Compaction <----+
                    Recall <--------+---- Selection_proofs
    RetentionPolicy <---- BrainCase <---- BrainCase_proofs
    WebTool <---- WebTool_proofs

`Histories` is what the list comprehensions over a request's input do, said by
places in a sequence instead of member by member: what is said so can be proved
about without induction.  `Selection_proofs` holds the proofs of the two modules
that select from what they are given, a recall from the store's records and a
compaction from a history.

A module `MCx` with a configuration instantiates `x` for TLC.  Definitions
whose comment starts with "Slip:" are not part of any specification: each is a
plausible mistake in the definition that follows it, put in its place to see
that the properties notice.

### BackendManager, BackendLifecycle, BackendAdmission

`BackendManager` has one action for each critical section of `self._lock` and
each call to docker or `/health`.  `Start`, `Stop`, `BeginAutostart` and
`AutostartFire` are the calls that claim the manager (`_busy`); the thread they
spawn goes through `Probe`, `Attach` or `Remove`, `Announce`, `Run`,
`MarkRunning`, `AwaitHealth`, `EagerLoad`, the GPU window (`FirstGpuCheck`,
`RetryGpuCheck`, `CloseGpuWindow`), `Conclude` or `Fail`, and `Release`
(`_do_start`, BM 943-1126), or through `StopContainer`, `StopRemove`,
`StopDone` (`_do_stop`, BM 1131-1161).  `RecordRuntimeFailure` is the crash
report; its only caller, for `/v1/responses`, follows a block that always
returns for that path, so the constant `CrashReports` says whether it is
reached.  The container is external:
it boots, dies at any time, and docker commands succeed or fail; `lastError`
says whether `last_error` tells of a failure.  `None` and `False` of the optional
flags are one value, since every reader asks `is True`.

`BackendLifecycle` is what the manager promises: operations one at a time, a
phase that only climbs during a start and ends in healthy or failed, a crash
report at any time, and no failure (of a start, of a stop that leaves the
container behind, of a backend reported dead) that the snapshot does not tell.
The refinement maps its `op` to the place of the one active thread.  That a stop
ends in `stopped` only without a container is what the documents say and the code
does not do: `StoppedMeansRemoved`, section 6.

`BackendAdmission` puts `build_model_status` beside the manager, for a request
for the launch model.  It is not one look but three (`LookAtName`,
`LookAtPhase`, `LookAtSnapshot`: `qz_model_status.py:98`, 190, 425), with a `GET
/v1/models` after the first and after the last (`ConfirmName`, `Conclusion`),
and every other thread may move between any two.  So a verdict of "ready" may be
out of date when it is given (`ReadyIsStillServable`, section 6); what does hold
is that it was true of a moment of its own computation.

### ModelStatus, ServiceStatus, StatusReport

Pure derivations.  `ModelStatus` is `qz_model_status.py` without the payload:
from a view (snapshot, selection, last load, inventory entry) to the switch
state, the admission state, and the gate's three decisions (admit, wait,
refuse).  `ServiceStatus` is the chain control plane, service status, recovery
plan.  Its summary, as in the code, does not compare the model that was launched
with the one that is selected, so that a status may accept while another model
is loaded; the handler then has the model switched and holds the request
(`SwitchedFirst`, which takes for granted that this trigger does not raise).
`StatusReport` makes one report in each situation the proxy can be in, and puts
beside it what the two recovery endpoints decide there: `Plan` is `POST
/qz/recovery/plan`, `Trigger` the checks of `POST /qz/recovery/trigger` up to
the plan it asks for itself, with every setting they read. `StatusReport` speaks
of one situation that holds still, where the gate and the report see the same;
what moves during a computation is the subject of `BackendAdmission`.  Which
snapshots are possible is not a guess: `SnapshotsArePossible` in
`BackendManager_proofs` is a theorem about `BackendManager`.

### RecoveryTrigger

The handler of `POST /qz/recovery/trigger` looks at the throttle four times
before it claims it (`CheckProgress`, `CheckBackoff`, `PlanBackoff`,
`PlanProgress`), because the plan looks again; each look is a critical section
and an action.  `StartSync` and `StartAsync` are `mark_started`; `Act`,
`Complete`, `Fail`, `FinishJob` the execution, the release of the claim and the
settling of the job.  `clear_failure` empties the throttle, its own claim
included, in its `Act`.  A thread that answers 202 plays its worker from there on.
Time is abstract: a wait is imposed and expires.

### ModelSwitch

Seven kinds of requests change or observe the model; a worker is the thread of
one and the daemon thread it leaves behind.  Each read of the state file, each
write, and each HTTP call is an action of its own.  `Enter` to `Settle` is
`_direct_mode_reload` with `_record_load_observation` (RR 2559-2847); `Assess`
to `Serve` a `POST /v1/responses` that may trigger a switch and is held open (RR
404-521, 734-860, 3600-3855); `LoaderUnload` and `LoaderLoad` the
`_unload_then_load` thread of that switch; `Peek` to `Note` the reconciliation
at a status GET.  The router is external: it refuses to load a model that is
there, unloads after it has answered, loses answers, fails loads; the backend
may go down and come up with the launch model at any time; an inventory that is
not answered reads as empty.  The history variable `outside` records that a load
was posted without the gate, or an inventory missed.

### ResponsesStream

One streamed `POST /v1/responses`, from `_ar.begin` to the end of the thread.
A read of the upstream is one action with everything `_process_event` does to
it; a write fails when the client has gone.  `run` is `StreamRunState`, `hs` is
`StreamHopState` with the watchdog, `wire` is what the client has received,
counted: response starts, terminal events, `[DONE]` markers, and whether it was
told something, shown a tool item, left with an open one, given a call, or
closed at the limit of hops, whose message is in the output of
`response.completed` and is not streamed.  The
upstream is external and keeps its grammar (items, one terminal event,
`[DONE]`), but may stall, fail or close anywhere, even in the middle of its
terminal event.  `HandleDisconnect` to `GiveUp` are the handlers of
`proxy_json_api` around the run, with the wait for a recovery and the single
retry on the same stream.

### SandboxEscalation, RequestGate

`RequestGate` is `proxy_json_api` for a `POST`, from its arrival to its answer,
one action for each stretch between two waits: `Arrive`, `AwaitStartup`, `Admit`
(`request_gate.acquire`), `Assess`, `AwaitModel` (the hold-open of a stream, the
poll wait of a request that is not), `Prepare`, `Compact`, `Begin` (`_ar.begin`
and the head of the stream), `ServeStream` and `RetryStream` (of which
`ResponsesStream` is the inside), `ServePlain` (`_run_responses_locally`, one
hop each), and `Through` for the other paths.  `head` is what the client has
been sent so far, `got` what it is answered with; a stream that stops without a
terminal event and `[DONE]` is `cut`, which is not an answer.  The registry is
keyed by request, as `ACTIVE_REQUESTS` is, and keeps what no `finish()` takes
out of it.  The clients are modelled as far as the proxy depends on them: each
keeps its history, adds the answer to it, may go away at any time and ask again
with the same history (`ClientGoes`) while the thread of its first request goes
on.  `Restart` loses everything the proxy holds in memory and nothing of what
the clients hold.

`SandboxEscalation` is what `Prepare` does to a history: advisories, the
compaction of old results (which may turn a denied output into a remark before
the escalation looks for it), the search for a result that is awaited, the
rewriting, and the choice of the first denial.  The texts of outputs are
reduced to what the code decides by.

What is assumed of a client is in `GateAssumption`: its commands are its own (a
call id is made up by the model or from a `uuid4`, and `_pending` is keyed by
it), there are finitely many of them, and a history it resumes has the second
run of a command only after a first one.  `crossed` is a history variable of
the client: it asked for what it was told last, or for the escalation it has
come back from, while a request it had abandoned was still under way.

### RetentionPolicy, BrainCase

`BrainCase` has a write in two steps, `Write` (its statements, which take
SQLite's lock) and `Commit`, either of which may fail (`WriteFails`); `tx` is
the open write transaction and what it has drafted.  What the callers do around
a write are actions of their own: `StageCandidate` (a session), `StartRun` to
`RunEnds` (a run of the manager, its calls chosen by the model: `Dispatch`,
`DispatchMerge`, `MergeSource`), `Review`, `Report`, `Judge` (the operator's
command, another process).  `told` is what the revision log leads one to
expect, a history variable kept by the operators that write revisions.
`ProxyKilled` and `OperatorKilled` end connections between any two steps.
`RetentionPolicy` is `retention_decision_for_record` under the policy that is
shipped (`docs/fixtures/braincase/retention/default-policy.json`).

### Recall

The read side of the same store: `Ask`, one `Read` per tier, `Render`
(`braincase_recall_packet`, `_recall_candidate_records`, `render_pack`), while
the manager changes records and the index follows by a commit of its own
(`SyncSession`, `SyncManager`) or is rebuilt when a connection finds it empty
(`RebuildSession`, `RebuildManager`, from a copy read before the lock is
taken).  How writes take the lock and fail half way is left to `BrainCase`:
here a write is one step that happens or does not.  What a call has read is a
set: a SELECT with an order and a LIMIT takes the records that fewer than the
limit come before (`Newest`, `Ranked`), and the tiers a call has still to read
are the indexes of its list of tiers (`Reads`), taken in order.

### WebTool

`execute_web_search_call`, one action per kind of call, over the caches of the
handler class and the runtime of one run: a request as it is relayed, or as it
is relayed once more after a recovery, with counters and signatures of its own
(`RS` 1655, `RR` 4242).  `Capabilities` fetches the provider's guidance, which
may fail and leave none, and may then fail itself, so that the model is told
nothing of what was fetched.  `Search` computes engines,
fallback chain and cache keys as `_search_web` does: the loop over the fallbacks
is the set of those tried (all whose predecessors had too few results), and its
best the first of the largest.  What the provider has for
a query is chosen once per step.  Budgets are derived from the built-in modes,
the operator's table, the flat fields and the caps as `_resolve_budget_mode`
derives them; profiles from the legacy policy and from `search.json` in the
two orders in which the code reads them.

### Compaction

The client's history grows by messages, thoughts, outputs of the proxy's own
tools, parallel calls and their outputs (`Speak`, `Think`, `Show`, `Use`,
`Result`), is sent (`Send`) and answered
(`Answer`), and is compacted on demand (`Compact`, `POST /v1/responses/compact`)
or because it passes the threshold the client names (`Shorten`).  The calls of
one response of the model come together and are all answered next, which is what
the interface asks of its clients.  Items say sequences of facts, the unit for
text and tokens; that is enough to say what a summary holds and what was cut.
The advisories of a turn (RR 3896) are left out: they are put into what the model
reads, and are not in the history a client keeps.
`ItemText` and `Tokens` are `_item_text` and `_estimate_items_tokens`.  The two
engines are `Rewritten` (a summary the model writes around the earlier one) and
`Heuristic` (texts joined and cut).

## 3. Runs

| Run | Specification, instance | Distinct states | What it shows |
|---|---|---|---|
| `backend_manager` | `LiveAdmissionSpec`; 2 threads, 1 model, 1 GPU retry, 1 poll, crash reports on, a status computed beside them | 514 thousand | one lifecycle thread; the snapshot is true and tells what failed; a ready verdict was true; the manager implements `BackendLifecycle`; every operation ends and every start settles |
| `status_report` | `ReportSpec`; all situations, before and after the report | 1.8 million | what is reported as accepted is served, advice can be followed and what is planned is triggered, silence means service |
| `recovery_trigger` | `LiveSpec`; 2 threads, 3 request ids, 3 attempts, 2 waits, 1 job | 84 thousand | the throttle is coherent, its claim is released, a failing action is given up, jobs tell the truth, settle once, and end |
| `recovery_race` | `Spec`; 2 threads | violated | `OneRecoveryAtATime` (section 6) |
| `model_switch` | `Spec`; 2 workers, 2 models, 2 rounds, 2 requests of all kinds, symmetric in both sets | 3.3 million | reloads keep one model, serving is not disturbed, the selection is kept |
| `model_switch_live` | `LiveSpec`; 2 workers, 1 model, 1 round, 2 requests | 170 thousand | a reload ends behind requests held open under the gate |
| `responses_stream` | `LiveSpec`; 2 hops, 1 repair, 1 retry, both watchdogs | 662 thousand | one response, items closed, reasoning answered, registry right, nothing after a call, the request ends |
| `requests` | `Spec`; 2 clients, 3 threads, 3 + 1 turns, 2 commands, 2 models, 1 restart, 2 hops | 1.7 million | who is served is in the registry and holds the gate, what else the registry lists is accounted for, and the gate is left; of an escalated command the model reads one result and nothing of the second run, and the result is there if nothing was said since the first run; it ends the round; whoever stays is answered to the end |
| `braincase` | `Spec`; 2 manager runs (symmetric), a session, the operator, 3 records, 1 call each | 3.4 million | a superseded record has its successor, the log explains every status, the lock is never orphaned, prune spares durable records |
| `recall` | `Spec`; 4 records, 2 calls of the manager, 6 kinds of recall and render | 3.0 million | an undisturbed recall is not starved by records of other tiers |
| `web_tool` | `Spec`; 2 modes, 4 profiles, 11 calls, 3 of them in 2 runs | 177 thousand | the operator's caps hold, strict profiles stay in their sources, answers fit, what was advertised is served |
| `compaction` | `CompactionSpec`; 7 facts, 3 catalogs | 617 thousand | outputs keep their calls, summaries carry over, recent items survive, nobody is turned back twice |

Why the bounds are enough:

* *Two lifecycle threads.*  One works at a time, and what comes while it works is
  refused; so one at work and one that competes with it, a call or an autostart
  that sleeps, meet in every way there is.  A finished thread's identity is used
  again, so the number of operations in a behaviour is not bounded.  One health
  poll is one that may fail and one that decides.  One model is enough: the
  manager never compares models, it passes the launch model on.
* *Two recovery threads.*  Every conflict is between two looks at the
  throttle.  Three attempts against a schedule of two waits make the last wait
  repeat, as `_backoff_schedule` does; one slot in the job table makes running
  jobs be pruned; three ids, one more than the threads, let an id outlive its
  thread in the table.  The actions asked for are the one that supports the
  asynchronous form and `clear_failure`; the other four take the same path as
  the synchronous form.
* *Two requests that change the model, two models.*  Two is what a conflict in
  VRAM takes; two rounds of unloading and polling let the second see what the
  first left.  `MaxOps` bounds the requests received, nothing else: the backend
  goes down and comes up, and loads end, any number of times.  The permutations
  of workers and of models are a symmetry since neither is ever chosen or
  compared by more than equality, and no liveness property is checked with it.
  `model_switch_live` needs one model: which model is loaded does not matter to
  whether the gate is released.
* *Two hops, one repair.*  A hop after a tool, a repair after either, and the
  limit met with a repair pending and without.  The upstream sends any number
  of events in each hop.
* *No bound* in `status_report` but the selection, which is none, the launch
  model, or another: the code compares models for equality only, and
  its theorems do without the bound.
* *Three turns of the client with the history, two threads for it.*  A round of
  an escalation takes three requests: the one after the denial, the one with
  the result of the second run, and one that could be sent back again.  The
  second thread is the abandoned request that lives on while its client asks
  again.  Two commands are the first denial and one beside it; the other client
  is there for the gate, the other kinds of requests and another model.  One
  restart is what separates a history from its pending entry.  The streaming
  client resumes a conversation in which a command was denied and has been run
  again, and it alone closes connections early (`Leavers`): what an abandoned
  request leaves behind does not depend on its kind.
* *Three records in `braincase`.*  One that is active and can expire, one that
  is durable, staged and promoted, and one that the two are merged into; a
  class of its own each.  The races are between two connections, and the
  managers' runs bring two beside the session and the operator; runs, sessions
  and commands are repeated without a bound, only the calls of one run are
  bounded.
* *Four records in `recall`*, of three tiers, so that one lies between two of
  others in each of the orders of the database, and limits of one and two that
  all of them exceed.  Two calls of the manager are a change and a change of
  what was changed.
* *Two runs in `web_tool`*, so that caches outlive the counters; three calls,
  one more than the cap for searches, so that the last is refused; profiles
  and fallbacks as they ship, one page that redirects to another.
* *Seven facts in `compaction`*, enough for a history that is compacted, grows,
  and is compacted again, and for one that is left with a call whose output has
  become a remark; limits scaled down so that every one of them bites (what a
  summary holds, what an item of it holds, what is kept).  The threshold is one
  with room (`Roomy`), as the limits that ship and a client's threshold of some
  thousand tokens have it.

Deadlock is checked everywhere but in `status_report`, which ends after its one
report, and `compaction`, whose conversation may stop at its bound of facts.
`ModelSwitch` and `ResponsesStream` have an explicit step for the behaviours
that are over (`Quiet`, `Stopped`), whose guards say precisely what "over" is,
so a thread that is stuck anywhere else is still a deadlock.

`TypeOK` (`CompactionTypeOK` in `Compaction`) is not among the properties of the
runs: it is proved for every module with theorems of its own (section 5).

## 4. Fairness

* `BackendManager`: weak fairness of each spawned thread's own steps.  Docker
  calls, health polls and the GPU window have time-outs, and a daemon thread is
  not killed while the process lives.  Nothing is assumed of callers, of the
  container, or of docker's success.
* `RecoveryTrigger`: weak fairness of each request thread: what it calls has
  time-outs.  One call has none: the reload waits for `request_gate`, acquired
  without a deadline (RR 1072).  So the fairness of an executing thread presumes
  that the gate is released, which is `ReloadsSettle` of `ModelSwitch` and
  `RequestEnds` of `ResponsesStream`.  Nobody has to send requests, and waits need
  not expire.
* `ModelSwitch`: weak fairness of each worker (every wait has a deadline, and
  an admitted request ends, which is what `RequestEnds` of `ResponsesStream`
  says) and strong fairness of acquiring the gate, a `threading.Lock` that is
  released again and again.  Python does not promise a fair lock; what is
  assumed is only that a waiter is not passed over for ever.  Nothing is
  assumed of the backend.
* `ResponsesStream`: weak fairness of the deadline (`DeadlinePasses`), of a
  read once a deadline has passed or a terminal event has come (then the
  time-out of the socket bounds it), of the steps between hops and of the
  request thread's handlers; tools and the wait for a recovery (90 s) have
  deadlines.  Before the deadline the upstream may send for ever, and the client
  may stay for ever.  Both watchdogs are on, as they are by default
  (300 s and 180 s); with one off, a steady upstream keeps a request open,
  which is what the option means.
* `RequestGate`, `BrainCase`, `Recall`, `WebTool`, `Compaction`: safety only, and
  no fairness is stated.  That a request that holds the gate lets go of it in
  the end is `RequestEnds`, for the streamed form; a lost commit of the memory
  store is never made good, so nothing need ever happen there.

## 5. Proofs

| Module | Theorems | Assumptions |
|---|---|---|
| `BackendManager_proofs` | `TypeCorrect`, `Serialised`, `ShownIsTrue`, `ReadyIsServable`, `ImplementsLifecycle`; `SnapshotsArePossible` | `ManagerAssumption`; the last also `RequireGpu` |
| the same, on `StatusReport` | `AcceptanceIsTrue`, `AdviceCanBeFollowed`, `SilenceIsService` | none |
| `RecoveryTrigger_proofs` | `TypeCorrect`, `ThrottleCoherent`, `ClaimNeverLeaks`, `AttemptsLimited`, `JobsSettled` | `TriggerAssumption` (finitely many threads, a non-empty schedule of positive waits, a table with room for a job) |
| `ModelSwitch_proofs` | `TypeCorrect`, `OneModelKept`, `ServingUndisturbed`, `SelectionSurvives` | `SwitchAssumption` |
| `ResponsesStream_proofs` | `TypeCorrect`, `OneResponse`, `CallIsLast`, `Registry`, `ToolItemsEnd`, `ReasoningIsAnswered` | `HopsAssumption` |
| `RequestGate_proofs` | `GateInvariant`, `GateIsKept`, `OneInside`, `NoStayerUnanswered`; `RoundInvariant`, `GateTypes`, `ResultIsRead`, `RoundEnds` | `GateAssumption` (the first four use of it only what threads, owners and kinds of requests are; the others, what it says of the clients' commands and histories), `EscalationAssumption` |
| `WebTool_proofs` | `WebInvariant`, `WebTypes`, `CostIsCapped`, `StrictInSource`, `AnswersFitTheirMode`, `AdvertisedServed` | `WebAssumption` (a configuration with values of the right types, finitely many profiles and results); the last also `SourcesAgree` |
| `Selection_proofs` | `RecallInvariant`, `TypeCorrect`, `NoneIsStarved` | `RecallAssumption` (finitely many records, no two alike in importance; what births, labels and requests can be) |
| the same, on `Compaction` | `ConversationsAreTyped`, `CallsAreSeen`, `SummariesLast`, `RecentItemsSurvive`, `OnceIsEnough` | `CompactionAssumption` (limits are numbers, those that cut are not zero, at least as many items are kept as are preserved) |
| `BrainCase_proofs` | `StoreInvariant`, `TypeCorrect`, `SuccessorStays`, `HistoryComplete`, `LockReleased`, `DurableSpared` | `BrainCaseAssumption` (the session, the operator and the managers' runs are different connections; classes and births are what they can be) |

*Backend manager.*  Whether a step of a lifecycle thread may leave the phase it
finds depends on where the thread is, so `IInv` adds `PhaseAt`: for each place,
the phases that can be shown there and whether the container was taken away.  A
second active thread would break it, so `OneLifecycleThread` is proved first
and used in every other step.  The refinement follows: with `IInv` in the
hypothesis each action is one step of `BackendLifecycle` or a stutter.
`ReadyMeansServable` is about a computation of several steps with the manager's
own in between, so its invariant (`ReadingOK`) follows the computation: whoever
finds the phase healthy with `IInv` finds the backend servable
(`HealthyIsServable`, from `PhaseAt`, which says who may be where in that phase),
and each look keeps what the ones before it found.

*Status report.*  The report is made in situations whose snapshot is one that
the manager can show: `SnapshotsArePossible`, from the manager's invariant and
from the phase never being "unknown".  (Its first proof attempt failed: the
situations lacked a GPU check that found nothing, which a failed start leaves in
the snapshot.)  For any names of models, everything goes through
`LoadedIsServed`: a report that calls the model loaded speaks of a backend that
has passed its probe and its GPU check and has the launch model loaded
(`LoadedIsReady`); if that is the selection, the gate admits it
(`ReadyIsAdmitted`), and if it is another model, the handler has it switched,
and whatever the inventory shows after that is one that a request waits for
(`SwitchIsAwaited`).  The theorems for advice and silence go through the chain
of tests case by case.

*Recovery trigger.*  The bound on attempts counts threads past the last look at
the throttle.  It is inductive only together with `Escalation`, which ties the
flag a thread looks at (`manual`) to the count that is bounded.  `ClaimIsLive`
needs that ids are fresh (`FreshId`) and that a thread past `mark_started` has
one (`LocalsOK`).  Consequence worth knowing: the race of section 6 costs at
most one extra attempt per thread.  For the jobs, `JobsInv` adds that a thread's
id is its own and that no id is twice in the table: then the one thread that
answers for a job settles it, and a settled job has nobody who could touch it.

*Model switch.*  `IInv` is `TypeOK /\ GateInv /\ SelectionInv /\ OneModelInv`:
a thread inside the gate holds it; a thread past certain places found, or made,
a selection, or holds a copy of one to write back; and what a reload has found
out about the router (`Known`) is still true when it posts.  `Known` is the
core: it survives the other threads' steps because loads without the gate set
`outside`, and the router's own steps only remove models.  The
types come first, one lemma per helper and per action.

*Responses stream.*  What the client was sent is tied to the flags of the run
(`Sums`: a run that has not set `terminal` has not sent a terminal event), and
that a terminal event comes once per hop to the grammar the upstream keeps
(`Grammar`), which relates `upstream`, `hs` and `run`.  `HopsLeft` bounds the
hops of a run.  One lemma says what a write does, whether or not the client has
gone, and each action's proof cites it.  `ItemsClosed` and `ReasoningAnswered`
speak of what is on the client's screen, which `Honest` ties to the flags: an
item is open only until its tool has returned, which sets the trace that makes
the end of the stream close the response; and whatever a hop has seen of a text,
an item or a call the client has been sent, unless it has gone.  Three things
limit both: a retry forgets what the first attempt showed, a client that has
gone is sent nothing, and a connection the upstream resets ends the stream where
it is.  `ReasoningAnswered` has one more exception, which it names: a run that
has used up its hops says so in the output of `response.completed` alone.

*Request gate.*  `GateKept` says that who is served holds the gate and is in the
registry, that an entry nobody serves is of a client that has gone or of a
request whose retry had begun (`lost`), and that nobody who has ended keeps the
gate; what makes it inductive is that whoever is past the admission, in any of
six places, holds the gate (`HoldersInside`).  Then at most one thread is there
(`OneInside`), so that an entry it leaves or makes is nobody else's, and every
way out, which both leaves the place and the gate, keeps it.  Histories, models
and what clients do play no part.  That everybody who stays is answered to the
end has an invariant of its own (`AllInForm`), which is about each thread alone:
which head its client has been sent at each place, and so which answers are
whole there.

That the result of an escalation is read, and ends the round, is about what
`SandboxEscalation` makes of a history, which the second part of the module
says in lemmas, one for each helper: what is kept by a choice of indices put in
order (`InOrderIsOrder`, `FirstOf`), what the advisories add (`Advised`), where
the tail begins (`TailBegins`), what becomes of an item (`Microcompacted`), which
result is awaited and which denial is chosen (`AwaitedIs`, `DeniedIs`), and what
the rewriting leaves (`Rewritten`).  They rest on the least element of a set of
numbers (`WFMin`), so nothing is said by induction over a sequence.  The
invariant, `RoundInv`, has a part for each client, `Round`: at most one of its
threads is live, which means that its client still waits for it; until it is
prepared, that thread carries the client's history as it is; an escalation that
was answered is of a command that history has a first run of, and its entry is
pending; and a client that comes back, with nothing it abandoned under way, ends
its history with the result of an entry that is still there.  Another client's
steps leave it alone, because commands are not shared (`Elsewhere`), and a step
of one of its own threads is an instance of four generic ones (`WaitsOn`,
`ServesOn`, `Ends`, `MovesOn`), so that each action is proved once for the thread
and once for the client.  Both conditions in the properties come from attempts
at this proof: without `Unspoken` the result can be lost (section 6,
`ResultReplacesDenial`), and without `crossed` an abandoned request may take the
result, and with it the pending entry, before the request that its client waits
for.

*Memory store.*  What is committed is what some connection drafted, so `IInv`
says of the draft of the open transaction what it says of the file, and of each
thread what keeps its next write within those bounds (`SessionHas`,
`OperatorHas`, `ManagerHas`): the records it was given exist, a merged record is
not one of its own sources and is in the file when a source is superseded by it,
a session's id is unused, and who is about to commit holds the lock.  A merged
record may be put again, which is why `HistoryExplains` has its exception.
`PruneDraft` says that a draft of prune retires no durable record, whatever
others have done to it since the second look; `DurableSpared` is its commit.

*Web tool.*  A run costs what its counters say (`Spent`): a counter is compared
with the budget of the mode that asks, and no mode's budget is above a cap
(`BudgetsAre`), so no order of modes gets past it; a search asks no more queries
than the longest chain of fallbacks has members, and one (`ChainsAreShort`,
`FewAsked`).  What is cached under a key is never more than the key asked for
(`FitsKeys`), which makes a search that is answered from the cache fit the mode
that asks it.  `SearchStep` says what a search does as far as the properties can
tell, and each of them cites it: above all that a strict call has one candidate,
itself.  For `AdvertisedServed`, `advertised` gathers what every capabilities
call of the run has told the model, and `withdrawn` what a later fetch of the
guidance no longer had: a profile that was told strict is still strict when it
is searched, unless it was withdrawn.  It needs a hypothesis, `SourcesAgree`:
the capabilities read `search.json` before the policy and a search the policy
before `search.json`, so a profile that is strict in the former only would be
advertised and not served as strict.  The files in `config/default` satisfy it.

*Recall.*  `NotStarved` is about one moment, the answer, and about everything
that was read before it, so the invariant follows the call: as long as nothing
was written and no read has failed since it began (`calm`), what it has read is
of its own tiers and is still in the store as it was read, and each read that is
behind it has left out nothing of what the tier had to give (`ReadSoFar`).  Any
write of anybody ends that (`Disturbed`), which is one lemma.  When the packet
is made, every record it owes was found by the read of its own tier, because
within the limit neither order cuts anything (`NewestAll`, `RankedAll`, from the
size of a part of a finite set); the ranking of everything read cuts nothing
either, because what was read is of the mode's tiers and they hold no more than
the limit.

*Compaction.*  `CompactionInv` says of the client's history, beside the types:
only the first item can be a summary; no two items say the same fact, and none
says one that does not exist yet (`Tidy`); a call that is due is in the history
with nothing but calls and outputs after it (`Open`), and none is due while a
request is under way; and an output of the client's whose call was not trimmed
has it before it, with nothing but calls and outputs in between (`Runs`).
`Runs` is what keeps a call with its output: a tail never begins in the middle
of such a run (`TailStartIs`), and before the tail no output is left, only
remarks (`MicrocompactIs`).  Everything else is lemmas about the helpers, one
each, on three shapes: a sequence of which some places are kept (`KeptIs`),
texts that are joined (`JoinedIs`), and the rest of a history (`RestIs`,
`RestRuns`).  They are put together in `CompactOldIs` and `CompactAllIs`, which
say all that the properties need of a compaction.  For `TurnedBackOnce`:
`Tokens` is a sum over the places of a history, written as the size of a set of
pairs so that two histories can be compared without induction (`LighterItems`);
a summary that has become a message weighs no more than it did, and the loop
that trims ends within the target or with the items that are never trimmed
(`SummaryAndFew`).

What the attempts at these proofs changed: the first `SummaryCarriedOver` read
the history as it is sent, and is false, since an old output whose remark has a
phrase of the harness is dropped before the summary is written; it now reads
what a model would be given.  `TurnedBackOnce` is false without its two
conditions: `Roomy`, because the threshold is the client's, and one without room
for a summary and the items that are never trimmed (such as the 1 that the
dogfood runner sends) turns the request back each time; and `Moderate`, because
an item that is never trimmed may be larger than any threshold.

*Only model-checked.*  Liveness (`OperationsEnd`, `RecoveriesEnd`,
`ReloadsSettle`, `RequestEnds`), which is out of the prover's reach, and what
section 6 says that the code does not fulfil, which takes a behaviour to show.
Every invariant and action property of a passing run is a theorem, for every
value of the constants.  What is filtered, sorted, folded or summed is said
without recursion throughout (a selection of places in order, those of a set
that few come before, the least or greatest element of a finite set, the size of
a set of pairs), since induction over data is out of reach as well.

## 6. Where the code and its documents disagree

`recovery_race` expects a violation: `OneRecoveryAtATime`.  The trigger reads the
claim and sets it in two critical sections with probes in between; two requests
both execute, and the first to end releases the claim of the other, although
`docs/backend-manual-recovery-endpoint-policy.md:946` promises a 423.

The modules keep other statements of documents and comments that the code does
not fulfil.  No run lists them; adding one to the `INVARIANT`s (if it is an
action formula, to the `PROPERTY`s) of its module's configuration has TLC show
the behaviour, with the values of constants named beside it.

| Statement (module) | Said at | What happens |
|---|---|---|
| `DeadContainerNoticed` (BackendManager, with `CrashReports = FALSE`) | `docs/backend-lifecycle-control-plane.md:242` | after the start thread has reported healthy, nothing probes the container again, and no caller reaches the crash report |
| `StoppedMeansRemoved` (BackendManager) | docstring BM 1134, `docs/backend-lifecycle-control-plane.md:210`, 244 | `stopped` is shown although `docker rm -f` failed; only `last_error` tells of it |
| `ReadyIsStillServable` (BackendAdmission) | - | a stop claims the manager between two looks of a status computation, and the request is admitted to a container that is being removed |
| `AcceptedIsAdmitted` (StatusReport) | docstring of `_request_admission` in `qz_service_status.py` ("what /v1/responses would currently decide") | the summary never compares what was launched with what is selected: a status accepts for a selection that is not the loaded model, and the gate switches and holds instead of admitting |
| `OneModelInVram` (ModelSwitch) | `docs/bugs/dual-model-load-contract.md:95` | the loader of a triggered switch posts its load outside the gate, without waiting for its unloads and without seeing models that load (RR 818) |
| `StaleFailureCleared` (ModelSwitch) | comment RR 846 | `write_model_state(_sp, update_load_observation(...))` has its arguments swapped (RR 858); the `TypeError` is swallowed |
| `FinishedOnce` (ResponsesStream) | `docs/responses-stream-tool-state-contract.md` ("Finish once") | a read error after the relayed terminal event makes the request thread append a second one, or a second response |
| `FailuresEnd` (ResponsesStream) | `docs/streaming-event-mapper-audit.md:213` | when the retry raises, its `except ... as e` unbinds the `e` of the outer handler, whose text is used next (RR 4267); neither `response.failed` nor the removal from the registry is reached |
| `ReasoningAnsweredOnTheStream` (ResponsesStream) | docstring of `_stream_fallback_message` | the end by the limit of hops does not use it (RS 2759): after reasoning and hidden tool results nothing else was streamed |
| `NoStreamIsCut` (RequestGate) | `docs/streaming-event-mapper-audit.md`, "Missing stream failure marker": handled | the same failed retry, and a reset of the upstream while the model is ready, end the stream of a client that stays without `response.failed` and `[DONE]` |
| `CountsInFlight` (RequestGate) | docstring of `ActiveRequestTracker.count` | entries of clients that have gone and of failed retries are never removed, and `count()` counts them |
| `NoLateStatus` (RequestGate) | `docs/client-facing-availability-and-503-minimisation-audit.md:692` | a JSON answer with a status line is appended to an event stream whose head was sent during a wait (RR 3692) |
| `ResultReplacesDenial` (RequestGate) | `docs/proxy-transparent-intercept-contract.md:99` | the denied output has become a remark by the compaction of old results, which runs first; the rewriting finds no place for the result and drops it, so the model reads of neither (`qz_sandbox_escalation.py:281-318`) |
| `EscalatedOnce` (RequestGate, with `MCDeniedStarts` and `MCLongTurns`, for the client `s` alone) | `docs/proxy-transparent-intercept-contract.md:110-112` | the denial stays in the history the client keeps, and the entry that would recognise its result is popped by the turn that resolves it: the command is run outside the sandbox again every second turn (`qz_sandbox_escalation.py:100`) |
| `SelectionTriggered` (StatusReport) | `IMPLEMENTED_TRIGGER_ACTIONS` | the planner the trigger asks is never told the model, so `select_model` is always answered 409 (RR 1889-1907) |
| `ActiveProjectKept` (BrainCase, with `MCProjectClass`) | `docs/braincase-retention-policy.md` | a candidate that expired is promoted between prune's second look and its UPDATE, which has no condition on the status |
| `LabelIsStrict` (WebTool) | comment in `qz_tool_web.py` | the shipped profile `furry` falls back to `furry_fse`, which is strict, and what that returns is not filtered |
| `AdvertisedForGood` (WebTool) | docstring of `_profile_source_strict` | a capabilities call whose fetch fails empties the guidance (`qz_tool_web.py:1272`): a profile that the model was told to be strict is served by its fallbacks in the same run |
| `TextWithinMode` (WebTool) | `docs/search-config-contract.md` | the key of the retrieval cache lacks `max_chars`: a text cut for a larger mode is returned to a smaller one |
| `AlwaysSeesWhatIsStored` (Recall) | comment `qz_braincase_tools.py:922-924` | a hit on a candidate, which is never shown, keeps the tier from being listed |
| `Findable` (Recall) | comments of `put_state_record`, `_maybe_backfill_fts_index` | a put followed by a failure or a kill before the sync is never indexed: the index is rebuilt only when it is empty, and from a copy read before the lock is taken |
| `AccessCountsSurfaced` (Recall) | `qz_braincase_tools.py:832` | candidates and retired records that were read count as accessed too |
| `SummaryIsRead` (Compaction) | comment `qz_responses.py:717` | a summary that contains a phrase of the client's harness is dropped when it comes back as a message |
| `FallbackKeepsSummary` (Compaction) | - | the compaction without the model cuts an earlier summary like any other text |
| `PromptFits` (Compaction) | comment near `qz_responses.py:464` | limits "degrade gracefully for small windows" but have floors of 100,000 characters and 8,192 tokens |

Met while modelling, and not made into statements, since the model reproduces
the behaviour and no property depends on it, or nothing promises otherwise:

*Manager and status.*
`POST /qz/backend/{start,stop,restart}` (RR 2195) calls `getattr(mgr, action)`
and there is no `restart`.  A health probe that times out makes the report say
"rejected" while the gate admits.  A failed GPU check is reported as `ok` by the
backend taxonomy; its verdict is still shown during the next start.

*Recovery.*
`start_backend` counts as a success as soon as `start()` is accepted, so a
backend that fails later never closes the action.  The plan does not hold back
`refresh_catalog` while another recovery runs, the trigger does (423); the plan
for `clear_failure` ignores the wait, the trigger does not; with
`QZ_RECOVERY_BIND_LOCAL_ONLY=0` the plan still calls a remote request blocked.

*Model state.*
The state file's `last_good` can be lost to a stale write, and names the
selection at the end of a reload, not the model that was loaded (RR 2682).

*Stream.*
A stream that closes with neither a terminal event nor tool items is left
without either; `[DONE]` after reasoning alone tells the user nothing; a cut
terminal event is forwarded unreadable; a reset while the model is ready ends
the response silently.
A retry forgets which items were shown.  Output indexes and injected sequence
numbers may collide across hops.  Parallel calls after the first of a hop are
dropped.

*Requests.*
Only the first denied call of a history is escalated.  A request that its client
has abandoned pops the pending entry like any other: if it carries the result and
queues before the one its client waits for, the latter is sent back for a second
run once more.  Once the denied output
is old enough to be turned into a remark, the escalated call stays visible to
the model.  Correction notes and pending entries are consumed by a request that
then fails.  The note of an escalation says that it succeeded whatever the
result.  A denial in a request that is not streamed leaves a pending entry.
Nobody who queues at the gate is told anything, and there is no deadline.
The hops of a
request that is not streamed swallow the client's calls made beside one of the
proxy's.

*Compaction.*
The output limit and the time-out are in effect constants, although a comment
says "between 30 and 120 seconds".  The compaction inside a request never asks
the model, since `selected_model` has no `context_window`; so what
`compact_threshold` does to the budget is never used, and the depth starts at 1
again.  Recent items that are trimmed are in no summary, and a call may be
trimmed from before its output.  The other way about, a call may be kept without
its output: old outputs become remarks when a request is prepared and again when
it is compacted, and since thoughts have gone by then the two draw the line
between old and recent at different items.  A message between a call and its
output, or settings that keep fewer items than are preserved, would split the
pair.  The window is that of the named, the selected or the first model of the
catalog, not of the one that is loaded.

*Web tool.*
The caps are those of a run: the retry of a stream (RR 4242) counts afresh, so
that one POST may cost them twice.
`find_in_page` with a URL fetches outside the budget of page opens, and reads a
page known by its id however old it is.  A call refused for its budget leaves its
signature, so that a retry in a larger mode is refused as repeated; signatures
leave out categories, engines and `top_k`.  Failed searches and fetches are
cached like others.  The cached dictionary is filtered and relabelled in place.
Capabilities read `search.json` before the policy, searches the policy before
`search.json`.  What the provider's guidance calls strict is unknown until the
capabilities are asked for.  Refused and cached retrievals count.  The threshold
for fallbacks is that of the default mode in all modes.

*Memory store.*
`bc_update_tier` allows three tiers that recall does not list, and `bc_merge`
defaults to one of them, so such records are never recalled; its visibility
"operator" is never rendered.  The second put of a merge resets what was promoted
in between.  `braincase.impaction` passes its tags where `put_state_record` does
not look.  Tags that are patched are not indexed.  Recall limits before it filters
by status.  A failed commit is not rolled back.  `bc_merge` may mix domains, and
the powernap of an isolated session runs over all of them.

## 7. What is not modelled, and what comes next

Left out on purpose: texts, JSON layout, log formats and docker's arguments;
scores (native and file signals); the rewriting of a request that has no state
(policies, field names); catalog scans; reports; the operator scripts, which are
clients of the endpoints; schemas of tools and the parsing of pages and patches.
In the modelled parts: the failed candidate of the state file, which is only
displayed; the context length; a corrupt state file; requests refused for what
they are (authority, fields); endpoints that only read.  In the memory store:
domains, source references and links, hints about duplicates and conflicts, the
metrics, and how the pressure that starts a run is computed.  In the web tool:
HTTP itself, time, which is one step that outlives every cache, and guidance so
malformed that a search raises on it.  In
compaction: how well a model summarises (it is taken to leave out nothing it was
given), characters, for which facts stand, and advisories.  That an escalation
ends its round is stated for one life of the proxy (`ResultEndsTheRound`): what a
restart between the denial and the second run does is in the model, and is
`EscalatedOnce` of section 6.

What could come next:

1. `TelemetryBus`: emitters, bounded rings and a follower that resumes from the
   last number it saw, with an append-only log as the abstract specification.
   The sequence number is taken outside the lock that appends
   (`qz_telemetry.py:132`), so a follower may step over a late event.
2. The output indexes and sequence numbers of the stream across hops; the cache
   of the VRAM snapshot and its staleness.
3. A composition of `RequestGate` with `ResponsesStream` in one module: today the
   former has the ways a stream ends as `ServeStream`, which is checked against
   the latter by reading only.
