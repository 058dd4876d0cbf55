--------------------------- MODULE RecoveryTrigger ---------------------------
(***************************************************************************)
(* POST /qz/recovery/trigger (_handle_recovery_trigger and                 *)
(* _async_recovery_worker, proxy/qz_request_router.py) over the throttle   *)
(* RecoveryRuntimeState (proxy/qz_recovery_state.py) and the table of      *)
(* asynchronous jobs RecoveryJobStore (proxy/qz_recovery_jobs.py).         *)
(*                                                                         *)
(* The proxy serves every request on a thread of its own.  A thread reads  *)
(* the throttle several times before it claims it with mark_started, each  *)
(* time under the lock and never across two calls, so each call is one     *)
(* action here.  The thread of an asynchronous request plays the daemon    *)
(* thread it spawns as well: it only sends the 202 in between.             *)
(*                                                                         *)
(* Time is abstract: backoff[a] is the wait that was imposed and becomes 0 *)
(* when it is over.  Requests refused for what they are (authority,        *)
(* locality, fields, confirmation, async) touch nothing and are left out;  *)
(* so is the restart of the proxy, which empties everything.               *)
(***************************************************************************)
EXTENDS Naturals, Sequences, SequencesExt, FiniteSets

CONSTANTS
  Handlers,     (* request threads                                          *)
  Ids,          (* request ids: uuids, never in use twice at a time         *)
  NoId,         (* the empty _current_request_id                            *)
  Requested,    (* the actions requests ask for                             *)
  MaxAttempts,  (* _max_attempts                                            *)
  Schedule,     (* _backoff_schedule                                        *)
  MaxJobs       (* _max of the job table                                    *)

Safe == {"refresh_catalog", "clear_failure"}

Dangerous == {"start_backend", "restart_backend", "reload_selected_model",
              "select_model"}

AsyncSupported == {"reload_selected_model"}

Actions == Safe \cup Dangerous

ASSUME TriggerAssumption ==
  /\ IsFiniteSet(Handlers)
  /\ NoId \notin Ids
  /\ Requested \subseteq Actions
  /\ MaxAttempts \in Nat \ {0}
  /\ Schedule \in Seq(Nat \ {0}) /\ Schedule # <<>>
  /\ MaxJobs \in Nat \ {0}

VARIABLES
  inProgress,   (* _in_progress                                             *)
  current,      (* _current_request_id                                      *)
  attempts,     (* _attempts                                                *)
  backoff,      (* _backoff_until, as the wait that is left                 *)
  manual,       (* _manual_required                                         *)
  jobs,         (* the job table, oldest first                              *)
  pc,           (* where each thread is                                     *)
  req,          (* the request it serves: action and async                  *)
  id            (* its request id                                           *)

claim    == <<inProgress, current>>
throttle == <<attempts, backoff, manual>>
request  == <<req, id>>
vars     == <<claim, throttle, jobs, pc, request>>

-----------------------------------------------------------------------------
NoRequest == [action |-> "none", async |-> FALSE]

Requests == {r \in [action : Actions, async : BOOLEAN] :
               r.async => r.action \in AsyncSupported}

(* Threads past the last look at the throttle.                             *)
PastCheck == {"plan_progress", "accepted", "job_created", "job_started",
              "acting", "succeeded", "failed"}

(* Threads between mark_started and mark_completed or mark_failed.         *)
ExecutingPcs == {"job_started", "acting", "succeeded", "failed"}

Executing == {h \in Handlers : pc[h] \in ExecutingPcs}

Pcs == {"idle", "check_progress", "check_backoff", "plan_backoff",
        "job_done", "job_failed"} \cup PastCheck

(* Slip: an action that was closed is throttled only until its wait ends.  *)
ThrottledForATime(a) == backoff[a] > 0

Throttled(a) == manual[a] \/ backoff[a] > 0

JobStates == {"queued", "running", "completed", "failed"}

JobIds == {j.id : j \in ToSet(jobs)}

Goto(h, label) == pc' = [pc EXCEPT ![h] = label]

(* The thread answers and ends.                                            *)
Answer(h) ==
  /\ Goto(h, "idle")
  /\ req' = [req EXCEPT ![h] = NoRequest]
  /\ id' = [id EXCEPT ![h] = NoId]

Init ==
  /\ inProgress = FALSE
  /\ current = NoId
  /\ attempts = [a \in Actions |-> 0]
  /\ backoff = [a \in Actions |-> 0]
  /\ manual = [a \in Actions |-> FALSE]
  /\ jobs = <<>>
  /\ pc = [h \in Handlers |-> "idle"]
  /\ req = [h \in Handlers |-> NoRequest]
  /\ id = [h \in Handlers |-> NoId]

-----------------------------------------------------------------------------
(* RecoveryRuntimeState.                                                   *)

MarkStarted(i) ==
  /\ inProgress' = TRUE
  /\ current' = i

(* Slip: the request id outlives the flag.                                 *)
ReleasedKeepsId ==
  /\ inProgress' = FALSE
  /\ UNCHANGED current

Released ==
  /\ inProgress' = FALSE
  /\ current' = NoId

(* Slip: a success does not release the claim.                             *)
MarkCompletedKeepsClaim(a) ==
  /\ attempts' = [attempts EXCEPT ![a] = 0]
  /\ backoff' = [backoff EXCEPT ![a] = 0]
  /\ manual' = [manual EXCEPT ![a] = FALSE]
  /\ UNCHANGED claim

MarkCompleted(a) ==
  /\ Released
  /\ attempts' = [attempts EXCEPT ![a] = 0]
  /\ backoff' = [backoff EXCEPT ![a] = 0]
  /\ manual' = [manual EXCEPT ![a] = FALSE]

Wait(n) == Schedule[IF n <= Len(Schedule) THEN n ELSE Len(Schedule)]

MarkFailed(a) ==
  /\ Released
  /\ attempts' = [attempts EXCEPT ![a] = @ + 1]
  /\ IF attempts[a] + 1 > MaxAttempts
       THEN /\ manual' = [manual EXCEPT ![a] = TRUE]
            /\ backoff' = [backoff EXCEPT ![a] = 0]
       ELSE /\ backoff' = [backoff EXCEPT ![a] = Wait(attempts[a] + 1)]
            /\ UNCHANGED manual

(* Slip: the flags are cleared and the counts are not.                     *)
ClearKeepsCounts ==
  /\ Released
  /\ backoff' = [a \in Actions |-> 0]
  /\ manual' = [a \in Actions |-> FALSE]
  /\ UNCHANGED attempts

Clear ==
  /\ Released
  /\ attempts' = [a \in Actions |-> 0]
  /\ backoff' = [a \in Actions |-> 0]
  /\ manual' = [a \in Actions |-> FALSE]

(* RecoveryJobStore: create() prunes the oldest; marking a job that has    *)
(* been pruned does nothing.                                               *)
Create(i) ==
  LET all == Append(jobs, [id |-> i, state |-> "queued"])
  IN jobs' = IF Len(all) > MaxJobs THEN Tail(all) ELSE all

(* Slip: the newest job is marked, whose ever it is.                       *)
MarkNewestJob(i, s) ==
  jobs' = [n \in DOMAIN jobs |->
             IF n = Len(jobs) THEN [jobs[n] EXCEPT !.state = s] ELSE jobs[n]]

MarkJob(i, s) ==
  jobs' = [n \in DOMAIN jobs |->
             IF jobs[n].id = i THEN [jobs[n] EXCEPT !.state = s] ELSE jobs[n]]

-----------------------------------------------------------------------------
(* _handle_recovery_trigger.                                               *)

Receive(h) ==
  /\ pc[h] = "idle"
  /\ \E r \in Requests :
       r.action \in Requested /\ req' = [req EXCEPT ![h] = r]
  /\ Goto(h, "check_progress")
  /\ UNCHANGED <<claim, throttle, jobs, id>>

(* 423 recovery_in_progress.                                               *)
CheckProgress(h) ==
  /\ pc[h] = "check_progress"
  /\ IF inProgress THEN Answer(h)
                   ELSE Goto(h, "check_backoff") /\ UNCHANGED request
  /\ UNCHANGED <<claim, throttle, jobs>>

(* 429 backoff_active.  A safe action needs no plan.                       *)
CheckBackoff(h) ==
  /\ pc[h] = "check_backoff"
  /\ IF Throttled(req[h].action) THEN Answer(h)
     ELSE /\ Goto(h, IF req[h].action \in Safe THEN "accepted" ELSE "plan_backoff")
          /\ UNCHANGED request
  /\ UNCHANGED <<claim, throttle, jobs>>

(* The arguments of the planner are read one by one.                       *)
PlanBackoff(h) ==
  /\ pc[h] = "plan_backoff"
  /\ IF Throttled(req[h].action) THEN Answer(h)
                                 ELSE Goto(h, "plan_progress") /\ UNCHANGED request
  /\ UNCHANGED <<claim, throttle, jobs>>

(* Whether the state of the service and the requests in flight let the     *)
(* action pass, and whether a model is selected, is left open; a           *)
(* select_model never passes, because the planner is not told the model.   *)
PlanProgress(h) ==
  /\ pc[h] = "plan_progress"
  /\ \/ Answer(h)
     \/ /\ ~inProgress
        /\ req[h].action # "select_model"
        /\ Goto(h, "accepted")
        /\ UNCHANGED request
  /\ UNCHANGED <<claim, throttle, jobs>>

FreshId(i) == i \notin JobIds /\ \A h \in Handlers : id[h] # i

StartSync(h) ==
  /\ pc[h] = "accepted" /\ ~req[h].async
  /\ \E i \in Ids : FreshId(i) /\ id' = [id EXCEPT ![h] = i] /\ MarkStarted(i)
  /\ Goto(h, "acting")
  /\ UNCHANGED <<throttle, jobs, req>>

CreateJob(h) ==
  /\ pc[h] = "accepted" /\ req[h].async
  /\ \E i \in Ids : FreshId(i) /\ id' = [id EXCEPT ![h] = i] /\ Create(i)
  /\ Goto(h, "job_created")
  /\ UNCHANGED <<claim, throttle, req>>

StartAsync(h) ==
  /\ pc[h] = "job_created"
  /\ MarkStarted(id[h])
  /\ Goto(h, "job_started")
  /\ UNCHANGED <<throttle, jobs, request>>

RunJob(h) ==
  /\ pc[h] = "job_started"
  /\ MarkJob(id[h], "running")
  /\ Goto(h, "acting")
  /\ UNCHANGED <<claim, throttle, request>>

(* clear_failure empties the throttle and cannot fail; the other actions   *)
(* work on the rest of the proxy and may.                                  *)
Act(h) ==
  /\ pc[h] = "acting"
  /\ IF req[h].action = "clear_failure"
       THEN Clear /\ Goto(h, "succeeded")
       ELSE /\ \/ Goto(h, "succeeded")
               \/ Goto(h, "failed")
            /\ UNCHANGED <<claim, throttle>>
  /\ UNCHANGED <<jobs, request>>

Complete(h) ==
  /\ pc[h] = "succeeded"
  /\ MarkCompleted(req[h].action)
  /\ IF req[h].async THEN Goto(h, "job_done") /\ UNCHANGED request ELSE Answer(h)
  /\ UNCHANGED jobs

Fail(h) ==
  /\ pc[h] = "failed"
  /\ MarkFailed(req[h].action)
  /\ IF req[h].async THEN Goto(h, "job_failed") /\ UNCHANGED request ELSE Answer(h)
  /\ UNCHANGED jobs

FinishJob(h) ==
  /\ pc[h] \in {"job_done", "job_failed"}
  /\ MarkJob(id[h], IF pc[h] = "job_done" THEN "completed" ELSE "failed")
  /\ Answer(h)
  /\ UNCHANGED <<claim, throttle>>

BackoffExpires(a) ==
  /\ backoff[a] > 0
  /\ backoff' = [backoff EXCEPT ![a] = 0]
  /\ UNCHANGED <<claim, attempts, manual, jobs, pc, request>>

-----------------------------------------------------------------------------
Serve(h) ==
  \/ CheckProgress(h) \/ CheckBackoff(h) \/ PlanBackoff(h) \/ PlanProgress(h)
  \/ StartSync(h) \/ CreateJob(h) \/ StartAsync(h) \/ RunJob(h)
  \/ Act(h) \/ Complete(h) \/ Fail(h) \/ FinishJob(h)

Next ==
  \/ \E h \in Handlers : Receive(h) \/ Serve(h)
  \/ \E a \in Actions : BackoffExpires(a)

Spec == Init /\ [][Next]_vars

(* A thread that serves a request goes on until it has answered: every     *)
(* call it makes has a timeout.  Nobody has to send requests.              *)
Fairness == \A h \in Handlers : WF_vars(Serve(h))

LiveSpec == Spec /\ Fairness

-----------------------------------------------------------------------------
(* Type invariant.                                                         *)
TypeOK ==
  /\ inProgress \in BOOLEAN
  /\ current \in Ids \cup {NoId}
  /\ attempts \in [Actions -> Nat]
  /\ backoff \in [Actions -> Nat]
  /\ manual \in [Actions -> BOOLEAN]
  /\ jobs \in Seq([id : Ids, state : JobStates]) /\ Len(jobs) <= MaxJobs
  /\ pc \in [Handlers -> Pcs]
  /\ req \in [Handlers -> Requests \cup {NoRequest}]
  /\ id \in [Handlers -> Ids \cup {NoId}]

(* An action waits after a failure as long as the schedule says for that   *)
(* many failures in a row, and is closed exactly when it has failed more   *)
(* often than allowed; the two never mix, however the threads interleave.  *)
Escalation ==
  \A a \in Actions :
    /\ manual[a] <=> attempts[a] > MaxAttempts
    /\ backoff[a] > 0 =>
         attempts[a] \in 1..MaxAttempts /\ backoff[a] = Wait(attempts[a])

(* The claim is never left behind: while one is shown, the request it      *)
(* names is still being executed, so the 423 it causes will end.           *)
ClaimIsLive ==
  /\ inProgress <=> current # NoId
  /\ inProgress => \E h \in Executing : id[h] = current

(* A failing action is given up: beyond the allowed number it is tried     *)
(* only by threads that had looked at the throttle before it closed.       *)
AttemptsBounded ==
  \A a \in Actions :
    attempts[a] + Cardinality({h \in Handlers :
                     pc[h] \in PastCheck /\ req[h].action = a})
      <= MaxAttempts + Cardinality(Handlers)

(* A job that is shown as queued or running has a thread that will settle  *)
(* it, and such a thread's job, unless pruned, is shown as that.           *)
JobsTruthful ==
  \A n \in DOMAIN jobs :
    jobs[n].state \in {"queued", "running"} <=>
      \E h \in Handlers : req[h].async /\ id[h] = jobs[n].id

(* What a client is told of a job is true, and of a finished one stays     *)
(* true: a settled job is never settled again, it only disappears from the *)
(* table.                                                                  *)
JobsSettleOnce ==
  [][/\ JobsTruthful'
     /\ \A j \in ToSet(jobs) :
          j.state \in {"completed", "failed"} =>
            \A k \in ToSet(jobs') : k.id = j.id => k = j]_vars

Unsettled(i) ==
  \E j \in ToSet(jobs) : j.id = i /\ j.state \in {"queued", "running"}

(* A recovery in progress ends, and every asynchronous job is settled or   *)
(* gone from the table.                                                    *)
RecoveriesEnd ==
  /\ inProgress ~> ~inProgress
  /\ \A i \in Ids : Unsettled(i) ~> ~Unsettled(i)

-----------------------------------------------------------------------------
(* What the documents say and the code does not do.                        *)

(* backend-manual-recovery-endpoint-policy.md: 423 "another action is      *)
(* already running"; the comment at mark_started: "so concurrent requests  *)
(* get 423".                                                               *)
OneRecoveryAtATime == \A g, h \in Executing : g = h

=============================================================================
