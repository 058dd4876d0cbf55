---------------------------- MODULE RequestGate ----------------------------
(***************************************************************************)
(* proxy_json_api (proxy/qz_request_router.py): a POST from its arrival to *)
(* its answer.  Each request has a thread; it waits for the proxy to have  *)
(* started, queues for the class-wide request_gate, has a model chosen,    *)
(* waits for that model, is prepared (SandboxEscalation, compaction),      *)
(* enters the registry of active requests and is served.  Paths other than *)
(* /v1/responses leave the gate once a model is chosen.                    *)
(*                                                                         *)
(* A client sends its whole history each turn, and may go away at any time *)
(* and ask again while the thread of its first request goes on.  How a     *)
(* stream is served is ResponsesStream, how a model is switched            *)
(* ModelSwitch; here only their outcomes.                                  *)
(***************************************************************************)
EXTENDS SandboxEscalation, FiniteSets

CONSTANTS
  Clients,
  Threads,     (* slots for requests, each of one client                   *)
  Nobody,      (* no thread: the gate is free                              *)
  Owner,       (* the client of each slot                                  *)
  Kinds,       (* what a client asks for: stream or plain (/v1/responses), *)
               (* other (another path)                                     *)
  Models,
  Wants,       (* the model a client names                                 *)
  OwnCalls,    (* the commands each client may be given to run             *)
  Compacts,    (* the clients that send compact_threshold                  *)
  Leavers,     (* the clients that may close their connection early        *)
  Says,        (* what the first run of a command may say                  *)
  Starts,      (* the histories a client may begin with                    *)
  Turns,       (* bound: requests of each client                           *)
  MaxRestarts, (* bound: restarts of the proxy                             *)
  MaxHops      (* WEB_SEARCH_MAX_HOPS                                      *)

ASSUME GateAssumption ==
  /\ Nobody \notin Threads
  /\ Owner \in [Threads -> Clients]
  /\ Kinds \in [Clients -> SUBSET {"stream", "plain", "other"}]
  /\ Wants \in [Clients -> Models]
  /\ OwnCalls \in [Clients -> SUBSET Calls]
  /\ \A c, d \in Clients : c # d => OwnCalls[c] \cap OwnCalls[d] = {}
  /\ \A c \in Clients : IsFiniteSet(OwnCalls[c])
  /\ Compacts \subseteq Clients /\ Leavers \subseteq Clients
  /\ Says \subseteq Texts \ {"advice"}
  /\ Starts \in [Clients -> SUBSET Seq(Items)]
  /\ \A c \in Clients : \A h \in Starts[c] : OfCalls(h, OwnCalls[c]) /\ RerunsFollow(h)
  /\ Turns \in [Clients -> Nat] /\ MaxRestarts \in Nat /\ MaxHops \in Nat \ {0}

VARIABLES
  up,        (* the initialization state of the proxy                      *)
  model,     (* the selected model and whether it is loaded                *)
  gate,      (* the holder of request_gate                                 *)
  pending,   (* SandboxEscalationManager._pending                          *)
  registry,  (* ACTIVE_REQUESTS: the requests it lists                     *)
  lost,      (* of them, those whose client has gone or whose retry has    *)
             (* begun.  Only the properties speak of it.                   *)
  th,        (* the threads                                                *)
  client,    (* the histories the clients keep                             *)
  restarts

vars == <<up, model, gate, pending, registry, lost, th, client, restarts>>

Places == {"free", "startup", "queued", "assess", "held", "waiting",
           "prepare", "budget", "serve", "through", "ended"}
Answers == {"nothing", "failed", "refusal", "compacted", "escalation", "served",
            "said", "cut"}

(* A request, by its request_id.                                           *)
Requests == Clients \X Nat

(* said: an answer without commands for the client; cut: a stream that     *)
(* stops without a terminal event and [DONE].  turn: which request of its  *)
(* client it is.  head: what the client has been sent; mixed is a status   *)
(* line and JSON after the head of an event stream.  fixed: the escalation *)
(* that the history of this request resolves.  run: whether the stream is  *)
(* relayed for the first time, has been broken by the upstream, or is      *)
(* relayed once more after a recovery.                                     *)
Locals == [at : Places, kind : {"stream", "plain", "other"}, items : Seq(Items),
           head : {"none", "sse", "json", "mixed"}, got : Answers, gone : BOOLEAN,
           hop : 0 .. MaxHops - 1, fixed : Calls \cup {NoCall}, turn : Nat,
           run : {"first", "broken", "retry"}]

Idle == [at |-> "free", kind |-> "plain", items |-> <<>>, head |-> "none",
         got |-> "nothing", gone |-> FALSE, hop |-> 0, fixed |-> NoCall,
         turn |-> 0, run |-> "first"]

(* crossed: when the client asked for what it was told last, or, after an  *)
(* escalation, for that, requests that it had abandoned were still on      *)
(* their way.  Only the properties speak of it.                            *)
Histories == [items : Seq(Items), turns : Nat, last : Answers, crossed : BOOLEAN]

TypeOK ==
  /\ up \in {"starting", "ready", "failed"}
  /\ model \in [key : Models, phase : {"ready", "loading", "failed"}]
  /\ gate \in Threads \cup {Nobody}
  /\ pending \subseteq Calls
  /\ registry \subseteq Requests /\ lost \subseteq Requests
  /\ th \in [Threads -> Locals]
  /\ client \in [Clients -> Histories]
  /\ restarts \in 0 .. MaxRestarts

Init ==
  /\ up = "starting"
  /\ model \in [key : Models, phase : {"ready", "loading"}]
  /\ gate = Nobody /\ pending = {} /\ registry = {} /\ lost = {}
  /\ th = [t \in Threads |-> Idle]
  /\ \E start \in [Clients -> UNION {Starts[c] : c \in Clients}] :
       /\ \A c \in Clients : start[c] \in Starts[c]
       /\ client = [c \in Clients |-> [items |-> start[c], turns |-> 0,
                                       last |-> "nothing", crossed |-> FALSE]]
  /\ restarts = 0

-----------------------------------------------------------------------------
StreamOf(t) == th[t].kind = "stream"

To(t, place) == th' = [th EXCEPT ![t].at = place]

(* The thread ends, unnoticed if its client has gone.                      *)
Ended(l, answer) ==
  IF l.gone THEN Idle
  ELSE [l EXCEPT !.at = "ended", !.got = answer, !.items = <<>>, !.hop = 0]

(* _send_json: it does not look at what has been sent before, and does not *)
(* mind that the client has gone.                                          *)
WithJson(l, answer) ==
  Ended([l EXCEPT !.head = IF @ = "sse" THEN "mixed" ELSE "json"], answer)

EndsJson(t, answer) == th' = [th EXCEPT ![t] = WithJson(@, answer)]

(* Slip: the failure is only logged.                                       *)
EndsUnsaid(t) == th' = [th EXCEPT ![t] = Ended(@, "nothing")]

(* response.failed and [DONE].                                             *)
EndsFailed(t) == th' = [th EXCEPT ![t] = Ended(@, "failed")]

Leaves(t) == gate' = IF gate = t THEN Nobody ELSE gate

(* A write to a client that has gone raises, and the thread unwinds.       *)
Raises(t) ==
  /\ th[t].gone /\ StreamOf(t)
  /\ th' = [th EXCEPT ![t] = Ended(@, "nothing")]

ReadyFor(t) == model.phase = "ready" /\ model.key = Wants[Owner[t]]

-----------------------------------------------------------------------------
(* The request arrives.                                                    *)
Arrive(t) ==
  LET c == Owner[t]
      abandoned == \E u \in Threads : Owner[u] = c /\ th[u].gone
      start(kind, place, head) ==
        [Idle EXCEPT !.at = place, !.kind = kind, !.items = client[c].items,
                     !.head = head, !.turn = client[c].turns + 1]
  IN  /\ th[t].at = "free" /\ client[c].turns < Turns[c]
      /\ t = CHOOSE u \in Threads : Owner[u] = c /\ th[u].at = "free"
      /\ \A u \in Threads : Owner[u] = c => th[u].at = "free" \/ th[u].gone
      /\ client' = [client EXCEPT ![c].turns = @ + 1,
                       ![c].crossed = abandoned \/ (@ /\ client[c].last = "escalation")]
      /\ \E kind \in Kinds[c] :
           \/ /\ up = "ready"
              /\ th' = [th EXCEPT ![t] = start(kind, "queued", "none")]
           \/ /\ up # "ready" /\ kind = "stream"
              /\ th' = [th EXCEPT ![t] = start(kind, "startup", "sse")]
           \/ /\ up # "ready" /\ kind = "plain"
              /\ th' = [th EXCEPT ![t] = start(kind, "startup", "none")]
           \/ /\ up # "ready" /\ kind = "other"
              /\ th' = [th EXCEPT ![t] = WithJson(start(kind, "startup", "none"), "refusal")]
      /\ UNCHANGED <<up, model, gate, pending, registry, lost, restarts>>

(* The wait for the proxy to start: it ends well, or with a refusal in the *)
(* form the client expects, when the start fails or time is up.            *)
AwaitStartup(t) ==
  /\ th[t].at = "startup"
  /\ \/ up = "ready" /\ To(t, "queued")
     \/ up # "ready" /\ StreamOf(t) /\ EndsFailed(t)
     \/ up # "ready" /\ ~ StreamOf(t) /\ EndsJson(t, "refusal")
     \/ Raises(t)
  /\ UNCHANGED <<up, model, gate, pending, registry, lost, client, restarts>>

(* gate.acquire(): as long as it takes; nothing is written meanwhile.      *)
(* Then the catalog, which may have changed, knows the model or not; other *)
(* paths go on without the gate.                                           *)
Admit(t) ==
  /\ th[t].at = "queued" /\ gate = Nobody
  /\ \/ th[t].kind # "other" /\ To(t, "assess") /\ gate' = t
     \/ th[t].kind = "other" /\ To(t, "through") /\ UNCHANGED gate
     \/ EndsJson(t, "refusal") /\ UNCHANGED gate
  /\ UNCHANGED <<up, model, pending, registry, lost, client, restarts>>

(* Another path is forwarded without the gate.  The backend cannot be      *)
(* reached: 502; of /v1/responses alone a failure of the backend is noted. *)
Unreachable(t) == th[t].at = "through" /\ EndsJson(t, "refusal")

(* What the backend answers is sent on, whatever its status.               *)
Forwarded(t) == th[t].at = "through" /\ EndsJson(t, "served")

Through(t) ==
  /\ Unreachable(t) \/ Forwarded(t)
  /\ UNCHANGED <<up, model, gate, pending, registry, lost, client, restarts>>

(* The wait a streaming client is given, its head sent; a refusal if not.  *)
Waits(t) ==
  th' = [th EXCEPT ![t].at = IF StreamOf(t) THEN "held" ELSE "waiting",
                   ![t].head = IF StreamOf(t) THEN "sse" ELSE @]

Assess(t) ==
  LET wanted == Wants[Owner[t]]
  IN  /\ th[t].at = "assess"
      /\ \/ /\ ReadyFor(t) /\ To(t, "prepare") /\ UNCHANGED <<model, gate>>
         \/ /\ model.key # wanted  (* _auto_trigger_model_switch_nonblocking *)
            /\ model' = [key |-> wanted, phase |-> "loading"]
            /\ Waits(t) /\ UNCHANGED gate
         \/ /\ model.phase = "loading"
            /\ Waits(t) /\ UNCHANGED <<model, gate>>
         \/ /\ ~ ReadyFor(t) /\ model.phase # "loading"
            /\ EndsJson(t, "refusal") /\ Leaves(t) /\ UNCHANGED model
         \/ /\ StreamOf(t) /\ Raises(t) /\ Leaves(t) /\ UNCHANGED model
      /\ UNCHANGED <<up, pending, registry, lost, client, restarts>>

(* The hold-open, and the wait of a request that is not streamed, end with *)
(* the model ready, failed, or with the deadline.                          *)
AwaitModel(t) ==
  /\ th[t].at \in {"held", "waiting"}
  /\ \/ ReadyFor(t) /\ To(t, "prepare") /\ UNCHANGED gate
     \/ ~ ReadyFor(t) /\ th[t].at = "held" /\ EndsFailed(t) /\ Leaves(t)
     \/ ~ ReadyFor(t) /\ th[t].at = "waiting" /\ EndsJson(t, "refusal") /\ Leaves(t)
     \/ Raises(t) /\ Leaves(t)
  /\ UNCHANGED <<up, model, pending, registry, lost, client, restarts>>

-----------------------------------------------------------------------------
(* A stream made up of one call: the command, to be run without sandbox.   *)
SentBack(l, c) == Ended([l EXCEPT !.head = "sse", !.fixed = c], "escalation")

(* Advisories, compaction of old results, and the escalation: a result     *)
(* that is awaited is put in its place; otherwise the first denial is sent *)
(* back to a streaming client, whose request ends there.  A write that     *)
(* fails is swallowed, and the request goes on as it was; a denial of a    *)
(* request that is not streamed is noted and goes on too.                  *)
Prepare(t) ==
  LET items == Microcompact(WithAdvisories(th[t].items))
      back == Awaited(items, pending)
      denied == Denied(items)
      onward(i) == [th[t] EXCEPT !.at = "budget", !.items = i, !.fixed = back]
  IN  /\ th[t].at = "prepare"
      /\ \/ /\ back # NoCall
            /\ pending' = pending \ {back}
            /\ th' = [th EXCEPT ![t] = onward(Rewrite(items, back))]
            /\ UNCHANGED gate
         \/ /\ back = NoCall /\ denied # NoCall
            /\ pending' = pending \cup {denied}
            /\ \/ /\ StreamOf(t)
                  /\ th' = [th EXCEPT ![t] = SentBack(@, denied)]
                  /\ Leaves(t)
               \/ /\ StreamOf(t) => th[t].gone
                  /\ th' = [th EXCEPT ![t] = onward(items)]
                  /\ UNCHANGED gate
         \/ /\ back = NoCall /\ denied = NoCall
            /\ th' = [th EXCEPT ![t] = onward(items)]
            /\ UNCHANGED <<pending, gate>>
      /\ UNCHANGED <<up, model, registry, lost, client, restarts>>

(* Above the client's threshold, the answer is a compaction of its         *)
(* history, as JSON whatever the client expects.                           *)
Compact(t) ==
  /\ th[t].at = "budget" /\ Owner[t] \in Compacts
  /\ EndsJson(t, "compacted") /\ Leaves(t)
  /\ UNCHANGED <<up, model, pending, registry, lost, client, restarts>>

(* ActiveRequestTracker: begin(), and finish().                            *)
Request(t) == <<Owner[t], th[t].turn>>

Register(t) ==
  /\ registry' = registry \cup {Request(t)}
  /\ lost' = IF th[t].gone THEN lost \cup {Request(t)} ELSE lost

Finish(t) ==
  /\ registry' = registry \ {Request(t)}
  /\ lost' = lost \ {Request(t)}

(* The request is registered, and the head of a stream sent, outside the   *)
(* try block: if that raises, the entry stays.                             *)
Begin(t) ==
  /\ th[t].at = "budget"
  /\ Register(t)
  /\ \/ /\ th' = [th EXCEPT ![t].at = "serve",
                            ![t].head = IF StreamOf(t) THEN "sse" ELSE @]
        /\ UNCHANGED gate
     \/ th[t].head = "none" /\ Raises(t) /\ Leaves(t)
  /\ UNCHANGED <<up, model, pending, client, restarts>>

(* How a stream ends, as ResponsesStream has it: with its terminal event   *)
(* and [DONE], with those of a failure, or as the upstream has left it.    *)
(* The handler of a retry that fails does not get as far as the failure.   *)
StreamEnds(t) ==
  \/ th' = [th EXCEPT ![t] = Ended(@, "served")]
  \/ th[t].run # "retry" /\ EndsFailed(t)
  \/ th[t].run # "first" /\ th' = [th EXCEPT ![t] = Ended(@, "cut")]

(* A write to a client that has gone raises, and so does the handler of    *)
(* the failed retry, which reads a variable that is no longer bound:       *)
(* finish() is not reached.                                                *)
StreamUnwinds(t) ==
  /\ th[t].gone \/ th[t].run = "retry"
  /\ th' = [th EXCEPT ![t] = Ended(@, "cut")]
  /\ UNCHANGED <<registry, lost>>

(* Slip: a stream that ends by itself is not taken out of the registry.    *)
ServeStreamListed(t) ==
  /\ th[t].at = "serve" /\ StreamOf(t)
  /\ \/ StreamEnds(t) /\ UNCHANGED <<registry, lost>>
     \/ StreamUnwinds(t)
  /\ Leaves(t)
  /\ UNCHANGED <<up, model, pending, client, restarts>>

ServeStream(t) ==
  /\ th[t].at = "serve" /\ StreamOf(t)
  /\ \/ StreamEnds(t) /\ Finish(t)
     \/ StreamUnwinds(t)
  /\ Leaves(t)
  /\ UNCHANGED <<up, model, pending, client, restarts>>

(* The hold-open after a failure finds the model ready again.              *)
RetryStream(t) ==
  /\ th[t].at = "serve" /\ StreamOf(t) /\ th[t].run # "retry"
  /\ th' = [th EXCEPT ![t].run = "retry"]
  /\ lost' = lost \cup {Request(t)}
  /\ UNCHANGED <<up, model, gate, pending, registry, client, restarts>>

(* _run_responses_locally, one hop: what the model calls, of the tools of  *)
(* the proxy and of the client.  As long as it calls one of the proxy, the *)
(* calls it made beside it go back to it without an answer, and the client *)
(* never learns of them; with the hops used up the client is told so.      *)
HopPlain(t) ==
  \E calls \in SUBSET {"proxy", "client"} :
    LET last == th[t].hop = MaxHops - 1 IN
    \/ "proxy" \in calls /\ ~ last /\ th' = [th EXCEPT ![t].hop = @ + 1]
    \/ "proxy" \in calls /\ last /\ EndsJson(t, "said")
    \/ "proxy" \notin calls /\ EndsJson(t, IF calls = {} THEN "said" ELSE "served")

(* An answer, or an error of the upstream or of the hops (502).            *)
ServePlain(t) ==
  /\ th[t].at = "serve" /\ ~ StreamOf(t)
  /\ HopPlain(t) \/ EndsJson(t, "refusal")
  /\ IF th'[t].at = "serve" THEN UNCHANGED <<registry, lost, gate>>
     ELSE Finish(t) /\ Leaves(t)
  /\ UNCHANGED <<up, model, pending, client, restarts>>

-----------------------------------------------------------------------------
(* The client reads its answer and keeps what belongs to its history: what *)
(* the model said, with or without commands it has the client run, or the  *)
(* escalated run.  After a failure it asks again with the same history.    *)
Took(c, more, l) ==
  [client[c] EXCEPT !.items = IF l.got = "compacted" THEN <<Talk>> ELSE @ \o more,
                    !.last = l.got]

Fresh(c) == {k \in OwnCalls[c] : ~ Contains(client[c].items, Call(k, FALSE))}

Receive(t) ==
  LET c == Owner[t]
      l == th[t]
      takes(more) == client' = [client EXCEPT ![c] = Took(c, more, l)]
  IN  /\ l.at = "ended"
      /\ th' = [th EXCEPT ![t] = Idle]
      /\ \/ l.got \in {"served", "said"} /\ takes(<<Talk>>)
         \/ /\ l.got = "served"
            /\ \E new \in SUBSET Fresh(c) : \E text \in [new -> Says] :
                 takes(LET k == SetToSeq(new)
                       IN  [i \in DOMAIN k |-> Call(k[i], FALSE)]
                             \o [i \in DOMAIN k |-> Output(k[i], FALSE, text[k[i]])])
         \/ /\ l.got = "escalation"
            /\ \E text \in {"ok", "readonly"} :
                 takes(<<Call(l.fixed, TRUE), Output(l.fixed, TRUE, text)>>)
         \/ l.got \notin {"served", "said", "escalation"} /\ takes(<<>>)
      /\ UNCHANGED <<up, model, gate, pending, registry, lost, restarts>>

ClientGoes(t) ==
  /\ Owner[t] \in Leavers /\ th[t].at \notin {"free", "ended"} /\ ~ th[t].gone
  /\ th' = [th EXCEPT ![t].gone = TRUE]
  /\ client' = [client EXCEPT ![Owner[t]].last = "nothing"]
  /\ lost' = IF th[t].at = "serve" THEN lost \cup {Request(t)} ELSE lost
  /\ UNCHANGED <<up, model, gate, pending, registry, restarts>>

-----------------------------------------------------------------------------
(* External: the start of the proxy, the backend, the operator.            *)
StartupEnds ==
  /\ up = "starting" /\ up' \in {"ready", "failed"}
  /\ UNCHANGED <<model, gate, pending, registry, lost, th, client, restarts>>

LoadEnds ==
  /\ model.phase = "loading"
  /\ model' \in [key : {model.key}, phase : {"ready", "failed"}]
  /\ UNCHANGED <<up, gate, pending, registry, lost, th, client, restarts>>

(* The upstream of a stream resets it, or closes it before its end.        *)
UpstreamBreaks(t) ==
  /\ th[t].at = "serve" /\ StreamOf(t) /\ th[t].run = "first"
  /\ th' = [th EXCEPT ![t].run = "broken"]
  /\ UNCHANGED <<up, model, gate, pending, registry, lost, client, restarts>>

(* The backend goes down, or a model is selected (by the operator, without *)
(* the gate) and loads.                                                    *)
BackendFails ==
  /\ model.phase = "ready" /\ model' = [model EXCEPT !.phase = "failed"]
  /\ UNCHANGED <<up, gate, pending, registry, lost, th, client, restarts>>

Selected ==
  /\ model.phase # "loading"
  /\ \E m \in Models : model' = [key |-> m, phase |-> "loading"]
  /\ UNCHANGED <<up, gate, pending, registry, lost, th, client, restarts>>

(* The proxy restarts; its clients find their connections closed.          *)
Restart ==
  /\ restarts < MaxRestarts
  /\ restarts' = restarts + 1
  /\ up' = "starting" /\ gate' = Nobody /\ pending' = {}
  /\ registry' = {} /\ lost' = {}
  /\ th' = [t \in Threads |-> Idle]
  /\ client' = [c \in Clients |-> [client[c] EXCEPT !.last = "nothing"]]
  /\ UNCHANGED model

Step(t) ==
  \/ AwaitStartup(t) \/ Admit(t) \/ Through(t) \/ Assess(t)
  \/ AwaitModel(t) \/ Prepare(t) \/ Compact(t) \/ Begin(t)
  \/ ServeStream(t) \/ RetryStream(t) \/ ServePlain(t)

Environment ==
  \/ StartupEnds \/ LoadEnds \/ BackendFails \/ Selected \/ Restart
  \/ \E t \in Threads : Arrive(t) \/ Receive(t) \/ ClientGoes(t) \/ UpstreamBreaks(t)

Next == Environment \/ \E t \in Threads : Step(t)

Spec == Init /\ [][Next]_vars

-----------------------------------------------------------------------------
(* A request that is served is in the registry and holds the gate: what    *)
(* the recovery planner counts and what a reload waits for are the same    *)
(* request.                                                                *)
ServedUnderGate ==
  \A t \in Threads :
    th[t].at = "serve" => Request(t) \in registry /\ gate = t

(* An entry of a request that is over, which count() counts for as long as *)
(* the proxy lives, is of one whose client had gone or whose retry had     *)
(* begun; every other is of a request that is served.                      *)
OthersAreServed ==
  \A r \in registry \ lost :
    \E t \in Threads : Request(t) = r /\ th[t].at = "serve"

(* The gate is held by a thread that is on its way; none that has ended    *)
(* keeps it from those that queue.                                         *)
GateHeldByTheLiving ==
  gate # Nobody => th[gate].at \in {"assess", "held", "waiting",
                                    "prepare", "budget", "serve"}

GateKept == ServedUnderGate /\ OthersAreServed /\ GateHeldByTheLiving

(* What the model reads after an escalation: nothing of the second run, at *)
(* most one output of the command, and, if nothing has been said since its *)
(* first run, the result of the second; the compaction of old results has  *)
(* not lost one of the two.                                                *)
ResultReachesModel ==
  \A t \in Threads :
    LET items == th[t].items
        c == th[t].fixed
        told == client[Owner[t]].items
        result(k) == IsOutput(items[k]) /\ Of(items[k], c, FALSE)
    IN  th[t].at = "serve" /\ c # NoCall
          => /\ \A k \in DOMAIN items : ~ Of(items[k], c, TRUE)
             /\ \A j, k \in DOMAIN items : result(j) /\ result(k) => j = k
             /\ ~ th[t].gone /\ Unspoken(told, c)
                  => \E k \in DOMAIN items :
                       result(k) /\ Contains(told, Output(c, TRUE, items[k].text))

(* The loop that must not happen: a client that comes back with the result *)
(* of an escalation is not sent another by the same life of the proxy,     *)
(* unless a request it had abandoned may have taken the result first.      *)
ResultEndsTheRound ==
  \A t \in Threads :
    LET c == client[Owner[t]]
    IN  th[t].at = "ended" /\ c.last = "escalation" /\ ~ c.crossed
          => th[t].got # "escalation"

(* An answer is whole and of the form that was begun: an event stream ends *)
(* with a terminal event and [DONE], JSON for a client that wants a stream *)
(* (after its head or without) is a refusal or a compaction, and one that  *)
(* does not is never sent the head of a stream.                            *)
Whole(l) ==
  \/ /\ l.kind = "stream" /\ l.head = "sse"
     /\ l.got \in {"served", "failed", "escalation"}
  \/ /\ l.kind = "stream" /\ l.head \in {"json", "mixed"}
     /\ l.got \in {"refusal", "compacted"}
  \/ /\ l.kind # "stream" /\ l.head = "json"
     /\ l.got \in {"refusal", "compacted", "served", "said"}

(* Whoever stays is answered to the end.  The one stream that is cut is    *)
(* one that its upstream broke, or that was being retried.                 *)
StayersAnswered ==
  \A t \in Threads :
    th[t].at = "ended" =>
      \/ Whole(th[t])
      \/ th[t].got = "cut" /\ StreamOf(t) /\ th[t].run # "first"

-----------------------------------------------------------------------------
(* What the documents say and the code does not do.                        *)

(* proxy-transparent-intercept-contract.md: a second attempt is never      *)
(* triggered, even if the proxy restarts.  It is, every second turn: the   *)
(* history keeps the first denial, and the entry that recognises it is     *)
(* popped by the turn that resolves it.  MCDeniedStarts shows it.          *)
EscalatedOnce ==
  \A c \in Clients, k \in Calls :
    Len(SelectSeq(client[c].items, LAMBDA i : IsOutput(i) /\ Of(i, k, TRUE))) <= 1

(* proxy-transparent-intercept-contract.md: the output of the denied run is *)
(* replaced by the result of the second.  If the compaction of old results *)
(* has made a remark of the former first, the latter is dropped, and the   *)
(* model reads of neither.                                                 *)
ResultReplacesDenial ==
  \A t \in Threads :
    th[t].at = "serve" /\ th[t].fixed # NoCall
      => \E k \in DOMAIN th[t].items :
           IsOutput(th[t].items[k]) /\ Of(th[t].items[k], th[t].fixed, FALSE)

(* streaming-event-mapper-audit.md, "Missing stream failure marker":       *)
(* handled.  A retry that fails, and a reset of the upstream while the     *)
(* model is ready, end the stream of a client that stays without           *)
(* response.failed and [DONE].                                             *)
NoStreamIsCut == \A t \in Threads : th[t].at = "ended" => th[t].got # "cut"

(* qz_active_requests.py: "Return the current number of in-flight          *)
(* requests", "In-flight model request tracking".  Entries outlive their   *)
(* requests.                                                               *)
CountsInFlight ==
  \A r \in registry : \E t \in Threads : Request(t) = r /\ th[t].at = "serve"

(* client-facing-availability-and-503-minimisation-audit.md: a failure     *)
(* after the head of a stream is response.failed and [DONE], not a late    *)
(* 503.                                                                    *)
NoLateStatus == \A t \in Threads : th[t].head # "mixed"
=============================================================================
