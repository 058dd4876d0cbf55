--------------------------- MODULE ResponsesStream ---------------------------
(* One streamed POST /v1/responses from its registration to its end: the   *)
(* request thread (proxy_json_api, qz_request_router.py), the relay of the *)
(* upstream stream hop by hop (ResponsesStreamRuntime.run,                 *)
(* qz_responses_stream.py), the watchdog, local tools, the repair of an    *)
(* answer that is only reasoning, and one retry after a recovery.          *)
(*                                                                         *)
(* A read of the upstream is one action: an event that arrives, the end of *)
(* the stream, an error or a time-out of the socket.  The upstream is      *)
(* external and may stop anywhere, but it keeps the grammar of its stream: *)
(* items, one terminal event, [DONE].  A write fails when the client has   *)
(* gone.                                                                   *)
EXTENDS Naturals

CONSTANTS MaxHops,        \* max_continuation_hops
          RepairHops,     \* empty_answer_repair_hops
          NoOutputWatch,  \* whether stream_no_output_timeout_s is positive
          TerminalWatch   \* whether stream_terminal_timeout_s is positive

ASSUME HopsAssumption ==
  /\ MaxHops \in Nat \ {0}
  /\ RepairHops \in Nat
  /\ NoOutputWatch \in BOOLEAN
  /\ TerminalWatch \in BOOLEAN

VARIABLES
  pc,          \* what the request thread does
  attempt,     \* 2 once the request has been retried after a recovery
  run,         \* StreamRunState and the locals of run()
  hs,          \* StreamHopState and StreamWatchdogState of the current hop
  upstream,    \* what the upstream may still send in this hop
  raised,      \* the exception that ended the run
  registered,  \* the request is in ACTIVE_REQUESTS
  gone,        \* the client has closed the connection
  wire         \* what the client has received

vars == <<pc, attempt, run, hs, upstream, raised, registered, gone, wire>>

Steps == {"start", "hop", "reading", "executing", "returned", "raised",
          "recovering", "failing", "end"}

(* ClientStreamDisconnected, ConnectionResetError, HTTPError of 500 and    *)
(* more, and the rest.                                                     *)
Exceptions == {"client", "reset", "http5xx", "other"}

FreshRun == [hop |-> 0, repairs |-> 0, pending |-> FALSE, repairing |-> FALSE,
             started |-> FALSE, terminal |-> FALSE, done |-> FALSE,
             trace |-> FALSE]

FreshHop == [event |-> FALSE, reasoned |-> FALSE, text |-> FALSE,
             message |-> FALSE, item |-> FALSE, call |-> FALSE,
             terminal |-> FALSE, overdue |-> FALSE]

TypeOK ==
  /\ pc \in Steps
  /\ attempt \in 1..2
  /\ run \in [hop: 0..(MaxHops + RepairHops), repairs: 0..RepairHops,
              pending: BOOLEAN, repairing: BOOLEAN, started: BOOLEAN,
              terminal: BOOLEAN, done: BOOLEAN, trace: BOOLEAN]
  /\ hs \in [event: BOOLEAN, reasoned: BOOLEAN, text: BOOLEAN,
             message: BOOLEAN, item: BOOLEAN, call: BOOLEAN,
             terminal: BOOLEAN, overdue: BOOLEAN]
  /\ upstream \in {"open", "ended", "closed"}
  /\ raised \in Exceptions \cup {"none"}
  /\ registered \in BOOLEAN
  /\ gone \in BOOLEAN
  /\ wire \in [starts: 0..2, ends: 0..4, dones: 0..4, told: BOOLEAN,
               shown: BOOLEAN, open: BOOLEAN, call: BOOLEAN, limit: BOOLEAN]

Init ==
  /\ pc = "start"
  /\ attempt = 1
  /\ run = FreshRun
  /\ hs = FreshHop
  /\ upstream = "closed"
  /\ raised = "none"
  /\ registered = FALSE
  /\ gone = FALSE
  /\ wire = [starts |-> 0, ends |-> 0, dones |-> 0, told |-> FALSE,
             shown |-> FALSE, open |-> FALSE, call |-> FALSE,
             limit |-> FALSE]

-----------------------------------------------------------------------------
(* Writing to the client.                                                  *)

Silently(next) == pc' = next /\ UNCHANGED <<raised, wire>>

Throw(e) == pc' = "raised" /\ raised' = e /\ UNCHANGED wire

(* _write_chunk raises ClientStreamDisconnected when the client has gone.  *)
Write(w, next) ==
  IF gone THEN Throw("client")
          ELSE wire' = w /\ pc' = next /\ UNCHANGED raised

Ended(w) == [w EXCEPT !.ends = @ + 1]
Done(w) == [w EXCEPT !.dones = @ + 1]

(* _emit_completed: response.completed and [DONE].                         *)
Closed(w) == Done(Ended(w))

(* _stream_fallback_message and what follows it: the client reads a text.  *)
Fallback == Write(Closed([wire EXCEPT !.told = TRUE]), "returned")

-----------------------------------------------------------------------------
(* The watchdog.                                                           *)

Visible(h) == h.text \/ h.message

(* A deadline runs: of the first output, or of the terminal event after it. *)
Watched(h) ==
  ~h.terminal /\ IF Visible(h) THEN TerminalWatch ELSE NoOutputWatch

(* _finish_no_output_timeout, _finish_terminal_timeout_after_output.       *)
FinishOnTimeout(h) ==
  IF Visible(h) THEN Write(Closed(wire), "returned") ELSE Fallback

Marked(e) ==
  [hs EXCEPT !.event = TRUE,
             !.text = @ \/ e = "text",
             !.message = @ \/ e = "message",
             !.item = @ \/ e = "item",
             !.terminal = @ \/ e \in {"completed", "failed", "cut", "done"}]

(* Slip: every event starts the deadline anew.                             *)
NotedAfresh(e) == [Marked(e) EXCEPT !.overdue = FALSE]

(* The deadline starts anew with the first event and with the first        *)
(* visible output, and is void once a terminal event has come.             *)
Noted(e) ==
  LET h == Marked(e)
  IN [h EXCEPT !.overdue = @ /\ hs.event /\ ~h.terminal
                             /\ Visible(h) = Visible(hs)]

DeadlinePasses ==
  /\ pc = "reading" /\ ~hs.overdue /\ Watched(hs)
  /\ hs' = [hs EXCEPT !.overdue = TRUE]
  /\ UNCHANGED <<pc, attempt, run, upstream, raised, registered, gone, wire>>

-----------------------------------------------------------------------------
(* One read of the upstream (external): the events that carry items are    *)
(* sent while it is open; "cut" is a terminal event whose data was cut     *)
(* short, after which nothing comes.                                       *)

Items == {"start", "reasoning", "text", "artifact", "message", "item",
          "call", "call_done", "other"}
Events == Items \cup {"completed", "failed", "cut", "done"}

Sent(e) ==
  \/ e \in Items /\ upstream = "open" /\ UNCHANGED upstream
  \/ e \in {"completed", "failed"} /\ upstream = "open" /\ upstream' = "ended"
  \/ e = "cut" /\ upstream = "open" /\ upstream' = "closed"
  \/ e = "done" /\ upstream \in {"open", "ended"} /\ upstream' = "closed"

Read(e) ==
  /\ pc = "reading"
  /\ Sent(e)
  /\ UNCHANGED <<attempt, registered, gone>>

Receive(e) ==
  /\ Read(e)
  /\ ~Noted(e).overdue
  /\ hs' = Noted(e)

(* Any event may find the deadline passed, once it has been noted itself.  *)
LateEvent ==
  /\ \E e \in Events \ {"artifact"} :
       /\ e = "call_done" => hs.call
       /\ Read(e)
       /\ Noted(e).overdue
       /\ hs' = Noted(e)
  /\ FinishOnTimeout(hs')
  /\ UNCHANGED run

(* A text that looks like a tool or patch payload.                         *)
Artifact ==
  /\ Read("artifact")
  /\ Fallback
  /\ UNCHANGED <<run, hs>>

Start ==
  /\ Receive("start")
  /\ IF run.started THEN Silently("reading")
                    ELSE Write([wire EXCEPT !.starts = @ + 1], "reading")
  /\ run' = [run EXCEPT !.started = TRUE]

Forward ==
  /\ \E e \in {"text", "message", "item", "other"} :
       /\ Receive(e)
       /\ Write([wire EXCEPT !.told = @ \/ e # "other"], "reading")
  /\ UNCHANGED run

(* Reasoning before any output is counted and may be stopped.              *)
Reason ==
  /\ Read("reasoning")
  /\ ~Noted("reasoning").overdue
  /\ LET alone == ~Visible(hs) /\ ~hs.item
     IN /\ hs' = [Noted("reasoning") EXCEPT !.reasoned = TRUE]
        /\ \/ Write(wire, "reading")
           \/ alone /\ Fallback
  /\ UNCHANGED run

(* A call is withheld while its arguments are assembled, and given up when *)
(* that takes too long.                                                    *)
Assemble ==
  /\ Read("call")
  /\ ~Noted("call").overdue
  /\ hs' = [Noted("call") EXCEPT !.call = TRUE]
  /\ Silently("reading") \/ Fallback
  /\ UNCHANGED run

NextHop == run' = [run EXCEPT !.hop = @ + 1]

(* completed_call_decision: a call whose time is up is given up even when  *)
(* its last event completes it.                                            *)
AbortCall ==
  /\ hs.call /\ Receive("call_done")
  /\ Fallback
  /\ UNCHANGED run

(* An error or a signal for the model: the rest of the stream is drained.  *)
InjectResult ==
  /\ hs.call /\ Receive("call_done")
  /\ Silently("hop")
  /\ NextHop

StartTool ==
  /\ hs.call /\ Receive("call_done")
  /\ Write([wire EXCEPT !.shown = TRUE, !.open = TRUE], "executing")
  /\ UNCHANGED run

(* Slip: the loop goes on to the next hop.                                 *)
ShowCallAndGoOn ==
  /\ hs.call /\ Receive("call_done")
  /\ Write([wire EXCEPT !.shown = TRUE, !.told = TRUE, !.call = TRUE], "hop")
  /\ run' = [run EXCEPT !.trace = TRUE, !.hop = @ + 1]

(* A call of the client's own ends the response: the item, then            *)
(* response.completed and [DONE].                                          *)
ShowCall ==
  /\ hs.call /\ Receive("call_done")
  /\ Write(Closed([wire EXCEPT !.shown = TRUE, !.told = TRUE, !.call = TRUE]),
           "returned")
  /\ run' = [run EXCEPT !.trace = TRUE]

(* Slip: reasoning counts as an answer.                                    *)
UnansweredWhenRepairing(h, answered) == run.repairing /\ ~answered

(* response.completed after reasoning, or after a repair, without anything *)
(* for the user.                                                           *)
Unanswered(h, answered) == ~answered /\ (h.reasoned \/ run.repairing)

(* The next hop asks for an answer once more, while repairs are left.      *)
Repair ==
  /\ run.repairs < RepairHops
  /\ Silently("hop")
  /\ run' = [run EXCEPT !.hop = @ + 1, !.repairs = @ + 1, !.pending = TRUE]

ForwardTerminal ==
  /\ Write(Ended(wire), "reading")
  /\ run' = [run EXCEPT !.terminal = TRUE]

(* The response of a message item may hold a text or not.                  *)
Complete ==
  /\ Receive("completed")
  /\ \E answered \in {hs.text \/ hs.item, Visible(hs) \/ hs.item} :
       \/ Unanswered(hs, answered) /\ Repair
       \/ /\ Unanswered(hs, answered) /\ run.repairs >= RepairHops
          /\ Fallback
          /\ UNCHANGED run
       \/ ~Unanswered(hs, answered) /\ ForwardTerminal

(* response.failed, response.incomplete and response.cancelled.            *)
Fail ==
  /\ Receive("failed")
  /\ Write(Ended([wire EXCEPT !.told = TRUE]), "reading")
  /\ run' = [run EXCEPT !.terminal = TRUE]

Close(next) ==
  /\ Write(Closed(wire), next)
  /\ run' = [run EXCEPT !.terminal = TRUE, !.done = TRUE]

(* A terminal event without its data, and [DONE] without a terminal event, *)
(* are replaced when there are items to complete, and forwarded otherwise; *)
(* the client cannot read the former.                                      *)
CutTerminal ==
  /\ Receive("cut")
  /\ IF run.trace /\ ~run.terminal THEN Close("reading")
     ELSE /\ Write(wire, "reading")
          /\ run' = [run EXCEPT !.terminal = TRUE]

DoneMarker ==
  /\ Receive("done")
  /\ IF run.trace /\ ~run.terminal THEN Close("reading")
     ELSE /\ Write(Done(wire), "reading")
          /\ run' = [run EXCEPT !.done = TRUE]

(* Slip: [DONE] is appended whether or not it has been sent.               *)
EndOfStreamAgain ==
  /\ pc = "reading"
  /\ IF run.terminal
       THEN Write(Done(wire), "returned") /\ run' = [run EXCEPT !.done = TRUE]
     ELSE IF run.trace THEN Close("returned")
     ELSE Silently("returned") /\ UNCHANGED run
  /\ UNCHANGED <<attempt, hs, upstream, registered, gone>>

(* Slip: a stream that closes without a terminal event is left as it is.   *)
EndOfStreamAsIs ==
  /\ pc = "reading"
  /\ IF run.terminal /\ ~run.done
       THEN Write(Done(wire), "returned") /\ run' = [run EXCEPT !.done = TRUE]
     ELSE Silently("returned") /\ UNCHANGED run
  /\ UNCHANGED <<attempt, hs, upstream, registered, gone>>

(* The upstream closes: what is missing is appended.                       *)
EndOfStream ==
  /\ pc = "reading"
  /\ IF run.terminal /\ ~run.done
       THEN Write(Done(wire), "returned") /\ run' = [run EXCEPT !.done = TRUE]
     ELSE IF run.trace /\ ~run.terminal /\ ~run.done THEN Close("returned")
     ELSE Silently("returned") /\ UNCHANGED run
  /\ UNCHANGED <<attempt, hs, upstream, registered, gone>>

(* The read times out on the socket, whose time-out the watchdog sets.     *)
ReadStalls ==
  /\ pc = "reading"
  /\ IF Watched(hs) THEN FinishOnTimeout(hs) ELSE Throw("other")
  /\ UNCHANGED <<attempt, run, hs, upstream, registered, gone>>

ReadFails ==
  /\ pc = "reading"
  /\ Throw("reset") \/ Throw("other")
  /\ UNCHANGED <<attempt, run, hs, upstream, registered, gone>>

-----------------------------------------------------------------------------
(* Hops, and tools that the proxy runs itself.                             *)

Exhausted ==
  \/ run.hop >= MaxHops + RepairHops
  \/ run.hop >= MaxHops /\ ~run.pending

Open ==
  /\ pc = "hop" /\ ~Exhausted
  /\ run' = [run EXCEPT !.repairing = run.pending, !.pending = FALSE]
  /\ hs' = FreshHop
  /\ upstream' = "open"
  /\ Silently("reading")
  /\ UNCHANGED <<attempt, registered, gone>>

OpenFails ==
  /\ pc = "hop" /\ ~Exhausted
  /\ \E e \in Exceptions \ {"client"} : Throw(e)
  /\ UNCHANGED <<attempt, run, hs, upstream, registered, gone>>

(* The message about the limit is in the output of response.completed      *)
(* alone: nothing of it is streamed as an item or a text.                  *)
HopLimit ==
  /\ pc = "hop" /\ Exhausted
  /\ Write(Closed([wire EXCEPT !.limit = TRUE]), "returned")
  /\ UNCHANGED <<attempt, run, hs, upstream, registered, gone>>

ToolReturns ==
  /\ pc = "executing"
  /\ Write([wire EXCEPT !.open = FALSE, !.told = TRUE], "hop")
  /\ run' = [run EXCEPT !.trace = TRUE, !.hop = @ + 1]
  /\ UNCHANGED <<attempt, hs, upstream, registered, gone>>

(* The tool raises, which a write that finds the client gone forestalls.   *)
ToolRaises ==
  /\ pc = "executing"
  /\ Throw(IF gone THEN "client" ELSE "other")
  /\ UNCHANGED <<attempt, run, hs, upstream, registered, gone>>

-----------------------------------------------------------------------------
(* proxy_json_api around run().                                            *)

(* begin(), then the response headers.                                     *)
Register ==
  /\ pc = "start"
  /\ registered' = TRUE
  /\ pc' = IF gone THEN "end" ELSE "hop"
  /\ UNCHANGED <<attempt, run, hs, upstream, raised, gone, wire>>

(* finish(), and the connection is closed.                                 *)
Finish == registered' = FALSE /\ pc' = "end"

Return ==
  /\ pc = "returned"
  /\ Finish
  /\ UNCHANGED <<attempt, run, hs, upstream, raised, gone, wire>>

(* response.failed and [DONE]; to a client that has gone the write raises, *)
(* and finish() is not reached.                                            *)
SendFailure ==
  IF gone THEN pc' = "end" /\ UNCHANGED <<registered, wire>>
          ELSE Finish /\ wire' = Closed([wire EXCEPT !.told = TRUE])

(* A broken pipe or a reset of either side, which the model status tells   *)
(* apart: a failure is sent only while the model is not ready.             *)
HandleDisconnect ==
  /\ pc = "raised" /\ attempt = 1 /\ raised \in {"client", "reset"}
  /\ SendFailure \/ (Finish /\ UNCHANGED wire)
  /\ UNCHANGED <<attempt, run, hs, upstream, raised, gone>>

(* Other errors: a recovery of the router is waited for after a 5xx, and   *)
(* when it has models loaded.                                              *)
HandleError ==
  /\ pc = "raised" /\ attempt = 1 /\ raised \in {"http5xx", "other"}
  /\ \/ pc' = "recovering"
     \/ raised = "other" /\ pc' = "failing"
  /\ UNCHANGED <<attempt, run, hs, upstream, raised, registered, gone, wire>>

(* Slip: the request is removed before it is sent again.                   *)
RetryUnregistered ==
  /\ pc = "recovering" /\ ~gone
  /\ attempt' = 2 /\ run' = FreshRun /\ hs' = FreshHop /\ raised' = "none"
  /\ pc' = "hop"
  /\ registered' = FALSE
  /\ UNCHANGED <<upstream, gone, wire>>

(* The model is ready again: the request is sent once more on the same     *)
(* stream, whatever the client has received.                               *)
Retry ==
  /\ pc = "recovering" /\ ~gone
  /\ attempt' = 2 /\ run' = FreshRun /\ hs' = FreshHop /\ raised' = "none"
  /\ pc' = "hop"
  /\ UNCHANGED <<upstream, registered, gone, wire>>

(* The router gives up or the deadline passes, or a keepalive fails.       *)
RecoveryEnds ==
  /\ pc = "recovering"
  /\ pc' = IF gone THEN "end" ELSE "failing"
  /\ UNCHANGED <<attempt, run, hs, upstream, raised, registered, gone, wire>>

(* The inner handler of the retry unbinds the exception of the outer one,  *)
(* whose text is put into the failure next: that raises, and neither the   *)
(* failure nor finish() is reached.                                        *)
RetryRaises ==
  /\ pc = "raised" /\ attempt = 2
  /\ pc' = "end"
  /\ UNCHANGED <<attempt, run, hs, upstream, raised, registered, gone, wire>>

GiveUp ==
  /\ pc = "failing"
  /\ SendFailure
  /\ UNCHANGED <<attempt, run, hs, upstream, raised, gone>>

ClientGoes ==
  /\ ~gone /\ pc # "end"
  /\ gone' = TRUE
  /\ UNCHANGED <<pc, attempt, run, hs, upstream, raised, registered, wire>>

-----------------------------------------------------------------------------
ReadStep ==
  \/ LateEvent \/ Artifact \/ Start \/ Forward \/ Reason
  \/ Assemble \/ AbortCall \/ InjectResult \/ StartTool \/ ShowCall
  \/ Complete \/ Fail \/ CutTerminal \/ DoneMarker
  \/ EndOfStream \/ ReadStalls \/ ReadFails

HopStep == Open \/ OpenFails \/ HopLimit \/ ToolReturns \/ ToolRaises

RequestStep ==
  \/ Register \/ Return \/ HandleDisconnect \/ HandleError
  \/ Retry \/ RecoveryEnds \/ RetryRaises \/ GiveUp

Stopped == pc = "end" /\ UNCHANGED vars

Next == ReadStep \/ HopStep \/ RequestStep \/ DeadlinePasses \/ ClientGoes
        \/ Stopped

Spec == Init /\ [][Next]_vars

(* A read returns by the deadline of the watchdog, and by the time-out of  *)
(* the socket after a terminal event; before either, the upstream may send *)
(* events for ever.  The tools and the recovery have deadlines of their    *)
(* own.                                                                    *)
Due == hs.overdue \/ hs.terminal

LiveSpec ==
  /\ Spec
  /\ WF_vars(DeadlinePasses)
  /\ WF_vars(Due /\ ReadStep)
  /\ WF_vars(HopStep)
  /\ WF_vars(RequestStep)

-----------------------------------------------------------------------------
(* However many hops it takes, a run starts the response once, and a run   *)
(* that does not raise ends it once, whatever the upstream sends or leaves *)
(* out (rs.sent_response_start, rs.sent_terminal, rs.sent_done).           *)
OneResponsePerRun ==
  /\ wire.starts <= attempt
  /\ raised = "none" => wire.ends <= attempt /\ wire.dones <= attempt

(* What a response that was not retried started on the client's screen it  *)
(* ends: tool items are followed by a terminal event and [DONE], unless    *)
(* the upstream reset the connection, and response.completed does not come *)
(* while an item is still open.                                            *)
ItemsClosed ==
  attempt = 1 =>
    /\ pc = "end" /\ ~gone /\ wire.shown /\ raised # "reset"
         => wire.ends > 0 /\ wire.dones > 0
    /\ pc = "returned" /\ wire.ends > 0 => ~wire.open

(* A response that was not retried and ends after reasoning has given the  *)
(* user something else on the stream: a text, an item, a call or a         *)
(* failure.  The one exception is a run that has used up its hops, whose   *)
(* message about the limit is in the output of response.completed alone.   *)
ReasoningAnswered ==
  pc = "end" /\ attempt = 1 /\ ~gone /\ wire.ends > 0 /\ hs.reasoned
    => wire.told \/ (wire.limit /\ Exhausted)

(* A request is in the registry as long as it is served, and stays there   *)
(* afterwards only when its client has gone or its retry has failed.       *)
RegisteredWhileServed ==
  /\ pc \notin {"start", "end"} => registered
  /\ pc = "end" /\ registered => gone \/ attempt = 2

(* Once the client has been given a call to run, the stream says no more.  *)
CallEndsTheStream == [][wire.call => UNCHANGED wire]_vars

(* With both watchdogs on, a request ends, however long the upstream goes  *)
(* on sending.                                                             *)
RequestEnds == pc = "start" ~> pc = "end"

-----------------------------------------------------------------------------
(* What the documents say and the code does not do.                        *)

(* responses-stream-tool-state-contract.md: "Finish once", "One            *)
(* `response.completed` and one terminal done marker".                     *)
FinishedOnce == wire.ends <= 1 /\ wire.dones <= 1

(* Every other end without an answer streams its message                   *)
(* (_stream_fallback_message); the end by the hop limit does not, and      *)
(* after reasoning and hidden tool results the stream holds nothing else.  *)
ReasoningAnsweredOnTheStream ==
  pc = "end" /\ attempt = 1 /\ ~gone /\ wire.ends > 0 /\ hs.reasoned
    => wire.told

(* streaming-event-mapper-audit.md, "Missing stream failure marker":       *)
(* handled.  An error of the upstream or of a tool reaches a client that   *)
(* stays, as response.failed and [DONE], and the request leaves the        *)
(* registry.                                                               *)
FailuresEnd ==
  pc = "end" /\ ~gone /\ raised \in {"http5xx", "other"}
    => wire.ends > 0 /\ wire.dones > 0 /\ ~registered

=============================================================================
