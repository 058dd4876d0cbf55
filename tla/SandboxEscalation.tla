------------------------- MODULE SandboxEscalation -------------------------
(***************************************************************************)
(* What is done to the history of a POST /v1/responses before the model    *)
(* reads it (proxy/qz_sandbox_escalation.py, the advisories of             *)
(* proxy/qz_request_router.py and the compaction of old results of         *)
(* proxy/qz_responses.py): a command that the client's sandbox has denied  *)
(* is sent back to it to be run again without the sandbox, and the next    *)
(* request is rewritten as if it had never been denied.                    *)
(*                                                                         *)
(* A history is a sequence of items.  The id of the command's second run   *)
(* is that of the first with a suffix: esc.  Only the text of an output    *)
(* that decides is kept.                                                   *)
(***************************************************************************)
EXTENDS Histories, SequencesExt

CONSTANTS
  Calls,       (* ids of exec_command calls                                *)
  NoCall,      (* no call                                                  *)
  KeepRecent   (* COMPACTION_CONFIG["keep_recent_items"]                   *)

ASSUME EscalationAssumption == NoCall \notin Calls /\ KeepRecent \in Nat \ {0}

(* readonly and blocked: what the file system's and the network's sandbox  *)
(* say; only the former has an advisory.                                   *)
Denials == {"readonly", "blocked"}
Texts == Denials \cup {"ok", "advice"}

Items ==
  [kind : {"call"}, call : Calls, esc : BOOLEAN, text : {"ok"}]
  \cup [kind : {"output"}, call : Calls, esc : BOOLEAN, text : Texts]
  \cup [kind : {"talk"}, call : {NoCall}, esc : {FALSE}, text : {"ok"}]

Call(c, e) == [kind |-> "call", call |-> c, esc |-> e, text |-> "ok"]
Output(c, e, t) == [kind |-> "output", call |-> c, esc |-> e, text |-> t]
Talk == [kind |-> "talk", call |-> NoCall, esc |-> FALSE, text |-> "ok"]

IsOutput(i) == i.kind = "output"

(* Of one call id; an escalated run has an id of its own.                  *)
Of(i, c, e) == i.kind # "talk" /\ i.call = c /\ i.esc = e

(* What a client's history is like: its calls are its own, and a command   *)
(* has been run again only after a first run.                              *)
OfCalls(items, calls) ==
  \A k \in DOMAIN items : items[k].kind # "talk" => items[k].call \in calls

RerunsFollow(items) ==
  \A k \in DOMAIN items :
    IsOutput(items[k]) /\ items[k].esc
      => \E j \in 1 .. k - 1 : IsOutput(items[j]) /\ Of(items[j], items[k].call, FALSE)

(* Nothing has been said since the first run of c.                         *)
Unspoken(items, c) ==
  \A j \in DOMAIN items :
    IsOutput(items[j]) /\ Of(items[j], c, FALSE)
      => \A k \in j .. Len(items) : items[k].kind # "talk"

-----------------------------------------------------------------------------
(* One advisory per call id, with that id, for what the file system's      *)
(* sandbox has denied.                                                     *)
WithAdvisories(items) ==
  LET first(k) == /\ items[k].text = "readonly"
                  /\ \A j \in 1 .. k - 1 : items[j].text = "readonly"
                       => ~ Of(items[j], items[k].call, items[k].esc)
      denied == InOrder({k \in DOMAIN items : first(k)})
  IN  items \o [k \in DOMAIN denied |->
                  Output(items[denied[k]].call, items[denied[k]].esc, "advice")]

(* Slip: the tail begins wherever it falls.                                *)
TailStartMidRun(items) ==
  IF Len(items) <= KeepRecent THEN 1 ELSE Len(items) - KeepRecent + 1

(* The tail begins KeepRecent items from the end, or before it, so as not  *)
(* to begin in the middle of a run of calls and outputs.                   *)
TailStart(items) ==
  IF Len(items) <= KeepRecent THEN 1
  ELSE Max({1} \cup {k \in 1 .. Len(items) - KeepRecent + 1 :
                       items[k].kind = "talk"})

(* Old outputs become remarks of the assistant; their calls stay.          *)
Microcompact(items) ==
  LET start == TailStart(items)
  IN  [k \in DOMAIN items |->
         IF k < start /\ IsOutput(items[k]) THEN Talk ELSE items[k]]

-----------------------------------------------------------------------------
(* Slip: only the newest item is looked at.                               *)
AwaitedLast(items, pending) ==
  IF /\ items # <<>> /\ IsOutput(Last(items))
     /\ Last(items).esc /\ Last(items).call \in pending
  THEN Last(items).call ELSE NoCall

(* check_pending_resolution: the first output of an escalated run that is  *)
(* awaited.                                                                *)
Awaited(items, pending) ==
  LET k == SelectInSeq(items, LAMBDA i : IsOutput(i) /\ i.esc /\ i.call \in pending)
  IN  IF k = 0 THEN NoCall ELSE items[k].call

(* The escalated result takes the place of the first output of the         *)
(* original call; later outputs of that id, and all else of the escalated  *)
(* one, go.                                                                *)
Rewrite(items, c) ==
  LET result == items[SelectInSeq(items, LAMBDA i : IsOutput(i) /\ Of(i, c, TRUE))]
      place == SelectInSeq(items, LAMBDA i : IsOutput(i) /\ Of(i, c, FALSE))
      put == [k \in DOMAIN items |->
                IF k = place THEN [result EXCEPT !.esc = FALSE] ELSE items[k]]
      gone(i) == Of(i, c, TRUE) \/ (IsOutput(i) /\ Of(i, c, FALSE))
      kept(k) == k = place \/ ~ gone(items[k])
      order == InOrder({k \in DOMAIN items : kept(k)})
  IN  [k \in DOMAIN order |-> put[order[k]]]

(* check_for_denial: the first denied output whose call is there and is    *)
(* not itself an escalated one.                                            *)
Denied(items) ==
  LET k == SelectInSeq(items, LAMBDA i :
             /\ i.text \in Denials
             /\ ~ i.esc
             /\ Contains(items, Call(i.call, FALSE)))
  IN  IF k = 0 THEN NoCall ELSE items[k].call
=============================================================================
