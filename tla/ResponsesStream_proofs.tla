----------------------- MODULE ResponsesStream_proofs -----------------------
(* However the upstream behaves, for any number of hops and repairs: what  *)
(* a client is sent is started once and ended once by each run, nothing    *)
(* follows a call given to the client, and the registry of active requests *)
(* is right until the request ends.                                        *)
(*                                                                         *)
(* The counts are not inductive by themselves: what the client was sent is *)
(* tied to the flags of the run (Sums), and that a terminal event comes    *)
(* once to the grammar the upstream keeps in each hop (Grammar).  That an  *)
(* item is ended and that reasoning is answered takes what the flags of    *)
(* run and hop say of the client's screen (Honest).                        *)
EXTENDS ResponsesStream, TLAPS

Runs == [hop: 0..(MaxHops + RepairHops), repairs: 0..RepairHops,
         pending: BOOLEAN, repairing: BOOLEAN, started: BOOLEAN,
         terminal: BOOLEAN, done: BOOLEAN, trace: BOOLEAN]

HopStates == [event: BOOLEAN, reasoned: BOOLEAN, text: BOOLEAN,
              message: BOOLEAN, item: BOOLEAN, call: BOOLEAN,
              terminal: BOOLEAN, overdue: BOOLEAN]

Wires == [starts: Nat, ends: Nat, dones: Nat, told: BOOLEAN,
          shown: BOOLEAN, open: BOOLEAN, call: BOOLEAN, limit: BOOLEAN]

Terminals == {"completed", "failed", "cut", "done"}

Relaying == {"hop", "reading", "executing"}

Bit(b) == IF b THEN 1 ELSE 0

TypesOK ==
  /\ pc \in Steps
  /\ attempt \in 1..2
  /\ run \in Runs
  /\ hs \in HopStates
  /\ upstream \in {"open", "ended", "closed"}
  /\ raised \in Exceptions \cup {"none"}
  /\ registered \in BOOLEAN
  /\ gone \in BOOLEAN
  /\ wire \in Wires

HopsLeft == pc \in {"reading", "executing"} => run.hop < MaxHops + RepairHops

(* An exception is held from where it is raised to the end.                *)
Phases ==
  /\ pc \in Relaying \cup {"start", "returned"} => raised = "none"
  /\ pc \in {"raised", "recovering", "failing"} => raised # "none"
  /\ pc \in {"start", "recovering", "failing"} => attempt = 1

Grammar ==
  /\ pc \in {"hop", "executing"} => ~run.terminal /\ ~run.done
  /\ pc = "reading" =>
       /\ run.terminal \/ run.done => hs.terminal
       /\ upstream = "open" => ~run.terminal /\ ~run.done
       /\ upstream = "ended" => ~run.done

(* What earlier runs may have sent, and what the flags of this one say.    *)
Sums ==
  /\ pc \in Relaying \cup {"start"} =>
       /\ wire.starts <= attempt - 1 + Bit(run.started)
       /\ wire.ends <= attempt - 1 + Bit(run.terminal)
       /\ wire.dones <= attempt - 1 + Bit(run.done)
  /\ wire.starts <= attempt
  /\ wire.ends <= attempt + Bit(pc = "end" /\ raised # "none")
  /\ wire.dones <= attempt + Bit(pc = "end" /\ raised # "none")

CallLast == wire.call => pc \in {"returned", "end"}

IInv ==
  /\ TypesOK
  /\ HopsLeft
  /\ Phases
  /\ Grammar
  /\ pc = "start" => ~run.terminal /\ ~run.done /\ ~run.started
  /\ Sums
  /\ CallLast

-----------------------------------------------------------------------------
(* What a write does.                                                      *)

Emits(s, e, d, next) ==
  /\ wire' \in Wires
  /\ \/ /\ pc' = next /\ raised' = raised
        /\ wire'.starts = wire.starts + s
        /\ wire'.ends = wire.ends + e
        /\ wire'.dones = wire.dones + d
        /\ wire'.call => wire.call \/ next = "returned"
     \/ pc' = "raised" /\ raised' = "client" /\ wire' = wire

(* A write that appends to the stream either does so or raises.            *)
LEMMA WriteEmits ==
  ASSUME wire \in Wires, NEW w \in Wires, NEW next, Write(w, next),
         NEW s, NEW e, NEW d,
         w.starts = wire.starts + s, w.ends = wire.ends + e,
         w.dones = wire.dones + d, w.call => wire.call \/ next = "returned"
  PROVE  Emits(s, e, d, next)
BY DEF Write, Throw, Emits

LEMMA SilentEmits ==
  ASSUME wire \in Wires, NEW next, Silently(next)
  PROVE  Emits(0, 0, 0, next)
BY DEF Silently, Emits, Wires

LEMMA EndedWire ==
  ASSUME NEW w \in Wires
  PROVE  /\ Ended(w) \in Wires
         /\ Ended(w).starts = w.starts
         /\ Ended(w).ends = w.ends + 1
         /\ Ended(w).dones = w.dones
         /\ Ended(w).call = w.call
BY DEF Ended, Wires

LEMMA DoneWire ==
  ASSUME NEW w \in Wires
  PROVE  /\ Done(w) \in Wires
         /\ Done(w).starts = w.starts
         /\ Done(w).ends = w.ends
         /\ Done(w).dones = w.dones + 1
         /\ Done(w).call = w.call
BY DEF Done, Wires

(* _emit_completed appends one terminal event and one [DONE].              *)
LEMMA ClosedWire ==
  ASSUME NEW w \in Wires
  PROVE  /\ Closed(w) \in Wires
         /\ Closed(w).starts = w.starts
         /\ Closed(w).ends = w.ends + 1
         /\ Closed(w).dones = w.dones + 1
         /\ Closed(w).call = w.call
BY EndedWire, DoneWire DEF Closed

(* The flags of what the client was given do not count.                    *)
LEMMA FlaggedWire ==
  ASSUME wire \in Wires, NEW w,
         \/ \E b \in BOOLEAN : w = [wire EXCEPT !.told = b]
         \/ w = [wire EXCEPT !.shown = TRUE, !.open = TRUE]
         \/ w = [wire EXCEPT !.open = FALSE, !.told = TRUE]
         \/ w = [wire EXCEPT !.limit = TRUE]
  PROVE  /\ w \in Wires
         /\ w.starts = wire.starts /\ w.ends = wire.ends
         /\ w.dones = wire.dones /\ w.call = wire.call
<1>1. w \in Wires
  BY DEF Wires
<1>2. /\ w.starts = wire.starts /\ w.ends = wire.ends
      /\ w.dones = wire.dones /\ w.call = wire.call
  BY DEF Wires
<1> QED
  BY <1>1, <1>2

LEMMA CloseEmits ==
  ASSUME wire \in Wires, NEW next, Write(Closed(wire), next)
  PROVE  Emits(0, 1, 1, next)
<1>1. wire.starts + 0 = wire.starts
  BY DEF Wires
<1> QED
  BY <1>1, ClosedWire, WriteEmits

LEMMA ClosedFromEmits ==
  ASSUME wire \in Wires, NEW t \in Wires, Write(Closed(t), "returned"),
         t.starts = wire.starts, t.ends = wire.ends, t.dones = wire.dones
  PROVE  Emits(0, 1, 1, "returned")
<1>1. wire.starts + 0 = wire.starts
  BY DEF Wires
<1> QED
  BY <1>1, ClosedWire, WriteEmits

LEMMA FallbackEmits ==
  ASSUME wire \in Wires, Fallback
  PROVE  Emits(0, 1, 1, "returned")
<1> DEFINE t == [wire EXCEPT !.told = TRUE]
<1>1. Write(Closed(t), "returned")
  BY DEF Fallback
<1>2. /\ t \in Wires /\ t.starts = wire.starts
      /\ t.ends = wire.ends /\ t.dones = wire.dones
  BY FlaggedWire
<1> HIDE DEF t
<1> QED
  BY <1>1, <1>2, ClosedFromEmits

LEMMA TimeoutEmits ==
  ASSUME wire \in Wires, NEW h, FinishOnTimeout(h)
  PROVE  Emits(0, 1, 1, "returned")
BY CloseEmits, FallbackEmits DEF FinishOnTimeout

(* The flags an event sets.                                                *)
LEMMA NotedType ==
  ASSUME hs \in HopStates, NEW e \in Events
  PROVE  /\ Noted(e) \in HopStates
         /\ Noted(e).terminal <=> hs.terminal \/ e \in Terminals
         /\ Noted(e).overdue => ~hs.terminal /\ e \notin Terminals
<1> DEFINE h == Marked(e)
<1>1. h \in HopStates /\ (h.terminal <=> hs.terminal \/ e \in Terminals)
  BY DEF Marked, HopStates, Terminals
<1>2. Noted(e) = [h EXCEPT !.overdue = @ /\ hs.event /\ ~h.terminal
                                         /\ Visible(h) = Visible(hs)]
  BY DEF Noted
<1> HIDE DEF h
<1>3. (h.overdue /\ hs.event /\ ~h.terminal /\ Visible(h) = Visible(hs))
        \in BOOLEAN
  BY DEF Visible
<1> QED
  BY <1>1, <1>2, <1>3 DEF HopStates

-----------------------------------------------------------------------------
(* A step of the relay keeps IInv when what it sends is what its flags say. *)

Flagged(s, e, d, next) ==
  /\ s = 1 => ~run.started
  /\ e = 1 => ~run.terminal
  /\ d = 1 => ~run.done
  /\ run.started => run'.started
  /\ run.terminal => run'.terminal
  /\ run.done => run'.done
  /\ next # "returned" =>
       /\ s = 1 => run'.started
       /\ e = 1 => run'.terminal
       /\ d = 1 => run'.done

LEMMA Tally ==
  ASSUME TypesOK, Phases, Sums, pc \in Relaying, run' \in Runs,
         attempt' = attempt,
         NEW s \in 0..1, NEW e \in 0..1, NEW d \in 0..1,
         NEW next \in Relaying \cup {"returned"},
         Emits(s, e, d, next), Flagged(s, e, d, next)
  PROVE  Sums'
<1>1. /\ wire.starts \in Nat /\ wire.ends \in Nat /\ wire.dones \in Nat
      /\ wire'.starts \in Nat /\ wire'.ends \in Nat /\ wire'.dones \in Nat
  BY DEF TypesOK, Wires, Emits
<1>2. attempt \in Nat /\ pc # "end"
  BY DEF TypesOK, Relaying
<1>4. /\ wire.starts <= attempt - 1 + Bit(run.started)
      /\ wire.ends <= attempt - 1 + Bit(run.terminal)
      /\ wire.dones <= attempt - 1 + Bit(run.done)
  BY DEF Sums
<1>5. /\ wire.starts + s <= attempt /\ wire.ends + e <= attempt
      /\ wire.dones + d <= attempt
  BY <1>1, <1>2, <1>4 DEF Bit, Flagged
<1>6. next # "returned" =>
        /\ wire.starts + s <= attempt - 1 + Bit(run'.started)
        /\ wire.ends + e <= attempt - 1 + Bit(run'.terminal)
        /\ wire.dones + d <= attempt - 1 + Bit(run'.done)
  BY <1>1, <1>2, <1>4 DEF Bit, Flagged
<1>7. CASE /\ pc' = next /\ raised' = raised
           /\ wire'.starts = wire.starts + s
           /\ wire'.ends = wire.ends + e
           /\ wire'.dones = wire.dones + d
  <2>1. wire'.starts <= attempt' /\ wire'.ends <= attempt'
        /\ wire'.dones <= attempt'
    BY <1>5, <1>7
  <2>2. pc' # "end"
    BY <1>7 DEF Relaying
  <2>3. Bit(pc' = "end" /\ raised' # "none") = 0
    BY <2>2 DEF Bit
  <2>4. pc' \in Relaying \cup {"start"} =>
          /\ wire'.starts <= attempt' - 1 + Bit(run'.started)
          /\ wire'.ends <= attempt' - 1 + Bit(run'.terminal)
          /\ wire'.dones <= attempt' - 1 + Bit(run'.done)
    BY <1>6, <1>7 DEF Relaying
  <2> QED
    BY <2>1, <2>3, <2>4, <1>1, <1>2 DEF Sums
<1>8. CASE pc' = "raised" /\ wire' = wire
  <2>1. Bit(pc' = "end" /\ raised' # "none") = 0
    BY <1>8 DEF Bit
  <2>2. wire.starts <= attempt /\ wire.ends <= attempt /\ wire.dones <= attempt
    BY <1>1, <1>2, <1>5
  <2> QED
    BY <1>1, <1>2, <1>8, <2>1, <2>2 DEF Sums, Relaying
<1> QED
  BY <1>7, <1>8 DEF Emits

(* The other parts of IInv, after a step of the relay.                     *)
LEMMA RelayStep ==
  ASSUME IInv, pc \in Relaying,
         run' \in Runs, hs' \in HopStates,
         upstream' \in {"open", "ended", "closed"},
         UNCHANGED <<attempt, registered, gone>>,
         NEW s \in 0..1, NEW e \in 0..1, NEW d \in 0..1,
         NEW next \in Relaying \cup {"returned"},
         Emits(s, e, d, next), Flagged(s, e, d, next),
         next \in {"reading", "executing"} => run'.hop < MaxHops + RepairHops,
         pc' = next => Grammar'
  PROVE  IInv'
<1>1. Sums'
  BY Tally DEF IInv
<1>2. pc' \in {next, "raised"}
  BY DEF Emits
<1>3. raised' \in Exceptions \cup {"none"}
  BY DEF Emits, IInv, TypesOK, Exceptions
<1>4. TypesOK'
  BY <1>2, <1>3 DEF Emits, IInv, TypesOK, Steps, Relaying
<1>5. HopsLeft'
  BY <1>2 DEF HopsLeft
<1>6. Phases'
  BY DEF Emits, IInv, Phases, Relaying
<1>7. Grammar'
  BY <1>2 DEF Grammar
<1>8. CallLast'
  BY DEF Emits, IInv, CallLast, Relaying
<1>9. pc' # "start"
  BY <1>2 DEF Relaying
<1> QED
  BY <1>1, <1>4, <1>5, <1>6, <1>7, <1>8, <1>9 DEF IInv

-----------------------------------------------------------------------------
(* The actions.                                                            *)

(* An event with an item comes before any terminal event of the run.       *)
LEMMA ItemRead ==
  ASSUME IInv, NEW e \in Items, Read(e)
  PROVE  /\ pc = "reading" /\ pc \in Relaying
         /\ upstream' = upstream /\ upstream' \in {"open", "ended", "closed"}
         /\ ~run.terminal /\ ~run.done
         /\ run.hop < MaxHops + RepairHops
         /\ UNCHANGED <<attempt, registered, gone>>
         /\ run \in Runs /\ hs \in HopStates /\ wire \in Wires
         /\ e \in Events
BY DEF IInv, Read, Sent, Items, Events, Grammar, HopsLeft, TypesOK, Relaying

(* Grammar says nothing of a run that has sent no terminal event.          *)
LEMMA NothingSent ==
  ASSUME ~run'.terminal, ~run'.done
  PROVE  Grammar'
BY DEF Grammar

(* A step on an item that leaves the run as it is.                         *)
LEMMA ItemStep ==
  ASSUME IInv, NEW e \in Items, Read(e), hs' \in HopStates, run' = run,
         NEW n \in 0..1, NEW next \in Relaying \cup {"returned"},
         Emits(0, n, n, next), next = "returned" \/ n = 0
  PROVE  IInv'
<1>1. Flagged(0, n, n, next)
  BY ItemRead DEF Flagged
<1>2. Grammar'
  BY ItemRead, NothingSent
<1> QED
  BY <1>1, <1>2, ItemRead, RelayStep

LEMMA ArtifactStep == ASSUME IInv, Artifact PROVE IInv'
<1>1. Read("artifact") /\ "artifact" \in Items /\ hs' = hs /\ run' = run
  BY DEF Artifact, Items
<1>2. Emits(0, 1, 1, "returned")
  BY <1>1, ItemRead, FallbackEmits DEF Artifact
<1> QED
  BY <1>1, <1>2, ItemRead, ItemStep

LEMMA ForwardStep == ASSUME IInv, Forward PROVE IInv'
<1>1. PICK e \in {"text", "message", "item", "other"} :
        /\ Receive(e)
        /\ Write([wire EXCEPT !.told = @ \/ e # "other"], "reading")
  BY DEF Forward
<1>2. e \in Items /\ Read(e) /\ hs' = Noted(e) /\ run' = run
  BY <1>1 DEF Receive, Items, Forward
<1>3. hs' \in HopStates /\ wire \in Wires
  BY <1>2, ItemRead, NotedType
<1>4. Emits(0, 0, 0, "reading")
  <2> DEFINE w == [wire EXCEPT !.told = @ \/ e # "other"]
  <2>1. (wire.told \/ e # "other") \in BOOLEAN
    OBVIOUS
  <2>2. /\ w \in Wires /\ w.starts = wire.starts /\ w.ends = wire.ends
        /\ w.dones = wire.dones /\ w.call = wire.call
    BY <1>3, <2>1, FlaggedWire
  <2>3. Write(w, "reading")
    BY <1>1
  <2> HIDE DEF w
  <2>4. /\ wire.starts = wire.starts + 0 /\ wire.ends = wire.ends + 0
        /\ wire.dones = wire.dones + 0
    BY <1>3 DEF Wires
  <2> QED
    BY <1>3, <2>2, <2>3, <2>4, WriteEmits
<1> QED
  BY <1>2, <1>3, <1>4, ItemStep DEF Relaying

LEMMA ReasonStep == ASSUME IInv, Reason PROVE IInv'
<1>1. Read("reasoning") /\ "reasoning" \in Items /\ run' = run
  BY DEF Reason, Items
<1>2. Noted("reasoning") \in HopStates /\ wire \in Wires
  BY <1>1, ItemRead, NotedType
<1>3. hs' \in HopStates
  BY <1>2 DEF Reason, HopStates
<1>4. CASE Write(wire, "reading")
  <2>1. /\ wire.starts = wire.starts + 0 /\ wire.ends = wire.ends + 0
        /\ wire.dones = wire.dones + 0
    BY <1>2 DEF Wires
  <2>2. Emits(0, 0, 0, "reading")
    BY <1>2, <1>4, <2>1, WriteEmits
  <2> QED
    BY <1>1, <1>3, <2>2, ItemStep DEF Relaying
<1>5. CASE Fallback
  BY <1>1, <1>2, <1>3, <1>5, FallbackEmits, ItemStep
<1> QED
  BY <1>4, <1>5 DEF Reason

LEMMA AssembleStep == ASSUME IInv, Assemble PROVE IInv'
<1>1. Read("call") /\ "call" \in Items /\ run' = run
  BY DEF Assemble, Items
<1>2. Noted("call") \in HopStates /\ wire \in Wires
  BY <1>1, ItemRead, NotedType
<1>3. hs' \in HopStates
  BY <1>2 DEF Assemble, HopStates
<1>4. CASE Silently("reading")
  BY <1>1, <1>2, <1>3, <1>4, SilentEmits, ItemStep DEF Relaying
<1>5. CASE Fallback
  BY <1>1, <1>2, <1>3, <1>5, FallbackEmits, ItemStep
<1> QED
  BY <1>4, <1>5 DEF Assemble

(* A completed call that comes in time.                                    *)
LEMMA CallRead ==
  ASSUME IInv, Receive("call_done")
  PROVE  /\ Read("call_done") /\ "call_done" \in Items
         /\ hs' \in HopStates
BY ItemRead, NotedType DEF Receive, Items

LEMMA AbortCallStep == ASSUME IInv, AbortCall PROVE IInv'
<1>1. Receive("call_done") /\ Fallback /\ run' = run
  BY DEF AbortCall
<1>2. Emits(0, 1, 1, "returned")
  BY <1>1, CallRead, ItemRead, FallbackEmits
<1> QED
  BY <1>1, <1>2, CallRead, ItemStep

LEMMA StartToolStep == ASSUME IInv, StartTool PROVE IInv'
<1> DEFINE w == [wire EXCEPT !.shown = TRUE, !.open = TRUE]
<1>1. Receive("call_done") /\ Write(w, "executing") /\ run' = run
  BY DEF StartTool
<1>2. wire \in Wires
  BY <1>1, CallRead, ItemRead
<1>3. /\ w \in Wires /\ w.starts = wire.starts /\ w.ends = wire.ends
      /\ w.dones = wire.dones /\ w.call = wire.call
  BY <1>2, FlaggedWire
<1> HIDE DEF w
<1>4. /\ wire.starts = wire.starts + 0 /\ wire.ends = wire.ends + 0
      /\ wire.dones = wire.dones + 0
  BY <1>2 DEF Wires
<1>5. Emits(0, 0, 0, "executing")
  BY <1>1, <1>2, <1>3, <1>4, WriteEmits
<1> QED
  BY <1>1, <1>5, CallRead, ItemStep DEF Relaying

LEMMA InjectResultStep == ASSUME IInv, InjectResult PROVE IInv'
<1>1. Receive("call_done") /\ Silently("hop") /\ NextHop
  BY DEF InjectResult
<1>2. Emits(0, 0, 0, "hop")
  BY <1>1, CallRead, ItemRead, SilentEmits
<1>3. /\ run' \in Runs /\ run'.started = run.started
      /\ run'.terminal = run.terminal /\ run'.done = run.done
  BY <1>1, CallRead, ItemRead, HopsAssumption DEF NextHop, Runs
<1>4. Flagged(0, 0, 0, "hop") /\ Grammar'
  BY <1>1, <1>3, CallRead, ItemRead, NothingSent DEF Flagged
<1> QED
  BY <1>1, <1>2, <1>3, <1>4, CallRead, ItemRead, RelayStep DEF Relaying

LEMMA ShowCallStep == ASSUME IInv, ShowCall PROVE IInv'
<1> DEFINE w == [wire EXCEPT !.shown = TRUE, !.told = TRUE, !.call = TRUE]
<1>1. /\ Receive("call_done") /\ Write(Closed(w), "returned")
      /\ run' = [run EXCEPT !.trace = TRUE]
  BY DEF ShowCall
<1>2. wire \in Wires /\ run \in Runs
  BY <1>1, CallRead, ItemRead
<1>3. /\ w \in Wires /\ w.starts = wire.starts /\ w.ends = wire.ends
      /\ w.dones = wire.dones
  BY <1>2 DEF Wires
<1> HIDE DEF w
<1>4. wire.starts = wire.starts + 0
  BY <1>2 DEF Wires
<1>5. Emits(0, 1, 1, "returned")
  BY <1>1, <1>2, <1>3, <1>4, ClosedWire, WriteEmits
<1>6. /\ run' \in Runs /\ run'.started = run.started
      /\ run'.terminal = run.terminal /\ run'.done = run.done
  BY <1>1, <1>2 DEF Runs
<1>7. Flagged(0, 1, 1, "returned") /\ Grammar'
  BY <1>1, <1>6, CallRead, ItemRead, NothingSent DEF Flagged
<1> QED
  BY <1>1, <1>5, <1>6, <1>7, CallRead, ItemRead, RelayStep

LEMMA StartStep == ASSUME IInv, Start PROVE IInv'
<1>1. /\ Read("start") /\ "start" \in Items /\ hs' = Noted("start")
      /\ run' = [run EXCEPT !.started = TRUE]
  BY DEF Start, Receive, Items
<1>2. hs' \in HopStates /\ wire \in Wires
  BY <1>1, ItemRead, NotedType
<1>3. /\ run' \in Runs /\ run'.started /\ run'.hop = run.hop
      /\ run'.terminal = run.terminal /\ run'.done = run.done
  BY <1>1, ItemRead DEF Runs
<1>4. Grammar'
  BY <1>1, <1>3, ItemRead, NothingSent
<1>5. CASE run.started
  <2>1. Emits(0, 0, 0, "reading") /\ Flagged(0, 0, 0, "reading")
    BY <1>2, <1>3, <1>5, SilentEmits DEF Start, Flagged
  <2> QED
    BY <1>1, <1>2, <1>3, <1>4, <2>1, ItemRead, RelayStep DEF Relaying
<1>6. CASE ~run.started
  <2> DEFINE w == [wire EXCEPT !.starts = @ + 1]
  <2>1. /\ w \in Wires /\ w.starts = wire.starts + 1 /\ w.ends = wire.ends + 0
        /\ w.dones = wire.dones + 0 /\ w.call = wire.call
    BY <1>2 DEF Wires
  <2>2. Write(w, "reading")
    BY <1>6 DEF Start
  <2> HIDE DEF w
  <2>3. Emits(1, 0, 0, "reading")
    BY <1>2, <2>1, <2>2, WriteEmits
  <2>4. Flagged(1, 0, 0, "reading")
    BY <1>3, <1>6 DEF Flagged
  <2> QED
    BY <1>1, <1>2, <1>3, <1>4, <2>3, <2>4, ItemRead, RelayStep DEF Relaying
<1> QED
  BY <1>5, <1>6

(* A terminal event: the first of the run, but for the [DONE] after one.   *)
LEMMA TerminalRead ==
  ASSUME IInv, NEW e \in Terminals, Receive(e)
  PROVE  /\ pc = "reading" /\ pc \in Relaying
         /\ upstream' \in {"open", "ended", "closed"}
         /\ e # "done" => ~run.terminal
         /\ ~run.done
         /\ e \in {"cut", "done"} => upstream' = "closed"
         /\ run.hop < MaxHops + RepairHops
         /\ UNCHANGED <<attempt, registered, gone>>
         /\ run \in Runs /\ wire \in Wires
         /\ hs' \in HopStates /\ hs'.terminal
<1>1. e \in Events /\ e \notin Items
  BY DEF Terminals, Events, Items
<1>2. hs' \in HopStates /\ hs'.terminal
  BY <1>1, NotedType DEF IInv, TypesOK, Receive
<1> QED
  BY <1>1, <1>2 DEF IInv, Receive, Read, Sent, Terminals, Grammar, HopsLeft,
                    TypesOK, Relaying

(* Grammar after a terminal event, in the hop it ended.                    *)
LEMMA TerminalGrammar ==
  ASSUME IInv, NEW e \in Terminals, Receive(e),
         run'.done => upstream' = "closed" \/ run'.done = run.done,
         upstream' # "open", pc' = "reading"
  PROVE  Grammar'
BY TerminalRead DEF Grammar

LEMMA ForwardTerminalStep ==
  ASSUME IInv, NEW e \in {"completed", "failed"}, Receive(e),
         NEW w \in Wires, w.starts = wire.starts, w.ends = wire.ends,
         w.dones = wire.dones, w.call = wire.call,
         Write(Ended(w), "reading"), run' = [run EXCEPT !.terminal = TRUE]
  PROVE  IInv'
<1>1. e \in Terminals /\ upstream' = "ended"
  BY DEF Terminals, Receive, Read, Sent, Items
<1>2. wire \in Wires /\ run \in Runs /\ ~run.terminal /\ ~run.done
  BY <1>1, TerminalRead
<1>3. wire.starts = wire.starts + 0 /\ wire.dones = wire.dones + 0
  BY <1>2 DEF Wires
<1>4. Emits(0, 1, 0, "reading")
  BY <1>2, <1>3, EndedWire, WriteEmits
<1>5. /\ run' \in Runs /\ run'.terminal /\ run'.started = run.started
      /\ run'.done = run.done /\ run'.hop = run.hop
  BY <1>2 DEF Runs
<1>6. Flagged(0, 1, 0, "reading")
  BY <1>2, <1>5 DEF Flagged
<1>7. pc' = "reading" => Grammar'
  BY <1>1, <1>5, TerminalGrammar
<1> QED
  BY <1>1, <1>4, <1>5, <1>6, <1>7, TerminalRead, RelayStep DEF Relaying

LEMMA FailStep == ASSUME IInv, Fail PROVE IInv'
<1> DEFINE w == [wire EXCEPT !.told = TRUE]
<1>1. /\ Receive("failed") /\ Write(Ended(w), "reading")
      /\ run' = [run EXCEPT !.terminal = TRUE]
  BY DEF Fail
<1>2. wire \in Wires
  BY DEF IInv, TypesOK
<1>3. /\ w \in Wires /\ w.starts = wire.starts /\ w.ends = wire.ends
      /\ w.dones = wire.dones /\ w.call = wire.call
  BY <1>2, FlaggedWire
<1> HIDE DEF w
<1> QED
  BY <1>1, <1>3, ForwardTerminalStep

LEMMA CompleteStep == ASSUME IInv, Complete PROVE IInv'
<1>1. Receive("completed") /\ "completed" \in Terminals
  BY DEF Complete, Terminals
<1>2. wire \in Wires /\ run \in Runs /\ ~run.terminal /\ ~run.done
  BY <1>1, TerminalRead
<1>3. CASE Repair
  <2>1. /\ Silently("hop") /\ run.repairs < RepairHops
        /\ run' = [run EXCEPT !.hop = @ + 1, !.repairs = @ + 1,
                              !.pending = TRUE]
    BY <1>3 DEF Repair
  <2>2. /\ run' \in Runs /\ run'.started = run.started
        /\ run'.terminal = run.terminal /\ run'.done = run.done
    <3>1. run.hop + 1 \in 0..(MaxHops + RepairHops)
          /\ run.repairs + 1 \in 0..RepairHops
      BY <1>1, <1>2, <2>1, TerminalRead, HopsAssumption DEF Runs
    <3> QED
      BY <1>2, <2>1, <3>1 DEF Runs
  <2>3. Emits(0, 0, 0, "hop") /\ Flagged(0, 0, 0, "hop") /\ Grammar'
    BY <1>2, <2>1, <2>2, SilentEmits, NothingSent DEF Flagged
  <2> QED
    BY <1>1, <2>2, <2>3, TerminalRead, RelayStep DEF Relaying
<1>4. CASE Fallback /\ run' = run
  <2>1. Emits(0, 1, 1, "returned") /\ Flagged(0, 1, 1, "returned") /\ Grammar'
    BY <1>2, <1>4, FallbackEmits, NothingSent DEF Flagged
  <2> QED
    BY <1>1, <1>2, <1>4, <2>1, TerminalRead, RelayStep
<1>5. CASE ForwardTerminal
  BY <1>1, <1>2, <1>5, ForwardTerminalStep DEF ForwardTerminal
<1> QED
  BY <1>3, <1>4, <1>5 DEF Complete

(* A completion that is made up for one that is missing.                   *)
LEMMA CloseStep ==
  ASSUME IInv, pc = "reading", ~run.terminal, ~run.done,
         NEW next \in {"reading", "returned"}, Close(next),
         hs' \in HopStates, hs'.terminal \/ next = "returned",
         upstream' \in {"open", "ended", "closed"},
         upstream' = "closed" \/ next = "returned",
         UNCHANGED <<attempt, registered, gone>>
  PROVE  IInv'
<1>1. /\ wire \in Wires /\ run \in Runs /\ pc \in Relaying
      /\ run.hop < MaxHops + RepairHops
  BY DEF IInv, TypesOK, HopsLeft, Relaying
<1>2. Emits(0, 1, 1, next)
  BY <1>1, CloseEmits DEF Close
<1>3. /\ run' \in Runs /\ run'.terminal /\ run'.done
      /\ run'.started = run.started /\ run'.hop = run.hop
  BY <1>1 DEF Close, Runs
<1>4. Flagged(0, 1, 1, next)
  BY <1>3 DEF Flagged
<1>5. pc' = next => Grammar'
  BY DEF Grammar
<1> QED
  BY <1>1, <1>2, <1>3, <1>4, <1>5, RelayStep DEF Relaying

LEMMA CutTerminalStep == ASSUME IInv, CutTerminal PROVE IInv'
<1>1. Receive("cut") /\ "cut" \in Terminals
  BY DEF CutTerminal, Terminals
<1>2. CASE Close("reading")
  BY <1>1, <1>2, TerminalRead, CloseStep
<1>3. CASE Write(wire, "reading") /\ run' = [run EXCEPT !.terminal = TRUE]
  <2>1. wire \in Wires /\ run \in Runs /\ ~run.done
    BY <1>1, TerminalRead
  <2>2. /\ wire.starts = wire.starts + 0 /\ wire.ends = wire.ends + 0
        /\ wire.dones = wire.dones + 0
    BY <2>1 DEF Wires
  <2>3. Emits(0, 0, 0, "reading")
    BY <1>3, <2>1, <2>2, WriteEmits
  <2>4. /\ run' \in Runs /\ run'.terminal /\ run'.started = run.started
        /\ run'.done = run.done /\ run'.hop = run.hop
    BY <1>3, <2>1 DEF Runs
  <2>5. Flagged(0, 0, 0, "reading")
    BY <2>4 DEF Flagged
  <2>6. pc' = "reading" => Grammar'
    BY <1>1, <2>4, TerminalRead, TerminalGrammar
  <2> QED
    BY <1>1, <2>3, <2>4, <2>5, <2>6, TerminalRead, RelayStep DEF Relaying
<1> QED
  BY <1>2, <1>3 DEF CutTerminal

LEMMA DoneMarkerStep == ASSUME IInv, DoneMarker PROVE IInv'
<1>1. Receive("done") /\ "done" \in Terminals
  BY DEF DoneMarker, Terminals
<1>2. CASE Close("reading") /\ ~run.terminal
  BY <1>1, <1>2, TerminalRead, CloseStep
<1>3. CASE Write(Done(wire), "reading") /\ run' = [run EXCEPT !.done = TRUE]
  <2>1. wire \in Wires /\ run \in Runs /\ ~run.done
    BY <1>1, TerminalRead
  <2>2. wire.starts = wire.starts + 0 /\ wire.ends = wire.ends + 0
    BY <2>1 DEF Wires
  <2>3. Emits(0, 0, 1, "reading")
    BY <1>3, <2>1, <2>2, DoneWire, WriteEmits
  <2>4. /\ run' \in Runs /\ run'.done /\ run'.started = run.started
        /\ run'.terminal = run.terminal /\ run'.hop = run.hop
    BY <1>3, <2>1 DEF Runs
  <2>5. Flagged(0, 0, 1, "reading")
    BY <2>1, <2>4 DEF Flagged
  <2>6. pc' = "reading" => Grammar'
    BY <1>1, TerminalRead, TerminalGrammar
  <2> QED
    BY <1>1, <2>3, <2>4, <2>5, <2>6, TerminalRead, RelayStep DEF Relaying
<1> QED
  BY <1>2, <1>3 DEF DoneMarker

LEMMA LateEventStep == ASSUME IInv, LateEvent PROVE IInv'
<1>1. PICK e \in Events : Read(e) /\ Noted(e).overdue /\ hs' = Noted(e)
  BY DEF LateEvent
<1>2. FinishOnTimeout(hs') /\ run' = run
  BY DEF LateEvent
<1>3. hs \in HopStates /\ wire \in Wires
  BY DEF IInv, TypesOK
<1>4. hs' \in HopStates /\ e \in Items
  BY <1>1, <1>3, NotedType DEF Events, Terminals
<1> QED
  BY <1>1, <1>2, <1>3, <1>4, TimeoutEmits, ItemStep

(* A step of the relay that raises an exception of its own.                *)
LEMMA RaiseStep ==
  ASSUME IInv, pc \in Relaying, NEW e \in Exceptions, Throw(e),
         UNCHANGED <<attempt, run, hs, upstream, registered, gone>>
  PROVE  IInv'
<1>1. pc' = "raised" /\ raised' = e /\ wire' = wire /\ e # "none"
  BY DEF Throw, Exceptions
<1>2. TypesOK'
  BY <1>1 DEF IInv, TypesOK, Steps
<1>3. HopsLeft' /\ Grammar' /\ Phases' /\ CallLast'
  BY <1>1 DEF IInv, HopsLeft, Grammar, Phases, CallLast, Relaying
<1>4. pc # "end"
  BY DEF Relaying
<1>5. Bit(pc = "end" /\ raised # "none") = 0
      /\ Bit(pc' = "end" /\ raised' # "none") = 0
  BY <1>1, <1>4 DEF Bit
<1>6. Sums'
  BY <1>1, <1>5 DEF IInv, Sums, Relaying
<1> QED
  BY <1>1, <1>2, <1>3, <1>6 DEF IInv

LEMMA EndOfStreamStep == ASSUME IInv, EndOfStream PROVE IInv'
<1>1. /\ pc = "reading" /\ pc \in Relaying /\ wire \in Wires /\ run \in Runs
      /\ hs' \in HopStates /\ upstream' \in {"open", "ended", "closed"}
      /\ UNCHANGED <<attempt, hs, upstream, registered, gone>>
  BY DEF EndOfStream, IInv, TypesOK, Relaying
<1>2. CASE /\ ~run.done
           /\ Write(Done(wire), "returned") /\ run' = [run EXCEPT !.done = TRUE]
  <2>1. wire.starts = wire.starts + 0 /\ wire.ends = wire.ends + 0
    BY <1>1 DEF Wires
  <2>2. Emits(0, 0, 1, "returned")
    BY <1>1, <1>2, <2>1, DoneWire, WriteEmits
  <2>3. /\ run' \in Runs /\ run'.done /\ run'.started = run.started
        /\ run'.terminal = run.terminal
    BY <1>1, <1>2 DEF Runs
  <2>4. Flagged(0, 0, 1, "returned")
    BY <1>2, <2>3 DEF Flagged
  <2>5. pc' = "returned" => Grammar'
    BY DEF Grammar
  <2> QED
    BY <1>1, <2>2, <2>3, <2>4, <2>5, RelayStep
<1>3. CASE Close("returned") /\ ~run.terminal /\ ~run.done
  BY <1>1, <1>3, CloseStep
<1>4. CASE Silently("returned") /\ run' = run
  <2>1. Emits(0, 0, 0, "returned") /\ Flagged(0, 0, 0, "returned")
    BY <1>1, <1>4, SilentEmits DEF Flagged
  <2>2. pc' = "returned" => Grammar'
    BY DEF Grammar
  <2> QED
    BY <1>1, <1>4, <2>1, <2>2, RelayStep
<1> QED
  BY <1>2, <1>3, <1>4 DEF EndOfStream

LEMMA ReadStallsStep == ASSUME IInv, ReadStalls PROVE IInv'
<1>1. /\ pc = "reading" /\ pc \in Relaying /\ wire \in Wires /\ run \in Runs
      /\ hs' \in HopStates /\ upstream' \in {"open", "ended", "closed"}
      /\ UNCHANGED <<attempt, run, hs, upstream, registered, gone>>
  BY DEF ReadStalls, IInv, TypesOK, Relaying
<1>2. CASE Watched(hs) /\ FinishOnTimeout(hs)
  <2>1. Emits(0, 1, 1, "returned")
    BY <1>1, <1>2, TimeoutEmits
  <2>2. ~run.terminal /\ ~run.done
    BY <1>1, <1>2 DEF Watched, IInv, Grammar
  <2>3. Flagged(0, 1, 1, "returned") /\ Grammar'
    BY <1>1, <2>2, NothingSent DEF Flagged
  <2> QED
    BY <1>1, <2>1, <2>3, RelayStep
<1>3. CASE Throw("other")
  BY <1>1, <1>3, RaiseStep DEF Exceptions
<1> QED
  BY <1>2, <1>3 DEF ReadStalls

LEMMA ReadFailsStep == ASSUME IInv, ReadFails PROVE IInv'
BY RaiseStep DEF ReadFails, Relaying, Exceptions

LEMMA OpenStep == ASSUME IInv, Open PROVE IInv'
<1>1. /\ pc = "hop" /\ pc \in Relaying /\ wire \in Wires /\ run \in Runs
      /\ ~run.terminal /\ ~run.done /\ ~Exhausted
      /\ UNCHANGED <<attempt, registered, gone>>
      /\ run' = [run EXCEPT !.repairing = run.pending, !.pending = FALSE]
      /\ upstream' \in {"open", "ended", "closed"}
  BY DEF Open, IInv, TypesOK, Grammar, Relaying
<1>2. hs' \in HopStates
  BY DEF Open, FreshHop, HopStates
<1>3. /\ run' \in Runs /\ run'.started = run.started /\ run'.hop = run.hop
      /\ run'.terminal = run.terminal /\ run'.done = run.done
  BY <1>1 DEF Runs
<1>4. run'.hop < MaxHops + RepairHops
  BY <1>1, <1>3, HopsAssumption DEF Exhausted, Runs
<1>5. Emits(0, 0, 0, "reading") /\ Flagged(0, 0, 0, "reading") /\ Grammar'
  BY <1>1, <1>3, SilentEmits, NothingSent DEF Open, Flagged
<1> QED
  BY <1>1, <1>2, <1>3, <1>4, <1>5, RelayStep DEF Relaying

LEMMA OpenFailsStep == ASSUME IInv, OpenFails PROVE IInv'
BY RaiseStep DEF OpenFails, Relaying

LEMMA HopLimitStep == ASSUME IInv, HopLimit PROVE IInv'
<1> DEFINE w == [wire EXCEPT !.limit = TRUE]
<1>1. /\ pc \in Relaying /\ wire \in Wires /\ run \in Runs
      /\ ~run.terminal /\ ~run.done /\ hs' \in HopStates
      /\ upstream' \in {"open", "ended", "closed"}
      /\ UNCHANGED <<attempt, run, hs, registered, gone>>
      /\ Write(Closed(w), "returned")
  BY DEF HopLimit, IInv, TypesOK, Grammar, Relaying
<1>2. /\ w \in Wires /\ w.starts = wire.starts
      /\ w.ends = wire.ends /\ w.dones = wire.dones
  BY <1>1, FlaggedWire
<1> HIDE DEF w
<1>3. Emits(0, 1, 1, "returned") /\ Flagged(0, 1, 1, "returned") /\ Grammar'
  BY <1>1, <1>2, ClosedFromEmits, NothingSent DEF Flagged
<1> QED
  BY <1>1, <1>3, RelayStep

LEMMA ToolReturnsStep == ASSUME IInv, ToolReturns PROVE IInv'
<1> DEFINE w == [wire EXCEPT !.open = FALSE, !.told = TRUE]
<1>1. /\ pc \in Relaying /\ wire \in Wires /\ run \in Runs
      /\ ~run.terminal /\ ~run.done /\ hs' \in HopStates
      /\ run.hop < MaxHops + RepairHops
      /\ upstream' \in {"open", "ended", "closed"}
      /\ UNCHANGED <<attempt, hs, registered, gone>> /\ Write(w, "hop")
      /\ run' = [run EXCEPT !.trace = TRUE, !.hop = @ + 1]
  BY DEF ToolReturns, IInv, TypesOK, Grammar, HopsLeft, Relaying
<1>2. /\ w \in Wires /\ w.starts = wire.starts /\ w.ends = wire.ends
      /\ w.dones = wire.dones /\ w.call = wire.call
  BY <1>1, FlaggedWire
<1> HIDE DEF w
<1>3. /\ wire.starts = wire.starts + 0 /\ wire.ends = wire.ends + 0
      /\ wire.dones = wire.dones + 0
  BY <1>1 DEF Wires
<1>4. Emits(0, 0, 0, "hop")
  BY <1>1, <1>2, <1>3, WriteEmits
<1>5. /\ run' \in Runs /\ run'.started = run.started
      /\ run'.terminal = run.terminal /\ run'.done = run.done
  <2>1. run.hop + 1 \in 0..(MaxHops + RepairHops)
    BY <1>1, HopsAssumption DEF Runs
  <2> QED
    BY <1>1, <2>1 DEF Runs
<1>6. Flagged(0, 0, 0, "hop") /\ Grammar'
  BY <1>1, <1>5, NothingSent DEF Flagged
<1> QED
  BY <1>1, <1>4, <1>5, <1>6, RelayStep DEF Relaying

LEMMA ToolRaisesStep == ASSUME IInv, ToolRaises PROVE IInv'
BY RaiseStep DEF ToolRaises, Relaying, Exceptions

(* A failure that is sent, or not, by the handlers of the request thread.  *)
LEMMA FailureStep ==
  ASSUME IInv, pc \in {"raised", "failing"}, attempt = 1,
         SendFailure \/ (Finish /\ UNCHANGED wire),
         UNCHANGED <<attempt, run, hs, upstream, raised, gone>>
  PROVE  IInv'
<1>1. pc' = "end" /\ raised # "none" /\ wire \in Wires
  BY DEF SendFailure, Finish, IInv, Phases, TypesOK
<1>2. registered' \in BOOLEAN
  BY DEF SendFailure, Finish, IInv, TypesOK
<1>3. \/ wire' = wire
      \/ wire' = Closed([wire EXCEPT !.told = TRUE])
  BY DEF SendFailure, Finish
<1>4. /\ wire' \in Wires /\ wire'.starts = wire.starts
      /\ wire'.ends \in {wire.ends, wire.ends + 1}
      /\ wire'.dones \in {wire.dones, wire.dones + 1}
  <2> DEFINE w == [wire EXCEPT !.told = TRUE]
  <2>1. /\ w \in Wires /\ w.starts = wire.starts /\ w.ends = wire.ends
        /\ w.dones = wire.dones /\ w.call = wire.call
    BY <1>1, FlaggedWire
  <2>2. wire' = wire \/ wire' = Closed(w)
    BY <1>3
  <2> HIDE DEF w
  <2> QED
    BY <1>1, <2>1, <2>2, ClosedWire
<1>5. TypesOK'
  BY <1>1, <1>2, <1>4 DEF IInv, TypesOK, Steps
<1>6. HopsLeft' /\ Phases' /\ Grammar' /\ CallLast'
  BY <1>1 DEF HopsLeft, Phases, Grammar, CallLast, Relaying
<1>7. Sums'
  <2>1. Bit(pc = "end" /\ raised # "none") = 0
        /\ Bit(pc' = "end" /\ raised' # "none") = 1
    BY <1>1 DEF Bit
  <2>2. wire.starts <= attempt /\ wire.ends <= attempt /\ wire.dones <= attempt
    BY <2>1, <1>1 DEF IInv, Sums, Wires, TypesOK
  <2>3. /\ wire.starts \in Nat /\ wire.ends \in Nat /\ wire.dones \in Nat
    BY <1>1 DEF Wires
  <2>4. /\ wire'.starts <= attempt' /\ wire'.ends <= attempt' + 1
        /\ wire'.dones <= attempt' + 1
    BY <1>4, <2>2, <2>3
  <2> QED
    BY <1>1, <2>1, <2>4 DEF Sums, Relaying
<1> QED
  BY <1>1, <1>5, <1>6, <1>7 DEF IInv

LEMMA RetryStep == ASSUME IInv, Retry PROVE IInv'
<1>1. /\ attempt = 1 /\ attempt' = 2 /\ pc = "recovering" /\ pc' = "hop"
      /\ raised' = "none" /\ wire' = wire /\ run' = FreshRun /\ hs' = FreshHop
      /\ UNCHANGED <<upstream, registered, gone>> /\ wire \in Wires
  BY DEF Retry, IInv, Phases, TypesOK
<1>2. run' \in Runs /\ ~run'.terminal /\ ~run'.done
  BY <1>1, HopsAssumption DEF FreshRun, Runs
<1>3. hs' \in HopStates
  BY <1>1 DEF FreshHop, HopStates
<1>4. TypesOK'
  BY <1>1, <1>2, <1>3 DEF IInv, TypesOK, Steps
<1>5. HopsLeft' /\ Phases' /\ Grammar' /\ CallLast'
  BY <1>1, <1>2
     DEF IInv, HopsLeft, Phases, Grammar, CallLast, Relaying
<1>6. Sums'
  <2>1. Bit(pc = "end" /\ raised # "none") = 0
        /\ Bit(pc' = "end" /\ raised' # "none") = 0
    BY <1>1 DEF Bit
  <2>2. /\ wire.starts \in Nat /\ wire.ends \in Nat /\ wire.dones \in Nat
    BY <1>1 DEF Wires
  <2>3. wire.starts <= 1 /\ wire.ends <= 1 /\ wire.dones <= 1
    BY <1>1, <2>1, <2>2 DEF IInv, Sums
  <2>4. /\ wire.starts <= 2 - 1 + Bit(run'.started)
        /\ wire.ends <= 2 - 1 + Bit(run'.terminal)
        /\ wire.dones <= 2 - 1 + Bit(run'.done)
    BY <2>2, <2>3 DEF Bit
  <2> QED
    BY <1>1, <2>1, <2>2, <2>3, <2>4 DEF Sums
<1> QED
  BY <1>1, <1>4, <1>5, <1>6 DEF IInv

(* The other steps of the request thread send nothing and change no run.   *)
LEMMA QuietStep ==
  ASSUME IInv, UNCHANGED <<attempt, run, raised, wire>>,
         hs' \in HopStates, upstream' = upstream,
         hs'.terminal = hs.terminal,
         registered' \in BOOLEAN, gone' \in BOOLEAN,
         \/ pc' = pc
         \/ pc = "start" /\ pc' \in {"hop", "end"}
         \/ pc = "returned" /\ pc' = "end"
         \/ pc = "raised" /\ attempt = 1 /\ pc' \in {"recovering", "failing"}
         \/ pc = "raised" /\ pc' = "end"
         \/ pc = "recovering" /\ pc' \in {"end", "failing"}
  PROVE  IInv'
<1>1. TypesOK'
  BY DEF IInv, TypesOK, Steps
<1>2. HopsLeft'
  BY DEF IInv, HopsLeft
<1>3. Phases'
  BY DEF IInv, Phases, Relaying
<1>4. Grammar'
  BY DEF IInv, Grammar
<1>5. CallLast'
  BY DEF IInv, CallLast
<1>6. Sums'
  <2>1. wire \in Wires /\ attempt \in Nat
    BY DEF IInv, TypesOK
  <2>2. pc' = pc \/ pc # "end"
    OBVIOUS
  <2>3. /\ Bit(pc = "end" /\ raised # "none") \in 0..1
        /\ Bit(pc' = "end" /\ raised' # "none") \in 0..1
        /\ Bit(pc = "end" /\ raised # "none")
             <= Bit(pc' = "end" /\ raised' # "none")
    BY <2>2 DEF Bit
  <2>4. /\ wire.starts \in Nat /\ wire.ends \in Nat /\ wire.dones \in Nat
    BY <2>1 DEF Wires
  <2>5. /\ wire.starts <= attempt
        /\ wire.ends <= attempt + Bit(pc' = "end" /\ raised' # "none")
        /\ wire.dones <= attempt + Bit(pc' = "end" /\ raised' # "none")
    BY <2>1, <2>3, <2>4 DEF IInv, Sums
  <2>6. pc' \in Relaying \cup {"start"} => pc \in Relaying \cup {"start"}
    BY DEF Relaying
  <2>7. pc' \in Relaying \cup {"start"} =>
          /\ wire.starts <= attempt - 1 + Bit(run.started)
          /\ wire.ends <= attempt - 1 + Bit(run.terminal)
          /\ wire.dones <= attempt - 1 + Bit(run.done)
    BY <2>6 DEF IInv, Sums
  <2> QED
    BY <2>5, <2>7 DEF Sums
<1> QED
  BY <1>1, <1>2, <1>3, <1>4, <1>5, <1>6 DEF IInv

-----------------------------------------------------------------------------
LEMMA InitInv == Init => IInv
<1> SUFFICES ASSUME Init PROVE IInv
  OBVIOUS
<1>1. run \in Runs /\ hs \in HopStates /\ wire \in Wires
  <2>1. run \in Runs
    BY HopsAssumption DEF Init, FreshRun, Runs
  <2>2. hs \in HopStates
    BY DEF Init, FreshHop, HopStates
  <2>3. wire \in Wires
    BY DEF Init, Wires
  <2> QED
    BY <2>1, <2>2, <2>3
<1>2. TypesOK
  <2>1. /\ pc = "start" /\ attempt = 1 /\ upstream = "closed"
        /\ raised = "none" /\ registered = FALSE /\ gone = FALSE
    BY DEF Init
  <2>2. registered \in BOOLEAN /\ gone \in BOOLEAN
    BY <2>1
  <2>3. attempt \in 1..2
    BY <2>1
  <2> QED
    BY <1>1, <2>1, <2>2, <2>3 DEF TypesOK, Steps
<1>3. ~run.terminal /\ ~run.done /\ ~run.started /\ ~wire.call
  BY DEF Init, FreshRun
<1>4. HopsLeft /\ Phases /\ Grammar /\ CallLast
  BY <1>3 DEF Init, HopsLeft, Phases, Grammar, CallLast, Relaying
<1>5. wire.starts = 0 /\ wire.ends = 0 /\ wire.dones = 0 /\ attempt = 1
  BY DEF Init
<1>6. pc = "start"
  BY DEF Init
<1>7. Sums
  BY <1>3, <1>5, <1>6 DEF Sums, Bit
<1> QED
  BY <1>2, <1>3, <1>4, <1>7 DEF IInv

LEMMA ReadSteps == ASSUME IInv, ReadStep PROVE IInv'
BY LateEventStep, ArtifactStep, StartStep, ForwardStep, ReasonStep,
   AssembleStep, AbortCallStep, InjectResultStep, StartToolStep, ShowCallStep,
   CompleteStep, FailStep, CutTerminalStep, DoneMarkerStep,
   EndOfStreamStep, ReadStallsStep, ReadFailsStep DEF ReadStep

LEMMA HopSteps == ASSUME IInv, HopStep PROVE IInv'
BY OpenStep, OpenFailsStep, HopLimitStep, ToolReturnsStep, ToolRaisesStep
   DEF HopStep

LEMMA RequestSteps == ASSUME IInv, RequestStep PROVE IInv'
<1> USE DEF IInv, TypesOK
<1>1. CASE Register
  BY <1>1, QuietStep DEF Register
<1>2. CASE Return
  BY <1>2, QuietStep DEF Return, Finish
<1>3. CASE HandleDisconnect
  BY <1>3, FailureStep DEF HandleDisconnect
<1>4. CASE HandleError
  BY <1>4, QuietStep DEF HandleError
<1>5. CASE Retry
  BY <1>5, RetryStep
<1>6. CASE RecoveryEnds
  BY <1>6, QuietStep DEF RecoveryEnds
<1>7. CASE RetryRaises
  BY <1>7, QuietStep DEF RetryRaises
<1>8. CASE GiveUp
  <2>1. attempt = 1 /\ pc = "failing"
    BY <1>8 DEF GiveUp, Phases
  <2> QED
    BY <1>8, <2>1, FailureStep DEF GiveUp
<1> QED
  BY <1>1, <1>2, <1>3, <1>4, <1>5, <1>6, <1>7, <1>8 DEF RequestStep

LEMMA NextInv == IInv /\ [Next]_vars => IInv'
<1> SUFFICES ASSUME IInv, [Next]_vars PROVE IInv'
  OBVIOUS
<1>1. TypesOK
  BY DEF IInv
<1>2. CASE DeadlinePasses
  <2>1. hs' \in HopStates /\ hs'.terminal = hs.terminal
    BY <1>1, <1>2 DEF DeadlinePasses, TypesOK, HopStates
  <2> QED
    BY <1>1, <1>2, <2>1, QuietStep DEF DeadlinePasses, TypesOK
<1>3. CASE ClientGoes
  BY <1>1, <1>3, QuietStep DEF ClientGoes, TypesOK
<1>4. CASE UNCHANGED vars
  BY <1>1, <1>4, QuietStep DEF vars, TypesOK
<1> QED
  BY <1>2, <1>3, <1>4, ReadSteps, HopSteps, RequestSteps DEF Next, Stopped

LEMMA Invariance == Spec => []IInv
BY InitInv, NextInv, PTL DEF Spec

(* Every reachable state is well typed: hops and repairs stay within their *)
(* limits, and a client never gets more than two starts and three ends.    *)
THEOREM TypeCorrect == Spec => []TypeOK
<1>1. IInv => TypeOK
  <2> SUFFICES ASSUME IInv PROVE TypeOK
    OBVIOUS
  <2>1. /\ wire.starts \in Nat /\ wire.ends \in Nat /\ wire.dones \in Nat
        /\ attempt \in 1..2
    BY DEF IInv, TypesOK, Wires
  <2>2. Bit(pc = "end" /\ raised # "none") \in 0..1
    BY DEF Bit
  <2>3. /\ wire.starts \in 0..2 /\ wire.ends \in 0..4 /\ wire.dones \in 0..4
    BY <2>1, <2>2 DEF IInv, Sums
  <2>4. wire \in [starts: 0..2, ends: 0..4, dones: 0..4, told: BOOLEAN,
                  shown: BOOLEAN, open: BOOLEAN, call: BOOLEAN, limit: BOOLEAN]
    BY <2>3 DEF IInv, TypesOK, Wires
  <2> QED
    BY <2>4 DEF IInv, TypesOK, TypeOK, Runs, HopStates
<1> QED
  BY <1>1, Invariance, PTL

(* For any number of hops and repairs and whatever the upstream sends, a   *)
(* run starts the response once and, unless it raises, ends it once.       *)
THEOREM OneResponse == Spec => []OneResponsePerRun
<1>1. IInv => OneResponsePerRun
  <2> SUFFICES ASSUME IInv PROVE OneResponsePerRun
    OBVIOUS
  <2>1. wire.starts <= attempt
    BY DEF IInv, Sums
  <2>2. ASSUME raised = "none"
        PROVE  wire.ends <= attempt /\ wire.dones <= attempt
    <3>1. Bit(pc = "end" /\ raised # "none") = 0
      BY <2>2 DEF Bit
    <3>2. wire.ends <= attempt + 0 /\ wire.dones <= attempt + 0
      BY <3>1 DEF IInv, Sums
    <3> QED
      BY <3>2 DEF IInv, TypesOK
  <2> QED
    BY <2>1, <2>2 DEF OneResponsePerRun
<1> QED
  BY <1>1, Invariance, PTL

(* Once the client has been given a call to run, nothing more is written.  *)
THEOREM CallIsLast == Spec => CallEndsTheStream
<1>1. IInv /\ [Next]_vars => [wire.call => UNCHANGED wire]_vars
  <2> SUFFICES ASSUME IInv, Next, wire.call PROVE UNCHANGED wire
    BY DEF vars
  <2>1. pc \in {"returned", "end"}
    BY DEF IInv, CallLast
  <2>2. ~ReadStep
    BY <2>1 DEF ReadStep, LateEvent, Artifact, Start, Forward, Reason,
       Assemble, AbortCall, InjectResult, StartTool, ShowCall, Complete, Fail,
       CutTerminal, DoneMarker, EndOfStream, ReadStalls, ReadFails, Receive,
       Read
  <2>3. ~HopStep
    BY <2>1 DEF HopStep, Open, OpenFails, HopLimit, ToolReturns, ToolRaises
  <2>4. RequestStep => UNCHANGED wire
    BY <2>1 DEF RequestStep, Register, Return, HandleDisconnect, HandleError,
       Retry, RecoveryEnds, RetryRaises, GiveUp
  <2> QED
    BY <2>2, <2>3, <2>4 DEF Next, DeadlinePasses, ClientGoes, Stopped, vars
<1> QED
  BY <1>1, Invariance, PTL DEF Spec, CallEndsTheStream

(* A request is registered while it is served, and afterwards only when    *)
(* its client has gone or its retry has failed.                            *)
THEOREM Registry == Spec => []RegisteredWhileServed
<1>1. Init => RegisteredWhileServed
  BY DEF Init, RegisteredWhileServed
<1>2. IInv /\ RegisteredWhileServed /\ [Next]_vars => RegisteredWhileServed'
  <2> SUFFICES ASSUME IInv, RegisteredWhileServed, [Next]_vars
               PROVE  RegisteredWhileServed'
    OBVIOUS
  <2> USE DEF RegisteredWhileServed
  <2>1. CASE ReadStep
    <3>1. pc = "reading" /\ UNCHANGED registered
      BY <2>1 DEF ReadStep, LateEvent, Artifact, Start, Forward, Reason,
         Assemble, AbortCall, InjectResult, StartTool, ShowCall, Complete,
         Fail, CutTerminal, DoneMarker, EndOfStream, ReadStalls, ReadFails,
         Receive, Read
    <3>2. pc' # "end"
      <4>1. ASSUME NEW w, NEW next, Write(w, next), next # "end"
            PROVE  pc' # "end"
        BY <4>1 DEF Write, Throw
      <4>2. Fallback => pc' # "end"
        BY <4>1 DEF Fallback
      <4>3. ASSUME NEW h, FinishOnTimeout(h) PROVE pc' # "end"
        BY <4>1, <4>2, <4>3 DEF FinishOnTimeout
      <4>4. LateEvent \/ Artifact \/ ReadStalls \/ ReadFails => pc' # "end"
        BY <4>2, <4>3 DEF LateEvent, Artifact, ReadStalls, ReadFails, Throw
      <4>5. Start \/ Forward \/ Reason \/ Assemble => pc' # "end"
        BY <4>1, <4>2 DEF Start, Forward, Reason, Assemble, Silently
      <4>6. AbortCall \/ InjectResult \/ StartTool \/ ShowCall => pc' # "end"
        BY <4>1, <4>2 DEF AbortCall, InjectResult, StartTool, ShowCall, Silently
      <4>7. Complete \/ Fail => pc' # "end"
        BY <4>1, <4>2 DEF Complete, Fail, Repair, ForwardTerminal, Silently
      <4>8. CutTerminal \/ DoneMarker \/ EndOfStream => pc' # "end"
        BY <4>1 DEF CutTerminal, DoneMarker, EndOfStream, Close, Silently
      <4> QED
        BY <2>1, <4>4, <4>5, <4>6, <4>7, <4>8 DEF ReadStep
    <3> QED
      BY <3>1, <3>2
  <2>2. CASE HopStep
    <3>1. pc \in {"hop", "executing"} /\ UNCHANGED registered
      BY <2>2 DEF HopStep, Open, OpenFails, HopLimit, ToolReturns, ToolRaises
    <3>2. pc' # "end"
      BY <2>2 DEF HopStep, Open, OpenFails, HopLimit, ToolReturns, ToolRaises,
         Fallback, Write, Throw, Silently
    <3> QED
      BY <3>1, <3>2
  <2>3. CASE RequestStep
    BY <2>3 DEF RequestStep, Register, Return, HandleDisconnect, HandleError,
       Retry, RecoveryEnds, RetryRaises, GiveUp, SendFailure, Finish
  <2>4. CASE DeadlinePasses \/ ClientGoes \/ UNCHANGED vars
    BY <2>4 DEF DeadlinePasses, ClientGoes, vars
  <2> QED
    BY <2>1, <2>2, <2>3, <2>4 DEF Next, Stopped
<1> QED
  BY <1>1, <1>2, Invariance, PTL DEF Spec

-----------------------------------------------------------------------------
(* What the client can tell of a response that was not retried.  Its two   *)
(* properties are not inductive: a tool item is open only until the tool   *)
(* has returned, which sets the trace that makes the end of the stream     *)
(* close the response; and what a hop has seen the client has been sent,   *)
(* unless it has gone.                                                     *)
Honest ==
  /\ raised = "client" => gone
  /\ run.trace => wire.told \/ gone
  /\ Visible(hs) \/ hs.item => wire.told \/ gone
  /\ attempt = 1 =>
       /\ wire.ends > 0 /\ hs.reasoned
            => wire.told \/ gone \/ (pc \in {"returned", "end"} /\ wire.limit /\ Exhausted)
       /\ pc \in {"start", "hop", "reading", "returned"} => ~wire.open
       /\ pc \in {"start", "hop", "reading"} /\ wire.shown => run.trace
       /\ pc = "reading" /\ run.trace =>
            /\ run.terminal => wire.ends > 0
            /\ run.done => run.terminal /\ wire.dones > 0
       /\ pc = "returned" /\ wire.shown => wire.ends > 0 /\ wire.dones > 0
       /\ pc = "end" /\ ~gone /\ wire.shown /\ raised # "reset"
            => wire.ends > 0 /\ wire.dones > 0

(* A write that finds the client gone keeps it, whatever was to be sent.   *)
LEMMA SendHonest ==
  ASSUME NEW w, NEW next, Write(w, next), gone' = gone,
         ~gone /\ pc' = next /\ wire' = w /\ raised' = raised => Honest'
  PROVE  Honest'
<1>1. CASE gone
  <2>1. gone' /\ pc' = "raised"
    BY <1>1 DEF Write, Throw
  <2> QED
    BY <2>1 DEF Honest
<1>2. CASE ~gone
  BY <1>2 DEF Write
<1> QED
  BY <1>1, <1>2

(* The shape of the wire after the two markers.                            *)
LEMMA ClosedSays ==
  ASSUME NEW w \in Wires
  PROVE  /\ Closed(w).ends > 0 /\ Closed(w).dones > 0
         /\ Closed(w).told = w.told /\ Closed(w).open = w.open
         /\ Closed(w).shown = w.shown /\ Closed(w).limit = w.limit
BY DEF Closed, Done, Ended, Wires

(* The response is closed, and the client has been told something.         *)
LEMMA CloseHonest ==
  ASSUME IInv, Honest, pc \in {"hop", "reading"}, gone' = gone, attempt' = attempt,
         NEW w \in Wires, w.open = wire.open, w.told \/ gone,
         Write(Closed(w), "returned")
  PROVE  Honest'
<1>1. ASSUME ~gone, pc' = "returned", wire' = Closed(w), raised' = raised
      PROVE  Honest'
  <2>1. wire'.told /\ wire'.ends > 0 /\ wire'.dones > 0 /\ wire'.open = wire.open
    BY <1>1, ClosedSays
  <2> QED
    BY <1>1, <2>1 DEF Honest
<1> QED
  BY <1>1, SendHonest

LEMMA FallbackHonest ==
  ASSUME IInv, Honest, pc \in {"hop", "reading"}, gone' = gone, attempt' = attempt, Fallback
  PROVE  Honest'
<1> DEFINE t == [wire EXCEPT !.told = TRUE]
<1>1. t \in Wires /\ t.open = wire.open /\ t.told
  BY DEF IInv, TypesOK, Wires
<1>2. Write(Closed(t), "returned")
  BY DEF Fallback
<1> HIDE DEF t
<1> QED
  BY <1>1, <1>2, CloseHonest

LEMMA TimeoutHonest ==
  ASSUME IInv, Honest, pc = "reading", gone' = gone, attempt' = attempt,
         NEW h, FinishOnTimeout(h), Visible(h) => wire.told \/ gone
  PROVE  Honest'
<1>1. wire \in Wires
  BY DEF IInv, TypesOK
<1>2. CASE Visible(h)
  BY <1>1, <1>2, CloseHonest DEF FinishOnTimeout
<1>3. CASE ~Visible(h)
  BY <1>3, FallbackHonest DEF FinishOnTimeout
<1> QED
  BY <1>2, <1>3

(* The relay goes on.                                                      *)
LEMMA GoOnHonest ==
  ASSUME Honest, pc \in {"hop", "reading", "executing"}, UNCHANGED <<attempt, gone>>, ~gone,
         pc' \in {"hop", "reading", "executing"}, raised' = raised,
         wire.told => wire'.told,
         run'.trace => wire'.told,
         Visible(hs') \/ hs'.item => wire'.told,
         attempt = 1 =>
           /\ wire'.ends > 0 /\ hs'.reasoned => wire'.told
           /\ pc' # "executing" => ~wire'.open
           /\ pc' # "executing" /\ wire'.shown => run'.trace
           /\ pc' = "reading" /\ run'.trace =>
                /\ run'.terminal => wire'.ends > 0
                /\ run'.done => run'.terminal /\ wire'.dones > 0
  PROVE  Honest'
BY DEF Honest

(* An exception of the relay's own.                                        *)
LEMMA ThrowHonest ==
  ASSUME Honest, NEW e, Throw(e), e = "client" => gone,
         pc \in {"hop", "reading", "executing"}, UNCHANGED <<attempt, run, hs, gone>>
  PROVE  Honest'
BY DEF Honest, Throw

(* What an event leaves in the flags of its hop.                           *)
LEMMA NotedFlags ==
  ASSUME hs \in HopStates, NEW e \in Events
  PROVE  /\ Visible(Noted(e)) <=> Visible(hs) \/ e \in {"text", "message"}
         /\ Noted(e).item <=> hs.item \/ e = "item"
         /\ Noted(e).reasoned = hs.reasoned
         /\ Noted(e).overdue => (Visible(Noted(e)) <=> Visible(hs))
<1> DEFINE h == Marked(e)
<1>1. /\ h \in HopStates
      /\ Visible(h) <=> Visible(hs) \/ e \in {"text", "message"}
      /\ h.item <=> hs.item \/ e = "item"
      /\ h.reasoned = hs.reasoned
  BY DEF Marked, HopStates, Visible
<1>2. Noted(e) = [h EXCEPT !.overdue = @ /\ hs.event /\ ~h.terminal
                                         /\ Visible(h) = Visible(hs)]
  BY DEF Noted
<1> HIDE DEF h
<1>3. /\ Visible(Noted(e)) <=> Visible(h)
      /\ Noted(e).item = h.item /\ Noted(e).reasoned = h.reasoned
      /\ Noted(e).overdue => (Visible(h) <=> Visible(hs))
  BY <1>1, <1>2 DEF HopStates, Visible
<1> QED
  BY <1>1, <1>3

(* While the upstream may send an item, nothing has ended.                 *)
LEMMA BeforeTheEnd ==
  ASSUME IInv, pc \in Relaying, attempt = 1, ~run.terminal
  PROVE  wire.ends = 0
<1>1. wire.ends \in Nat /\ Bit(run.terminal) = 0
  BY DEF IInv, TypesOK, Wires, Bit
<1>2. wire.ends <= attempt - 1 + Bit(run.terminal)
  BY DEF IInv, Sums, Relaying
<1> QED
  BY <1>1, <1>2

LEMMA LateHonest == ASSUME IInv, Honest, LateEvent PROVE Honest'
<1>1. PICK e \in Events : Read(e) /\ Noted(e).overdue /\ hs' = Noted(e)
  BY DEF LateEvent
<1>2. FinishOnTimeout(hs') /\ hs \in HopStates
  BY DEF LateEvent, IInv, TypesOK
<1>3. Visible(hs') => wire.told \/ gone
  BY <1>1, <1>2, NotedFlags DEF Honest
<1> QED
  BY <1>1, <1>2, <1>3, TimeoutHonest DEF Read

LEMMA ArtifactHonest == ASSUME IInv, Honest, Artifact PROVE Honest'
BY FallbackHonest DEF Artifact, Read

(* An item is read and the relay goes on with the same run.                *)
LEMMA ItemHonest ==
  ASSUME IInv, Honest, NEW e \in Items, Read(e),
         Visible(hs') = Visible(Noted(e)), hs'.item = Noted(e).item,
         NEW w \in Wires, NEW next \in {"reading", "executing"}, Write(w, next),
         w.ends = wire.ends, wire.told \/ e \in {"text", "message", "item"} => w.told,
         next = "reading" => w.open = wire.open /\ w.shown = wire.shown,
         run'.trace = run.trace, run'.terminal = run.terminal, run'.done = run.done
  PROVE  Honest'
<1>1. /\ pc = "reading" /\ ~run.terminal /\ ~run.done /\ hs \in HopStates
      /\ UNCHANGED <<attempt, gone>> /\ e \in Events /\ pc \in Relaying
  BY ItemRead
<1>2. ASSUME ~gone, pc' = next, wire' = w, raised' = raised PROVE Honest'
  <2>1. Visible(hs') \/ hs'.item => wire'.told
    BY <1>1, <1>2, NotedFlags DEF Honest
  <2>2. attempt = 1 => ~(wire'.ends > 0)
    BY <1>1, <1>2, BeforeTheEnd
  <2>3. run'.trace => wire'.told
    BY <1>2 DEF Honest
  <2>4. attempt = 1 /\ pc' # "executing" =>
           /\ ~wire'.open
           /\ wire'.shown => run'.trace
    BY <1>1, <1>2 DEF Honest
  <2> QED
    BY <1>1, <1>2, <2>1, <2>2, <2>3, <2>4, GoOnHonest
<1> QED
  BY <1>1, <1>2, SendHonest

LEMMA StartHonest == ASSUME IInv, Honest, Start PROVE Honest'
<1> DEFINE w == IF run.started THEN wire ELSE [wire EXCEPT !.starts = @ + 1]
<1>1. /\ Read("start") /\ hs' = Noted("start") /\ "start" \in Items
      /\ run' = [run EXCEPT !.started = TRUE] /\ run \in Runs /\ wire \in Wires
  BY DEF Start, Receive, Items, IInv, TypesOK
<1>2. /\ w \in Wires /\ w.ends = wire.ends /\ w.told = wire.told
      /\ w.open = wire.open /\ w.shown = wire.shown
  BY <1>1 DEF Wires
<1>3. /\ run'.trace = run.trace /\ run'.terminal = run.terminal /\ run'.done = run.done
  BY <1>1 DEF Runs
<1>4. CASE run.started
  <2>1. ASSUME ~gone PROVE Write(w, "reading")
    BY <1>4, <2>1, <1>1 DEF Start, Silently, Write
  <2>2. CASE gone
    <3>1. hs \in HopStates /\ "start" \in Events /\ pc = "reading" /\ pc' = "reading"
          /\ UNCHANGED <<attempt, gone, raised, wire>> /\ ~run.terminal /\ ~run.done
          /\ pc \in Relaying
      BY <1>1, <1>4, ItemRead DEF Start, Silently
    <3>2. attempt = 1 => wire.ends = 0
      BY <3>1, BeforeTheEnd
    <3> QED
      BY <1>3, <2>2, <3>1, <3>2 DEF Honest
  <2> QED
    BY <1>1, <1>2, <1>3, <2>1, <2>2, ItemHonest
<1>5. CASE ~run.started
  <2>1. Write(w, "reading")
    BY <1>5 DEF Start
  <2> HIDE DEF w
  <2> QED
    BY <1>1, <1>2, <1>3, <2>1, ItemHonest
<1> QED
  BY <1>4, <1>5

LEMMA ForwardHonest == ASSUME IInv, Honest, Forward PROVE Honest'
<1>1. PICK e \in {"text", "message", "item", "other"} :
        /\ Receive(e)
        /\ Write([wire EXCEPT !.told = @ \/ e # "other"], "reading")
  BY DEF Forward
<1> DEFINE w == [wire EXCEPT !.told = @ \/ e # "other"]
<1>2. wire \in Wires /\ run' = run /\ e \in Items /\ Read(e) /\ hs' = Noted(e)
  BY <1>1 DEF Forward, IInv, TypesOK, Items, Receive
<1>3. /\ w \in Wires /\ w.ends = wire.ends /\ w.open = wire.open /\ w.shown = wire.shown
      /\ wire.told \/ e \in {"text", "message", "item"} => w.told
  BY <1>2 DEF Wires
<1>4. Write(w, "reading")
  BY <1>1
<1> HIDE DEF w
<1> QED
  BY <1>2, <1>3, <1>4, ItemHonest

LEMMA ReasonHonest == ASSUME IInv, Honest, Reason PROVE Honest'
<1>1. /\ Read("reasoning") /\ "reasoning" \in Items /\ run' = run /\ wire \in Wires
      /\ hs' = [Noted("reasoning") EXCEPT !.reasoned = TRUE]
      /\ Write(wire, "reading") \/ Fallback
  BY DEF Reason, Items, IInv, TypesOK
<1>2. hs \in HopStates /\ pc = "reading" /\ "reasoning" \in Events
      /\ UNCHANGED <<attempt, gone>>
  BY <1>1, ItemRead
<1>3. Visible(hs') = Visible(Noted("reasoning")) /\ hs'.item = Noted("reasoning").item
  BY <1>1, <1>2, NotedType DEF HopStates, Visible
<1> QED
  BY <1>1, <1>2, <1>3, ItemHonest, FallbackHonest

(* An item is read and nothing is written.                                 *)
LEMMA WithheldHonest ==
  ASSUME IInv, Honest, NEW e \in Items \ {"text", "message", "item"}, Read(e),
         Visible(hs') = Visible(Noted(e)), hs'.item = Noted(e).item,
         NEW next \in {"reading", "hop"}, Silently(next),
         run'.trace = run.trace, run'.terminal = run.terminal, run'.done = run.done
  PROVE  Honest'
<1>1. /\ pc = "reading" /\ ~run.terminal /\ ~run.done /\ hs \in HopStates
      /\ UNCHANGED <<attempt, gone, raised, wire>> /\ pc' = next /\ e \in Events
      /\ pc \in Relaying
  BY ItemRead DEF Silently
<1>2. Visible(hs') \/ hs'.item => wire.told \/ gone
  BY <1>1, NotedFlags DEF Honest
<1>3. attempt = 1 => wire.ends = 0
  BY <1>1, BeforeTheEnd
<1> QED
  BY <1>1, <1>2, <1>3 DEF Honest

LEMMA AssembleHonest == ASSUME IInv, Honest, Assemble PROVE Honest'
<1>1. /\ Read("call") /\ "call" \in Items \ {"text", "message", "item"} /\ run' = run
      /\ hs' = [Noted("call") EXCEPT !.call = TRUE]
      /\ Silently("reading") \/ Fallback
  BY DEF Assemble, Items
<1>2. hs \in HopStates /\ pc = "reading" /\ "call" \in Events
      /\ UNCHANGED <<attempt, gone>>
  BY <1>1, ItemRead
<1>3. Visible(hs') = Visible(Noted("call")) /\ hs'.item = Noted("call").item
  BY <1>1, <1>2, NotedType DEF HopStates, Visible
<1> QED
  BY <1>1, <1>2, <1>3, WithheldHonest, FallbackHonest

LEMMA CallHonest ==
  ASSUME IInv, Honest, AbortCall \/ InjectResult \/ StartTool \/ ShowCall
  PROVE  Honest'
<1>1. /\ Read("call_done") /\ "call_done" \in Items \ {"text", "message", "item"}
      /\ hs' = Noted("call_done") /\ wire \in Wires /\ run \in Runs
  BY DEF AbortCall, InjectResult, StartTool, ShowCall, Receive, Items, IInv, TypesOK
<1>2. pc = "reading" /\ UNCHANGED <<attempt, gone>>
  BY <1>1, ItemRead
<1>3. CASE AbortCall
  BY <1>2, <1>3, FallbackHonest DEF AbortCall
<1>4. CASE InjectResult
  <2>1. Silently("hop") /\ run' = [run EXCEPT !.hop = @ + 1]
    BY <1>4 DEF InjectResult, NextHop
  <2>2. run'.trace = run.trace /\ run'.terminal = run.terminal /\ run'.done = run.done
    BY <1>1, <2>1 DEF Runs
  <2> QED
    BY <1>1, <2>1, <2>2, WithheldHonest
<1>5. CASE StartTool
  <2> DEFINE w == [wire EXCEPT !.shown = TRUE, !.open = TRUE]
  <2>1. Write(w, "executing") /\ run' = run
    BY <1>5 DEF StartTool
  <2>2. w \in Wires /\ w.ends = wire.ends /\ w.told = wire.told
    BY <1>1 DEF Wires
  <2> HIDE DEF w
  <2> QED
    BY <1>1, <2>1, <2>2, ItemHonest
<1>6. CASE ShowCall
  <2> DEFINE w == [wire EXCEPT !.shown = TRUE, !.told = TRUE, !.call = TRUE]
  <2>1. Write(Closed(w), "returned")
    BY <1>6 DEF ShowCall
  <2>2. w \in Wires /\ w.open = wire.open /\ w.told
    BY <1>1 DEF Wires
  <2> HIDE DEF w
  <2> QED
    BY <1>2, <2>1, <2>2, CloseHonest
<1> QED
  BY <1>3, <1>4, <1>5, <1>6

(* A terminal event is read and something is written.                      *)
LEMMA TerminalHonest ==
  ASSUME IInv, Honest, NEW e \in Terminals, Receive(e),
         NEW w \in Wires, Write(w, "reading"),
         wire.told => w.told, w.open = wire.open, w.shown = wire.shown,
         attempt = 1 /\ w.ends > 0 /\ hs.reasoned => w.told \/ gone,
         run'.trace = run.trace,
         attempt = 1 /\ run.trace =>
           /\ run'.terminal => w.ends > 0
           /\ run'.done => run'.terminal /\ w.dones > 0
  PROVE  Honest'
<1>1. /\ pc = "reading" /\ UNCHANGED <<attempt, gone>> /\ hs' = Noted(e)
      /\ hs \in HopStates /\ e \in Events /\ e \notin {"text", "message", "item"}
  BY TerminalRead DEF Receive, Terminals, Events, IInv, TypesOK, Read
<1>2. ASSUME ~gone, pc' = "reading", wire' = w, raised' = raised PROVE Honest'
  <2>1. Visible(hs') \/ hs'.item => wire'.told
    BY <1>1, <1>2, NotedFlags DEF Honest
  <2>2. hs'.reasoned = hs.reasoned
    BY <1>1, NotedFlags
  <2>3. run'.trace => wire'.told
    BY <1>2 DEF Honest
  <2>4. attempt = 1 => ~wire'.open /\ (wire'.shown => run'.trace)
    BY <1>1, <1>2 DEF Honest
  <2> QED
    BY <1>1, <1>2, <2>1, <2>2, <2>3, <2>4, GoOnHonest
<1> QED
  BY <1>1, <1>2, SendHonest

LEMMA CompleteHonest == ASSUME IInv, Honest, Complete PROVE Honest'
<1>1. /\ Receive("completed") /\ "completed" \in Terminals
      /\ run \in Runs /\ wire \in Wires /\ hs \in HopStates
  BY DEF Complete, Terminals, IInv, TypesOK
<1>2. PICK answered \in {hs.text \/ hs.item, Visible(hs) \/ hs.item} :
       \/ Unanswered(hs, answered) /\ Repair
       \/ Fallback
       \/ ~Unanswered(hs, answered) /\ ForwardTerminal
  BY DEF Complete
<1>3. pc = "reading" /\ UNCHANGED <<attempt, gone>> /\ ~run.terminal /\ ~run.done
  BY <1>1, TerminalRead DEF Receive, Read
<1>4. CASE Repair
  <2>1. Silently("hop") /\ hs' = Noted("completed") /\ "completed" \in Events
    BY <1>1, <1>4 DEF Repair, Receive, Events
  <2>2. /\ run'.trace = run.trace /\ run'.terminal = run.terminal /\ run'.done = run.done
    BY <1>1, <1>4 DEF Repair, Runs
  <2>3. Visible(hs') \/ hs'.item => wire.told \/ gone
    BY <1>1, <2>1, NotedFlags DEF Honest
  <2>4. attempt = 1 => wire.ends = 0
    BY <1>3, BeforeTheEnd DEF Relaying
  <2> QED
    BY <1>3, <2>1, <2>2, <2>3, <2>4 DEF Honest, Silently
<1>5. CASE Fallback
  BY <1>3, <1>5, FallbackHonest
<1>6. CASE ~Unanswered(hs, answered) /\ ForwardTerminal
  <2>1. Write(Ended(wire), "reading") /\ run' = [run EXCEPT !.terminal = TRUE]
    BY <1>6 DEF ForwardTerminal
  <2>2. /\ Ended(wire) \in Wires /\ Ended(wire).ends > 0 /\ Ended(wire).told = wire.told
        /\ Ended(wire).open = wire.open /\ Ended(wire).shown = wire.shown
    BY <1>1 DEF Ended, Wires
  <2>3. /\ run'.trace = run.trace /\ run'.terminal /\ run'.done = run.done
    BY <1>1, <2>1 DEF Runs
  <2>4. hs.reasoned => wire.told \/ gone
    <3>1. hs.reasoned => hs.text \/ Visible(hs) \/ hs.item
      BY <1>2, <1>6 DEF Unanswered
    <3> QED
      BY <3>1 DEF Honest, Visible
  <2> QED
    BY <1>1, <1>3, <2>1, <2>2, <2>3, <2>4, TerminalHonest
<1> QED
  BY <1>2, <1>4, <1>5, <1>6

LEMMA FailHonest == ASSUME IInv, Honest, Fail PROVE Honest'
<1> DEFINE t == [wire EXCEPT !.told = TRUE]
           w == Ended(t)
<1>1. /\ Receive("failed") /\ "failed" \in Terminals /\ Write(w, "reading")
      /\ run' = [run EXCEPT !.terminal = TRUE]
      /\ run \in Runs /\ wire \in Wires
  BY DEF Fail, Terminals, IInv, TypesOK
<1>2. /\ w \in Wires /\ w.ends > 0 /\ w.told /\ w.open = wire.open /\ w.shown = wire.shown
  <2>1. t \in Wires /\ t.told /\ t.open = wire.open /\ t.shown = wire.shown
    BY <1>1 DEF Wires
  <2> HIDE DEF t
  <2> QED
    BY <2>1 DEF Ended, Wires
<1>3. run'.trace = run.trace /\ run'.done = run.done /\ ~run.done
  BY <1>1, TerminalRead DEF Runs
<1> HIDE DEF w
<1> QED
  BY <1>1, <1>2, <1>3, TerminalHonest

(* The items of the trace are completed: the client has been shown them.   *)
LEMMA CompletedHonest ==
  ASSUME IInv, Honest, NEW e \in Terminals, Receive(e), run.trace, Close("reading")
  PROVE  Honest'
<1>1. /\ Write(Closed(wire), "reading") /\ run \in Runs /\ wire \in Wires
      /\ run' = [run EXCEPT !.terminal = TRUE, !.done = TRUE]
  BY DEF Close, IInv, TypesOK
<1>2. /\ run'.trace = run.trace /\ run'.terminal /\ run'.done
  BY <1>1 DEF Runs
<1>3. wire.told \/ gone
  BY DEF Honest
<1> QED
  BY <1>1, <1>2, <1>3, ClosedWire, ClosedSays, TerminalHonest

LEMMA CutHonest == ASSUME IInv, Honest, CutTerminal PROVE Honest'
<1>1. /\ Receive("cut") /\ "cut" \in Terminals /\ ~run.terminal /\ ~run.done
      /\ run \in Runs /\ wire \in Wires /\ pc = "reading"
  BY TerminalRead DEF CutTerminal, Terminals
<1>2. CASE run.trace
  BY <1>1, <1>2, CompletedHonest DEF CutTerminal
<1>3. CASE ~run.trace
  <2>1. Write(wire, "reading") /\ run' = [run EXCEPT !.terminal = TRUE]
    BY <1>3 DEF CutTerminal
  <2>2. run'.trace = run.trace
    BY <1>1, <2>1 DEF Runs
  <2>3. attempt = 1 => wire.ends = 0
    BY <1>1, BeforeTheEnd DEF Relaying
  <2> QED
    BY <1>1, <1>3, <2>1, <2>2, <2>3, TerminalHonest
<1> QED
  BY <1>2, <1>3

LEMMA DoneHonest == ASSUME IInv, Honest, DoneMarker PROVE Honest'
<1>1. /\ Receive("done") /\ "done" \in Terminals /\ ~run.done
      /\ run \in Runs /\ wire \in Wires /\ pc = "reading"
  BY TerminalRead DEF DoneMarker, Terminals
<1>2. CASE run.trace /\ ~run.terminal
  BY <1>1, <1>2, CompletedHonest DEF DoneMarker
<1>3. CASE ~(run.trace /\ ~run.terminal)
  <2>1. Write(Done(wire), "reading") /\ run' = [run EXCEPT !.done = TRUE]
    BY <1>3 DEF DoneMarker
  <2>2. /\ Done(wire) \in Wires /\ Done(wire).ends = wire.ends /\ Done(wire).dones > 0
        /\ Done(wire).told = wire.told
        /\ Done(wire).open = wire.open /\ Done(wire).shown = wire.shown
    BY <1>1 DEF Done, Wires
  <2>3. run'.trace = run.trace /\ run'.terminal = run.terminal
    BY <1>1, <2>1 DEF Runs
  <2>4. attempt = 1 /\ wire.ends > 0 /\ hs.reasoned => wire.told \/ gone
    BY <1>1 DEF Honest
  <2>5. attempt = 1 /\ run.trace => run.terminal /\ wire.ends > 0
    BY <1>1, <1>3 DEF Honest
  <2> QED
    BY <1>1, <2>1, <2>2, <2>3, <2>4, <2>5, TerminalHonest
<1> QED
  BY <1>2, <1>3

LEMMA EndOfStreamHonest == ASSUME IInv, Honest, EndOfStream PROVE Honest'
<1>1. /\ pc = "reading" /\ UNCHANGED <<attempt, hs, gone>> /\ run \in Runs /\ wire \in Wires
  BY DEF EndOfStream, IInv, TypesOK
<1>2. CASE run.terminal /\ ~run.done
  <2> DEFINE w == Done(wire)
  <2>1. Write(w, "returned") /\ run' = [run EXCEPT !.done = TRUE]
    BY <1>2 DEF EndOfStream
  <2>2. /\ w.ends = wire.ends /\ w.dones > 0 /\ w.told = wire.told
        /\ w.open = wire.open /\ w.shown = wire.shown
    BY <1>1 DEF Done, Wires
  <2>3. run'.trace = run.trace
    BY <1>1, <2>1 DEF Runs
  <2> HIDE DEF w
  <2>4. ASSUME ~gone, pc' = "returned", wire' = w, raised' = raised PROVE Honest'
    BY <1>1, <1>2, <2>2, <2>3, <2>4 DEF Honest
  <2> QED
    BY <1>1, <2>1, <2>4, SendHonest
<1>3. CASE run.trace /\ ~run.terminal /\ ~run.done
  <2>1. Write(Closed(wire), "returned") /\ (wire.told \/ gone)
    BY <1>3 DEF EndOfStream, Close, Honest
  <2> QED
    BY <1>1, <2>1, CloseHonest
<1>4. CASE /\ ~(run.terminal /\ ~run.done) /\ ~(run.trace /\ ~run.terminal /\ ~run.done)
  <2>1. pc' = "returned" /\ UNCHANGED <<run, raised, wire>>
    BY <1>4 DEF EndOfStream, Silently
  <2> QED
    BY <1>1, <1>4, <2>1 DEF Honest
<1> QED
  BY <1>2, <1>3, <1>4

LEMMA StallHonest == ASSUME IInv, Honest, ReadStalls \/ ReadFails PROVE Honest'
<1>1. pc = "reading" /\ UNCHANGED <<attempt, run, hs, gone>>
  BY DEF ReadStalls, ReadFails
<1>2. CASE FinishOnTimeout(hs)
  BY <1>1, <1>2, TimeoutHonest DEF Honest
<1>3. ASSUME NEW e \in {"reset", "other"}, Throw(e) PROVE Honest'
  BY <1>1, <1>3, ThrowHonest
<1> QED
  BY <1>2, <1>3 DEF ReadStalls, ReadFails

LEMMA HopHonest == ASSUME IInv, Honest, HopStep PROVE Honest'
<1>1. run \in Runs /\ wire \in Wires
  BY DEF IInv, TypesOK
<1>2. CASE Open
  <2>1. /\ pc = "hop" /\ pc' = "reading" /\ UNCHANGED <<attempt, gone, raised, wire>>
        /\ run' = [run EXCEPT !.repairing = run.pending, !.pending = FALSE]
        /\ hs' = FreshHop /\ ~run.terminal /\ ~run.done
    BY <1>2 DEF Open, Silently, IInv, Grammar
  <2>2. /\ run'.trace = run.trace /\ run'.terminal = run.terminal /\ run'.done = run.done
    BY <1>1, <2>1 DEF Runs
  <2>3. ~Visible(hs') /\ ~hs'.item /\ ~hs'.reasoned
    BY <2>1 DEF FreshHop, Visible
  <2> QED
    BY <2>1, <2>2, <2>3 DEF Honest
<1>3. CASE OpenFails
  BY <1>3, ThrowHonest DEF OpenFails
<1>4. CASE HopLimit
  <2> DEFINE w == [wire EXCEPT !.limit = TRUE]
  <2>1. /\ pc = "hop" /\ Exhausted /\ UNCHANGED <<attempt, run, hs, gone>>
        /\ Write(Closed(w), "returned")
    BY <1>4 DEF HopLimit
  <2>2. w \in Wires /\ w.limit /\ w.told = wire.told /\ w.open = wire.open
    BY <1>1 DEF Wires
  <2> HIDE DEF w
  <2>3. ASSUME ~gone, pc' = "returned", wire' = Closed(w), raised' = raised PROVE Honest'
    <3>1. /\ wire'.limit /\ wire'.told = wire.told /\ wire'.open = wire.open
          /\ wire'.ends > 0 /\ wire'.dones > 0
      BY <2>2, <2>3, ClosedSays
    <3>2. Exhausted'
      BY <2>1 DEF Exhausted
    <3> QED
      BY <2>1, <2>3, <3>1, <3>2 DEF Honest, Visible
  <2> QED
    BY <2>1, <2>3, SendHonest
<1>5. CASE ToolReturns
  <2> DEFINE w == [wire EXCEPT !.open = FALSE, !.told = TRUE]
  <2>1. /\ pc = "executing" /\ UNCHANGED <<attempt, hs, gone>> /\ Write(w, "hop")
        /\ run' = [run EXCEPT !.trace = TRUE, !.hop = @ + 1]
    BY <1>5 DEF ToolReturns
  <2>2. ~w.open /\ w.told /\ run'.trace
    BY <1>1, <2>1 DEF Wires, Runs
  <2> HIDE DEF w
  <2>3. ASSUME ~gone, pc' = "hop", wire' = w, raised' = raised PROVE Honest'
    BY <2>1, <2>2, <2>3, GoOnHonest
  <2> QED
    BY <2>1, <2>3, SendHonest
<1>6. CASE ToolRaises
  BY <1>6, ThrowHonest DEF ToolRaises
<1> QED
  BY <1>2, <1>3, <1>4, <1>5, <1>6 DEF HopStep

(* A failure is sent to a client that stays, and its text is an answer.    *)
LEMMA SendFailureHonest ==
  ASSUME IInv, Honest, pc \in {"raised", "failing"}, SendFailure,
         UNCHANGED <<attempt, run, hs, raised, gone>>
  PROVE  Honest'
<1> DEFINE t == [wire EXCEPT !.told = TRUE]
<1>1. CASE gone
  BY <1>1 DEF SendFailure, Honest
<1>2. CASE ~gone
  <2>1. pc' = "end" /\ wire' = Closed(t)
    BY <1>2 DEF SendFailure, Finish
  <2>2. t \in Wires /\ t.told
    BY DEF IInv, TypesOK, Wires
  <2> HIDE DEF t
  <2>3. wire'.told /\ wire'.ends > 0 /\ wire'.dones > 0
    BY <2>1, <2>2, ClosedSays
  <2> QED
    BY <1>2, <2>1, <2>3 DEF Honest
<1> QED
  BY <1>1, <1>2

LEMMA RequestHonest == ASSUME IInv, Honest, RequestStep PROVE Honest'
<1>1. CASE Register
  BY <1>1 DEF Register, Honest
<1>2. CASE Return
  BY <1>2 DEF Return, Finish, Honest, Exhausted
<1>3. CASE HandleDisconnect
  <2>1. CASE SendFailure
    BY <1>3, <2>1, SendFailureHonest DEF HandleDisconnect
  <2>2. CASE Finish /\ UNCHANGED wire
    BY <1>3, <2>2 DEF HandleDisconnect, Finish, Honest
  <2> QED
    BY <1>3, <2>1, <2>2 DEF HandleDisconnect
<1>4. CASE HandleError
  BY <1>4 DEF HandleError, Honest
<1>5. CASE Retry
  <2>1. /\ attempt' = 2 /\ run' = FreshRun /\ hs' = FreshHop /\ raised' = "none"
    BY <1>5 DEF Retry
  <2>2. ~run'.trace /\ ~Visible(hs') /\ ~hs'.item
    BY <2>1 DEF FreshRun, FreshHop, Visible
  <2> QED
    BY <2>1, <2>2 DEF Honest
<1>6. CASE RecoveryEnds
  BY <1>6 DEF RecoveryEnds, Honest
<1>7. CASE RetryRaises
  BY <1>7 DEF RetryRaises, Honest
<1>8. CASE GiveUp
  BY <1>8, SendFailureHonest DEF GiveUp
<1> QED
  BY <1>1, <1>2, <1>3, <1>4, <1>5, <1>6, <1>7, <1>8 DEF RequestStep

LEMMA HonestStep == IInv /\ Honest /\ [Next]_vars => Honest'
<1> SUFFICES ASSUME IInv, Honest, [Next]_vars PROVE Honest'
  OBVIOUS
<1>1. CASE ReadStep
  BY <1>1, LateHonest, ArtifactHonest, StartHonest, ForwardHonest, ReasonHonest,
     AssembleHonest, CallHonest, CompleteHonest, FailHonest, CutHonest, DoneHonest,
     EndOfStreamHonest, StallHonest DEF ReadStep
<1>2. CASE DeadlinePasses
  <2>1. /\ UNCHANGED <<pc, attempt, run, raised, gone, wire>>
        /\ hs' = [hs EXCEPT !.overdue = TRUE] /\ hs \in HopStates
    BY <1>2 DEF DeadlinePasses, IInv, TypesOK
  <2>2. Visible(hs') = Visible(hs) /\ hs'.item = hs.item /\ hs'.reasoned = hs.reasoned
    BY <2>1 DEF HopStates, Visible
  <2> QED
    BY <2>1, <2>2 DEF Honest, Exhausted
<1>3. CASE ClientGoes
  BY <1>3 DEF ClientGoes, Honest, Exhausted
<1>4. CASE UNCHANGED vars
  BY <1>4 DEF vars, Honest, Visible, Exhausted
<1> QED
  BY <1>1, <1>2, <1>3, <1>4, HopHonest, RequestHonest DEF Next, Stopped

LEMMA HonestInv == Spec => []Honest
<1>1. Init => Honest
  BY DEF Init, Honest, FreshRun, FreshHop, Visible
<1> QED
  BY <1>1, HonestStep, Invariance, PTL DEF Spec

(* Whatever the upstream does, a response that was not retried ends the    *)
(* tool items it showed, unless the upstream reset the connection, and     *)
(* does not complete over an open one.                                     *)
THEOREM ToolItemsEnd == Spec => []ItemsClosed
<1>1. Honest => ItemsClosed
  BY DEF Honest, ItemsClosed
<1> QED
  BY <1>1, HonestInv, PTL

(* Reasoning alone is never the whole of a response that was not retried:  *)
(* the repair hops and the fallback message see to it.                     *)
THEOREM ReasoningIsAnswered == Spec => []ReasoningAnswered
<1>1. Honest => ReasoningAnswered
  BY DEF Honest, ReasoningAnswered
<1> QED
  BY <1>1, HonestInv, PTL

=============================================================================
