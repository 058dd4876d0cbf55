------------------------- MODULE RequestGate_proofs -------------------------
(***************************************************************************)
(* The gate, the answers and the escalation, for every set of clients and  *)
(* threads, every history and every bound.                                 *)
(*                                                                         *)
(* First part: only the holder of the gate is served, it is registered     *)
(* while it is, what is registered besides is of a client that has gone or *)
(* of a retry, and the gate is never held by a thread that has ended.  The *)
(* histories play no part in it, nor does what the model says; what the    *)
(* invariant needs beside the property is the converse of                  *)
(* GateHeldByTheLiving, that a thread in one of those places holds the     *)
(* gate: without it two threads could reach "serve" together.  That        *)
(* everybody who stays is answered has an invariant of its own, about each *)
(* thread alone.                                                           *)
(*                                                                         *)
(* Second part: what the operators of SandboxEscalation make of a history; *)
(* from that, that the model reads the result of an escalation and that    *)
(* the result ends the round.  The invariant, Round, is about one client   *)
(* and its threads; what other clients do is no part of it because their   *)
(* commands are not its own.                                               *)
(***************************************************************************)
EXTENDS RequestGate, FiniteSetTheorems, FunctionTheorems, SequenceTheorems, TLAPS

(* The form of a request: a client that wants a stream has the head of one *)
(* while it waits for the start of the proxy or the model and while it is  *)
(* served; one that does not is sent nothing before its answer; a stream   *)
(* is whole as long as it is not served; and what has ended has an answer. *)
Shaped(l) == {"at", "kind", "head", "got", "gone", "turn", "run"} \subseteq DOMAIN l

Heads(l) ==
  /\ l.kind = "stream" /\ l.at # "ended" => l.head \in {"none", "sse"}
  /\ l.kind = "stream" /\ l.at \in {"startup", "held", "serve"} => l.head = "sse"
  /\ l.kind # "stream" /\ l.at # "ended" => l.head = "none" /\ l.at # "held"

InForm(l) ==
  /\ Shaped(l)
  /\ l.at \notin {"serve", "ended"} => l.run = "first"
  /\ l.at = "through" => l.kind = "other"
  /\ Heads(l)
  /\ l.at = "ended" => Whole(l) \/ (l.got = "cut" /\ l.kind = "stream" /\ l.run # "first")

AllInForm == DOMAIN th = Threads /\ \A t \in Threads : InForm(th[t])

(* The answers that are whole after a head; a cut one takes a broken run.  *)
Fitting(kind, head, answer, broken) ==
  \/ kind = "stream" /\ head = "sse" /\ answer \in {"served", "failed", "escalation"}
  \/ kind = "stream" /\ head \in {"json", "mixed"} /\ answer \in {"refusal", "compacted"}
  \/ /\ kind # "stream" /\ head = "json"
     /\ answer \in {"refusal", "compacted", "served", "said"}
  \/ answer = "cut" /\ kind = "stream" /\ broken

LEMMA IdleInForm == InForm(Idle) /\ Idle.at = "free"
  BY DEF InForm, Shaped, Heads, Idle

(* To end without an answer takes a client that has gone.                  *)
LEMMA EndedInForm ==
  ASSUME NEW l, Shaped(l), NEW answer,
         l.gone \/ Fitting(l.kind, l.head, answer, l.run # "first")
  PROVE  InForm(Ended(l, answer)) /\ Ended(l, answer).at \in {"free", "ended"}
<1>1. CASE l.gone
  BY <1>1, IdleInForm DEF Ended
<1>2. CASE ~ l.gone
  <2> DEFINE e == [l EXCEPT !.at = "ended", !.got = answer, !.items = <<>>, !.hop = 0]
  <2>1. /\ Shaped(e) /\ e.at = "ended" /\ e.got = answer
        /\ e.kind = l.kind /\ e.head = l.head /\ e.run = l.run
    BY DEF Shaped
  <2>2. Ended(l, answer) = e
    BY <1>2 DEF Ended
  <2> HIDE DEF e
  <2>3. InForm(e)
    BY <1>2, <2>1 DEF InForm, Heads, Fitting, Whole
  <2> QED
    BY <2>1, <2>2, <2>3
<1> QED
  BY <1>1, <1>2

(* JSON goes to a stream only as a refusal or a compaction.                *)
LEMMA WithJsonInForm ==
  ASSUME NEW l, InForm(l), l.at # "ended", NEW answer,
         \/ answer \in {"refusal", "compacted"}
         \/ answer \in {"served", "said"} /\ l.kind # "stream"
  PROVE  InForm(WithJson(l, answer)) /\ WithJson(l, answer).at \in {"free", "ended"}
<1> DEFINE after == IF l.head = "sse" THEN "mixed" ELSE "json"
           h == [l EXCEPT !.head = after]
<1>1. Shaped(l) /\ Heads(l)
  BY DEF InForm
<1>2. Shaped(h) /\ h.kind = l.kind /\ h.head = after
  BY <1>1 DEF Shaped
<1>3. Fitting(l.kind, after, answer, FALSE)
  BY <1>1 DEF Heads, Fitting
<1>4. Fitting(h.kind, h.head, answer, h.run # "first")
  BY <1>2, <1>3 DEF Fitting
<1>5. WithJson(l, answer) = Ended(h, answer)
  BY DEF WithJson
<1> HIDE DEF h
<1> QED
  BY <1>2, <1>4, <1>5, EndedInForm

(* One thread moves, the others stay.                                      *)
OneMoves(t) ==
  /\ DOMAIN th' = Threads
  /\ \A u \in Threads \ {t} : th'[u] = th[u]

LEMMA Replaced ==
  ASSUME DOMAIN th = Threads, NEW t \in Threads, NEW l, th' = [th EXCEPT ![t] = l]
  PROVE  OneMoves(t) /\ th'[t] = l
  BY DEF OneMoves

LEMMA OneInForm ==
  ASSUME AllInForm, NEW t \in Threads, NEW l, InForm(l), th' = [th EXCEPT ![t] = l]
  PROVE  AllInForm'
<1>1. DOMAIN th' = Threads /\ th'[t] = l
  BY DEF AllInForm
<1>2. \A u \in Threads \ {t} : th'[u] = th[u]
  BY DEF AllInForm
<1>3. \A u \in Threads : InForm(th'[u])
  BY <1>1, <1>2 DEF AllInForm
<1> QED
  BY <1>1, <1>3 DEF AllInForm, InForm, Shaped, Heads, Whole

(* A thread goes on to a place where nothing has been sent to it yet.      *)
LEMMA ToInForm ==
  ASSUME AllInForm, NEW t \in Threads,
         th[t].at \notin {"serve", "ended"},
         NEW place \in {"queued", "assess", "through", "prepare"},
         place = "through" => th[t].kind = "other", To(t, place)
  PROVE  AllInForm'
<1> DEFINE l == [th[t] EXCEPT !.at = place]
<1>1. InForm(th[t])
  BY DEF AllInForm
<1>2. /\ Shaped(l) /\ l.at = place /\ l.kind = th[t].kind /\ l.head = th[t].head
      /\ l.run = th[t].run
  BY <1>1 DEF InForm, Shaped
<1>3. th' = [th EXCEPT ![t] = l]
  BY DEF To
<1> HIDE DEF l
<1>4. InForm(l)
  BY <1>1, <1>2 DEF InForm, Heads
<1> QED
  BY <1>3, <1>4, OneInForm

LEMMA JsonInForm ==
  ASSUME AllInForm, NEW t \in Threads, th[t].at # "ended", NEW answer,
         EndsJson(t, answer),
         \/ answer \in {"refusal", "compacted"}
         \/ answer \in {"served", "said"} /\ th[t].kind # "stream"
  PROVE  AllInForm'
<1>1. InForm(th[t])
  BY DEF AllInForm
<1>2. th' = [th EXCEPT ![t] = WithJson(th[t], answer)]
  BY DEF EndsJson
<1> QED
  BY <1>1, <1>2, WithJsonInForm, OneInForm

(* An ending that is not JSON fits the head that has been sent.            *)
LEMMA EndsInForm ==
  ASSUME AllInForm, NEW t \in Threads, NEW answer,
         th' = [th EXCEPT ![t] = Ended(@, answer)],
         \/ th[t].gone
         \/ Fitting(th[t].kind, th[t].head, answer, th[t].run # "first")
  PROVE  AllInForm'
<1>1. Shaped(th[t])
  BY DEF AllInForm, InForm
<1>2. th' = [th EXCEPT ![t] = Ended(th[t], answer)]
  OBVIOUS
<1>3. InForm(Ended(th[t], answer)) /\ Ended(th[t], answer).at \in {"free", "ended"}
  BY <1>1, EndedInForm
<1> QED
  BY <1>2, <1>3, OneInForm

LEMMA RaisesInForm ==
  ASSUME AllInForm, NEW t \in Threads, Raises(t)
  PROVE  AllInForm'
  BY EndsInForm DEF Raises

(* response.failed is written to a stream whose head has been sent.        *)
LEMMA FailsInForm ==
  ASSUME AllInForm, NEW t \in Threads, th[t].kind = "stream",
         th[t].at \in {"startup", "held", "serve"}, EndsFailed(t)
  PROVE  AllInForm'
<1>1. th[t].head = "sse"
  BY DEF AllInForm, InForm, Heads
<1> QED
  BY <1>1, EndsInForm DEF EndsFailed, Fitting

LEMMA WaitsInForm ==
  ASSUME AllInForm, NEW t \in Threads, th[t].at = "assess", Waits(t)
  PROVE  AllInForm'
<1> DEFINE p == IF StreamOf(t) THEN "held" ELSE "waiting"
           a == [th[t] EXCEPT !.at = p]
           h == IF StreamOf(t) THEN "sse" ELSE a.head
           l == [a EXCEPT !.head = h]
<1>1. InForm(th[t])
  BY DEF AllInForm
<1>2. /\ Shaped(l) /\ l.at = p /\ l.head = h /\ l.kind = th[t].kind /\ l.run = th[t].run
      /\ a.head = th[t].head
  BY <1>1 DEF InForm, Shaped
<1>3. th' = [th EXCEPT ![t] = l]
  BY DEF Waits, AllInForm
<1> HIDE DEF l, a
<1>4. InForm(l)
  BY <1>1, <1>2 DEF InForm, Heads, StreamOf
<1> QED
  BY <1>3, <1>4, OneInForm

-----------------------------------------------------------------------------
LEMMA AwaitInForm ==
  ASSUME AllInForm, NEW t \in Threads,
         AwaitStartup(t) \/ Admit(t) \/ Through(t) \/ Assess(t) \/ AwaitModel(t)
  PROVE  AllInForm'
<1>1. InForm(th[t])
  BY DEF AllInForm
<1>2. CASE AwaitStartup(t)
  BY <1>2, ToInForm, JsonInForm, FailsInForm, RaisesInForm DEF AwaitStartup, StreamOf
<1>3. CASE Admit(t)
  BY <1>3, ToInForm, JsonInForm DEF Admit
<1>4. CASE Through(t)
  <2>1. th[t].at = "through" /\ th[t].kind # "stream"
    BY <1>1, <1>4 DEF Through, Unreachable, Forwarded, InForm
  <2> QED
    BY <1>4, <2>1, JsonInForm DEF Through, Unreachable, Forwarded
<1>5. CASE Assess(t)
  BY <1>5, ToInForm, JsonInForm, WaitsInForm, RaisesInForm DEF Assess
<1>6. CASE AwaitModel(t)
  <2>1. th[t].at = "held" => th[t].kind = "stream"
    BY <1>1 DEF InForm, Heads
  <2> QED
    BY <1>6, <2>1, ToInForm, JsonInForm, FailsInForm, RaisesInForm DEF AwaitModel
<1> QED
  BY <1>2, <1>3, <1>4, <1>5, <1>6

LEMMA PrepareInForm ==
  ASSUME AllInForm, NEW t \in Threads, Prepare(t)
  PROVE  AllInForm'
<1> DEFINE items == Microcompact(WithAdvisories(th[t].items))
           back == Awaited(items, pending)
           denied == Denied(items)
           onward(i) == [th[t] EXCEPT !.at = "budget", !.items = i, !.fixed = back]
           noted == [th[t] EXCEPT !.head = "sse", !.fixed = denied]
<1>1. InForm(th[t]) /\ th[t].at = "prepare"
  BY DEF AllInForm, Prepare
<1>2. \/ th' = [th EXCEPT ![t] = onward(Rewrite(items, back))]
      \/ th' = [th EXCEPT ![t] = onward(items)]
      \/ th[t].kind = "stream" /\ th' = [th EXCEPT ![t] = SentBack(th[t], denied)]
  BY DEF Prepare, StreamOf
<1>3. ASSUME NEW i PROVE InForm(onward(i))
  <2>1. /\ Shaped(onward(i)) /\ onward(i).at = "budget" /\ onward(i).kind = th[t].kind
        /\ onward(i).head = th[t].head /\ onward(i).run = th[t].run
    BY <1>1 DEF InForm, Shaped
  <2> HIDE DEF onward
  <2> QED
    BY <1>1, <2>1 DEF InForm, Heads
<1>4. Shaped(noted) /\ noted.head = "sse" /\ noted.kind = th[t].kind
  BY <1>1 DEF InForm, Shaped
<1>5. SentBack(th[t], denied) = Ended(noted, "escalation")
  BY DEF SentBack
<1> HIDE DEF onward, noted
<1>6. th[t].kind = "stream" => InForm(SentBack(th[t], denied))
  BY <1>4, <1>5, EndedInForm DEF Fitting
<1> HIDE DEF items, back, denied
<1> QED
  BY <1>2, <1>3, <1>6, OneInForm

LEMMA BeginInForm ==
  ASSUME AllInForm, NEW t \in Threads, Begin(t)
  PROVE  AllInForm'
<1> DEFINE a == [th[t] EXCEPT !.at = "serve"]
           h == IF StreamOf(t) THEN "sse" ELSE a.head
           l == [a EXCEPT !.head = h]
<1>1. InForm(th[t]) /\ th[t].at = "budget"
  BY DEF AllInForm, Begin
<1>2. CASE Raises(t)
  BY <1>2, RaisesInForm
<1>3. CASE th' = [th EXCEPT ![t].at = "serve",
                            ![t].head = IF StreamOf(t) THEN "sse" ELSE @]
  <2>1. th' = [th EXCEPT ![t] = l]
    BY <1>3 DEF AllInForm
  <2>2. /\ Shaped(l) /\ l.at = "serve" /\ l.head = h /\ l.kind = th[t].kind
        /\ l.run = th[t].run /\ a.head = th[t].head
    BY <1>1 DEF InForm, Shaped
  <2> HIDE DEF l, a
  <2>3. InForm(l)
    BY <1>1, <2>2 DEF InForm, Heads, StreamOf
  <2> QED
    BY <2>1, <2>3, OneInForm
<1> QED
  BY <1>2, <1>3 DEF Begin

(* A thread that serves goes on serving, with its head as it was.          *)
LEMMA ServesOnInForm ==
  ASSUME AllInForm, NEW t \in Threads, th[t].at = "serve", NEW l, Shaped(l),
         l.at = "serve", l.kind = th[t].kind, l.head = th[t].head,
         th' = [th EXCEPT ![t] = l]
  PROVE  AllInForm'
<1>1. InForm(l)
  BY DEF AllInForm, InForm, Heads
<1> QED
  BY <1>1, OneInForm

LEMMA ServeInForm ==
  ASSUME AllInForm, NEW t \in Threads,
         ServeStream(t) \/ RetryStream(t) \/ ServePlain(t) \/ Compact(t)
  PROVE  AllInForm'
<1>1. InForm(th[t]) /\ Shaped(th[t]) /\ Heads(th[t])
  BY DEF AllInForm, InForm
<1>2. CASE ServeStream(t)
  <2>1. th[t].at = "serve" /\ th[t].kind = "stream" /\ th[t].head = "sse"
    BY <1>1, <1>2 DEF ServeStream, StreamOf, Heads
  <2>2. CASE StreamEnds(t)
    BY <2>1, <2>2, EndsInForm, FailsInForm DEF StreamEnds, Fitting
  <2>3. CASE StreamUnwinds(t)
    BY <2>1, <2>3, EndsInForm DEF StreamUnwinds, Fitting
  <2> QED
    BY <1>2, <2>2, <2>3 DEF ServeStream
<1>3. CASE RetryStream(t)
  <2> DEFINE l == [th[t] EXCEPT !.run = "retry"]
  <2>1. th[t].at = "serve" /\ th' = [th EXCEPT ![t] = l]
    BY <1>3 DEF RetryStream
  <2>2. Shaped(l) /\ l.at = "serve" /\ l.kind = th[t].kind /\ l.head = th[t].head
    BY <1>1, <2>1 DEF Shaped
  <2> HIDE DEF l
  <2> QED
    BY <2>1, <2>2, ServesOnInForm
<1>4. CASE ServePlain(t)
  <2>1. th[t].at = "serve" /\ th[t].kind # "stream"
    BY <1>4 DEF ServePlain, StreamOf
  <2>2. \/ th' = [th EXCEPT ![t].hop = @ + 1]
        \/ EndsJson(t, "said") \/ EndsJson(t, "served") \/ EndsJson(t, "refusal")
    BY <1>4 DEF ServePlain, HopPlain
  <2>3. CASE th' = [th EXCEPT ![t].hop = @ + 1]
    <3> DEFINE l == [th[t] EXCEPT !.hop = th[t].hop + 1]
    <3>1. th' = [th EXCEPT ![t] = l]
      BY <2>3
    <3>2. Shaped(l) /\ l.at = "serve" /\ l.kind = th[t].kind /\ l.head = th[t].head
      BY <1>1, <2>1 DEF Shaped
    <3> HIDE DEF l
    <3> QED
      BY <2>1, <3>1, <3>2, ServesOnInForm
  <2> QED
    BY <2>1, <2>2, <2>3, JsonInForm
<1>5. CASE Compact(t)
  BY <1>5, JsonInForm DEF Compact
<1> QED
  BY <1>2, <1>3, <1>4, <1>5

LEMMA ArriveInForm ==
  ASSUME GateAssumption, AllInForm, NEW t \in Threads, Arrive(t)
  PROVE  AllInForm'
<1> DEFINE start(kind, place, head) ==
             [Idle EXCEPT !.at = place, !.kind = kind,
                          !.items = client[Owner[t]].items, !.head = head,
                          !.turn = client[Owner[t]].turns + 1]
<1>1. \E kind \in Kinds[Owner[t]] :
        \/ th' = [th EXCEPT ![t] = start(kind, "queued", "none")]
        \/ kind = "stream" /\ th' = [th EXCEPT ![t] = start(kind, "startup", "sse")]
        \/ kind # "stream" /\ th' = [th EXCEPT ![t] = start(kind, "startup", "none")]
        \/ /\ kind # "stream"
           /\ th' = [th EXCEPT ![t] = WithJson(start(kind, "startup", "none"), "refusal")]
  BY DEF Arrive
<1>2. ASSUME NEW kind, NEW place \in {"queued", "startup"}, NEW head,
             \/ place = "queued" /\ head = "none"
             \/ place = "startup" /\ head = IF kind = "stream" THEN "sse" ELSE "none"
      PROVE  InForm(start(kind, place, head)) /\ start(kind, place, head).at = place
  <2>1. /\ Shaped(start(kind, place, head)) /\ start(kind, place, head).at = place
        /\ start(kind, place, head).kind = kind /\ start(kind, place, head).head = head
        /\ start(kind, place, head).run = "first"
    BY DEF Shaped, Idle
  <2> HIDE DEF start
  <2> QED
    BY <1>2, <2>1 DEF InForm, Heads
<1> HIDE DEF start
<1>3. \A kind : /\ InForm(start(kind, "queued", "none"))
                /\ kind = "stream" => InForm(start(kind, "startup", "sse"))
                /\ kind # "stream" => /\ InForm(start(kind, "startup", "none"))
                                      /\ start(kind, "startup", "none").at = "startup"
  BY <1>2
<1>4. \A kind : kind # "stream" =>
        InForm(WithJson(start(kind, "startup", "none"), "refusal"))
  BY <1>3, WithJsonInForm
<1> QED
  BY <1>1, <1>3, <1>4, OneInForm

LEMMA LeavesInForm ==
  ASSUME AllInForm, NEW t \in Threads, Receive(t) \/ ClientGoes(t) \/ UpstreamBreaks(t)
  PROVE  AllInForm'
<1>1. InForm(th[t])
  BY DEF AllInForm
<1>2. CASE Receive(t)
  BY <1>2, IdleInForm, OneInForm DEF Receive
<1>3. CASE ClientGoes(t)
  <2> DEFINE l == [th[t] EXCEPT !.gone = TRUE]
  <2>1. th' = [th EXCEPT ![t] = l] /\ th[t].at # "ended"
    BY <1>3 DEF ClientGoes
  <2>2. /\ Shaped(l) /\ l.at = th[t].at /\ l.kind = th[t].kind /\ l.head = th[t].head
        /\ l.run = th[t].run
    BY <1>1 DEF InForm, Shaped
  <2> HIDE DEF l
  <2>3. InForm(l)
    BY <1>1, <2>1, <2>2 DEF InForm, Heads
  <2> QED
    BY <2>1, <2>3, OneInForm
<1>4. CASE UpstreamBreaks(t)
  <2> DEFINE l == [th[t] EXCEPT !.run = "broken"]
  <2>1. th[t].at = "serve" /\ th' = [th EXCEPT ![t] = l]
    BY <1>4 DEF UpstreamBreaks
  <2>2. Shaped(l) /\ l.at = "serve" /\ l.kind = th[t].kind /\ l.head = th[t].head
    BY <1>1, <2>1 DEF InForm, Shaped
  <2> HIDE DEF l
  <2> QED
    BY <2>1, <2>2, ServesOnInForm
<1> QED
  BY <1>2, <1>3, <1>4

(* Every thread is in form.                                                *)
LEMMA FormInvariant == Spec => []AllInForm
<1>1. Init => AllInForm
  BY IdleInForm DEF Init, AllInForm
<1>2. AllInForm /\ [Next]_vars => AllInForm'
  <2> SUFFICES ASSUME AllInForm, [Next]_vars PROVE AllInForm'
    OBVIOUS
  <2>1. ASSUME NEW t \in Threads, Step(t) PROVE AllInForm'
    BY <2>1, AwaitInForm, PrepareInForm, BeginInForm, ServeInForm DEF Step
  <2>2. ASSUME NEW t \in Threads,
               Arrive(t) \/ Receive(t) \/ ClientGoes(t) \/ UpstreamBreaks(t)
        PROVE  AllInForm'
    BY <2>2, GateAssumption, ArriveInForm, LeavesInForm
  <2>3. CASE Restart
    <3>1. th' = [t \in Threads |-> Idle]
      BY <2>3 DEF Restart
    <3>2. DOMAIN th' = Threads /\ \A t \in Threads : th'[t] = Idle
      BY <3>1
    <3> QED
      BY <3>2, IdleInForm DEF AllInForm, InForm, Shaped, Heads, Whole
  <2>4. CASE StartupEnds \/ LoadEnds \/ BackendFails \/ Selected \/ UNCHANGED vars
    <3>1. UNCHANGED th
      BY <2>4 DEF StartupEnds, LoadEnds, BackendFails, Selected, vars
    <3> QED
      BY <3>1 DEF AllInForm, InForm, Shaped, Heads, Whole
  <2> QED
    BY <2>1, <2>2, <2>3, <2>4 DEF Next, Environment
<1> QED
  BY <1>1, <1>2, PTL DEF Spec

(* Whoever stays is answered to the end and in the form begun: no way out  *)
(* of the handler ends a request without a word but the one that its       *)
(* client has left, none puts a failure of the stream where no stream was  *)
(* begun, and a stream is cut only after its upstream broke it or in its   *)
(* retry.                                                                  *)
THEOREM NoStayerUnanswered == Spec => []StayersAnswered
<1>1. AllInForm => StayersAnswered
  BY DEF AllInForm, InForm, StayersAnswered, StreamOf
<1> QED
  BY <1>1, FormInvariant, PTL

-----------------------------------------------------------------------------
Inside == {"assess", "held", "waiting", "prepare", "budget", "serve"}

(* A thread is inside exactly when it holds the gate.                      *)
HoldersInside ==
  /\ gate \in Threads \cup {Nobody}
  /\ DOMAIN th = Threads
  /\ \A t \in Threads : Shaped(th[t])
  /\ \A t \in Threads : th[t].at \in Inside <=> gate = t

(* A request that is served is listed, and known as lost once its client   *)
(* has gone or its retry has begun.                                        *)
Listed(t) ==
  th[t].at = "serve" =>
    /\ Request(t) \in registry
    /\ th[t].gone \/ th[t].run = "retry" => Request(t) \in lost

RegistryTrue == (\A t \in Threads : Listed(t)) /\ OthersAreServed

IInv == HoldersInside /\ RegistryTrue

(* What a thread is but for its place.                                     *)
Same(l, m) == l.gone = m.gone /\ l.turn = m.turn /\ l.run = m.run

-----------------------------------------------------------------------------
(* A thread that does not serve moves, and the registry stays: what is     *)
(* said of the others holds on.                                            *)
LEMMA Moves ==
  ASSUME GateAssumption, IInv, NEW t \in Threads, OneMoves(t), Shaped(th'[t]),
         gate' = gate \/ (gate \in {t, Nobody} /\ gate' \in {t, Nobody}),
         th'[t].at \in Inside <=> gate' = t,
         th[t].at # "serve", th'[t].at # "serve",
         registry' = registry, lost' = lost
  PROVE  IInv'
<1>1. Nobody \notin Threads
  BY DEF GateAssumption
<1>2. gate' \in Threads \cup {Nobody}
  BY DEF IInv, HoldersInside
<1>3. ASSUME NEW u \in Threads
      PROVE  /\ Shaped(th'[u])
             /\ th'[u].at \in Inside <=> gate' = u
             /\ Listed(u)'
  <2>1. CASE u = t
    BY <2>1 DEF Listed
  <2>2. CASE u # t
    <3>1. th'[u] = th[u]
      BY <2>2 DEF OneMoves
    <3>2. gate' = u <=> gate = u
      BY <1>1, <2>2
    <3>3. Request(u)' = Request(u)
      BY <3>1 DEF Request
    <3> QED
      BY <2>2, <3>1, <3>2, <3>3 DEF IInv, HoldersInside, RegistryTrue, Listed
  <2> QED
    BY <2>1, <2>2
<1>4. OthersAreServed'
  <2> SUFFICES ASSUME NEW r \in registry \ lost
               PROVE  \E u \in Threads : Request(u)' = r /\ th'[u].at = "serve"
    BY DEF OthersAreServed
  <2>1. PICK u \in Threads : Request(u) = r /\ th[u].at = "serve"
    BY DEF IInv, RegistryTrue, OthersAreServed
  <2>2. th'[u] = th[u]
    BY <2>1 DEF OneMoves
  <2> QED
    BY <2>1, <2>2 DEF Request
<1> QED
  BY <1>2, <1>3, <1>4 DEF IInv, HoldersInside, RegistryTrue, OneMoves

(* The holder of the gate moves: nobody else serves, and every entry that  *)
(* is not lost is its own.                                                 *)
LEMMA HolderMoves ==
  ASSUME GateAssumption, IInv, NEW t \in Threads, OneMoves(t), Shaped(th'[t]),
         gate = t, gate' \in {t, Nobody}, th'[t].at \in Inside <=> gate' = t,
         Listed(t)',
         \A r \in registry' \ lost' : Request(t)' = r /\ th'[t].at = "serve"
  PROVE  IInv'
<1>1. Nobody \notin Threads
  BY DEF GateAssumption
<1>2. ASSUME NEW u \in Threads
      PROVE  /\ Shaped(th'[u])
             /\ th'[u].at \in Inside <=> gate' = u
             /\ Listed(u)'
  <2>1. CASE u # t
    <3>1. th'[u] = th[u] /\ th[u].at \notin Inside
      BY <2>1 DEF OneMoves, IInv, HoldersInside
    <3> QED
      BY <1>1, <2>1, <3>1 DEF IInv, HoldersInside, Inside, Listed
  <2> QED
    BY <2>1
<1>3. OthersAreServed'
  BY DEF OthersAreServed
<1> QED
  BY <1>2, <1>3 DEF IInv, HoldersInside, RegistryTrue, OneMoves

(* While a thread holds the gate, what is listed and not lost is at most   *)
(* its own request.                                                        *)
LEMMA Alone ==
  ASSUME IInv, NEW t \in Threads, gate = t, NEW r \in registry \ lost
  PROVE  Request(t) = r /\ th[t].at = "serve"
<1>1. PICK u \in Threads : Request(u) = r /\ th[u].at = "serve"
  BY DEF IInv, RegistryTrue, OthersAreServed
<1>2. u = t
  BY <1>1 DEF IInv, HoldersInside, Inside
<1> QED
  BY <1>1, <1>2

(* A thread that does not serve ends, and releases the gate if it is its.  *)
LEMMA EndsOutside ==
  ASSUME GateAssumption, IInv, NEW t \in Threads, OneMoves(t), Shaped(th'[t]),
         th'[t].at \in {"free", "ended"}, th[t].at # "serve",
         Leaves(t) \/ (th[t].at \notin Inside /\ gate' = gate),
         registry' = registry, lost' = lost
  PROVE  IInv'
<1>1. Nobody \notin Threads
  BY DEF GateAssumption
<1>2. th'[t].at \notin Inside /\ th'[t].at # "serve"
  BY DEF Inside
<1>3. gate' # t
  BY <1>1 DEF Leaves, IInv, HoldersInside
<1>4. gate' = gate \/ (gate \in {t, Nobody} /\ gate' \in {t, Nobody})
  BY DEF Leaves
<1> QED
  BY <1>2, <1>3, <1>4, Moves

(* The holder ends, and its entry has gone or is lost.                     *)
LEMMA HolderEnds ==
  ASSUME GateAssumption, IInv, NEW t \in Threads, OneMoves(t), Shaped(th'[t]),
         th'[t].at \in {"free", "ended"}, th[t].at \in Inside, Leaves(t),
         registry' \ lost' = {}
  PROVE  IInv'
<1>1. gate = t /\ gate' = Nobody /\ Nobody # t
  BY DEF Leaves, IInv, HoldersInside, GateAssumption
<1>2. th'[t].at \notin Inside /\ th'[t].at # "serve"
  BY DEF Inside
<1> QED
  BY <1>1, <1>2, HolderMoves DEF Listed

(* The thread goes from one place inside to another, and does not serve.   *)
LEMMA StaysInside ==
  ASSUME GateAssumption, IInv, NEW t \in Threads, OneMoves(t), Shaped(th'[t]),
         th[t].at \in Inside \ {"serve"}, th'[t].at \in Inside \ {"serve"},
         gate' = gate, registry' = registry, lost' = lost
  PROVE  IInv'
<1>1. gate = t /\ th[t].at # "serve" /\ th'[t].at # "serve"
  BY DEF IInv, HoldersInside, Inside
<1> QED
  BY <1>1, Moves

(* A thread that is not inside takes a place that is not either.           *)
LEMMA StaysOutside ==
  ASSUME GateAssumption, IInv, NEW t \in Threads, OneMoves(t), Shaped(th'[t]),
         th[t].at \notin Inside, th'[t].at \notin Inside,
         gate' = gate, registry' = registry, lost' = lost
  PROVE  IInv'
<1>1. gate # t
  BY DEF IInv, HoldersInside
<1>2. th[t].at # "serve" /\ th'[t].at # "serve"
  BY DEF Inside
<1> QED
  BY <1>1, <1>2, Moves

(* A thread that serves goes on serving under the gate, its request the    *)
(* same and lost if it must be; and no other entry leaves the lost ones.   *)
LEMMA GoesOnServing ==
  ASSUME GateAssumption, IInv, NEW t \in Threads, OneMoves(t), Shaped(th'[t]),
         th[t].at = "serve", th'[t].at = "serve", th'[t].turn = th[t].turn,
         gate' = gate, registry' = registry,
         \/ lost' = lost /\ th'[t].gone = th[t].gone
            /\ (th'[t].run = "retry" => th[t].run = "retry")
         \/ lost' = lost \cup {Request(t)}
  PROVE  IInv'
<1>1. gate = t /\ Listed(t)
  BY DEF IInv, HoldersInside, RegistryTrue, Inside
<1>2. Request(t)' = Request(t)
  BY DEF Request
<1>3. Listed(t)'
  BY <1>1, <1>2 DEF Listed
<1>4. \A r \in registry' \ lost' : Request(t)' = r /\ th'[t].at = "serve"
  BY <1>1, <1>2, Alone
<1>5. th'[t].at \in Inside /\ gate' = t
  BY <1>1 DEF Inside
<1> QED
  BY <1>1, <1>3, <1>4, <1>5, HolderMoves

-----------------------------------------------------------------------------
(* The ways a thread moves.                                                *)
LEMMA ToMoves ==
  ASSUME IInv, NEW t \in Threads, NEW place, To(t, place)
  PROVE  OneMoves(t) /\ Shaped(th'[t]) /\ th'[t].at = place
<1> DEFINE l == [th[t] EXCEPT !.at = place]
<1>1. Shaped(th[t]) /\ DOMAIN th = Threads
  BY DEF IInv, HoldersInside
<1>2. Shaped(l) /\ l.at = place
  BY <1>1 DEF Shaped
<1>3. th' = [th EXCEPT ![t] = l]
  BY DEF To
<1> HIDE DEF l
<1> QED
  BY <1>1, <1>2, <1>3, Replaced

(* However a request ends, its thread is free or ended.                    *)
LEMMA EndedOutside ==
  ASSUME NEW l, Shaped(l), NEW answer
  PROVE  Shaped(Ended(l, answer)) /\ Ended(l, answer).at \in {"free", "ended"}
<1>1. CASE l.gone
  BY <1>1, IdleInForm DEF Ended, InForm
<1>2. CASE ~ l.gone
  <2> DEFINE e == [l EXCEPT !.at = "ended", !.got = answer, !.items = <<>>, !.hop = 0]
  <2>1. Shaped(e) /\ e.at = "ended"
    BY DEF Shaped
  <2>2. Ended(l, answer) = e
    BY <1>2 DEF Ended
  <2> HIDE DEF e
  <2> QED
    BY <2>1, <2>2
<1> QED
  BY <1>1, <1>2

LEMMA WithJsonOutside ==
  ASSUME NEW l, Shaped(l), NEW answer
  PROVE  Shaped(WithJson(l, answer)) /\ WithJson(l, answer).at \in {"free", "ended"}
<1> DEFINE h == [l EXCEPT !.head = IF @ = "sse" THEN "mixed" ELSE "json"]
<1>1. Shaped(h)
  BY DEF Shaped
<1>2. WithJson(l, answer) = Ended(h, answer)
  BY DEF WithJson
<1> HIDE DEF h
<1> QED
  BY <1>1, <1>2, EndedOutside

LEMMA EndsMoves ==
  ASSUME IInv, NEW t \in Threads, NEW answer,
         EndsJson(t, answer) \/ th' = [th EXCEPT ![t] = Ended(@, answer)]
  PROVE  OneMoves(t) /\ Shaped(th'[t]) /\ th'[t].at \in {"free", "ended"}
<1>1. Shaped(th[t]) /\ DOMAIN th = Threads
  BY DEF IInv, HoldersInside
<1>2. CASE EndsJson(t, answer)
  <2>1. th' = [th EXCEPT ![t] = WithJson(th[t], answer)]
    BY <1>2 DEF EndsJson
  <2> QED
    BY <1>1, <2>1, WithJsonOutside, Replaced
<1>3. CASE th' = [th EXCEPT ![t] = Ended(@, answer)]
  <2>1. th' = [th EXCEPT ![t] = Ended(th[t], answer)]
    BY <1>3
  <2> QED
    BY <1>1, <2>1, EndedOutside, Replaced
<1> QED
  BY <1>2, <1>3

LEMMA FailsMoves ==
  ASSUME IInv, NEW t \in Threads, EndsFailed(t) \/ Raises(t)
  PROVE  OneMoves(t) /\ Shaped(th'[t]) /\ th'[t].at \in {"free", "ended"}
  BY EndsMoves DEF EndsFailed, Raises

LEMMA WaitsMoves ==
  ASSUME IInv, NEW t \in Threads, Waits(t)
  PROVE  OneMoves(t) /\ Shaped(th'[t]) /\ th'[t].at \in {"held", "waiting"}
<1> DEFINE p == IF StreamOf(t) THEN "held" ELSE "waiting"
           a == [th[t] EXCEPT !.at = p]
           h == IF StreamOf(t) THEN "sse" ELSE a.head
           l == [a EXCEPT !.head = h]
<1>1. Shaped(th[t]) /\ DOMAIN th = Threads
  BY DEF IInv, HoldersInside
<1>2. Shaped(l) /\ l.at = p
  BY <1>1 DEF Shaped
<1>3. th' = [th EXCEPT ![t] = l]
  BY DEF Waits, IInv, HoldersInside
<1> HIDE DEF l
<1>4. OneMoves(t) /\ th'[t] = l
  BY <1>1, <1>3, Replaced
<1> QED
  BY <1>2, <1>4

-----------------------------------------------------------------------------
(* One lemma for each action of a thread.                                  *)
LEMMA AwaitStartupKeeps ==
  ASSUME GateAssumption, IInv, NEW t \in Threads, AwaitStartup(t)
  PROVE  IInv'
<1>1. th[t].at \notin Inside /\ gate' = gate /\ registry' = registry /\ lost' = lost
  BY DEF AwaitStartup, Inside
<1>2. OneMoves(t) /\ Shaped(th'[t]) /\ th'[t].at \in {"queued", "free", "ended"}
  BY ToMoves, EndsMoves, FailsMoves DEF AwaitStartup
<1>3. th'[t].at \notin Inside
  BY <1>2 DEF Inside
<1> QED
  BY <1>1, <1>2, <1>3, StaysOutside

LEMMA AdmitKeeps ==
  ASSUME GateAssumption, IInv, NEW t \in Threads, Admit(t)
  PROVE  IInv'
<1>1. /\ th[t].at \notin Inside /\ gate = Nobody /\ th[t].at # "serve"
      /\ registry' = registry /\ lost' = lost
  BY DEF Admit, Inside
<1>2. CASE To(t, "assess") /\ gate' = t
  <2>1. OneMoves(t) /\ Shaped(th'[t]) /\ th'[t].at = "assess"
    BY <1>2, ToMoves
  <2> QED
    BY <1>1, <1>2, <2>1, Moves DEF Inside
<1>3. CASE To(t, "through") /\ UNCHANGED gate
  <2>1. OneMoves(t) /\ Shaped(th'[t]) /\ th'[t].at = "through"
    BY <1>3, ToMoves
  <2> QED
    BY <1>1, <1>3, <2>1, StaysOutside DEF Inside
<1>4. CASE EndsJson(t, "refusal") /\ UNCHANGED gate
  <2>1. OneMoves(t) /\ Shaped(th'[t]) /\ th'[t].at \in {"free", "ended"}
    BY <1>4, EndsMoves
  <2> QED
    BY <1>1, <1>4, <2>1, StaysOutside DEF Inside
<1> QED
  BY <1>2, <1>3, <1>4 DEF Admit

LEMMA ThroughKeeps ==
  ASSUME GateAssumption, IInv, NEW t \in Threads, Through(t)
  PROVE  IInv'
<1>1. th[t].at \notin Inside /\ gate' = gate /\ registry' = registry /\ lost' = lost
  BY DEF Through, Unreachable, Forwarded, Inside
<1>2. OneMoves(t) /\ Shaped(th'[t]) /\ th'[t].at \in {"free", "ended"}
  BY EndsMoves DEF Through, Unreachable, Forwarded
<1>3. th'[t].at \notin Inside
  BY <1>2 DEF Inside
<1> QED
  BY <1>1, <1>2, <1>3, StaysOutside

LEMMA AssessKeeps ==
  ASSUME GateAssumption, IInv, NEW t \in Threads, Assess(t)
  PROVE  IInv'
<1>1. /\ th[t].at \in Inside \ {"serve"} /\ th[t].at # "serve"
      /\ registry' = registry /\ lost' = lost
  BY DEF Assess, Inside
<1>2. CASE To(t, "prepare") /\ gate' = gate
  <2>1. OneMoves(t) /\ Shaped(th'[t]) /\ th'[t].at = "prepare"
    BY <1>2, ToMoves
  <2> QED
    BY <1>1, <1>2, <2>1, StaysInside DEF Inside
<1>3. CASE Waits(t) /\ gate' = gate
  <2>1. OneMoves(t) /\ Shaped(th'[t]) /\ th'[t].at \in {"held", "waiting"}
    BY <1>3, WaitsMoves
  <2>2. th'[t].at \in Inside \ {"serve"}
    BY <2>1 DEF Inside
  <2> QED
    BY <1>1, <1>3, <2>1, <2>2, StaysInside
<1>4. CASE (EndsJson(t, "refusal") \/ Raises(t)) /\ Leaves(t)
  <2>1. OneMoves(t) /\ Shaped(th'[t]) /\ th'[t].at \in {"free", "ended"}
    BY <1>4, EndsMoves, FailsMoves
  <2> QED
    BY <1>1, <1>4, <2>1, EndsOutside
<1> QED
  BY <1>2, <1>3, <1>4 DEF Assess

LEMMA AwaitModelKeeps ==
  ASSUME GateAssumption, IInv, NEW t \in Threads, AwaitModel(t)
  PROVE  IInv'
<1>1. /\ th[t].at \in Inside \ {"serve"} /\ th[t].at # "serve"
      /\ registry' = registry /\ lost' = lost
  BY DEF AwaitModel, Inside
<1>2. CASE To(t, "prepare") /\ gate' = gate
  <2>1. OneMoves(t) /\ Shaped(th'[t]) /\ th'[t].at = "prepare"
    BY <1>2, ToMoves
  <2> QED
    BY <1>1, <1>2, <2>1, StaysInside DEF Inside
<1>3. CASE (EndsFailed(t) \/ EndsJson(t, "refusal") \/ Raises(t)) /\ Leaves(t)
  <2>1. OneMoves(t) /\ Shaped(th'[t]) /\ th'[t].at \in {"free", "ended"}
    BY <1>3, EndsMoves, FailsMoves
  <2> QED
    BY <1>1, <1>3, <2>1, EndsOutside
<1> QED
  BY <1>2, <1>3 DEF AwaitModel

LEMMA PrepareKeeps ==
  ASSUME GateAssumption, IInv, NEW t \in Threads, Prepare(t)
  PROVE  IInv'
<1> DEFINE back == Awaited(Microcompact(WithAdvisories(th[t].items)), pending)
           denied == Denied(Microcompact(WithAdvisories(th[t].items)))
           onward(i) == [th[t] EXCEPT !.at = "budget", !.items = i, !.fixed = back]
<1>0. Shaped(th[t]) /\ DOMAIN th = Threads
  BY DEF IInv, HoldersInside
<1>1. /\ th[t].at \in Inside \ {"serve"} /\ th[t].at # "serve"
      /\ registry' = registry /\ lost' = lost
  BY DEF Prepare, Inside
<1>2. ASSUME NEW i, th' = [th EXCEPT ![t] = onward(i)], gate' = gate
      PROVE  IInv'
  <2>1. Shaped(onward(i)) /\ onward(i).at = "budget"
    BY <1>0 DEF Shaped
  <2> HIDE DEF onward
  <2>2. OneMoves(t) /\ Shaped(th'[t]) /\ th'[t].at = "budget"
    BY <1>0, <1>2, <2>1, Replaced
  <2> QED
    BY <1>1, <1>2, <2>2, StaysInside DEF Inside
<1>3. ASSUME th' = [th EXCEPT ![t] = SentBack(@, denied)], Leaves(t)
      PROVE  IInv'
  <2> DEFINE l == [th[t] EXCEPT !.head = "sse", !.fixed = denied]
  <2>1. Shaped(l)
    BY <1>0 DEF Shaped
  <2>2. th' = [th EXCEPT ![t] = Ended(l, "escalation")]
    BY <1>3 DEF SentBack
  <2> HIDE DEF l
  <2>3. OneMoves(t) /\ Shaped(th'[t]) /\ th'[t].at \in {"free", "ended"}
    BY <1>0, <2>1, <2>2, EndedOutside, Replaced
  <2> QED
    BY <1>1, <1>3, <2>3, EndsOutside
<1>4. \/ \E i : th' = [th EXCEPT ![t] = onward(i)] /\ gate' = gate
      \/ th' = [th EXCEPT ![t] = SentBack(@, denied)] /\ Leaves(t)
  BY DEF Prepare
<1> QED
  BY <1>2, <1>3, <1>4

LEMMA CompactKeeps ==
  ASSUME GateAssumption, IInv, NEW t \in Threads, Compact(t)
  PROVE  IInv'
<1>1. th[t].at # "serve" /\ registry' = registry /\ lost' = lost /\ Leaves(t)
  BY DEF Compact
<1>2. OneMoves(t) /\ Shaped(th'[t]) /\ th'[t].at \in {"free", "ended"}
  BY EndsMoves DEF Compact
<1> QED
  BY <1>1, <1>2, EndsOutside

(* The request is listed: lost already if its client has gone.             *)
LEMMA BeginKeeps ==
  ASSUME GateAssumption, IInv, NEW t \in Threads, InForm(th[t]), Begin(t)
  PROVE  IInv'
<1> DEFINE a == [th[t] EXCEPT !.at = "serve"]
           h == IF StreamOf(t) THEN "sse" ELSE a.head
           l == [a EXCEPT !.head = h]
<1>0. Shaped(th[t]) /\ DOMAIN th = Threads
  BY DEF IInv, HoldersInside
<1>1. /\ th[t].at = "budget" /\ gate = t /\ th[t].at \in Inside /\ Register(t)
      /\ th[t].run = "first"
  BY DEF Begin, IInv, HoldersInside, Inside, InForm
<1>2. registry \ lost = {}
  BY <1>1, Alone
<1>3. CASE Raises(t) /\ Leaves(t)
  <2>1. OneMoves(t) /\ Shaped(th'[t]) /\ th'[t].at \in {"free", "ended"}
    BY <1>3, FailsMoves
  <2>2. registry' \ lost' = {}
    BY <1>1, <1>2, <1>3 DEF Register, Raises
  <2> QED
    BY <1>1, <1>3, <2>1, <2>2, HolderEnds
<1>4. CASE /\ th' = [th EXCEPT ![t].at = "serve",
                            ![t].head = IF StreamOf(t) THEN "sse" ELSE @]
           /\ gate' = gate
  <2>1. th' = [th EXCEPT ![t] = l]
    BY <1>0, <1>4 DEF Shaped
  <2>2. Shaped(l) /\ l.at = "serve" /\ Same(l, th[t])
    BY <1>0 DEF Shaped, Same
  <2> HIDE DEF l
  <2>3. OneMoves(t) /\ th'[t] = l
    BY <1>0, <2>1, Replaced
  <2>4. Request(t)' = Request(t)
    BY <2>2, <2>3 DEF Request, Same
  <2>5. Listed(t)'
    BY <1>1, <2>2, <2>3, <2>4 DEF Listed, Register, Same
  <2>6. \A r \in registry' \ lost' : Request(t)' = r /\ th'[t].at = "serve"
    BY <1>1, <1>2, <2>2, <2>3, <2>4 DEF Register
  <2> QED
    BY <1>1, <1>4, <2>2, <2>3, <2>5, <2>6, HolderMoves DEF Inside
<1> QED
  BY <1>3, <1>4 DEF Begin

(* A stream that ends is taken off the list; one that unwinds is lost.     *)
LEMMA ServeStreamKeeps ==
  ASSUME GateAssumption, IInv, NEW t \in Threads, ServeStream(t)
  PROVE  IInv'
<1>1. th[t].at = "serve" /\ gate = t /\ th[t].at \in Inside /\ Leaves(t) /\ Listed(t)
  BY DEF ServeStream, IInv, HoldersInside, RegistryTrue, Inside
<1>2. OneMoves(t) /\ Shaped(th'[t]) /\ th'[t].at \in {"free", "ended"}
  BY EndsMoves, FailsMoves DEF ServeStream, StreamEnds, StreamUnwinds
<1>3. registry' \ lost' = {}
  <2>1. \A r \in registry \ lost : Request(t) = r
    BY <1>1, Alone
  <2>2. CASE Finish(t)
    BY <2>1, <2>2 DEF Finish
  <2>3. CASE StreamUnwinds(t)
    BY <1>1, <2>1, <2>3 DEF StreamUnwinds, Listed
  <2> QED
    BY <2>2, <2>3 DEF ServeStream
<1> QED
  BY <1>1, <1>2, <1>3, HolderEnds

LEMMA RetryStreamKeeps ==
  ASSUME GateAssumption, IInv, NEW t \in Threads, RetryStream(t)
  PROVE  IInv'
<1> DEFINE l == [th[t] EXCEPT !.run = "retry"]
<1>0. Shaped(th[t]) /\ DOMAIN th = Threads
  BY DEF IInv, HoldersInside
<1>1. Shaped(l) /\ l.at = th[t].at /\ l.turn = th[t].turn
  BY <1>0 DEF Shaped
<1>2. /\ th[t].at = "serve" /\ th' = [th EXCEPT ![t] = l]
      /\ gate' = gate /\ registry' = registry /\ lost' = lost \cup {Request(t)}
  BY DEF RetryStream
<1> HIDE DEF l
<1>3. OneMoves(t) /\ th'[t] = l
  BY <1>0, <1>2, Replaced
<1> QED
  BY <1>1, <1>2, <1>3, GoesOnServing

(* A hop that is not the last goes on under the gate, every other way of   *)
(* serving ends and releases it.                                           *)
LEMMA ServePlainKeeps ==
  ASSUME GateAssumption, IInv, NEW t \in Threads, ServePlain(t)
  PROVE  IInv'
<1>0. /\ Shaped(th[t]) /\ DOMAIN th = Threads /\ th[t].at = "serve"
      /\ gate = t /\ th[t].at \in Inside
  BY DEF ServePlain, IInv, HoldersInside, Inside
<1>1. CASE th' = [th EXCEPT ![t].hop = @ + 1]
  <2> DEFINE l == [th[t] EXCEPT !.hop = @ + 1]
  <2>1. Shaped(l) /\ l.at = "serve" /\ Same(l, th[t])
    BY <1>0 DEF Shaped, Same
  <2>2. th' = [th EXCEPT ![t] = l]
    BY <1>1
  <2> HIDE DEF l
  <2>3. OneMoves(t) /\ th'[t] = l
    BY <1>0, <2>2, Replaced
  <2>4. gate' = gate /\ registry' = registry /\ lost' = lost
    BY <2>1, <2>3 DEF ServePlain
  <2> QED
    BY <1>0, <2>1, <2>3, <2>4, GoesOnServing DEF Same
<1>2. ASSUME NEW answer, EndsJson(t, answer)
      PROVE  IInv'
  <2>1. OneMoves(t) /\ Shaped(th'[t]) /\ th'[t].at \in {"free", "ended"}
    BY <1>2, EndsMoves
  <2>2. Finish(t) /\ Leaves(t)
    BY <2>1 DEF ServePlain
  <2>3. registry' \ lost' = {}
    BY <1>0, <2>2, Alone DEF Finish
  <2> QED
    BY <1>0, <2>1, <2>2, <2>3, HolderEnds
<1>3. th' = [th EXCEPT ![t].hop = @ + 1] \/ \E answer : EndsJson(t, answer)
  BY DEF ServePlain, HopPlain
<1> QED
  BY <1>1, <1>2, <1>3

LEMMA StepKeeps ==
  ASSUME GateAssumption, IInv, NEW t \in Threads, InForm(th[t]), Step(t)
  PROVE  IInv'
  BY AwaitStartupKeeps, AdmitKeeps, ThroughKeeps, AssessKeeps, AwaitModelKeeps,
     PrepareKeeps, CompactKeeps, BeginKeeps, ServeStreamKeeps, RetryStreamKeeps,
     ServePlainKeeps
     DEF Step

-----------------------------------------------------------------------------
(* The clients, the upstream, the operator and the proxy's own restart.    *)
LEMMA ArriveKeeps ==
  ASSUME GateAssumption, IInv, NEW t \in Threads, Arrive(t)
  PROVE  IInv'
<1> DEFINE start(kind, place, head) ==
             [Idle EXCEPT !.at = place, !.kind = kind,
                          !.items = client[Owner[t]].items, !.head = head,
                          !.turn = client[Owner[t]].turns + 1]
<1>1. /\ th[t].at \notin Inside /\ DOMAIN th = Threads
      /\ gate' = gate /\ registry' = registry /\ lost' = lost
  BY DEF Arrive, Inside, IInv, HoldersInside
<1>2. ASSUME NEW kind, NEW place \in {"queued", "startup"}, NEW head,
             \/ th' = [th EXCEPT ![t] = start(kind, place, head)]
             \/ th' = [th EXCEPT ![t] = WithJson(start(kind, place, head), "refusal")]
      PROVE  IInv'
  <2> DEFINE l == start(kind, place, head)
  <2>1. Shaped(l) /\ l.at = place
    BY DEF Shaped, Idle
  <2>2. th' = [th EXCEPT ![t] = l] \/ th' = [th EXCEPT ![t] = WithJson(l, "refusal")]
    BY <1>2
  <2> HIDE DEF l
  <2>3. OneMoves(t) /\ Shaped(th'[t]) /\ th'[t].at \in {"queued", "startup", "free", "ended"}
    BY <1>1, <2>1, <2>2, WithJsonOutside, Replaced
  <2>4. th'[t].at \notin Inside
    BY <2>3 DEF Inside
  <2> QED
    BY <1>1, <2>3, <2>4, StaysOutside
<1>3. PICK kind :
        \/ th' = [th EXCEPT ![t] = start(kind, "queued", "none")]
        \/ th' = [th EXCEPT ![t] = start(kind, "startup", "sse")]
        \/ th' = [th EXCEPT ![t] = start(kind, "startup", "none")]
        \/ th' = [th EXCEPT ![t] = WithJson(start(kind, "startup", "none"), "refusal")]
  BY DEF Arrive
<1> HIDE DEF start
<1> QED
  BY <1>2, <1>3

LEMMA ReceiveKeeps ==
  ASSUME GateAssumption, IInv, NEW t \in Threads, Receive(t)
  PROVE  IInv'
<1>1. /\ th[t].at \notin Inside /\ DOMAIN th = Threads
      /\ gate' = gate /\ registry' = registry /\ lost' = lost
      /\ th' = [th EXCEPT ![t] = Idle]
  BY DEF Receive, Inside, IInv, HoldersInside
<1>2. OneMoves(t) /\ Shaped(th'[t]) /\ th'[t].at = "free"
  BY <1>1, IdleInForm, Replaced DEF InForm
<1> QED
  BY <1>1, <1>2, StaysOutside DEF Inside

LEMMA ClientGoesKeeps ==
  ASSUME GateAssumption, IInv, NEW t \in Threads, ClientGoes(t)
  PROVE  IInv'
<1> DEFINE l == [th[t] EXCEPT !.gone = TRUE]
<1>0. Shaped(th[t]) /\ DOMAIN th = Threads
  BY DEF IInv, HoldersInside
<1>1. Shaped(l) /\ l.at = th[t].at /\ l.turn = th[t].turn
  BY <1>0 DEF Shaped
<1>2. /\ th' = [th EXCEPT ![t] = l] /\ gate' = gate /\ registry' = registry
      /\ lost' = IF th[t].at = "serve" THEN lost \cup {Request(t)} ELSE lost
  BY DEF ClientGoes
<1> HIDE DEF l
<1>3. OneMoves(t) /\ th'[t] = l
  BY <1>0, <1>2, Replaced
<1>4. CASE th[t].at = "serve"
  BY <1>1, <1>2, <1>3, <1>4, GoesOnServing
<1>5. CASE th[t].at # "serve"
  BY <1>1, <1>2, <1>3, <1>5, Moves DEF IInv, HoldersInside
<1> QED
  BY <1>4, <1>5

LEMMA UpstreamBreaksKeeps ==
  ASSUME GateAssumption, IInv, NEW t \in Threads, UpstreamBreaks(t)
  PROVE  IInv'
<1> DEFINE l == [th[t] EXCEPT !.run = "broken"]
<1>0. Shaped(th[t]) /\ DOMAIN th = Threads
  BY DEF IInv, HoldersInside
<1>1. Shaped(l) /\ l.at = th[t].at /\ l.turn = th[t].turn /\ l.gone = th[t].gone
      /\ l.run = "broken"
  BY <1>0 DEF Shaped
<1>2. /\ th[t].at = "serve" /\ th' = [th EXCEPT ![t] = l]
      /\ gate' = gate /\ registry' = registry /\ lost' = lost
  BY DEF UpstreamBreaks
<1> HIDE DEF l
<1>3. OneMoves(t) /\ th'[t] = l
  BY <1>0, <1>2, Replaced
<1> QED
  BY <1>1, <1>2, <1>3, GoesOnServing

(* No thread is under way and nothing is listed.                           *)
LEMMA NothingListed ==
  ASSUME gate = Nobody, registry = {}, DOMAIN th = Threads,
         \A t \in Threads : th[t] = Idle, GateAssumption
  PROVE  IInv
<1>1. Nobody \notin Threads
  BY DEF GateAssumption
<1>2. Shaped(Idle) /\ Idle.at \notin Inside /\ Idle.at # "serve"
  BY IdleInForm DEF Inside, InForm
<1> QED
  BY <1>1, <1>2 DEF IInv, HoldersInside, RegistryTrue, Listed, OthersAreServed

LEMMA RestartKeeps ==
  ASSUME GateAssumption, Restart
  PROVE  IInv'
<1>1. Nobody \notin Threads
  BY DEF GateAssumption
<1>2. gate' = Nobody /\ registry' = {} /\ th' = [t \in Threads |-> Idle]
  BY DEF Restart
<1>3. Shaped(Idle) /\ Idle.at \notin Inside /\ Idle.at # "serve"
  BY IdleInForm DEF Inside, InForm
<1>4. DOMAIN th' = Threads /\ \A t \in Threads : th'[t] = Idle
  BY <1>2
<1> QED
  BY <1>1, <1>2, <1>3, <1>4 DEF IInv, HoldersInside, RegistryTrue, Listed, OthersAreServed

LEMMA Unmoved ==
  ASSUME IInv, UNCHANGED <<gate, registry, lost, th>>
  PROVE  IInv'
  BY DEF IInv, HoldersInside, RegistryTrue, Inside, Shaped, Listed, OthersAreServed, Request

(* The invariant is inductive, together with the form of the requests.     *)
THEOREM GateInvariant == Spec => []IInv
<1>1. Init => IInv
  <2> SUFFICES ASSUME Init PROVE IInv
    OBVIOUS
  <2>1. gate = Nobody /\ registry = {} /\ th = [t \in Threads |-> Idle]
    BY DEF Init
  <2> QED
    BY <2>1, GateAssumption, NothingListed
<1>2. AllInForm /\ IInv /\ [Next]_vars => IInv'
  <2> SUFFICES ASSUME AllInForm, IInv, [Next]_vars PROVE IInv'
    OBVIOUS
  <2>1. ASSUME NEW t \in Threads, Step(t) PROVE IInv'
    BY <2>1, GateAssumption, StepKeeps DEF AllInForm
  <2>2. ASSUME NEW t \in Threads,
               Arrive(t) \/ Receive(t) \/ ClientGoes(t) \/ UpstreamBreaks(t)
        PROVE  IInv'
    BY <2>2, GateAssumption, ArriveKeeps, ReceiveKeeps, ClientGoesKeeps,
       UpstreamBreaksKeeps
  <2>3. CASE Restart
    BY <2>3, GateAssumption, RestartKeeps
  <2>4. CASE StartupEnds \/ LoadEnds \/ BackendFails \/ Selected
    BY <2>4, Unmoved DEF StartupEnds, LoadEnds, BackendFails, Selected
  <2>5. CASE UNCHANGED vars
    BY <2>5, Unmoved DEF vars
  <2> QED
    BY <2>1, <2>2, <2>3, <2>4, <2>5 DEF Next, Environment
<1> QED
  BY <1>1, <1>2, FormInvariant, PTL DEF Spec

(* A request that is served is in the registry and holds the gate; an      *)
(* entry of a request that is over is of one whose client had gone or      *)
(* whose retry had begun; and no thread that has ended keeps the gate from *)
(* those that queue.                                                       *)
THEOREM GateIsKept == Spec => []GateKept
<1>1. IInv => GateKept
  <2> SUFFICES ASSUME IInv PROVE GateKept
    OBVIOUS
  <2>1. ServedUnderGate
    BY DEF ServedUnderGate, IInv, HoldersInside, RegistryTrue, Listed, Inside
  <2>2. GateHeldByTheLiving
    BY DEF GateHeldByTheLiving, IInv, HoldersInside, Inside
  <2> QED
    BY <2>1, <2>2 DEF GateKept, IInv, RegistryTrue
<1> QED
  BY <1>1, GateInvariant, PTL

(* The gate is exclusive: two requests for /v1/responses are never past    *)
(* their admission together.                                               *)
THEOREM OneInside ==
  Spec => [](\A t, u \in Threads :
               th[t].at \in Inside /\ th[u].at \in Inside => t = u)
<1>1. IInv => \A t, u \in Threads :
               th[t].at \in Inside /\ th[u].at \in Inside => t = u
  BY DEF IInv, HoldersInside
<1> QED
  BY <1>1, GateInvariant, PTL

-----------------------------------------------------------------------------
(* The escalation.  First, numbers and sequences.                          *)

(* The least and the greatest of a set of numbers.                         *)
LEMMA LeastOf ==
  ASSUME NEW S, S \subseteq Nat, S # {}
  PROVE  Min(S) \in S /\ \A x \in S : Min(S) <= x
<1> DEFINE R == {p \in Nat \X Nat : p[1] < p[2]}
<1>0. IsWellFoundedOn(R, Nat)
  BY NatLessThanWellFounded DEF OpToRel
<1>1. PICK m \in S : \A y \in S : ~ (<<y, m>> \in R)
  <2> HIDE DEF R
  <2> QED
    BY <1>0, WFMin
<1>2. ASSUME NEW y \in S PROVE m =< y
  <2>1. y \in Nat /\ m \in Nat /\ ~ (<<y, m>> \in R)
    BY <1>1
  <2>2. <<y, m>> \in Nat \X Nat /\ <<y, m>>[1] = y /\ <<y, m>>[2] = m
    BY <2>1
  <2>3. ~ (y < m)
    BY <2>1, <2>2
  <2> QED
    BY <2>1, <2>3
<1>3. m \in S /\ \A y \in S : m =< y
  BY <1>2
<1>4. Min(S) \in S /\ \A y \in S : Min(S) =< y
  BY <1>3 DEF Min
<1> QED
  BY <1>4

LEMMA GreatestOf ==
  ASSUME NEW S, S \subseteq Nat, S # {}, NEW b \in Nat, \A x \in S : x <= b
  PROVE  Max(S) \in S /\ \A x \in S : x <= Max(S)
<1> DEFINE T == {n \in Nat : \A x \in S : x <= n}
<1>1. T \subseteq Nat /\ T # {}
  OBVIOUS
<1>2. PICK m \in T : \A y \in T : m <= y
  <2> HIDE DEF T
  <2> QED
  BY <1>1, LeastOf
<1>3. m \in S
  <2> SUFFICES ASSUME m \notin S PROVE FALSE
    OBVIOUS
  <2>1. \A x \in S : x < m
    OBVIOUS
  <2>2. m - 1 \in Nat
    <3>1. PICK x : x \in S
      OBVIOUS
    <3> QED
      BY <2>1, <3>1
  <2>3. m - 1 \in T
    BY <2>1, <2>2
  <2> QED
    BY <1>2, <2>3
<1>4. m \in S /\ \A y \in S : m >= y
  BY <1>3
<1>5. Max(S) \in S /\ \A y \in S : Max(S) >= y
  BY <1>4 DEF Max
<1> QED
  BY <1>5

(* Every member of a finite set of numbers has its place in their order.   *)
LEMMA InOrderIsOrder ==
  ASSUME NEW S, S \subseteq Nat, IsFiniteSet(S)
  PROVE  /\ Cardinality(S) \in Nat
         /\ DOMAIN InOrder(S) = 1 .. Cardinality(S)
         /\ \A i \in 1 .. Cardinality(S) : InOrder(S)[i] \in S
         /\ \A k \in S : \E i \in 1 .. Cardinality(S) : InOrder(S)[i] = k
         /\ \A i, j \in 1 .. Cardinality(S) : InOrder(S)[i] = InOrder(S)[j] => i = j
<1> DEFINE n == Cardinality(S)
           upto(k) == {j \in S : j <= k}
           rank == [k \in S |-> Cardinality(upto(k))]
<1>1. n \in Nat
  BY FS_CardinalityType
<1>2. ASSUME NEW k \in S
      PROVE  IsFiniteSet(upto(k)) /\ Cardinality(upto(k)) \in 1 .. n
  <2>1. upto(k) \in SUBSET S /\ upto(k) # {}
    OBVIOUS
  <2>2. IsFiniteSet(upto(k)) /\ Cardinality(upto(k)) <= n
    BY <2>1, FS_Subset
  <2>3. Cardinality(upto(k)) # 0 /\ Cardinality(upto(k)) \in Nat
    BY <2>1, <2>2, FS_EmptySet, FS_CardinalityType
  <2> QED
    BY <1>1, <2>2, <2>3
<1>3. ASSUME NEW k \in S, NEW m \in S, k < m
      PROVE  rank[k] # rank[m]
  <2>1. k \in Nat /\ m \in Nat /\ \A j \in S : j \in Nat
    OBVIOUS
  <2>2. upto(k) \in SUBSET upto(m)
    <3>1. \A j \in S : j <= k => j <= m
      BY <1>3, <2>1
    <3> QED
      BY <3>1
  <2>3. m \in upto(m) /\ m \notin upto(k)
    BY <1>3, <2>1
  <2>4. Cardinality(upto(k)) # Cardinality(upto(m))
    <3> HIDE DEF upto
    <3> QED
      BY <1>2, <2>2, <2>3, FS_Subset
  <2> QED
    BY <2>4
<1>4. \A k, m \in S : rank[k] = rank[m] => k = m
  BY <1>3
<1>5. rank \in Injection(S, 1 .. n)
  <2>1. rank \in [S -> 1 .. n]
    BY <1>2
  <2>2. \A a, b \in S : rank[a] = rank[b] => a = b
    BY <1>4
  <2> HIDE DEF rank
  <2> QED
    BY <2>1, <2>2, Fun_IsInj
<1>6. IsFiniteSet(1 .. n) /\ Cardinality(1 .. n) = n
  BY <1>1, FS_Interval
<1>7. \A i \in 1 .. n : \E k \in S : rank[k] = i
  <2> HIDE DEF rank
  <2>1. rank \in Surjection(S, 1 .. n)
    BY <1>5, <1>6, FS_Injection
  <2> QED
    BY <2>1, Fun_SurjectionProperties
<1>8. ASSUME NEW i \in 1 .. n
      PROVE  InOrder(S)[i] \in S /\ rank[InOrder(S)[i]] = i
  <2>1. \E k \in S : Cardinality({j \in S : j <= k}) = i
    BY <1>7
  <2>2. InOrder(S)[i] = CHOOSE k \in S : Cardinality({j \in S : j <= k}) = i
    BY DEF InOrder
  <2> QED
    BY <2>1, <2>2
<1>9. ASSUME NEW k \in S PROVE \E i \in 1 .. n : InOrder(S)[i] = k
  <2>1. rank[k] \in 1 .. n
    BY <1>2
  <2>2. rank[InOrder(S)[rank[k]]] = rank[k] /\ InOrder(S)[rank[k]] \in S
    BY <1>8, <2>1
  <2> QED
    BY <1>4, <2>1, <2>2
<1>10. DOMAIN InOrder(S) = 1 .. n
  BY DEF InOrder
<1> HIDE DEF rank
<1> QED
  BY <1>1, <1>8, <1>9, <1>10

-----------------------------------------------------------------------------
(* What SelectInSeq returns, for the set of places that pass its test.     *)
LEMMA FirstOf ==
  ASSUME NEW n \in Nat, NEW I, I \subseteq 1 .. n
  PROVE  LET k == IF I # {} THEN Min(I) ELSE 0
         IN  /\ I = {} => k = 0
             /\ I # {} => k \in I /\ \A j \in I : k <= j
<1>1. CASE I = {}
  BY <1>1
<1>2. CASE I # {}
  <2>1. I \subseteq Nat
    OBVIOUS
  <2>2. Min(I) \in I /\ \A x \in I : Min(I) <= x
    BY <1>2, <2>1, LeastOf
  <2> QED
    BY <1>2, <2>2
<1> QED
  BY <1>1, <1>2

-----------------------------------------------------------------------------
(* Items and what they are made of.                                        *)
LEMMA ItemShape ==
  ASSUME NEW i \in Items
  PROVE  /\ i.kind \in {"call", "output", "talk"} /\ i.esc \in BOOLEAN /\ i.text \in Texts
         /\ i.call \in Calls \cup {NoCall}
         /\ i.kind # "talk" => i.call \in Calls
         /\ i.text # "ok" => i.kind = "output"
         /\ i.kind = "output" => i = Output(i.call, i.esc, i.text)
  BY DEF Items, Texts, Denials, Output

LEMMA MadeItems ==
  /\ Talk \in Items /\ Talk.kind = "talk"
  /\ \A c \in Calls, e \in BOOLEAN : Call(c, e) \in Items /\ Call(c, e).kind = "call"
                     /\ Call(c, e).call = c /\ Call(c, e).esc = e
  /\ \A c \in Calls, e \in BOOLEAN, t \in Texts :
       /\ Output(c, e, t) \in Items /\ Output(c, e, t).kind = "output"
       /\ Output(c, e, t).call = c /\ Output(c, e, t).esc = e /\ Output(c, e, t).text = t
  BY DEF Talk, Call, Output, Items, Texts

LEMMA ItemAt ==
  ASSUME NEW items \in Seq(Items)
  PROVE  /\ Len(items) \in Nat /\ DOMAIN items = 1 .. Len(items)
         /\ \A k \in 1 .. Len(items) : items[k] \in Items
  BY LenProperties, ElementOfSeq

-----------------------------------------------------------------------------
(* The advisories: after the history, each of an output in it.             *)
LEMMA Advised ==
  ASSUME NEW items \in Seq(Items), NEW w, w = WithAdvisories(items)
  PROVE  /\ w \in Seq(Items) /\ Len(w) >= Len(items)
         /\ \A k \in 1 .. Len(items) : w[k] = items[k]
         /\ \A k \in 1 .. Len(w) : k > Len(items) =>
              /\ w[k].kind = "output" /\ w[k].text = "advice"
              /\ \E j \in 1 .. Len(items) :
                   /\ items[j].kind = "output"
                   /\ w[k].call = items[j].call /\ w[k].esc = items[j].esc
<1> DEFINE first(k) == /\ items[k].text = "readonly"
                       /\ \A j \in 1 .. k - 1 : items[j].text = "readonly"
                            => ~ Of(items[j], items[k].call, items[k].esc)
           S == {k \in DOMAIN items : first(k)}
           denied == InOrder(S)
           adv == [k \in DOMAIN denied |->
                     Output(items[denied[k]].call, items[denied[k]].esc, "advice")]
           n == Cardinality(S)
<1>1. /\ Len(items) \in Nat /\ DOMAIN items = 1 .. Len(items)
      /\ \A k \in 1 .. Len(items) : items[k] \in Items
  BY ItemAt
<1>2. S \subseteq 1 .. Len(items) /\ S \subseteq Nat /\ IsFiniteSet(S)
  <2>1. S \in SUBSET (1 .. Len(items))
    BY <1>1
  <2>2. IsFiniteSet(1 .. Len(items))
    BY <1>1, FS_Interval
  <2> HIDE DEF S
  <2>3. IsFiniteSet(S)
    BY <2>1, <2>2, FS_Subset
  <2>4. S \subseteq Nat
    BY <1>1, <2>1
  <2> QED
    BY <2>1, <2>3, <2>4
<1>3. \A k \in S : items[k].text = "readonly"
  OBVIOUS
<1>4. w = items \o adv
  BY DEF WithAdvisories
<1> HIDE DEF S
<1>5. n \in Nat /\ DOMAIN denied = 1 .. n /\ \A i \in 1 .. n : denied[i] \in S
  BY <1>2, InOrderIsOrder
<1> HIDE DEF denied, n
<1>6. ASSUME NEW i \in 1 .. n
      PROVE  /\ denied[i] \in 1 .. Len(items) /\ items[denied[i]].kind = "output"
             /\ adv[i] = Output(items[denied[i]].call, items[denied[i]].esc, "advice")
             /\ adv[i] \in Items
  <2>1. denied[i] \in 1 .. Len(items) /\ items[denied[i]].text = "readonly"
    BY <1>2, <1>3, <1>5
  <2>2. items[denied[i]] \in Items /\ items[denied[i]].text # "ok"
    BY <1>1, <2>1
  <2>3. /\ items[denied[i]].kind = "output" /\ items[denied[i]].call \in Calls
        /\ items[denied[i]].esc \in BOOLEAN
    BY <2>2, ItemShape
  <2>4. adv[i] = Output(items[denied[i]].call, items[denied[i]].esc, "advice")
    BY <1>5
  <2>5. "advice" \in Texts
    BY DEF Texts
  <2> QED
    BY <2>1, <2>3, <2>4, <2>5, MadeItems
<1>7. adv \in [1 .. n -> Items]
  <2>1. DOMAIN adv = 1 .. n /\ adv = [k \in 1 .. n |-> adv[k]]
    BY <1>5
  <2> HIDE DEF adv
  <2> QED
    BY <1>6, <2>1
<1>8. adv \in Seq(Items) /\ Len(adv) = n
  <2> HIDE DEF adv
  <2> QED
    BY <1>5, <1>7, SeqDef, LenProperties
<1> HIDE DEF adv
<1>9. /\ w \in Seq(Items) /\ Len(w) = Len(items) + n
      /\ \A k \in 1 .. Len(items) + n :
           w[k] = IF k <= Len(items) THEN items[k] ELSE adv[k - Len(items)]
  <2>1. /\ items \o adv \in Seq(Items) /\ Len(items \o adv) = Len(items) + Len(adv)
        /\ \A k \in 1 .. Len(items) + Len(adv) :
             (items \o adv)[k] = IF k <= Len(items) THEN items[k] ELSE adv[k - Len(items)]
    BY <1>8, ConcatProperties
  <2> QED
    BY <1>4, <1>8, <2>1
<1>10. ASSUME NEW k \in 1 .. Len(w), k > Len(items)
       PROVE  /\ w[k].kind = "output" /\ w[k].text = "advice"
              /\ \E j \in 1 .. Len(items) :
                   /\ items[j].kind = "output"
                   /\ w[k].call = items[j].call /\ w[k].esc = items[j].esc
  <2>1. k - Len(items) \in 1 .. n /\ w[k] = adv[k - Len(items)]
    BY <1>1, <1>5, <1>9, <1>10
  <2>2. PICK j \in 1 .. Len(items) :
           /\ items[j].kind = "output"
           /\ w[k] = Output(items[j].call, items[j].esc, "advice")
    BY <1>6, <2>1
  <2>3. /\ w[k].kind = "output" /\ w[k].text = "advice"
        /\ w[k].call = items[j].call /\ w[k].esc = items[j].esc
    BY <2>2 DEF Output
  <2> QED
    BY <2>2, <2>3
<1> QED
  BY <1>1, <1>5, <1>9, <1>10

(* The tail begins with the history or with a remark in it.                *)
LEMMA TailBegins ==
  ASSUME NEW items \in Seq(Items)
  PROVE  /\ TailStart(items) \in Nat \ {0}
         /\ \/ TailStart(items) = 1
            \/ TailStart(items) \in DOMAIN items /\ items[TailStart(items)].kind = "talk"
<1> DEFINE S == {1} \cup {k \in 1 .. Len(items) - KeepRecent + 1 : items[k].kind = "talk"}
<1>1. Len(items) \in Nat /\ DOMAIN items = 1 .. Len(items) /\ KeepRecent \in Nat \ {0}
  BY ItemAt, EscalationAssumption
<1>2. CASE Len(items) <= KeepRecent
  BY <1>2 DEF TailStart
<1>3. CASE ~ (Len(items) <= KeepRecent)
  <2>1. TailStart(items) = Max(S)
    BY <1>3 DEF TailStart
  <2>2. S \subseteq 1 .. Len(items) /\ S # {}
    BY <1>1, <1>3
  <2>3. \A k \in S : k = 1 \/ items[k].kind = "talk"
    OBVIOUS
  <2> HIDE DEF S
  <2>4. S \subseteq Nat /\ \A x \in S : x <= Len(items)
    BY <1>1, <2>2
  <2>5. Max(S) \in S
    BY <1>1, <2>2, <2>4, GreatestOf
  <2>6. Max(S) \in 1 .. Len(items) /\ (Max(S) = 1 \/ items[Max(S)].kind = "talk")
    BY <2>2, <2>3, <2>5
  <2>7. Max(S) \in Nat \ {0} /\ Max(S) \in DOMAIN items
    BY <1>1, <2>6
  <2> QED
    BY <2>1, <2>6, <2>7
<1> QED
  BY <1>2, <1>3

LEMMA Microcompacted ==
  ASSUME NEW items \in Seq(Items), NEW m, m = Microcompact(items)
  PROVE  /\ m \in Seq(Items) /\ Len(m) = Len(items)
         /\ \A k \in 1 .. Len(items) :
              m[k] = IF k < TailStart(items) /\ IsOutput(items[k]) THEN Talk ELSE items[k]
<1>1. /\ Len(items) \in Nat /\ DOMAIN items = 1 .. Len(items)
      /\ \A k \in 1 .. Len(items) : items[k] \in Items
  BY ItemAt
<1>2. m = [k \in 1 .. Len(items) |->
             IF k < TailStart(items) /\ IsOutput(items[k]) THEN Talk ELSE items[k]]
  BY <1>1 DEF Microcompact
<1>3. m \in [1 .. Len(items) -> Items]
  BY <1>1, <1>2, MadeItems
<1>4. m \in Seq(Items) /\ Len(m) = Len(items)
  BY <1>1, <1>3, SeqDef, LenProperties
<1> QED
  BY <1>2, <1>4

-----------------------------------------------------------------------------
(* The history as the escalation finds it: an output in it is one of the   *)
(* history's, at its place, or an advisory for one; and what follows the   *)
(* last remark is as it was.                                               *)
PreparedOf(h, m) ==
  /\ m \in Seq(Items) /\ Len(m) >= Len(h)
  /\ \A k \in 1 .. Len(m) : m[k].kind = "output" =>
       \/ k \in 1 .. Len(h) /\ m[k] = h[k]
       \/ /\ k > Len(h) /\ m[k].text = "advice"
          /\ \E j \in 1 .. Len(h) :
               /\ h[j].kind = "output"
               /\ m[k].call = h[j].call /\ m[k].esc = h[j].esc
  /\ \A j \in 1 .. Len(h) : (\A k \in j .. Len(h) : h[k].kind # "talk")
       => \A k \in j .. Len(h) : m[k] = h[k]

LEMMA Prepared ==
  ASSUME NEW h \in Seq(Items), NEW m, m = Microcompact(WithAdvisories(h))
  PROVE  PreparedOf(h, m)
<1> DEFINE w == WithAdvisories(h)
           start == TailStart(w)
<1>1. /\ w \in Seq(Items) /\ Len(w) >= Len(h)
      /\ \A k \in 1 .. Len(h) : w[k] = h[k]
      /\ \A k \in 1 .. Len(w) : k > Len(h) =>
           /\ w[k].kind = "output" /\ w[k].text = "advice"
           /\ \E j \in 1 .. Len(h) :
                /\ h[j].kind = "output"
                /\ w[k].call = h[j].call /\ w[k].esc = h[j].esc
  BY Advised
<1>2. Len(h) \in Nat /\ Len(w) \in Nat /\ DOMAIN w = 1 .. Len(w)
  BY <1>1, ItemAt
<1>3. m = Microcompact(w)
  OBVIOUS
<1> HIDE DEF w
<1>4. /\ m \in Seq(Items) /\ Len(m) = Len(w)
      /\ \A k \in 1 .. Len(w) :
           m[k] = IF k < start /\ IsOutput(w[k]) THEN Talk ELSE w[k]
  BY <1>1, <1>3, Microcompacted
<1>5. /\ start \in Nat \ {0}
      /\ start = 1 \/ (start \in DOMAIN w /\ w[start].kind = "talk")
  BY <1>1, TailBegins
<1> HIDE DEF start
<1>6. ASSUME NEW k \in 1 .. Len(m), m[k].kind = "output"
      PROVE  \/ k \in 1 .. Len(h) /\ m[k] = h[k]
             \/ /\ k > Len(h) /\ m[k].text = "advice"
                /\ \E j \in 1 .. Len(h) :
                     /\ h[j].kind = "output"
                     /\ m[k].call = h[j].call /\ m[k].esc = h[j].esc
  <2>1. m[k] = w[k]
    BY <1>4, <1>6, MadeItems
  <2>2. CASE k <= Len(h)
    BY <1>1, <1>2, <1>4, <2>1, <2>2
  <2>3. CASE ~ (k <= Len(h))
    BY <1>1, <1>2, <1>4, <2>1, <2>3
  <2> QED
    BY <2>2, <2>3
<1>7. ASSUME NEW j \in 1 .. Len(h), \A k \in j .. Len(h) : h[k].kind # "talk",
             NEW k \in j .. Len(h)
      PROVE  m[k] = h[k]
  <2>1. start <= j
    <3> SUFFICES ASSUME ~ (start <= j) PROVE FALSE
      OBVIOUS
    <3>1. start \in 1 .. Len(w) /\ w[start].kind = "talk" /\ start > j
      BY <1>2, <1>5
    <3>2. CASE start <= Len(h)
      <4>1. start \in j .. Len(h) /\ start \in 1 .. Len(h)
        BY <1>2, <3>1, <3>2
      <4> QED
        BY <1>1, <1>7, <3>1, <4>1
    <3>3. CASE ~ (start <= Len(h))
      <4>1. start > Len(h)
        BY <1>2, <3>1, <3>3
      <4> QED
        BY <1>1, <3>1, <4>1
    <3> QED
      BY <3>2, <3>3
  <2>2. k \in 1 .. Len(h) /\ k \in 1 .. Len(w) /\ ~ (k < start)
    BY <1>1, <1>2, <1>5, <2>1
  <2> QED
    BY <1>1, <1>4, <2>2
<1> QED
  BY <1>1, <1>4, <1>6, <1>7 DEF PreparedOf

-----------------------------------------------------------------------------
LEMMA AwaitedIs ==
  ASSUME NEW items \in Seq(Items), NEW P, P \subseteq Calls, NEW c, c = Awaited(items, P)
  PROVE  /\ c # NoCall => c \in P /\ \E k \in 1 .. Len(items) :
                            /\ items[k].kind = "output" /\ items[k].esc
                            /\ items[k].call = c
         /\ c = NoCall => \A k \in 1 .. Len(items) :
                            ~ (/\ items[k].kind = "output" /\ items[k].esc
                               /\ items[k].call \in P)
<1> DEFINE I == {k \in 1 .. Len(items) : IsOutput(items[k]) /\ items[k].esc
                                           /\ items[k].call \in P}
           f == IF I # {} THEN Min(I) ELSE 0
<1>1. Len(items) \in Nat
  BY ItemAt
<1>2. c = IF f = 0 THEN NoCall ELSE items[f].call
  BY DEF Awaited, SelectInSeq
<1>3. \A k \in 1 .. Len(items) :
        k \in I <=> (items[k].kind = "output" /\ items[k].esc /\ items[k].call \in P)
  BY DEF IsOutput
<1>4. I \subseteq 1 .. Len(items)
  OBVIOUS
<1> HIDE DEF I
<1>5. I = {} => f = 0
  OBVIOUS
<1>6. I # {} => f \in I
  BY <1>1, <1>4, FirstOf
<1>7. NoCall \notin P
  BY EscalationAssumption
<1> HIDE DEF f
<1>8. CASE I = {}
  BY <1>2, <1>3, <1>5, <1>8
<1>9. CASE I # {}
  <2>1. f \in 1 .. Len(items) /\ f # 0
    <3>1. f \in 1 .. Len(items)
      BY <1>4, <1>6, <1>9
    <3> QED
      BY <1>1, <3>1
  <2>2. c = items[f].call /\ c \in P /\ items[f].kind = "output" /\ items[f].esc
    BY <1>2, <1>3, <1>6, <1>9, <2>1
  <2> QED
    BY <1>7, <2>1, <2>2
<1> QED
  BY <1>8, <1>9

LEMMA DeniedIs ==
  ASSUME NEW items \in Seq(Items), NEW c, c = Denied(items), c # NoCall
  PROVE  \E k \in 1 .. Len(items) :
           /\ items[k].kind = "output" /\ ~ items[k].esc
           /\ items[k].text \in Denials /\ items[k].call = c
<1> DEFINE I == {k \in 1 .. Len(items) :
                   /\ items[k].text \in Denials
                   /\ ~ items[k].esc
                   /\ Contains(items, Call(items[k].call, FALSE))}
           f == IF I # {} THEN Min(I) ELSE 0
<1>1. Len(items) \in Nat /\ \A k \in 1 .. Len(items) : items[k] \in Items
  BY ItemAt
<1>2. c = IF f = 0 THEN NoCall ELSE items[f].call
  BY DEF Denied, SelectInSeq
<1>3. \A k \in I : items[k].text \in Denials /\ ~ items[k].esc
  OBVIOUS
<1>4. I \subseteq 1 .. Len(items)
  OBVIOUS
<1> HIDE DEF I
<1>5. I # {} /\ f \in I
  <2>1. I # {}
    BY <1>2
  <2> QED
    BY <1>1, <1>4, <2>1, FirstOf
<1> HIDE DEF f
<1>6. /\ f \in 1 .. Len(items) /\ f # 0 /\ c = items[f].call
      /\ items[f].text \in Denials /\ ~ items[f].esc
  BY <1>1, <1>2, <1>3, <1>4, <1>5
<1>7. items[f].kind = "output"
  BY <1>1, <1>6, ItemShape DEF Denials
<1> QED
  BY <1>6, <1>7

-----------------------------------------------------------------------------
(* The outputs of the first run of a command, the items of the second, and *)
(* what it says.                                                           *)
FirstSays(i, c) == IsOutput(i) /\ Of(i, c, FALSE)
OfSecond(i, c) == Of(i, c, TRUE)
SecondSays(c, text) == Output(c, TRUE, text)

NoneBefore(items, k, c) ==
  \A j \in 1 .. Len(items) : IsOutput(items[j]) /\ OfSecond(items[j], c) => k <= j

(* What the model reads of a command after its escalation: the first       *)
(* result of a second run, in the place of the first output of the first.  *)
LEMMA Rewritten ==
  ASSUME NEW items \in Seq(Items), NEW c \in Calls, NEW r, r = Rewrite(items, c),
         \E k \in 1 .. Len(items) : items[k].kind = "output" /\ OfSecond(items[k], c)
  PROVE  /\ r \in Seq(Items)
         /\ \A i \in 1 .. Len(r) : ~ OfSecond(r[i], c)
         /\ \A i, j \in 1 .. Len(r) :
              /\ FirstSays(r[i], c)
              /\ FirstSays(r[j], c)
              => i = j
         /\ (\E k \in 1 .. Len(items) : FirstSays(items[k], c))
            => \E i \in 1 .. Len(r), k \in 1 .. Len(items) :
                 /\ FirstSays(r[i], c)
                 /\ items[k] = SecondSays(c, r[i].text)
                 /\ NoneBefore(items, k, c)
<1> DEFINE IT == {k \in 1 .. Len(items) : IsOutput(items[k]) /\ OfSecond(items[k], c)}
           IF1 == {k \in 1 .. Len(items) : FirstSays(items[k], c)}
           first == IF IT # {} THEN Min(IT) ELSE 0
           place == IF IF1 # {} THEN Min(IF1) ELSE 0
           result == items[first]
           put == [k \in DOMAIN items |->
                     IF k = place THEN [result EXCEPT !.esc = FALSE] ELSE items[k]]
           gone(i) == OfSecond(i, c) \/ (FirstSays(i, c))
           K == {k \in DOMAIN items : k = place \/ ~ gone(items[k])}
           order == InOrder(K)
           n == Cardinality(K)
<1>1. /\ Len(items) \in Nat /\ DOMAIN items = 1 .. Len(items)
      /\ \A k \in 1 .. Len(items) : items[k] \in Items
  BY ItemAt
<1>2. r = [k \in DOMAIN order |-> put[order[k]]]
  BY DEF Rewrite, SelectInSeq, FirstSays, OfSecond
<1>3. \A k \in 1 .. Len(items) : /\ k \in IT <=> IsOutput(items[k]) /\ OfSecond(items[k], c)
                                 /\ k \in IF1 <=> FirstSays(items[k], c)
  OBVIOUS
<1>4. IT \subseteq 1 .. Len(items) /\ IF1 \subseteq 1 .. Len(items)
  OBVIOUS
<1>5. IT # {}
  BY DEF IsOutput
<1> HIDE DEF IT, IF1
<1>6. first \in IT /\ \A j \in IT : first <= j
  BY <1>1, <1>4, <1>5, FirstOf
<1>7. IF1 = {} => place = 0
  OBVIOUS
<1>8. IF1 # {} => place \in IF1
  BY <1>1, <1>4, FirstOf
<1> HIDE DEF first, place
<1>9. /\ first \in 1 .. Len(items) /\ result \in Items
      /\ IsOutput(result) /\ OfSecond(result, c)
  BY <1>1, <1>3, <1>4, <1>6
<1> DEFINE new == [result EXCEPT !.esc = FALSE]
<1>10. /\ result = SecondSays(c, result.text) /\ result.text \in Texts
       /\ new = Output(c, FALSE, result.text)
  <2>1. result = Output(result.call, result.esc, result.text) /\ result.text \in Texts
    BY <1>9, ItemShape DEF IsOutput
  <2>2. result.call = c /\ result.esc = TRUE
    BY <1>9 DEF Of, OfSecond
  <2>3. result = SecondSays(c, result.text)
    BY <2>1, <2>2 DEF SecondSays
  <2> HIDE DEF result
  <2>4. /\ new \in Items /\ new.kind = "output" /\ new.esc = FALSE
        /\ new.call = result.call /\ new.text = result.text
    BY <1>9 DEF Items, IsOutput
  <2>5. new = Output(new.call, new.esc, new.text)
    BY <2>4, ItemShape
  <2> QED
    BY <2>1, <2>2, <2>3, <2>4, <2>5
<1>11. /\ new \in Items /\ FirstSays(new, c) /\ ~ OfSecond(new, c)
       /\ new.text = result.text
  <2>1. Output(c, FALSE, result.text) \in Items
    BY <1>10, MadeItems
  <2>2. LET o == Output(c, FALSE, result.text)
        IN  FirstSays(o, c) /\ ~ OfSecond(o, c) /\ o.text = result.text
    BY DEF IsOutput, Of, Output, FirstSays, OfSecond
  <2> HIDE DEF new, result
  <2> QED
    BY <1>10, <2>1, <2>2
<1>12. \A k \in 1 .. Len(items) : put[k] = IF k = place THEN new ELSE items[k]
  BY <1>1
<1>13. /\ K \subseteq 1 .. Len(items)
       /\ \A k \in K : k = place \/ ~ gone(items[k])
  BY <1>1
<1>14. place \in 1 .. Len(items) => place \in K
  BY <1>1
<1> HIDE DEF K, new, result, put
<1>15. /\ n \in Nat /\ DOMAIN order = 1 .. n
       /\ \A i \in 1 .. n : order[i] \in K
       /\ \A k \in K : \E i \in 1 .. n : order[i] = k
       /\ \A i, j \in 1 .. n : order[i] = order[j] => i = j
  <2>1. K \in SUBSET (1 .. Len(items)) /\ K \subseteq Nat
    BY <1>1, <1>13
  <2>2. IsFiniteSet(1 .. Len(items))
    BY <1>1, FS_Interval
  <2>3. IsFiniteSet(K)
    BY <2>1, <2>2, FS_Subset
  <2> QED
    BY <2>1, <2>3, InOrderIsOrder
<1> HIDE DEF n, order
<1>16. r = [k \in 1 .. n |-> put[order[k]]]
  BY <1>2, <1>15
<1>17. ASSUME NEW i \in 1 .. n
       PROVE  /\ r[i] \in Items /\ ~ OfSecond(r[i], c)
              /\ FirstSays(r[i], c) => order[i] = place
              /\ order[i] = place => r[i] = new
  <2>1. order[i] \in K /\ order[i] \in 1 .. Len(items) /\ r[i] = put[order[i]]
    BY <1>13, <1>15, <1>16
  <2>2. CASE order[i] = place
    BY <1>11, <1>12, <2>1, <2>2
  <2>3. CASE order[i] # place
    <3>1. r[i] = items[order[i]] /\ ~ gone(items[order[i]])
      BY <1>12, <1>13, <2>1, <2>3
    <3> QED
      BY <1>1, <2>1, <2>3, <3>1
  <2> QED
    BY <2>2, <2>3
<1>18. r \in Seq(Items) /\ Len(r) = n
  <2>1. r \in [1 .. n -> Items]
    BY <1>16, <1>17
  <2> QED
    BY <1>15, <2>1, SeqDef, LenProperties
<1>19. ASSUME \E k \in 1 .. Len(items) : FirstSays(items[k], c)
       PROVE  \E i \in 1 .. Len(r), k \in 1 .. Len(items) :
                 /\ FirstSays(r[i], c)
                 /\ items[k] = SecondSays(c, r[i].text)
                 /\ NoneBefore(items, k, c)
  <2>1. place \in K
    BY <1>3, <1>4, <1>8, <1>14, <1>19
  <2>2. PICK i \in 1 .. n : order[i] = place
    BY <1>15, <2>1
  <2>3. r[i] = new /\ i \in 1 .. Len(r)
    BY <1>17, <1>18, <2>2
  <2>4. FirstSays(r[i], c) /\ items[first] = SecondSays(c, r[i].text)
    BY <1>10, <1>11, <2>3 DEF result
  <2>5. \A j \in 1 .. Len(items) :
          IsOutput(items[j]) /\ OfSecond(items[j], c) => first <= j
    BY <1>3, <1>6
  <2> QED
    BY <1>9, <2>3, <2>4, <2>5 DEF NoneBefore
<1>20. ASSUME NEW i \in 1 .. Len(r), NEW j \in 1 .. Len(r),
              FirstSays(r[i], c),
              FirstSays(r[j], c)
       PROVE  i = j
  <2>1. i \in 1 .. n /\ j \in 1 .. n
    BY <1>18
  <2>2. order[i] = place /\ order[j] = place
    BY <1>17, <1>20, <2>1
  <2> QED
    BY <1>15, <2>1, <2>2
<1> QED
  BY <1>17, <1>18, <1>19, <1>20

-----------------------------------------------------------------------------
(* What the request of a command's result reads.                           *)
LEMMA ResultRead ==
  ASSUME NEW h \in Seq(Items), RerunsFollow(h), NEW P, P \subseteq Calls,
         NEW m, m = Microcompact(WithAdvisories(h)),
         NEW c, c = Awaited(m, P), c # NoCall, NEW r, r = Rewrite(m, c)
  PROVE  /\ r \in Seq(Items)
         /\ \A k \in DOMAIN r : ~ OfSecond(r[k], c)
         /\ \A j, k \in DOMAIN r :
              /\ FirstSays(r[j], c)
              /\ FirstSays(r[k], c)
              => j = k
         /\ Unspoken(h, c) => \E k \in DOMAIN r :
              /\ FirstSays(r[k], c)
              /\ Contains(h, SecondSays(c, r[k].text))
<1>0. PreparedOf(h, m)
  BY Prepared
<1>1. /\ m \in Seq(Items) /\ Len(m) >= Len(h)
      /\ \A k \in 1 .. Len(m) : m[k].kind = "output" =>
           \/ k \in 1 .. Len(h) /\ m[k] = h[k]
           \/ /\ k > Len(h) /\ m[k].text = "advice"
              /\ \E j \in 1 .. Len(h) :
                   /\ h[j].kind = "output"
                   /\ m[k].call = h[j].call /\ m[k].esc = h[j].esc
      /\ \A j \in 1 .. Len(h) : (\A k \in j .. Len(h) : h[k].kind # "talk")
           => \A k \in j .. Len(h) : m[k] = h[k]
  BY <1>0 DEF PreparedOf
<1>2. /\ Len(h) \in Nat /\ DOMAIN h = 1 .. Len(h) /\ Len(m) \in Nat
      /\ \A k \in 1 .. Len(m) : m[k] \in Items
      /\ \A k \in 1 .. Len(h) : h[k] \in Items
  BY <1>1, ItemAt
<1>3. PICK a \in 1 .. Len(m) : m[a].kind = "output" /\ m[a].esc /\ m[a].call = c
  BY <1>1, AwaitedIs
<1>4. c \in P /\ c \in Calls
  BY <1>1, AwaitedIs
<1>5. m[a].kind = "output" /\ OfSecond(m[a], c)
  BY <1>2, <1>3, ItemShape DEF Of, FirstSays, OfSecond, SecondSays
<1>6. m \in Seq(Items) /\ \E k \in 1 .. Len(m) : m[k].kind = "output" /\ OfSecond(m[k], c)
  BY <1>1, <1>5
<1>7. /\ r \in Seq(Items)
      /\ \A i \in 1 .. Len(r) : ~ OfSecond(r[i], c)
      /\ \A i, j \in 1 .. Len(r) :
           /\ FirstSays(r[i], c)
           /\ FirstSays(r[j], c)
           => i = j
      /\ (\E k \in 1 .. Len(m) : FirstSays(m[k], c))
         => \E i \in 1 .. Len(r), k \in 1 .. Len(m) :
              /\ FirstSays(r[i], c)
              /\ m[k] = SecondSays(c, r[i].text)
              /\ NoneBefore(m, k, c)
  <2>1. r = Rewrite(m, c)
    OBVIOUS
  <2> QED
    BY <1>4, <1>6, <2>1, Rewritten
<1>8. DOMAIN r = 1 .. Len(r)
  BY <1>7, ItemAt
<1>9. ASSUME Unspoken(h, c)
      PROVE  \E k \in DOMAIN r :
              /\ FirstSays(r[k], c)
              /\ Contains(h, SecondSays(c, r[k].text))
  <2>1. PICK j \in 1 .. Len(h) : h[j].kind = "output" /\ h[j].call = c /\ h[j].esc
    BY <1>1, <1>3
  <2>2. PICK i \in 1 .. j - 1 : FirstSays(h[i], c)
    BY <1>2, <2>1 DEF RerunsFollow, IsOutput, FirstSays, OfSecond, SecondSays, Of
  <2>3. i \in 1 .. Len(h) /\ j \in i .. Len(h)
    BY <1>2, <2>2
  <2>4. \A k \in i .. Len(h) : h[k].kind # "talk"
    BY <1>2, <1>9, <2>2, <2>3 DEF Unspoken, FirstSays, OfSecond, SecondSays, Of
  <2>5. m[i] = h[i] /\ m[j] = h[j]
    BY <1>1, <1>2, <2>3, <2>4
  <2>6. i \in 1 .. Len(m) /\ j \in 1 .. Len(m)
    BY <1>1, <1>2, <2>3
  <2>7. IsOutput(m[j]) /\ OfSecond(m[j], c)
    BY <1>2, <2>1, <2>5, ItemShape DEF IsOutput, Of, FirstSays, OfSecond, SecondSays
  <2>8. PICK k \in 1 .. Len(r), f \in 1 .. Len(m) :
          /\ FirstSays(r[k], c)
          /\ m[f] = SecondSays(c, r[k].text)
          /\ NoneBefore(m, f, c)
    BY <1>7, <2>2, <2>5, <2>6
  <2>9. f <= j
    BY <2>6, <2>7, <2>8 DEF NoneBefore
  <2>10. m[f].kind = "output"
    BY <2>8 DEF Output, FirstSays, OfSecond, SecondSays, Of
  <2>11. f \in 1 .. Len(h)
    BY <1>2, <2>9
  <2>12. m[f] = h[f]
    BY <1>1, <1>2, <2>10, <2>11
  <2> QED
    BY <1>8, <2>8, <2>11, <2>12 DEF Contains
<1> QED
  <2>1. \A k \in DOMAIN r : ~ OfSecond(r[k], c)
    BY <1>7, <1>8
  <2>2. ASSUME NEW j \in DOMAIN r, NEW k \in DOMAIN r,
               FirstSays(r[j], c),
               FirstSays(r[k], c)
        PROVE  j = k
    BY <1>7, <1>8, <2>2 DEF IsOutput, Of
  <2> QED
    BY <1>7, <1>9, <2>1, <2>2

(* What is sent back is a command that the history has been told of.       *)
LEMMA DeniedInHistory ==
  ASSUME NEW h \in Seq(Items), NEW c,
         c = Denied(Microcompact(WithAdvisories(h))), c # NoCall
  PROVE  c \in Calls /\ \E k \in DOMAIN h : FirstSays(h[k], c)
<1> DEFINE m == Microcompact(WithAdvisories(h))
<1>1. /\ m \in Seq(Items) /\ Len(m) >= Len(h)
      /\ \A k \in 1 .. Len(m) : m[k].kind = "output" =>
           \/ k \in 1 .. Len(h) /\ m[k] = h[k]
           \/ k > Len(h) /\ m[k].text = "advice"
  BY Prepared DEF PreparedOf
<1>2. c = Denied(m)
  OBVIOUS
<1> HIDE DEF m
<1>3. PICK k \in 1 .. Len(m) :
           /\ m[k].kind = "output" /\ ~ m[k].esc
           /\ m[k].text \in Denials /\ m[k].call = c
  BY <1>1, <1>2, DeniedIs
<1>4. k \in 1 .. Len(h) /\ m[k] = h[k]
  BY <1>1, <1>3 DEF Denials
<1>5. DOMAIN h = 1 .. Len(h) /\ h[k] \in Items
  BY <1>4, ItemAt
<1> QED
  BY <1>3, <1>4, <1>5, ItemShape DEF IsOutput, Of, FirstSays, OfSecond, SecondSays

(* A result that the client has just told is the one that is awaited, or   *)
(* one before it is.                                                       *)
LEMMA LastIsAwaited ==
  ASSUME NEW h \in Seq(Items), NEW P, P \subseteq Calls, h # <<>>,
         IsOutput(h[Len(h)]), h[Len(h)].esc, h[Len(h)].call \in P
  PROVE  Awaited(Microcompact(WithAdvisories(h)), P) # NoCall
<1> DEFINE m == Microcompact(WithAdvisories(h))
<1>1. /\ m \in Seq(Items) /\ Len(m) >= Len(h)
      /\ \A j \in 1 .. Len(h) : (\A k \in j .. Len(h) : h[k].kind # "talk")
           => \A k \in j .. Len(h) : m[k] = h[k]
  BY Prepared DEF PreparedOf
<1> HIDE DEF m
<1>2. Len(h) \in Nat /\ Len(h) # 0 /\ Len(m) \in Nat
  BY <1>1, EmptySeq, LenProperties
<1>3. m[Len(h)] = h[Len(h)]
  <2>1. Len(h) \in 1 .. Len(h) /\ \A k \in Len(h) .. Len(h) : k = Len(h)
    BY <1>2
  <2> QED
    BY <1>1, <2>1 DEF IsOutput
<1>4. Len(h) \in 1 .. Len(m)
  BY <1>1, <1>2
<1>5. Awaited(m, P) # NoCall
  BY <1>1, <1>3, <1>4, AwaitedIs DEF IsOutput
<1> QED
  BY <1>5 DEF m

(* The call that is awaited is one of the history's.                       *)
LEMMA AwaitedInHistory ==
  ASSUME NEW h \in Seq(Items), NEW P, P \subseteq Calls, NEW c,
         c = Awaited(Microcompact(WithAdvisories(h)), P), c # NoCall
  PROVE  c \in P /\ \E k \in DOMAIN h : h[k].kind # "talk" /\ h[k].call = c
<1> DEFINE m == Microcompact(WithAdvisories(h))
<1>1. /\ m \in Seq(Items)
      /\ \A k \in 1 .. Len(m) : m[k].kind = "output" =>
           \E j \in 1 .. Len(h) : h[j].kind = "output" /\ m[k].call = h[j].call
  BY Prepared DEF PreparedOf
<1>2. c = Awaited(m, P)
  OBVIOUS
<1> HIDE DEF m
<1>3. c \in P /\ \E k \in 1 .. Len(m) : m[k].kind = "output" /\ m[k].call = c
  BY <1>1, <1>2, AwaitedIs
<1>4. DOMAIN h = 1 .. Len(h)
  BY ItemAt
<1> QED
  BY <1>1, <1>3, <1>4

-----------------------------------------------------------------------------
(* A history goes on: with calls of its own, and with results of a second  *)
(* run of what it has a result of.                                         *)
LEMMA GoesOn ==
  ASSUME NEW h \in Seq(Items), NEW more \in Seq(Items), NEW own,
         OfCalls(h, own), RerunsFollow(h), OfCalls(more, own),
         \A k \in 1 .. Len(more) : IsOutput(more[k]) /\ more[k].esc
           => \E j \in 1 .. Len(h) : FirstSays(h[j], more[k].call)
  PROVE  /\ h \o more \in Seq(Items)
         /\ OfCalls(h \o more, own) /\ RerunsFollow(h \o more)
<1> DEFINE a == h \o more
<1>1. /\ Len(h) \in Nat /\ DOMAIN h = 1 .. Len(h)
      /\ Len(more) \in Nat /\ DOMAIN more = 1 .. Len(more)
  BY ItemAt
<1>2. /\ a \in Seq(Items) /\ Len(a) = Len(h) + Len(more)
      /\ \A k \in 1 .. Len(h) + Len(more) :
           a[k] = IF k <= Len(h) THEN h[k] ELSE more[k - Len(h)]
  BY ConcatProperties
<1> HIDE DEF a
<1>3. DOMAIN a = 1 .. Len(h) + Len(more)
  BY <1>2, ItemAt
<1>4. ASSUME NEW k \in DOMAIN a
      PROVE  /\ a[k].kind # "talk" => a[k].call \in own
             /\ IsOutput(a[k]) /\ a[k].esc
                => \E j \in 1 .. k - 1 : IsOutput(a[j]) /\ Of(a[j], a[k].call, FALSE)
  <2>1. CASE k <= Len(h)
    <3>1. k \in DOMAIN h /\ a[k] = h[k]
      BY <1>1, <1>2, <1>3, <2>1
    <3>2. \A j \in 1 .. k - 1 : a[j] = h[j]
      BY <1>1, <1>2, <1>3, <2>1
    <3>3. a[k].kind # "talk" => a[k].call \in own
      BY <3>1 DEF OfCalls
    <3>4. ASSUME IsOutput(a[k]) /\ a[k].esc
          PROVE  \E j \in 1 .. k - 1 : IsOutput(a[j]) /\ Of(a[j], a[k].call, FALSE)
      <4>1. PICK j \in 1 .. k - 1 : IsOutput(h[j]) /\ Of(h[j], h[k].call, FALSE)
        BY <3>1, <3>4 DEF RerunsFollow
      <4>2. IsOutput(a[j]) /\ Of(a[j], a[k].call, FALSE)
        BY <3>1, <3>2, <4>1 DEF Of, IsOutput
      <4> QED
        BY <4>2
    <3> QED
      BY <3>3, <3>4
  <2>2. CASE ~ (k <= Len(h))
    <3>1. k - Len(h) \in 1 .. Len(more) /\ a[k] = more[k - Len(h)]
      BY <1>1, <1>2, <1>3, <2>2
    <3>2. a[k].kind # "talk" => a[k].call \in own
      BY <1>1, <3>1 DEF OfCalls
    <3>3. ASSUME IsOutput(a[k]) /\ a[k].esc
          PROVE  \E j \in 1 .. k - 1 : IsOutput(a[j]) /\ Of(a[j], a[k].call, FALSE)
      <4>1. PICK j \in 1 .. Len(h) : FirstSays(h[j], a[k].call)
        BY <3>1, <3>3
      <4>2. j \in 1 .. k - 1 /\ a[j] = h[j]
        BY <1>1, <1>2, <1>3, <2>2
      <4>3. IsOutput(a[j]) /\ Of(a[j], a[k].call, FALSE)
        BY <4>1, <4>2 DEF FirstSays, Of, IsOutput
      <4> QED
        BY <4>2, <4>3
    <3> QED
      BY <3>2, <3>3
  <2> QED
    BY <2>1, <2>2
<1>5. OfCalls(a, own) /\ RerunsFollow(a)
  BY <1>4 DEF OfCalls, RerunsFollow
<1> QED
  BY <1>2, <1>5 DEF a

LEMMA OneRemark ==
  ASSUME NEW own
  PROVE  /\ <<Talk>> \in Seq(Items) /\ OfCalls(<<Talk>>, own) /\ RerunsFollow(<<Talk>>)
         /\ Len(<<Talk>>) = 1 /\ \A k \in 1 .. Len(<<Talk>>) : ~ IsOutput(<<Talk>>[k])
<1>1. Talk \in Items
  BY MadeItems
<1>2. <<Talk>> \in Seq(Items) /\ Len(<<Talk>>) = 1 /\ <<Talk>>[1] = Talk
  BY <1>1
<1>3. \A k \in 1 .. Len(<<Talk>>) : <<Talk>>[k].kind = "talk"
  BY <1>2, MadeItems
<1> HIDE DEF Talk
<1>4. DOMAIN <<Talk>> = 1 .. Len(<<Talk>>)
  BY <1>2, ItemAt
<1> QED
  BY <1>2, <1>3, <1>4 DEF OfCalls, RerunsFollow, IsOutput

(* The second run of a command.                                            *)
LEMMA SecondRun ==
  ASSUME NEW own, own \subseteq Calls, NEW c \in own, NEW text \in Texts
  PROVE  LET s == <<Call(c, TRUE), Output(c, TRUE, text)>>
         IN  /\ s \in Seq(Items) /\ OfCalls(s, own) /\ Len(s) = 2
             /\ \A k \in 1 .. Len(s) : s[k].call = c
             /\ IsOutput(s[2]) /\ s[2].esc
<1> DEFINE a == Call(c, TRUE)
           b == Output(c, TRUE, text)
           s == <<a, b>>
<1>1. /\ a \in Items /\ a.call = c
      /\ b \in Items /\ b.call = c /\ IsOutput(b) /\ b.esc
  BY DEF Call, Output, Items, IsOutput
<1> HIDE DEF a, b
<1>2. s \in Seq(Items) /\ Len(s) = 2 /\ s[1] = a /\ s[2] = b
  BY <1>1
<1> HIDE DEF s
<1>3. \A k \in 1 .. Len(s) : k = 1 \/ k = 2
  BY <1>2
<1>4. \A k \in 1 .. Len(s) : s[k].call = c
  BY <1>1, <1>2, <1>3
<1>5. DOMAIN s = 1 .. Len(s)
  BY <1>2, ItemAt
<1>6. OfCalls(s, own)
  BY <1>4, <1>5 DEF OfCalls
<1> QED
  BY <1>1, <1>2, <1>4, <1>6 DEF s, a, b

LEMMA AsSequence ==
  ASSUME NEW S, IsFiniteSet(S), NEW s, s = SetToSeq(S)
  PROVE  Cardinality(S) \in Nat /\ s \in [1 .. Cardinality(S) -> S]
<1>1. Cardinality(S) \in Nat /\ ExistsBijection(1 .. Cardinality(S), S)
  BY FS_CardinalityType
<1>2. PICK f : f \in Bijection(1 .. Cardinality(S), S)
  BY <1>1, Fun_ExistsBij
<1>3. f \in [1 .. Cardinality(S) -> S] /\ IsInjective(f)
  BY <1>2 DEF Bijection, Injection, IsInjective
<1>4. \E g \in [1 .. Cardinality(S) -> S] : IsInjective(g)
  BY <1>3
<1> QED
  BY <1>1, <1>4 DEF SetToSeq

LEMMA OneAfterOther ==
  ASSUME NEW own, NEW a \in Seq(Items), NEW b \in Seq(Items),
         OfCalls(a, own), OfCalls(b, own),
         \A i \in 1 .. Len(a) : ~ a[i].esc, \A i \in 1 .. Len(b) : ~ b[i].esc
  PROVE  /\ a \o b \in Seq(Items) /\ OfCalls(a \o b, own)
         /\ \A i \in 1 .. Len(a \o b) : ~ (a \o b)[i].esc
<1> DEFINE s == a \o b
<1>1. /\ Len(a) \in Nat /\ DOMAIN a = 1 .. Len(a)
      /\ Len(b) \in Nat /\ DOMAIN b = 1 .. Len(b)
  BY ItemAt
<1>2. /\ s \in Seq(Items) /\ Len(s) = Len(a) + Len(b)
      /\ \A i \in 1 .. Len(a) + Len(b) :
           s[i] = IF i <= Len(a) THEN a[i] ELSE b[i - Len(a)]
  BY ConcatProperties
<1> HIDE DEF s
<1>3. DOMAIN s = 1 .. Len(s)
  BY <1>2, ItemAt
<1>4. ASSUME NEW i \in 1 .. Len(s)
      PROVE  \/ \E j \in DOMAIN a : s[i] = a[j]
             \/ \E j \in DOMAIN b : s[i] = b[j]
  <2>1. CASE i <= Len(a)
    BY <1>1, <1>2, <2>1
  <2>2. CASE ~ (i <= Len(a))
    <3>1. i - Len(a) \in DOMAIN b /\ s[i] = b[i - Len(a)]
      BY <1>1, <1>2, <2>2
    <3> QED
      BY <3>1
  <2> QED
    BY <2>1, <2>2
<1>5. OfCalls(s, own) /\ \A i \in 1 .. Len(s) : ~ s[i].esc
  BY <1>1, <1>3, <1>4 DEF OfCalls
<1> QED
  BY <1>2, <1>5 DEF s

(* The commands of an answer: their calls, and what their first runs say.  *)
LEMMA FirstRuns ==
  ASSUME NEW own, own \subseteq Calls, NEW new \in SUBSET own, IsFiniteSet(new),
         NEW text \in [new -> Texts]
  PROVE  LET k == SetToSeq(new)
             s == [i \in DOMAIN k |-> Call(k[i], FALSE)]
                    \o [i \in DOMAIN k |-> Output(k[i], FALSE, text[k[i]])]
         IN  /\ s \in Seq(Items) /\ OfCalls(s, own)
             /\ \A i \in 1 .. Len(s) : ~ s[i].esc
<1> DEFINE k == SetToSeq(new)
           a == [i \in DOMAIN k |-> Call(k[i], FALSE)]
           b == [i \in DOMAIN k |-> Output(k[i], FALSE, text[k[i]])]
           n == Cardinality(new)
           fine(i) == i \in Items /\ i.call \in own /\ ~ i.esc
<1>1. n \in Nat /\ DOMAIN k = 1 .. n /\ \A i \in 1 .. n : k[i] \in new
  <2>1. n \in Nat /\ k \in [1 .. n -> new]
    BY AsSequence
  <2> HIDE DEF n
  <2> QED
    BY <2>1
<1>3. \A c \in own, t \in Texts : fine(Call(c, FALSE)) /\ fine(Output(c, FALSE, t))
  BY DEF Call, Output, Items
<1> HIDE DEF fine
<1>4. DOMAIN a = 1 .. n /\ \A i \in 1 .. n : fine(a[i])
  BY <1>1, <1>3
<1>5. DOMAIN b = 1 .. n /\ \A i \in 1 .. n : fine(b[i])
  BY <1>1, <1>3
<1>6. a = [i \in 1 .. n |-> a[i]] /\ b = [i \in 1 .. n |-> b[i]]
  BY <1>1
<1> HIDE DEF a, b, n
<1>7. a \in [1 .. n -> Items] /\ b \in [1 .. n -> Items]
  BY <1>4, <1>5, <1>6 DEF fine
<1>8. a \in Seq(Items) /\ b \in Seq(Items) /\ Len(a) = n /\ Len(b) = n
  BY <1>1, <1>7, SeqDef, LenProperties
<1>9. /\ DOMAIN a = 1 .. Len(a) /\ DOMAIN b = 1 .. Len(b)
  BY <1>8, ItemAt
<1>10. OfCalls(a, own) /\ OfCalls(b, own)
  BY <1>4, <1>5 DEF OfCalls, fine
<1>11. /\ \A i \in 1 .. Len(a) : ~ a[i].esc
       /\ \A i \in 1 .. Len(b) : ~ b[i].esc
  BY <1>4, <1>5, <1>8 DEF fine
<1>12. /\ a \o b \in Seq(Items) /\ OfCalls(a \o b, own)
       /\ \A i \in 1 .. Len(a \o b) : ~ (a \o b)[i].esc
  BY <1>8, <1>10, <1>11, OneAfterOther
<1> QED
  BY <1>12 DEF a, b

-----------------------------------------------------------------------------
(* The rounds of a client.                                                 *)

(* How a thread moves, but for the preparation: it waits on with what it   *)
(* has been sent, it goes on to serve what has been prepared, or it ends,  *)
(* not with an escalation.                                                 *)
Before == {"startup", "queued", "assess", "held", "waiting", "prepare"}

WaitsOn(o, l) ==
  /\ o.at \in Before /\ l.at \in Before \cup {"through"}
  /\ l.items = o.items /\ l.gone = o.gone

ServesOn(o, l) ==
  /\ o.at \in {"budget", "serve"} /\ l.at = "serve"
  /\ l.items = o.items /\ l.gone = o.gone /\ l.fixed = o.fixed

Ends(o, l) ==
  IF o.gone THEN l = Idle
  ELSE l.at = "ended" /\ ~ l.gone /\ l.got # "escalation"

MovesOn(t) ==
  /\ th[t].at \notin {"free", "ended"}
  /\ \E l \in Locals : /\ th' = [th EXCEPT ![t] = l]
                       /\ WaitsOn(th[t], l) \/ ServesOn(th[t], l) \/ Ends(th[t], l)

ThreadsTyped == th \in [Threads -> Locals]

LEMMA IdleLocal == Idle \in Locals
<1>1. MaxHops \in Nat \ {0}
  BY GateAssumption DEF GateAssumption
<1>2. 0 \in 0 .. MaxHops - 1
  BY <1>1
<1>3. <<>> \in Seq(Items)
  OBVIOUS
<1> QED
  BY <1>2, <1>3 DEF Idle, Locals, Places, Answers

LEMMA EndedLocal ==
  ASSUME NEW o \in Locals, NEW answer \in Answers
  PROVE  /\ Ended(o, answer) \in Locals
         /\ answer # "escalation" => Ends(o, Ended(o, answer))
         /\ ~ o.gone => /\ Ended(o, answer).at = "ended" /\ ~ Ended(o, answer).gone
                        /\ Ended(o, answer).got = answer
                        /\ Ended(o, answer).fixed = o.fixed
<1>1. CASE o.gone
  BY <1>1, IdleLocal DEF Ended, Ends
<1>2. CASE ~ o.gone
  <2> DEFINE e == [o EXCEPT !.at = "ended", !.got = answer, !.items = <<>>, !.hop = 0]
  <2>1. <<>> \in Seq(Items) /\ 0 \in 0 .. MaxHops - 1
    BY IdleLocal, GateAssumption DEF GateAssumption
  <2>2. e \in Locals
    BY <2>1 DEF Locals, Places
  <2>3. e.at = "ended" /\ e.got = answer /\ e.gone = o.gone /\ e.fixed = o.fixed
    BY DEF Locals
  <2>4. Ended(o, answer) = e
    BY <1>2 DEF Ended
  <2> HIDE DEF e
  <2> QED
    BY <1>2, <2>2, <2>3, <2>4 DEF Ends
<1> QED
  BY <1>1, <1>2

LEMMA WithJsonLocal ==
  ASSUME NEW o \in Locals, NEW answer \in Answers
  PROVE  /\ WithJson(o, answer) \in Locals
         /\ answer # "escalation" => Ends(o, WithJson(o, answer))
<1> DEFINE h == [o EXCEPT !.head = IF @ = "sse" THEN "mixed" ELSE "json"]
<1>1. h \in Locals /\ h.gone = o.gone
  BY DEF Locals
<1>2. WithJson(o, answer) = Ended(h, answer)
  BY DEF WithJson
<1> HIDE DEF h
<1> QED
  BY <1>1, <1>2, EndedLocal DEF Ends

-----------------------------------------------------------------------------
LEMMA ToMovesOn ==
  ASSUME ThreadsTyped, NEW t \in Threads, NEW place \in Before \cup {"through"},
         To(t, place), th[t].at \in Before
  PROVE  MovesOn(t)
<1> DEFINE l == [th[t] EXCEPT !.at = place]
<1>1. th[t] \in Locals
  BY DEF ThreadsTyped
<1>2. l \in Locals /\ l.at = place /\ l.items = th[t].items /\ l.gone = th[t].gone
  BY <1>1 DEF Locals, Places, Before
<1>3. th' = [th EXCEPT ![t] = l]
  BY DEF To
<1> HIDE DEF l
<1>4. WaitsOn(th[t], l)
  BY <1>2 DEF WaitsOn
<1> QED
  BY <1>2, <1>3, <1>4 DEF MovesOn, Before

LEMMA WaitsMovesOn ==
  ASSUME ThreadsTyped, NEW t \in Threads, Waits(t), th[t].at \in Before
  PROVE  MovesOn(t)
<1> DEFINE p == IF StreamOf(t) THEN "held" ELSE "waiting"
           a == [th[t] EXCEPT !.at = p]
           h == IF StreamOf(t) THEN "sse" ELSE a.head
           l == [a EXCEPT !.head = h]
<1>1. th[t] \in Locals /\ t \in DOMAIN th
  BY DEF ThreadsTyped
<1>2. /\ a \in Locals /\ a.at \in {"held", "waiting"}
      /\ a.items = th[t].items /\ a.gone = th[t].gone
  BY <1>1 DEF Locals, Places
<1>3. th' = [th EXCEPT ![t] = l]
  BY <1>1 DEF Waits
<1> HIDE DEF a
<1>4. /\ l \in Locals /\ l.at = a.at
      /\ l.items = a.items /\ l.gone = a.gone
  BY <1>2 DEF Locals
<1> HIDE DEF l
<1>5. WaitsOn(th[t], l)
  BY <1>2, <1>4 DEF WaitsOn, Before
<1> QED
  BY <1>3, <1>4, <1>5 DEF MovesOn, Before

LEMMA EndsMovesOn ==
  ASSUME ThreadsTyped, NEW t \in Threads, NEW answer \in Answers \ {"escalation"},
         EndsJson(t, answer) \/ th' = [th EXCEPT ![t] = Ended(@, answer)],
         th[t].at \notin {"free", "ended"}
  PROVE  MovesOn(t)
<1>1. th[t] \in Locals
  BY DEF ThreadsTyped
<1>2. CASE EndsJson(t, answer)
  <2>1. th' = [th EXCEPT ![t] = WithJson(th[t], answer)]
    BY <1>2 DEF EndsJson
  <2> QED
    BY <1>1, <2>1, WithJsonLocal DEF MovesOn
<1>3. CASE th' = [th EXCEPT ![t] = Ended(@, answer)]
  <2>1. th' = [th EXCEPT ![t] = Ended(th[t], answer)]
    BY <1>3
  <2> QED
    BY <1>1, <2>1, EndedLocal DEF MovesOn
<1> QED
  BY <1>2, <1>3

LEMMA AnswersAre ==
  {"nothing", "failed", "refusal", "compacted", "served", "said", "cut"}
    \subseteq Answers \ {"escalation"}
  BY DEF Answers

LEMMA FailsMovesOn ==
  ASSUME ThreadsTyped, NEW t \in Threads, EndsFailed(t) \/ Raises(t),
         th[t].at \notin {"free", "ended"}
  PROVE  MovesOn(t)
  BY AnswersAre, EndsMovesOn DEF EndsFailed, Raises

LEMMA WaitingMovesOn ==
  ASSUME ThreadsTyped, NEW t \in Threads,
         AwaitStartup(t) \/ Admit(t) \/ Assess(t) \/ AwaitModel(t)
  PROVE  MovesOn(t)
<1>1. th[t].at \in Before /\ th[t].at \notin {"free", "ended"}
  BY DEF AwaitStartup, Admit, Assess, AwaitModel, Before
<1>2. \/ To(t, "queued") \/ To(t, "assess") \/ To(t, "through") \/ To(t, "prepare")
      \/ EndsFailed(t) \/ Raises(t) \/ Waits(t) \/ EndsJson(t, "refusal")
  BY DEF AwaitStartup, Admit, Assess, AwaitModel
<1>3. {"queued", "assess", "through", "prepare"} \subseteq Before \cup {"through"}
  BY DEF Before
<1> QED
  BY <1>1, <1>2, <1>3, ToMovesOn, FailsMovesOn, WaitsMovesOn, EndsMovesOn, AnswersAre

LEMMA BeginMovesOn ==
  ASSUME ThreadsTyped, NEW t \in Threads, Begin(t)
  PROVE  MovesOn(t)
<1> DEFINE a == [th[t] EXCEPT !.at = "serve"]
           h == IF StreamOf(t) THEN "sse" ELSE a.head
           l == [a EXCEPT !.head = h]
<1>0. th[t].at = "budget"
  BY DEF Begin
<1>1. CASE Raises(t)
  BY <1>0, <1>1, FailsMovesOn
<1>2. CASE th' = [th EXCEPT ![t].at = "serve",
                            ![t].head = IF StreamOf(t) THEN "sse" ELSE @]
  <2>1. th[t] \in Locals /\ t \in DOMAIN th
    BY DEF ThreadsTyped
  <2>2. th' = [th EXCEPT ![t] = l]
    BY <1>2, <2>1
  <2>3. /\ a \in Locals /\ a.at = "serve"
        /\ a.items = th[t].items /\ a.gone = th[t].gone /\ a.fixed = th[t].fixed
    BY <2>1 DEF Locals, Places
  <2> HIDE DEF a
  <2>4. /\ l \in Locals /\ l.at = a.at
        /\ l.items = a.items /\ l.gone = a.gone /\ l.fixed = a.fixed
    BY <2>3 DEF Locals
  <2> HIDE DEF l
  <2>5. ServesOn(th[t], l)
    BY <1>0, <2>3, <2>4 DEF ServesOn
  <2> QED
    BY <1>0, <2>2, <2>4, <2>5 DEF MovesOn
<1> QED
  BY <1>1, <1>2 DEF Begin

LEMMA RetryMovesOn ==
  ASSUME ThreadsTyped, NEW t \in Threads, NEW run \in {"broken", "retry"},
         th[t].at = "serve", th' = [th EXCEPT ![t].run = run]
  PROVE  MovesOn(t)
<1> DEFINE l == [th[t] EXCEPT !.run = run]
<1>1. th[t] \in Locals
  BY DEF ThreadsTyped
<1>2. /\ l \in Locals /\ l.at = th[t].at
      /\ l.items = th[t].items /\ l.gone = th[t].gone /\ l.fixed = th[t].fixed
  BY <1>1 DEF Locals
<1>3. th' = [th EXCEPT ![t] = l]
  OBVIOUS
<1> HIDE DEF l
<1>4. ServesOn(th[t], l)
  BY <1>2 DEF ServesOn
<1> QED
  BY <1>2, <1>3, <1>4 DEF MovesOn

LEMMA ServingMovesOn ==
  ASSUME ThreadsTyped, NEW t \in Threads,
         ServeStream(t) \/ ServePlain(t) \/ Compact(t) \/ Through(t)
  PROVE  MovesOn(t)
<1> DEFINE l == [th[t] EXCEPT !.hop = th[t].hop + 1]
<1>0. th[t].at \in {"serve", "budget", "through"}
  BY DEF ServeStream, ServePlain, Compact, Through, Unreachable, Forwarded
<1>1. \/ \E answer \in {"served", "failed", "cut"} :
              th' = [th EXCEPT ![t] = Ended(@, answer)]
      \/ \E answer \in {"said", "served", "refusal", "compacted"} : EndsJson(t, answer)
      \/ /\ th[t].at = "serve" /\ th[t].hop # MaxHops - 1
         /\ th' = [th EXCEPT ![t] = l]
  <2>1. CASE ServeStream(t)
    BY <2>1 DEF ServeStream, StreamEnds, StreamUnwinds, EndsFailed
  <2>2. CASE ServePlain(t)
    <3>1. HopPlain(t) \/ EndsJson(t, "refusal")
      BY <2>2 DEF ServePlain
    <3>2. CASE HopPlain(t)
      <4>1. \/ th[t].hop # MaxHops - 1 /\ th' = [th EXCEPT ![t].hop = @ + 1]
            \/ EndsJson(t, "said") \/ EndsJson(t, "served")
        BY <3>2 DEF HopPlain
      <4>2. th' = [th EXCEPT ![t].hop = @ + 1] => th' = [th EXCEPT ![t] = l]
        OBVIOUS
      <4> HIDE DEF l
      <4> QED
        BY <2>2, <4>1, <4>2 DEF ServePlain
    <3> QED
      BY <3>1, <3>2
  <2>3. CASE Compact(t)
    BY <2>3 DEF Compact
  <2>4. CASE Through(t)
    BY <2>4 DEF Through, Unreachable, Forwarded
  <2> QED
    BY <2>1, <2>2, <2>3, <2>4
<1>2. CASE /\ th[t].at = "serve" /\ th[t].hop # MaxHops - 1
           /\ th' = [th EXCEPT ![t] = l]
  <2>1. th[t] \in Locals /\ MaxHops \in Nat \ {0}
    BY GateAssumption DEF ThreadsTyped, GateAssumption
  <2>2. th[t].hop \in 0 .. MaxHops - 1
    BY <2>1 DEF Locals
  <2>3. th[t].hop + 1 \in 0 .. MaxHops - 1
    BY <1>2, <2>1, <2>2
  <2>4. /\ l \in Locals /\ l.at = th[t].at
        /\ l.items = th[t].items /\ l.gone = th[t].gone /\ l.fixed = th[t].fixed
    BY <2>1, <2>3 DEF Locals
  <2> HIDE DEF l
  <2>5. ServesOn(th[t], l)
    BY <1>2, <2>4 DEF ServesOn
  <2> QED
    BY <1>2, <2>4, <2>5 DEF MovesOn
<1>3. th[t].at \notin {"free", "ended"}
  BY <1>0
<1> HIDE DEF l
<1> QED
  BY <1>1, <1>2, <1>3, AnswersAre, EndsMovesOn

-----------------------------------------------------------------------------
Mine(c) == {t \in Threads : Owner[t] = c}

History(items, c) == OfCalls(items, OwnCalls[c]) /\ RerunsFollow(items)

HasRun(items, k) == \E i \in DOMAIN items : FirstSays(items[i], k)

Live(l) == l.at # "free" /\ ~ l.gone

Escalated(l) == l.at = "ended" /\ l.got = "escalation"

ComesBack(cl, P) ==
  LET last == cl.items[Len(cl.items)]
  IN  cl.items # <<>> /\ IsOutput(last) /\ last.esc /\ last.call \in P

(* The history of a request that is resolved, as its client told it.       *)
Resolved(l, told) ==
  /\ \A k \in DOMAIN l.items : ~ OfSecond(l.items[k], l.fixed)
  /\ \A j, k \in DOMAIN l.items :
       FirstSays(l.items[j], l.fixed) /\ FirstSays(l.items[k], l.fixed) => j = k
  /\ ~ l.gone /\ Unspoken(told, l.fixed)
     => \E k \in DOMAIN l.items :
          /\ FirstSays(l.items[k], l.fixed)
          /\ Contains(told, SecondSays(l.fixed, l.items[k].text))

(* A thread and its client.                                                *)
Fits(l, cl, P, c) ==
  /\ l.gone => l.at \notin {"free", "ended"}
  /\ l.at \in Before => History(l.items, c) /\ (~ l.gone => l.items = cl.items)
  /\ Escalated(l) => /\ l.fixed \in OwnCalls[c] /\ HasRun(cl.items, l.fixed)
                     /\ ~ cl.crossed => l.fixed \in P
  /\ l.at \in {"budget", "serve"} /\ l.fixed # NoCall => Resolved(l, cl.items)

(* A client waits for one answer at a time.  If nothing it has abandoned   *)
(* is left, the entry of the escalation that it was sent is there when it  *)
(* comes back.                                                             *)
Round(T, cl, P, c) ==
  /\ History(cl.items, c)
  /\ \A t \in Mine(c) : Fits(T[t], cl, P, c)
  /\ \A t, u \in Mine(c) : Live(T[t]) /\ Live(T[u]) => t = u
  /\ ~ cl.crossed /\ (cl.last = "escalation" \/ \E t \in Mine(c) : Live(T[t]))
     => \A u \in Mine(c) : ~ T[u].gone
  /\ ~ cl.crossed /\ cl.last = "escalation"
     => /\ \A t \in Mine(c) : ~ Escalated(T[t])
        /\ (\A t \in Mine(c) : T[t].at \in Before \cup {"free"}) => ComesBack(cl, P)

LEMMA StillComesBack ==
  ASSUME NEW c, NEW cl, cl.items \in Seq(Items), History(cl.items, c),
         NEW P, NEW P2, \A k \in OwnCalls[c] : k \in P => k \in P2, ComesBack(cl, P)
  PROVE  ComesBack(cl, P2)
<1> DEFINE n == Len(cl.items)
<1>1. n \in Nat /\ DOMAIN cl.items = 1 .. n
  BY ItemAt
<1>2. cl.items # <<>> /\ cl.items[n].kind = "output" /\ cl.items[n].esc /\ cl.items[n].call \in P
  BY DEF ComesBack, IsOutput
<1>3. n # 0
  BY <1>2, EmptySeq
<1>4. cl.items[n].call \in OwnCalls[c]
  BY <1>1, <1>2, <1>3 DEF History, OfCalls
<1> QED
  BY <1>2, <1>4 DEF ComesBack, IsOutput

(* What other clients do.                                                  *)
LEMMA Elsewhere ==
  ASSUME NEW c, NEW cl, cl.items \in Seq(Items), NEW T, NEW T2, NEW P, NEW P2,
         Round(T, cl, P, c),
         \A t \in Mine(c) : T2[t] = T[t],
         \A k \in OwnCalls[c] : k \in P => k \in P2
  PROVE  Round(T2, cl, P2, c)
<1>1. \A t \in Mine(c) : Fits(T2[t], cl, P2, c)
  <2> SUFFICES ASSUME NEW t \in Mine(c) PROVE Fits(T2[t], cl, P2, c)
    OBVIOUS
  <2>1. Fits(T[t], cl, P, c) /\ T2[t] = T[t]
    BY DEF Round
  <2> QED
    BY <2>1 DEF Fits
<1>2. \A t, u \in Mine(c) : Live(T2[t]) /\ Live(T2[u]) => t = u
  BY DEF Round
<1>3. ~ cl.crossed /\ (cl.last = "escalation" \/ \E t \in Mine(c) : Live(T2[t]))
      => \A u \in Mine(c) : ~ T2[u].gone
  BY DEF Round
<1>4. ASSUME ~ cl.crossed, cl.last = "escalation"
      PROVE  /\ \A t \in Mine(c) : ~ Escalated(T2[t])
             /\ (\A t \in Mine(c) : T2[t].at \in Before \cup {"free"}) => ComesBack(cl, P2)
  <2>1. \A t \in Mine(c) : ~ Escalated(T2[t])
    BY <1>4 DEF Round
  <2>2. ASSUME \A t \in Mine(c) : T2[t].at \in Before \cup {"free"}
        PROVE  ComesBack(cl, P2)
    <3>1. \A t \in Mine(c) : T[t].at \in Before \cup {"free"}
      BY <2>2
    <3>2. ComesBack(cl, P) /\ History(cl.items, c)
      BY <1>4, <3>1 DEF Round
    <3> QED
      BY <3>2, StillComesBack
  <2> QED
    BY <2>1, <2>2
<1> QED
  BY <1>1, <1>2, <1>3, <1>4 DEF Round

(* An escalation is not on its way to the client beside a request of its   *)
(* that is under way, unless the latter was abandoned.                     *)
LEMMA NoneBeside ==
  ASSUME NEW c, NEW cl, NEW T, NEW P, Round(T, cl, P, c), NEW t \in Mine(c),
         T[t].at \notin {"free", "ended"}, NEW u \in Mine(c), u # t, Escalated(T[u])
  PROVE  cl.crossed
<1>1. Fits(T[u], cl, P, c)
  BY DEF Round
<1>2. Live(T[u])
  BY <1>1 DEF Fits, Escalated, Live
<1> SUFFICES ASSUME ~ cl.crossed PROVE FALSE
  OBVIOUS
<1>3. ~ T[t].gone
  BY <1>2 DEF Round
<1>4. Live(T[t])
  BY <1>3 DEF Live
<1> QED
  BY <1>2, <1>4 DEF Round

(* A step of one of the client's threads.                                  *)
LEMMA OneStep ==
  ASSUME NEW c, NEW cl, cl.items \in Seq(Items), NEW T, NEW T2, NEW P, NEW P2,
         Round(T, cl, P, c), NEW t \in Mine(c), NEW l, T2[t] = l,
         \A u \in Mine(c) : u # t => T2[u] = T[u],
         T[t].at \notin {"free", "ended"},
         Fits(l, cl, P2, c), Live(l) => Live(T[t]), l.gone => T[t].gone,
         Escalated(l) /\ cl.last = "escalation" => cl.crossed,
         l.at \in Before \cup {"free"}
           => /\ T[t].at \in Before \/ T[t].gone
              /\ \A k \in OwnCalls[c] : k \in P => k \in P2
  PROVE  Round(T2, cl, P2, c)
<1>0. History(cl.items, c)
  BY DEF Round
<1>1. \A u \in Mine(c) : Fits(T2[u], cl, P2, c)
  <2> SUFFICES ASSUME NEW u \in Mine(c) PROVE Fits(T2[u], cl, P2, c)
    OBVIOUS
  <2>1. CASE u = t
    BY <2>1
  <2>2. CASE u # t
    <3>1. Fits(T[u], cl, P, c) /\ T2[u] = T[u]
      BY <2>2 DEF Round
    <3>2. Escalated(T[u]) => cl.crossed
      BY <2>2, NoneBeside
    <3> QED
      BY <3>1, <3>2 DEF Fits
  <2> QED
    BY <2>1, <2>2
<1>2. \A u \in Mine(c) : Live(T2[u]) => Live(T[u])
  OBVIOUS
<1>3. \A u, v \in Mine(c) : Live(T2[u]) /\ Live(T2[v]) => u = v
  BY <1>2 DEF Round
<1>4. \A u \in Mine(c) : T2[u].gone => T[u].gone
  OBVIOUS
<1>5. ASSUME ~ cl.crossed, cl.last = "escalation" \/ \E u \in Mine(c) : Live(T2[u])
      PROVE  \A u \in Mine(c) : ~ T2[u].gone
  BY <1>2, <1>4, <1>5 DEF Round
<1>6. ASSUME ~ cl.crossed, cl.last = "escalation"
      PROVE  /\ \A u \in Mine(c) : ~ Escalated(T2[u])
             /\ (\A u \in Mine(c) : T2[u].at \in Before \cup {"free"}) => ComesBack(cl, P2)
  <2>1. ~ T[t].gone /\ \A u \in Mine(c) : ~ Escalated(T[u])
    BY <1>6 DEF Round
  <2>2. \A u \in Mine(c) : ~ Escalated(T2[u])
    BY <1>6, <2>1
  <2>3. ASSUME \A u \in Mine(c) : T2[u].at \in Before \cup {"free"}
        PROVE  ComesBack(cl, P2)
    <3>1. l.at \in Before \cup {"free"}
      BY <2>3
    <3>2. T[t].at \in Before /\ \A k \in OwnCalls[c] : k \in P => k \in P2
      BY <2>1, <3>1
    <3>3. \A u \in Mine(c) : T[u].at \in Before \cup {"free"}
      BY <2>3, <3>2
    <3>4. ComesBack(cl, P)
      BY <1>6, <3>3 DEF Round
    <3> QED
      BY <1>0, <3>2, <3>4, StillComesBack
  <2> QED
    BY <2>2, <2>3
<1> QED
  BY <1>0, <1>1, <1>3, <1>5, <1>6 DEF Round

(* The client asks, and nothing that it waits for is under way.            *)
LEMMA AsksAgain ==
  ASSUME NEW c, NEW cl, NEW cl2, NEW T, NEW T2, NEW P,
         Round(T, cl, P, c), NEW t \in Mine(c), NEW l, T2[t] = l,
         \A u \in Mine(c) : u # t => T2[u] = T[u],
         \A u \in Mine(c) : T[u].at = "free" \/ T[u].gone, T[t].at = "free",
         cl2.items = cl.items, cl2.last = cl.last,
         ~ cl2.crossed => /\ \A u \in Mine(c) : ~ T[u].gone
                          /\ cl.last = "escalation" => ~ cl.crossed,
         ~ l.gone, ~ Escalated(l),
         l.at \notin {"budget", "serve"}, l.at \in Before => l.items = cl.items
  PROVE  Round(T2, cl2, P, c)
<1>0. History(cl2.items, c)
  BY DEF Round
<1>1. \A u \in Mine(c) : Fits(T[u], cl, P, c)
  BY DEF Round
<1>2. \A u \in Mine(c) : ~ Live(T[u]) /\ ~ Escalated(T[u])
  BY <1>1 DEF Live, Escalated, Fits
<1>3. \A u \in Mine(c) : Fits(T2[u], cl2, P, c)
  <2> SUFFICES ASSUME NEW u \in Mine(c) PROVE Fits(T2[u], cl2, P, c)
    OBVIOUS
  <2>1. CASE u = t
    BY <1>0, <2>1 DEF Fits
  <2>2. CASE u # t
    BY <1>1, <1>2, <2>2 DEF Fits
  <2> QED
    BY <2>1, <2>2
<1>4. \A u, v \in Mine(c) : Live(T2[u]) /\ Live(T2[v]) => u = v
  BY <1>2
<1>5. ASSUME ~ cl2.crossed PROVE \A u \in Mine(c) : ~ T2[u].gone
  BY <1>5
<1>6. ASSUME ~ cl2.crossed, cl2.last = "escalation"
      PROVE  (\A u \in Mine(c) : ~ Escalated(T2[u])) /\ ComesBack(cl2, P)
  <2>1. ~ cl.crossed /\ \A u \in Mine(c) : T[u].at = "free"
    BY <1>6
  <2>2. ComesBack(cl, P)
    BY <1>6, <2>1 DEF Round
  <2>3. ComesBack(cl2, P)
    BY <2>2 DEF ComesBack
  <2>4. \A u \in Mine(c) : ~ Escalated(T2[u])
    BY <1>2
  <2> QED
    BY <2>3, <2>4
<1> QED
  BY <1>0, <1>3, <1>4, <1>5, <1>6 DEF Round

(* The client has its answer.                                              *)
LEMMA HasAnswer ==
  ASSUME NEW c, NEW cl, NEW cl2, NEW T, NEW T2, NEW P,
         Round(T, cl, P, c), NEW t \in Mine(c), T2[t] = Idle,
         \A u \in Mine(c) : u # t => T2[u] = T[u],
         T[t].at = "ended", cl2.crossed = cl.crossed, History(cl2.items, c),
         cl2.last = "escalation" /\ ~ cl2.crossed => ComesBack(cl2, P)
  PROVE  Round(T2, cl2, P, c)
<1>1. \A u \in Mine(c) : Fits(T[u], cl, P, c)
  BY DEF Round
<1>2. Live(T[t])
  BY <1>1 DEF Live, Fits
<1>3. \A u \in Mine(c) : u # t => ~ Live(T[u]) /\ ~ Escalated(T[u])
  <2>1. \A u \in Mine(c) : u # t => ~ Live(T[u])
    BY <1>2 DEF Round
  <2> QED
    BY <1>1, <2>1 DEF Fits, Live, Escalated
<1>4. ~ Live(Idle) /\ ~ Escalated(Idle) /\ ~ Idle.gone /\ Idle.at = "free"
  BY DEF Idle, Live, Escalated
<1>5. \A u \in Mine(c) : ~ Live(T2[u]) /\ ~ Escalated(T2[u])
  BY <1>3, <1>4
<1>6. \A u \in Mine(c) : Fits(T2[u], cl2, P, c)
  <2> SUFFICES ASSUME NEW u \in Mine(c) PROVE Fits(T2[u], cl2, P, c)
    OBVIOUS
  <2>1. CASE u = t
    BY <1>4, <2>1 DEF Fits, Before
  <2>2. CASE u # t
    <3>1. T2[u] = T[u] /\ (T[u].gone \/ T[u].at = "free") /\ ~ Escalated(T[u])
      BY <1>3, <2>2 DEF Live
    <3>2. Fits(T[u], cl, P, c)
      BY <1>1
    <3>3. CASE T[u].at = "free"
      BY <3>1, <3>2, <3>3 DEF Fits, Before
    <3>4. CASE T[u].gone
      BY <3>1, <3>2, <3>4 DEF Fits, Resolved
    <3> QED
      BY <3>1, <3>3, <3>4
  <2> QED
    BY <2>1, <2>2
<1>7. ASSUME ~ cl2.crossed PROVE \A u \in Mine(c) : ~ T2[u].gone
  <2>1. \A u \in Mine(c) : ~ T[u].gone
    BY <1>2, <1>7 DEF Round
  <2> QED
    BY <1>4, <2>1
<1> QED
  BY <1>5, <1>6, <1>7 DEF Round

(* The client goes away.                                                   *)
LEMMA GoesAway ==
  ASSUME NEW c, NEW cl, NEW cl2, NEW T, NEW T2, NEW P,
         Round(T, cl, P, c), NEW t \in Mine(c), NEW l, T2[t] = l,
         \A u \in Mine(c) : u # t => T2[u] = T[u],
         T[t].at \notin {"free", "ended"}, ~ T[t].gone,
         l.gone, l.at = T[t].at, l.items = T[t].items, l.fixed = T[t].fixed,
         cl2.items = cl.items, cl2.last # "escalation", cl2.crossed = cl.crossed
  PROVE  Round(T2, cl2, P, c)
<1>1. \A u \in Mine(c) : Fits(T[u], cl, P, c)
  BY DEF Round
<1>2. \A u \in Mine(c) : ~ Live(T2[u])
  BY DEF Round, Live
<1>3. \A u \in Mine(c) : Fits(T2[u], cl2, P, c)
  <2> SUFFICES ASSUME NEW u \in Mine(c) PROVE Fits(T2[u], cl2, P, c)
    OBVIOUS
  <2>1. CASE u = t
    <3>1. Fits(T[t], cl, P, c)
      BY <1>1
    <3> QED
      BY <2>1, <3>1 DEF Fits, Escalated, Resolved
  <2>2. CASE u # t
    <3>1. T2[u] = T[u] /\ Fits(T[u], cl, P, c)
      BY <1>1, <2>2
    <3> QED
      BY <3>1 DEF Fits
  <2> QED
    BY <2>1, <2>2
<1> QED
  BY <1>2, <1>3 DEF Round

-----------------------------------------------------------------------------
RoundInv == TypeOK /\ \A c \in Clients : Round(th, client[c], pending, c)

LEMMA Typed ==
  ASSUME RoundInv, NEW t \in Threads
  PROVE  /\ Owner[t] \in Clients /\ t \in Mine(Owner[t]) /\ th[t] \in Locals
         /\ client[Owner[t]] \in Histories /\ client[Owner[t]].items \in Seq(Items)
         /\ ThreadsTyped /\ pending \subseteq Calls
         /\ Round(th, client[Owner[t]], pending, Owner[t])
         /\ Fits(th[t], client[Owner[t]], pending, Owner[t])
         /\ OwnCalls[Owner[t]] \subseteq Calls
<1>1. Owner[t] \in Clients /\ OwnCalls[Owner[t]] \subseteq Calls
  BY GateAssumption DEF GateAssumption
<1>2. t \in Mine(Owner[t])
  BY DEF Mine
<1>3. th[t] \in Locals /\ ThreadsTyped /\ pending \subseteq Calls
  BY DEF RoundInv, TypeOK, ThreadsTyped
<1>4. client[Owner[t]] \in Histories
  BY <1>1 DEF RoundInv, TypeOK
<1>5. client[Owner[t]].items \in Seq(Items)
  BY <1>4 DEF Histories
<1>6. Round(th, client[Owner[t]], pending, Owner[t])
  BY <1>1 DEF RoundInv
<1>7. Fits(th[t], client[Owner[t]], pending, Owner[t])
  BY <1>2, <1>6 DEF Round
<1> QED
  BY <1>1, <1>2, <1>3, <1>4, <1>5, <1>6, <1>7

(* One client's step leaves the rounds of the others as they are.          *)
LEMMA OthersKeep ==
  ASSUME RoundInv, NEW c \in Clients,
         \A t \in Threads : Owner[t] # c => th'[t] = th[t],
         \A d \in Clients : d # c => client'[d] = client[d],
         \A k \in Calls : k \notin OwnCalls[c] /\ k \in pending => k \in pending',
         Round(th', client'[c], pending', c)
  PROVE  \A d \in Clients : Round(th', client'[d], pending', d)
<1> SUFFICES ASSUME NEW d \in Clients, d # c
             PROVE  Round(th', client'[d], pending', d)
  OBVIOUS
<1>1. client[d].items \in Seq(Items) /\ Round(th, client[d], pending, d)
  BY DEF RoundInv, TypeOK, Histories
<1>2. \A t \in Mine(d) : th'[t] = th[t]
  BY DEF Mine
<1>3. \A k \in OwnCalls[d] : k \in Calls /\ k \notin OwnCalls[c]
  <2>1. OwnCalls[d] \subseteq Calls /\ OwnCalls[c] \cap OwnCalls[d] = {}
    BY GateAssumption DEF GateAssumption
  <2> QED
    BY <2>1
<1>4. \A k \in OwnCalls[d] : k \in pending => k \in pending'
  BY <1>3
<1>5. Round(th', client[d], pending', d)
  BY <1>1, <1>2, <1>4, Elsewhere
<1> QED
  BY <1>5

(* What of TypeOK does not concern the threads and the clients.            *)
RestTyped ==
  /\ up \in {"starting", "ready", "failed"}
  /\ model \in [key : Models, phase : {"ready", "loading", "failed"}]
  /\ gate \in Threads \cup {Nobody}
  /\ registry \subseteq Requests /\ lost \subseteq Requests
  /\ restarts \in 0 .. MaxRestarts

LEMMA RequestTyped ==
  ASSUME RoundInv, NEW t \in Threads
  PROVE  Request(t) \in Requests
<1>1. Owner[t] \in Clients /\ th[t].turn \in Nat
  BY Typed DEF Locals
<1> QED
  BY <1>1 DEF Request, Requests

LEMMA StepRest ==
  ASSUME RoundInv, NEW t \in Threads, Step(t)
  PROVE  RestTyped'
<1>1. RestTyped
  BY DEF RoundInv, TypeOK, RestTyped
<1>2. UNCHANGED <<up, restarts>>
  BY DEF Step, AwaitStartup, Admit, Through, Assess, AwaitModel, Prepare, Compact, Begin,
         ServeStream, RetryStream, ServePlain
<1>3. model' \in [key : Models, phase : {"ready", "loading", "failed"}]
  <2>1. Wants[Owner[t]] \in Models
    BY GateAssumption DEF GateAssumption
  <2>2. CASE Assess(t)
    <3>1. model' = model \/ model' = [key |-> Wants[Owner[t]], phase |-> "loading"]
      BY <2>2 DEF Assess
    <3> QED
      BY <1>1, <2>1, <3>1 DEF RestTyped
  <2>3. CASE ~ Assess(t)
    <3>1. UNCHANGED model
      BY <2>3 DEF Step, AwaitStartup, Admit, Through, AwaitModel, Prepare, Compact,
                  Begin, ServeStream, RetryStream, ServePlain
    <3> QED
      BY <1>1, <3>1 DEF RestTyped
  <2> QED
    BY <2>2, <2>3
<1>4. gate' \in Threads \cup {Nobody}
  <2>1. gate' = gate \/ gate' = t \/ gate' = Nobody
    <3>1. UNCHANGED gate \/ gate' = t \/ Leaves(t)
      <4>1. CASE AwaitStartup(t) \/ Admit(t) \/ Through(t)
        BY <4>1 DEF AwaitStartup, Admit, Through
      <4>2. CASE Assess(t) \/ AwaitModel(t) \/ Prepare(t)
        BY <4>2 DEF Assess, AwaitModel, Prepare
      <4>3. CASE Compact(t) \/ Begin(t) \/ ServeStream(t) \/ RetryStream(t) \/ ServePlain(t)
        BY <4>3 DEF Compact, Begin, ServeStream, RetryStream, ServePlain
      <4> QED
        BY <4>1, <4>2, <4>3 DEF Step
    <3> QED
      BY <3>1 DEF Leaves
  <2> QED
    BY <1>1, <2>1 DEF RestTyped
<1>5. registry' \subseteq Requests /\ lost' \subseteq Requests
  <2>1. /\ registry' \subseteq registry \cup {Request(t)}
        /\ lost' \subseteq lost \cup {Request(t)}
    <3>1. CASE AwaitStartup(t) \/ Admit(t) \/ Through(t) \/ Assess(t)
               \/ AwaitModel(t) \/ Prepare(t) \/ Compact(t)
      BY <3>1 DEF AwaitStartup, Admit, Through, Assess, AwaitModel, Prepare, Compact
    <3>2. CASE Begin(t)
      BY <3>2 DEF Begin, Register
    <3>3. CASE ServeStream(t)
      BY <3>3 DEF ServeStream, StreamUnwinds, Finish
    <3>4. CASE ServePlain(t)
      BY <3>4 DEF ServePlain, Finish
    <3>5. CASE RetryStream(t)
      BY <3>5 DEF RetryStream
    <3> QED
      BY <3>1, <3>2, <3>3, <3>4, <3>5 DEF Step
  <2> QED
    BY <1>1, <2>1, RequestTyped DEF RestTyped
<1> QED
  BY <1>1, <1>2, <1>3, <1>4, <1>5 DEF RestTyped

LEMMA AllTyped ==
  ASSUME RestTyped', pending' \subseteq Calls, th' \in [Threads -> Locals],
         client' \in [Clients -> Histories]
  PROVE  TypeOK'
  BY DEF RestTyped, TypeOK

-----------------------------------------------------------------------------
(* A step of a thread that is not the preparation.                         *)
LEMMA MovesOnKeeps ==
  ASSUME RoundInv, NEW t \in Threads, MovesOn(t), UNCHANGED <<client, pending>>
  PROVE  /\ th' \in [Threads -> Locals]
         /\ \A d \in Clients : Round(th', client'[d], pending', d)
<1> DEFINE c == Owner[t]
           cl == client[c]
<1>1. /\ c \in Clients /\ t \in Mine(c) /\ th[t] \in Locals
      /\ cl.items \in Seq(Items)
      /\ th \in [Threads -> Locals]
      /\ Round(th, cl, pending, c) /\ Fits(th[t], cl, pending, c)
  BY Typed DEF ThreadsTyped
<1>2. PICK l \in Locals :
        /\ th' = [th EXCEPT ![t] = l]
        /\ WaitsOn(th[t], l) \/ ServesOn(th[t], l) \/ Ends(th[t], l)
  BY DEF MovesOn
<1>3. /\ th' \in [Threads -> Locals] /\ th'[t] = l
      /\ \A u \in Threads : u # t => th'[u] = th[u]
  BY <1>1, <1>2
<1>4. th[t].at \notin {"free", "ended"}
  BY DEF MovesOn
<1> HIDE DEF cl, c
<1>5. Idle.at = "free" /\ ~ Idle.gone
  BY DEF Idle
<1>6. /\ Fits(l, cl, pending, c)
      /\ ~ Escalated(l)
      /\ Live(l) => Live(th[t])
      /\ l.gone => th[t].gone
      /\ l.at \in Before \cup {"free"} => th[t].at \in Before \/ th[t].gone
  <2>1. CASE WaitsOn(th[t], l)
    <3>1. th[t].at \in Before /\ l.at \in Before \cup {"through"} /\ l.items = th[t].items
          /\ l.gone = th[t].gone
      BY <2>1 DEF WaitsOn
    <3>2. l.at \notin {"free", "ended", "budget", "serve"}
      BY <3>1 DEF Before
    <3>3. Fits(l, cl, pending, c)
      BY <1>1, <3>1, <3>2 DEF Fits, Escalated
    <3> QED
      BY <1>4, <3>1, <3>2, <3>3 DEF Escalated, Live
  <2>2. CASE ServesOn(th[t], l)
    <3>1. /\ th[t].at \in {"budget", "serve"} /\ l.at = "serve"
          /\ l.items = th[t].items /\ l.gone = th[t].gone /\ l.fixed = th[t].fixed
      BY <2>2 DEF ServesOn
    <3>2. l.at \notin Before \cup {"free", "ended"}
      BY <3>1 DEF Before
    <3>3. Fits(l, cl, pending, c)
      BY <1>1, <3>1, <3>2 DEF Fits, Escalated, Resolved
    <3> QED
      BY <1>4, <3>1, <3>2, <3>3 DEF Escalated, Live
  <2>3. CASE Ends(th[t], l)
    <3>1. CASE th[t].gone
      <4>1. l = Idle
        BY <2>3, <3>1 DEF Ends
      <4> QED
        BY <1>5, <3>1, <4>1 DEF Fits, Escalated, Live, Before
    <3>2. CASE ~ th[t].gone
      <4>1. l.at = "ended" /\ ~ l.gone /\ l.got # "escalation"
        BY <2>3, <3>2 DEF Ends
      <4> QED
        BY <1>4, <3>2, <4>1 DEF Fits, Escalated, Live, Before
    <3> QED
      BY <3>1, <3>2
  <2> QED
    BY <1>2, <2>1, <2>2, <2>3
<1>7. \A u \in Mine(c) : u # t => th'[u] = th[u]
  BY <1>3 DEF Mine
<1>8. pending' = pending
  OBVIOUS
<1>9. Round(th', cl, pending', c)
  BY <1>1, <1>3, <1>4, <1>6, <1>7, <1>8, OneStep
<1>10. client' = client /\ cl = client[c]
  BY DEF cl
<1>11. \A d \in Clients : Round(th', client'[d], pending', d)
  <2>1. \A u \in Threads : Owner[u] # c => th'[u] = th[u]
    BY <1>3 DEF c
  <2> QED
    BY <1>1, <1>8, <1>9, <1>10, <2>1, OthersKeep
<1> QED
  BY <1>3, <1>11

-----------------------------------------------------------------------------
(* The preparation: a result is put in its place, or a denial is sent back *)
(* or passed over, or nothing is to be done.                               *)
LEMMA PrepareMoves ==
  ASSUME RoundInv, NEW t \in Threads, Prepare(t), NEW m,
         m = Microcompact(WithAdvisories(th[t].items)), NEW back, back = Awaited(m, pending),
         NEW denied, denied = Denied(m)
  PROVE  \E l \in Locals :
           /\ th' = [th EXCEPT ![t] = l]
           /\ \/ /\ back # NoCall /\ pending' = pending \ {back}
                 /\ l.at = "budget" /\ l.gone = th[t].gone
                 /\ l.fixed = back /\ l.items = Rewrite(m, back)
              \/ /\ back = NoCall /\ denied # NoCall
                 /\ pending' = pending \cup {denied}
                 /\ IF th[t].gone THEN l = Idle
                    ELSE l.at = "ended" /\ ~ l.gone /\ l.got = "escalation"
                         /\ l.fixed = denied
              \/ /\ \/ pending' = pending
                    \/ denied # NoCall /\ pending' = pending \cup {denied}
                 /\ l.at = "budget" /\ l.gone = th[t].gone /\ l.fixed = NoCall
<1> DEFINE h == th[t].items
           onward(i) == [th[t] EXCEPT !.at = "budget", !.items = i, !.fixed = back]
           noted == [th[t] EXCEPT !.head = "sse", !.fixed = denied]
<1>1. th[t] \in Locals /\ h \in Seq(Items) /\ pending \subseteq Calls
  BY Typed DEF Locals
<1>2. m \in Seq(Items)
  BY <1>1, Prepared DEF PreparedOf
<1>3. /\ back # NoCall => back \in Calls
      /\ denied # NoCall => denied \in Calls
  BY <1>1, AwaitedInHistory, DeniedInHistory
<1>4. back # NoCall => Rewrite(m, back) \in Seq(Items)
  <2> SUFFICES ASSUME back # NoCall PROVE Rewrite(m, back) \in Seq(Items)
    OBVIOUS
  <2>1. \E k \in 1 .. Len(m) : m[k].kind = "output" /\ m[k].esc /\ m[k].call = back
    BY <1>1, <1>2, AwaitedIs
  <2>2. \E k \in 1 .. Len(m) : m[k].kind = "output" /\ OfSecond(m[k], back)
    <3>1. PICK k \in 1 .. Len(m) : m[k].kind = "output" /\ m[k].esc /\ m[k].call = back
      BY <2>1
    <3>2. m[k] \in Items
      BY <1>2, ItemAt
    <3>3. m[k].kind # "talk" /\ m[k].esc = TRUE
      BY <3>1, <3>2, ItemShape
    <3> QED
      BY <3>1, <3>3 DEF OfSecond, Of
  <2> QED
    BY <1>2, <1>3, <2>2, Rewritten
<1>5. ASSUME NEW i \in Seq(Items), back \in Calls \cup {NoCall}
      PROVE  /\ onward(i) \in Locals /\ onward(i).at = "budget"
             /\ onward(i).gone = th[t].gone /\ onward(i).fixed = back
             /\ onward(i).items = i
  BY <1>1, <1>5 DEF Locals, Places
<1>6. ASSUME denied # NoCall
      PROVE  /\ SentBack(th[t], denied) \in Locals
             /\ IF th[t].gone THEN SentBack(th[t], denied) = Idle
                ELSE /\ SentBack(th[t], denied).at = "ended"
                     /\ ~ SentBack(th[t], denied).gone
                     /\ SentBack(th[t], denied).got = "escalation"
                     /\ SentBack(th[t], denied).fixed = denied
  <2>1. noted \in Locals /\ noted.fixed = denied /\ noted.gone = th[t].gone
    BY <1>1, <1>3, <1>6 DEF Locals
  <2>2. SentBack(th[t], denied) = Ended(noted, "escalation")
    BY DEF SentBack
  <2> HIDE DEF noted
  <2>3. "escalation" \in Answers
    BY DEF Answers
  <2>4. noted.gone => Ended(noted, "escalation") = Idle
    BY DEF Ended
  <2>5. /\ Ended(noted, "escalation") \in Locals
        /\ ~ noted.gone => /\ Ended(noted, "escalation").at = "ended"
                           /\ ~ Ended(noted, "escalation").gone
                           /\ Ended(noted, "escalation").got = "escalation"
                           /\ Ended(noted, "escalation").fixed = noted.fixed
    BY <2>1, <2>3, EndedLocal
  <2> QED
    BY <2>1, <2>2, <2>4, <2>5
<1>7. \/ /\ back # NoCall /\ pending' = pending \ {back}
         /\ th' = [th EXCEPT ![t] = onward(Rewrite(m, back))]
      \/ /\ back = NoCall /\ denied # NoCall
         /\ pending' = pending \cup {denied}
         /\ \/ th' = [th EXCEPT ![t] = SentBack(th[t], denied)]
            \/ th' = [th EXCEPT ![t] = onward(m)]
      \/ /\ back = NoCall
         /\ pending' = pending
         /\ th' = [th EXCEPT ![t] = onward(m)]
  BY DEF Prepare
<1> HIDE DEF onward
<1>8. CASE /\ back # NoCall /\ pending' = pending \ {back}
           /\ th' = [th EXCEPT ![t] = onward(Rewrite(m, back))]
  BY <1>3, <1>4, <1>5, <1>8
<1>9. CASE /\ back = NoCall /\ denied # NoCall
           /\ pending' = pending \cup {denied}
           /\ th' = [th EXCEPT ![t] = SentBack(th[t], denied)]
  BY <1>6, <1>9
<1>10. CASE /\ back = NoCall
            /\ \/ pending' = pending
               \/ denied # NoCall /\ pending' = pending \cup {denied}
            /\ th' = [th EXCEPT ![t] = onward(m)]
  <2>1. /\ onward(m) \in Locals /\ onward(m).at = "budget"
        /\ onward(m).gone = th[t].gone /\ onward(m).fixed = NoCall
    BY <1>2, <1>5, <1>10
  <2> QED
    BY <1>10, <2>1
<1> HIDE DEF h, noted
<1> QED
  BY <1>7, <1>8, <1>9, <1>10

LEMMA PreparationKeeps ==
  ASSUME RoundInv, NEW t \in Threads, Prepare(t)
  PROVE  /\ th' \in [Threads -> Locals] /\ pending' \subseteq Calls
         /\ client' = client
         /\ \A d \in Clients : Round(th', client'[d], pending', d)
<1> DEFINE c == Owner[t]
           cl == client[c]
           h == th[t].items
           m == Microcompact(WithAdvisories(h))
           back == Awaited(m, pending)
           denied == Denied(m)
<1>1. /\ c \in Clients /\ t \in Mine(c) /\ th[t] \in Locals
      /\ cl.items \in Seq(Items)
      /\ th \in [Threads -> Locals] /\ pending \subseteq Calls
      /\ Round(th, cl, pending, c) /\ Fits(th[t], cl, pending, c)
  BY Typed DEF ThreadsTyped
<1>2. th[t].at = "prepare" /\ client' = client
  BY DEF Prepare
<1>3. h \in Seq(Items)
  BY <1>1 DEF Locals
<1>4. History(h, c) /\ (~ th[t].gone => h = cl.items)
  BY <1>1, <1>2 DEF Fits, Before
<1>5. back # NoCall => back \in OwnCalls[c] /\ back \in Calls
  <2> SUFFICES ASSUME back # NoCall PROVE back \in OwnCalls[c] /\ back \in Calls
    OBVIOUS
  <2>1. back \in pending /\ \E k \in DOMAIN h : h[k].kind # "talk" /\ h[k].call = back
    BY <1>1, <1>3, AwaitedInHistory
  <2> HIDE DEF back, h
  <2> QED
    BY <1>1, <1>4, <2>1 DEF History, OfCalls
<1>6. denied # NoCall => denied \in OwnCalls[c] /\ denied \in Calls /\ HasRun(h, denied)
  <2> SUFFICES ASSUME denied # NoCall
               PROVE  denied \in OwnCalls[c] /\ denied \in Calls /\ HasRun(h, denied)
    OBVIOUS
  <2>1. denied \in Calls /\ HasRun(h, denied)
    BY <1>3, DeniedInHistory DEF HasRun
  <2> HIDE DEF denied, h
  <2> QED
    BY <1>4, <2>1 DEF History, OfCalls, HasRun, FirstSays, Of
<1>7. back # NoCall => \A l : l.fixed = back /\ l.items = Rewrite(m, back)
                              /\ l.gone = th[t].gone => Resolved(l, cl.items)
  <2> SUFFICES ASSUME back # NoCall, NEW l, l.fixed = back, l.items = Rewrite(m, back),
                      l.gone = th[t].gone
               PROVE  Resolved(l, cl.items)
    OBVIOUS
  <2> DEFINE r == Rewrite(m, back)
  <2>1. /\ \A k \in DOMAIN r : ~ OfSecond(r[k], back)
        /\ \A j, k \in DOMAIN r : FirstSays(r[j], back) /\ FirstSays(r[k], back) => j = k
        /\ Unspoken(h, back) => \E k \in DOMAIN r :
             FirstSays(r[k], back) /\ Contains(h, SecondSays(back, r[k].text))
    BY <1>1, <1>3, <1>4, ResultRead DEF History
  <2> HIDE DEF r
  <2>2. l.items = r
    BY DEF r
  <2> HIDE DEF back, h
  <2> QED
    BY <1>4, <2>1, <2>2 DEF Resolved
<1>8. back = NoCall /\ ~ th[t].gone /\ cl.last = "escalation" => cl.crossed
  <2> SUFFICES ASSUME back = NoCall, ~ th[t].gone, cl.last = "escalation", ~ cl.crossed
               PROVE  FALSE
    OBVIOUS
  <2>1. Live(th[t])
    BY <1>2 DEF Live
  <2>2. \A u \in Mine(c) : ~ th[u].gone
    BY <1>1, <2>1 DEF Round
  <2>3. \A u \in Mine(c) : u = t \/ th[u].at = "free"
    BY <1>1, <2>1, <2>2 DEF Round, Live
  <2>4. \A u \in Mine(c) : th[u].at \in Before \cup {"free"}
    BY <1>2, <2>3 DEF Before
  <2>5. ComesBack(cl, pending)
    BY <1>1, <2>4 DEF Round
  <2>6. h = cl.items
    BY <1>4
  <2>7. h # <<>> /\ IsOutput(h[Len(h)]) /\ h[Len(h)].esc /\ h[Len(h)].call \in pending
    BY <2>5, <2>6 DEF ComesBack
  <2> QED
    BY <1>1, <1>3, <2>7, LastIsAwaited
<1>9. PICK l \in Locals :
           /\ th' = [th EXCEPT ![t] = l]
           /\ \/ /\ back # NoCall /\ pending' = pending \ {back}
                 /\ l.at = "budget" /\ l.gone = th[t].gone
                 /\ l.fixed = back /\ l.items = Rewrite(m, back)
              \/ /\ back = NoCall /\ denied # NoCall
                 /\ pending' = pending \cup {denied}
                 /\ IF th[t].gone THEN l = Idle
                    ELSE l.at = "ended" /\ ~ l.gone /\ l.got = "escalation"
                         /\ l.fixed = denied
              \/ /\ \/ pending' = pending
                    \/ denied # NoCall /\ pending' = pending \cup {denied}
                 /\ l.at = "budget" /\ l.gone = th[t].gone /\ l.fixed = NoCall
  BY PrepareMoves
<1>10. /\ th' \in [Threads -> Locals] /\ th'[t] = l
       /\ \A u \in Threads : u # t => th'[u] = th[u]
  BY <1>1, <1>9
<1> HIDE DEF back, denied, m, cl, c, h
<1>11. pending' \subseteq Calls
  BY <1>1, <1>6, <1>9
<1>12. \A k \in Calls : k \notin OwnCalls[c] /\ k \in pending => k \in pending'
  BY <1>5, <1>9
<1>13. Idle.at = "free" /\ ~ Idle.gone
  BY DEF Idle
<1>14. /\ Fits(l, cl, pending', c)
       /\ Escalated(l) /\ cl.last = "escalation" => cl.crossed
       /\ Live(l) => Live(th[t])
       /\ l.gone => th[t].gone
       /\ l.at \in Before \cup {"free"}
            => /\ th[t].at \in Before \/ th[t].gone
               /\ \A k \in OwnCalls[c] : k \in pending => k \in pending'
  <2>1. CASE /\ back # NoCall
             /\ l.at = "budget" /\ l.gone = th[t].gone
             /\ l.fixed = back /\ l.items = Rewrite(m, back)
    <3>1. Resolved(l, cl.items)
      BY <1>7, <2>1
    <3>2. l.at \notin Before \cup {"free", "ended"}
      BY <2>1 DEF Before
    <3> QED
      BY <1>2, <2>1, <3>1, <3>2 DEF Fits, Escalated, Live
  <2>2. CASE /\ back = NoCall /\ denied # NoCall
             /\ pending' = pending \cup {denied}
             /\ IF th[t].gone THEN l = Idle
                ELSE l.at = "ended" /\ ~ l.gone /\ l.got = "escalation" /\ l.fixed = denied
    <3>1. CASE th[t].gone
      <4>1. l = Idle
        BY <2>2, <3>1
      <4> QED
        BY <1>13, <2>2, <3>1, <4>1 DEF Fits, Escalated, Live, Before
    <3>2. CASE ~ th[t].gone
      <4>1. l.at = "ended" /\ ~ l.gone /\ l.got = "escalation" /\ l.fixed = denied
        BY <2>2, <3>2
      <4>2. HasRun(cl.items, denied) /\ denied \in OwnCalls[c] /\ denied \in pending'
        BY <1>4, <1>6, <2>2, <3>2
      <4>3. Fits(l, cl, pending', c)
        BY <4>1, <4>2 DEF Fits, Before
      <4> QED
        BY <1>2, <1>8, <2>2, <3>2, <4>1, <4>3 DEF Live, Before
    <3> QED
      BY <3>1, <3>2
  <2>3. CASE l.at = "budget" /\ l.gone = th[t].gone /\ l.fixed = NoCall
    <3>1. l.at \notin Before \cup {"free", "ended"}
      BY <2>3 DEF Before
    <3> QED
      BY <1>2, <2>3, <3>1 DEF Fits, Escalated, Live
  <2> QED
    BY <1>9, <2>1, <2>2, <2>3
<1>15. \A u \in Mine(c) : u # t => th'[u] = th[u]
  BY <1>10 DEF Mine
<1>16. th[t].at \notin {"free", "ended"}
  BY <1>2
<1>17. Round(th', cl, pending', c)
  BY <1>1, <1>10, <1>14, <1>15, <1>16, OneStep
<1>18. client' = client /\ cl = client[c]
  BY <1>2 DEF cl
<1>19. \A u \in Threads : Owner[u] # c => th'[u] = th[u]
  BY <1>10 DEF c
<1>20. \A d \in Clients : Round(th', client'[d], pending', d)
  BY <1>1, <1>12, <1>17, <1>18, <1>19, OthersKeep
<1> QED
  BY <1>10, <1>11, <1>18, <1>20

-----------------------------------------------------------------------------
(* A step that changes one thread and its client alone.                    *)
LEMMA OneClient ==
  ASSUME RoundInv, NEW t \in Threads, NEW l \in Locals, NEW cl \in Histories,
         th' = [th EXCEPT ![t] = l], client' = [client EXCEPT ![Owner[t]] = cl],
         pending' = pending,
         \A T \in [Threads -> Locals] :
           T[t] = l /\ (\A u \in Mine(Owner[t]) : u # t => T[u] = th[u])
             => Round(T, cl, pending, Owner[t])
  PROVE  /\ th' \in [Threads -> Locals] /\ client' \in [Clients -> Histories]
         /\ \A d \in Clients : Round(th', client'[d], pending', d)
<1> DEFINE c == Owner[t]
<1>1. c \in Clients
  BY Typed
<1>2. th \in [Threads -> Locals] /\ client \in [Clients -> Histories]
  BY DEF RoundInv, TypeOK
<1> HIDE DEF c
<1>3. /\ th' \in [Threads -> Locals] /\ th'[t] = l
      /\ \A u \in Threads : u # t => th'[u] = th[u]
  BY <1>2
<1>4. /\ client' \in [Clients -> Histories] /\ client'[c] = cl
      /\ \A d \in Clients : d # c => client'[d] = client[d]
  BY <1>1, <1>2 DEF c
<1>5. \A u \in Mine(c) : u # t => th'[u] = th[u]
  BY <1>3 DEF Mine
<1>6. Round(th', client'[c], pending', c)
  BY <1>3, <1>4, <1>5 DEF c
<1>7. \A u \in Threads : Owner[u] # c => th'[u] = th[u]
  BY <1>3 DEF c
<1>8. \A d \in Clients : Round(th', client'[d], pending', d)
  BY <1>1, <1>4, <1>6, <1>7, OthersKeep
<1> QED
  BY <1>3, <1>4, <1>8

LEMMA ArrivalKeeps ==
  ASSUME RoundInv, NEW t \in Threads, Arrive(t)
  PROVE  /\ th' \in [Threads -> Locals] /\ client' \in [Clients -> Histories]
         /\ \A d \in Clients : Round(th', client'[d], pending', d)
<1> DEFINE c == Owner[t]
           abandoned == \E u \in Threads : Owner[u] = c /\ th[u].gone
           start(kind, place, head) ==
             [Idle EXCEPT !.at = place, !.kind = kind, !.items = client[c].items,
                          !.head = head, !.turn = client[c].turns + 1]
           crossed == abandoned \/ (client[c].crossed /\ client[c].last = "escalation")
           cl == [client[c] EXCEPT !.turns = client[c].turns + 1, !.crossed = crossed]
           fine(l) == /\ l \in Locals /\ ~ l.gone /\ ~ Escalated(l)
                      /\ l.at \notin {"budget", "serve"}
                      /\ l.at \in Before => l.items = client[c].items
<1>1. /\ c \in Clients /\ client[c] \in Histories
      /\ client[c].items \in Seq(Items) /\ Round(th, client[c], pending, c)
      /\ t \in Mine(c) /\ c \in DOMAIN client
  BY Typed DEF RoundInv, TypeOK
<1>2. /\ cl \in Histories /\ cl.items = client[c].items /\ cl.last = client[c].last
      /\ cl.crossed = crossed
  <2>1. crossed \in BOOLEAN
    OBVIOUS
  <2> HIDE DEF crossed
  <2>2. client[c].turns + 1 \in Nat
    BY <1>1 DEF Histories
  <2> QED
    BY <1>1, <2>1, <2>2 DEF Histories
<1>3. client' = [client EXCEPT ![c] = cl]
  BY <1>1 DEF Arrive
<1>4. pending' = pending /\ th[t].at = "free"
      /\ \A u \in Threads : Owner[u] = c => th[u].at = "free" \/ th[u].gone
  BY DEF Arrive
<1>5. \E kind \in Kinds[c] :
        \/ th' = [th EXCEPT ![t] = start(kind, "queued", "none")]
        \/ kind = "stream" /\ th' = [th EXCEPT ![t] = start(kind, "startup", "sse")]
        \/ th' = [th EXCEPT ![t] = start(kind, "startup", "none")]
        \/ th' = [th EXCEPT ![t] = WithJson(start(kind, "startup", "none"), "refusal")]
  BY DEF Arrive
<1>6. ASSUME NEW kind \in {"stream", "plain", "other"}, NEW place \in {"queued", "startup"},
             NEW head \in {"none", "sse"}
      PROVE  /\ start(kind, place, head) \in Locals /\ start(kind, place, head).at = place
             /\ start(kind, place, head).items = client[c].items
             /\ ~ start(kind, place, head).gone
  <2>1. client[c].turns + 1 \in Nat
    BY <1>1 DEF Histories
  <2> QED
    BY <1>1, <1>6, <2>1, IdleLocal DEF Idle, Locals, Places
<1> HIDE DEF start, cl
<1>7. ASSUME NEW kind \in {"stream", "plain", "other"}, NEW place \in {"queued", "startup"},
             NEW head \in {"none", "sse"}
      PROVE  fine(start(kind, place, head))
  BY <1>6 DEF Escalated
<1>8. ASSUME NEW kind \in {"stream", "plain", "other"}
      PROVE  fine(WithJson(start(kind, "startup", "none"), "refusal"))
  <2> DEFINE o == start(kind, "startup", "none")
             w == WithJson(o, "refusal")
  <2>1. o \in Locals /\ ~ o.gone
    BY <1>6
  <2>2. "refusal" \in Answers
    BY DEF Answers
  <2> HIDE DEF o
  <2>3. w \in Locals /\ Ends(o, w)
    BY <2>1, <2>2, WithJsonLocal
  <2> HIDE DEF w
  <2>4. w.at = "ended" /\ ~ w.gone /\ w.got # "escalation"
    BY <2>1, <2>3 DEF Ends
  <2>5. fine(w)
    BY <2>3, <2>4 DEF Escalated, Before
  <2> QED
    BY <2>5 DEF o, w
<1>9. PICK l : fine(l) /\ th' = [th EXCEPT ![t] = l]
  <2>1. Kinds[c] \subseteq {"stream", "plain", "other"}
    BY <1>1, GateAssumption DEF GateAssumption
  <2> HIDE DEF fine
  <2> QED
    BY <1>5, <1>7, <1>8, <2>1
<1>10. ~ crossed => /\ \A u \in Mine(c) : ~ th[u].gone
                    /\ client[c].last = "escalation" => ~ client[c].crossed
  BY DEF Mine
<1>11. \A u \in Mine(c) : th[u].at = "free" \/ th[u].gone
  BY <1>4 DEF Mine
<1> HIDE DEF crossed
<1>12. ASSUME NEW T \in [Threads -> Locals], T[t] = l,
              \A u \in Mine(c) : u # t => T[u] = th[u]
       PROVE  Round(T, cl, pending, c)
  BY <1>1, <1>2, <1>4, <1>9, <1>10, <1>11, <1>12, AsksAgain
<1>13. l \in Locals
  BY <1>9
<1> HIDE DEF fine
<1> QED
  BY <1>2, <1>3, <1>4, <1>9, <1>12, <1>13, OneClient

(* What the client adds to its history, and what it has been told last.    *)
LEMMA Takes ==
  ASSUME RoundInv, NEW t \in Threads, NEW more, NEW cl,
         cl = Took(Owner[t], more, th[t]),
         more \in Seq(Items), OfCalls(more, OwnCalls[Owner[t]]),
         \A k \in 1 .. Len(more) : IsOutput(more[k]) /\ more[k].esc
           => HasRun(client[Owner[t]].items, more[k].call)
  PROVE  /\ cl \in Histories /\ History(cl.items, Owner[t])
         /\ cl.last = th[t].got /\ cl.crossed = client[Owner[t]].crossed
         /\ th[t].got # "compacted" => cl.items = client[Owner[t]].items \o more
<1> DEFINE c == Owner[t]
           h == client[c].items
           i == IF th[t].got = "compacted" THEN <<Talk>> ELSE h \o more
<1>1. /\ client[c] \in Histories /\ h \in Seq(Items) /\ History(h, c)
      /\ th[t].got \in Answers
  BY Typed DEF Round, Locals
<1>2. DOMAIN h = 1 .. Len(h)
  BY <1>1, ItemAt
<1>3. cl = [client[c] EXCEPT !.items = i, !.last = th[t].got]
  BY DEF Took
<1>4. \A k \in 1 .. Len(more) : IsOutput(more[k]) /\ more[k].esc
           => \E j \in 1 .. Len(h) : FirstSays(h[j], more[k].call)
  BY <1>2 DEF HasRun
<1> HIDE DEF h, i
<1>5. /\ h \o more \in Seq(Items)
      /\ OfCalls(h \o more, OwnCalls[c]) /\ RerunsFollow(h \o more)
  BY <1>1, <1>4, GoesOn DEF History
<1>6. i \in Seq(Items) /\ History(i, c)
  BY <1>5, OneRemark DEF History, i
<1>7. /\ cl \in Histories /\ cl.items = i /\ cl.last = th[t].got
      /\ cl.crossed = client[c].crossed
  BY <1>1, <1>3, <1>6 DEF Histories
<1>8. th[t].got # "compacted" => i = h \o more
  BY DEF i
<1> QED
  BY <1>6, <1>7, <1>8 DEF h

LEMMA AnswerKeeps ==
  ASSUME RoundInv, NEW t \in Threads, Receive(t)
  PROVE  /\ th' \in [Threads -> Locals] /\ client' \in [Clients -> Histories]
         /\ \A d \in Clients : Round(th', client'[d], pending', d)
<1> DEFINE c == Owner[t]
           h == client[c].items
           takes(more) == client' = [client EXCEPT ![c] = Took(c, more, th[t])]
           own == OwnCalls[c]
<1>1. /\ c \in Clients /\ h \in Seq(Items) /\ t \in Mine(c) /\ own \subseteq Calls
      /\ Round(th, client[c], pending, c) /\ Fits(th[t], client[c], pending, c)
  BY Typed
<1>2. th[t].at = "ended" /\ th' = [th EXCEPT ![t] = Idle] /\ pending' = pending
  BY DEF Receive
<1>3. ASSUME NEW more, takes(more), more \in Seq(Items), OfCalls(more, own),
             \A k \in 1 .. Len(more) : IsOutput(more[k]) /\ more[k].esc
               => HasRun(h, more[k].call),
             th[t].got = "escalation" =>
               LET a == h \o more IN
               /\ a # <<>> /\ IsOutput(a[Len(a)]) /\ a[Len(a)].esc
               /\ a[Len(a)].call = th[t].fixed
      PROVE  /\ th' \in [Threads -> Locals] /\ client' \in [Clients -> Histories]
             /\ \A d \in Clients : Round(th', client'[d], pending', d)
  <2> DEFINE cl == Took(c, more, th[t])
  <2>1. /\ cl \in Histories /\ History(cl.items, c)
        /\ cl.last = th[t].got /\ cl.crossed = client[c].crossed
        /\ th[t].got # "compacted" => cl.items = h \o more
    BY <1>3, Takes
  <2>2. client' = [client EXCEPT ![c] = cl]
    BY <1>3
  <2> HIDE DEF cl
  <2>3. cl.last = "escalation" /\ ~ cl.crossed => ComesBack(cl, pending)
    <3> SUFFICES ASSUME th[t].got = "escalation", ~ client[c].crossed
                 PROVE  ComesBack(cl, pending)
      BY <2>1
    <3>1. th[t].fixed \in pending
      BY <1>1, <1>2 DEF Fits, Escalated
    <3>2. cl.items = h \o more
      BY <2>1
    <3> QED
      BY <1>3, <3>1, <3>2 DEF ComesBack
  <2>4. ASSUME NEW T \in [Threads -> Locals], T[t] = Idle,
               \A u \in Mine(c) : u # t => T[u] = th[u]
        PROVE  Round(T, cl, pending, c)
    BY <1>1, <1>2, <2>1, <2>3, <2>4, HasAnswer
  <2> QED
    BY <1>2, <2>1, <2>2, <2>4, IdleLocal, OneClient
<1>4. CASE th[t].got # "escalation" /\ takes(<<Talk>>)
  BY <1>3, <1>4, OneRemark
<1>5. CASE th[t].got # "escalation" /\ takes(<<>>)
  <2>1. <<>> \in Seq(Items) /\ OfCalls(<<>>, own) /\ Len(<<>>) = 0
    BY DEF OfCalls
  <2>2. ~ \E k \in 1 .. Len(<<>>) : TRUE
    BY <2>1
  <2> QED
    BY <1>3, <1>5, <2>1, <2>2
<1>6. ASSUME th[t].got = "served", NEW new \in SUBSET Fresh(c), NEW text \in [new -> Says],
             takes(LET k == SetToSeq(new)
                   IN  [i \in DOMAIN k |-> Call(k[i], FALSE)]
                         \o [i \in DOMAIN k |-> Output(k[i], FALSE, text[k[i]])])
      PROVE  /\ th' \in [Threads -> Locals] /\ client' \in [Clients -> Histories]
             /\ \A d \in Clients : Round(th', client'[d], pending', d)
  <2> DEFINE k == SetToSeq(new)
             s == [i \in DOMAIN k |-> Call(k[i], FALSE)]
                    \o [i \in DOMAIN k |-> Output(k[i], FALSE, text[k[i]])]
  <2>1. new \in SUBSET own
    BY DEF Fresh
  <2>2. IsFiniteSet(own) /\ Says \subseteq Texts
    BY <1>1, GateAssumption DEF GateAssumption
  <2>3. IsFiniteSet(new)
    BY <2>1, <2>2, FS_Subset
  <2>4. s \in Seq(Items) /\ OfCalls(s, own) /\ \A i \in 1 .. Len(s) : ~ s[i].esc
    <3>1. text \in [new -> Texts]
      BY <2>2
    <3> QED
      BY <1>1, <2>1, <2>3, <3>1, FirstRuns
  <2>5. takes(s)
    BY <1>6
  <2> HIDE DEF s
  <2> QED
    BY <1>3, <1>6, <2>4, <2>5
<1>7. ASSUME th[t].got = "escalation", NEW text \in {"ok", "readonly"},
             takes(<<Call(th[t].fixed, TRUE), Output(th[t].fixed, TRUE, text)>>)
      PROVE  /\ th' \in [Threads -> Locals] /\ client' \in [Clients -> Histories]
             /\ \A d \in Clients : Round(th', client'[d], pending', d)
  <2> DEFINE s == <<Call(th[t].fixed, TRUE), Output(th[t].fixed, TRUE, text)>>
             a == h \o s
  <2>1. th[t].fixed \in own /\ HasRun(h, th[t].fixed)
    BY <1>1, <1>2, <1>7 DEF Fits, Escalated
  <2>2. text \in Texts
    BY DEF Texts, Denials
  <2>3. /\ s \in Seq(Items) /\ OfCalls(s, own) /\ Len(s) = 2
        /\ \A k \in 1 .. Len(s) : s[k].call = th[t].fixed
        /\ IsOutput(s[2]) /\ s[2].esc
    BY <1>1, <2>1, <2>2, SecondRun
  <2>4. takes(s)
    BY <1>7
  <2> HIDE DEF s
  <2>5. /\ a \in Seq(Items) /\ Len(a) = Len(h) + 2 /\ Len(h) \in Nat
        /\ a[Len(h) + 2] = s[2]
    <3> HIDE DEF h
    <3>1. /\ a \in Seq(Items) /\ Len(a) = Len(h) + Len(s)
          /\ \A i \in 1 .. Len(h) + Len(s) :
               a[i] = IF i <= Len(h) THEN h[i] ELSE s[i - Len(h)]
      <4>1. h \in Seq(Items) /\ s \in Seq(Items)
        BY <1>1, <2>3
      <4> QED
        BY <4>1, ConcatProperties
    <3>2. Len(h) \in Nat
      BY <1>1, LenProperties
    <3> HIDE DEF a
    <3>3. /\ Len(h) + 2 \in 1 .. Len(h) + Len(s) /\ ~ (Len(h) + 2 <= Len(h))
          /\ Len(h) + 2 - Len(h) = 2
      BY <2>3, <3>2
    <3> QED
      BY <2>3, <3>1, <3>2, <3>3
  <2>6. a # <<>> /\ a[Len(a)] = s[2] /\ s[2].call = th[t].fixed
    BY <2>3, <2>5, EmptySeq
  <2> QED
    BY <1>3, <2>1, <2>3, <2>4, <2>6
<1>8. \/ th[t].got # "escalation" /\ (takes(<<Talk>>) \/ takes(<<>>))
      \/ /\ th[t].got = "served"
         /\ \E new \in SUBSET Fresh(c) : \E text \in [new -> Says] :
              takes(LET k == SetToSeq(new)
                    IN  [i \in DOMAIN k |-> Call(k[i], FALSE)]
                          \o [i \in DOMAIN k |-> Output(k[i], FALSE, text[k[i]])])
      \/ /\ th[t].got = "escalation"
         /\ \E text \in {"ok", "readonly"} :
              takes(<<Call(th[t].fixed, TRUE), Output(th[t].fixed, TRUE, text)>>)
  BY DEF Receive
<1> HIDE DEF takes
<1> QED
  BY <1>4, <1>5, <1>6, <1>7, <1>8

LEMMA DepartureKeeps ==
  ASSUME RoundInv, NEW t \in Threads, ClientGoes(t)
  PROVE  /\ th' \in [Threads -> Locals] /\ client' \in [Clients -> Histories]
         /\ \A d \in Clients : Round(th', client'[d], pending', d)
<1> DEFINE c == Owner[t]
           l == [th[t] EXCEPT !.gone = TRUE]
           cl == [client[c] EXCEPT !.last = "nothing"]
<1>1. /\ c \in Clients /\ client[c] \in Histories /\ th[t] \in Locals
      /\ Round(th, client[c], pending, c) /\ t \in Mine(c)
  BY Typed
<1>2. /\ th[t].at \notin {"free", "ended"} /\ ~ th[t].gone
      /\ th' = [th EXCEPT ![t] = l] /\ client' = [client EXCEPT ![c] = cl]
      /\ pending' = pending
  BY DEF ClientGoes
<1>3. /\ l \in Locals /\ l.gone /\ l.at = th[t].at /\ l.items = th[t].items
      /\ l.fixed = th[t].fixed
  BY <1>1 DEF Locals
<1>4. /\ cl \in Histories /\ cl.items = client[c].items /\ cl.last # "escalation"
      /\ cl.crossed = client[c].crossed
  BY <1>1 DEF Histories, Answers
<1> HIDE DEF l, cl
<1>5. ASSUME NEW T \in [Threads -> Locals], T[t] = l,
             \A u \in Mine(c) : u # t => T[u] = th[u]
      PROVE  Round(T, cl, pending, c)
  BY <1>1, <1>2, <1>3, <1>4, <1>5, GoesAway
<1> QED
  BY <1>2, <1>3, <1>4, <1>5, OneClient

(* At the start, and after a restart, no thread is under way.              *)
LEMMA NoneUnderWay ==
  ASSUME NEW c, NEW cl, NEW T, NEW P, History(cl.items, c), cl.last # "escalation",
         \A t \in Mine(c) : T[t] = Idle
  PROVE  Round(T, cl, P, c)
<1>1. Idle.at = "free" /\ ~ Idle.gone
  BY DEF Idle
<1> QED
  BY <1>1 DEF Round, Fits, Live, Escalated, Before

LEMMA RestartsRound ==
  ASSUME RoundInv, Restart
  PROVE  RoundInv'
<1>1. /\ up' = "starting" /\ gate' = Nobody /\ pending' = {} /\ registry' = {} /\ lost' = {}
      /\ th' = [t \in Threads |-> Idle] /\ model' = model
      /\ restarts < MaxRestarts /\ restarts' = restarts + 1
      /\ client' = [c \in Clients |-> [client[c] EXCEPT !.last = "nothing"]]
  BY DEF Restart
<1>2. ASSUME NEW c \in Clients
      PROVE  /\ client'[c] \in Histories /\ client'[c].last # "escalation"
             /\ History(client'[c].items, c)
  <2>1. client[c] \in Histories /\ History(client[c].items, c)
    BY DEF RoundInv, TypeOK, Round
  <2>2. /\ client'[c] \in Histories /\ client'[c].items = client[c].items
        /\ client'[c].last = "nothing"
    BY <1>1, <2>1 DEF Histories, Answers
  <2> QED
    BY <2>1, <2>2
<1>3. client' \in [Clients -> Histories]
  BY <1>1, <1>2
<1>4. \A t \in Threads : th'[t] = Idle
  BY <1>1
<1>5. \A c \in Clients : Round(th', client'[c], pending', c)
  BY <1>2, <1>4, NoneUnderWay DEF Mine
<1>6. restarts' \in 0 .. MaxRestarts
  <2>1. restarts \in 0 .. MaxRestarts /\ MaxRestarts \in Nat
    BY GateAssumption DEF RoundInv, TypeOK, GateAssumption
  <2> QED
    BY <1>1, <2>1
<1>7. TypeOK'
  BY <1>1, <1>3, <1>6, IdleLocal DEF RoundInv, TypeOK
<1> QED
  BY <1>5, <1>7 DEF RoundInv

LEMMA StartsRound ==
  ASSUME Init
  PROVE  RoundInv
<1>1. PICK start \in [Clients -> UNION {Starts[c] : c \in Clients}] :
        /\ \A c \in Clients : start[c] \in Starts[c]
        /\ client = [c \in Clients |-> [items |-> start[c], turns |-> 0,
                                        last |-> "nothing", crossed |-> FALSE]]
  BY DEF Init
<1>2. ASSUME NEW c \in Clients
      PROVE  /\ client[c] \in Histories /\ client[c].last # "escalation"
             /\ History(client[c].items, c)
  <2>1. /\ start[c] \in Seq(Items)
        /\ OfCalls(start[c], OwnCalls[c]) /\ RerunsFollow(start[c])
    BY <1>1, GateAssumption DEF GateAssumption
  <2>2. client[c] = [items |-> start[c], turns |-> 0, last |-> "nothing", crossed |-> FALSE]
    BY <1>1
  <2> QED
    BY <2>1, <2>2 DEF Histories, History, Answers
<1>3. client \in [Clients -> Histories]
  BY <1>1, <1>2
<1>4. th = [t \in Threads |-> Idle]
  BY DEF Init
<1>5. \A c \in Clients : Round(th, client[c], pending, c)
  BY <1>2, <1>4, NoneUnderWay DEF Mine
<1>6. restarts \in 0 .. MaxRestarts
  BY GateAssumption DEF Init, GateAssumption
<1>7. TypeOK
  BY <1>3, <1>4, <1>6, IdleLocal DEF Init, TypeOK
<1> QED
  BY <1>5, <1>7 DEF RoundInv

(* Types, and the round of every client.                                   *)
THEOREM RoundInvariant == Spec => []RoundInv
<1>1. Init => RoundInv
  BY StartsRound
<1>2. RoundInv /\ [Next]_vars => RoundInv'
  <2> SUFFICES ASSUME RoundInv, [Next]_vars PROVE RoundInv'
    OBVIOUS
  <2>0. /\ RestTyped /\ pending \subseteq Calls /\ th \in [Threads -> Locals]
        /\ client \in [Clients -> Histories]
    BY DEF RoundInv, TypeOK, RestTyped
  <2>1. ASSUME NEW t \in Threads, Step(t) PROVE RoundInv'
    <3>1. RestTyped'
      BY <2>1, StepRest
    <3>2. CASE Prepare(t)
      BY <2>0, <3>1, <3>2, PreparationKeeps, AllTyped DEF RoundInv
    <3>3. CASE ~ Prepare(t)
      <4>1. MovesOn(t)
        <5>1. CASE RetryStream(t)
          BY <2>0, <5>1, RetryMovesOn DEF RetryStream, ThreadsTyped
        <5> QED
          BY <2>0, <2>1, <3>3, <5>1, WaitingMovesOn, BeginMovesOn, ServingMovesOn
             DEF Step, ThreadsTyped
      <4>2. UNCHANGED <<client, pending>>
        BY <2>1, <3>3 DEF Step, AwaitStartup, Admit, Through, Assess, AwaitModel,
                          Compact, Begin, ServeStream, RetryStream, ServePlain
      <4> QED
        BY <2>0, <3>1, <4>1, <4>2, MovesOnKeeps, AllTyped DEF RoundInv
    <3> QED
      BY <3>2, <3>3
  <2>2. ASSUME NEW t \in Threads, Arrive(t) \/ Receive(t) \/ ClientGoes(t) PROVE RoundInv'
    <3>1. UNCHANGED <<up, model, gate, pending, registry, restarts>>
      BY <2>2 DEF Arrive, Receive, ClientGoes
    <3>2. lost' \subseteq lost \cup {Request(t)}
      BY <2>2 DEF Arrive, Receive, ClientGoes
    <3>3. RestTyped'
      BY <2>0, <3>1, <3>2, RequestTyped DEF RestTyped
    <3> QED
      BY <2>0, <2>2, <3>1, <3>3, ArrivalKeeps, AnswerKeeps, DepartureKeeps, AllTyped
         DEF RoundInv
  <2>3. CASE Restart
    BY <2>3, RestartsRound
  <2>4. CASE StartupEnds \/ LoadEnds \/ BackendFails \/ Selected \/ UNCHANGED vars
    <3>1. UNCHANGED <<th, client, pending, gate, registry, lost, restarts>>
      BY <2>4 DEF StartupEnds, LoadEnds, BackendFails, Selected, vars
    <3>2. up' \in {"starting", "ready", "failed"}
      BY <2>0, <2>4 DEF StartupEnds, LoadEnds, BackendFails, Selected, vars, RestTyped
    <3>3. model' \in [key : Models, phase : {"ready", "loading", "failed"}]
      <4>1. model \in [key : Models, phase : {"ready", "loading", "failed"}]
        BY <2>0 DEF RestTyped
      <4>2. CASE StartupEnds \/ UNCHANGED vars
        BY <4>1, <4>2 DEF StartupEnds, vars
      <4>3. CASE LoadEnds
        BY <4>1, <4>3 DEF LoadEnds
      <4>4. CASE BackendFails
        BY <4>1, <4>4 DEF BackendFails
      <4>5. CASE Selected
        BY <4>1, <4>5 DEF Selected
      <4> QED
        BY <2>4, <4>2, <4>3, <4>4, <4>5
    <3>4. RestTyped'
      BY <2>0, <3>1, <3>2, <3>3 DEF RestTyped
    <3>5. TypeOK'
      BY <2>0, <3>1, <3>4, AllTyped
    <3> QED
      BY <3>1, <3>5 DEF RoundInv
  <2>5. ASSUME NEW t \in Threads, UpstreamBreaks(t) PROVE RoundInv'
    <3>1. UNCHANGED <<up, model, gate, pending, registry, lost, client, restarts>>
      BY <2>5 DEF UpstreamBreaks
    <3>2. RestTyped'
      BY <2>0, <3>1 DEF RestTyped
    <3>3. MovesOn(t)
      BY <2>0, <2>5, RetryMovesOn DEF UpstreamBreaks, ThreadsTyped
    <3> QED
      BY <2>0, <3>1, <3>2, <3>3, MovesOnKeeps, AllTyped DEF RoundInv
  <2> QED
    BY <2>1, <2>2, <2>3, <2>4, <2>5 DEF Next, Environment
<1> QED
  BY <1>1, <1>2, PTL DEF Spec

(* The gate is well typed: no step writes a value of another kind, and no  *)
(* item of a history is of a command that the client was not given.        *)
THEOREM GateTypes == Spec => []TypeOK
<1>1. RoundInv => TypeOK
  BY DEF RoundInv
<1> QED
  BY <1>1, RoundInvariant, PTL

(* The model reads the result of an escalation, once, and nothing else of  *)
(* the second run.                                                         *)
THEOREM ResultIsRead == Spec => []ResultReachesModel
<1>1. RoundInv => ResultReachesModel
  <2> SUFFICES ASSUME RoundInv, NEW t \in Threads, th[t].at = "serve", th[t].fixed # NoCall
               PROVE  LET items == th[t].items
                          c == th[t].fixed
                          told == client[Owner[t]].items
                          result(k) == IsOutput(items[k]) /\ Of(items[k], c, FALSE)
                      IN  /\ \A k \in DOMAIN items : ~ Of(items[k], c, TRUE)
                          /\ \A j, k \in DOMAIN items : result(j) /\ result(k) => j = k
                          /\ ~ th[t].gone /\ Unspoken(told, c)
                               => \E k \in DOMAIN items :
                                    result(k) /\ Contains(told, Output(c, TRUE, items[k].text))
    BY DEF ResultReachesModel
  <2>1. Resolved(th[t], client[Owner[t]].items)
    BY Typed DEF Fits
  <2> QED
    BY <2>1 DEF Resolved, FirstSays, OfSecond, SecondSays
<1> QED
  BY <1>1, RoundInvariant, PTL

(* The result of an escalation ends the round: its client is not sent      *)
(* another by the same life of the proxy.                                  *)
THEOREM RoundEnds == Spec => []ResultEndsTheRound
<1>1. RoundInv => ResultEndsTheRound
  <2> SUFFICES ASSUME RoundInv, NEW t \in Threads, th[t].at = "ended",
                      client[Owner[t]].last = "escalation", ~ client[Owner[t]].crossed
               PROVE  th[t].got # "escalation"
    BY DEF ResultEndsTheRound
  <2> QED
    BY Typed DEF Round, Escalated
<1> QED
  BY <1>1, RoundInvariant, PTL
=============================================================================
