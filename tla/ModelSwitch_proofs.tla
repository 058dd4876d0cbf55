-------------------------- MODULE ModelSwitch_proofs --------------------------
(***************************************************************************)
(* The types and the safety of the model switch, for all sets of workers   *)
(* and models and any number of rounds: the reloads keep one model in      *)
(* VRAM, serving is not disturbed and the selection is never erased.       *)
(*                                                                         *)
(* None of the three is inductive.  The invariant adds who holds the gate, *)
(* at which places a thread relies on there being a selection, and what a  *)
(* reload has found out about the router and still has to be true when it  *)
(* posts.                                                                  *)
(***************************************************************************)
EXTENDS ModelSwitch, FiniteSetTheorems, TLAPS

-----------------------------------------------------------------------------
(* Types.  The locals of a worker are a record of ten fields; one lemma    *)
(* per helper says what its updates keep, so that the proof of a step      *)
(* never expands the record.                                               *)

(* The file stays a state file, whoever writes it.                         *)
LEMMA FileTypes ==
  ASSUME NEW f \in States, NEW m \in Models \cup {NoModel}, NEW b \in BOOLEAN
  PROVE  /\ Selection(f, m) \in States
         /\ Persisted(f, m) \in States
         /\ LoadSuccess(f) \in States
         /\ LoadFailure(f, b) \in States
  BY DEF States, Selection, Persisted, LoadSuccess, LoadFailure, Status!LoadResults

(* A load changes the status of one model.                                 *)
LEMMA PostType ==
  ASSUME TypeOK, NEW m \in Models \cup {NoModel}, NEW ok \in BOOLEAN, Post(m, ok)
  PROVE  router' \in [Models -> RouterStates] /\ recent' \in BOOLEAN
  BY DEF TypeOK, Post, RouterStates

-----------------------------------------------------------------------------
(* The helpers of the workers.                                             *)
LEMMA NoWorkType == NoWork \in Work
<1>1. NoState \in States
  BY DEF NoState, States, Status!LoadResults
<1> QED
  BY <1>1, SwitchAssumption DEF NoWork, Work

(* A step to a known place.                                                *)
LEMMA GotoType ==
  ASSUME TypeOK, NEW w \in Workers, NEW l \in Pcs, Goto(w, l)
  PROVE  pc' \in [Workers -> Pcs]
  BY DEF TypeOK, Goto

(* A request that is over.                                                 *)
LEMMA FinishType ==
  ASSUME TypeOK, NEW w \in Workers, Finish(w)
  PROVE  pc' \in [Workers -> Pcs] /\ my' \in [Workers -> Work]
<1>1. "idle" \in Pcs
  BY DEF Pcs
<1> QED
  BY <1>1, NoWorkType DEF TypeOK, Finish, Goto

(* The locals that are updated one at a time.                              *)
LEMMA LocalTypes ==
  ASSUME TypeOK, NEW w \in Workers
  PROVE  /\ \A s \in States : [my EXCEPT ![w].seen = s] \in [Workers -> Work]
         /\ \A m \in Models \cup {NoModel} :
              [my EXCEPT ![w].target = m] \in [Workers -> Work]
         /\ \A b \in BOOLEAN : [my EXCEPT ![w].ok = b] \in [Workers -> Work]
         /\ \A m \in Models : [my EXCEPT ![w].todo = @ \ {m}] \in [Workers -> Work]
<1>1. my \in [Workers -> Work] /\ my[w] \in Work
  BY DEF TypeOK
<1>2. ASSUME NEW s \in States PROVE [my EXCEPT ![w].seen = s] \in [Workers -> Work]
  BY <1>1 DEF Work
<1>3. ASSUME NEW m \in Models \cup {NoModel}
      PROVE  [my EXCEPT ![w].target = m] \in [Workers -> Work]
  BY <1>1 DEF Work
<1>4. ASSUME NEW b \in BOOLEAN PROVE [my EXCEPT ![w].ok = b] \in [Workers -> Work]
  BY <1>1 DEF Work
<1>5. ASSUME NEW m \in Models PROVE [my EXCEPT ![w].todo = @ \ {m}] \in [Workers -> Work]
  BY <1>1 DEF Work
<1> QED
  BY <1>2, <1>3, <1>4, <1>5

(* The end of a reload resets what it knew.                                *)
LEMMA EndedType ==
  ASSUME TypeOK, NEW w \in Workers, NEW ok \in BOOLEAN, Ended(w, ok)
  PROVE  pc' \in [Workers -> Pcs] /\ my' \in [Workers -> Work]
<1>1. my \in [Workers -> Work] /\ my[w] \in Work
  BY DEF TypeOK
<1>2. [my[w] EXCEPT !.ok = ok, !.target = NoModel, !.victims = {}, !.todo = {},
                    !.left = 0, !.blind = FALSE] \in Work
  <2>1. 0 \in 0..Rounds
    BY SwitchAssumption
  <2> QED
    BY <1>1, <2>1 DEF Work
<1>3. "record" \in Pcs
  BY DEF Pcs
<1>4. CASE my[w].kind = "recover"
  BY <1>4, FinishType DEF Ended
<1>5. CASE my[w].kind # "recover"
  <2>1. Goto(w, "record")
    BY <1>5 DEF Ended
  <2>2. my' \in [Workers -> Work]
    BY <1>1, <1>2, <1>5 DEF Ended
  <2> QED
    BY <1>3, <2>1, <2>2, GotoType
<1> QED
  BY <1>4, <1>5

(* A round of unloads keeps its victims, its list and its count.           *)
LEMMA RoundType ==
  ASSUME TypeOK, NEW w \in Workers, NEW s \in SUBSET Models, NEW left \in 0..Rounds,
         NEW blind \in BOOLEAN, Round(w, s, left, blind)
  PROVE  pc' \in [Workers -> Pcs] /\ my' \in [Workers -> Work]
<1>1. my \in [Workers -> Work] /\ my[w] \in Work
  BY DEF TypeOK
<1> DEFINE others == s \ {my[w].target}
<1>2. [my[w] EXCEPT !.victims = others, !.todo = others, !.left = left, !.blind = blind] \in Work
  BY <1>1 DEF Work
<1>3. {"load", "unload"} \subseteq Pcs
  BY DEF Pcs, SwapPcs
<1>4. (IF others = {} THEN "load" ELSE "unload") \in Pcs
  BY <1>3
<1> QED
  BY <1>1, <1>2, <1>4, GotoType DEF Round

-----------------------------------------------------------------------------
(* The helpers of the backend.                                             *)
LEMMA StartType ==
  ASSUME TypeOK, Start
  PROVE  /\ phase' \in {"stopped", "starting", "healthy"}
         /\ UNCHANGED <<router, dying, eager, outside>>
BY DEF Start, TypeOK

(* An unload marks models of the router only.                              *)
LEMMA UnloadType ==
  ASSUME TypeOK, NEW m, Unload(m)
  PROVE  dying' \subseteq Models
BY DEF TypeOK, Unload, Active

(* What the inventory shows are models.                                    *)
LEMMA SeenType ==
  /\ \A s \in Seen(Active) : s \in SUBSET Models
  /\ \A s \in Seen(Loaded) : s \in SUBSET Models
BY DEF Seen, Active, Loaded

-----------------------------------------------------------------------------
(* Every reachable state of the switch is well typed: every value a thread *)
(* writes to the state file, the launch model, the router or its own       *)
(* locals is of the kind their readers expect.                             *)
THEOREM TypeCorrect == Spec => []TypeOK
<1>1. Init => TypeOK
  <2> SUFFICES ASSUME Init PROVE TypeOK
    OBVIOUS
  <2>1. file \in States
    <3>1. NoState \in States
      BY DEF NoState, States, Status!LoadResults
    <3>2. ASSUME NEW m \in Models, NEW l \in {"loaded", "failed"}
          PROVE  [selected |-> m, rolledBack |-> l = "failed", lastLoad |-> l,
                  lastGood |-> m] \in States
      BY DEF States, Status!LoadResults
    <3>3. \/ file = NoState
          \/ \E m \in Models, l \in {"loaded", "failed"} :
               file = [selected |-> m, rolledBack |-> l = "failed", lastLoad |-> l,
                       lastGood |-> m]
      BY DEF Init
    <3> QED
      BY <3>1, <3>2, <3>3
  <2>2. launch \in Models \cup {NoModel} /\ router \in [Models -> RouterStates]
    BY DEF Init, RouterStates, NoState
  <2>3. pc \in [Workers -> Pcs] /\ my \in [Workers -> Work]
    BY NoWorkType DEF Init, Pcs
  <2>4. loader \in [Workers -> Loaders]
    BY DEF Init, Loaders, NoLoader
  <2>5. ops \in 0..MaxOps /\ phase \in {"stopped", "starting", "healthy"}
    BY SwitchAssumption DEF Init
  <2>6. /\ dying \subseteq Models /\ eager \subseteq Models
        /\ recent \in BOOLEAN /\ outside \in BOOLEAN
        /\ gate \in Workers \cup {NoModel}
    BY DEF Init
  <2> QED
    BY <2>1, <2>2, <2>3, <2>4, <2>5, <2>6 DEF TypeOK
<1>2. TypeOK /\ [Next]_vars => TypeOK'
  <2> SUFFICES ASSUME TypeOK, [Next]_vars PROVE TypeOK'
    OBVIOUS
  <2>1. ASSUME NEW w \in Workers, Receive(w)
        PROVE  TypeOK'
    <3>1. PICK kind \in Asked, rollback \in BOOLEAN, m \in Models :
            my' = [my EXCEPT ![w] = [NoWork EXCEPT
              !.kind = kind, !.model = IF kind = "status" THEN NoModel ELSE m,
              !.rollback = rollback]]
      BY <2>1 DEF Receive
    <3>2. my' \in [Workers -> Work]
      BY <3>1, NoWorkType, SwitchAssumption DEF TypeOK, Work
    <3>3. pc' \in [Workers -> Pcs]
      BY <2>1 DEF Receive, FirstPc, Goto, TypeOK, Pcs
    <3>4. my' \in [Workers -> Work]
      BY <3>2
    <3>5. /\ gate' \in Workers \cup {NoModel}
           /\ loader' \in [Workers -> Loaders]
           /\ ops' \in 0..MaxOps
      BY <2>1, SwitchAssumption DEF Receive, TypeOK
    <3> QED
      BY <2>1, <3>3, <3>4, <3>5 DEF Receive, backend, TypeOK
  <2>2. ASSUME NEW w \in Workers, ReadState(w)
        PROVE  TypeOK'
    <3>1. pc' \in [Workers -> Pcs]
      BY <2>2, GotoType DEF ReadState, Pcs, SwapPcs, RequestPcs
    <3>2. my' \in [Workers -> Work]
      BY <2>2, LocalTypes DEF ReadState, TypeOK
    <3> QED
      BY <2>2, <3>1, <3>2 DEF ReadState, backend, TypeOK
  <2>3. ASSUME NEW w \in Workers, WriteSelection(w)
        PROVE  TypeOK'
    <3>1. my[w].seen \in States /\ my[w].model \in Models \cup {NoModel}
      BY DEF TypeOK, Work
    <3>2. pc' \in [Workers -> Pcs]
      BY <2>3, GotoType, FinishType DEF WriteSelection, Pcs, RequestPcs
    <3>3. my' \in [Workers -> Work]
      BY <2>3, FinishType DEF WriteSelection, TypeOK
    <3>4. file' \in States /\ launch' \in Models \cup {NoModel}
      BY <2>3, <3>1, FileTypes DEF WriteSelection, TypeOK
    <3> QED
      BY <2>3, <3>2, <3>3, <3>4 DEF WriteSelection, backend, TypeOK
  <2>4. ASSUME NEW w \in Workers, SetLaunch(w)
        PROVE  TypeOK'
    <3>1. pc' \in [Workers -> Pcs]
      BY <2>4, GotoType DEF SetLaunch, Pcs, SwapPcs, RequestPcs
    <3>2. file' \in States /\ launch' \in Models \cup {NoModel}
      BY <2>4 DEF SetLaunch, TypeOK, Work
    <3> QED
      BY <2>4, <3>1, <3>2 DEF SetLaunch, backend, TypeOK
  <2>5. ASSUME NEW w \in Workers, Relaunch(w)
        PROVE  TypeOK'
    <3>1. router' \in [Models -> RouterStates] /\ recent' \in BOOLEAN
      BY <2>5, PostType, StartType DEF Relaunch, PostOutside, TypeOK
    <3>2. phase' \in {"stopped", "starting", "healthy"} /\ dying' \subseteq Models /\ eager' \subseteq Models
      BY <2>5, StartType DEF Relaunch, PostOutside, TypeOK
    <3>3. pc' \in [Workers -> Pcs]
      BY <2>5, FinishType DEF Relaunch
    <3>4. my' \in [Workers -> Work]
      BY <2>5, FinishType DEF Relaunch
    <3>5. /\ phase' \in {"stopped", "starting", "healthy"}
           /\ router' \in [Models -> RouterStates]
           /\ dying' \subseteq Models
           /\ eager' \subseteq Models
      BY <3>1, <3>2
    <3>6. recent' \in BOOLEAN /\ outside' \in BOOLEAN
      BY <2>5, <3>1, StartType DEF Relaunch, PostOutside, TypeOK
    <3>7. /\ gate' \in Workers \cup {NoModel}
           /\ loader' \in [Workers -> Loaders]
           /\ ops' \in 0..MaxOps
      BY <2>5 DEF Relaunch, TypeOK
    <3> QED
      BY <2>5, <3>3, <3>4, <3>5, <3>6, <3>7 DEF Relaunch, backend, TypeOK
  <2>6. ASSUME NEW w \in Workers, Acquire(w)
        PROVE  TypeOK'
    <3>1. pc' \in [Workers -> Pcs]
      BY <2>6, GotoType DEF Acquire, Pcs, SwapPcs, RequestPcs
    <3> QED
      BY <2>6, <3>1 DEF Acquire, backend, TypeOK
  <2>7. ASSUME NEW w \in Workers, Enter(w)
        PROVE  TypeOK'
    <3>1. \/ UNCHANGED my \/ Ended(w, FALSE)
          \/ my' = [my EXCEPT ![w].target = launch]
      BY <2>7 DEF Enter, Return, Leave
    <3>2. [my EXCEPT ![w].target = launch] \in [Workers -> Work]
      BY LocalTypes DEF TypeOK
    <3>3. pc' \in [Workers -> Pcs]
      BY <2>7, GotoType, EndedType DEF Enter, Return, Leave, Pcs, SwapPcs
    <3>4. my' \in [Workers -> Work]
      BY <3>1, <3>2, EndedType DEF TypeOK
    <3>5. /\ phase' \in {"stopped", "starting", "healthy"}
           /\ router' \in [Models -> RouterStates]
           /\ dying' \subseteq Models
           /\ eager' \subseteq Models
      BY <2>7, StartType DEF Enter, backend, TypeOK
    <3>6. recent' \in BOOLEAN /\ outside' \in BOOLEAN
      BY <2>7, StartType DEF Enter, backend, TypeOK
    <3>7. /\ gate' \in Workers \cup {NoModel}
           /\ loader' \in [Workers -> Loaders]
           /\ ops' \in 0..MaxOps
      BY <2>7 DEF Enter, Leave, Return, TypeOK
    <3> QED
      BY <2>7, <3>3, <3>4, <3>5, <3>6, <3>7 DEF Enter, backend, TypeOK
  <2>8. ASSUME NEW w \in Workers, Check(w)
        PROVE  TypeOK'
    <3>1. pc' \in [Workers -> Pcs]
      BY <2>8, GotoType, EndedType DEF Check, Return, Leave, Pcs, SwapPcs
    <3>2. my' \in [Workers -> Work]
      BY <2>8, EndedType DEF Check, Return, Leave, TypeOK
    <3>3. /\ gate' \in Workers \cup {NoModel}
           /\ loader' \in [Workers -> Loaders]
           /\ ops' \in 0..MaxOps
      BY <2>8 DEF Check, Leave, Return, backend, TypeOK
    <3> QED
      BY <2>8, <3>1, <3>2, <3>3 DEF Check, backend, TypeOK
  <2>9. ASSUME NEW w \in Workers, Survey(w)
        PROVE  TypeOK'
    <3>1. PICK blind \in BOOLEAN, s \in Seen(Active) : Round(w, s, Rounds - 1, blind) /\ Overlooks(w, s)
      BY <2>9 DEF Survey
    <3>2. Rounds - 1 \in 0..Rounds /\ s \in SUBSET Models
      BY SwitchAssumption, SeenType
    <3>3. pc' \in [Workers -> Pcs]
      BY <3>1, <3>2, RoundType
    <3>4. my' \in [Workers -> Work]
      BY <3>1, <3>2, RoundType
    <3>5. recent' \in BOOLEAN /\ outside' \in BOOLEAN
      BY <2>9, <3>1 DEF Survey, Overlooks, TypeOK
    <3> QED
      BY <2>9, <3>3, <3>4, <3>5 DEF Survey, backend, TypeOK
  <2>10. ASSUME NEW w \in Workers, UnloadOther(w)
        PROVE  TypeOK'
    <3>1. PICK m \in my[w].todo :
            my' = [my EXCEPT ![w].todo = @ \ {m}] \/ Ended(w, FALSE)
      BY <2>10 DEF UnloadOther, Return
    <3>2. m \in Models
      BY DEF TypeOK, Work
    <3>3. [my EXCEPT ![w].todo = @ \ {m}] \in [Workers -> Work]
      BY <3>2, LocalTypes
    <3>4. pc' \in [Workers -> Pcs]
      BY <2>10, GotoType, EndedType DEF UnloadOther, Return, Pcs, SwapPcs
    <3>5. my' \in [Workers -> Work]
      BY <3>1, <3>3, EndedType
    <3>6. /\ phase' \in {"stopped", "starting", "healthy"}
           /\ router' \in [Models -> RouterStates]
           /\ dying' \subseteq Models
           /\ eager' \subseteq Models
      BY <2>10, UnloadType DEF UnloadOther, TypeOK
    <3>7. /\ gate' \in Workers \cup {NoModel}
           /\ loader' \in [Workers -> Loaders]
           /\ ops' \in 0..MaxOps
      BY <2>10 DEF UnloadOther, Leave, Return, backend, TypeOK
    <3> QED
      BY <2>10, <3>4, <3>5, <3>6, <3>7 DEF UnloadOther, backend, TypeOK
  <2>11. ASSUME NEW w \in Workers, PolledGone(w)
        PROVE  TypeOK'
    <3>1. pc' \in [Workers -> Pcs]
      BY <2>11, GotoType DEF PolledGone, Pcs, SwapPcs, RequestPcs
    <3>2. recent' \in BOOLEAN /\ outside' \in BOOLEAN
      BY <2>11 DEF PolledGone, Overlooks, TypeOK
    <3> QED
      BY <2>11, <3>1, <3>2 DEF PolledGone, backend, TypeOK
  <2>12. ASSUME NEW w \in Workers, PolledOut(w)
        PROVE  TypeOK'
    <3>1. my[w].left \in 0..Rounds /\ my[w].blind \in BOOLEAN /\ my[w].victims \in SUBSET Models
      BY DEF TypeOK, Work
    <3>2. my[w].left > 0 => my[w].left - 1 \in 0..Rounds
      BY <3>1, SwitchAssumption
    <3>3. \A s : s \in (IF my[w].blind THEN Seen(Active) ELSE {my[w].victims}) => s \in SUBSET Models
      BY <3>1, SeenType
    <3>4. pc' \in [Workers -> Pcs] /\ my' \in [Workers -> Work]
      BY <2>12, <3>1, <3>2, <3>3, RoundType, EndedType DEF PolledOut, Return
    <3>5. pc' \in [Workers -> Pcs]
      BY <3>4
    <3>6. my' \in [Workers -> Work]
      BY <3>4
    <3>7. recent' \in BOOLEAN /\ outside' \in BOOLEAN
      BY <2>12 DEF PolledOut, Overlooks, TypeOK
    <3>8. /\ gate' \in Workers \cup {NoModel}
           /\ loader' \in [Workers -> Loaders]
           /\ ops' \in 0..MaxOps
      BY <2>12 DEF PolledOut, Leave, Return, backend, TypeOK
    <3> QED
      BY <2>12, <3>5, <3>6, <3>7, <3>8 DEF PolledOut, backend, TypeOK
  <2>13. ASSUME NEW w \in Workers, LoadTarget(w)
        PROVE  TypeOK'
    <3>1. my[w].target \in Models \cup {NoModel}
      BY DEF TypeOK, Work
    <3>2. router' \in [Models -> RouterStates] /\ recent' \in BOOLEAN
      BY <2>13, <3>1, PostType DEF LoadTarget
    <3>3. pc' \in [Workers -> Pcs]
      BY <2>13, GotoType DEF LoadTarget, Leave, Pcs, SwapPcs
    <3>4. my' \in [Workers -> Work]
      BY <2>13 DEF LoadTarget, Leave, TypeOK
    <3>5. /\ phase' \in {"stopped", "starting", "healthy"}
           /\ router' \in [Models -> RouterStates]
           /\ dying' \subseteq Models
           /\ eager' \subseteq Models
      BY <2>13, <3>2 DEF LoadTarget, TypeOK
    <3>6. recent' \in BOOLEAN /\ outside' \in BOOLEAN
      BY <2>13, <3>2 DEF LoadTarget, TypeOK
    <3>7. /\ gate' \in Workers \cup {NoModel}
           /\ loader' \in [Workers -> Loaders]
           /\ ops' \in 0..MaxOps
      BY <2>13 DEF LoadTarget, Leave, TypeOK
    <3> QED
      BY <2>13, <3>3, <3>4, <3>5, <3>6, <3>7 DEF LoadTarget, backend, TypeOK
  <2>14. ASSUME NEW w \in Workers, Recheck(w)
        PROVE  TypeOK'
    <3>1. pc' \in [Workers -> Pcs]
      BY <2>14, GotoType, EndedType DEF Recheck, Return, Leave, Pcs, SwapPcs
    <3>2. my' \in [Workers -> Work]
      BY <2>14, EndedType DEF Recheck, Return, Leave, TypeOK
    <3>3. /\ gate' \in Workers \cup {NoModel}
           /\ loader' \in [Workers -> Loaders]
           /\ ops' \in 0..MaxOps
      BY <2>14 DEF Recheck, Leave, Return, backend, TypeOK
    <3> QED
      BY <2>14, <3>1, <3>2, <3>3 DEF Recheck, backend, TypeOK
  <2>15. ASSUME NEW w \in Workers, Await(w)
        PROVE  TypeOK'
    <3>1. pc' \in [Workers -> Pcs]
      BY <2>15, EndedType DEF Await
    <3>2. my' \in [Workers -> Work]
      BY <2>15, EndedType DEF Await
    <3> QED
      BY <2>15, <3>1, <3>2 DEF Await, backend, TypeOK
  <2>16. ASSUME NEW w \in Workers, RecordRead(w)
        PROVE  TypeOK'
    <3>1. pc' \in [Workers -> Pcs]
      BY <2>16, GotoType DEF RecordRead, Pcs, SwapPcs, RequestPcs
    <3>2. my' \in [Workers -> Work]
      BY <2>16, LocalTypes DEF RecordRead, TypeOK
    <3> QED
      BY <2>16, <3>1, <3>2 DEF RecordRead, backend, TypeOK
  <2>17. ASSUME NEW w \in Workers, Judge(w)
        PROVE  TypeOK'
    <3>1. my[w].ok \in BOOLEAN
      BY DEF TypeOK, Work
    <3>2. PICK s \in Seen(Loaded), oom \in BOOLEAN : my' = [my EXCEPT ![w].ok = my[w].ok /\ (launch \in s \/ ~oom)]
      BY <2>17 DEF Judge
    <3>3. (my[w].ok /\ (launch \in s \/ ~oom)) \in BOOLEAN
      OBVIOUS
    <3>4. pc' \in [Workers -> Pcs]
      BY <2>17, GotoType DEF Judge, Pcs, SwapPcs, RequestPcs
    <3>5. my' \in [Workers -> Work]
      BY <3>2, <3>3, LocalTypes
    <3> QED
      BY <2>17, <3>4, <3>5 DEF Judge, backend, TypeOK
  <2>18. ASSUME NEW w \in Workers, Settle(w)
        PROVE  TypeOK'
    <3>1. my[w].seen \in States /\ my[w].rollback \in BOOLEAN
      BY DEF TypeOK, Work
    <3>2. pc' \in [Workers -> Pcs]
      BY <2>18, FinishType DEF Settle
    <3>3. my' \in [Workers -> Work]
      BY <2>18, FinishType DEF Settle
    <3>4. file' \in States /\ launch' \in Models \cup {NoModel}
      BY <2>18, <3>1, FileTypes, SwitchAssumption DEF Settle, TypeOK
    <3> QED
      BY <2>18, <3>2, <3>3, <3>4 DEF Settle, backend, TypeOK
  <2>19. ASSUME NEW w \in Workers, Assess(w)
        PROVE  TypeOK'
    <3>1. pc' \in [Workers -> Pcs]
      BY <2>19, GotoType DEF Assess, Pcs, SwapPcs, RequestPcs
    <3> QED
      BY <2>19, <3>1 DEF Assess, backend, TypeOK
  <2>20. ASSUME NEW w \in Workers, Trigger(w)
        PROVE  TypeOK'
    <3>1. pc' \in [Workers -> Pcs]
      BY <2>20, GotoType DEF Trigger, Pcs, SwapPcs, RequestPcs
    <3>2. file' \in States /\ launch' \in Models \cup {NoModel}
      BY <2>20 DEF Trigger, TypeOK, Work
    <3> QED
      BY <2>20, <3>1, <3>2 DEF Trigger, backend, TypeOK
  <2>21. ASSUME NEW w \in Workers, Spawn(w)
        PROVE  TypeOK'
    <3>1. pc' \in [Workers -> Pcs]
      BY <2>21, GotoType DEF Spawn, Pcs, SwapPcs, RequestPcs
    <3>2. /\ phase' \in {"stopped", "starting", "healthy"}
           /\ router' \in [Models -> RouterStates]
           /\ dying' \subseteq Models
           /\ eager' \subseteq Models
      BY <2>21, StartType DEF Spawn, backend, TypeOK
    <3>3. recent' \in BOOLEAN /\ outside' \in BOOLEAN
      BY <2>21, StartType DEF Spawn, backend, TypeOK
    <3>4. /\ gate' \in Workers \cup {NoModel}
           /\ loader' \in [Workers -> Loaders]
           /\ ops' \in 0..MaxOps
      BY <2>21, SeenType DEF Spawn, Loaders, TypeOK
    <3> QED
      BY <2>21, <3>1, <3>2, <3>3, <3>4 DEF Spawn, backend, TypeOK
  <2>22. ASSUME NEW w \in Workers, Decide(w)
        PROVE  TypeOK'
    <3>1. pc' \in [Workers -> Pcs]
      BY <2>22, GotoType, FinishType DEF Decide, Refuse, Pcs, RequestPcs
    <3>2. my' \in [Workers -> Work]
      BY <2>22, FinishType DEF Decide, Refuse, TypeOK
    <3>3. /\ gate' \in Workers \cup {NoModel}
           /\ loader' \in [Workers -> Loaders]
           /\ ops' \in 0..MaxOps
      BY <2>22 DEF Decide, Refuse, TypeOK
    <3> QED
      BY <2>22, <3>1, <3>2, <3>3 DEF Decide, backend, TypeOK
  <2>23. ASSUME NEW w \in Workers, Hold(w)
        PROVE  TypeOK'
    <3>1. pc' \in [Workers -> Pcs]
      BY <2>23, GotoType, FinishType DEF Hold, Refuse, Pcs, RequestPcs
    <3>2. my' \in [Workers -> Work]
      BY <2>23, FinishType DEF Hold, Refuse, TypeOK
    <3>3. /\ gate' \in Workers \cup {NoModel}
           /\ loader' \in [Workers -> Loaders]
           /\ ops' \in 0..MaxOps
      BY <2>23 DEF Hold, Refuse, TypeOK
    <3> QED
      BY <2>23, <3>1, <3>2, <3>3 DEF Hold, backend, TypeOK
  <2>24. ASSUME NEW w \in Workers, Serve(w)
        PROVE  TypeOK'
    <3>1. pc' \in [Workers -> Pcs]
      BY <2>24, GotoType, FinishType DEF Serve, Refuse, Pcs, RequestPcs
    <3>2. my' \in [Workers -> Work]
      BY <2>24, FinishType DEF Serve, Refuse, TypeOK
    <3>3. /\ gate' \in Workers \cup {NoModel}
           /\ loader' \in [Workers -> Loaders]
           /\ ops' \in 0..MaxOps
      BY <2>24 DEF Serve, Refuse, TypeOK
    <3> QED
      BY <2>24, <3>1, <3>2, <3>3 DEF Serve, backend, TypeOK
  <2>25. ASSUME NEW w \in Workers, LoaderUnload(w)
        PROVE  TypeOK'
    <3>1. loader \in [Workers -> Loaders] /\ loader[w] \in Loaders
      BY DEF TypeOK
    <3>2. PICK m \in loader[w].todo :
            loader' = [loader EXCEPT ![w] = [loader[w] EXCEPT !.todo = loader[w].todo \ {m},
                         !.pc = IF loader[w].todo = {m} THEN "load" ELSE loader[w].pc]]
      BY <2>25 DEF LoaderUnload
    <3>3. [loader[w] EXCEPT !.todo = loader[w].todo \ {m},
           !.pc = IF loader[w].todo = {m} THEN "load" ELSE loader[w].pc] \in Loaders
      BY <3>1 DEF Loaders
    <3>4. loader' \in [Workers -> Loaders]
      BY <3>1, <3>2, <3>3
    <3>5. /\ phase' \in {"stopped", "starting", "healthy"}
           /\ router' \in [Models -> RouterStates]
           /\ dying' \subseteq Models
           /\ eager' \subseteq Models
      BY <2>25, UnloadType DEF LoaderUnload, TypeOK
    <3>6. /\ gate' \in Workers \cup {NoModel}
           /\ loader' \in [Workers -> Loaders]
           /\ ops' \in 0..MaxOps
      BY <2>25, <3>4 DEF LoaderUnload, TypeOK
    <3> QED
      BY <2>25, <3>5, <3>6 DEF LoaderUnload, backend, TypeOK
  <2>26. ASSUME NEW w \in Workers, LoaderLoad(w)
        PROVE  TypeOK'
    <3>1. loader[w].todo \subseteq Models /\ loader[w].target \in Models \cup {NoModel}
      BY DEF TypeOK, Loaders
    <3>2. router' \in [Models -> RouterStates] /\ recent' \in BOOLEAN
      BY <2>26, <3>1, PostType DEF LoaderLoad, PostOutside
    <3>3. /\ phase' \in {"stopped", "starting", "healthy"}
           /\ router' \in [Models -> RouterStates]
           /\ dying' \subseteq Models
           /\ eager' \subseteq Models
      BY <2>26, <3>2 DEF LoaderLoad, PostOutside, TypeOK
    <3>4. recent' \in BOOLEAN /\ outside' \in BOOLEAN
      BY <2>26, <3>2 DEF LoaderLoad, PostOutside, TypeOK
    <3>5. /\ gate' \in Workers \cup {NoModel}
           /\ loader' \in [Workers -> Loaders]
           /\ ops' \in 0..MaxOps
      BY <2>26 DEF LoaderLoad, Loaders, NoLoader, TypeOK
    <3> QED
      BY <2>26, <3>3, <3>4, <3>5 DEF LoaderLoad, backend, TypeOK
  <2>27. ASSUME NEW w \in Workers, LoaderCheck(w)
        PROVE  TypeOK'
    <3>1. /\ phase' \in {"stopped", "starting", "healthy"}
           /\ router' \in [Models -> RouterStates]
           /\ dying' \subseteq Models
           /\ eager' \subseteq Models
      BY <2>27, UnloadType DEF LoaderCheck, TypeOK
    <3>2. /\ gate' \in Workers \cup {NoModel}
           /\ loader' \in [Workers -> Loaders]
           /\ ops' \in 0..MaxOps
      BY <2>27 DEF LoaderCheck, TypeOK, Loaders, NoLoader
    <3> QED
      BY <2>27, <3>1, <3>2 DEF LoaderCheck, backend, TypeOK
  <2>28. ASSUME NEW w \in Workers, Peek(w)
        PROVE  TypeOK'
    <3>1. pc' \in [Workers -> Pcs]
      BY <2>28, GotoType DEF Peek, Pcs, SwapPcs, RequestPcs
    <3>2. my' \in [Workers -> Work]
      BY <2>28, LocalTypes DEF Peek, TypeOK
    <3> QED
      BY <2>28, <3>1, <3>2 DEF Peek, backend, TypeOK
  <2>29. ASSUME NEW w \in Workers, Reconcile(w)
        PROVE  TypeOK'
    <3>1. my[w].seen \in States
      BY DEF TypeOK, Work
    <3>2. pc' \in [Workers -> Pcs]
      BY <2>29, GotoType DEF Reconcile, Pcs, SwapPcs, RequestPcs
    <3>3. file' \in States /\ launch' \in Models \cup {NoModel}
      BY <2>29, <3>1, FileTypes DEF Reconcile, TypeOK
    <3> QED
      BY <2>29, <3>2, <3>3 DEF Reconcile, backend, TypeOK
  <2>30. ASSUME NEW w \in Workers, NoteRead(w)
        PROVE  TypeOK'
    <3>1. pc' \in [Workers -> Pcs]
      BY <2>30, GotoType, FinishType DEF NoteRead, Pcs
    <3>2. my' \in [Workers -> Work]
      BY <2>30, LocalTypes, FinishType DEF NoteRead, TypeOK
    <3> QED
      BY <2>30, <3>1, <3>2 DEF NoteRead, backend, TypeOK
  <2>31. ASSUME NEW w \in Workers, Note(w)
        PROVE  TypeOK'
    <3>1. my[w].seen \in States
      BY DEF TypeOK, Work
    <3>2. pc' \in [Workers -> Pcs]
      BY <2>31, FinishType DEF Note
    <3>3. my' \in [Workers -> Work]
      BY <2>31, FinishType DEF Note
    <3>4. file' \in States /\ launch' \in Models \cup {NoModel}
      BY <2>31, <3>1, FileTypes, SwitchAssumption DEF Note, TypeOK
    <3> QED
      BY <2>31, <3>2, <3>3, <3>4 DEF Note, backend, TypeOK
  <2>32. ASSUME ComesUp
        PROVE  TypeOK'
    BY <2>32 DEF ComesUp, backend, TypeOK
  <2>33. ASSUME GoesDown
        PROVE  TypeOK'
    <3>1. /\ phase' \in {"stopped", "starting", "healthy"}
           /\ router' \in [Models -> RouterStates]
           /\ dying' \subseteq Models
           /\ eager' \subseteq Models
      BY <2>33 DEF GoesDown, TypeOK, RouterStates
    <3> QED
      BY <2>33, <3>1 DEF GoesDown, backend, TypeOK
  <2>34. ASSUME EagerPost
        PROVE  TypeOK'
    <3>1. PICK m \in eager, ok \in BOOLEAN : PostOutside(m, ok) /\ eager' = eager \ {m}
      BY <2>34 DEF EagerPost
    <3>2. m \in Models
      BY DEF TypeOK
    <3>3. router' \in [Models -> RouterStates] /\ recent' \in BOOLEAN
      BY <3>1, <3>2, PostType DEF PostOutside
    <3>4. /\ phase' \in {"stopped", "starting", "healthy"}
           /\ router' \in [Models -> RouterStates]
           /\ dying' \subseteq Models
           /\ eager' \subseteq Models
      BY <3>1, <3>3 DEF PostOutside, TypeOK
    <3>5. recent' \in BOOLEAN /\ outside' \in BOOLEAN
      BY <3>1, <3>3 DEF PostOutside, TypeOK
    <3> QED
      BY <2>34, <3>4, <3>5 DEF EagerPost, backend, TypeOK
  <2>35. ASSUME RecentExpires
        PROVE  TypeOK'
    BY <2>35 DEF RecentExpires, backend, TypeOK
  <2>36. ASSUME NEW m \in Models, LoadEnds(m)
        PROVE  TypeOK'
    <3>1. /\ phase' \in {"stopped", "starting", "healthy"}
           /\ router' \in [Models -> RouterStates]
           /\ dying' \subseteq Models
           /\ eager' \subseteq Models
      BY <2>36 DEF LoadEnds, TypeOK, RouterStates
    <3> QED
      BY <2>36, <3>1 DEF LoadEnds, backend, TypeOK
  <2>37. ASSUME NEW m \in Models, UnloadEnds(m)
        PROVE  TypeOK'
    <3>1. /\ phase' \in {"stopped", "starting", "healthy"}
           /\ router' \in [Models -> RouterStates]
           /\ dying' \subseteq Models
           /\ eager' \subseteq Models
      BY <2>37 DEF UnloadEnds, TypeOK, RouterStates
    <3> QED
      BY <2>37, <3>1 DEF UnloadEnds, backend, TypeOK
  <2>38. ASSUME UNCHANGED vars
        PROVE  TypeOK'
    BY <2>38 DEF vars, backend, TypeOK
  <2> QED
    BY <2>1, <2>2, <2>3, <2>4, <2>5, <2>6, <2>7, <2>8, <2>9, <2>10, <2>11,
       <2>12, <2>13, <2>14, <2>15, <2>16, <2>17, <2>18, <2>19, <2>20, <2>21,
       <2>22, <2>23, <2>24, <2>25, <2>26, <2>27, <2>28, <2>29, <2>30, <2>31,
       <2>32, <2>33, <2>34, <2>35, <2>36, <2>37, <2>38
       DEF Next, Worker, Reload, Respond, Persist, Loader, Backend, Quiet
<1> QED
  BY <1>1, <1>2, PTL DEF Spec

-----------------------------------------------------------------------------
(* The invariant the safety theorems rest on.                              *)

(* w is inside the request gate: a reload between its look at the router   *)
(* and its last call to it, or a request that is assessed or served.       *)
InGate(w) ==
  \/ pc[w] \in SwapPcs
  \/ pc[w] \in RequestPcs \ {"read", "write"}
  \/ pc[w] \in {"read", "write"} /\ my[w].kind = "request"

GateInv == \A w \in Workers : InGate(w) => gate = w

(* Threads that got as far as this found, or made, a selection ...         *)
Chosen(w) ==
  \/ pc[w] \in {"launch", "wait", "record", "note_read"} \cup SwapPcs
  \/ pc[w] = "queue" /\ my[w].kind # "request"

(* ... and these hold a copy of the state file to write back.              *)
Copied(w) == pc[w] \in {"judge", "settle", "note"}

Unnamed == {"idle", "peek", "reconcile", "note_read", "note"}

HasModel(w) ==
  /\ pc[w] \notin Unnamed => my[w].model \in Models
  /\ Chosen(w) => file.selected # NoModel
  /\ Copied(w) => my[w].seen.selected # NoModel

SelectionInv == \A w \in Workers : HasModel(w)

(* What a reload has found out about the router stays true until it posts. *)
Known(w) ==
  /\ pc[w] \in {"unload", "poll"} => Active \subseteq my[w].victims \cup {my[w].target}
  /\ pc[w] = "load" => Active \subseteq {my[w].target}

AtMostOne == \A m, n \in Active : m = n

OneModelInv == ~outside => AtMostOne /\ \A w \in Workers : Known(w)

IInv == TypeOK /\ GateInv /\ SelectionInv /\ OneModelInv

OnlyThread(w) == \A v \in Workers \ {w} : pc'[v] = pc[v] /\ my'[v] = my[v]

GateChange(w) ==
  /\ InGate(w)' => gate' = w
  /\ gate' # gate => gate = w \/ (gate = NoModel /\ gate' = w)

KeepsSelection == file.selected # NoModel => file'.selected # NoModel

(* A step of a thread changes no other thread's place or locals.           *)
LEMMA OwnLocals ==
  ASSUME TypeOK, NEW w \in Workers, Receive(w) \/ Worker(w) \/ Loader(w)
  PROVE  OnlyThread(w)
<1>1. CASE Receive(w)
  BY <1>1 DEF Receive, Goto, FirstPc, TypeOK, OnlyThread
<1>2. CASE ReadState(w)
  BY <1>2 DEF ReadState, Goto, TypeOK, OnlyThread
<1>3. CASE WriteSelection(w)
  BY <1>3 DEF WriteSelection, Goto, Finish, TypeOK, OnlyThread
<1>4. CASE SetLaunch(w)
  BY <1>4 DEF SetLaunch, Goto, TypeOK, OnlyThread
<1>5. CASE Relaunch(w)
  BY <1>5 DEF Relaunch, Goto, Finish, TypeOK, OnlyThread
<1>6. CASE Acquire(w)
  BY <1>6 DEF Acquire, Goto, TypeOK, OnlyThread
<1>7. CASE Enter(w)
  BY <1>7 DEF Enter, Goto, Return, Ended, Leave, Finish, TypeOK, OnlyThread
<1>8. CASE Check(w)
  BY <1>8 DEF Check, Goto, Return, Ended, Finish, TypeOK, OnlyThread
<1>9. CASE Survey(w)
  BY <1>9 DEF Survey, Goto, Round, TypeOK, OnlyThread
<1>10. CASE UnloadOther(w)
  BY <1>10 DEF UnloadOther, Goto, Return, Ended, Finish, TypeOK, OnlyThread
<1>11. CASE PolledGone(w)
  BY <1>11 DEF PolledGone, Goto, TypeOK, OnlyThread
<1>12. CASE PolledOut(w)
  BY <1>12 DEF PolledOut, Goto, Return, Round, Ended, Finish, TypeOK, OnlyThread
<1>13. CASE LoadTarget(w)
  BY <1>13 DEF LoadTarget, Goto, Leave, TypeOK, OnlyThread
<1>14. CASE Recheck(w)
  BY <1>14 DEF Recheck, Goto, Leave, Return, Ended, Finish, TypeOK, OnlyThread
<1>15. CASE Await(w)
  BY <1>15 DEF Await, Goto, Ended, Finish, TypeOK, OnlyThread
<1>16. CASE RecordRead(w)
  BY <1>16 DEF RecordRead, Goto, TypeOK, OnlyThread
<1>17. CASE Judge(w)
  BY <1>17 DEF Judge, Goto, TypeOK, OnlyThread
<1>18. CASE Settle(w)
  BY <1>18 DEF Settle, Goto, Finish, TypeOK, OnlyThread
<1>19. CASE Assess(w)
  BY <1>19 DEF Assess, Goto, TypeOK, OnlyThread
<1>20. CASE Trigger(w)
  BY <1>20 DEF Trigger, Goto, TypeOK, OnlyThread
<1>21. CASE Spawn(w)
  BY <1>21 DEF Spawn, Goto, TypeOK, OnlyThread
<1>22. CASE Decide(w)
  BY <1>22 DEF Decide, Goto, Refuse, Finish, TypeOK, OnlyThread
<1>23. CASE Hold(w)
  BY <1>23 DEF Hold, Goto, Refuse, Finish, TypeOK, OnlyThread
<1>24. CASE Serve(w)
  BY <1>24 DEF Serve, Goto, Refuse, Finish, TypeOK, OnlyThread
<1>25. CASE LoaderUnload(w)
  BY <1>25 DEF LoaderUnload, Goto, TypeOK, OnlyThread
<1>26. CASE LoaderLoad(w)
  BY <1>26 DEF LoaderLoad, Goto, TypeOK, OnlyThread
<1>27. CASE LoaderCheck(w)
  BY <1>27 DEF LoaderCheck, Goto, TypeOK, OnlyThread
<1>28. CASE Peek(w)
  BY <1>28 DEF Peek, Goto, TypeOK, OnlyThread
<1>29. CASE Reconcile(w)
  BY <1>29 DEF Reconcile, Goto, TypeOK, OnlyThread
<1>30. CASE NoteRead(w)
  BY <1>30 DEF NoteRead, Goto, Finish, TypeOK, OnlyThread
<1>31. CASE Note(w)
  BY <1>31 DEF Note, Goto, Finish, TypeOK, OnlyThread
<1> QED
  BY <1>1, <1>2, <1>3, <1>4, <1>5, <1>6, <1>7, <1>8, <1>9, <1>10, <1>11,
     <1>12, <1>13, <1>14, <1>15, <1>16, <1>17, <1>18, <1>19, <1>20, <1>21,
     <1>22, <1>23, <1>24, <1>25, <1>26, <1>27, <1>28, <1>29, <1>30, <1>31
     DEF Worker, Reload, Respond, Persist, Loader

(* A thread that steps into the gate takes it, and only its holder gives it *)
(* back.                                                                   *)
LEMMA GateStep ==
  ASSUME TypeOK, GateInv, NEW w \in Workers, Receive(w) \/ Worker(w) \/ Loader(w)
  PROVE  GateChange(w)
<1>1. CASE Receive(w)
  <2>1. PICK kind \in Asked, m \in Models \cup {NoModel}, rollback \in BOOLEAN :
          my' = [my EXCEPT ![w] = [NoWork EXCEPT !.kind = kind, !.model = m,
                                                 !.rollback = rollback]]
          /\ Goto(w, FirstPc(kind))
    BY <1>1 DEF Receive
  <2>2. my'[w].kind = kind /\ pc'[w] = FirstPc(kind) /\ UNCHANGED gate
    BY <1>1, <2>1 DEF Receive, Goto, NoWork, TypeOK
  <2> QED
    BY <2>2 DEF FirstPc, InGate, GateChange, SwapPcs, RequestPcs
<1>2. CASE ReadState(w)
  BY <1>2, SwitchAssumption
     DEF ReadState, Goto, GateInv, InGate, GateChange, SwapPcs, RequestPcs,
         TypeOK
<1>3. CASE WriteSelection(w)
  BY <1>3, SwitchAssumption
     DEF WriteSelection, Goto, Finish, GateInv, InGate, GateChange, SwapPcs,
         RequestPcs, TypeOK
<1>4. CASE SetLaunch(w)
  BY <1>4, SwitchAssumption
     DEF SetLaunch, Goto, GateInv, InGate, GateChange, SwapPcs, RequestPcs,
         TypeOK
<1>5. CASE Relaunch(w)
  BY <1>5, SwitchAssumption
     DEF Relaunch, Goto, Finish, GateInv, InGate, GateChange, SwapPcs,
         RequestPcs, TypeOK
<1>6. CASE Acquire(w)
  BY <1>6, SwitchAssumption
     DEF Acquire, Goto, GateInv, InGate, GateChange, SwapPcs, RequestPcs, TypeOK
<1>7. CASE Enter(w)
  BY <1>7, SwitchAssumption
     DEF Enter, Goto, Return, Ended, Leave, Finish, GateInv, InGate, GateChange,
         SwapPcs, RequestPcs, TypeOK
<1>8. CASE Check(w)
  BY <1>8, SwitchAssumption
     DEF Check, Goto, Return, Ended, Finish, GateInv, InGate, GateChange,
         SwapPcs, RequestPcs, TypeOK
<1>9. CASE Survey(w)
  BY <1>9, SwitchAssumption
     DEF Survey, Goto, Round, GateInv, InGate, GateChange, SwapPcs, RequestPcs,
         TypeOK
<1>10. CASE UnloadOther(w)
  BY <1>10, SwitchAssumption
     DEF UnloadOther, Goto, Return, Ended, Finish, GateInv, InGate, GateChange,
         SwapPcs, RequestPcs, TypeOK
<1>11. CASE PolledGone(w)
  BY <1>11, SwitchAssumption
     DEF PolledGone, Goto, GateInv, InGate, GateChange, SwapPcs, RequestPcs,
         TypeOK
<1>12. CASE PolledOut(w)
  BY <1>12, SwitchAssumption
     DEF PolledOut, Goto, Return, Round, Ended, Finish, GateInv, InGate,
         GateChange, SwapPcs, RequestPcs, TypeOK
<1>13. CASE LoadTarget(w)
  BY <1>13, SwitchAssumption
     DEF LoadTarget, Goto, Leave, GateInv, InGate, GateChange, SwapPcs,
         RequestPcs, TypeOK
<1>14. CASE Recheck(w)
  BY <1>14, SwitchAssumption
     DEF Recheck, Goto, Leave, Return, Ended, Finish, GateInv, InGate,
         GateChange, SwapPcs, RequestPcs, TypeOK
<1>15. CASE Await(w)
  BY <1>15, SwitchAssumption
     DEF Await, Goto, Ended, Finish, GateInv, InGate, GateChange, SwapPcs,
         RequestPcs, TypeOK
<1>16. CASE RecordRead(w)
  BY <1>16, SwitchAssumption
     DEF RecordRead, Goto, GateInv, InGate, GateChange, SwapPcs, RequestPcs,
         TypeOK
<1>17. CASE Judge(w)
  BY <1>17, SwitchAssumption
     DEF Judge, Goto, GateInv, InGate, GateChange, SwapPcs, RequestPcs, TypeOK
<1>18. CASE Settle(w)
  BY <1>18, SwitchAssumption
     DEF Settle, Goto, Finish, GateInv, InGate, GateChange, SwapPcs, RequestPcs,
         TypeOK
<1>19. CASE Assess(w)
  BY <1>19, SwitchAssumption
     DEF Assess, Goto, GateInv, InGate, GateChange, SwapPcs, RequestPcs, TypeOK
<1>20. CASE Trigger(w)
  BY <1>20, SwitchAssumption
     DEF Trigger, Goto, GateInv, InGate, GateChange, SwapPcs, RequestPcs, TypeOK
<1>21. CASE Spawn(w)
  BY <1>21, SwitchAssumption
     DEF Spawn, Goto, GateInv, InGate, GateChange, SwapPcs, RequestPcs, TypeOK
<1>22. CASE Decide(w)
  BY <1>22, SwitchAssumption
     DEF Decide, Goto, Refuse, Finish, GateInv, InGate, GateChange, SwapPcs,
         RequestPcs, TypeOK
<1>23. CASE Hold(w)
  BY <1>23, SwitchAssumption
     DEF Hold, Goto, Refuse, Finish, GateInv, InGate, GateChange, SwapPcs,
         RequestPcs, TypeOK
<1>24. CASE Serve(w)
  BY <1>24, SwitchAssumption
     DEF Serve, Goto, Refuse, Finish, GateInv, InGate, GateChange, SwapPcs,
         RequestPcs, TypeOK
<1>25. CASE LoaderUnload(w)
  BY <1>25, SwitchAssumption
     DEF LoaderUnload, Goto, GateInv, InGate, GateChange, SwapPcs, RequestPcs,
         TypeOK
<1>26. CASE LoaderLoad(w)
  BY <1>26, SwitchAssumption
     DEF LoaderLoad, Goto, GateInv, InGate, GateChange, SwapPcs, RequestPcs,
         TypeOK
<1>27. CASE LoaderCheck(w)
  BY <1>27, SwitchAssumption
     DEF LoaderCheck, Goto, GateInv, InGate, GateChange, SwapPcs, RequestPcs,
         TypeOK
<1>28. CASE Peek(w)
  BY <1>28, SwitchAssumption
     DEF Peek, Goto, GateInv, InGate, GateChange, SwapPcs, RequestPcs, TypeOK
<1>29. CASE Reconcile(w)
  BY <1>29, SwitchAssumption
     DEF Reconcile, Goto, GateInv, InGate, GateChange, SwapPcs, RequestPcs,
         TypeOK
<1>30. CASE NoteRead(w)
  BY <1>30, SwitchAssumption
     DEF NoteRead, Goto, Finish, GateInv, InGate, GateChange, SwapPcs,
         RequestPcs, TypeOK
<1>31. CASE Note(w)
  BY <1>31, SwitchAssumption
     DEF Note, Goto, Finish, GateInv, InGate, GateChange, SwapPcs, RequestPcs,
         TypeOK
<1> QED
  BY <1>1, <1>2, <1>3, <1>4, <1>5, <1>6, <1>7, <1>8, <1>9, <1>10, <1>11,
     <1>12, <1>13, <1>14, <1>15, <1>16, <1>17, <1>18, <1>19, <1>20, <1>21,
     <1>22, <1>23, <1>24, <1>25, <1>26, <1>27, <1>28, <1>29, <1>30, <1>31
     DEF Worker, Reload, Respond, Persist, Loader

(* What the writers of the state file do with the selection.               *)
LEMMA FileSelections ==
  ASSUME NEW f \in States
  PROVE  /\ \A m \in Models : Selection(f, m).selected = m /\ Persisted(f, m).selected = m
         /\ \A b \in BOOLEAN : f.selected # NoModel =>
              /\ LoadSuccess(f).selected # NoModel
              /\ LoadFailure(f, b).selected # NoModel
BY DEF States, Selection, Persisted, LoadSuccess, LoadFailure

(* A thread that is done claims nothing.                                   *)
LEMMA FinishHasModel ==
  ASSUME TypeOK, NEW w \in Workers, Finish(w)
  PROVE  HasModel(w)'
<1>1. pc'[w] = "idle"
  BY DEF TypeOK, Finish, Goto
<1> QED
  BY <1>1 DEF HasModel, Chosen, Copied, Unnamed, SwapPcs

(* A reload that ends remembers its model.                                 *)
LEMMA EndedHasModel ==
  ASSUME TypeOK, NEW w \in Workers, NEW ok \in BOOLEAN, Ended(w, ok),
         UNCHANGED file, HasModel(w), Chosen(w), pc[w] \notin Unnamed
  PROVE  HasModel(w)'
<1>1. CASE my[w].kind = "recover"
  BY <1>1, FinishHasModel DEF Ended
<1>2. CASE my[w].kind # "recover"
  <2>1. pc'[w] = "record"
    BY <1>2 DEF Ended, Goto, TypeOK
  <2>2. my'[w] = [my[w] EXCEPT !.ok = ok, !.target = NoModel, !.victims = {},
                              !.todo = {}, !.left = 0, !.blind = FALSE]
    BY <1>2 DEF Ended, TypeOK
  <2>3. my'[w].model = my[w].model
    BY <2>2 DEF TypeOK, Work
  <2> QED
    BY <2>1, <2>3 DEF HasModel, Chosen, Copied, Unnamed, SwapPcs
<1> QED
  BY <1>1, <1>2

(* ... and keeps it while it goes on.                                      *)
LEMMA GotoHasModel ==
  ASSUME TypeOK, NEW w \in Workers, NEW l, Goto(w, l), UNCHANGED file,
         my'[w].model = my[w].model, l \in {"wait", "recheck"} \cup SwapPcs,
         HasModel(w), Chosen(w), pc[w] \notin Unnamed
  PROVE  HasModel(w)'
<1>1. pc'[w] = l
  BY DEF Goto, TypeOK
<1> QED
  BY <1>1 DEF HasModel, Chosen, Copied, Unnamed, SwapPcs

(* A round changes neither the model nor the file.                         *)
LEMMA RoundHasModel ==
  ASSUME TypeOK, NEW w \in Workers, NEW s, NEW left, NEW blind, Round(w, s, left, blind),
         UNCHANGED file, HasModel(w), Chosen(w), pc[w] \notin Unnamed
  PROVE  HasModel(w)'
<1>1. my'[w].model = my[w].model
  BY DEF Round, TypeOK, Work
<1>2. pc'[w] \in {"load", "unload"}
  BY DEF Round, Goto, TypeOK
<1> QED
  BY <1>1, <1>2 DEF HasModel, Chosen, Copied, Unnamed, SwapPcs

(* No step of a thread erases the selection.                               *)
LEMMA SelectionStep ==
  ASSUME TypeOK, SelectionInv, NEW w \in Workers, Receive(w) \/ Worker(w) \/ Loader(w)
  PROVE  KeepsSelection /\ HasModel(w)'
<1>1. CASE Receive(w)
  <2>1. PICK kind \in Asked, m \in Models, rollback \in BOOLEAN :
          /\ kind \in {"reload", "recover", "relaunch"} => m = file.selected
          /\ my' = [my EXCEPT ![w] = [NoWork EXCEPT
               !.kind = kind, !.model = IF kind = "status" THEN NoModel ELSE m,
               !.rollback = rollback]]
          /\ Goto(w, FirstPc(kind))
    BY <1>1 DEF Receive
  <2>2. UNCHANGED file /\ KeepsSelection
    BY <1>1 DEF Receive, KeepsSelection
  <2>3. my'[w].kind = kind /\ my'[w].model = IF kind = "status" THEN NoModel ELSE m
    BY <2>1 DEF NoWork, TypeOK
  <2>4. pc'[w] = FirstPc(kind) /\ kind \in Kinds
    BY <2>1, SwitchAssumption DEF Goto, TypeOK
  <2>5. CASE kind = "status"
    BY <2>2, <2>4, <2>5 DEF FirstPc, HasModel, Chosen, Copied, Unnamed, SwapPcs
  <2>6. CASE kind \in {"select", "restart", "request"}
    BY <2>2, <2>3, <2>4, <2>6
       DEF FirstPc, HasModel, Chosen, Copied, Unnamed, SwapPcs
  <2>7. CASE kind \in {"reload", "recover", "relaunch"}
    BY <2>1, <2>2, <2>3, <2>4, <2>7, SwitchAssumption
       DEF FirstPc, HasModel, Chosen, Copied, Unnamed, SwapPcs
  <2> QED
    BY <2>2, <2>4, <2>5, <2>6, <2>7 DEF Kinds
<1>2. CASE ReadState(w)
  BY <1>2, SwitchAssumption
     DEF ReadState, Goto, SelectionInv, HasModel, Chosen, Copied, Unnamed,
         KeepsSelection, SwapPcs, RequestPcs, TypeOK, Work, States
<1>3. CASE WriteSelection(w)
  <2>1. my[w].model \in Models /\ my[w].seen \in States
    BY <1>3 DEF WriteSelection, SelectionInv, HasModel, Unnamed, TypeOK, Work
  <2>2. file'.selected \in Models
    BY <1>3, <2>1, FileSelections DEF WriteSelection
  <2>3. file'.selected # NoModel
    BY <2>2, SwitchAssumption
  <2>4. CASE my[w].kind = "select"
    BY <1>3, <2>3, <2>4, FinishHasModel DEF WriteSelection, KeepsSelection
  <2>5. CASE my[w].kind # "select"
    <3>1. UNCHANGED my /\ pc'[w] \in {"decide", "launch"}
      BY <1>3, <2>5 DEF WriteSelection, Goto, TypeOK
    <3> QED
      BY <2>1, <2>3, <3>1 DEF KeepsSelection, HasModel, Chosen, Copied, SwapPcs
  <2> QED
    BY <2>4, <2>5
<1>4. CASE SetLaunch(w)
  BY <1>4, SwitchAssumption
     DEF SetLaunch, Goto, SelectionInv, HasModel, Chosen, Copied, Unnamed,
         KeepsSelection, SwapPcs, RequestPcs, TypeOK, Work, States
<1>5. CASE Relaunch(w)
  BY <1>5, SwitchAssumption
     DEF Relaunch, Goto, Finish, SelectionInv, HasModel, Chosen, Copied, Unnamed,
         KeepsSelection, SwapPcs, RequestPcs, TypeOK, Work, States
<1>6. CASE Acquire(w)
  BY <1>6, SwitchAssumption
     DEF Acquire, Goto, SelectionInv, HasModel, Chosen, Copied, Unnamed,
         KeepsSelection, SwapPcs, RequestPcs, TypeOK, Work, States
<1>7. CASE Enter(w)
  <2>1. KeepsSelection /\ UNCHANGED file
    BY <1>7 DEF Enter, KeepsSelection
  <2>2. HasModel(w) /\ Chosen(w) /\ pc[w] \notin Unnamed
    BY <1>7 DEF Enter, SelectionInv, HasModel, Chosen, Unnamed, SwapPcs
  <2>3. \/ Ended(w, FALSE)
        \/ Goto(w, "wait") /\ UNCHANGED my
        \/ Goto(w, "check") /\ my' = [my EXCEPT ![w].target = launch]
    BY <1>7, SwitchAssumption DEF Enter, Return, Leave
  <2>4. CASE Ended(w, FALSE)
    BY <2>1, <2>2, <2>4, EndedHasModel
  <2>5. CASE Goto(w, "wait") /\ UNCHANGED my
    BY <2>1, <2>2, <2>5, GotoHasModel DEF SwapPcs
  <2>6. CASE Goto(w, "check") /\ my' = [my EXCEPT ![w].target = launch]
    BY <2>1, <2>2, <2>6, TypeOK, GotoHasModel DEF SwapPcs, TypeOK, Work
  <2> QED
    BY <2>1, <2>3, <2>4, <2>5, <2>6
<1>8. CASE Check(w)
  <2>1. KeepsSelection /\ UNCHANGED file
    BY <1>8 DEF Check, KeepsSelection
  <2>2. HasModel(w) /\ Chosen(w) /\ pc[w] \notin Unnamed
    BY <1>8 DEF Check, SelectionInv, HasModel, Chosen, Unnamed, SwapPcs
  <2>3. \/ Ended(w, TRUE)
        \/ Goto(w, "survey") /\ my'[w].model = my[w].model
    BY <1>8, SwitchAssumption DEF Check, Return
  <2>4. CASE Ended(w, TRUE)
    BY <2>1, <2>2, <2>4, EndedHasModel
  <2>5. CASE Goto(w, "survey") /\ my'[w].model = my[w].model
    BY <2>1, <2>2, <2>5, GotoHasModel DEF SwapPcs
  <2> QED
    BY <2>1, <2>3, <2>4, <2>5
<1>9. CASE Survey(w)
  BY <1>9, SwitchAssumption
     DEF Survey, Goto, Round, SelectionInv, HasModel, Chosen, Copied, Unnamed,
         KeepsSelection, SwapPcs, RequestPcs, TypeOK, Work, States
<1>10. CASE UnloadOther(w)
  <2>1. KeepsSelection /\ UNCHANGED file
    BY <1>10 DEF UnloadOther, KeepsSelection
  <2>2. HasModel(w) /\ Chosen(w) /\ pc[w] \notin Unnamed
    BY <1>10 DEF UnloadOther, SelectionInv, HasModel, Chosen, Unnamed, SwapPcs
  <2>3. \/ Ended(w, FALSE)
        \/ Goto(w, "poll") /\ \E m : my' = [my EXCEPT ![w].todo = @ \ {m}]
        \/ Goto(w, "unload") /\ \E m : my' = [my EXCEPT ![w].todo = @ \ {m}]
    BY <1>10, SwitchAssumption DEF UnloadOther, Return
  <2>4. CASE Ended(w, FALSE)
    BY <2>1, <2>2, <2>4, EndedHasModel
  <2>5. CASE Goto(w, "poll") /\ \E m : my' = [my EXCEPT ![w].todo = @ \ {m}]
    BY <2>1, <2>2, <2>5, TypeOK, GotoHasModel DEF SwapPcs, TypeOK, Work
  <2>6. CASE Goto(w, "unload") /\ \E m : my' = [my EXCEPT ![w].todo = @ \ {m}]
    BY <2>1, <2>2, <2>6, TypeOK, GotoHasModel DEF SwapPcs, TypeOK, Work
  <2> QED
    BY <2>1, <2>3, <2>4, <2>5, <2>6
<1>11. CASE PolledGone(w)
  BY <1>11, SwitchAssumption
     DEF PolledGone, Goto, SelectionInv, HasModel, Chosen, Copied, Unnamed,
         KeepsSelection, SwapPcs, RequestPcs, TypeOK, Work, States
<1>12. CASE PolledOut(w)
  <2>1. KeepsSelection /\ UNCHANGED file
    BY <1>12 DEF PolledOut, KeepsSelection
  <2>2. HasModel(w) /\ Chosen(w) /\ pc[w] \notin Unnamed
    BY <1>12 DEF PolledOut, SelectionInv, HasModel, Chosen, Unnamed, SwapPcs
  <2>3. \/ Ended(w, FALSE)
        \/ \E s, left, blind : Round(w, s, left, blind)
    BY <1>12, SwitchAssumption DEF PolledOut, Return
  <2>4. CASE Ended(w, FALSE)
    BY <2>1, <2>2, <2>4, EndedHasModel
  <2>5. CASE \E s, left, blind : Round(w, s, left, blind)
    BY <2>1, <2>2, <2>5, RoundHasModel
  <2> QED
    BY <2>1, <2>3, <2>4, <2>5
<1>13. CASE LoadTarget(w)
  BY <1>13, SwitchAssumption
     DEF LoadTarget, Goto, Leave, SelectionInv, HasModel, Chosen, Copied,
         Unnamed, KeepsSelection, SwapPcs, RequestPcs, TypeOK, Work, States
<1>14. CASE Recheck(w)
  <2>1. KeepsSelection /\ UNCHANGED file
    BY <1>14 DEF Recheck, KeepsSelection
  <2>2. HasModel(w) /\ Chosen(w) /\ pc[w] \notin Unnamed
    BY <1>14 DEF Recheck, SelectionInv, HasModel, Chosen, Unnamed, SwapPcs
  <2>3. \/ Ended(w, FALSE)
        \/ Goto(w, "wait") /\ my'[w].model = my[w].model
    BY <1>14, SwitchAssumption DEF Recheck, Return, Leave
  <2>4. CASE Ended(w, FALSE)
    BY <2>1, <2>2, <2>4, EndedHasModel
  <2>5. CASE Goto(w, "wait") /\ my'[w].model = my[w].model
    BY <2>1, <2>2, <2>5, GotoHasModel DEF SwapPcs
  <2> QED
    BY <2>1, <2>3, <2>4, <2>5
<1>15. CASE Await(w)
  <2>1. KeepsSelection /\ UNCHANGED file
    BY <1>15 DEF Await, KeepsSelection
  <2>2. HasModel(w) /\ Chosen(w) /\ pc[w] \notin Unnamed
    BY <1>15 DEF Await, SelectionInv, HasModel, Chosen, Unnamed, SwapPcs
  <2>3. \/ Ended(w, TRUE)
        \/ Ended(w, FALSE)
    BY <1>15, SwitchAssumption DEF Await
  <2>4. CASE Ended(w, TRUE)
    BY <2>1, <2>2, <2>4, EndedHasModel
  <2>5. CASE Ended(w, FALSE)
    BY <2>1, <2>2, <2>5, EndedHasModel
  <2> QED
    BY <2>1, <2>3, <2>4, <2>5
<1>16. CASE RecordRead(w)
  BY <1>16, SwitchAssumption
     DEF RecordRead, Goto, SelectionInv, HasModel, Chosen, Copied, Unnamed,
         KeepsSelection, SwapPcs, RequestPcs, TypeOK, Work, States
<1>17. CASE Judge(w)
  BY <1>17, SwitchAssumption
     DEF Judge, Goto, SelectionInv, HasModel, Chosen, Copied, Unnamed,
         KeepsSelection, SwapPcs, RequestPcs, TypeOK, Work, States
<1>18. CASE Settle(w)
  <2>1. my[w].seen.selected # NoModel /\ my[w].seen \in States /\ my[w].rollback \in BOOLEAN
    BY <1>18 DEF Settle, SelectionInv, HasModel, Copied, TypeOK, Work
  <2>2. file'.selected # NoModel
    BY <1>18, <2>1, FileSelections DEF Settle
  <2> QED
    BY <1>18, <2>2, FinishHasModel DEF Settle, KeepsSelection
<1>19. CASE Assess(w)
  BY <1>19, SwitchAssumption
     DEF Assess, Goto, SelectionInv, HasModel, Chosen, Copied, Unnamed,
         KeepsSelection, SwapPcs, RequestPcs, TypeOK, Work, States
<1>20. CASE Trigger(w)
  BY <1>20, SwitchAssumption
     DEF Trigger, Goto, SelectionInv, HasModel, Chosen, Copied, Unnamed,
         KeepsSelection, SwapPcs, RequestPcs, TypeOK, Work, States
<1>21. CASE Spawn(w)
  BY <1>21, SwitchAssumption
     DEF Spawn, Goto, SelectionInv, HasModel, Chosen, Copied, Unnamed,
         KeepsSelection, SwapPcs, RequestPcs, TypeOK, Work, States
<1>22. CASE Decide(w)
  BY <1>22, SwitchAssumption
     DEF Decide, Goto, Refuse, Finish, SelectionInv, HasModel, Chosen, Copied,
         Unnamed, KeepsSelection, SwapPcs, RequestPcs, TypeOK, Work, States
<1>23. CASE Hold(w)
  BY <1>23, SwitchAssumption
     DEF Hold, Goto, Refuse, Finish, SelectionInv, HasModel, Chosen, Copied,
         Unnamed, KeepsSelection, SwapPcs, RequestPcs, TypeOK, Work, States
<1>24. CASE Serve(w)
  BY <1>24, SwitchAssumption
     DEF Serve, Goto, Refuse, Finish, SelectionInv, HasModel, Chosen, Copied,
         Unnamed, KeepsSelection, SwapPcs, RequestPcs, TypeOK, Work, States
<1>25. CASE LoaderUnload(w)
  BY <1>25, SwitchAssumption
     DEF LoaderUnload, Goto, SelectionInv, HasModel, Chosen, Copied, Unnamed,
         KeepsSelection, SwapPcs, RequestPcs, TypeOK, Work, States
<1>26. CASE LoaderLoad(w)
  BY <1>26, SwitchAssumption
     DEF LoaderLoad, Goto, SelectionInv, HasModel, Chosen, Copied, Unnamed,
         KeepsSelection, SwapPcs, RequestPcs, TypeOK, Work, States
<1>27. CASE LoaderCheck(w)
  BY <1>27, SwitchAssumption
     DEF LoaderCheck, Goto, SelectionInv, HasModel, Chosen, Copied, Unnamed,
         KeepsSelection, SwapPcs, RequestPcs, TypeOK, Work, States
<1>28. CASE Peek(w)
  BY <1>28, SwitchAssumption
     DEF Peek, Goto, SelectionInv, HasModel, Chosen, Copied, Unnamed,
         KeepsSelection, SwapPcs, RequestPcs, TypeOK, Work, States
<1>29. CASE Reconcile(w)
  <2>1. my[w].seen \in States
    BY DEF TypeOK, Work
  <2>2. file'.selected # NoModel
    BY <1>29, <2>1, FileSelections, SwitchAssumption DEF Reconcile
  <2>3. pc'[w] = "note_read"
    BY <1>29 DEF Reconcile, Goto, TypeOK
  <2> QED
    BY <2>2, <2>3 DEF KeepsSelection, HasModel, Chosen, Copied, Unnamed, SwapPcs
<1>30. CASE NoteRead(w)
  BY <1>30, SwitchAssumption
     DEF NoteRead, Goto, Finish, SelectionInv, HasModel, Chosen, Copied, Unnamed,
         KeepsSelection, SwapPcs, RequestPcs, TypeOK, Work, States
<1>31. CASE Note(w)
  <2>1. my[w].seen.selected # NoModel /\ my[w].seen \in States
    BY <1>31 DEF Note, SelectionInv, HasModel, Copied, TypeOK, Work
  <2>2. file'.selected # NoModel
    BY <1>31, <2>1, FileSelections DEF Note
  <2> QED
    BY <1>31, <2>2, FinishHasModel DEF Note, KeepsSelection
<1> QED
  BY <1>1, <1>2, <1>3, <1>4, <1>5, <1>6, <1>7, <1>8, <1>9, <1>10, <1>11,
     <1>12, <1>13, <1>14, <1>15, <1>16, <1>17, <1>18, <1>19, <1>20, <1>21,
     <1>22, <1>23, <1>24, <1>25, <1>26, <1>27, <1>28, <1>29, <1>30, <1>31
     DEF Worker, Reload, Respond, Persist, Loader

-----------------------------------------------------------------------------
(* One model in VRAM.                                                      *)

(* A step that posts nothing keeps the invariant if what its thread takes  *)
(* for known is true.                                                      *)
LEMMA NothingPosted ==
  ASSUME TypeOK, OneModelInv, NEW w \in Workers, OnlyThread(w),
         Active' \subseteq Active, ~outside' => ~outside /\ Known(w)'
  PROVE  OneModelInv'
<1> SUFFICES ASSUME ~outside' PROVE AtMostOne' /\ \A v \in Workers : Known(v)'
  BY DEF OneModelInv
<1>1. ~outside /\ Known(w)' /\ AtMostOne /\ \A v \in Workers : Known(v)
  BY DEF OneModelInv
<1>2. AtMostOne'
  BY <1>1 DEF AtMostOne
<1>3. ASSUME NEW v \in Workers \ {w} PROVE Known(v)'
  <2>1. pc'[v] = pc[v] /\ my'[v] = my[v]
    BY DEF OnlyThread
  <2> QED
    BY <1>1, <2>1 DEF Known
<1> QED
  BY <1>1, <1>2, <1>3

(* A load adds its own model to the active ones, if it was not there.      *)
LEMMA PostActive ==
  ASSUME TypeOK, NEW m, NEW ok \in BOOLEAN, Post(m, ok)
  PROVE  router' = router \/ (m \notin Active /\ Active' \subseteq Active \cup {m})
BY DEF TypeOK, Post, Active

(* A load from outside the gate adds a model only to an empty backend.     *)
LEMMA PostedOutside ==
  ASSUME TypeOK, OneModelInv, NEW m, NEW ok \in BOOLEAN, PostOutside(m, ok),
         \A v \in Workers : \/ pc'[v] = pc[v] /\ my'[v] = my[v]
                            \/ pc'[v] = "idle"
  PROVE  OneModelInv'
<1> SUFFICES ASSUME ~outside' PROVE AtMostOne' /\ \A v \in Workers : Known(v)'
  BY DEF OneModelInv
<1>1. ~outside /\ AtMostOne /\ \A v \in Workers : Known(v)
  BY DEF PostOutside, OneModelInv
<1>2. CASE router' = router
  <2>1. Active' = Active
    BY <1>2 DEF Active
  <2>2. AtMostOne'
    BY <1>1, <2>1 DEF AtMostOne
  <2>3. ASSUME NEW v \in Workers PROVE Known(v)'
    BY <1>1, <2>1 DEF Known
  <2> QED
    BY <2>2, <2>3
<1>3. CASE router' # router
  <2>1. Active = {} /\ \A v \in Workers : pc[v] \notin SwapPcs
    BY <1>3 DEF PostOutside
  <2>2. Active' \subseteq {m}
    BY <1>3, <2>1, PostActive DEF PostOutside
  <2>3. AtMostOne'
    BY <2>2 DEF AtMostOne
  <2>4. ASSUME NEW v \in Workers PROVE Known(v)'
    BY <2>1 DEF Known, SwapPcs
  <2> QED
    BY <2>3, <2>4
<1> QED
  BY <1>2, <1>3

(* A round starts with the models its thread has seen, or knows nothing of.*)
LEMMA RoundKnown ==
  ASSUME TypeOK, NEW w \in Workers, NEW s, NEW left, NEW blind, Round(w, s, left, blind),
         Active' = Active, Active \ {my[w].target} \subseteq s
  PROVE  Known(w)'
<1>1. /\ my'[w].victims = s \ {my[w].target}
      /\ my'[w].target = my[w].target
  BY DEF Round, TypeOK, Work
<1>2. pc'[w] = IF s \ {my[w].target} = {} THEN "load" ELSE "unload"
  BY DEF Round, Goto, TypeOK
<1> QED
  BY <1>1, <1>2 DEF Known

(* A step of a thread keeps one model in VRAM, unless it posts outside the *)
(* gate or overlooks a model.                                              *)
LEMMA OneModelStep ==
  ASSUME TypeOK, GateInv, OneModelInv, NEW w \in Workers, Receive(w) \/ Worker(w) \/ Loader(w)
  PROVE  OneModelInv'
<1>1. CASE Receive(w)
  <2>1. UNCHANGED <<router, outside>>
    BY <1>1 DEF Receive, backend
  <2>2. pc'[w] \notin {"unload", "poll", "load"}
    BY <1>1 DEF Receive, Goto, FirstPc, FirstPc, TypeOK
  <2> QED
    BY <2>1, <2>2, OwnLocals, NothingPosted DEF Known, Active, OneModelInv
<1>2. CASE ReadState(w)
  BY <1>2, OwnLocals, NothingPosted
     DEF ReadState, Goto, backend, Known, Active, OneModelInv, TypeOK
<1>3. CASE WriteSelection(w)
  BY <1>3, OwnLocals, NothingPosted
     DEF WriteSelection, Goto, Finish, backend, Known, Active, OneModelInv, TypeOK
<1>4. CASE SetLaunch(w)
  BY <1>4, OwnLocals, NothingPosted
     DEF SetLaunch, Goto, backend, Known, Active, OneModelInv, TypeOK
<1>5. CASE Relaunch(w)
  <2>1. pc[w] = "repost" /\ pc'[w] = "idle"
    BY <1>5 DEF Relaunch, Finish, Goto, TypeOK
  <2>2. CASE phase = "stopped"
    BY <1>5, <2>1, <2>2, OwnLocals, NothingPosted
       DEF Relaunch, Start, Known, Active, OneModelInv
  <2>3. CASE phase # "stopped"
    <3>1. PICK ok \in BOOLEAN : PostOutside(launch, ok)
      BY <1>5, <2>3 DEF Relaunch
    <3>2. \A v \in Workers : \/ pc'[v] = pc[v] /\ my'[v] = my[v]
                             \/ pc'[v] = "idle"
      BY <2>1, OwnLocals DEF OnlyThread
    <3> QED
      BY <3>1, <3>2, PostedOutside
  <2> QED
    BY <2>2, <2>3
<1>6. CASE Acquire(w)
  BY <1>6, OwnLocals, NothingPosted
     DEF Acquire, Goto, backend, Known, Active, OneModelInv, TypeOK
<1>7. CASE Enter(w)
  BY <1>7, OwnLocals, NothingPosted
     DEF Enter, Goto, Return, Ended, Leave, Finish, Start, backend, Known, Active, OneModelInv, TypeOK
<1>8. CASE Check(w)
  BY <1>8, OwnLocals, NothingPosted
     DEF Check, Goto, Return, Ended, Finish, backend, Known, Active, OneModelInv, TypeOK
<1>9. CASE Survey(w)
  <2>1. PICK blind \in BOOLEAN, s \in Seen(Active) :
          Round(w, s, Rounds - 1, blind) /\ Overlooks(w, s)
    BY <1>9 DEF Survey
  <2>2. Active' = Active
    BY <1>9 DEF Survey, Active
  <2>3. ~outside' => ~outside /\ Known(w)'
    BY <2>1, <2>2, RoundKnown DEF Overlooks
  <2> QED
    BY <2>2, <2>3, OwnLocals, NothingPosted
<1>10. CASE UnloadOther(w)
  <2>1. UNCHANGED <<router, outside>> /\ Active' = Active
    BY <1>10 DEF UnloadOther, Active
  <2>2. pc[w] = "unload"
    BY <1>10 DEF UnloadOther
  <2>3. \/ Ended(w, FALSE)
        \/ (Goto(w, "poll") \/ Goto(w, "unload"))
             /\ \E m : my' = [my EXCEPT ![w].todo = @ \ {m}]
    BY <1>10 DEF UnloadOther, Return
  <2>4. CASE Ended(w, FALSE)
    <3>1. pc'[w] \in {"idle", "record"}
      BY <2>4 DEF Ended, Finish, Goto, TypeOK
    <3> QED
      BY <2>1, <3>1, OwnLocals, NothingPosted DEF Known, OneModelInv
  <2>5. CASE (Goto(w, "poll") \/ Goto(w, "unload"))
               /\ \E m : my' = [my EXCEPT ![w].todo = @ \ {m}]
    <3>1. pc'[w] \in {"poll", "unload"}
      BY <2>5 DEF Goto, TypeOK
    <3>2. my'[w].victims = my[w].victims /\ my'[w].target = my[w].target
      BY <2>5 DEF TypeOK, Work
    <3>3. ~outside => Known(w)'
      BY <2>1, <2>2, <3>1, <3>2 DEF OneModelInv, Known
    <3> QED
      BY <2>1, <3>3, OwnLocals, NothingPosted
  <2> QED
    BY <2>3, <2>4, <2>5
<1>11. CASE PolledGone(w)
  <2>1. PICK s \in Seen(Active) : /\ s \cap my[w].victims = {}
                                  /\ Overlooks(w, s \cup (Active \ my[w].victims))
    BY <1>11 DEF PolledGone
  <2>2. Active' = Active /\ UNCHANGED my /\ pc[w] = "poll" /\ pc'[w] = "load"
    BY <1>11 DEF PolledGone, Active, Goto, TypeOK
  <2>3. ASSUME ~outside' PROVE ~outside /\ Known(w)'
    <3>1. ~outside /\ Active \ {my[w].target} \subseteq s \cup (Active \ my[w].victims)
      BY <2>1, <2>3 DEF Overlooks
    <3>2. Active \subseteq my[w].victims \cup {my[w].target}
      BY <2>2, <3>1 DEF OneModelInv, Known
    <3>3. Active \subseteq {my[w].target}
      BY <2>1, <3>1, <3>2
    <3> QED
      BY <2>2, <3>1, <3>3 DEF Known
  <2> QED
    BY <2>2, <2>3, OwnLocals, NothingPosted
<1>12. CASE PolledOut(w)
  <2>1. Active' = Active /\ pc[w] = "poll"
    BY <1>12 DEF PolledOut, Active
  <2>2. CASE Return(w, FALSE) /\ UNCHANGED outside
    <3>1. pc'[w] \in {"idle", "record"}
      BY <2>2 DEF Return, Ended, Finish, Goto, TypeOK
    <3> QED
      BY <2>1, <2>2, <3>1, OwnLocals, NothingPosted DEF Known, OneModelInv
  <2>3. CASE ~(Return(w, FALSE) /\ UNCHANGED outside)
    <3>1. PICK s : /\ Round(w, s, my[w].left - 1, my[w].blind)
                   /\ Overlooks(w, s \cup (IF my[w].blind THEN {} ELSE Active))
                   /\ ~my[w].blind => s = my[w].victims
      BY <1>12, <2>3 DEF PolledOut
    <3>2. ASSUME ~outside' PROVE ~outside /\ Known(w)'
      <4>1. ~outside
        BY <3>1, <3>2 DEF Overlooks
      <4>2. Active \ {my[w].target} \subseteq s
        BY <2>1, <3>1, <3>2, <4>1 DEF Overlooks, OneModelInv, Known
      <4> QED
        BY <2>1, <3>1, <4>1, <4>2, RoundKnown
    <3> QED
      BY <2>1, <3>2, OwnLocals, NothingPosted
  <2> QED
    BY <2>2, <2>3
<1>13. CASE LoadTarget(w)
  <2>1. UNCHANGED outside /\ pc[w] = "load" /\ pc'[w] \in {"wait", "recheck"}
    BY <1>13 DEF LoadTarget, Leave, Goto, TypeOK
  <2>2. PICK ok \in BOOLEAN : Post(my[w].target, ok)
    BY <1>13 DEF LoadTarget
  <2> SUFFICES ASSUME ~outside' PROVE AtMostOne' /\ \A v \in Workers : Known(v)'
    BY DEF OneModelInv
  <2>3. Active \subseteq {my[w].target}
    BY <2>1 DEF OneModelInv, Known
  <2>4. Active' \subseteq {my[w].target}
    BY <2>2, <2>3, PostActive DEF Active
  <2>5. AtMostOne'
    BY <2>4 DEF AtMostOne
  <2>6. ASSUME NEW v \in Workers \ {w} PROVE Known(v)'
    <3>1. pc[v] \notin SwapPcs
      BY <2>1 DEF GateInv, InGate, SwapPcs
    <3>2. pc'[v] = pc[v]
      BY OwnLocals DEF OnlyThread
    <3> QED
      BY <3>1, <3>2 DEF Known, SwapPcs
  <2>7. Known(w)'
    BY <2>1 DEF Known
  <2> QED
    BY <2>5, <2>6, <2>7
<1>14. CASE Recheck(w)
  BY <1>14, OwnLocals, NothingPosted
     DEF Recheck, Goto, Leave, Return, Ended, Finish, backend, Known, Active, OneModelInv, TypeOK
<1>15. CASE Await(w)
  BY <1>15, OwnLocals, NothingPosted
     DEF Await, Goto, Ended, Finish, backend, Known, Active, OneModelInv, TypeOK
<1>16. CASE RecordRead(w)
  BY <1>16, OwnLocals, NothingPosted
     DEF RecordRead, Goto, backend, Known, Active, OneModelInv, TypeOK
<1>17. CASE Judge(w)
  BY <1>17, OwnLocals, NothingPosted
     DEF Judge, Goto, backend, Known, Active, OneModelInv, TypeOK
<1>18. CASE Settle(w)
  BY <1>18, OwnLocals, NothingPosted
     DEF Settle, Goto, Finish, backend, Known, Active, OneModelInv, TypeOK
<1>19. CASE Assess(w)
  BY <1>19, OwnLocals, NothingPosted
     DEF Assess, Goto, backend, Known, Active, OneModelInv, TypeOK
<1>20. CASE Trigger(w)
  <2>1. UNCHANGED <<router, outside>>
    BY <1>20 DEF Trigger, backend
  <2>2. pc'[w] \notin {"unload", "poll", "load"}
    BY <1>20 DEF Trigger, Goto, FirstPc, TypeOK
  <2> QED
    BY <2>1, <2>2, OwnLocals, NothingPosted DEF Known, Active, OneModelInv
<1>21. CASE Spawn(w)
  BY <1>21, OwnLocals, NothingPosted
     DEF Spawn, Goto, Start, backend, Known, Active, OneModelInv, TypeOK
<1>22. CASE Decide(w)
  BY <1>22, OwnLocals, NothingPosted
     DEF Decide, Goto, Refuse, Finish, backend, Known, Active, OneModelInv, TypeOK
<1>23. CASE Hold(w)
  BY <1>23, OwnLocals, NothingPosted
     DEF Hold, Goto, Refuse, Finish, backend, Known, Active, OneModelInv, TypeOK
<1>24. CASE Serve(w)
  BY <1>24, OwnLocals, NothingPosted
     DEF Serve, Goto, Refuse, Finish, backend, Known, Active, OneModelInv, TypeOK
<1>25. CASE LoaderUnload(w)
  <2>1. UNCHANGED <<router, outside, pc, my>>
    BY <1>25 DEF LoaderUnload
  <2> QED
    BY <2>1, OwnLocals, NothingPosted DEF Known, Active, OneModelInv
<1>26. CASE LoaderLoad(w)
  <2>1. PICK ok \in BOOLEAN : PostOutside(loader[w].target, ok)
    BY <1>26 DEF LoaderLoad
  <2>2. UNCHANGED <<pc, my>>
    BY <1>26 DEF LoaderLoad
  <2> QED
    BY <2>1, <2>2, PostedOutside
<1>27. CASE LoaderCheck(w)
  <2>1. UNCHANGED <<router, outside, pc, my>>
    BY <1>27 DEF LoaderCheck
  <2> QED
    BY <2>1, OwnLocals, NothingPosted DEF Known, Active, OneModelInv
<1>28. CASE Peek(w)
  BY <1>28, OwnLocals, NothingPosted
     DEF Peek, Goto, backend, Known, Active, OneModelInv, TypeOK
<1>29. CASE Reconcile(w)
  BY <1>29, OwnLocals, NothingPosted
     DEF Reconcile, Goto, backend, Known, Active, OneModelInv, TypeOK
<1>30. CASE NoteRead(w)
  BY <1>30, OwnLocals, NothingPosted
     DEF NoteRead, Goto, Finish, backend, Known, Active, OneModelInv, TypeOK
<1>31. CASE Note(w)
  BY <1>31, OwnLocals, NothingPosted
     DEF Note, Goto, Finish, backend, Known, Active, OneModelInv, TypeOK
<1> QED
  BY <1>1, <1>2, <1>3, <1>4, <1>5, <1>6, <1>7, <1>8, <1>9, <1>10, <1>11,
     <1>12, <1>13, <1>14, <1>15, <1>16, <1>17, <1>18, <1>19, <1>20, <1>21,
     <1>22, <1>23, <1>24, <1>25, <1>26, <1>27, <1>28, <1>29, <1>30, <1>31
     DEF Worker, Reload, Respond, Persist, Loader

-----------------------------------------------------------------------------
(* The steps of the backend touch neither the gate nor the file.           *)
LEMMA BackendStep ==
  ASSUME TypeOK, OneModelInv, Backend \/ RecentExpires
  PROVE  /\ UNCHANGED <<gate, pc, my, file>>
         /\ OneModelInv'
<1>1. UNCHANGED <<gate, pc, my, file>>
  BY DEF Backend, ComesUp, GoesDown, EagerPost, LoadEnds, UnloadEnds, RecentExpires
<1>2. CASE EagerPost
  <2>1. PICK m \in eager, ok \in BOOLEAN : PostOutside(m, ok)
    BY <1>2 DEF EagerPost
  <2> QED
    BY <1>1, <2>1, PostedOutside
<1>3. CASE GoesDown
  BY <1>1, <1>3 DEF GoesDown, OneModelInv, AtMostOne, Known, Active
<1>4. CASE ComesUp \/ RecentExpires \/ \E m \in Models : LoadEnds(m) \/ UnloadEnds(m)
  <2>1. UNCHANGED outside
    BY <1>4 DEF ComesUp, RecentExpires, LoadEnds, UnloadEnds, backend
  <2>2. Active' \subseteq Active
    BY <1>4
       DEF ComesUp, RecentExpires, LoadEnds, UnloadEnds, backend, Active, TypeOK
  <2> QED
    BY <1>1, <2>1, <2>2 DEF OneModelInv, AtMostOne, Known
<1> QED
  BY <1>1, <1>2, <1>3, <1>4 DEF Backend

(* At first no thread runs and one model, the launch model, may be there.  *)
LEMMA InitInv == Init => GateInv /\ SelectionInv /\ OneModelInv
<1> SUFFICES ASSUME Init PROVE GateInv /\ SelectionInv /\ OneModelInv
  OBVIOUS
<1>1. \A w \in Workers : pc[w] = "idle"
  BY DEF Init
<1>2. GateInv
  BY <1>1 DEF GateInv, InGate, SwapPcs, RequestPcs
<1>3. SelectionInv
  BY <1>1 DEF SelectionInv, HasModel, Chosen, Copied, Unnamed, SwapPcs
<1>4. AtMostOne
  BY DEF Init, AtMostOne, Active
<1>5. \A w \in Workers : Known(w)
  BY <1>1 DEF Known
<1> QED
  BY <1>2, <1>3, <1>4, <1>5 DEF OneModelInv

(* The other threads' part of the invariants, when w steps.                *)
LEMMA ThreadStep ==
  ASSUME IInv, NEW w \in Workers, Receive(w) \/ Worker(w) \/ Loader(w)
  PROVE  GateInv' /\ SelectionInv' /\ OneModelInv' /\ KeepsSelection
<1> USE DEF IInv
<1>1. OnlyThread(w) /\ GateChange(w) /\ KeepsSelection /\ HasModel(w)' /\ OneModelInv'
  BY OwnLocals, GateStep, SelectionStep, OneModelStep
<1>2. ASSUME NEW v \in Workers \ {w} PROVE InGate(v)' => gate' = v
  <2>1. InGate(v)' = InGate(v)
    BY <1>1 DEF OnlyThread, InGate
  <2> QED
    BY <1>1, <2>1, SwitchAssumption DEF GateInv, GateChange
<1>3. ASSUME NEW v \in Workers \ {w} PROVE HasModel(v)'
  BY <1>1 DEF OnlyThread, SelectionInv, HasModel, Chosen, Copied, KeepsSelection
<1> QED
  BY <1>1, <1>2, <1>3 DEF GateInv, GateChange, SelectionInv

(* The invariant is inductive, and no step erases the selection.           *)
LEMMA InvStep ==
  ASSUME IInv, [Next]_vars
  PROVE  GateInv' /\ SelectionInv' /\ OneModelInv' /\ KeepsSelection
<1>1. CASE \E w \in Workers : Receive(w) \/ Worker(w) \/ Loader(w)
  BY <1>1, ThreadStep
<1>2. CASE Backend \/ RecentExpires
  <2>1. UNCHANGED <<gate, pc, my, file>> /\ OneModelInv'
    BY <1>2, BackendStep DEF IInv
  <2> QED
    BY <2>1
       DEF IInv, GateInv, InGate, SelectionInv, HasModel, Chosen, Copied,
           KeepsSelection
<1>3. CASE UNCHANGED vars
  <2>1. UNCHANGED <<gate, pc, my, file, router, outside>>
    BY <1>3 DEF vars, backend
  <2>2. GateInv' /\ SelectionInv' /\ KeepsSelection
    BY <2>1
       DEF IInv, GateInv, InGate, SelectionInv, HasModel, Chosen, Copied,
           KeepsSelection
  <2>3. OneModelInv'
    BY <2>1 DEF IInv, OneModelInv, AtMostOne, Known, Active
  <2> QED
    BY <2>2, <2>3
<1> QED
  BY <1>1, <1>2, <1>3 DEF Next, Quiet

(* The invariant of the switch holds in every reachable state.             *)
THEOREM Invariance == Spec => []IInv
<1>1. Init => GateInv /\ SelectionInv /\ OneModelInv
  BY InitInv
<1>2. IInv /\ [Next]_vars => GateInv' /\ SelectionInv' /\ OneModelInv'
  BY InvStep
<1>3. Spec => []TypeOK
  BY TypeCorrect
<1> QED
  BY <1>1, <1>2, <1>3, PTL DEF Spec, IInv

(* As long as nothing is posted outside the gate and the inventory         *)
(* answers, the reloads keep at most one model loaded or loading.          *)
THEOREM OneModelKept == Spec => []ReloadsKeepOneModel
<1>1. IInv => ReloadsKeepOneModel
  <2> SUFFICES ASSUME IInv, ~outside PROVE Cardinality(Active) <= 1
    BY DEF ReloadsKeepOneModel
  <2>1. AtMostOne
    BY DEF IInv, OneModelInv
  <2>2. CASE Active = {}
    <3>1. Cardinality({}) = 0
      BY FS_EmptySet
    <3> QED
      BY <2>2, <3>1
  <2>3. CASE Active # {}
    <3>1. PICK m \in Active : Active = {m}
      BY <2>1, <2>3 DEF AtMostOne
    <3>2. Cardinality({m}) = 1
      BY FS_Singleton
    <3> QED
      BY <3>1, <3>2
  <2> QED
    BY <2>2, <2>3
<1> QED
  BY <1>1, Invariance, PTL

(* A request that is being served and a reload that changes what is loaded *)
(* are never inside the gate together.                                     *)
THEOREM ServingUndisturbed == Spec => []ServedUndisturbed
<1>1. IInv => ServedUndisturbed
  BY DEF IInv, GateInv, InGate, ServedUndisturbed, SwapPcs, RequestPcs
<1> QED
  BY <1>1, Invariance, PTL

(* No order of the unlocked reads and writes of the state file erases the  *)
(* selection once there is one.                                            *)
THEOREM SelectionSurvives == Spec => SelectionKept
<1>1. IInv /\ [Next]_vars => (file.selected # NoModel => file'.selected # NoModel)
  BY InvStep DEF KeepsSelection
<1> QED
  BY <1>1, Invariance, PTL DEF Spec, SelectionKept

===============================================================================
