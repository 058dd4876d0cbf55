-------------------------- MODULE BrainCase_proofs --------------------------
(***************************************************************************)
(* The memory store, for any number of manager threads, records and calls  *)
(* of a run: a superseded record has a successor, the revision log         *)
(* accounts for every status, the write lock is held by a connection that  *)
(* is open, and prune spares durable records.                              *)
(*                                                                         *)
(* What is committed is what some connection drafted, so the invariant     *)
(* says of the draft what it says of the file, and says of each thread     *)
(* what keeps its next write within those bounds: that the records it was  *)
(* given exist (nothing deletes one), that a merged record is not one of   *)
(* its own sources and is there when a source is superseded by it, that a  *)
(* session's id is still unused, and that who is about to commit holds the *)
(* lock, so that what it commits is what it wrote.                         *)
(***************************************************************************)
EXTENDS BrainCase, TLAPS

RowSets == [Ids -> Rows]

Replaced(rows) ==
  \A i \in Ids : rows[i].status = "superseded" =>
    /\ rows[i].by \in Ids \ {i}
    /\ rows[rows[i].by].status # "absent"

Explained(rows) ==
  \A i \in Ids : \/ rows[i].status = rows[i].told
                 \/ i \in MergeIds /\ rows[i].status = "active"

Sound(rows) == Replaced(rows) /\ Explained(rows)

(* The records that are in the file and in the draft.                      *)
File == Exists(db)

Draft == Exists(tx.rows)

Busy(l) == l.at \in {"writing", "committing"}

(* What a thread of each sort has in hand, in a file and a draft with the  *)
(* records f and d.                                                        *)
SessionHas(l, d) ==
  Busy(l) => /\ l.op = "put" /\ l.id \in Ids \ MergeIds
             /\ l.at = "writing" => l.id \notin d

OperatorHas(l, f) ==
  /\ l.rest \subseteq f
  /\ l.at = "off" => l.rest = {}
  /\ Busy(l) => /\ l.id \in f
                /\ l.op \in {"promote", "retire", "prune"}
                /\ l.op # "prune" => l.rest = {}
                /\ l.op = "prune" => Class[l.id] # "durable"

ManagerHas(l, f, d) ==
  /\ l.rest \subseteq f \ {l.new}
  /\ l.rest # {} => l.new \in MergeIds
  /\ Busy(l) =>
       /\ l.id \in f
       /\ l.op \in {"put", "promote", "retire", "patch", "supersede"}
       /\ l.op \in {"put", "supersede"} => l.new \in MergeIds \ {l.id}
       /\ l.op = "supersede" => l.new \in f
       /\ l.op = "put" /\ l.at = "committing" => l.new \in d

Has(t, l, f, d) ==
  /\ t = Session => SessionHas(l, d)
  /\ t = Operator => OperatorHas(l, f)
  /\ t \in Managers => ManagerHas(l, f, d)

Pruning(l) == l.rest # {} \/ (Busy(l) /\ l.op = "prune")

(* While records are pruned, what the draft retires is not durable.        *)
PruneDraft ==
  tx.owner = Operator /\ Pruning(th[Operator])
  => \A i \in Ids : tx.rows[i].status = "retired" /\ db[i].status # "retired"
                      => Class[i] # "durable"

Typed ==
  /\ db \in RowSets
  /\ tx \in [owner : Threads \cup {NoTx}, rows : RowSets]
  /\ th \in [Threads -> Locals]

StoreSound ==
  /\ Sound(db) /\ Sound(tx.rows)
  /\ tx.owner = NoTx => tx.rows = db
  /\ File \subseteq Draft

LockSound ==
  \A t \in Threads : /\ tx.owner = t => th[t].at # "off"
                     /\ th[t].at = "committing" => tx.owner = t

ThreadsSound == \A t \in Threads : Has(t, th[t], File, Draft)

IInv == Typed /\ StoreSound /\ LockSound /\ ThreadsSound /\ PruneDraft

-----------------------------------------------------------------------------
(* Operators on the records.                                               *)
LEMMA PutKeeps ==
  ASSUME BrainCaseAssumption, NEW rows \in RowSets, Sound(rows), NEW i \in Ids,
         NEW status \in {"candidate", "active"},
         rows[i].status = "absent" \/ (i \in MergeIds /\ status = "active")
  PROVE  /\ Put(rows, i, status) \in RowSets
         /\ Sound(Put(rows, i, status))
         /\ Exists(Put(rows, i, status)) = Exists(rows) \cup {i}
<1> DEFINE r == [status |-> status, by |-> NoId, age |-> "fresh",
                 told |-> IF rows[i].status = "absent" THEN status ELSE rows[i].told]
           new == Put(rows, i, status)
<1>1. new = [rows EXCEPT ![i] = r]
  BY DEF Put, RowSets
<1>2. r \in Rows
  BY DEF RowSets, Rows, Statuses
<1>3. r.status = status /\ (r.told = status \/ (i \in MergeIds /\ status = "active"))
  OBVIOUS
<1> HIDE DEF r, new
<1>4. new \in RowSets /\ new[i] = r /\ \A j \in Ids \ {i} : new[j] = rows[j]
  BY <1>1, <1>2 DEF RowSets
<1>5. Replaced(new)
  BY <1>3, <1>4 DEF Sound, Replaced
<1>6. Explained(new)
  BY <1>3, <1>4 DEF Sound, Explained
<1>7. Exists(new) = Exists(rows) \cup {i}
  BY <1>3, <1>4 DEF Exists
<1> QED
  BY <1>4, <1>5, <1>6, <1>7 DEF Sound, new

LEMMA ReviseKeeps ==
  ASSUME NEW rows \in RowSets, Sound(rows), NEW i \in Ids,
         NEW status \in {"active", "retired"}
  PROVE  /\ Revise(rows, i, status) \in RowSets
         /\ Sound(Revise(rows, i, status))
         /\ Exists(Revise(rows, i, status)) = Exists(rows) \cup {i}
         /\ \A j \in Ids \ {i} : Revise(rows, i, status)[j] = rows[j]
<1> DEFINE r == [rows[i] EXCEPT !.status = status, !.told = status, !.age = "fresh"]
           new == Revise(rows, i, status)
<1>1. new = [rows EXCEPT ![i] = r]
  BY DEF Revise, RowSets
<1>2. r \in Rows /\ r.status = status /\ r.told = status
  BY DEF RowSets, Rows, Statuses
<1> HIDE DEF r, new
<1>3. new \in RowSets /\ new[i] = r /\ \A j \in Ids \ {i} : new[j] = rows[j]
  BY <1>1, <1>2 DEF RowSets
<1>4. Replaced(new)
  BY <1>2, <1>3 DEF Sound, Replaced
<1>5. Explained(new)
  BY <1>2, <1>3 DEF Sound, Explained
<1>6. Exists(new) = Exists(rows) \cup {i}
  BY <1>2, <1>3 DEF Exists
<1> QED
  BY <1>3, <1>4, <1>5, <1>6 DEF Sound, new

Aged(rows, i, age) == [rows EXCEPT ![i].age = age]

LEMMA AgeKeeps ==
  ASSUME NEW rows \in RowSets, Sound(rows), NEW i \in Ids,
         NEW age \in {"fresh", "expired"}
  PROVE  /\ Aged(rows, i, age) \in RowSets
         /\ Sound(Aged(rows, i, age))
         /\ Exists(Aged(rows, i, age)) = Exists(rows)
<1> DEFINE r == [rows[i] EXCEPT !.age = age]
           new == Aged(rows, i, age)
<1>1. new = [rows EXCEPT ![i] = r]
  BY DEF Aged, RowSets
<1>2. r \in Rows /\ r.status = rows[i].status /\ r.told = rows[i].told /\ r.by = rows[i].by
  BY DEF RowSets, Rows
<1> HIDE DEF r, new
<1>3. new \in RowSets /\ new[i] = r /\ \A j \in Ids \ {i} : new[j] = rows[j]
  BY <1>1, <1>2 DEF RowSets
<1>4. \A j \in Ids : /\ new[j].status = rows[j].status
                     /\ new[j].told = rows[j].told /\ new[j].by = rows[j].by
  BY <1>2, <1>3
<1> QED
  BY <1>3, <1>4 DEF Sound, Replaced, Explained, Exists, new

LEMMA SupersedeKeeps ==
  ASSUME NEW rows \in RowSets, Sound(rows), NEW i \in Ids, NEW new \in Ids \ {i},
         rows[new].status # "absent"
  PROVE  /\ Supersede(rows, i, new) \in RowSets
         /\ Sound(Supersede(rows, i, new))
         /\ Exists(Supersede(rows, i, new)) = Exists(rows) \cup {i}
<1> DEFINE r == [rows[i] EXCEPT !.status = "superseded", !.told = "superseded",
                                !.age = "fresh", !.by = new]
           after == Supersede(rows, i, new)
<1>1. after = [rows EXCEPT ![i] = r]
  BY DEF Supersede, Revise, RowSets
<1>2. r \in Rows /\ r.status = "superseded" /\ r.told = "superseded" /\ r.by = new
  BY DEF RowSets, Rows, Statuses
<1> HIDE DEF r, after
<1>3. after \in RowSets /\ after[i] = r /\ \A j \in Ids \ {i} : after[j] = rows[j]
  BY <1>1, <1>2 DEF RowSets
<1>4. Replaced(after)
  BY <1>2, <1>3 DEF Sound, Replaced
<1>5. Explained(after)
  BY <1>2, <1>3 DEF Sound, Explained
<1>6. Exists(after) = Exists(rows) \cup {i}
  BY <1>2, <1>3 DEF Exists
<1> QED
  BY <1>3, <1>4, <1>5, <1>6 DEF Sound, after

LEMMA PatchKeeps ==
  ASSUME NEW rows \in RowSets, Sound(rows), NEW i \in Ids
  PROVE  /\ Patch(rows, i) \in RowSets
         /\ Sound(Patch(rows, i))
         /\ Exists(Patch(rows, i)) = Exists(rows)
<1>1. Patch(rows, i) = Aged(rows, i, "fresh")
  BY DEF Patch, Aged
<1> QED
  BY <1>1, AgeKeeps

(* What the policy retires is a record, and not a durable one.             *)
LEMMA RetiresNoDurable ==
  ASSUME NEW rows, NEW i \in ToRetire(rows)
  PROVE  i \in Exists(rows) /\ Class[i] # "durable"
<1> DEFINE status == rows[i].status
           class == Class[i]
           hits == {k \in DOMAIN DefaultPolicy : RuleMatches(DefaultPolicy[k], status, class)}
           k0 == CHOOSE k \in hits : \A j \in hits : k <= j
<1>0. i \in Ids /\ Decision(status, class, rows[i].age) = "retire"
  BY DEF ToRetire
<1>1. hits # {} /\ DefaultPolicy[k0].action = "retire"
  BY <1>0 DEF Decision
<1>2. PICK k \in hits : TRUE
  BY <1>1
<1>3. DOMAIN DefaultPolicy = 1 .. 8
  BY DEF DefaultPolicy
<1>4. \A n \in 1 .. 8 : /\ DefaultPolicy[n].status # "absent"
                        /\ DefaultPolicy[n].class = "durable"
                             => DefaultPolicy[n].action # "retire"
  BY DEF DefaultPolicy, Rule
<1>5. status # "absent"
  BY <1>2, <1>3, <1>4 DEF RuleMatches
<1>6. class # "durable"
  <2> SUFFICES ASSUME class = "durable" PROVE FALSE
    OBVIOUS
  <2>1. hits \subseteq {4, 8}
    BY <1>3 DEF RuleMatches, DefaultPolicy, Rule
  <2>2. \E m \in hits : \A j \in hits : m <= j
    BY <2>1, <1>1
  <2>3. k0 \in hits
    BY <2>2
  <2> QED
    BY <2>1, <2>3, <1>1, <1>4, <1>3 DEF RuleMatches
<1> QED
  BY <1>0, <1>5, <1>6 DEF Exists

-----------------------------------------------------------------------------
(* Who is who.                                                             *)
LEMMA Apart ==
  ASSUME BrainCaseAssumption
  PROVE  /\ Session \in Threads \ (Managers \cup {Operator})
         /\ Operator \in Threads \ (Managers \cup {Session})
         /\ Managers \subseteq Threads
         /\ NoTx \notin Threads /\ NoId \notin Ids /\ MergeIds \subseteq Ids
  BY DEF BrainCaseAssumption, Threads, NoTx

(* A thread that may write sees the draft: its own, or the file as it is.  *)
LEMMA ViewIsDraft ==
  ASSUME IInv, NEW t \in Threads, MayWrite(t)
  PROVE  View(t) = tx.rows
  BY DEF IInv, StoreSound, MayWrite, View

LEMMA InHand ==
  ASSUME IInv, NEW t \in Threads
  PROVE  /\ Has(t, th[t], File, Draft)
         /\ th[t] \in Locals
         /\ File \subseteq Draft /\ Draft \subseteq Ids
         /\ tx.rows \in RowSets /\ Sound(tx.rows) /\ db \in RowSets /\ Sound(db)
  BY DEF IInv, ThreadsSound, Typed, StoreSound, Draft, Exists

(* What a write drafts.                                                    *)
LEMMA EffectKeeps ==
  ASSUME BrainCaseAssumption, IInv, NEW t \in Threads,
         th[t].at = "writing", MayWrite(t)
  PROVE  /\ Effect(t) \in RowSets /\ Sound(Effect(t))
         /\ Draft \subseteq Exists(Effect(t))
         /\ t # Session => Exists(Effect(t)) \subseteq Draft \cup MergeIds
         /\ t \in Managers /\ th[t].op = "put" => th[t].new \in Exists(Effect(t))
         /\ th[t].op = "prune" => Effect(t) = Retire(tx.rows, th[t].id)
<1>1. View(t) = tx.rows
  BY ViewIsDraft
<1>2. Busy(th[t])
  BY DEF Busy
<1>3. CASE t = Session
  <2>1. th[t].op = "put" /\ th[t].id \in Ids \ MergeIds /\ th[t].id \notin Draft
    BY <1>2, <1>3, InHand DEF Has, SessionHas
  <2>2. tx.rows[th[t].id].status = "absent"
    BY <2>1 DEF Draft, Exists
  <2>3. Effect(t) = Put(tx.rows, th[t].id, "candidate")
    BY <1>1, <1>3, <2>1 DEF Effect
  <2> QED
    BY <1>3, <2>1, <2>2, <2>3, InHand, PutKeeps, Apart DEF Draft
<1>4. CASE t = Operator
  <2>1. th[t].id \in Draft /\ th[t].op \in {"promote", "retire", "prune"}
    BY <1>2, <1>4, InHand DEF Has, OperatorHas
  <2>2. Effect(t) = Revise(tx.rows, th[t].id, IF th[t].op = "promote" THEN "active" ELSE "retired")
    BY <1>1, <2>1 DEF Effect, Promote, Retire
  <2>3. th[t].op = "prune" => Effect(t) = Retire(tx.rows, th[t].id)
    BY <2>2 DEF Retire
  <2> QED
    BY <1>4, <2>1, <2>2, <2>3, InHand, ReviseKeeps, Apart DEF Draft
<1>5. CASE t \in Managers
  <2> DEFINE l == th[t]
  <2>1. /\ l.id \in Draft /\ l.id \in Ids
        /\ l.op \in {"put", "promote", "retire", "patch", "supersede"}
        /\ l.op \in {"put", "supersede"} => l.new \in MergeIds \ {l.id}
        /\ l.op = "supersede" => l.new \in Draft
    BY <1>2, <1>5, InHand DEF Has, ManagerHas
  <2>2. t # Session /\ t # Operator /\ MergeIds \subseteq Ids
    BY <1>5, Apart
  <2>3. CASE l.op = "put"
    <3>1. Effect(t) = Put(tx.rows, l.new, "active")
      BY <1>1, <2>2, <2>3 DEF Effect
    <3>2. /\ Put(tx.rows, l.new, "active") \in RowSets
          /\ Sound(Put(tx.rows, l.new, "active"))
          /\ Exists(Put(tx.rows, l.new, "active")) = Exists(tx.rows) \cup {l.new}
      BY <2>1, <2>2, <2>3, InHand, PutKeeps
    <3> QED
      BY <2>1, <2>3, <3>1, <3>2 DEF Draft
  <2>4. CASE l.op \in {"promote", "retire"}
    <3>1. Effect(t) = Revise(tx.rows, l.id, IF l.op = "promote" THEN "active" ELSE "retired")
      BY <1>1, <2>4 DEF Effect, Promote, Retire
    <3> QED
      BY <2>1, <2>4, <3>1, InHand, ReviseKeeps DEF Draft
  <2>5. CASE l.op = "patch"
    <3>1. Effect(t) = Patch(tx.rows, l.id)
      BY <1>1, <2>5 DEF Effect
    <3>2. /\ Patch(tx.rows, l.id) \in RowSets /\ Sound(Patch(tx.rows, l.id))
          /\ Exists(Patch(tx.rows, l.id)) = Exists(tx.rows)
      BY <2>1, InHand, PatchKeeps
    <3> QED
      BY <2>2, <2>5, <3>1, <3>2 DEF Draft
  <2>6. CASE l.op = "supersede"
    <3>1. Effect(t) = Supersede(tx.rows, l.id, l.new)
      BY <1>1, <2>6 DEF Effect
    <3>2. l.new \in Ids \ {l.id} /\ tx.rows[l.new].status # "absent"
      BY <2>1, <2>2, <2>6 DEF Draft, Exists
    <3> QED
      BY <2>1, <2>6, <3>1, <3>2, InHand, SupersedeKeeps DEF Draft
  <2> QED
    BY <2>1, <2>3, <2>4, <2>5, <2>6
<1> QED
  BY <1>3, <1>4, <1>5 DEF Threads

(* What a thread has in hand survives the growth of the file.              *)
LEMMA HasGrows ==
  ASSUME NEW t, NEW l, NEW f, NEW d, NEW f2, NEW d2,
         Has(t, l, f, d), f \subseteq f2,
         t = Session /\ l.at = "writing" => l.id \notin d2,
         l.at = "committing" => d \subseteq d2
  PROVE  Has(t, l, f2, d2)
<1>1. ASSUME t = Session PROVE SessionHas(l, d2)
  BY <1>1 DEF Has, SessionHas
<1>2. ASSUME t = Operator PROVE OperatorHas(l, f2)
  BY <1>2 DEF Has, OperatorHas
<1>3. ASSUME t \in Managers PROVE ManagerHas(l, f2, d2)
  BY <1>3 DEF Has, ManagerHas, Busy
<1> QED
  BY <1>1, <1>2, <1>3 DEF Has

(* One thread moves; what the others rely on is left to them.              *)
Undisturbed(u) ==
  /\ u = Session /\ th[u].at = "writing" => th[u].id \notin Draft'
  /\ th[u].at = "committing" => Draft \subseteq Draft' /\ tx'.owner = u
  /\ tx'.owner = u => tx.owner = u

LEMMA Moves ==
  ASSUME IInv, NEW t \in Threads, NEW l \in Locals, th' = [th EXCEPT ![t] = l],
         db' \in RowSets, tx' \in [owner : Threads \cup {NoTx}, rows : RowSets],
         StoreSound', File \subseteq File', PruneDraft',
         Has(t, l, File', Draft'),
         l.at = "off" => tx'.owner # t,
         l.at = "committing" => tx'.owner = t,
         \A u \in Threads \ {t} : Undisturbed(u)
  PROVE  IInv'
<1>1. th' \in [Threads -> Locals] /\ th'[t] = l /\ \A u \in Threads \ {t} : th'[u] = th[u]
  BY DEF IInv, Typed
<1>2. LockSound'
  <2> SUFFICES ASSUME NEW u \in Threads
               PROVE  /\ tx'.owner = u => th'[u].at # "off"
                      /\ th'[u].at = "committing" => tx'.owner = u
    BY DEF LockSound
  <2>1. CASE u = t
    BY <1>1, <2>1
  <2>2. CASE u # t
    BY <1>1, <2>2 DEF Undisturbed, IInv, LockSound
  <2> QED
    BY <2>1, <2>2
<1>3. ThreadsSound'
  <2> SUFFICES ASSUME NEW u \in Threads PROVE Has(u, th'[u], File', Draft')
    BY DEF ThreadsSound, Has, SessionHas, OperatorHas, ManagerHas, Busy
  <2>1. CASE u = t
    BY <1>1, <2>1
  <2>2. CASE u # t
    <3>1. Has(u, th[u], File, Draft) /\ Undisturbed(u)
      BY <2>2 DEF IInv, ThreadsSound
    <3>2. Has(u, th[u], File', Draft')
      BY <3>1, HasGrows DEF Undisturbed
    <3> QED
      BY <1>1, <2>2, <3>2
  <2> QED
    BY <2>1, <2>2
<1> QED
  BY <1>1, <1>2, <1>3 DEF IInv, Typed

(* A step of one thread that touches neither the file nor the draft.       *)
LEMMA OnlyThread ==
  ASSUME IInv, NEW t \in Threads, NEW l \in Locals, th' = [th EXCEPT ![t] = l],
         UNCHANGED <<db, tx>>,
         Has(t, l, File, Draft),
         l.at = "off" => tx.owner # t,
         l.at = "committing" => tx.owner = t,
         t = Operator /\ tx.owner = t /\ Pruning(l) => Pruning(th[t])
  PROVE  IInv'
<1>1. File' = File /\ Draft' = Draft
  BY DEF File, Draft, Exists
<1>2. StoreSound'
  BY <1>1 DEF IInv, StoreSound, Sound, Replaced, Explained
<1>3. th'[t] = l /\ \A u \in Threads \ {t} : th'[u] = th[u]
  BY DEF IInv, Typed
<1>4. PruneDraft'
  <2> SUFFICES ASSUME tx.owner = Operator, Pruning(th'[Operator]), NEW i \in Ids,
                      tx.rows[i].status = "retired", db[i].status # "retired"
               PROVE  Class[i] # "durable"
    BY DEF PruneDraft, Pruning, Busy
  <2>1. Operator \in Threads
    BY DEF Threads
  <2>2. Pruning(th[Operator])
    BY <1>3, <2>1
  <2> QED
    BY <2>2 DEF IInv, PruneDraft
<1>5. ASSUME NEW u \in Threads \ {t} PROVE Undisturbed(u)
  <2>1. Has(u, th[u], File, Draft) /\ (th[u].at = "committing" => tx.owner = u)
    BY DEF IInv, ThreadsSound, LockSound
  <2> QED
    BY <1>1, <2>1 DEF Undisturbed, Has, SessionHas, Busy
<1> QED
  BY <1>1, <1>2, <1>4, <1>5, Moves DEF IInv, Typed

-----------------------------------------------------------------------------
(* The steps of a write.                                                   *)
LEMMA WriteKeeps ==
  ASSUME BrainCaseAssumption, IInv, NEW t \in Threads, Write(t)
  PROVE  IInv'
<1> DEFINE l == [th[t] EXCEPT !.at = "committing"]
<1>1. /\ th[t].at = "writing" /\ MayWrite(t) /\ Busy(th[t])
      /\ tx' = [owner |-> t, rows |-> Effect(t)] /\ db' = db
      /\ th' = [th EXCEPT ![t] = l]
  BY DEF Write, Goto, Busy
<1>2. /\ Effect(t) \in RowSets /\ Sound(Effect(t)) /\ Draft \subseteq Exists(Effect(t))
      /\ t # Session => Exists(Effect(t)) \subseteq Draft \cup MergeIds
      /\ t \in Managers /\ th[t].op = "put" => th[t].new \in Exists(Effect(t))
      /\ th[t].op = "prune" => Effect(t) = Retire(tx.rows, th[t].id)
  BY <1>1, EffectKeeps
<1>3. File' = File /\ Draft' = Exists(Effect(t))
  BY <1>1 DEF File, Draft, Exists
<1>4. l \in Locals /\ l.at = "committing" /\ l.op = th[t].op /\ l.id = th[t].id
      /\ l.new = th[t].new /\ l.rest = th[t].rest
  BY InHand DEF Locals
<1> HIDE DEF l
<1>5. Has(t, th[t], File, Draft) /\ File \subseteq Draft
  BY InHand
<1>6. Has(t, l, File', Draft')
  BY <1>1, <1>2, <1>3, <1>4, <1>5 DEF Has, SessionHas, OperatorHas, ManagerHas, Busy
<1>7. tx'.owner = t /\ tx'.rows = Effect(t)
      /\ tx' \in [owner : Threads \cup {NoTx}, rows : RowSets]
  BY <1>1, <1>2
<1>8. StoreSound'
  <2>1. Sound(db)' /\ Sound(tx.rows)'
    BY <1>1, <1>2, <1>7, InHand DEF Sound, Replaced, Explained
  <2>2. File' \subseteq Draft'
    BY <1>2, <1>3, <1>5
  <2> QED
    BY <1>7, <2>1, <2>2, Apart DEF StoreSound
<1>9. PruneDraft'
  <2> SUFFICES ASSUME t = Operator, Pruning(th'[t]), NEW i \in Ids,
                      Effect(t)[i].status = "retired", db[i].status # "retired"
               PROVE  Class[i] # "durable"
    BY <1>1, <1>7 DEF PruneDraft, Pruning, Busy
  <2>1. th'[t] = l
    BY <1>1 DEF IInv, Typed
  <2>2. /\ th[t].op = "prune" /\ th[t].id \in File /\ Class[th[t].id] # "durable"
        /\ Pruning(th[t])
    BY <1>1, <1>4, <1>5, <2>1 DEF Has, OperatorHas, Pruning
  <2>3. CASE i = th[t].id
    BY <2>2, <2>3
  <2>4. CASE i # th[t].id
    <3>1. tx.rows[i].status = "retired"
      <4>1. Effect(t) = Revise(tx.rows, th[t].id, "retired")
        BY <1>2, <2>2 DEF Retire
      <4>2. th[t].id \in Ids
        BY <2>2 DEF File, Exists
      <4>3. tx.rows \in RowSets /\ Sound(tx.rows)
        BY InHand
      <4>4. \A j \in Ids \ {th[t].id} :
              Revise(tx.rows, th[t].id, "retired")[j] = tx.rows[j]
        BY <4>2, <4>3, ReviseKeeps
      <4> QED
        BY <2>4, <4>1, <4>4
    <3>2. tx.owner = Operator
      BY <1>1, <3>1 DEF MayWrite, IInv, StoreSound
    <3> QED
      BY <2>2, <3>1, <3>2 DEF IInv, PruneDraft
  <2> QED
    BY <2>3, <2>4
<1>10. ASSUME NEW u \in Threads \ {t} PROVE Undisturbed(u)
  <2>1. Has(u, th[u], File, Draft)
        /\ (th[u].at = "committing" => tx.owner = u)
    BY DEF IInv, ThreadsSound, LockSound
  <2>2. th[u].at # "committing"
    BY <1>1, <2>1, Apart DEF MayWrite
  <2>3. ASSUME u = Session, th[u].at = "writing" PROVE th[u].id \notin Draft'
    BY <1>2, <1>3, <2>1, <2>3 DEF Has, SessionHas, Busy
  <2> QED
    BY <1>7, <2>2, <2>3 DEF Undisturbed
<1> QED
  BY <1>1, <1>3, <1>4, <1>6, <1>7, <1>8, <1>9, <1>10, InHand, Moves

(* Where a thread goes after a write.                                      *)
LEMMA ReturnsHas ==
  ASSUME BrainCaseAssumption, IInv, NEW t \in Threads, Busy(th[t])
  PROVE  \E l \in Locals :
           /\ Returns(t) = [th EXCEPT ![t] = l]
           /\ l.at \in {"closing", "judging", "merging", "choosing"}
           /\ Has(t, l, File, Draft)
           /\ t = Operator /\ Pruning(l) => Pruning(th[t])
<1> DEFINE m == th[t].rest # {} /\ t \in Managers
           at == CASE t = Session -> "closing" [] t = Operator -> "judging"
                   [] m -> "merging" [] OTHER -> "choosing"
           new == IF m THEN th[t].new ELSE NoId
           l == [th[t] EXCEPT !.at = at, !.op = "none", !.id = NoId, !.new = new]
<1>1. at \in {"closing", "judging", "merging", "choosing"}
  OBVIOUS
<1>2. Has(t, th[t], File, Draft) /\ th[t] \in Locals
  BY InHand
<1>3. new \in Ids \cup {NoId}
  BY <1>2 DEF Locals
<1>4. Returns(t) = [th EXCEPT ![t] = l]
  BY DEF Returns, IInv, Typed
<1> HIDE DEF at, new
<1>5. l \in Locals /\ l.at = at /\ l.op = "none" /\ l.new = new /\ l.rest = th[t].rest
  BY <1>1, <1>2, <1>3 DEF Locals
<1> HIDE DEF l
<1>6. ~ Busy(l) /\ l.at # "off"
  BY <1>1, <1>5 DEF Busy
<1>7. ASSUME t \in Managers PROVE ManagerHas(l, File, Draft)
  <2>1. ManagerHas(th[t], File, Draft)
    BY <1>2, <1>7 DEF Has
  <2>2. th[t].rest # {} => l.new = th[t].new
    BY <1>5, <1>7 DEF new
  <2> QED
    BY <1>5, <1>6, <2>1, <2>2 DEF ManagerHas
<1>8. Has(t, l, File, Draft)
  BY <1>2, <1>5, <1>6, <1>7 DEF Has, SessionHas, OperatorHas
<1> QED
  BY <1>1, <1>4, <1>5, <1>6, <1>8 DEF Pruning

LEMMA WriteFailsKeeps ==
  ASSUME BrainCaseAssumption, IInv, NEW t \in Threads, WriteFails(t)
  PROVE  IInv'
<1>1. Busy(th[t]) /\ th' = Returns(t) /\ UNCHANGED <<db, tx>>
  BY DEF WriteFails, After, Busy
<1>2. PICK l \in Locals :
        /\ Returns(t) = [th EXCEPT ![t] = l]
        /\ l.at \in {"closing", "judging", "merging", "choosing"}
        /\ Has(t, l, File, Draft)
        /\ t = Operator /\ Pruning(l) => Pruning(th[t])
  BY <1>1, ReturnsHas
<1> QED
  BY <1>1, <1>2, OnlyThread

(* A commit publishes the draft; the merged record that was put is then in *)
(* the file, and its source may be superseded by it.                       *)
LEMMA CommitKeeps ==
  ASSUME BrainCaseAssumption, IInv, NEW t \in Threads, Commit(t)
  PROVE  IInv'
<1>1. /\ th[t].at = "committing" /\ Busy(th[t])
      /\ db' = tx.rows /\ tx' = [owner |-> NoTx, rows |-> tx.rows]
      /\ After(t, TRUE)
  BY DEF Commit, Busy
<1>2. /\ Has(t, th[t], File, Draft) /\ th[t] \in Locals /\ File \subseteq Draft
      /\ tx.rows \in RowSets /\ Sound(tx.rows)
  BY InHand
<1>3. tx.owner = t
  BY <1>1 DEF IInv, LockSound
<1>4. File' = Draft /\ Draft' = Draft
  BY <1>1 DEF File, Draft, Exists
<1>5. tx' \in [owner : Threads \cup {NoTx}, rows : RowSets] /\ db' \in RowSets
      /\ tx'.owner = NoTx
  BY <1>1, <1>2
<1>6. StoreSound'
  <2>1. Sound(db)' /\ Sound(tx.rows)'
    BY <1>1, <1>2 DEF Sound, Replaced, Explained
  <2> QED
    BY <1>1, <1>4, <2>1 DEF StoreSound
<1>7. PruneDraft'
  BY <1>5, Apart DEF PruneDraft
<1>8. ASSUME NEW u \in Threads \ {t} PROVE Undisturbed(u)
  <2>1. Has(u, th[u], File, Draft) /\ (th[u].at = "committing" => tx.owner = u)
    BY DEF IInv, ThreadsSound, LockSound
  <2> QED
    BY <1>3, <1>4, <1>5, <2>1, Apart DEF Undisturbed, Has, SessionHas, Busy
<1>9. \E l \in Locals :
        /\ th' = [th EXCEPT ![t] = l]
        /\ l.at # "off" /\ l.at # "committing"
        /\ Has(t, l, Draft, Draft)
  <2>1. CASE th[t].op = "put" /\ t \in Managers
    <3> DEFINE l == [th[t] EXCEPT !.at = "writing", !.op = "supersede", !.id = th[t].id]
    <3>1. th' = [th EXCEPT ![t] = l]
      BY <1>1, <2>1 DEF After, Call, IInv, Typed
    <3>2. l \in Locals /\ l.at = "writing" /\ l.op = "supersede" /\ l.id = th[t].id
          /\ l.new = th[t].new /\ l.rest = th[t].rest
      BY <1>2 DEF Locals
    <3> HIDE DEF l
    <3>3. ManagerHas(th[t], File, Draft) /\ t # Session /\ t # Operator
      BY <1>2, <2>1, Apart DEF Has
    <3>4. ManagerHas(l, Draft, Draft)
      BY <1>1, <1>2, <2>1, <3>2, <3>3 DEF ManagerHas, Busy
    <3> QED
      BY <3>1, <3>2, <3>3, <3>4 DEF Has
  <2>2. CASE ~ (th[t].op = "put" /\ t \in Managers)
    <3>1. th' = Returns(t)
      BY <1>1, <2>2 DEF After
    <3>2. PICK l \in Locals :
            /\ Returns(t) = [th EXCEPT ![t] = l]
            /\ l.at \in {"closing", "judging", "merging", "choosing"}
            /\ Has(t, l, File, Draft)
      BY <1>1, ReturnsHas
    <3>3. Has(t, l, Draft, Draft)
      BY <1>2, <3>2, HasGrows
    <3> QED
      BY <3>1, <3>2, <3>3
  <2> QED
    BY <2>1, <2>2
<1>10. PICK l \in Locals :
        /\ th' = [th EXCEPT ![t] = l]
        /\ l.at # "off" /\ l.at # "committing"
        /\ Has(t, l, Draft, Draft)
  BY <1>9
<1> QED
  BY <1>2, <1>4, <1>5, <1>6, <1>7, <1>8, <1>10, Moves

(* Threads that close give up their draft.                                 *)
LEMMA OffHas ==
  ASSUME BrainCaseAssumption, NEW t, NEW f, NEW d
  PROVE  Off \in Locals /\ Off.at = "off" /\ Has(t, Off, f, d) /\ ~ Pruning(Off)
<1>1. Off \in Locals /\ Off.at = "off" /\ Off.rest = {}
  BY DEF Off, Locals, BrainCaseAssumption
<1>2. ~ Busy(Off)
  BY <1>1 DEF Busy
<1> QED
  BY <1>1, <1>2 DEF Has, SessionHas, OperatorHas, ManagerHas, Pruning

LEMMA KilledKeeps ==
  ASSUME BrainCaseAssumption, IInv, NEW ts \in SUBSET Threads, Killed(ts)
  PROVE  IInv'
<1>1. /\ th' = [u \in Threads |-> IF u \in ts THEN Off ELSE th[u]]
      /\ tx' = IF tx.owner \in ts THEN [owner |-> NoTx, rows |-> db] ELSE tx
      /\ db' = db
  BY DEF Killed
<1>2. /\ File \subseteq Draft /\ tx.rows \in RowSets /\ Sound(tx.rows)
      /\ db \in RowSets /\ Sound(db)
  BY InHand, Apart
<1>3. Typed'
  <2>1. Off \in Locals
    BY OffHas
  <2> QED
    BY <1>1, <1>2, <2>1 DEF IInv, Typed
<1>4. File' = File /\ Draft' = IF tx.owner \in ts THEN File ELSE Draft
  BY <1>1 DEF File, Draft, Exists
<1>5. tx'.owner = (IF tx.owner \in ts THEN NoTx ELSE tx.owner)
      /\ tx'.rows = IF tx.owner \in ts THEN db ELSE tx.rows
  BY <1>1
<1>6. StoreSound'
  <2>1. Sound(db)'
    BY <1>1, <1>2 DEF Sound, Replaced, Explained
  <2>2. Sound(tx.rows)'
    BY <1>2, <1>5 DEF Sound, Replaced, Explained
  <2>3. tx'.owner = NoTx => tx'.rows = db'
    BY <1>1, <1>5 DEF IInv, StoreSound
  <2> QED
    BY <1>2, <1>4, <2>1, <2>2, <2>3 DEF StoreSound
<1>7. LockSound'
  <2> SUFFICES ASSUME NEW u \in Threads
               PROVE  /\ tx'.owner = u => th'[u].at # "off"
                      /\ th'[u].at = "committing" => tx'.owner = u
    BY DEF LockSound
  <2>1. CASE u \in ts
    BY <1>1, <1>5, <2>1, OffHas, Apart
  <2>2. CASE u \notin ts
    BY <1>1, <1>5, <2>2, Apart DEF IInv, LockSound
  <2> QED
    BY <2>1, <2>2
<1>8. ThreadsSound'
  <2> SUFFICES ASSUME NEW u \in Threads PROVE Has(u, th'[u], File', Draft')
    BY DEF ThreadsSound, Has, SessionHas, OperatorHas, ManagerHas, Busy
  <2>1. CASE u \in ts
    BY <1>1, <2>1, OffHas
  <2>2. CASE u \notin ts
    <3>1. Has(u, th[u], File, Draft) /\ (th[u].at = "committing" => tx.owner = u)
          /\ th'[u] = th[u]
      BY <1>1, <2>2 DEF IInv, ThreadsSound, LockSound
    <3>2. u = Session /\ th[u].at = "writing" => th[u].id \notin Draft'
      BY <1>2, <1>4, <3>1 DEF Has, SessionHas, Busy
    <3>3. th[u].at = "committing" => Draft \subseteq Draft'
      BY <1>4, <2>2, <3>1
    <3>4. Has(u, th[u], File', Draft')
      BY <1>4, <3>1, <3>2, <3>3, HasGrows
    <3> QED
      BY <3>1, <3>4
  <2> QED
    BY <2>1, <2>2
<1>9. PruneDraft'
  <2> SUFFICES ASSUME tx'.owner = Operator, Pruning(th'[Operator]), NEW i \in Ids,
                      tx'.rows[i].status = "retired", db'[i].status # "retired"
               PROVE  Class[i] # "durable"
    BY DEF PruneDraft, Pruning, Busy
  <2>1. tx.owner = Operator /\ tx.owner \notin ts
    BY <1>5, Apart
  <2>2. th'[Operator] = th[Operator]
    BY <1>1, <2>1, Apart
  <2> QED
    BY <1>1, <1>5, <2>1, <2>2 DEF IInv, PruneDraft
<1> QED
  BY <1>3, <1>6, <1>7, <1>8, <1>9 DEF IInv

LEMMA CloseKeeps ==
  ASSUME BrainCaseAssumption, IInv, NEW t \in Threads, Close(t)
  PROVE  IInv'
<1>1. Killed({t})
  BY DEF Close, Killed, IInv, Typed
<1> QED
  BY <1>1, KilledKeeps

-----------------------------------------------------------------------------
(* The session, the manager and the operator choose what to write.         *)
LEMMA StageKeeps ==
  ASSUME BrainCaseAssumption, IInv, NEW i \in Ids, StageCandidate(i)
  PROVE  IInv'
<1> DEFINE l == [th[Session] EXCEPT !.at = "writing", !.op = "put", !.id = i]
<1>0. Session \in Threads /\ th[Session] \in Locals
  BY Apart, InHand
<1>1. th' = [th EXCEPT ![Session] = l] /\ UNCHANGED <<db, tx>>
  BY Apart DEF StageCandidate, Call, IInv, Typed
<1>2. i \notin MergeIds /\ i \notin Draft
  BY DEF StageCandidate, Unused, Draft, Exists
<1>3. l \in Locals /\ l.at = "writing" /\ l.op = "put" /\ l.id = i
  BY <1>0 DEF Locals
<1> HIDE DEF l
<1>4. Has(Session, l, File, Draft)
  BY <1>2, <1>3, Apart DEF Has, SessionHas
<1> QED
  BY <1>1, <1>3, <1>4, Apart, OnlyThread

LEMMA StartRunKeeps ==
  ASSUME BrainCaseAssumption, IInv, NEW t \in Managers, StartRun(t)
  PROVE  IInv'
<1> DEFINE l == [th[t] EXCEPT !.at = "asked"]
<1>1. th' = [th EXCEPT ![t] = l] /\ UNCHANGED <<db, tx>>
  BY DEF StartRun, Goto
<1>2. t \in Threads /\ t # Session /\ t # Operator
  BY Apart
<1>3. l \in Locals /\ l.at = "asked" /\ l.rest = th[t].rest /\ l.new = th[t].new
  BY <1>2, InHand DEF Locals
<1> HIDE DEF l
<1>4. Has(t, l, File, Draft)
  BY <1>2, <1>3, InHand DEF Has, ManagerHas, Busy
<1> QED
  BY <1>1, <1>2, <1>3, <1>4, OnlyThread

LEMMA AnswerKeeps ==
  ASSUME BrainCaseAssumption, IInv, NEW t \in Managers, Answer(t)
  PROVE  IInv'
<1>1. PICK n \in 0 .. MaxCalls :
        th' = [th EXCEPT ![t].at = "choosing", ![t].left = n]
  BY DEF Answer
<1> DEFINE l == [th[t] EXCEPT !.at = "choosing", !.left = n]
<1>2. t \in Threads /\ t # Session /\ t # Operator
  BY Apart
<1>3. th' = [th EXCEPT ![t] = l] /\ UNCHANGED <<db, tx>>
  BY <1>1, <1>2 DEF Answer, IInv, Typed
<1>4. l \in Locals /\ l.at = "choosing" /\ l.rest = th[t].rest /\ l.new = th[t].new
  BY <1>2, InHand DEF Locals
<1> HIDE DEF l
<1>5. Has(t, l, File, Draft)
  BY <1>2, <1>4, InHand DEF Has, ManagerHas, Busy
<1> QED
  BY <1>2, <1>3, <1>4, <1>5, OnlyThread

LEMMA DispatchKeeps ==
  ASSUME BrainCaseAssumption, IInv, NEW t \in Managers, Dispatch(t)
  PROVE  IInv'
<1>1. PICK i \in File, op \in {"promote", "retire", "patch"} :
        th' = [th EXCEPT ![t].at = "writing", ![t].op = op, ![t].id = i,
                         ![t].left = @ - 1]
  BY DEF Dispatch, File
<1> DEFINE m == th[t].left - 1
           l == [th[t] EXCEPT !.at = "writing", !.op = op, !.id = i, !.left = m]
<1>2. t \in Threads /\ t # Session /\ t # Operator
  BY Apart
<1>3. th' = [th EXCEPT ![t] = l] /\ UNCHANGED <<db, tx>>
  BY <1>1, <1>2 DEF Dispatch, IInv, Typed
<1>4. m \in 0 .. MaxCalls /\ i \in Ids
  <2>1. th[t].left \in 0 .. MaxCalls /\ th[t].left > 0
    BY <1>2, InHand DEF Locals, Dispatch
  <2> QED
    BY <2>1 DEF BrainCaseAssumption, File, Exists
<1> HIDE DEF m
<1>5. l \in Locals /\ l.op = op /\ l.id = i
      /\ l.rest = th[t].rest /\ l.new = th[t].new /\ l.at = "writing"
  BY <1>2, <1>4, InHand DEF Locals
<1> HIDE DEF l
<1>6. Has(t, l, File, Draft)
  BY <1>2, <1>5, InHand DEF Has, ManagerHas
<1> QED
  BY <1>2, <1>3, <1>5, <1>6, OnlyThread

LEMMA DispatchMergeKeeps ==
  ASSUME BrainCaseAssumption, IInv, NEW t \in Managers, DispatchMerge(t)
  PROVE  IInv'
<1>1. PICK new \in MergeIds, sources \in SUBSET File :
        /\ Unused(new)
        /\ th' = [th EXCEPT ![t].at = "merging", ![t].new = new,
                            ![t].rest = sources, ![t].left = @ - 1]
  BY DEF DispatchMerge, File
<1> DEFINE m == th[t].left - 1
           l == [th[t] EXCEPT !.at = "merging", !.new = new, !.rest = sources, !.left = m]
<1>2. t \in Threads /\ t # Session /\ t # Operator
  BY Apart
<1>3. th' = [th EXCEPT ![t] = l] /\ UNCHANGED <<db, tx>>
  BY <1>1, <1>2 DEF DispatchMerge, IInv, Typed
<1>4. m \in 0 .. MaxCalls /\ new \in Ids /\ sources \subseteq Ids /\ new \notin sources
  <2>1. th[t].left \in 0 .. MaxCalls /\ th[t].left > 0
    BY <1>2, InHand DEF Locals, DispatchMerge
  <2>2. new \notin File
    BY <1>1 DEF Unused, File, Exists
  <2> QED
    BY <2>1, <2>2, Apart DEF BrainCaseAssumption, File, Exists
<1> HIDE DEF m
<1>5. l \in Locals /\ l.at = "merging" /\ l.rest = sources /\ l.new = new
  BY <1>2, <1>4, InHand DEF Locals
<1> HIDE DEF l
<1>6. Has(t, l, File, Draft)
  BY <1>2, <1>4, <1>5 DEF Has, ManagerHas, Busy
<1> QED
  BY <1>2, <1>3, <1>5, <1>6, OnlyThread

LEMMA MergeSourceKeeps ==
  ASSUME BrainCaseAssumption, IInv, NEW t \in Managers, MergeSource(t)
  PROVE  IInv'
<1>1. PICK i \in th[t].rest :
        th' = [th EXCEPT ![t].at = "writing", ![t].op = "put", ![t].id = i,
                         ![t].rest = @ \ {i}]
  BY DEF MergeSource
<1> DEFINE others == th[t].rest \ {i}
           l == [th[t] EXCEPT !.at = "writing", !.op = "put", !.id = i, !.rest = others]
<1>2. t \in Threads /\ t # Session /\ t # Operator
  BY Apart
<1>3. th' = [th EXCEPT ![t] = l] /\ UNCHANGED <<db, tx>>
  BY <1>1, <1>2 DEF MergeSource, IInv, Typed
<1>4. others \subseteq Ids /\ i \in Ids
  BY <1>2, InHand DEF Locals
<1>5. ManagerHas(th[t], File, Draft)
  BY <1>2, InHand DEF Has
<1> HIDE DEF others
<1>6. l \in Locals /\ l.at = "writing" /\ l.op = "put" /\ l.id = i
      /\ l.rest = others /\ l.new = th[t].new
  BY <1>2, <1>4, InHand DEF Locals
<1> HIDE DEF l
<1>7. Has(t, l, File, Draft)
  BY <1>1, <1>2, <1>5, <1>6 DEF Has, ManagerHas, others
<1> QED
  BY <1>2, <1>3, <1>6, <1>7, OnlyThread

LEMMA ReviewKeeps ==
  ASSUME BrainCaseAssumption, IInv, NEW i \in Ids, NEW op \in {"promote", "retire"},
         Review(i, op)
  PROVE  IInv'
<1> DEFINE l == [th[Operator] EXCEPT !.at = "writing", !.op = op, !.id = i]
<1>0. Operator \in Threads /\ Operator # Session /\ Operator \notin Managers
  BY Apart
<1>1. th' = [th EXCEPT ![Operator] = l] /\ UNCHANGED <<db, tx>>
  BY <1>0 DEF Review, Call, IInv, Typed
<1>2. i \in File /\ th[Operator].rest = {}
  <2>1. th[Operator].at = "off" /\ i \in File
    BY DEF Review, Open, File, Exists
  <2> QED
    BY <1>0, <2>1, InHand DEF Has, OperatorHas
<1>3. l \in Locals /\ l.at = "writing" /\ l.op = op /\ l.id = i
      /\ l.rest = th[Operator].rest
  BY <1>0, InHand DEF Locals
<1> HIDE DEF l
<1>4. Has(Operator, l, File, Draft) /\ ~ Pruning(l)
  BY <1>0, <1>2, <1>3 DEF Has, OperatorHas, Pruning
<1> QED
  BY <1>0, <1>1, <1>3, <1>4, OnlyThread

LEMMA ReportKeeps ==
  ASSUME BrainCaseAssumption, IInv, Report
  PROVE  IInv'
<1> DEFINE l == [th[Operator] EXCEPT !.at = "judging", !.rest = ToRetire(db)]
<1>0. Operator \in Threads /\ Operator # Session /\ Operator \notin Managers
  BY Apart
<1>1. th' = [th EXCEPT ![Operator] = l] /\ UNCHANGED <<db, tx>>
  BY <1>0 DEF Report, IInv, Typed
<1>2. ToRetire(db) \subseteq File /\ ToRetire(db) \subseteq Ids
  BY RetiresNoDurable DEF File, ToRetire
<1>3. l \in Locals /\ l.at = "judging" /\ l.rest = ToRetire(db)
  BY <1>0, <1>2, InHand DEF Locals
<1>4. tx.owner # Operator
  BY <1>0 DEF Report, Open, IInv, LockSound
<1> HIDE DEF l
<1>5. Has(Operator, l, File, Draft)
  BY <1>0, <1>2, <1>3 DEF Has, OperatorHas, Busy
<1> QED
  BY <1>0, <1>1, <1>3, <1>4, <1>5, OnlyThread

LEMMA JudgeKeeps ==
  ASSUME BrainCaseAssumption, IInv, NEW i \in Ids, Judge(i)
  PROVE  IInv'
<1> DEFINE others == th[Operator].rest \ {i}
           k == [th[Operator] EXCEPT !.rest = others]
           l == [k EXCEPT !.at = "writing", !.op = "prune", !.id = i]
<1>0. Operator \in Threads /\ Operator # Session /\ Operator \notin Managers
  BY Apart
<1>1. /\ th' = [th EXCEPT ![Operator] = IF i \notin ToRetire(View(Operator)) THEN k ELSE l]
      /\ UNCHANGED <<db, tx>> /\ th[Operator].at = "judging" /\ i \in th[Operator].rest
  BY DEF Judge
<1>2. OperatorHas(th[Operator], File) /\ th[Operator] \in Locals
  BY <1>0, InHand DEF Has
<1>3. others \subseteq File /\ others \subseteq Ids /\ i \in File /\ Pruning(th[Operator])
  BY <1>1, <1>2 DEF OperatorHas, Pruning, Locals
<1> HIDE DEF others
<1>4. k \in Locals /\ k.at = "judging" /\ k.rest = others
  BY <1>1, <1>2, <1>3 DEF Locals
<1> HIDE DEF k
<1>5. l \in Locals /\ l.at = "writing" /\ l.op = "prune" /\ l.id = i /\ l.rest = others
  BY <1>4 DEF Locals
<1> HIDE DEF l
<1>6. CASE i \notin ToRetire(View(Operator))
  <2>1. Has(Operator, k, File, Draft)
    BY <1>0, <1>3, <1>4 DEF Has, OperatorHas, Busy
  <2> QED
    BY <1>0, <1>1, <1>3, <1>4, <1>6, <2>1, OnlyThread
<1>7. CASE i \in ToRetire(View(Operator))
  <2>1. Class[i] # "durable"
    BY <1>7, RetiresNoDurable
  <2>2. Has(Operator, l, File, Draft)
    BY <1>0, <1>3, <1>5, <2>1 DEF Has, OperatorHas
  <2> QED
    BY <1>0, <1>1, <1>3, <1>5, <1>7, <2>2, OnlyThread
<1> QED
  BY <1>6, <1>7

(* Time passes with no write under way.                                    *)
LEMMA TimeKeeps ==
  ASSUME BrainCaseAssumption, IInv, NEW i \in Ids, Age(i)
  PROVE  IInv'
<1>0. Operator \in Threads /\ th[Operator] \in Locals /\ Has(Operator, th[Operator], File, Draft)
  BY Apart, InHand
<1>1. /\ tx.owner = NoTx /\ tx.rows = db /\ th[Operator].at = "off"
      /\ db' = Aged(db, i, "expired") /\ tx'.rows = db' /\ tx'.owner = NoTx
      /\ tx' \in [owner : {NoTx}, rows : {db'}] /\ th' = th
  BY DEF Age, Aged, IInv, StoreSound, Typed
<1>2. db' \in RowSets /\ Sound(Aged(db, i, "expired")) /\ Exists(db') = File
  BY <1>0, <1>1, InHand, AgeKeeps DEF File
<1>3. File' = File /\ Draft' = Draft
  BY <1>1, <1>2 DEF File, Draft, Exists
<1>4. StoreSound'
  <2>1. Sound(db)' /\ Sound(tx.rows)'
    BY <1>1, <1>2 DEF Sound, Replaced, Explained
  <2> QED
    BY <1>1, <1>3, <2>1, InHand, <1>0 DEF StoreSound
<1>5. PruneDraft'
  BY <1>1, Apart DEF PruneDraft
<1>6. th' = [th EXCEPT ![Operator] = th[Operator]]
  BY <1>0, <1>1 DEF IInv, Typed
<1>7. ASSUME NEW u \in Threads \ {Operator} PROVE Undisturbed(u)
  <2>1. Has(u, th[u], File, Draft) /\ (th[u].at = "committing" => tx.owner = u)
    BY DEF IInv, ThreadsSound, LockSound
  <2> QED
    BY <1>1, <1>3, <2>1, Apart DEF Undisturbed, Has, SessionHas, Busy
<1>8. tx' \in [owner : Threads \cup {NoTx}, rows : RowSets]
  BY <1>1, <1>2
<1> QED
  BY <1>0, <1>1, <1>2, <1>3, <1>4, <1>5, <1>6, <1>7, <1>8, Apart, Moves

LEMMA Stutter ==
  ASSUME IInv, UNCHANGED vars
  PROVE  IInv'
<1>1. UNCHANGED <<db, tx, th>>
  BY DEF vars
<1> QED
  BY <1>1 DEF IInv, Typed, StoreSound, LockSound, ThreadsSound, PruneDraft, File,
     Draft, Exists, Sound, Replaced, Explained, Has, SessionHas, OperatorHas,
     ManagerHas, Busy, Pruning

LEMMA InitKeeps ==
  ASSUME BrainCaseAssumption, Init
  PROVE  IInv
<1>1. /\ db = [i \in Ids |-> [status |-> Births[i], told |-> Births[i],
                              by |-> NoId, age |-> "fresh"]]
      /\ tx = [owner |-> NoTx, rows |-> db]
      /\ th = [t \in Threads |-> Off]
  BY DEF Init
<1>2. db \in RowSets /\ Sound(db)
  <2>1. \A i \in Ids : Births[i] \in {"absent", "candidate", "active"}
    BY DEF BrainCaseAssumption
  <2> QED
    BY <1>1, <2>1 DEF RowSets, Rows, Statuses, Sound, Replaced, Explained
<1>3. Typed
  BY <1>1, <1>2, OffHas DEF Typed
<1>4. StoreSound
  BY <1>1, <1>2 DEF StoreSound, File, Draft
<1>5. LockSound
  BY <1>1, OffHas, Apart DEF LockSound
<1>6. ThreadsSound
  BY <1>1, OffHas DEF ThreadsSound
<1>7. PruneDraft
  BY <1>1, Apart DEF PruneDraft
<1> QED
  BY <1>3, <1>4, <1>5, <1>6, <1>7 DEF IInv

LEMMA ManagerStepKeeps ==
  ASSUME BrainCaseAssumption, IInv, NEW t \in Managers, ManagerStep(t)
  PROVE  IInv'
<1>1. t \in Threads
  BY Apart
<1>2. ASSUME NoAnswer(t) \/ RunEnds(t) PROVE IInv'
  BY <1>1, <1>2, CloseKeeps DEF NoAnswer, RunEnds
<1> QED
  BY <1>2, AnswerKeeps, DispatchKeeps, DispatchMergeKeeps, MergeSourceKeeps
     DEF ManagerStep

LEMMA NextKeeps ==
  ASSUME BrainCaseAssumption, IInv, Next
  PROVE  IInv'
<1>1. ASSUME NEW t \in Threads, Store(t) PROVE IInv'
  BY <1>1, WriteKeeps, CommitKeeps, WriteFailsKeeps DEF Store
<1>2. ASSUME NEW i \in Ids, StageCandidate(i) \/ Judge(i) \/ Age(i) PROVE IInv'
  BY <1>2, StageKeeps, JudgeKeeps, TimeKeeps
<1>3. ASSUME SessionEnds \/ OperatorEnds PROVE IInv'
  BY <1>3, Apart, CloseKeeps DEF SessionEnds, OperatorEnds
<1>4. ASSUME NEW t \in Managers, StartRun(t) \/ ManagerStep(t) PROVE IInv'
  BY <1>4, StartRunKeeps, ManagerStepKeeps
<1>5. ASSUME NEW i \in Ids, NEW op \in {"promote", "retire"}, Review(i, op) PROVE IInv'
  BY <1>5, ReviewKeeps
<1>6. ASSUME ProxyKilled \/ OperatorKilled PROVE IInv'
  <2>1. PICK ts \in SUBSET Threads : Killed(ts)
    BY <1>6, Apart DEF ProxyKilled, OperatorKilled
  <2> QED
    BY <2>1, KilledKeeps
<1> QED
  BY <1>1, <1>2, <1>3, <1>4, <1>5, <1>6, ReportKeeps DEF Next, OperatorStep

(* The invariant is inductive.                                             *)
THEOREM StoreInvariant == Spec => []IInv
<1>1. Init => IInv
  BY BrainCaseAssumption, InitKeeps
<1>2. IInv /\ [Next]_vars => IInv'
  BY BrainCaseAssumption, NextKeeps, Stutter
<1> QED
  BY <1>1, <1>2, PTL DEF Spec

(* The file, the draft and what every thread has in hand are well typed.   *)
THEOREM TypeCorrect == Spec => []TypeOK
<1>1. IInv => TypeOK
  BY DEF IInv, Typed, TypeOK, RowSets
<1> QED
  BY <1>1, StoreInvariant, PTL

(* A superseded record names another that is in the file.                  *)
THEOREM SuccessorStays == Spec => []SuccessorExists
<1>1. IInv => SuccessorExists
  BY DEF IInv, StoreSound, Sound, Replaced, SuccessorExists
<1> QED
  BY <1>1, StoreInvariant, PTL

(* The revision log explains every status, but of a merged record put      *)
(* again.                                                                  *)
THEOREM HistoryComplete == Spec => []HistoryExplains
<1>1. IInv => HistoryExplains
  BY DEF IInv, StoreSound, Sound, Explained, HistoryExplains
<1> QED
  BY <1>1, StoreInvariant, PTL

(* Whoever holds the write lock has its connection open.                   *)
THEOREM LockReleased == Spec => []LockHeldByTheLiving
<1>1. IInv => LockHeldByTheLiving
  BY DEF IInv, Typed, LockSound, LockHeldByTheLiving
<1> QED
  BY <1>1, StoreInvariant, PTL

(* While a prune commits, only records that are not durable are retired.   *)
THEOREM DurableSpared == Spec => PruneSparesDurable
<1> DEFINE Spared == \A i \in Ids :
       /\ db[i].status # "retired" /\ db'[i].status = "retired"
       /\ th[Operator].op = "prune" /\ th[Operator].at = "committing"
       => Class[i] # "durable"
<1>1. IInv /\ [Next]_vars => [Spared]_vars
  <2> SUFFICES ASSUME IInv, Next, NEW i \in Ids,
                      db[i].status # "retired", db'[i].status = "retired",
                      th[Operator].op = "prune", th[Operator].at = "committing"
               PROVE  Class[i] # "durable"
    BY DEF vars
  <2>1. tx.owner = Operator /\ Operator \in Threads /\ Pruning(th[Operator])
    BY BrainCaseAssumption, Apart DEF IInv, LockSound, Pruning, Busy
  <2>2. db' = db \/ db' = tx.rows
    <3>1. ASSUME NEW j \in Ids, Age(j) PROVE FALSE
      BY <2>1, <3>1, BrainCaseAssumption, Apart DEF Age
    <3>2. ASSUME Killed(Threads \ {Operator}) \/ Killed({Operator}) PROVE db' = db
      BY <3>2 DEF Killed
    <3>3. ASSUME NEW t, Close(t) PROVE db' = db
      BY <3>3 DEF Close
    <3>4. ASSUME NEW t, Store(t) PROVE db' = db \/ db' = tx.rows
      BY <3>4 DEF Store, Write, Commit, WriteFails
    <3>5. ASSUME NEW t, StartRun(t) \/ ManagerStep(t) PROVE db' = db
      BY <3>3, <3>5 DEF StartRun, ManagerStep, Answer, NoAnswer, Dispatch,
                        DispatchMerge, MergeSource, RunEnds
    <3>6. ASSUME SessionEnds \/ OperatorStep \/ Report PROVE db' = db
      BY <3>3, <3>6 DEF SessionEnds, OperatorStep, OperatorEnds, Judge, Report
    <3>7. ASSUME NEW j, NEW op, StageCandidate(j) \/ Review(j, op) PROVE db' = db
      BY <3>7 DEF StageCandidate, Review
    <3> QED
      BY <3>1, <3>2, <3>4, <3>5, <3>6, <3>7 DEF Next, ProxyKilled, OperatorKilled
  <2> QED
    BY <2>1, <2>2 DEF IInv, PruneDraft
<1>2. Spec => [][Spared]_vars
  BY <1>1, StoreInvariant, PTL DEF Spec
<1> QED
  BY <1>2 DEF PruneSparesDurable
=============================================================================
