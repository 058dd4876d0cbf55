------------------------------ MODULE BrainCase ------------------------------
(***************************************************************************)
(* The memory store: BrainCaseDB (proxy/qz_braincase_db.py) and those who  *)
(* write to it.  A session's tool call stages a candidate; threads of the  *)
(* memory manager (qz_braincase_manager.py) read the landscape, ask the    *)
(* model, and dispatch the bc_* calls it answers with; the operator, a     *)
(* process of its own, promotes, rejects and prunes (qz_braincase_review). *)
(*                                                                         *)
(* Each opens a connection of its own to the one SQLite file.  The first   *)
(* statement of a write takes SQLite's lock, which only the commit or the  *)
(* end of the connection gives back; a second writer waits a second and    *)
(* then fails ("database is locked"), as does a commit that meets readers. *)
(* No method rolls back: what a failed commit leaves stays in the          *)
(* connection's transaction and is published by its next commit, although  *)
(* the method returned False.                                              *)
(*                                                                         *)
(* Texts, tags, tiers, visibilities, source references and the search      *)
(* index are left out, and so are the counts of accesses, with the writes  *)
(* of a recall that change only those; a call refused for what it contains *)
(* (redaction, scope, missing fields) touches nothing.                     *)
(***************************************************************************)
EXTENDS Naturals, FiniteSets, SequencesExt, RetentionPolicy

CONSTANTS
  Managers,    (* threads of the memory manager                            *)
  Session,     (* the thread of a session's tool call                      *)
  Operator,    (* the operator's command                                   *)
  Ids,         (* record ids                                               *)
  MergeIds,    (* those bc_merge creates (prefix bc_merge_)                *)
  NoId,        (* no record                                                *)
  Class,       (* the retention class each id is created with              *)
  Births,      (* the statuses of the records in the file at the start     *)
  MaxCalls     (* bound: bc_* calls of one manager run                     *)

Threads == Managers \cup {Session, Operator}

ASSUME BrainCaseAssumption ==
  /\ Session # Operator /\ {Session, Operator} \cap Managers = {}
  /\ MergeIds \subseteq Ids /\ NoId \notin Ids \cup Threads
  /\ Class \in [Ids -> Classes]
  /\ Births \in [Ids -> {"absent", "candidate", "active"}]
  /\ MaxCalls \in Nat

VARIABLES
  db,      (* the committed records                                        *)
  tx,      (* the write transaction that is open, and its records          *)
  th       (* what each thread is doing                                    *)

vars == <<db, tx, th>>

Statuses == {"absent", "candidate", "active", "retired", "superseded"}

(* told: the status the revision log leads one to expect, that is, what    *)
(* the last revision that changed it says, or else the status at birth.    *)
Rows == [status : Statuses, told : Statuses, by : Ids \cup {NoId},
         age : {"fresh", "expired"}]

NoTx == NoId

Locals ==
  [at : {"off", "asked", "choosing", "merging", "judging", "writing",
         "committing", "closing"},
   op : {"none", "put", "promote", "retire", "patch", "supersede", "prune"},
   id : Ids \cup {NoId},       (* the record the call is about             *)
   new : Ids \cup {NoId},      (* the merged record                        *)
   rest : SUBSET Ids,          (* sources to supersede, records to prune   *)
   left : 0 .. MaxCalls]

Off == [at |-> "off", op |-> "none", id |-> NoId, new |-> NoId,
        rest |-> {}, left |-> 0]

TypeOK ==
  /\ db \in [Ids -> Rows]
  /\ tx \in [owner : Threads \cup {NoTx}, rows : [Ids -> Rows]]
  /\ th \in [Threads -> Locals]

Init ==
  /\ db = [i \in Ids |-> [status |-> Births[i], told |-> Births[i],
                          by |-> NoId, age |-> "fresh"]]
  /\ tx = [owner |-> NoTx, rows |-> db]
  /\ th = [t \in Threads |-> Off]
-----------------------------------------------------------------------------
(* What connection t reads: its own transaction, or what is committed.     *)
View(t) == IF tx.owner = t THEN tx.rows ELSE db

Exists(rows) == {i \in Ids : rows[i].status # "absent"}

(* SQLite's write lock: t may write, or finds the database locked.         *)
MayWrite(t) == tx.owner \in {NoTx, t}

(* A uuid nobody uses.                                                     *)
Unused(i) == /\ db[i].status = "absent" /\ tx.rows[i].status = "absent"
             /\ \A t \in Threads : i \notin {th[t].id, th[t].new}

Goto(t, at) == th' = [th EXCEPT ![t].at = at]

Call(t, at, op, i) == th' = [th EXCEPT ![t].at = at, ![t].op = op, ![t].id = i]
-----------------------------------------------------------------------------
(* What the statements of each write do to the records.                    *)

(* put_state_record, INSERT OR REPLACE: it leaves no revision, so a record *)
(* that was there is told what the log said of it before.                  *)
Put(rows, i, status) ==
  [rows EXCEPT ![i] =
     [status |-> status, by |-> NoId, age |-> "fresh",
      told |-> IF @.status = "absent" THEN status ELSE @.told]]

(* A revision and the UPDATE it describes.                                 *)
Revise(rows, i, status) ==
  [rows EXCEPT ![i].status = status, ![i].told = status, ![i].age = "fresh"]

Retire(rows, i) == Revise(rows, i, "retired")

(* Slip: the status is updated and the revision forgotten.                 *)
PromoteUnlogged(rows, i) == [rows EXCEPT ![i].status = "active", ![i].age = "fresh"]

(* promote_state_record: whatever the status was.                          *)
Promote(rows, i) == Revise(rows, i, "active")

(* patch_state_record: tier or tags, and the time of the update.           *)
Patch(rows, i) == [rows EXCEPT ![i].age = "fresh"]

(* supersede_state_record after its put.                                   *)
Supersede(rows, i, new) ==
  [Revise(rows, i, "superseded") EXCEPT ![i].by = new]

Effect(t) ==
  LET i == th[t].id  rows == View(t)
  IN CASE th[t].op = "put" -> IF t = Session THEN Put(rows, i, "candidate")
                              ELSE Put(rows, th[t].new, "active")
       [] th[t].op \in {"retire", "prune"} -> Retire(rows, i)
       [] th[t].op = "promote" -> Promote(rows, i)
       [] th[t].op = "patch" -> Patch(rows, i)
       [] th[t].op = "supersede" -> Supersede(rows, i, th[t].new)
-----------------------------------------------------------------------------
(* BrainCaseDB: a write in two steps, its statements and its commit.       *)

Write(t) ==
  /\ th[t].at = "writing" /\ MayWrite(t)
  /\ tx' = [owner |-> t, rows |-> Effect(t)]
  /\ Goto(t, "committing")
  /\ UNCHANGED db

(* What follows a write, by who asked for it.  In bc_merge each source     *)
(* takes a put of the merged record and then, if that was committed, the   *)
(* revision and the UPDATE of the source.                                  *)
Returns(t) ==
  LET merging == th[t].rest # {} /\ t \in Managers
  IN  [th EXCEPT ![t].at = CASE t = Session -> "closing"
                             [] t = Operator -> "judging"
                             [] merging -> "merging"
                             [] OTHER -> "choosing",
                 ![t].op = "none", ![t].id = NoId,
                 ![t].new = IF merging THEN @ ELSE NoId]

(* Slip: the result of the put is not looked at.                           *)
AfterAnyway(t, ok) ==
  IF th[t].op = "put" /\ t \in Managers
  THEN Call(t, "writing", "supersede", th[t].id)
  ELSE th' = Returns(t)

After(t, ok) ==
  IF th[t].op = "put" /\ ok /\ t \in Managers
  THEN Call(t, "writing", "supersede", th[t].id)
  ELSE th' = Returns(t)

Commit(t) ==
  /\ th[t].at = "committing"
  /\ db' = tx.rows
  /\ tx' = [owner |-> NoTx, rows |-> tx.rows]
  /\ After(t, TRUE)

(* "database is locked", at the first statement or, with readers, at the   *)
(* commit: the method returns False and keeps its transaction.             *)
WriteFails(t) ==
  /\ th[t].at = "writing" \/ th[t].at = "committing"
  /\ After(t, FALSE)
  /\ UNCHANGED <<db, tx>>

(* Slip: the connection goes away and its transaction stays.               *)
CloseLeaving(t) ==
  /\ th' = [th EXCEPT ![t] = Off]
  /\ UNCHANGED <<db, tx>>

(* The connection is closed, by close() or with the last reference to it:  *)
(* SQLite rolls back what was not committed.                               *)
Close(t) ==
  /\ th' = [th EXCEPT ![t] = Off]
  /\ tx' = IF tx.owner = t THEN [owner |-> NoTx, rows |-> db] ELSE tx
  /\ UNCHANGED db

(* from_env and init: the schema is written again, so a locked database    *)
(* cannot be opened, and the caller does nothing.                          *)
Open(t) == th[t].at = "off" /\ MayWrite(t)
-----------------------------------------------------------------------------
(* A session: braincase.impaction or braincase.write_candidate.            *)

StageCandidate(i) ==
  /\ Open(Session) /\ Unused(i) /\ i \notin MergeIds
  /\ Call(Session, "writing", "put", i)
  /\ UNCHANGED <<db, tx>>

SessionEnds == th[Session].at = "closing" /\ Close(Session)
-----------------------------------------------------------------------------
(* The memory manager.                                                     *)

(* maybe_run_manager_async, after a compaction when the pressure has       *)
(* reached the threshold, or for braincase.powernap, whose threshold is 0: *)
(* so at any time.  Nothing asks whether a run is under way; the pressure  *)
(* only falls when a run has ended.                                        *)
StartRun(t) ==
  /\ Open(t)
  /\ Goto(t, "asked")
  /\ UNCHANGED <<db, tx>>

(* The model answers with calls, after a second turn if the first had only *)
(* reads; a second turn that fails leaves nothing to do.                   *)
Answer(t) ==
  /\ th[t].at = "asked"
  /\ \E n \in 0 .. MaxCalls :
       th' = [th EXCEPT ![t].at = "choosing", ![t].left = n]
  /\ UNCHANGED <<db, tx>>

(* No backend, or no answer to the first question: not a run.              *)
NoAnswer(t) ==
  /\ th[t].at = "asked"
  /\ Close(t)

(* dispatch_memory_tool_calls, one call.  It may name any record, of the   *)
(* landscape or found by bc_search since, whatever its status.             *)
Dispatch(t) ==
  /\ th[t].at = "choosing" /\ th[t].left > 0
  /\ \E i \in Exists(db), op \in {"promote", "retire", "patch"} :
       th' = [th EXCEPT ![t].at = "writing", ![t].op = op, ![t].id = i,
                        ![t].left = @ - 1]
  /\ UNCHANGED <<db, tx>>

(* bc_merge of two records or more; the first that is given is the base.   *)
DispatchMerge(t) ==
  /\ th[t].at = "choosing" /\ th[t].left > 0
  /\ \E new \in MergeIds, sources \in SUBSET Exists(db) :
       /\ Unused(new) /\ Cardinality(sources) >= 2
       /\ th' = [th EXCEPT ![t].at = "merging", ![t].new = new,
                           ![t].rest = sources, ![t].left = @ - 1]
  /\ UNCHANGED <<db, tx>>

(* supersede_state_record for the next source.                             *)
MergeSource(t) ==
  /\ th[t].at = "merging"
  /\ \E i \in th[t].rest :
       th' = [th EXCEPT ![t].at = "writing", ![t].op = "put", ![t].id = i,
                        ![t].rest = @ \ {i}]
  /\ UNCHANGED <<db, tx>>

(* record_manager_run, and the end of the thread.                          *)
RunEnds(t) ==
  /\ th[t].at = "choosing" /\ th[t].left = 0
  /\ Close(t)
-----------------------------------------------------------------------------
(* The operator: scripts/qz-braincase-review.                              *)

(* promote_candidate_record and reject_candidate_record: the status is     *)
(* looked at here, and the UPDATE does not look at it again.               *)
Review(i, op) ==
  /\ Open(Operator) /\ db[i].status = "candidate"
  /\ Call(Operator, "writing", op, i)
  /\ UNCHANGED <<db, tx>>

ToRetire(rows) ==
  {i \in Ids : Decision(rows[i].status, Class[i], rows[i].age) = "retire"}

(* apply_retention_prune: the report, and then each of its records again.  *)
Report ==
  /\ Open(Operator) /\ ToRetire(db) # {}
  /\ th' = [th EXCEPT ![Operator].at = "judging", ![Operator].rest = ToRetire(db)]
  /\ UNCHANGED <<db, tx>>

Judge(i) ==
  /\ th[Operator].at = "judging" /\ i \in th[Operator].rest
  /\ LET other == [th[Operator] EXCEPT !.rest = @ \ {i}]
     IN  th' = [th EXCEPT ![Operator] =
                  IF i \notin ToRetire(View(Operator)) THEN other
                  ELSE [other EXCEPT !.at = "writing", !.op = "prune", !.id = i]]
  /\ UNCHANGED <<db, tx>>

OperatorEnds ==
  /\ th[Operator].at = "judging" /\ th[Operator].rest = {}
  /\ Close(Operator)
-----------------------------------------------------------------------------
(* Months pass, between the operator's commands and with no write under    *)
(* way.  Only expired records are retired, so "stale" is not told apart.   *)
Age(i) ==
  /\ tx.owner = NoTx /\ th[Operator].at = "off" /\ db[i].status # "absent"
  /\ db' = [db EXCEPT ![i].age = "expired"]
  /\ tx' = [tx EXCEPT !.rows = db']
  /\ UNCHANGED th

(* The proxy is killed, or the operator's command is.                      *)
Killed(ts) ==
  /\ th' = [t \in Threads |-> IF t \in ts THEN Off ELSE th[t]]
  /\ tx' = IF tx.owner \in ts THEN [owner |-> NoTx, rows |-> db] ELSE tx
  /\ UNCHANGED db

ProxyKilled == Killed(Threads \ {Operator})

OperatorKilled == Killed({Operator})
-----------------------------------------------------------------------------
Store(t) == Write(t) \/ Commit(t) \/ WriteFails(t)

ManagerStep(t) ==
  \/ Answer(t) \/ NoAnswer(t) \/ Dispatch(t)
  \/ DispatchMerge(t) \/ MergeSource(t) \/ RunEnds(t)

OperatorStep == (\E i \in Ids : Judge(i)) \/ OperatorEnds

Next ==
  \/ \E t \in Threads : Store(t)
  \/ \E i \in Ids : StageCandidate(i)
  \/ SessionEnds
  \/ \E t \in Managers : StartRun(t) \/ ManagerStep(t)
  \/ \E i \in Ids, op \in {"promote", "retire"} : Review(i, op)
  \/ Report \/ OperatorStep
  \/ \E i \in Ids : Age(i)
  \/ ProxyKilled \/ OperatorKilled

Spec == Init /\ [][Next]_vars

-----------------------------------------------------------------------------
(* A superseded record was replaced: the record it names is in the file,   *)
(* whatever failed or was killed between the two commits that took         *)
(* (supersede_state_record stores the new record first).                   *)
SuccessorExists ==
  \A i \in Ids : db[i].status = "superseded" =>
    /\ db[i].by \in Ids \ {i}
    /\ db[db[i].by].status # "absent"

(* The revision log accounts for the status of every record, although      *)
(* failed operations leave half of their work for another to commit.  A    *)
(* merged record is the exception: bc_merge puts it once for each source,  *)
(* and so may undo, without a revision, what was done to it in between.    *)
HistoryExplains ==
  \A i \in Ids : \/ db[i].status = db[i].told
                 \/ i \in MergeIds /\ db[i].status = "active"

(* Active durable records are reported but never retired by prune --apply  *)
(* (docs/braincase-retention-policy.md), whatever happens to the record    *)
(* between the report, the second look and the UPDATE.                     *)
PruneSparesDurable ==
  [][\A i \in Ids :
       /\ db[i].status # "retired" /\ db'[i].status = "retired"
       /\ th[Operator].op = "prune" /\ th[Operator].at = "committing"
       => Class[i] # "durable"]_vars

(* The write lock is held by a connection that is open.  A failed commit   *)
(* keeps it and locks every other writer out, which is survivable only     *)
(* because the connection ends with the call, the run or the command.      *)
LockHeldByTheLiving ==
  tx.owner # NoTx => th[tx.owner].at # "off"

(* Active project records are reported stale but not auto-retired by prune *)
(* --apply (docs/braincase-retention-policy.md).  Violated: a candidate    *)
(* that expired is promoted between the second look and the UPDATE.        *)
ActiveProjectKept ==
  [][\A i \in Ids :
       /\ db[i].status = "active" /\ db'[i].status = "retired"
       /\ th[Operator].op = "prune" /\ th[Operator].at = "committing"
       => Class[i] # "project"]_vars
=============================================================================
