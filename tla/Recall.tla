------------------------------- MODULE Recall -------------------------------
(***************************************************************************)
(* What of the memory a session is shown: braincase.recall, .percolate and *)
(* .render (proxy/qz_braincase_tools.py, proxy/qz_braincase_render.py),    *)
(* over the records and their full-text index (proxy/qz_braincase_db.py).  *)
(*                                                                         *)
(* The index is a table of its own, brought up to date by a commit of its  *)
(* own after a record was put, and by nothing else: not by a change of     *)
(* tags.  A recall reads tier by tier while the memory manager writes.     *)
(*                                                                         *)
(* How writes take the lock, fail and are logged is BrainCase; here a      *)
(* write is one step.  Texts are the words one may ask for.  Records are   *)
(* of one memory domain, and the operator, who can promote and retire as   *)
(* the manager does, is left out.                                          *)
(***************************************************************************)
EXTENDS Naturals, FiniteSets, SequencesExt

CONSTANTS
  Ids,         (* records, in the order in which they are created          *)
  NoId,
  Words,       (* what a query may ask for                                 *)
  Anything,    (* no query                                                 *)
  WordsOf,     (* the words of each record's claim and summary             *)
  Importance,  (* of each record; no two alike                             *)
  Length,      (* of each record's line, in the unit of a call's room      *)
  Stub,        (* of the part of a line that is never cut                  *)
  Births,      (* the tiers of the active records at the start             *)
  StageTiers,  (* tiers a session names for a candidate                    *)
  Labels,      (* tags a session or the manager puts on a record           *)
  Requests,    (* the calls a session may make                             *)
  MaxCalls     (* bound: bc_* calls of the memory manager                  *)

(* RECALL_MODE_TIERS.                                                      *)
ModeTiers ==
  [task       |-> <<"working_state", "project_state",
                    "preference_constraint_memory", "procedural_memory">>,
   project    |-> <<"project_state", "preference_constraint_memory",
                    "procedural_memory", "artifact_memory">>,
   procedure  |-> <<"procedural_memory", "preference_constraint_memory">>,
   artifact   |-> <<"artifact_memory", "episodic_memory">>,
   open_loops |-> <<"working_state", "project_state">>]

(* The tiers bc_update_tier knows; no mode has them.                       *)
ManagerTiers == {"short_term", "medium_term", "long_term"}

Tiers ==
  (UNION {ToSet(ModeTiers[m]) : m \in DOMAIN ModeTiers}) \cup ManagerTiers
    \cup {"session_state", "semantic_memory", "perceptual_index"}

AnyTier == <<>>

(* A call: the tool, for a recall the mode, the tiers named (AnyTier: none *)
(* are), the ids named (render only), the word and the kind of search that *)
(* query_plan makes of it, the limit, and the room for text.               *)
RequestType ==
  [tool : {"recall", "render"}, mode : DOMAIN ModeTiers, tiers : Seq(Tiers),
   ids : SUBSET Ids, word : Words \cup {Anything},
   plan : {"fts", "tag", "exact"}, limit : Nat \ {0}, room : Nat]

ASSUME RecallAssumption ==
  /\ Ids \subseteq Nat \ {0} /\ IsFiniteSet(Ids) /\ NoId = 0
  /\ Anything \notin Words
  /\ WordsOf \in [Ids -> (SUBSET Words) \ {{}}]
  /\ Importance \in [Ids -> Nat] /\ Length \in [Ids -> Nat] /\ Stub \in Nat
  /\ \A i, j \in Ids : Importance[i] = Importance[j] => i = j
  /\ DOMAIN Births \subseteq Ids /\ \A i \in DOMAIN Births : Births[i] \in Tiers
  /\ StageTiers \subseteq Tiers /\ Labels \subseteq SUBSET Words
  /\ Requests \subseteq RequestType
  /\ MaxCalls \in Nat

VARIABLES
  rec,      (* the records                                                 *)
  index,    (* the words the index has of each record; {}: not in it       *)
  session,  (* the connection of the session's tool call                   *)
  manager   (* the connection of a run of the memory manager               *)

vars == <<rec, index, session, manager>>

(* shown: visibility is "renderable", neither "internal" nor "operator".   *)
Rows == [status : {"absent", "candidate", "active", "retired", "superseded"},
         shown : BOOLEAN, tier : Tiers, tags : SUBSET Words]

Absent == [status |-> "absent", shown |-> FALSE, tier |-> "project_state",
           tags |-> {}]

Exists == {i \in Ids : rec[i].status # "absent"}

Text(i) == WordsOf[i] \cup rec[i].tags

NoIndex == [i \in Ids |-> {}]

(* A connection.  fts: _fts_available; copy: what a rebuild has read;      *)
(* row, rest: of a merge, the record to put and the sources to come.       *)
Closed == [at |-> "off", fts |-> TRUE, copy |-> NoIndex, id |-> NoId,
           row |-> Absent, source |-> NoId, rest |-> {}, left |-> 0]

Off == [Closed EXCEPT !.left = manager.left]

NoRequest == [tool |-> "none"]

(* todo: the reads to come; got: the records read so far; seen: as they    *)
(* were when they were read; calm: nothing was written since the call      *)
(* began (not in the program).                                             *)
Session(at) ==
  [at |-> at, copy |-> NoIndex, id |-> NoId, req |-> NoRequest, todo |-> {},
   got |-> {}, seen |-> [i \in Ids |-> Absent], calm |-> TRUE,
   shown |-> {}, omitted |-> {}, accessed |-> {}]

Sessions ==
  [at : {"off", "rebuilding", "open", "syncing", "reading", "answered"},
   copy : [Ids -> SUBSET Words], id : Ids \cup {NoId},
   req : RequestType \cup {NoRequest}, todo : SUBSET Nat, got : SUBSET Ids,
   seen : [Ids -> Rows], calm : BOOLEAN, shown : SUBSET Ids,
   omitted : SUBSET Ids, accessed : SUBSET Ids]

Managers ==
  [at : {"off", "rebuilding", "open", "syncing", "superseding", "merging"},
   fts : BOOLEAN, copy : [Ids -> SUBSET Words], id : Ids \cup {NoId},
   row : Rows, source : Ids \cup {NoId}, rest : SUBSET Ids, left : 0 .. MaxCalls]

TypeOK ==
  /\ rec \in [Ids -> Rows]
  /\ index \in [Ids -> SUBSET Words]
  /\ session \in Sessions
  /\ manager \in Managers

(* A file of an earlier version, which had no index, or a current one.     *)
Init ==
  /\ rec = [i \in Ids |->
              IF i \in DOMAIN Births
              THEN [status |-> "active", shown |-> TRUE, tier |-> Births[i], tags |-> {}]
              ELSE Absent]
  /\ index \in {NoIndex,
                [i \in Ids |-> IF i \in DOMAIN Births THEN WordsOf[i] ELSE {}]}
  /\ session = Session("off")
  /\ manager = [Closed EXCEPT !.left = MaxCalls]

-----------------------------------------------------------------------------
(* BrainCaseDB.init: an index that is empty although there are records is  *)
(* rebuilt.  The records are read before the first statement takes the     *)
(* lock; if that fails, the connection goes on with the index as it is.    *)
Empty == index = NoIndex /\ Exists # {}

AllTexts == [i \in Ids |-> IF i \in Exists THEN Text(i) ELSE {}]

OpenSession ==
  /\ session.at = "off"
  /\ session' = IF Empty THEN [Session("rebuilding") EXCEPT !.copy = AllTexts]
                ELSE Session("open")
  /\ UNCHANGED <<rec, index, manager>>

OpenManager ==
  /\ manager.at = "off"
  /\ manager' = [Off EXCEPT !.at = IF Empty THEN "rebuilding" ELSE "open",
                            !.copy = IF Empty THEN AllTexts ELSE NoIndex]
  /\ UNCHANGED <<rec, index, session>>

Disturbed == [session EXCEPT !.calm = FALSE]

RebuildSession ==
  /\ session.at = "rebuilding"
  /\ index' \in {session.copy, index}
  /\ session' = Session("open")
  /\ UNCHANGED <<rec, manager>>

RebuildManager ==
  /\ manager.at = "rebuilding"
  /\ index' \in {manager.copy, index}
  /\ manager' = [manager EXCEPT !.at = "open", !.copy = NoIndex]
  /\ session' = Disturbed
  /\ UNCHANGED rec

-----------------------------------------------------------------------------
(* A session stages a candidate.  Two may not take the same number.        *)
Put(i, row) == rec' = [rec EXCEPT ![i] = row]

Fresh(i) == \A j \in Exists \cup {manager.id} : j < i

Stage(i, tier, tags) ==
  /\ session.at = "open" /\ Fresh(i)
  /\ Put(i, [status |-> "candidate", shown |-> FALSE, tier |-> tier, tags |-> tags])
  /\ session' = [session EXCEPT !.at = "syncing", !.id = i]
  /\ UNCHANGED <<index, manager>>

(* braincase.impaction loses the tags: it puts them where put_state_record *)
(* does not look for them.                                                 *)
Impaction(i) == Stage(i, "project_state", {})

(* braincase.write_candidate, for what its checks let through: what they   *)
(* find of duplicates and conflicts are hints.                             *)
WriteCandidate(i) ==
  \E tier \in StageTiers, tags \in Labels : Stage(i, tier, tags)

(* _sync_fts_for_record, in the manager's run and in a session's call.  A  *)
(* failure only ends the use of the index on this connection.              *)
Synced(i) == [index EXCEPT ![i] = Text(i)]

SyncSession ==
  /\ session.at = "syncing"
  /\ index' \in {Synced(session.id), index}
  /\ session' = Session("off")
  /\ UNCHANGED <<rec, manager>>

SyncManager ==
  /\ manager.at = "syncing"
  /\ \/ /\ manager.fts
        /\ index' = Synced(manager.id)
        /\ manager' = [manager EXCEPT !.at = "superseding"]
     \/ /\ UNCHANGED index
        /\ manager' = [manager EXCEPT !.at = "superseding", !.fts = FALSE]
  /\ session' = Disturbed
  /\ UNCHANGED rec

-----------------------------------------------------------------------------
(* The memory manager.  A call that fails, or is refused, changes nothing. *)
Did(call) == manager' = [manager EXCEPT !.at = call, !.left = @ - 1]

Change(i, row) ==
  /\ manager.at = "open" /\ manager.left > 0 /\ i \in Exists
  /\ Put(i, row) \/ UNCHANGED rec
  /\ Did("open")
  /\ session' = Disturbed
  /\ UNCHANGED index

Promote(i) == Change(i, [rec[i] EXCEPT !.status = "active", !.shown = TRUE])

Retire(i) == Change(i, [rec[i] EXCEPT !.status = "retired"])

UpdateTier(i) ==
  \E tier \in ManagerTiers : Change(i, [rec[i] EXCEPT !.tier = tier])

Tag(i) == \E tags \in Labels : Change(i, [rec[i] EXCEPT !.tags = tags])

(* bc_merge: the merged record is put once for each source, hidden as      *)
(* visibility "operator", in the tier the model names or "medium_term",    *)
(* with the tags of the first source.                                      *)
Merge(new, sources) ==
  /\ manager.at = "open" /\ manager.left > 0
  /\ Fresh(new) /\ sources \subseteq Exists /\ Cardinality(sources) >= 2
  /\ \E base \in sources, tier \in {"medium_term", "project_state"} :
       manager' = [manager EXCEPT
         !.at = "merging", !.left = @ - 1, !.id = new, !.rest = sources,
         !.row = [status |-> "active", shown |-> FALSE, tier |-> tier,
                  tags |-> rec[base].tags]]
  /\ UNCHANGED <<rec, index, session>>

MergeSource ==
  /\ manager.at = "merging" /\ manager.rest # {}
  /\ \E i \in manager.rest :
       \/ /\ Put(manager.id, manager.row)
          /\ manager' = [manager EXCEPT
               !.at = IF manager.fts THEN "syncing" ELSE "superseding",
               !.source = i, !.rest = @ \ {i}]
       \/ /\ manager' = [manager EXCEPT !.rest = @ \ {i}]
          /\ UNCHANGED rec
  /\ session' = Disturbed
  /\ UNCHANGED index

Supersede ==
  /\ manager.at = "superseding"
  /\ \/ Put(manager.source, [rec[manager.source] EXCEPT !.status = "superseded"])
     \/ UNCHANGED rec
  /\ manager' = [manager EXCEPT !.at = "merging", !.source = NoId]
  /\ session' = Disturbed
  /\ UNCHANGED index

Merged ==
  /\ manager.at = "merging" /\ manager.rest = {}
  /\ manager' = [manager EXCEPT !.at = "open", !.id = NoId, !.row = Absent]
  /\ UNCHANGED <<rec, index, session>>

RunEnds ==
  /\ manager.at = "open"
  /\ manager' = Off
  /\ UNCHANGED <<rec, index, session>>

-----------------------------------------------------------------------------
(* A call of recall reads the tiers of its mode, in the mode's order, or   *)
(* those of them the caller names, in the caller's; the others are dropped.*)
(* With none left nothing is read.                                         *)
TierList(req) == IF req.tiers = AnyTier THEN ModeTiers[req.mode] ELSE req.tiers

(* What a call reads, step by step: a tier, or, for render, everything.    *)
Reads(req) ==
  IF req.tool = "recall"
  THEN {k \in DOMAIN TierList(req) : TierList(req)[k] \in ToSet(ModeTiers[req.mode])}
  ELSE {1}

TiersOf(req, k) == IF req.tool = "recall" THEN {TierList(req)[k]} ELSE Tiers

EffectiveTiers(req) == UNION {TiersOf(req, k) : k \in Reads(req)}

Ask(req) ==
  /\ session.at = "open"
  /\ session' = [session EXCEPT !.at = "reading", !.req = req, !.todo = Reads(req)]
  /\ UNCHANGED <<rec, index, manager>>

-----------------------------------------------------------------------------
(* The two orders of the database, which end in a LIMIT.                   *)
Newest(S, n) == {i \in S : Cardinality({j \in S : j > i}) < n}

Weightier(S, i) == {j \in S : Importance[j] > Importance[i]}

Ranked(S, n) == {i \in S : Cardinality(Weightier(S, i)) < n}

InTiers(tiers) == {i \in Exists : rec[i].tier \in tiers}

(* search_state_records: the status of a record plays no part.             *)
Hits(req, tiers) ==
  {i \in InTiers(tiers) :
     req.word \in (CASE req.plan = "fts"   -> index[i]
                     [] req.plan = "tag"   -> rec[i].tags
                     [] req.plan = "exact" -> Text(i))}

(* A slip: the limit before the tier.                                      *)
ListAnywhere(req, tiers) ==
  {i \in Newest(Exists, req.limit) : rec[i].tier \in tiers}

List(req, tiers) == Newest(InTiers(tiers), req.limit)

Search(req, tiers) == Ranked(Hits(req, tiers), req.limit)

(* A recall that finds nothing in a tier lists the tier; render does not.  *)
Found(req, tiers) ==
  CASE req.tool = "render" /\ req.ids # {} -> req.ids \cap Exists
    [] req.word = Anything -> List(req, tiers)
    [] OTHER -> IF req.tool = "recall" /\ Search(req, tiers) = {}
                THEN List(req, tiers) ELSE Search(req, tiers)

(* A database error makes a SELECT empty: the search of a recall, and then *)
(* the tier is listed, or all that is read.                                *)
Results(req, tiers) ==
  {Found(req, tiers), {}} \cup IF req.tool = "recall" THEN {List(req, tiers)} ELSE {}

(* A record that changed its tier in between is kept as it was first read. *)
Read ==
  /\ session.at = "reading"
  /\ \E k \in session.todo :
       LET found == Found(session.req, TiersOf(session.req, k)) IN
       /\ \A j \in session.todo : k <= j
       /\ \E result \in Results(session.req, TiersOf(session.req, k)) :
            LET new == result \ session.got IN
            session' = [session EXCEPT
              !.todo = @ \ {k}, !.got = @ \cup new, !.calm = @ /\ result = found,
              !.seen = [i \in Ids |-> IF i \in new THEN rec[i] ELSE @[i]]]
  /\ UNCHANGED <<rec, index, manager>>

(* render_pack: what may be shown of what was read, by importance, each    *)
(* line whole if there is room, cut if there is room for its stub.         *)
Pool(req, got) == IF req.tool = "recall" THEN Ranked(got, req.limit) ELSE got

Eligible(req, row) ==
  /\ row.status = "active" /\ row.shown
  /\ \/ req.tool = "render" /\ req.tiers = AnyTier
     \/ row.tier \in IF req.tool = "recall" THEN EffectiveTiers(req)
                     ELSE ToSet(req.tiers)

(* The room that is left after the n most important records.               *)
RoomAfter(req, eligible) ==
  LET room[n \in 0 .. Cardinality(eligible)] ==
        IF n = 0 THEN req.room
        ELSE LET i == CHOOSE j \in eligible : Cardinality(Weightier(eligible, j)) = n - 1
             IN  CASE Length[i] <= room[n - 1] -> room[n - 1] - Length[i]
                   [] Length[i] > room[n - 1] /\ Stub <= room[n - 1] -> 0
                   [] OTHER -> room[n - 1]
  IN  room

Written(req, eligible) ==
  {i \in eligible :
     LET room == RoomAfter(req, eligible)[Cardinality(Weightier(eligible, i))]
     IN  Length[i] <= room \/ Stub <= room}

(* With record_access, for everything that was read, rendered or not.      *)
Render ==
  /\ session.at = "reading" /\ session.todo = {}
  /\ LET req == session.req
         pool == Pool(req, session.got)
         eligible == {i \in pool : Eligible(req, session.seen[i])}
         written == Written(req, eligible)
     IN session' = [session EXCEPT !.at = "answered", !.shown = written,
                      !.omitted = eligible \ written, !.accessed = pool]
  /\ UNCHANGED <<rec, index, manager>>

SessionEnds ==
  /\ session.at \in {"open", "answered"}
  /\ session' = Session("off")
  /\ UNCHANGED <<rec, index, manager>>

(* The proxy dies.                                                         *)
Killed ==
  /\ session' = Session("off")
  /\ manager' = Off
  /\ UNCHANGED <<rec, index>>

Next ==
  \/ OpenSession \/ RebuildSession \/ SyncSession \/ SessionEnds
  \/ \E i \in Ids : Impaction(i) \/ WriteCandidate(i)
  \/ \E req \in Requests : Ask(req)
  \/ Read \/ Render
  \/ OpenManager \/ RebuildManager \/ SyncManager \/ RunEnds
  \/ \E i \in Ids : Promote(i) \/ Retire(i) \/ UpdateTier(i) \/ Tag(i)
  \/ \E new \in Ids, sources \in SUBSET Ids : Merge(new, sources)
  \/ MergeSource \/ Supersede \/ Merged
  \/ Killed

Spec == Init /\ [][Next]_vars

-----------------------------------------------------------------------------
(* What a recall owes, if nothing is written and nothing fails meanwhile.  *)
Owed(req) ==
  {i \in InTiers(EffectiveTiers(req)) :
     /\ Eligible(req, rec[i])
     /\ req.word = Anything \/ i \in Hits(req, {rec[i].tier})
          \/ Hits(req, {rec[i].tier}) = {}}

(* A record of the mode's tiers that may be shown, and that the query      *)
(* finds, is in the packet or counted as omitted, unless as many records   *)
(* of those same tiers as the limit allows were read: none is starved by   *)
(* records of other tiers (_recall_candidate_records, "valid in-mode       *)
(* records beyond the limit would be silently starved").                   *)
NotStarved ==
  session.at = "answered" /\ session.calm /\ session.req.tool = "recall" =>
    \/ Owed(session.req) \subseteq session.shown \cup session.omitted
    \/ Cardinality(InTiers(EffectiveTiers(session.req))) > session.req.limit

-----------------------------------------------------------------------------
(* Statements that TLC refutes.                                            *)

(* "so the agent always sees what's stored, even when query terms are      *)
(* spread across records" (_recall_candidate_records): a recall of a mode  *)
(* whose tiers hold something to show shows or counts something.  A hit on *)
(* a candidate, which is never shown, keeps the tier from being listed.    *)
AlwaysSeesWhatIsStored ==
  session.at = "answered" /\ session.calm /\ session.req.tool = "recall" =>
    LET stored == InTiers(EffectiveTiers(session.req)) IN
    (\E i \in stored : Eligible(session.req, rec[i])) /\ Cardinality(stored) <= session.req.limit
      => session.shown # {} \/ session.omitted # {}

(* "FTS index is updated if available" (put_state_record), "Auto-backfill" *)
(* (_maybe_backfill_fts_index): when nobody is at work every record is in  *)
(* the index.  One whose put was followed by a failure or a kill never is. *)
Findable ==
  session.at = "off" /\ manager.at = "off" /\ index # NoIndex =>
    \A i \in Exists : WordsOf[i] \subseteq index[i]

(* "every record surfaced via recall counts as accessed" (braincase_recall *)
(* _packet): and only those.  Candidates and retired records count too.    *)
AccessCountsSurfaced ==
  session.at = "answered" =>
    session.accessed \subseteq session.shown \cup session.omitted
=============================================================================
