-------------------------- MODULE Selection_proofs --------------------------
(***************************************************************************)
(* Two parts of the program decide what a model is given to read under a   *)
(* limit: a recall of the BrainCase (Recall) and the compaction of a long  *)
(* conversation (Compaction).  What they leave out and what they do not,   *)
(* for any records, conversations and limits.                              *)
(*                                                                         *)
(* A recall that nothing disturbs is not starved, however the manager, the *)
(* index and the session interleave.  The invariant follows the reads of a *)
(* call: as long as nothing was written since it began, what it has read   *)
(* is of its own tiers and as it still is in the store, and each read that *)
(* is behind it has left nothing out but what the limit cut.  If the tiers *)
(* hold no more records than the limit allows, no cut is made, of a read   *)
(* or of what was read.                                                    *)
(*                                                                         *)
(* A conversation keeps its last items and the outputs of the calls that   *)
(* can be seen, and loses nothing that the model itself has summarised,    *)
(* however often it is compacted.  The invariant says that there is        *)
(* nothing but calls and outputs between a call and its output, that no    *)
(* fact is said twice, and that only the first item is a summary.  Each    *)
(* step of a compaction is shown to keep these: it puts other items in     *)
(* the same places (MicrocompactKeeps, ExpandKeeps), selects items         *)
(* (ShownKeeps), drops the first (RestKeeps, RestRuns) or puts a summary   *)
(* before them (OneBeforeKeeps).                                           *)
(***************************************************************************)
EXTENDS Recall, Compaction, FiniteSetTheorems, FunctionTheorems, SequenceTheorems, TLAPS

(* A set within its limit is not cut, in either order.                     *)
LEMMA PartsAreFinite ==
  ASSUME NEW S \in SUBSET Ids
  PROVE  IsFiniteSet(S) /\ Cardinality(S) \in Nat
  BY RecallAssumption, FS_Subset, FS_CardinalityType

LEMMA ProperPart ==
  ASSUME NEW S \in SUBSET Ids, NEW T \in SUBSET S, NEW i \in S, i \notin T
  PROVE  Cardinality(T) < Cardinality(S)
<1>1. IsFiniteSet(S) /\ Cardinality(S) \in Nat
  BY PartsAreFinite
<1>2. Cardinality(T) \in Nat
  BY PartsAreFinite
<1>3. Cardinality(T) <= Cardinality(S) /\ (Cardinality(S) = Cardinality(T) => S = T)
  BY <1>1, FS_Subset
<1> QED
  BY <1>1, <1>2, <1>3

LEMMA NewestAll ==
  ASSUME NEW S \in SUBSET Ids, NEW n \in Nat, Cardinality(S) <= n
  PROVE  Newest(S, n) = S
<1> SUFFICES ASSUME NEW i \in S PROVE Cardinality({j \in S : j > i}) < n
  BY DEF Newest
<1>1. i \notin {j \in S : j > i}
  BY RecallAssumption
<1>2. Cardinality({j \in S : j > i}) < Cardinality(S)
  BY <1>1, ProperPart
<1> QED
  BY <1>2, PartsAreFinite

LEMMA RankedAll ==
  ASSUME NEW S \in SUBSET Ids, NEW n \in Nat, Cardinality(S) <= n
  PROVE  Ranked(S, n) = S
<1> SUFFICES ASSUME NEW i \in S PROVE Cardinality(Weightier(S, i)) < n
  BY DEF Ranked
<1>1. i \notin Weightier(S, i) /\ Weightier(S, i) \subseteq S
  BY RecallAssumption DEF Weightier
<1>2. Cardinality(Weightier(S, i)) < Cardinality(S)
  BY <1>1, ProperPart
<1> QED
  BY <1>1, <1>2, PartsAreFinite

-----------------------------------------------------------------------------
(* What one read of a recall finds is of the tiers it was asked for, and   *)
(* within the limit it is everything that is owed of them.                 *)
LEMMA FoundOfRecall ==
  ASSUME NEW req \in RequestType, req.tool = "recall", NEW tiers
  PROVE  \/ Found(req, tiers) = List(req, tiers)
            /\ (req.word = Anything \/ Search(req, tiers) = {})
         \/ Found(req, tiers) = Search(req, tiers)
            /\ req.word # Anything /\ Search(req, tiers) # {}
  BY DEF Found

LEMMA FoundInTiers ==
  ASSUME NEW req \in RequestType, req.tool = "recall", NEW tiers
  PROVE  Found(req, tiers) \subseteq InTiers(tiers)
<1>1. List(req, tiers) \subseteq InTiers(tiers)
  BY DEF List, Newest
<1>2. Search(req, tiers) \subseteq InTiers(tiers)
  BY DEF Search, Ranked, Hits
<1> QED
  BY <1>1, <1>2, FoundOfRecall

LEMMA FoundIsAll ==
  ASSUME NEW req \in RequestType, req.tool = "recall", NEW tiers,
         Cardinality(InTiers(tiers)) <= req.limit, NEW i \in InTiers(tiers),
         req.word = Anything \/ i \in Hits(req, tiers) \/ Hits(req, tiers) = {}
  PROVE  i \in Found(req, tiers)
<1> DEFINE all == InTiers(tiers)
           hits == Hits(req, tiers)
<1>1. all \in SUBSET Ids /\ hits \in SUBSET all
  BY DEF InTiers, Exists, Hits
<1>2. req.limit \in Nat
  BY DEF RequestType
<1>3. List(req, tiers) = all
  BY <1>1, <1>2, NewestAll DEF List
<1>4. Cardinality(hits) <= req.limit
  <2>1. IsFiniteSet(all) /\ Cardinality(all) \in Nat /\ Cardinality(hits) \in Nat
    BY <1>1, PartsAreFinite
  <2>2. Cardinality(hits) <= Cardinality(all)
    BY <1>1, <2>1, FS_Subset
  <2> QED
    BY <1>2, <2>1, <2>2
<1>5. Search(req, tiers) = hits
  BY <1>1, <1>2, <1>4, RankedAll DEF Search
<1> QED
  BY <1>3, <1>5, FoundOfRecall

-----------------------------------------------------------------------------
(* How far an undisturbed recall has come.                                 *)
ReadSoFar ==
  session.at = "reading" /\ session.calm /\ session.req.tool = "recall" =>
    /\ session.todo \subseteq Reads(session.req)
    /\ session.got \subseteq InTiers(EffectiveTiers(session.req))
    /\ \A i \in session.got : session.seen[i] = rec[i]
    /\ \A k \in Reads(session.req) \ session.todo :
         Found(session.req, TiersOf(session.req, k)) \subseteq session.got

NothingRead == session.at = "open" => session.got = {}

IInv == TypeOK /\ NothingRead /\ ReadSoFar /\ NotStarved

(* A session that is not in an undisturbed call promises nothing.          *)
LEMMA OutsideACall ==
  ASSUME \/ session'.at \notin {"reading", "answered"}
         \/ session'.calm = FALSE
  PROVE  ReadSoFar' /\ NotStarved'
  BY DEF ReadSoFar, NotStarved

LEMMA StoreRead ==
  ASSUME UNCHANGED <<rec, index>>, NEW req, NEW tiers
  PROVE  /\ InTiers(tiers)' = InTiers(tiers)
         /\ Hits(req, tiers)' = Hits(req, tiers)
         /\ Found(req, tiers)' = Found(req, tiers)
<1>1. InTiers(tiers)' = InTiers(tiers)
  BY DEF InTiers, Exists
<1>2. Hits(req, tiers)' = Hits(req, tiers)
  BY <1>1 DEF Hits, Text
<1>3. List(req, tiers)' = List(req, tiers)
  BY <1>1 DEF List, Newest
<1>4. Search(req, tiers)' = Search(req, tiers)
  BY <1>2 DEF Search, Ranked, Weightier
<1>5. Exists' = Exists
  BY DEF Exists
<1> QED
  BY <1>1, <1>2, <1>3, <1>4, <1>5 DEF Found

LEMMA OwedRead ==
  ASSUME UNCHANGED <<rec, index>>, NEW req
  PROVE  Owed(req)' = Owed(req)
<1>1. \A tiers : InTiers(tiers)' = InTiers(tiers) /\ Hits(req, tiers)' = Hits(req, tiers)
  BY StoreRead
<1> QED
  BY <1>1 DEF Owed, Eligible

LEMMA SameStore ==
  ASSUME IInv, UNCHANGED <<rec, index, session>>
  PROVE  ReadSoFar' /\ NotStarved'
<1> PICK req : req = session.req
  OBVIOUS
<1>1. req = session'.req
  OBVIOUS
<1>2. /\ InTiers(EffectiveTiers(req))' = InTiers(EffectiveTiers(req))
      /\ \A k : Found(req, TiersOf(req, k))' = Found(req, TiersOf(req, k))
      /\ Owed(req)' = Owed(req)
  BY StoreRead, OwedRead
<1>3. ReadSoFar'
  BY <1>1, <1>2 DEF IInv, ReadSoFar
<1>4. NotStarved'
  BY <1>1, <1>2 DEF IInv, NotStarved
<1> QED
  BY <1>3, <1>4

(* A call begins with nothing read.                                        *)
LEMMA AskKeeps ==
  ASSUME TypeOK, NothingRead, NEW req \in Requests, Ask(req)
  PROVE  NothingRead' /\ ReadSoFar' /\ NotStarved'
<1>1. session \in Sessions
  BY DEF TypeOK
<1>2. session' = [session EXCEPT !.at = "reading", !.req = req, !.todo = Reads(req)]
  BY DEF Ask
<1>3. /\ session'.at = "reading" /\ session'.req = req /\ session'.todo = Reads(req)
      /\ session'.got = session.got
  BY <1>1, <1>2 DEF Sessions
<1>4. session.got = {}
  BY DEF Ask, NothingRead
<1> QED
  BY <1>3, <1>4 DEF NothingRead, ReadSoFar, NotStarved

(* A read adds what it finds: of its own tiers, and as it is in the store. *)
LEMMA ReadKeeps ==
  ASSUME IInv, Read
  PROVE  NothingRead' /\ ReadSoFar' /\ NotStarved'
<1> PICK req : req = session.req
  OBVIOUS
<1>1. /\ session \in Sessions /\ session.at = "reading"
      /\ UNCHANGED <<rec, index>>
  BY DEF IInv, TypeOK, Read
<1> DEFINE F(k) == Found(req, TiersOf(req, k))
<1>2. PICK k \in session.todo :
        \E result \in Results(req, TiersOf(req, k)) :
          session' = [session EXCEPT
            !.todo = @ \ {k}, !.got = @ \cup (result \ session.got),
            !.calm = @ /\ result = F(k),
            !.seen = [i \in Ids |-> IF i \in result \ session.got THEN rec[i] ELSE @[i]]]
  BY DEF Read
<1>3. PICK result \in Results(req, TiersOf(req, k)) :
        session' = [session EXCEPT
          !.todo = @ \ {k}, !.got = @ \cup (result \ session.got),
          !.calm = @ /\ result = F(k),
          !.seen = [i \in Ids |-> IF i \in result \ session.got THEN rec[i] ELSE @[i]]]
  BY <1>2
<1> DEFINE new == result \ session.got
<1>4. /\ session'.at = "reading" /\ session'.req = req
      /\ session'.todo = session.todo \ {k} /\ session'.got = session.got \cup new
      /\ session'.calm = (session.calm /\ result = F(k))
      /\ session'.seen = [i \in Ids |-> IF i \in new THEN rec[i] ELSE session.seen[i]]
  BY <1>1, <1>3 DEF Sessions
<1>5. NothingRead' /\ NotStarved'
  BY <1>4 DEF NothingRead, NotStarved
<1>6. ASSUME session'.calm, req.tool = "recall"
      PROVE  /\ session'.todo \subseteq Reads(req)
             /\ session'.got \subseteq InTiers(EffectiveTiers(req))
             /\ \A i \in session'.got : session'.seen[i] = rec[i]
             /\ \A j \in Reads(req) \ session'.todo : F(j) \subseteq session'.got
  <2>1. session.calm /\ result = F(k)
    BY <1>4, <1>6
  <2>2. /\ session.todo \subseteq Reads(req)
        /\ session.got \subseteq InTiers(EffectiveTiers(req))
        /\ \A i \in session.got : session.seen[i] = rec[i]
        /\ \A j \in Reads(req) \ session.todo : F(j) \subseteq session.got
    BY <1>1, <1>6, <2>1 DEF IInv, ReadSoFar
  <2>3. req \in RequestType
    BY <1>1, <1>6 DEF Sessions, NoRequest
  <2>4. F(k) \subseteq InTiers(TiersOf(req, k))
    BY <1>6, <2>3, FoundInTiers
  <2>5. InTiers(TiersOf(req, k)) \subseteq InTiers(EffectiveTiers(req))
    BY <1>2, <2>2 DEF InTiers, EffectiveTiers
  <2>6. InTiers(EffectiveTiers(req)) \subseteq Ids
    BY DEF InTiers, Exists
  <2> HIDE DEF F
  <2>7. session'.got \subseteq InTiers(EffectiveTiers(req))
    BY <1>4, <2>1, <2>2, <2>4, <2>5
  <2>8. \A i \in session'.got : session'.seen[i] = rec[i]
    BY <1>4, <2>2, <2>6, <2>7
  <2>9. \A j \in Reads(req) \ session'.todo : F(j) \subseteq session'.got
    BY <1>4, <2>1, <2>2
  <2> QED
    BY <1>4, <2>2, <2>7, <2>8, <2>9
<1>7. /\ InTiers(EffectiveTiers(req))' = InTiers(EffectiveTiers(req))
      /\ \A j : Found(req, TiersOf(req, j))' = F(j)
  BY <1>1, StoreRead
<1>8. ReadSoFar'
  BY <1>1, <1>4, <1>6, <1>7 DEF ReadSoFar
<1> QED
  BY <1>5, <1>8

(* What is owed has been read by the time everything has been.             *)
LEMMA OwedIsRead ==
  ASSUME NEW req \in RequestType, req.tool = "recall", NEW got \in SUBSET Ids,
         Cardinality(InTiers(EffectiveTiers(req))) <= req.limit,
         \A k \in Reads(req) : Found(req, TiersOf(req, k)) \subseteq got,
         NEW i \in Owed(req)
  PROVE  i \in got
<1> DEFINE all == InTiers(EffectiveTiers(req))
           t == rec[i].tier
<1>1. /\ i \in all
      /\ req.word = Anything \/ i \in Hits(req, {t}) \/ Hits(req, {t}) = {}
  BY DEF Owed
<1>2. PICK k \in Reads(req) : t \in TiersOf(req, k)
  BY <1>1 DEF InTiers, EffectiveTiers
<1>3. TiersOf(req, k) = {t}
  BY <1>2 DEF TiersOf
<1>4. i \in InTiers({t}) /\ InTiers({t}) \subseteq all /\ all \subseteq Ids
  BY <1>1, <1>2, <1>3 DEF InTiers, EffectiveTiers, Exists
<1>5. Cardinality(InTiers({t})) <= req.limit
  <2>1. /\ IsFiniteSet(all) /\ Cardinality(all) \in Nat
        /\ Cardinality(InTiers({t})) \in Nat
    BY <1>4, PartsAreFinite
  <2>2. Cardinality(InTiers({t})) <= Cardinality(all)
    BY <1>4, <2>1, FS_Subset
  <2>3. req.limit \in Nat
    BY DEF RequestType
  <2> HIDE DEF all, t
  <2> QED
    BY <2>1, <2>2, <2>3 DEF all
<1> HIDE DEF t
<1>6. i \in Found(req, {t})
  BY <1>1, <1>4, <1>5, FoundIsAll
<1> QED
  BY <1>3, <1>6

LEMMA RenderKeeps ==
  ASSUME IInv, Render
  PROVE  NothingRead' /\ ReadSoFar' /\ NotStarved'
<1> PICK req : req = session.req
  OBVIOUS
<1> DEFINE pool == Pool(req, session.got)
           eligible == {i \in pool : Eligible(req, session.seen[i])}
           written == Written(req, eligible)
<1>1. /\ session \in Sessions /\ session.at = "reading" /\ session.todo = {}
      /\ UNCHANGED <<rec, index>>
      /\ session' = [session EXCEPT !.at = "answered", !.shown = written,
                       !.omitted = eligible \ written, !.accessed = pool]
  BY DEF IInv, TypeOK, Render
<1>2. /\ session'.at = "answered" /\ session'.req = req /\ session'.calm = session.calm
      /\ session'.shown = written /\ session'.omitted = eligible \ written
  BY <1>1 DEF Sessions
<1>3. NothingRead' /\ ReadSoFar'
  BY <1>2 DEF NothingRead, ReadSoFar
<1>4. ASSUME session.calm, req.tool = "recall",
             Cardinality(InTiers(EffectiveTiers(req))) <= req.limit
      PROVE  Owed(req) \subseteq eligible
  <2>1. req \in RequestType /\ req.limit \in Nat
    BY <1>1, <1>4 DEF Sessions, NoRequest, RequestType
  <2>2. /\ session.got \subseteq InTiers(EffectiveTiers(req))
        /\ \A i \in session.got : session.seen[i] = rec[i]
        /\ \A k \in Reads(req) : Found(req, TiersOf(req, k)) \subseteq session.got
    BY <1>1, <1>4 DEF IInv, ReadSoFar
  <2>3. InTiers(EffectiveTiers(req)) \subseteq Ids
    BY DEF InTiers, Exists
  <2>4. Cardinality(session.got) <= req.limit
    <3>1. /\ IsFiniteSet(InTiers(EffectiveTiers(req)))
          /\ Cardinality(InTiers(EffectiveTiers(req))) \in Nat
          /\ Cardinality(session.got) \in Nat
      BY <2>2, <2>3, PartsAreFinite
    <3>2. Cardinality(session.got) <= Cardinality(InTiers(EffectiveTiers(req)))
      BY <2>2, <3>1, FS_Subset
    <3> QED
      BY <1>4, <2>1, <3>1, <3>2
  <2>5. pool = session.got
    BY <1>4, <2>1, <2>2, <2>3, <2>4, RankedAll DEF Pool
  <2>6. Owed(req) \subseteq session.got
    BY <1>4, <2>1, <2>2, <2>3, OwedIsRead
  <2>7. \A i \in Owed(req) : Eligible(req, rec[i])
    BY DEF Owed
  <2> QED
    BY <2>2, <2>5, <2>6, <2>7
<1>5. /\ InTiers(EffectiveTiers(req))' = InTiers(EffectiveTiers(req))
      /\ Owed(req)' = Owed(req)
  BY <1>1, StoreRead, OwedRead
<1>6. InTiers(EffectiveTiers(req)) \subseteq Ids
  BY DEF InTiers, Exists
<1>7. ASSUME req.tool = "recall", session.calm PROVE NotStarved'
  <2>1. Cardinality(InTiers(EffectiveTiers(req))) \in Nat
    BY <1>6, PartsAreFinite
  <2>2. req.limit \in Nat
    BY <1>1, <1>7 DEF Sessions, NoRequest, RequestType
  <2> HIDE DEF eligible, written
  <2>3. \/ Owed(req) \subseteq written \cup (eligible \ written)
        \/ Cardinality(InTiers(EffectiveTiers(req))) > req.limit
    BY <1>4, <1>7, <2>1, <2>2
  <2> QED
    BY <1>2, <1>5, <2>3 DEF NotStarved
<1>8. ~ (req.tool = "recall" /\ session.calm) => NotStarved'
  BY <1>2 DEF NotStarved
<1> QED
  BY <1>3, <1>7, <1>8

(* What is written disturbs the session; another connection's steps that   *)
(* write nothing leave it alone; its own end a call or come before it.     *)
LEMMA DisturbedKeeps ==
  ASSUME IInv, session' = Disturbed
  PROVE  NothingRead' /\ ReadSoFar' /\ NotStarved'
<1>1. /\ session'.calm = FALSE /\ session'.at = session.at
      /\ session'.got = session.got
  BY DEF IInv, TypeOK, Sessions, Disturbed
<1> QED
  BY <1>1, OutsideACall DEF IInv, NothingRead

LEMMA NewCallKeeps ==
  ASSUME NEW at \in {"off", "open"}, session' = Session(at)
  PROVE  NothingRead' /\ ReadSoFar' /\ NotStarved'
<1>1. session'.at = at /\ session'.got = {}
  BY DEF Session
<1> QED
  BY <1>1, OutsideACall DEF NothingRead

LEMMA CallKeeps ==
  ASSUME IInv, [Next]_vars
  PROVE  NothingRead' /\ ReadSoFar' /\ NotStarved'
<1>1. ASSUME UNCHANGED <<rec, index, session>>
      PROVE  NothingRead' /\ ReadSoFar' /\ NotStarved'
  BY <1>1, SameStore DEF IInv, NothingRead
<1>2. CASE UNCHANGED vars
  BY <1>1, <1>2 DEF vars
<1>3. CASE OpenSession
  <2>1. CASE Empty
    <3>1. session'.at = "rebuilding"
      BY <1>3, <2>1 DEF OpenSession, Session
    <3> QED
      BY <3>1, OutsideACall DEF NothingRead
  <2> QED
    BY <1>3, <2>1, NewCallKeeps DEF OpenSession
<1>4. CASE RebuildSession \/ SyncSession \/ SessionEnds \/ Killed
  BY <1>4, NewCallKeeps DEF RebuildSession, SyncSession, SessionEnds, Killed
<1>5. ASSUME NEW i \in Ids, Impaction(i) \/ WriteCandidate(i)
      PROVE  NothingRead' /\ ReadSoFar' /\ NotStarved'
  <2>1. session' = [session EXCEPT !.at = "syncing", !.id = i]
    BY <1>5 DEF Impaction, WriteCandidate, Stage
  <2>2. session'.at = "syncing"
    BY <2>1 DEF IInv, TypeOK, Sessions
  <2> QED
    BY <2>2, OutsideACall DEF NothingRead
<1>6. ASSUME NEW req \in Requests, Ask(req)
      PROVE  NothingRead' /\ ReadSoFar' /\ NotStarved'
  BY <1>6, AskKeeps DEF IInv
<1>7. CASE Read \/ Render
  BY <1>7, ReadKeeps, RenderKeeps
<1>8. CASE RebuildManager \/ SyncManager \/ MergeSource \/ Supersede
  BY <1>8, DisturbedKeeps DEF RebuildManager, SyncManager, MergeSource, Supersede
<1>9. ASSUME NEW i \in Ids, Promote(i) \/ Retire(i) \/ UpdateTier(i) \/ Tag(i)
      PROVE  NothingRead' /\ ReadSoFar' /\ NotStarved'
  BY <1>9, DisturbedKeeps DEF Promote, Retire, UpdateTier, Tag, Change
<1>10. CASE OpenManager \/ RunEnds \/ Merged
  BY <1>1, <1>10 DEF OpenManager, RunEnds, Merged
<1>11. ASSUME NEW new \in Ids, NEW sources \in SUBSET Ids, Merge(new, sources)
       PROVE  NothingRead' /\ ReadSoFar' /\ NotStarved'
  BY <1>1, <1>11 DEF Merge
<1> QED
  BY <1>2, <1>3, <1>4, <1>5, <1>6, <1>7, <1>8, <1>9, <1>10, <1>11 DEF Next

-----------------------------------------------------------------------------
(* Types.                                                                  *)
LEMMA ManagerTiersAreTiers == ManagerTiers \subseteq Tiers
  BY DEF Tiers

LEMMA RestTyped ==
  /\ NoIndex \in [Ids -> SUBSET Words] /\ Absent \in Rows
  /\ "project_state" \in Tiers
  /\ \A at \in {"off", "rebuilding", "open"} : Session(at) \in Sessions
  /\ Closed \in [at : {"off"}, fts : BOOLEAN, copy : [Ids -> SUBSET Words],
                 id : Ids \cup {NoId}, row : Rows, source : Ids \cup {NoId},
                 rest : SUBSET Ids, left : {0}]
<1>1. NoIndex \in [Ids -> SUBSET Words]
  BY DEF NoIndex
<1>2. "project_state" \in Tiers
  <2>1. ModeTiers["open_loops"] = <<"working_state", "project_state">>
        /\ "open_loops" \in DOMAIN ModeTiers
    BY DEF ModeTiers
  <2>2. "project_state" \in ToSet(ModeTiers["open_loops"])
    BY <2>1 DEF ToSet
  <2> QED
    BY <2>1, <2>2 DEF Tiers
<1>3. Absent \in Rows
  BY <1>2 DEF Absent, Rows
<1>4. ASSUME NEW at \in {"off", "rebuilding", "open"} PROVE Session(at) \in Sessions
  BY <1>1, <1>3 DEF Session, Sessions
<1> QED
  BY <1>1, <1>2, <1>3, <1>4 DEF Closed

LEMMA TextsAreWords ==
  ASSUME TypeOK
  PROVE  /\ \A i \in Ids : Text(i) \in SUBSET Words
         /\ AllTexts \in [Ids -> SUBSET Words]
<1>1. \A i \in Ids : Text(i) \in SUBSET Words
  BY RecallAssumption DEF TypeOK, Rows, Text
<1> QED
  BY <1>1 DEF AllTexts

LEMMA SessionTypes ==
  ASSUME TypeOK,
         \/ OpenSession \/ RebuildSession \/ SyncSession \/ SessionEnds \/ Killed
  PROVE  TypeOK'
<1> USE RestTyped, TextsAreWords DEF TypeOK
<1>1. CASE OpenSession
  <2>1. [Session("rebuilding") EXCEPT !.copy = AllTexts] \in Sessions
    BY DEF Sessions
  <2> QED
    BY <1>1, <2>1 DEF OpenSession
<1>2. CASE RebuildSession
  <2>1. index' \in [Ids -> SUBSET Words]
    BY <1>2 DEF RebuildSession, Sessions
  <2> QED
    BY <1>2, <2>1 DEF RebuildSession
<1>3. CASE SyncSession
  <2>1. index' \in [Ids -> SUBSET Words]
    BY <1>3 DEF SyncSession, Synced
  <2> QED
    BY <1>3, <2>1 DEF SyncSession
<1>4. CASE SessionEnds
  BY <1>4 DEF SessionEnds
<1>5. CASE Killed
  <2>1. Off \in Managers
    BY DEF Off, Managers
  <2> QED
    BY <1>5, <2>1 DEF Killed
<1> QED
  BY <1>1, <1>2, <1>3, <1>4, <1>5

LEMMA PutTypes ==
  ASSUME TypeOK, NEW i, NEW row \in Rows, Put(i, row)
  PROVE  rec' \in [Ids -> Rows]
  BY DEF TypeOK, Put

LEMMA StageTypes ==
  ASSUME TypeOK, NEW i \in Ids, Impaction(i) \/ WriteCandidate(i)
  PROVE  TypeOK'
<1>1. PICK tier \in Tiers, tags \in SUBSET Words : Stage(i, tier, tags)
  BY RestTyped, RecallAssumption DEF Impaction, WriteCandidate, Absent, Rows
<1> DEFINE row == [status |-> "candidate", shown |-> FALSE, tier |-> tier, tags |-> tags]
<1>2. row \in Rows
  BY DEF Rows
<1>3. /\ Put(i, row) /\ UNCHANGED <<index, manager>>
      /\ session' = [session EXCEPT !.at = "syncing", !.id = i]
  BY <1>1 DEF Stage
<1> HIDE DEF row
<1>4. rec' \in [Ids -> Rows]
  BY <1>2, <1>3, PutTypes
<1>5. session' \in Sessions
  BY <1>3 DEF TypeOK, Sessions
<1> QED
  BY <1>3, <1>4, <1>5 DEF TypeOK

LEMMA ModesTyped == \A m \in DOMAIN ModeTiers : ModeTiers[m] \in Seq(Tiers)
<1>1. DOMAIN ModeTiers = {"task", "project", "procedure", "artifact", "open_loops"}
  BY DEF ModeTiers
<1>2. \A m \in DOMAIN ModeTiers : ToSet(ModeTiers[m]) \subseteq Tiers
  BY DEF Tiers
<1>3. ModeTiers["task"] \in Seq(Tiers)
  <2>1. ModeTiers["task"] =
          <<"working_state", "project_state",
            "preference_constraint_memory", "procedural_memory">>
    BY DEF ModeTiers
  <2>2. {ModeTiers["task"][k] : k \in 1 .. 4} \subseteq Tiers
    BY <1>1, <1>2, <2>1 DEF ToSet
  <2> QED
    BY <2>1, <2>2
<1>4. ModeTiers["project"] \in Seq(Tiers)
  <2>1. ModeTiers["project"] =
          <<"project_state", "preference_constraint_memory",
            "procedural_memory", "artifact_memory">>
    BY DEF ModeTiers
  <2>2. {ModeTiers["project"][k] : k \in 1 .. 4} \subseteq Tiers
    BY <1>1, <1>2, <2>1 DEF ToSet
  <2> QED
    BY <2>1, <2>2
<1>5. ModeTiers["procedure"] \in Seq(Tiers)
  <2>1. ModeTiers["procedure"] = <<"procedural_memory", "preference_constraint_memory">>
    BY DEF ModeTiers
  <2>2. {ModeTiers["procedure"][k] : k \in 1 .. 2} \subseteq Tiers
    BY <1>1, <1>2, <2>1 DEF ToSet
  <2> QED
    BY <2>1, <2>2
<1>6. ModeTiers["artifact"] \in Seq(Tiers)
  <2>1. ModeTiers["artifact"] = <<"artifact_memory", "episodic_memory">>
    BY DEF ModeTiers
  <2>2. {ModeTiers["artifact"][k] : k \in 1 .. 2} \subseteq Tiers
    BY <1>1, <1>2, <2>1 DEF ToSet
  <2> QED
    BY <2>1, <2>2
<1>7. ModeTiers["open_loops"] \in Seq(Tiers)
  <2>1. ModeTiers["open_loops"] = <<"working_state", "project_state">>
    BY DEF ModeTiers
  <2>2. {ModeTiers["open_loops"][k] : k \in 1 .. 2} \subseteq Tiers
    BY <1>1, <1>2, <2>1 DEF ToSet
  <2> QED
    BY <2>1, <2>2
<1> QED
  BY <1>1, <1>3, <1>4, <1>5, <1>6, <1>7

LEMMA AskTypes ==
  ASSUME TypeOK, NEW req \in Requests, Ask(req)
  PROVE  TypeOK'
<1>1. req \in RequestType
  BY RecallAssumption
<1>2. TierList(req) \in Seq(Tiers)
  <2>1. req.mode \in DOMAIN ModeTiers /\ req.tiers \in Seq(Tiers)
    BY <1>1 DEF RequestType
  <2>2. ModeTiers[req.mode] \in Seq(Tiers)
    BY <2>1, ModesTyped
  <2> QED
    BY <2>1, <2>2 DEF TierList
<1>3. Reads(req) \in SUBSET Nat
  BY <1>2 DEF Reads
<1>4. session' \in Sessions
  BY <1>1, <1>3 DEF Ask, TypeOK, Sessions
<1> QED
  BY <1>4 DEF Ask, TypeOK

LEMMA ReadTypes ==
  ASSUME TypeOK, Read
  PROVE  TypeOK'
<1>1. PICK k \in session.todo :
        \E result \in Results(session.req, TiersOf(session.req, k)) :
          session' = [session EXCEPT
            !.todo = @ \ {k}, !.got = @ \cup (result \ session.got),
            !.calm = @ /\ result = Found(session.req, TiersOf(session.req, k)),
            !.seen = [i \in Ids |-> IF i \in result \ session.got THEN rec[i] ELSE @[i]]]
  BY DEF Read
<1>2. PICK result \in Results(session.req, TiersOf(session.req, k)) :
        session' = [session EXCEPT
          !.todo = @ \ {k}, !.got = @ \cup (result \ session.got),
          !.calm = @ /\ result = Found(session.req, TiersOf(session.req, k)),
          !.seen = [i \in Ids |-> IF i \in result \ session.got THEN rec[i] ELSE @[i]]]
  BY <1>1
<1>3. result \subseteq Ids
  <2> DEFINE tiers == TiersOf(session.req, k)
  <2>1. InTiers(tiers) \subseteq Ids /\ Exists \subseteq Ids
    BY DEF InTiers, Exists
  <2>2. List(session.req, tiers) \subseteq Ids
    BY <2>1 DEF List, Newest
  <2>3. Search(session.req, tiers) \subseteq Ids
    BY <2>1 DEF Search, Ranked, Hits
  <2> HIDE DEF tiers
  <2>4. Found(session.req, tiers) \subseteq Ids
    BY <2>1, <2>2, <2>3 DEF Found
  <2> QED
    BY <2>2, <2>4 DEF Results, tiers
<1> DEFINE ok == session.calm /\ result = Found(session.req, TiersOf(session.req, k))
           seen == [i \in Ids |-> IF i \in result \ session.got THEN rec[i]
                                  ELSE session.seen[i]]
<1>4. ok \in BOOLEAN
  BY DEF TypeOK, Sessions
<1>5. seen \in [Ids -> Rows]
  BY DEF TypeOK, Sessions
<1>6. session' = [session EXCEPT !.todo = @ \ {k}, !.got = @ \cup (result \ session.got),
                    !.calm = ok, !.seen = seen]
  BY <1>2
<1> HIDE DEF ok, seen
<1>7. session' \in Sessions
  BY <1>3, <1>4, <1>5, <1>6 DEF TypeOK, Sessions
<1> QED
  BY <1>7 DEF Read, TypeOK

LEMMA RenderTypes ==
  ASSUME TypeOK, Render
  PROVE  TypeOK'
<1> DEFINE pool == Pool(session.req, session.got)
           eligible == {i \in pool : Eligible(session.req, session.seen[i])}
           written == Written(session.req, eligible)
<1>1. session' = [session EXCEPT !.at = "answered", !.shown = written,
                    !.omitted = eligible \ written, !.accessed = pool]
  BY DEF Render
<1>2. pool \subseteq Ids
  BY DEF Pool, Ranked, TypeOK, Sessions
<1>3. eligible \subseteq Ids /\ written \subseteq eligible
  BY <1>2 DEF Written
<1> HIDE DEF pool, eligible, written
<1>4. session' \in Sessions
  BY <1>1, <1>2, <1>3 DEF TypeOK, Sessions
<1> QED
  BY <1>4 DEF Render, TypeOK

LEMMA DisturbedTypes ==
  ASSUME TypeOK
  PROVE  Disturbed \in Sessions
  BY DEF TypeOK, Sessions, Disturbed

LEMMA ConnectionTypes ==
  ASSUME TypeOK, OpenManager \/ RebuildManager \/ SyncManager \/ RunEnds
  PROVE  TypeOK'
<1> USE RestTyped, TextsAreWords, DisturbedTypes DEF TypeOK
<1>0. Off \in Managers
  BY DEF Off, Managers
<1>1. CASE OpenManager
  <2>1. manager' \in Managers
    BY <1>0, <1>1 DEF OpenManager, Managers
  <2> QED
    BY <1>1, <2>1 DEF OpenManager
<1>2. CASE RebuildManager
  <2>1. manager' \in Managers /\ index' \in [Ids -> SUBSET Words]
    BY <1>2 DEF RebuildManager, Managers
  <2> QED
    BY <1>2, <2>1 DEF RebuildManager
<1>3. CASE SyncManager
  <2>1. manager' \in Managers
    BY <1>3 DEF SyncManager, Managers
  <2>2. index' \in [Ids -> SUBSET Words]
    BY <1>3 DEF SyncManager, Synced
  <2> QED
    BY <1>3, <2>1, <2>2 DEF SyncManager
<1>4. CASE RunEnds
  BY <1>0, <1>4 DEF RunEnds
<1> QED
  BY <1>1, <1>2, <1>3, <1>4

LEMMA OneCallLess ==
  ASSUME TypeOK, manager.left > 0
  PROVE  manager.left - 1 \in 0 .. MaxCalls
<1>1. manager.left \in 0 .. MaxCalls
  BY DEF TypeOK, Managers
<1> QED
  BY <1>1, RecallAssumption

LEMMA ChangeTypes ==
  ASSUME TypeOK, NEW i \in Ids, Promote(i) \/ Retire(i) \/ UpdateTier(i) \/ Tag(i)
  PROVE  TypeOK'
<1>1. PICK row \in Rows : Change(i, row)
  <2>1. rec[i] \in Rows
    BY DEF TypeOK
  <2>2. Labels \subseteq SUBSET Words
    BY RecallAssumption
  <2>3. CASE Promote(i)
    BY <2>1, <2>3 DEF Promote, Rows
  <2>4. CASE Retire(i)
    BY <2>1, <2>4 DEF Retire, Rows
  <2>5. CASE UpdateTier(i)
    BY <2>1, ManagerTiersAreTiers, <2>5 DEF UpdateTier, Rows
  <2>6. CASE Tag(i)
    BY <2>1, <2>2, <2>6 DEF Tag, Rows
  <2> QED
    BY <2>3, <2>4, <2>5, <2>6
<1>2. rec' \in [Ids -> Rows]
  BY <1>1, PutTypes DEF Change, TypeOK
<1>3. manager' \in Managers
  <2>1. manager.left - 1 \in 0 .. MaxCalls
    BY <1>1, OneCallLess DEF Change
  <2> QED
    BY <1>1, <2>1 DEF Change, Did, TypeOK, Managers
<1> QED
  BY <1>1, <1>2, <1>3, DisturbedTypes DEF Change, TypeOK

LEMMA MergeTypes ==
  ASSUME TypeOK, NEW new \in Ids, NEW sources \in SUBSET Ids, Merge(new, sources)
  PROVE  TypeOK'
<1>1. PICK base \in sources, tier \in {"medium_term", "project_state"} :
        manager' = [manager EXCEPT
          !.at = "merging", !.left = @ - 1, !.id = new, !.rest = sources,
          !.row = [status |-> "active", shown |-> FALSE, tier |-> tier,
                   tags |-> rec[base].tags]]
  BY DEF Merge
<1>2. tier \in Tiers
  <2>1. "medium_term" \in ManagerTiers
    BY DEF ManagerTiers
  <2> QED
    BY <2>1, ManagerTiersAreTiers, RestTyped
<1> DEFINE row == [status |-> "active", shown |-> FALSE, tier |-> tier,
                   tags |-> rec[base].tags]
<1>3. row \in Rows
  BY <1>2 DEF TypeOK, Rows
<1>4. manager.left > 0
  BY DEF Merge
<1> HIDE DEF row
<1>5. manager.left - 1 \in 0 .. MaxCalls
  BY <1>4, OneCallLess
<1>6. manager' = [manager EXCEPT !.at = "merging", !.left = manager.left - 1,
                    !.id = new, !.rest = sources, !.row = row]
  BY <1>1 DEF row
<1>7. manager' \in Managers
  BY <1>3, <1>5, <1>6 DEF TypeOK, Managers
<1> QED
  BY <1>7 DEF Merge, TypeOK

LEMMA MergingTypes ==
  ASSUME TypeOK, MergeSource \/ Supersede \/ Merged
  PROVE  TypeOK'
<1> USE RestTyped, DisturbedTypes DEF TypeOK
<1>1. CASE MergeSource
  <2>1. manager.row \in Rows
    BY DEF Managers
  <2>2. rec' \in [Ids -> Rows]
    BY <1>1, <2>1, PutTypes DEF MergeSource
  <2>3. manager' \in Managers
    BY <1>1 DEF MergeSource, Managers
  <2> QED
    BY <1>1, <2>2, <2>3 DEF MergeSource
<1>2. CASE Supersede
  <2>1. rec' \in [Ids -> Rows]
    BY <1>2 DEF Supersede, Put, Rows
  <2>2. manager' \in Managers
    BY <1>2 DEF Supersede, Managers
  <2> QED
    BY <1>2, <2>1, <2>2 DEF Supersede
<1>3. CASE Merged
  <2>1. manager' \in Managers
    BY <1>3 DEF Merged, Managers
  <2> QED
    BY <1>3, <2>1 DEF Merged
<1> QED
  BY <1>1, <1>2, <1>3

LEMMA TypesKept ==
  ASSUME TypeOK, [Next]_vars
  PROVE  TypeOK'
<1>1. CASE UNCHANGED vars
  BY <1>1 DEF vars, TypeOK
<1> QED
  BY <1>1, SessionTypes, StageTypes, AskTypes, ReadTypes, RenderTypes, ConnectionTypes,
     ChangeTypes, MergeTypes, MergingTypes DEF Next

-----------------------------------------------------------------------------
(* The types, that nothing is read before a call, how far a call has come  *)
(* and what its answer owes hold together in every reachable state.        *)
THEOREM RecallInvariant == Spec => []IInv
<1>1. Init => IInv
  <2> SUFFICES ASSUME Init PROVE IInv
    OBVIOUS
  <2>1. rec \in [Ids -> Rows]
    <3>1. \A i \in DOMAIN Births : Births[i] \in Tiers
      BY RecallAssumption
    <3> QED
      BY <3>1, RestTyped DEF Init, Rows
  <2>2. index \in [Ids -> SUBSET Words]
    BY RestTyped, RecallAssumption DEF Init
  <2>3. session \in Sessions
    BY RestTyped DEF Init
  <2>4. manager \in Managers
    BY RestTyped, RecallAssumption DEF Init, Managers
  <2>5. session.at = "off"
    BY DEF Init, Session
  <2> QED
    BY <2>1, <2>2, <2>3, <2>4, <2>5 DEF IInv, TypeOK, NothingRead, ReadSoFar, NotStarved
<1>2. IInv /\ [Next]_vars => IInv'
  BY TypesKept, CallKeeps DEF IInv
<1> QED
  BY <1>1, <1>2, PTL DEF Spec

(* Every variable stays of its type.                                       *)
THEOREM TypeCorrect == Spec => []TypeOK
  BY RecallInvariant, PTL DEF IInv

(* A record of the mode's tiers that may be shown, and that the query      *)
(* finds, is shown or counted as omitted by a recall that nothing has      *)
(* disturbed, unless those tiers hold more records than the limit allows.  *)
THEOREM NoneIsStarved == Spec => []NotStarved
  BY RecallInvariant, PTL DEF IInv

-----------------------------------------------------------------------------
(* Numbers and sequences.                                                  *)
LEMMA LeastOf ==
  ASSUME NEW S, S \subseteq Nat, S # {}
  PROVE  Min(S) \in S /\ \A x \in S : Min(S) <= x
<1> DEFINE R == {p \in Nat \X Nat : p[1] < p[2]}
<1>0. IsWellFoundedOn(R, Nat)
  BY NatLessThanWellFounded DEF OpToRel
<1>1. PICK m \in S : \A y \in S : ~ (<<y, m>> \in R)
  <2> HIDE DEF R
  <2> QED
    BY <1>0, WFMin
<1>2. ASSUME NEW y \in S PROVE m =< y
  <2>1. y \in Nat /\ m \in Nat /\ ~ (<<y, m>> \in R)
    BY <1>1
  <2>2. <<y, m>> \in Nat \X Nat /\ <<y, m>>[1] = y /\ <<y, m>>[2] = m
    BY <2>1
  <2>3. ~ (y < m)
    BY <2>1, <2>2
  <2> QED
    BY <2>1, <2>3
<1>3. m \in S /\ \A y \in S : m =< y
  BY <1>2
<1>4. Min(S) \in S /\ \A y \in S : Min(S) =< y
  BY <1>3 DEF Min
<1> QED
  BY <1>4

(* A set of numbers that is bounded has a greatest.                        *)
LEMMA GreatestOf ==
  ASSUME NEW S, S \subseteq Nat, S # {}, NEW b \in Nat, \A x \in S : x <= b
  PROVE  Max(S) \in S /\ \A x \in S : x <= Max(S)
<1> DEFINE T == {n \in Nat : \A x \in S : x <= n}
<1>1. T \subseteq Nat /\ T # {}
  OBVIOUS
<1>2. PICK m \in T : \A y \in T : m <= y
  <2> HIDE DEF T
  <2> QED
  BY <1>1, LeastOf
<1>3. m \in S
  <2> SUFFICES ASSUME m \notin S PROVE FALSE
    OBVIOUS
  <2>1. \A x \in S : x < m
    OBVIOUS
  <2>2. m - 1 \in Nat
    <3>1. PICK x : x \in S
      OBVIOUS
    <3> QED
      BY <2>1, <3>1
  <2>3. m - 1 \in T
    BY <2>1, <2>2
  <2> QED
    BY <1>2, <2>3
<1>4. m \in S /\ \A y \in S : m >= y
  BY <1>3
<1>5. Max(S) \in S /\ \A y \in S : Max(S) >= y
  BY <1>4 DEF Max
<1> QED
  BY <1>5

(* Every member of a finite set of numbers has its place in their order.   *)
LEMMA InOrderIsOrder ==
  ASSUME NEW S, S \subseteq Nat, IsFiniteSet(S)
  PROVE  /\ Cardinality(S) \in Nat
         /\ DOMAIN InOrder(S) = 1 .. Cardinality(S)
         /\ \A i \in 1 .. Cardinality(S) : InOrder(S)[i] \in S
         /\ \A k \in S : \E i \in 1 .. Cardinality(S) : InOrder(S)[i] = k
         /\ \A i, j \in 1 .. Cardinality(S) : i < j => InOrder(S)[i] < InOrder(S)[j]
<1> DEFINE n == Cardinality(S)
           upto(k) == {j \in S : j <= k}
           rank == [k \in S |-> Cardinality(upto(k))]
<1>1. n \in Nat
  BY FS_CardinalityType
<1>2. ASSUME NEW k \in S
      PROVE  IsFiniteSet(upto(k)) /\ Cardinality(upto(k)) \in 1 .. n
  <2>1. upto(k) \in SUBSET S /\ upto(k) # {}
    OBVIOUS
  <2>2. IsFiniteSet(upto(k)) /\ Cardinality(upto(k)) <= n
    BY <2>1, FS_Subset
  <2>3. Cardinality(upto(k)) # 0 /\ Cardinality(upto(k)) \in Nat
    BY <2>1, <2>2, FS_EmptySet, FS_CardinalityType
  <2> QED
    BY <1>1, <2>2, <2>3
<1>3. ASSUME NEW k \in S, NEW m \in S, k < m
      PROVE  rank[k] < rank[m]
  <2>1. k \in Nat /\ m \in Nat /\ \A j \in S : j \in Nat
    OBVIOUS
  <2>2. upto(k) \in SUBSET upto(m)
    <3>1. \A j \in S : j <= k => j <= m
      BY <1>3, <2>1
    <3> QED
      BY <3>1
  <2>3. m \in upto(m) /\ m \notin upto(k)
    BY <1>3, <2>1
  <2>4. Cardinality(upto(k)) < Cardinality(upto(m))
    <3> HIDE DEF upto
    <3>1. /\ Cardinality(upto(k)) \in Nat /\ Cardinality(upto(m)) \in Nat
          /\ Cardinality(upto(k)) <= Cardinality(upto(m))
          /\ Cardinality(upto(k)) # Cardinality(upto(m))
      BY <1>1, <1>2, <2>2, <2>3, FS_Subset
    <3> QED
      BY <3>1
  <2> QED
    BY <2>4
<1>4. \A k, m \in S : rank[k] = rank[m] => k = m
  <2>1. \A k \in S : k \in Nat /\ rank[k] \in 1 .. n
    BY <1>2
  <2> HIDE DEF rank
  <2> QED
    BY <1>1, <1>3, <2>1
<1>5. rank \in Injection(S, 1 .. n)
  <2>1. rank \in [S -> 1 .. n]
    BY <1>2
  <2>2. \A a, b \in S : rank[a] = rank[b] => a = b
    BY <1>4
  <2> HIDE DEF rank
  <2> QED
    BY <2>1, <2>2, Fun_IsInj
<1>6. IsFiniteSet(1 .. n) /\ Cardinality(1 .. n) = n
  BY <1>1, FS_Interval
<1>7. \A i \in 1 .. n : \E k \in S : rank[k] = i
  <2> HIDE DEF rank
  <2>1. rank \in Surjection(S, 1 .. n)
    BY <1>5, <1>6, FS_Injection
  <2> QED
    BY <2>1, Fun_SurjectionProperties
<1>8. ASSUME NEW i \in 1 .. n
      PROVE  InOrder(S)[i] \in S /\ rank[InOrder(S)[i]] = i
  <2>1. \E k \in S : Cardinality({j \in S : j <= k}) = i
    BY <1>7
  <2>2. InOrder(S)[i] = CHOOSE k \in S : Cardinality({j \in S : j <= k}) = i
    BY DEF InOrder
  <2> QED
    BY <2>1, <2>2
<1>9. ASSUME NEW k \in S PROVE \E i \in 1 .. n : InOrder(S)[i] = k
  <2>1. rank[k] \in 1 .. n
    BY <1>2
  <2>2. rank[InOrder(S)[rank[k]]] = rank[k] /\ InOrder(S)[rank[k]] \in S
    BY <1>8, <2>1
  <2> QED
    BY <1>4, <2>1, <2>2
<1>10. DOMAIN InOrder(S) = 1 .. n
  BY DEF InOrder
<1>11. ASSUME NEW i \in 1 .. n, NEW j \in 1 .. n, i < j
       PROVE  InOrder(S)[i] < InOrder(S)[j]
  <2>1. /\ InOrder(S)[i] \in S /\ InOrder(S)[j] \in S
        /\ rank[InOrder(S)[i]] = i /\ rank[InOrder(S)[j]] = j
    BY <1>8
  <2>2. /\ InOrder(S)[i] \in Nat /\ InOrder(S)[j] \in Nat
        /\ ~ (InOrder(S)[j] < InOrder(S)[i]) /\ InOrder(S)[i] # InOrder(S)[j]
    <3> HIDE DEF rank
    <3>1. InOrder(S)[i] \in Nat /\ InOrder(S)[j] \in Nat
      BY <2>1
    <3>2. InOrder(S)[j] < InOrder(S)[i] => j < i
      BY <1>3, <2>1
    <3>3. i \in Nat /\ j \in Nat /\ InOrder(S)[i] # InOrder(S)[j]
      BY <1>11, <2>1
    <3> QED
      BY <1>11, <3>1, <3>2, <3>3
  <2> QED
    BY <2>2
<1> HIDE DEF rank
<1> QED
  BY <1>1, <1>8, <1>9, <1>10, <1>11

(* A function on an initial part of the numbers is a sequence.             *)
LEMMA Evaluated ==
  ASSUME NEW S, NEW n \in Nat, NEW f \in [1 .. n -> S]
  PROVE  <<>> \o f = f /\ f \in Seq(S) /\ Len(f) = n
<1>1. f \in Seq(S) /\ Len(f) = n
  OBVIOUS
<1> QED
  BY <1>1, ConcatEmptySeq

(* What a selection keeps is what is at its places, in the same order.     *)
LEMMA KeptIs ==
  ASSUME NEW S, NEW items \in Seq(S), NEW K \in SUBSET DOMAIN items
  PROVE  /\ Kept(items, K) \in Seq(S)
         /\ Len(Kept(items, K)) = Cardinality(K) /\ Cardinality(K) \in Nat
         /\ \A i \in 1 .. Cardinality(K) :
              InOrder(K)[i] \in K /\ Kept(items, K)[i] = items[InOrder(K)[i]]
         /\ \A i, j \in 1 .. Cardinality(K) :
              i < j => InOrder(K)[i] < InOrder(K)[j]
         /\ \A k \in K : \E i \in 1 .. Cardinality(K) :
              InOrder(K)[i] = k /\ Kept(items, K)[i] = items[k]
<1>1. Len(items) \in Nat /\ DOMAIN items = 1 .. Len(items)
      /\ \A k \in 1 .. Len(items) : items[k] \in S
  BY LenProperties, ElementOfSeq
<1>2. K \subseteq Nat /\ IsFiniteSet(K)
  <2>1. IsFiniteSet(1 .. Len(items))
    BY <1>1, FS_Interval
  <2>2. K \in SUBSET (1 .. Len(items))
    BY <1>1
  <2> QED
    BY <1>1, <2>1, <2>2, FS_Subset
<1> DEFINE n == Cardinality(K)
           kept == [i \in 1 .. n |-> items[InOrder(K)[i]]]
<1>3. /\ n \in Nat /\ DOMAIN InOrder(K) = 1 .. n
      /\ \A i \in 1 .. n : InOrder(K)[i] \in K
      /\ \A k \in K : \E i \in 1 .. n : InOrder(K)[i] = k
      /\ \A i, j \in 1 .. n : i < j => InOrder(K)[i] < InOrder(K)[j]
  BY <1>2, InOrderIsOrder
<1>4. Kept(items, K) = <<>> \o kept
  BY <1>3 DEF Kept
<1>5. kept \in [1 .. n -> S]
  BY <1>1, <1>3
<1>6. Kept(items, K) = kept /\ kept \in Seq(S) /\ Len(kept) = n
  <2> HIDE DEF kept, n
  <2> QED
    BY <1>3, <1>4, <1>5, Evaluated
<1>7. \A i \in 1 .. n : kept[i] = items[InOrder(K)[i]]
  OBVIOUS
<1> HIDE DEF kept
<1> QED
  BY <1>3, <1>6, <1>7

LEMMA KeptAll ==
  ASSUME NEW S, NEW items \in Seq(S)
  PROVE  Kept(items, DOMAIN items) = items
<1> DEFINE n == Len(items)
<1>1. n \in Nat /\ DOMAIN items = 1 .. n
  BY LenProperties
<1>2. Cardinality(1 .. n) = n
  BY <1>1, FS_Interval
<1>3. ASSUME NEW i \in 1 .. n PROVE InOrder(1 .. n)[i] = i
  <2>1. \A k \in 1 .. n : Cardinality({j \in 1 .. n : j <= k}) = k
    <3>1. ASSUME NEW k \in 1 .. n PROVE {j \in 1 .. n : j <= k} = 1 .. k
      BY <1>1
    <3>2. \A k \in 1 .. n : Cardinality(1 .. k) = k
      BY <1>1, FS_Interval
    <3> QED
      BY <3>1, <3>2
  <2>2. InOrder(1 .. n)[i] =
          CHOOSE k \in 1 .. n : Cardinality({j \in 1 .. n : j <= k}) = i
    BY <1>2 DEF InOrder
  <2> QED
    BY <2>1, <2>2
<1>4. /\ Kept(items, 1 .. n) \in Seq(S) /\ Len(Kept(items, 1 .. n)) = n
      /\ \A i \in 1 .. n : Kept(items, 1 .. n)[i] = items[InOrder(1 .. n)[i]]
  BY <1>1, <1>2, KeptIs
<1>5. \A i \in 1 .. n : Kept(items, 1 .. n)[i] = items[i]
  BY <1>3, <1>4
<1> HIDE DEF n
<1> QED
  BY <1>1, <1>4, <1>5, SeqEqual DEF n

(* The least and the greatest of two.                                      *)
LEMMA OfTwo ==
  ASSUME NEW a \in Nat, NEW b \in Nat
  PROVE  /\ Min({a, b}) = IF a <= b THEN a ELSE b
         /\ Max({a, b}) = IF a <= b THEN b ELSE a
<1>1. Min({a, b}) \in {a, b} /\ \A x \in {a, b} : Min({a, b}) <= x
  BY LeastOf
<1>2. \A x \in {a, b} : a + b >= x
  OBVIOUS
<1>3. Max({a, b}) \in {a, b} /\ \A x \in {a, b} : Max({a, b}) >= x
  <2>1. {a, b} \subseteq Nat /\ {a, b} # {} /\ a + b \in Nat
    OBVIOUS
  <2> QED
    BY <1>2, <2>1, GreatestOf
<1> HIDE DEF Min, Max
<1> QED
  BY <1>1, <1>3

(* What a cut leaves.                                                      *)
LEMMA TakeIs ==
  ASSUME NEW S, NEW s \in Seq(S), NEW n \in Nat
  PROVE  /\ Take(s, n) \in Seq(S)
         /\ Len(Take(s, n)) = IF n <= Len(s) THEN n ELSE Len(s)
         /\ \A i \in 1 .. Len(Take(s, n)) : Take(s, n)[i] = s[i]
         /\ ToSet(Take(s, n)) \subseteq ToSet(s)
         /\ Len(s) <= n => Take(s, n) = s
<1> DEFINE m == IF n <= Len(s) THEN n ELSE Len(s)
<1>1. /\ Len(s) \in Nat /\ DOMAIN s = 1 .. Len(s)
      /\ \A i \in 1 .. Len(s) : s[i] \in S
  BY LenProperties, ElementOfSeq
<1>2. Take(s, n) = SubSeq(s, 1, m)
  BY <1>1, OfTwo DEF Take
<1>3. m \in Nat /\ m <= Len(s) /\ \A i \in 1 .. m : s[i] \in S
  BY <1>1
<1> HIDE DEF m
<1>4. /\ SubSeq(s, 1, m) \in Seq(S)
      /\ Len(SubSeq(s, 1, m)) = m
      /\ \A i \in 1 .. m : SubSeq(s, 1, m)[i] = s[i]
  BY <1>3, SubSeqProperties
<1>5. ToSet(Take(s, n)) \subseteq ToSet(s)
  BY <1>1, <1>2, <1>3, <1>4, LenProperties DEF ToSet
<1>6. Len(s) <= n => Take(s, n) = s
  <2>1. Len(s) <= n => m = Len(s)
    <3>1. n \in Nat /\ Len(s) \in Nat
      BY <1>1
    <3> QED
      BY <3>1 DEF m
  <2> QED
    BY <1>1, <1>2, <1>4, <2>1, SeqEqual
<1> QED
  BY <1>2, <1>4, <1>5, <1>6 DEF m

-----------------------------------------------------------------------------
(* Texts that are joined.                                                  *)
Distinct(s) == \A i, j \in DOMAIN s : s[i] = s[j] => i = j

Apart(seqs) ==
  /\ \A k \in DOMAIN seqs : Distinct(seqs[k])
  /\ \A j, k \in DOMAIN seqs : j # k => ToSet(seqs[j]) \cap ToSet(seqs[k]) = {}

LEMMA ConcatIs ==
  ASSUME NEW S, NEW s \in Seq(S), NEW t \in Seq(S)
  PROVE  /\ s \o t \in Seq(S)
         /\ ToSet(s \o t) = ToSet(s) \cup ToSet(t)
         /\ Distinct(s) /\ Distinct(t) /\ ToSet(s) \cap ToSet(t) = {}
            => Distinct(s \o t)
<1> DEFINE m == Len(s)
           n == Len(t)
           st == s \o t
<1>1. /\ m \in Nat /\ n \in Nat /\ DOMAIN s = 1 .. m /\ DOMAIN t = 1 .. n
  BY LenProperties
<1>2. /\ st \in Seq(S) /\ Len(st) = m + n
      /\ \A i \in 1 .. m + n : st[i] = IF i <= m THEN s[i] ELSE t[i - m]
  BY <1>1, ConcatProperties
<1>3. DOMAIN st = 1 .. m + n
  BY <1>2, LenProperties
<1> HIDE DEF m, n, st
<1>4. \A i \in 1 .. m : i \in 1 .. m + n /\ st[i] = s[i]
  BY <1>1, <1>2
<1>5. \A i \in 1 .. n : m + i \in 1 .. m + n /\ st[m + i] = t[i]
  <2>1. ASSUME NEW i \in 1 .. n
        PROVE  m + i \in 1 .. m + n /\ ~ (m + i <= m) /\ (m + i) - m = i
    BY <1>1
  <2> QED
    BY <1>2, <2>1
<1>6. \A i \in 1 .. m + n : i \in 1 .. m \/ \E j \in 1 .. n : i = m + j
  <2>1. ASSUME NEW i \in 1 .. m + n, i \notin 1 .. m
        PROVE  i - m \in 1 .. n /\ i = m + (i - m)
    BY <1>1, <2>1
  <2> QED
    BY <2>1
<1>7. ToSet(st) = ToSet(s) \cup ToSet(t)
  <2>1. /\ ToSet(st) = {st[i] : i \in 1 .. m + n}
        /\ ToSet(s) = {s[i] : i \in 1 .. m} /\ ToSet(t) = {t[i] : i \in 1 .. n}
    BY <1>1, <1>3 DEF ToSet
  <2>2. ASSUME NEW i \in 1 .. m + n PROVE st[i] \in ToSet(s) \cup ToSet(t)
    <3>1. CASE i \in 1 .. m
      BY <1>4, <2>1, <3>1
    <3>2. CASE \E j \in 1 .. n : i = m + j
      <4>1. PICK j \in 1 .. n : i = m + j
        BY <3>2
      <4>2. st[i] = t[j]
        BY <1>5, <4>1
      <4> QED
        BY <2>1, <4>2
    <3> QED
      BY <1>6, <3>1, <3>2
  <2>3. \A i \in 1 .. m : s[i] \in ToSet(st)
    BY <1>4, <2>1
  <2>4. ASSUME NEW i \in 1 .. n PROVE t[i] \in ToSet(st)
    <3>1. m + i \in 1 .. m + n /\ st[m + i] = t[i]
      BY <1>5
    <3> HIDE DEF st
    <3> QED
      BY <2>1, <3>1
  <2> QED
    BY <2>1, <2>2, <2>3, <2>4
<1>8. ASSUME Distinct(s), Distinct(t), ToSet(s) \cap ToSet(t) = {}
      PROVE  Distinct(st)
  <2>1. \A i \in 1 .. m, j \in 1 .. n : s[i] # t[j]
    BY <1>1, <1>8 DEF ToSet
  <2>2. \A i, j \in 1 .. m : st[i] = st[j] => i = j
    BY <1>1, <1>4, <1>8 DEF Distinct
  <2>3. \A i, j \in 1 .. n : st[m + i] = st[m + j] => i = j
    BY <1>1, <1>5, <1>8 DEF Distinct
  <2>4. \A i \in 1 .. m, j \in 1 .. n : st[i] # st[m + j]
    BY <1>4, <1>5, <2>1
  <2> QED
    BY <1>3, <1>6, <2>2, <2>3, <2>4 DEF Distinct
<1> QED
  BY <1>2, <1>7, <1>8 DEF st

LEMMA JoinedIs ==
  ASSUME NEW S, NEW seqs \in Seq(Seq(S))
  PROVE  /\ Joined(seqs) \in Seq(S)
         /\ ToSet(Joined(seqs)) = UNION {ToSet(seqs[k]) : k \in DOMAIN seqs}
         /\ Apart(seqs) => Distinct(Joined(seqs))
<1> DEFINE n == Len(seqs)
           Flat(f, m) == f = [i \in 1 .. m |-> IF i = 1 THEN seqs[i] ELSE f[i - 1] \o seqs[i]]
           flat == CHOOSE f : Flat(f, n)
           upTo(m) == UNION {ToSet(seqs[k]) : k \in 1 .. m}
           Good(m) == /\ flat[m] \in Seq(S)
                      /\ ToSet(flat[m]) = upTo(m)
                      /\ Apart(seqs) => Distinct(flat[m])
<1>1. n \in Nat /\ DOMAIN seqs = 1 .. n /\ \A k \in 1 .. n : seqs[k] \in Seq(S)
  BY LenProperties, ElementOfSeq
<1>2. CASE n = 0
  <2>1. seqs = <<>>
    BY <1>2, EmptySeq
  <2>2. Joined(seqs) = <<>>
    BY <1>2, <2>1 DEF Joined, FlattenSeq
  <2>3. <<>> \in Seq(S) /\ DOMAIN seqs = {} /\ ToSet(<<>>) = {} /\ Distinct(<<>>)
    BY <2>1 DEF ToSet, Distinct
  <2> QED
    BY <2>2, <2>3
<1>3. CASE n > 0
  <2>1. \E f : Flat(f, n)
    <3> DEFINE bad == {m \in 1 .. n : ~ \E f : Flat(f, m)}
    <3>0. n \in 1 .. n
      BY <1>1, <1>3
    <3> SUFFICES ASSUME bad # {} PROVE FALSE
      <4>1. bad = {} => n \notin bad
        OBVIOUS
      <4> QED
        BY <3>0, <4>1
    <3>1. PICK m \in bad : \A x \in bad : m <= x
      <4>1. bad \subseteq 1 .. n /\ 1 .. n \subseteq Nat
        <5> HIDE DEF Flat
        <5> QED
          OBVIOUS
      <4>2. bad \subseteq Nat
        BY <4>1
      <4> HIDE DEF bad
      <4> QED
        BY <4>2, LeastOf
    <3>2. m \in 1 .. n /\ ~ \E f : Flat(f, m)
      OBVIOUS
    <3>3. CASE m = 1
      <4>1. Flat([i \in 1 .. 1 |-> seqs[1]], 1)
        OBVIOUS
      <4> QED
        BY <3>2, <3>3, <4>1
    <3>4. CASE m > 1
      <4>1. m - 1 \in 1 .. n /\ ~ (m <= m - 1)
        BY <1>1, <3>2, <3>4
      <4>2. PICK g : Flat(g, m - 1)
        BY <3>1, <4>1
      <4> DEFINE f == [i \in 1 .. m |-> IF i < m THEN g[i] ELSE g[m - 1] \o seqs[m]]
      <4>3. \A i \in 1 .. m :
              f[i] = IF i = 1 THEN seqs[i] ELSE f[i - 1] \o seqs[i]
        <5>1. ASSUME NEW i \in 1 .. m, i < m
              PROVE  f[i] = IF i = 1 THEN seqs[i] ELSE f[i - 1] \o seqs[i]
          <6>1. i \in 1 .. m - 1 /\ f[i] = g[i]
            BY <3>2, <5>1
          <6>2. g[i] = IF i = 1 THEN seqs[i] ELSE g[i - 1] \o seqs[i]
            BY <4>2, <6>1
          <6>3. i # 1 => i - 1 \in 1 .. m /\ i - 1 < m
            BY <3>2, <5>1
          <6> QED
            BY <6>1, <6>2, <6>3
        <5>2. f[m] = f[m - 1] \o seqs[m]
          <6>1. m \in 1 .. m /\ ~ (m < m) /\ m - 1 \in 1 .. m /\ m - 1 < m
            BY <3>2, <3>4
          <6>2. f[m] = g[m - 1] \o seqs[m] /\ f[m - 1] = g[m - 1]
            BY <6>1
          <6> HIDE DEF f
          <6> QED
            BY <6>2
        <5>3. \A i \in 1 .. m : i < m \/ i = m
          BY <3>2
        <5> QED
          BY <3>4, <5>1, <5>2, <5>3
      <4>4. Flat(f, m)
        <5> HIDE DEF f
        <5>1. DOMAIN f = 1 .. m /\ f = [i \in 1 .. m |-> f[i]]
          BY DEF f
        <5> QED
          BY <4>3, <5>1
      <4> QED
        BY <3>2, <4>4
    <3> QED
      BY <1>1, <3>2, <3>3, <3>4
  <2>2. Flat(flat, n)
    BY <2>1
  <2>3. Joined(seqs) = flat[n]
    BY <1>1, <1>3 DEF Joined, FlattenSeq
  <2> HIDE DEF flat
  <2>4. \A m \in 1 .. n : flat[m] = IF m = 1 THEN seqs[m] ELSE flat[m - 1] \o seqs[m]
    BY <2>2
  <2>5. Good(n)
    <3> DEFINE bad == {m \in 1 .. n : ~ Good(m)}
    <3>0. n \in 1 .. n
      BY <1>1, <1>3
    <3> SUFFICES ASSUME bad # {} PROVE FALSE
      <4>1. bad = {} => n \notin bad
        OBVIOUS
      <4> QED
        BY <3>0, <4>1
    <3>1. PICK m \in bad : \A x \in bad : m <= x
      <4>1. bad \subseteq 1 .. n /\ 1 .. n \subseteq Nat
        OBVIOUS
      <4>2. bad \subseteq Nat
        BY <4>1
      <4> HIDE DEF bad
      <4> QED
        BY <4>2, LeastOf
    <3>2. m \in 1 .. n /\ ~ Good(m)
      OBVIOUS
    <3>3. CASE m = 1
      <4>1. flat[1] = seqs[1] /\ seqs[1] \in Seq(S) /\ 1 \in DOMAIN seqs
        BY <1>1, <2>4, <3>2, <3>3
      <4>2. upTo(1) = ToSet(seqs[1])
        OBVIOUS
      <4> QED
        BY <3>2, <3>3, <4>1, <4>2 DEF Apart
    <3>4. CASE m > 1
      <4>1. m - 1 \in 1 .. n /\ ~ (m <= m - 1) /\ m \in DOMAIN seqs
        BY <1>1, <3>2, <3>4
      <4>2. Good(m - 1)
        BY <3>1, <4>1
      <4>3. flat[m] = flat[m - 1] \o seqs[m] /\ seqs[m] \in Seq(S)
        <5>1. m # 1
          BY <3>4
        <5> QED
          BY <1>1, <2>4, <3>2, <5>1
      <4>4. upTo(m) = upTo(m - 1) \cup ToSet(seqs[m])
        <5>1. 1 .. m = (1 .. m - 1) \cup {m}
          BY <3>2, <3>4
        <5> QED
          BY <5>1
      <4>5. Apart(seqs) => upTo(m - 1) \cap ToSet(seqs[m]) = {}
        <5>1. \A k \in 1 .. m - 1 : k \in DOMAIN seqs /\ k # m
          BY <1>1, <3>2
        <5> QED
          BY <4>1, <5>1 DEF Apart
      <4>6. Apart(seqs) => Distinct(seqs[m])
        BY <4>1 DEF Apart
      <4> HIDE DEF upTo
      <4> QED
        BY <3>2, <4>2, <4>3, <4>4, <4>5, <4>6, ConcatIs
    <3> QED
      BY <1>1, <3>2, <3>3, <3>4
  <2> QED
    BY <1>1, <2>3, <2>5
<1> QED
  BY <1>1, <1>2, <1>3

-----------------------------------------------------------------------------
(* Items and what is read of them.                                         *)
LEMMA Numbers ==
  /\ MaxFacts \in Nat /\ Threshold \in Nat /\ TargetTokens \in Nat
  /\ DefaultInput \in Nat /\ DefaultOutput \in Nat /\ MaxOutput \in Nat
  /\ OutputTokens \in Nat \ {0} /\ MinPreserve \in Nat \ {0}
  /\ SummaryCap \in Nat \ {0} /\ ItemCap \in Nat \ {0} /\ MaxDepth \in Nat \ {0}
  /\ KeepRecent \in Nat /\ KeepRecent >= MinPreserve
BY CompactionAssumption

LEMMA TalkIs ==
  ASSUME NEW says \in Seq(Facts)
  PROVE  /\ Talk(says) \in Items
         /\ Talk(says).kind = "talk" /\ Talk(says).says = says
         /\ Talk(says).call = NoCall
BY DEF Talk, Plain, Items, NoCall

LEMMA BlobIs ==
  ASSUME NEW engine \in {"v2", "v3"}, NEW depth \in 1 .. MaxDepth,
         NEW says \in Seq(Facts)
  PROVE  /\ Blob(engine, depth, says) \in Items
         /\ Blob(engine, depth, says).kind = "blob"
         /\ Blob(engine, depth, says).says = says
         /\ Blob(engine, depth, says).engine = engine
BY DEF Blob, Items, NoCall

LEMMA ItemIs ==
  ASSUME NEW i \in Items
  PROVE  /\ i.kind \in {"talk", "thought", "call", "output", "blob"}
         /\ i.says \in Seq(Facts)
         /\ i.kind \in {"call", "output"} => Len(i.says) = 1
         /\ i.kind = "call" => i.call \in Facts
         /\ i.kind = "blob" => i.depth \in 1 .. MaxDepth
<1>1. CASE i \in [kind : {"talk", "thought"}, call : {NoCall}, says : Seq(Facts)]
  BY <1>1
<1>2. CASE \/ i \in [kind : {"call"}, call : Facts, says : {<<f>> : f \in Facts}]
           \/ i \in [kind : {"output"}, call : Facts \cup {NoCall},
                     says : {<<f>> : f \in Facts}]
  <2>1. PICK f \in Facts : i.says = <<f>>
    BY <1>2
  <2>2. <<f>> \in Seq(Facts) /\ Len(<<f>>) = 1
    OBVIOUS
  <2> QED
    BY <1>2, <2>1, <2>2
<1>3. CASE i \in [kind : {"blob"}, call : {NoCall}, says : Seq(Facts),
                  engine : {"v2", "v3"}, depth : 1 .. MaxDepth]
  BY <1>3
<1> QED
  BY <1>1, <1>2, <1>3 DEF Items

(* Of an item that the model is given, all of the text is read; of another *)
(* none.                                                                   *)
LEMMA TextIs ==
  ASSUME NEW i \in Items
  PROVE  ItemText(i) = IF Dropped(i) THEN <<>> ELSE i.says
<1>1. CASE i.kind \in {"call", "output"}
  <2>1. i.says \in Seq(Facts) /\ Len(i.says) = 1
    BY <1>1, ItemIs
  <2>0. ItemCap \in Nat /\ 1 <= ItemCap
    BY Numbers
  <2>2. Take(i.says, ItemCap) = i.says
    BY <2>0, <2>1, TakeIs
  <2> QED
    BY <1>1, <2>2 DEF ItemText, Dropped
<1>2. CASE i.kind \in {"talk", "thought", "blob"}
  BY <1>2 DEF ItemText, Dropped
<1> QED
  BY <1>1, <1>2, ItemIs

(* The larger of one and a number.                                         *)
LEMMA WeightIs ==
  ASSUME NEW i \in Items
  PROVE  /\ Weight(i) \in Nat \ {0}
         /\ i.kind = "output" => Weight(i) = OutputTokens
         /\ i.kind # "output" /\ Len(i.says) <= 1 => Weight(i) = 1
         /\ i.kind = "blob" => Weight(i) = Max({1, Len(i.says)})
<1>1. /\ i.says \in Seq(Facts) /\ Len(i.says) \in Nat
  BY ItemIs, LenProperties
<1>2. Len(ItemText(i)) \in Nat /\ Len(ItemText(i)) <= Len(i.says)
  <2>1. Len(<<>>) = 0
    OBVIOUS
  <2> QED
    BY <1>1, <2>1, TextIs
<1>3. Max({1, Len(ItemText(i))}) =
        IF 1 <= Len(ItemText(i)) THEN Len(ItemText(i)) ELSE 1
  BY <1>2, OfTwo
<1>4. OutputTokens \in Nat \ {0}
  BY Numbers
<1>5. i.kind = "blob" => ItemText(i) = i.says
  BY TextIs DEF Dropped
<1>6. i.kind = "output" => Weight(i) = OutputTokens
  BY DEF Weight
<1>7. i.kind # "output" => Weight(i) = Max({1, Len(ItemText(i))})
  BY DEF Weight
<1> HIDE DEF Max
<1>8. i.kind # "output" => Weight(i) \in Nat \ {0}
  BY <1>2, <1>3, <1>7
<1>9. i.kind # "output" /\ Len(i.says) <= 1 => Weight(i) = 1
  BY <1>1, <1>2, <1>3, <1>7
<1> QED
  BY <1>4, <1>5, <1>6, <1>7, <1>8, <1>9

(* An item weighs no less than a message with the same text, if it is one  *)
(* that is turned into a message.                                          *)
LEMMA TalkWeighsLess ==
  ASSUME NEW i \in Items, i.kind \in {"output", "blob"}
  PROVE  Weight(Talk(i.says)) <= Weight(i)
<1>1. /\ i.says \in Seq(Facts) /\ Talk(i.says) \in Items
      /\ Talk(i.says).kind = "talk" /\ Talk(i.says).says = i.says
  BY ItemIs, TalkIs
<1>2. CASE i.kind = "output"
  <2>0. Len(i.says) = 1
    BY <1>2, ItemIs
  <2>1. Weight(Talk(i.says)) = 1
    <3> DEFINE talk == Talk(i.says)
    <3>1. talk \in Items /\ talk.kind # "output" /\ Len(talk.says) <= 1
      BY <1>1, <2>0
    <3> HIDE DEF talk
    <3> QED
      BY <3>1, WeightIs DEF talk
  <2>2. Weight(i) \in Nat \ {0}
    BY WeightIs
  <2> QED
    BY <2>1, <2>2
<1>3. CASE i.kind = "blob"
  <2>1. Weight(i) = Max({1, Len(i.says)}) /\ Weight(i) \in Nat \ {0}
    BY <1>3, WeightIs
  <2>2. Weight(Talk(i.says)) = Max({1, Len(ItemText(Talk(i.says)))})
    BY <1>1 DEF Weight
  <2>3. ItemText(Talk(i.says)) \in {<<>>, i.says}
    BY <1>1, TextIs
  <2>4. Len(<<>>) = 0 /\ Max({1, 0}) = 1
    BY OfTwo
  <2> HIDE DEF Max
  <2>5. CASE ItemText(Talk(i.says)) = <<>>
    BY <2>1, <2>2, <2>4, <2>5
  <2>6. CASE ItemText(Talk(i.says)) = i.says
    BY <2>1, <2>2, <2>6
  <2> QED
    BY <2>3, <2>5, <2>6
<1> QED
  BY <1>2, <1>3

-----------------------------------------------------------------------------
(* What is made of a history before it is read.                            *)
LEMMA TailStartIs ==
  ASSUME NEW s \in Seq(Items)
  PROVE  /\ TailStart(s) \in Nat \ {0}
         /\ TailStart(s) # 1 => /\ TailStart(s) \in 1 .. Len(s)
                                /\ TailStart(s) <= Len(s) - KeepRecent + 1
                                /\ ~ ToolLike(s[TailStart(s)])
         /\ TailStart(s) = 1 \/ TailStart(s) <= Len(s) - MinPreserve + 1
<1>1. Len(s) \in Nat /\ KeepRecent \in Nat \ {0} /\ MinPreserve \in Nat /\ KeepRecent >= MinPreserve
  BY Numbers, LenProperties
<1>2. CASE Len(s) <= KeepRecent
  BY <1>2 DEF TailStart
<1>3. CASE ~ (Len(s) <= KeepRecent)
  <2> DEFINE talks == {k \in 1 .. Len(s) - KeepRecent + 1 : ~ ToolLike(s[k])}
             starts == {1} \cup talks
  <2>1. Len(s) - KeepRecent + 1 \in 1 .. Len(s)
    BY <1>1, <1>3
  <2>2. starts \subseteq Nat /\ starts # {} /\ \A x \in starts : x <= Len(s)
    BY <1>1, <2>1
  <2>3. TailStart(s) = Max(starts)
    BY <1>3 DEF TailStart
  <2>4. Max(starts) \in starts
    <3> HIDE DEF starts
    <3> QED
      BY <1>1, <2>2, GreatestOf
  <2>5. TailStart(s) \in starts
    BY <2>3, <2>4
  <2> DEFINE t == TailStart(s)
  <2> HIDE DEF t
  <2>6. t = 1 \/ t \in talks
    BY <2>5 DEF t
  <2>7. CASE t = 1
    BY <2>7 DEF t
  <2>8. CASE t \in talks
    <3>1. t \in 1 .. Len(s) /\ t <= Len(s) - KeepRecent + 1 /\ ~ ToolLike(s[t])
      BY <1>1, <2>1, <2>8
    <3>2. t <= Len(s) - MinPreserve + 1 /\ t \in Nat \ {0}
      BY <1>1, <3>1
    <3> QED
      BY <3>1, <3>2 DEF t
  <2> QED
    BY <2>6, <2>7, <2>8
<1> QED
  BY <1>2, <1>3

LEMMA MicrocompactIs ==
  ASSUME NEW s \in Seq(Items)
  PROVE  /\ Microcompact(s) \in Seq(Items) /\ Len(Microcompact(s)) = Len(s)
         /\ \A k \in 1 .. Len(s) :
              Microcompact(s)[k] =
                IF k < TailStart(s) /\ s[k].kind = "output"
                THEN Talk(s[k].says) ELSE s[k]
<1> DEFINE n == Len(s)
           item(k) == IF k < TailStart(s) /\ s[k].kind = "output"
                      THEN Talk(s[k].says) ELSE s[k]
           f == [k \in 1 .. n |-> item(k)]
<1>1. n \in Nat /\ DOMAIN s = 1 .. n /\ \A k \in 1 .. n : s[k] \in Items
  BY LenProperties, ElementOfSeq
<1>2. Microcompact(s) = <<>> \o f
  BY <1>1 DEF Microcompact
<1>3. \A k \in 1 .. n : item(k) \in Items
  BY <1>1, ItemIs, TalkIs
<1>4. f \in [1 .. n -> Items]
  BY <1>3
<1>5. \A k \in 1 .. n : f[k] = item(k)
  OBVIOUS
<1> HIDE DEF f
<1>6. <<>> \o f = f /\ f \in Seq(Items) /\ Len(f) = n
  BY <1>1, <1>4, Evaluated
<1> QED
  BY <1>2, <1>5, <1>6

LEMMA ExpandIs ==
  ASSUME NEW s \in Seq(Items)
  PROVE  /\ Expand(s) \in Seq(Items) /\ Len(Expand(s)) = Len(s)
         /\ \A k \in 1 .. Len(s) :
              Expand(s)[k] = IF IsBlob(s[k]) THEN Talk(s[k].says) ELSE s[k]
<1> DEFINE n == Len(s)
           item(k) == IF IsBlob(s[k]) THEN Talk(s[k].says) ELSE s[k]
           f == [k \in 1 .. n |-> item(k)]
<1>1. n \in Nat /\ DOMAIN s = 1 .. n /\ \A k \in 1 .. n : s[k] \in Items
  BY LenProperties, ElementOfSeq
<1>2. Expand(s) = <<>> \o f
  BY <1>1 DEF Expand
<1>3. \A k \in 1 .. n : item(k) \in Items
  BY <1>1, ItemIs, TalkIs
<1>4. f \in [1 .. n -> Items]
  BY <1>3
<1>5. \A k \in 1 .. n : f[k] = item(k)
  OBVIOUS
<1> HIDE DEF f
<1>6. <<>> \o f = f /\ f \in Seq(Items) /\ Len(f) = n
  BY <1>1, <1>4, Evaluated
<1> QED
  BY <1>2, <1>5, <1>6

(* What a text is made from: nothing but the harness's own and the         *)
(* thoughts is left out, and nothing changes its place.                    *)
LEMMA ShownIs ==
  ASSUME NEW s \in Seq(Items)
  PROVE  /\ Shown(s) \in Seq(Items)
         /\ \E w \in [DOMAIN Shown(s) -> DOMAIN s] :
              /\ \A k \in DOMAIN Shown(s) : Shown(s)[k] = s[w[k]] /\ ~ Dropped(s[w[k]])
              /\ \A j, k \in DOMAIN Shown(s) : j < k => w[j] < w[k]
              /\ \A k \in DOMAIN s : Dropped(s[k]) \/ \E j \in DOMAIN Shown(s) : w[j] = k
<1> DEFINE K == {k \in DOMAIN s : ~ Dropped(s[k])}
           n == Cardinality(K)
           w == [i \in 1 .. n |-> InOrder(K)[i]]
<1>1. K \in SUBSET DOMAIN s
  OBVIOUS
<1>2. Shown(s) = Kept(s, K)
  BY DEF Shown
<1>3. /\ Shown(s) \in Seq(Items) /\ Len(Shown(s)) = n /\ n \in Nat
      /\ \A i \in 1 .. n : InOrder(K)[i] \in K /\ Shown(s)[i] = s[InOrder(K)[i]]
      /\ \A i, j \in 1 .. n : i < j => InOrder(K)[i] < InOrder(K)[j]
      /\ \A k \in K : \E i \in 1 .. n : InOrder(K)[i] = k
  <2> HIDE DEF K
  <2> QED
    BY <1>1, <1>2, KeptIs
<1>4. DOMAIN Shown(s) = 1 .. n
  BY <1>3, LenProperties
<1>5. \A i \in 1 .. n : InOrder(K)[i] \in DOMAIN s /\ ~ Dropped(s[InOrder(K)[i]])
  BY <1>3
<1>6. \A i \in 1 .. n : w[i] = InOrder(K)[i]
  OBVIOUS
<1>7. w \in [1 .. n -> DOMAIN s]
  BY <1>5
<1>8. \A k \in DOMAIN s : Dropped(s[k]) \/ \E j \in 1 .. n : w[j] = k
  BY <1>3, <1>6
<1> HIDE DEF w, K, n
<1>9. /\ \A k \in 1 .. n : Shown(s)[k] = s[w[k]] /\ ~ Dropped(s[w[k]])
      /\ \A j, k \in 1 .. n : j < k => w[j] < w[k]
  BY <1>3, <1>5, <1>6
<1>10. /\ w \in [DOMAIN Shown(s) -> DOMAIN s]
       /\ \A k \in DOMAIN Shown(s) : Shown(s)[k] = s[w[k]] /\ ~ Dropped(s[w[k]])
       /\ \A j, k \in DOMAIN Shown(s) : j < k => w[j] < w[k]
       /\ \A k \in DOMAIN s : Dropped(s[k]) \/ \E j \in DOMAIN Shown(s) : w[j] = k
  BY <1>4, <1>7, <1>8, <1>9
<1> QED
  BY <1>3, <1>10

-----------------------------------------------------------------------------
(* What every step of the making of a text leaves as it was: no fact is    *)
(* said twice, and nothing but calls and outputs is between a call and its *)
(* output.                                                                 *)
Tidy(s) ==
  /\ \A k \in DOMAIN s : Distinct(s[k].says)
  /\ \A j, k \in DOMAIN s : j # k => ToSet(s[j].says) \cap ToSet(s[k].says) = {}

Called(s, j, k) ==
  /\ s[j].kind = "call" /\ s[j].call = s[k].call
  /\ \A l \in j .. k : ToolLike(s[l])

(* An output of a call of the client's.                                   *)
AnswersCall(i) == i.kind = "output" /\ i.call # NoCall

Runs(s, gone) ==
  \A k \in DOMAIN s :
    AnswersCall(s[k]) => s[k].call \in gone \/ \E j \in 1 .. k : Called(s, j, k)

NoBlobs(s) == \A k \in DOMAIN s : ~ IsBlob(s[k])

LEMMA PartOf ==
  ASSUME NEW s, NEW t, NEW w \in [DOMAIN t -> DOMAIN s],
         \A k \in DOMAIN t : t[k].says = s[w[k]].says,
         \A j, k \in DOMAIN t : j # k => w[j] # w[k]
  PROVE  /\ FactsOf(t) \subseteq FactsOf(s)
         /\ Tidy(s) => Tidy(t)
<1>1. \A k \in DOMAIN t : w[k] \in DOMAIN s
  OBVIOUS
<1>2. FactsOf(t) \subseteq FactsOf(s)
  <2>1. ASSUME NEW k \in DOMAIN t PROVE ToSet(t[k].says) \subseteq FactsOf(s)
    <3>1. ToSet(t[k].says) = ToSet(s[w[k]].says) /\ w[k] \in DOMAIN s
      BY <1>1
    <3> QED
      BY <3>1 DEF FactsOf
  <2> QED
    BY <2>1 DEF FactsOf
<1>3. ASSUME Tidy(s) PROVE Tidy(t)
  <2>1. \A k \in DOMAIN t : Distinct(t[k].says)
    <3>1. ASSUME NEW k \in DOMAIN t PROVE Distinct(t[k].says)
      <4>1. t[k].says = s[w[k]].says /\ w[k] \in DOMAIN s
        BY <1>1
      <4> QED
        BY <1>3, <4>1 DEF Tidy
    <3> QED
      BY <3>1
  <2>2. ASSUME NEW j \in DOMAIN t, NEW k \in DOMAIN t, j # k
        PROVE  ToSet(t[j].says) \cap ToSet(t[k].says) = {}
    <3>1. /\ t[j].says = s[w[j]].says /\ t[k].says = s[w[k]].says
          /\ w[j] \in DOMAIN s /\ w[k] \in DOMAIN s /\ w[j] # w[k]
      BY <1>1, <2>2
    <3> QED
      BY <1>3, <3>1 DEF Tidy
  <2> QED
    BY <2>1, <2>2 DEF Tidy
<1> QED
  BY <1>2, <1>3

(* A change of items that leaves what they say.                            *)
LEMMA SameSays ==
  ASSUME NEW s \in Seq(Items), NEW t \in Seq(Items), Len(t) = Len(s),
         \A k \in 1 .. Len(s) : t[k].says = s[k].says
  PROVE  FactsOf(t) = FactsOf(s) /\ (Tidy(s) => Tidy(t))
<1> DEFINE n == Len(s)
           w == [k \in 1 .. n |-> k]
<1>1. DOMAIN s = 1 .. n /\ DOMAIN t = 1 .. n
  BY LenProperties
<1>2. w \in [1 .. n -> 1 .. n] /\ \A k \in 1 .. n : w[k] = k
  OBVIOUS
<1>3. \A k \in 1 .. n : t[k].says = s[k].says
  OBVIOUS
<1> HIDE DEF w, n
<1>4. FactsOf(t) \subseteq FactsOf(s) /\ (Tidy(s) => Tidy(t))
  <2>1. /\ w \in [DOMAIN t -> DOMAIN s]
        /\ \A k \in DOMAIN t : t[k].says = s[w[k]].says
        /\ \A j, k \in DOMAIN t : j # k => w[j] # w[k]
    BY <1>1, <1>2, <1>3
  <2> QED
    BY <2>1, PartOf
<1>5. FactsOf(s) \subseteq FactsOf(t)
  <2>1. /\ w \in [DOMAIN s -> DOMAIN t]
        /\ \A k \in DOMAIN s : s[k].says = t[w[k]].says
        /\ \A j, k \in DOMAIN s : j # k => w[j] # w[k]
    BY <1>1, <1>2, <1>3
  <2> QED
    BY <2>1, PartOf
<1> QED
  BY <1>4, <1>5

LEMMA MicrocompactKeeps ==
  ASSUME NEW s \in Seq(Items), NEW gone
  PROVE  /\ FactsOf(Microcompact(s)) = FactsOf(s)
         /\ Tidy(s) => Tidy(Microcompact(s))
         /\ NoBlobs(s) => NoBlobs(Microcompact(s))
         /\ Runs(s, gone) => Runs(Microcompact(s), gone)
<1> DEFINE n == Len(s)
           m == Microcompact(s)
           t == TailStart(s)
<1>1. /\ m \in Seq(Items) /\ Len(m) = n
      /\ \A k \in 1 .. n : m[k] = IF k < t /\ s[k].kind = "output"
                                  THEN Talk(s[k].says) ELSE s[k]
  BY MicrocompactIs
<1>2. n \in Nat /\ DOMAIN s = 1 .. n /\ DOMAIN m = 1 .. n /\ \A k \in 1 .. n : s[k] \in Items
  BY <1>1, LenProperties, ElementOfSeq
<1>3. \A k \in 1 .. n : /\ Talk(s[k].says).says = s[k].says
                        /\ Talk(s[k].says).kind = "talk"
  BY <1>2, ItemIs, TalkIs
<1>4. t \in Nat \ {0} /\ (t # 1 => t \in 1 .. n /\ ~ ToolLike(s[t]))
  BY TailStartIs
<1> HIDE DEF m, n, t
<1>5. \A k \in 1 .. n : m[k].says = s[k].says
  BY <1>1, <1>3
<1>6. FactsOf(m) = FactsOf(s) /\ (Tidy(s) => Tidy(m))
  BY <1>1, <1>5, SameSays DEF n
<1>7. NoBlobs(s) => NoBlobs(m)
  BY <1>1, <1>2, <1>3 DEF NoBlobs, IsBlob
<1>8. ASSUME Runs(s, gone) PROVE Runs(m, gone)
  <2> SUFFICES ASSUME NEW k \in 1 .. n, AnswersCall(m[k]), m[k].call \notin gone
               PROVE  \E j \in 1 .. k : Called(m, j, k)
    BY <1>2 DEF Runs
  <2>1. t <= k /\ m[k] = s[k]
    BY <1>1, <1>3, <1>4 DEF AnswersCall
  <2>2. PICK j \in 1 .. k : Called(s, j, k)
    BY <1>2, <1>8, <2>1 DEF Runs
  <2>3. t <= j
    <3>1. SUFFICES ASSUME j < t PROVE FALSE
      BY <1>4
    <3>2. t # 1 /\ t \in j .. k
      BY <1>4, <2>1, <3>1
    <3> QED
      BY <1>4, <2>2, <3>2 DEF Called
  <2>4. \A l \in j .. k : l \in 1 .. n /\ ~ (l < t)
    BY <1>2, <1>4, <2>3
  <2>5. \A l \in j .. k : m[l] = s[l]
    BY <1>1, <2>4
  <2>6. j \in j .. k /\ k \in j .. k
    OBVIOUS
  <2>7. Called(m, j, k)
    BY <2>2, <2>5, <2>6 DEF Called
  <2> QED
    BY <2>7
<1> QED
  BY <1>6, <1>7, <1>8 DEF m

LEMMA ExpandKeeps ==
  ASSUME NEW s \in Seq(Items), NEW gone
  PROVE  /\ FactsOf(Expand(s)) = FactsOf(s)
         /\ Tidy(s) => Tidy(Expand(s))
         /\ NoBlobs(Expand(s))
         /\ Runs(s, gone) => Runs(Expand(s), gone)
<1> DEFINE n == Len(s)
           m == Expand(s)
<1>1. /\ m \in Seq(Items) /\ Len(m) = n
      /\ \A k \in 1 .. n : m[k] = IF IsBlob(s[k]) THEN Talk(s[k].says) ELSE s[k]
  BY ExpandIs
<1>2. n \in Nat /\ DOMAIN s = 1 .. n /\ DOMAIN m = 1 .. n /\ \A k \in 1 .. n : s[k] \in Items
  BY <1>1, LenProperties, ElementOfSeq
<1>3. \A k \in 1 .. n : /\ Talk(s[k].says).says = s[k].says
                        /\ Talk(s[k].says).kind = "talk"
  BY <1>2, ItemIs, TalkIs
<1> HIDE DEF m, n
<1>5. \A k \in 1 .. n : m[k].says = s[k].says
  BY <1>1, <1>3
<1>6. FactsOf(m) = FactsOf(s) /\ (Tidy(s) => Tidy(m))
  BY <1>1, <1>5, SameSays DEF n
<1>7. NoBlobs(m)
  BY <1>1, <1>2, <1>3 DEF NoBlobs, IsBlob
<1>8. ASSUME Runs(s, gone) PROVE Runs(m, gone)
  <2>1. \A l \in 1 .. n : ToolLike(s[l]) \/ ToolLike(m[l]) => m[l] = s[l]
    BY <1>1, <1>3 DEF ToolLike, IsBlob
  <2> SUFFICES ASSUME NEW k \in 1 .. n, AnswersCall(m[k]), m[k].call \notin gone
               PROVE  \E j \in 1 .. k : Called(m, j, k)
    BY <1>2 DEF Runs
  <2>2. m[k] = s[k]
    BY <2>1 DEF ToolLike, AnswersCall
  <2>3. PICK j \in 1 .. k : Called(s, j, k)
    BY <1>2, <1>8, <2>2 DEF Runs
  <2>4. \A l \in j .. k : l \in 1 .. n /\ ToolLike(s[l])
    BY <1>2, <2>3 DEF Called
  <2>5. \A l \in j .. k : m[l] = s[l]
    BY <2>1, <2>4
  <2>6. j \in j .. k /\ k \in j .. k
    OBVIOUS
  <2>7. Called(m, j, k)
    BY <2>3, <2>5, <2>6 DEF Called
  <2> QED
    BY <2>7
<1> QED
  BY <1>6, <1>7, <1>8 DEF m

LEMMA ShownKeeps ==
  ASSUME NEW s \in Seq(Items), NEW gone
  PROVE  /\ FactsOf(Shown(s)) \subseteq FactsOf(s)
         /\ Tidy(s) => Tidy(Shown(s))
         /\ NoBlobs(s) => NoBlobs(Shown(s))
         /\ Runs(s, gone) => Runs(Shown(s), gone)
<1> DEFINE m == Shown(s)
<1>1. PICK w \in [DOMAIN m -> DOMAIN s] :
        /\ \A k \in DOMAIN m : m[k] = s[w[k]] /\ ~ Dropped(s[w[k]])
        /\ \A j, k \in DOMAIN m : j < k => w[j] < w[k]
        /\ \A k \in DOMAIN s : Dropped(s[k]) \/ \E j \in DOMAIN m : w[j] = k
  BY ShownIs
<1>2. m \in Seq(Items)
  BY ShownIs
<1> DEFINE n == Len(m)
<1>3. n \in Nat /\ DOMAIN m = 1 .. n /\ Len(s) \in Nat /\ DOMAIN s = 1 .. Len(s)
  BY <1>2, LenProperties
<1> HIDE DEF m, n
<1>4. \A k \in DOMAIN m : w[k] \in DOMAIN s
  BY <1>1
<1>5. \A j, k \in DOMAIN m : j # k => w[j] # w[k]
  <2>1. ASSUME NEW j \in DOMAIN m, NEW k \in DOMAIN m, j # k
        PROVE  w[j] # w[k]
    <3>1. j \in Nat /\ k \in Nat /\ w[j] \in Nat /\ w[k] \in Nat
      BY <1>3, <1>4
    <3>2. j < k \/ k < j
      BY <2>1, <3>1
    <3>3. w[j] < w[k] \/ w[k] < w[j]
      BY <1>1, <3>2
    <3> QED
      BY <3>1, <3>3
  <2> QED
    BY <2>1
<1>6. FactsOf(m) \subseteq FactsOf(s) /\ (Tidy(s) => Tidy(m))
  <2>1. \A k \in DOMAIN m : m[k].says = s[w[k]].says
    BY <1>1
  <2> QED
    BY <1>5, <2>1, PartOf
<1>7. NoBlobs(s) => NoBlobs(m)
  BY <1>1, <1>4 DEF NoBlobs
<1>8. ASSUME Runs(s, gone) PROVE Runs(m, gone)
  <2> SUFFICES ASSUME NEW k \in DOMAIN m, AnswersCall(m[k]), m[k].call \notin gone
               PROVE  \E j \in 1 .. k : Called(m, j, k)
    BY DEF Runs
  <2>1. m[k] = s[w[k]] /\ w[k] \in DOMAIN s
    BY <1>1, <1>4
  <2>2. PICK j \in 1 .. w[k] : Called(s, j, w[k])
    BY <1>8, <2>1 DEF Runs
  <2>3. j \in DOMAIN s /\ ~ Dropped(s[j])
    BY <1>3, <2>1, <2>2 DEF Called, Dropped
  <2>4. PICK i \in DOMAIN m : w[i] = j
    BY <1>1, <2>3
  <2>5. ASSUME NEW a \in DOMAIN m, NEW b \in DOMAIN m, w[a] <= w[b]
        PROVE  a <= b
    <3>1. a \in Nat /\ b \in Nat /\ w[a] \in Nat /\ w[b] \in Nat
      BY <1>3, <1>4
    <3>2. b < a => w[b] < w[a]
      BY <1>1
    <3> QED
      BY <2>5, <3>1, <3>2
  <2>6. i \in 1 .. k
    <3>1. w[i] <= w[k]
      BY <1>3, <2>1, <2>2, <2>4
    <3>2. i <= k
      BY <2>5, <3>1
    <3> QED
      BY <1>3, <3>2
  <2>7. ASSUME NEW l \in i .. k PROVE ToolLike(m[l])
    <3>1. l \in DOMAIN m /\ i \in Nat /\ l \in Nat /\ k \in Nat
      BY <1>3, <2>6
    <3>2. w[l] \in Nat /\ w[i] \in Nat /\ w[k] \in Nat
      BY <1>3, <1>4, <3>1
    <3>3. w[i] <= w[l]
      <4>1. i = l \/ i < l
        BY <3>1
      <4>2. i < l => w[i] < w[l]
        BY <1>1, <3>1
      <4> QED
        BY <3>2, <4>1, <4>2
    <3>4. w[l] <= w[k]
      <4>1. l = k \/ l < k
        BY <3>1
      <4>2. l < k => w[l] < w[k]
        BY <1>1, <3>1
      <4> QED
        BY <3>2, <4>1, <4>2
    <3>5. w[l] \in j .. w[k]
      BY <2>4, <3>2, <3>3, <3>4
    <3>6. ToolLike(s[w[l]])
      BY <2>2, <3>5 DEF Called
    <3> QED
      BY <1>1, <3>1, <3>6
  <2>8. m[i] = s[j]
    BY <1>1, <2>4
  <2>9. Called(m, i, k)
    BY <2>1, <2>2, <2>7, <2>8 DEF Called
  <2> QED
    BY <2>6, <2>9
<1> QED
  BY <1>6, <1>7, <1>8 DEF m

(* What is left of a history from some place on.                           *)
LEMMA RestIs ==
  ASSUME NEW s \in Seq(Items), NEW a \in Nat \ {0}, a <= Len(s) + 1
  PROVE  /\ SubSeq(s, a, Len(s)) \in Seq(Items)
         /\ Len(SubSeq(s, a, Len(s))) = Len(s) - a + 1
         /\ Len(s) - a + 1 \in Nat
         /\ \A k \in 1 .. Len(s) - a + 1 :
              /\ SubSeq(s, a, Len(s))[k] = s[a + k - 1]
              /\ a + k - 1 \in a .. Len(s)
<1> DEFINE n == Len(s)
<1>1. n \in Nat /\ DOMAIN s = 1 .. n /\ \A k \in 1 .. n : s[k] \in Items
  BY LenProperties, ElementOfSeq
<1>2. \A k \in a .. n : s[k] \in Items
  BY <1>1
<1>3. n - a + 1 \in Nat /\ a \in Int /\ n \in Int
  BY <1>1
<1>4. \A k \in 1 .. n - a + 1 : a + k - 1 \in a .. n
  BY <1>1
<1>5. (IF a <= n THEN n - a + 1 ELSE 0) = n - a + 1
  BY <1>1
<1> HIDE DEF n
<1>6. /\ SubSeq(s, a, n) \in Seq(Items)
      /\ Len(SubSeq(s, a, n)) = IF a <= n THEN n - a + 1 ELSE 0
      /\ \A i \in 1 .. n - a + 1 : SubSeq(s, a, n)[i] = s[a + i - 1]
  BY <1>2, <1>3, SubSeqProperties
<1> QED
  BY <1>3, <1>4, <1>5, <1>6 DEF n

LEMMA RestKeeps ==
  ASSUME NEW s \in Seq(Items), NEW a \in Nat \ {0}, a <= Len(s) + 1
  PROVE  /\ FactsOf(SubSeq(s, a, Len(s))) \subseteq FactsOf(s)
         /\ Tidy(s) => Tidy(SubSeq(s, a, Len(s)))
         /\ NoBlobs(s) => NoBlobs(SubSeq(s, a, Len(s)))
<1> DEFINE n == Len(s) - a + 1
           m == SubSeq(s, a, Len(s))
           w == [k \in 1 .. n |-> a + k - 1]
<1>1. /\ m \in Seq(Items) /\ Len(m) = n /\ n \in Nat
      /\ \A k \in 1 .. n : m[k] = s[a + k - 1] /\ a + k - 1 \in a .. Len(s)
  BY RestIs
<1>2. DOMAIN m = 1 .. n /\ DOMAIN s = 1 .. Len(s) /\ Len(s) \in Nat
  BY <1>1, LenProperties
<1>3. \A k \in 1 .. n : a + k - 1 \in 1 .. Len(s)
  BY <1>1, <1>2
<1>4. /\ w \in [1 .. n -> 1 .. Len(s)]
      /\ \A k \in 1 .. n : w[k] = a + k - 1
      /\ \A j, k \in 1 .. n : j # k => w[j] # w[k]
  BY <1>3
<1> HIDE DEF w, n, m
<1>5. /\ w \in [DOMAIN m -> DOMAIN s]
      /\ \A k \in DOMAIN m : m[k] = s[w[k]]
      /\ \A j, k \in DOMAIN m : j # k => w[j] # w[k]
  BY <1>1, <1>2, <1>4
<1>6. FactsOf(m) \subseteq FactsOf(s) /\ (Tidy(s) => Tidy(m))
  BY <1>5, PartOf
<1>7. NoBlobs(s) => NoBlobs(m)
  BY <1>5 DEF NoBlobs
<1> QED
  BY <1>6, <1>7 DEF m

(* The calls before that place are gone, or there are none of a run.       *)
LEMMA RestRuns ==
  ASSUME NEW s \in Seq(Items), NEW a \in Nat \ {0}, a <= Len(s) + 1,
         NEW gone, NEW more, Runs(s, gone), gone \subseteq more,
         a = 1 \/ (a <= Len(s) /\ ~ ToolLike(s[a])) \/ CallsOf(SubSeq(s, 1, a - 1)) \subseteq more
  PROVE  Runs(SubSeq(s, a, Len(s)), more)
<1> DEFINE n == Len(s) - a + 1
           m == SubSeq(s, a, Len(s))
           b == a - 1
<1>1. /\ m \in Seq(Items) /\ Len(m) = n /\ n \in Nat
      /\ \A k \in 1 .. n : m[k] = s[a + k - 1] /\ a + k - 1 \in a .. Len(s)
  BY RestIs
<1>2. DOMAIN m = 1 .. n /\ DOMAIN s = 1 .. Len(s) /\ Len(s) \in Nat
  BY <1>1, LenProperties
<1>0. b \in Nat /\ a = b + 1 /\ b <= Len(s) /\ n = Len(s) - b
  BY <1>2
<1> HIDE DEF m, n, b
<1>3. \A k \in 1 .. n : m[k] = s[b + k] /\ b + k \in 1 .. Len(s)
  <2>1. ASSUME NEW k \in 1 .. n PROVE a + k - 1 = b + k /\ a + k - 1 \in 1 .. Len(s)
    BY <1>0, <1>1, <1>2
  <2> QED
    BY <1>1, <2>1
<1> SUFFICES ASSUME NEW k \in 1 .. n, AnswersCall(m[k]), m[k].call \notin more
             PROVE  \E j \in 1 .. k : Called(m, j, k)
  BY <1>2 DEF Runs, m
<1>4. m[k] = s[b + k] /\ b + k \in DOMAIN s /\ m[k].call \notin gone
  BY <1>2, <1>3
<1>5. PICK j \in 1 .. b + k : Called(s, j, b + k)
  BY <1>4 DEF Runs
<1>6. j >= a
  <2> SUFFICES ASSUME j < a PROVE FALSE
    BY <1>0
  <2>1. j \in 1 .. b /\ a # 1 /\ a \in j .. b + k
    BY <1>0, <1>1
  <2>2. CASE ~ ToolLike(s[a])
    BY <1>5, <2>1, <2>2 DEF Called
  <2>3. CASE CallsOf(SubSeq(s, 1, a - 1)) \subseteq more
    <3>1. SubSeq(s, 1, b) \in Seq(Items) /\ Len(SubSeq(s, 1, b)) = b
          /\ \A i \in 1 .. b : SubSeq(s, 1, b)[i] = s[i]
      <4>1. \A i \in 1 .. b : s[i] \in Items
        BY <1>0, <1>2, ElementOfSeq
      <4> QED
        BY <1>0, <4>1, SubSeqProperties
    <3>2. DOMAIN SubSeq(s, 1, b) = 1 .. b
      BY <3>1, LenProperties
    <3>3. SubSeq(s, 1, b)[j].kind = "call" /\ SubSeq(s, 1, b)[j].call = m[k].call
      BY <1>4, <1>5, <2>1, <3>1 DEF Called
    <3>4. m[k].call \in CallsOf(SubSeq(s, 1, b))
      BY <2>1, <3>2, <3>3 DEF CallsOf
    <3> QED
      BY <2>3, <3>4 DEF b
  <2> QED
    BY <2>1, <2>2, <2>3
<1> DEFINE i == j - b
<1>7. i \in 1 .. k /\ b + i = j /\ i \in 1 .. n
  BY <1>0, <1>1, <1>5, <1>6
<1> HIDE DEF i
<1>8. ASSUME NEW l \in i .. k PROVE ToolLike(m[l])
  <2>1. l \in 1 .. n /\ b + l \in j .. b + k
    BY <1>0, <1>1, <1>7
  <2> QED
    BY <1>3, <1>5, <2>1 DEF Called
<1>9. Called(m, i, k)
  BY <1>3, <1>4, <1>5, <1>7, <1>8 DEF Called
<1> QED
  BY <1>7, <1>9

-----------------------------------------------------------------------------
(* The texts of summaries.                                                 *)
LEMMA TakeKeeps ==
  ASSUME NEW S, NEW s \in Seq(S), NEW n \in Nat, Distinct(s)
  PROVE  Distinct(Take(s, n))
<1>1. /\ Take(s, n) \in Seq(S) /\ Len(s) \in Nat
      /\ Len(Take(s, n)) \in Nat /\ Len(Take(s, n)) <= Len(s)
      /\ \A i \in 1 .. Len(Take(s, n)) : Take(s, n)[i] = s[i]
  BY TakeIs, LenProperties
<1>2. DOMAIN Take(s, n) = 1 .. Len(Take(s, n)) /\ DOMAIN s = 1 .. Len(s)
  BY <1>1, LenProperties
<1>3. \A i \in DOMAIN Take(s, n) : i \in DOMAIN s
  BY <1>1, <1>2
<1> QED
  BY <1>1, <1>2, <1>3 DEF Distinct

LEMMA KeptKeeps ==
  ASSUME NEW S, NEW s \in Seq(S), NEW K \in SUBSET DOMAIN s
  PROVE  /\ ToSet(Kept(s, K)) = {s[k] : k \in K}
         /\ Distinct(s) => Distinct(Kept(s, K))
<1> DEFINE m == Kept(s, K)
           n == Cardinality(K)
           w == [i \in 1 .. n |-> InOrder(K)[i]]
<1>1. /\ m \in Seq(S) /\ Len(m) = n /\ n \in Nat
      /\ \A i \in 1 .. n : InOrder(K)[i] \in K /\ m[i] = s[InOrder(K)[i]]
      /\ \A i, j \in 1 .. n : i < j => InOrder(K)[i] < InOrder(K)[j]
      /\ \A k \in K : \E i \in 1 .. n : InOrder(K)[i] = k /\ m[i] = s[k]
  BY KeptIs
<1>2. DOMAIN m = 1 .. n /\ DOMAIN s = 1 .. Len(s)
  BY <1>1, LenProperties
<1> HIDE DEF m, n
<1>3. ToSet(m) = {s[k] : k \in K}
  <2>1. ToSet(m) = {m[i] : i \in 1 .. n}
    BY <1>2 DEF ToSet
  <2> QED
    BY <1>1, <2>1
<1>4. ASSUME Distinct(s) PROVE Distinct(m)
  <2>1. ASSUME NEW i \in 1 .. n, NEW j \in 1 .. n, m[i] = m[j]
        PROVE  i = j
    <3>1. /\ InOrder(K)[i] \in DOMAIN s /\ InOrder(K)[j] \in DOMAIN s
          /\ s[InOrder(K)[i]] = s[InOrder(K)[j]]
      BY <1>1, <2>1
    <3>2. InOrder(K)[i] = InOrder(K)[j]
      BY <1>4, <3>1 DEF Distinct
    <3>3. i \in Nat /\ j \in Nat /\ InOrder(K)[i] \in Nat
      BY <1>2, <3>1
    <3>4. ~ (i < j) /\ ~ (j < i)
      BY <1>1, <3>2, <3>3
    <3> QED
      BY <3>3, <3>4
  <2> QED
    BY <1>2, <2>1 DEF Distinct
<1> QED
  BY <1>3, <1>4 DEF m

(* As many facts as a sequence in which none is said twice is long.        *)
LEMMA LengthOfDistinct ==
  ASSUME NEW S, NEW s \in Seq(S), Distinct(s)
  PROVE  IsFiniteSet(ToSet(s)) /\ Cardinality(ToSet(s)) = Len(s)
<1> DEFINE n == Len(s)
           f == [i \in 1 .. n |-> s[i]]
<1>1. n \in Nat /\ DOMAIN s = 1 .. n
  BY LenProperties
<1>2. ToSet(s) = {s[i] : i \in 1 .. n}
  BY <1>1 DEF ToSet
<1>3. f \in Bijection(1 .. n, ToSet(s))
  <2>1. f \in [1 .. n -> ToSet(s)]
    BY <1>2
  <2>2. \A i \in 1 .. n : f[i] = s[i]
    OBVIOUS
  <2> HIDE DEF f
  <2>3. \A a, b \in 1 .. n : f[a] = f[b] => a = b
    BY <1>1, <2>2 DEF Distinct
  <2>4. \A y \in ToSet(s) : \E a \in 1 .. n : f[a] = y
    BY <1>2, <2>2
  <2> QED
    BY <2>1, <2>3, <2>4, Fun_IsBij
<1>4. IsFiniteSet(1 .. n) /\ Cardinality(1 .. n) = n
  BY <1>1, FS_Interval
<1> HIDE DEF f, n
<1>5. f \in Surjection(1 .. n, ToSet(s)) /\ f \in Injection(1 .. n, ToSet(s))
  BY <1>3 DEF Bijection
<1> QED
  BY <1>4, <1>5, FS_Surjection DEF n

LEMMA TextKeeps ==
  ASSUME NEW i \in Items
  PROVE  /\ ItemText(i) \in Seq(Facts)
         /\ ToSet(ItemText(i)) \subseteq ToSet(i.says)
         /\ Distinct(i.says) => Distinct(ItemText(i))
<1>1. i.says \in Seq(Facts) /\ <<>> \in Seq(Facts)
  BY ItemIs
<1>2. ToSet(<<>>) = {} /\ Distinct(<<>>)
  BY DEF ToSet, Distinct
<1> QED
  BY <1>1, <1>2, TextIs

LEMMA JoinedTexts ==
  ASSUME NEW s \in Seq(Items), NEW f \in [DOMAIN s -> Seq(Facts)],
         \A k \in DOMAIN s : ToSet(f[k]) \subseteq ToSet(s[k].says),
         \A k \in DOMAIN s : Distinct(s[k].says) => Distinct(f[k])
  PROVE  /\ Joined(f) \in Seq(Facts)
         /\ ToSet(Joined(f)) = UNION {ToSet(f[k]) : k \in DOMAIN s}
         /\ ToSet(Joined(f)) \subseteq FactsOf(s)
         /\ Tidy(s) => Distinct(Joined(f))
<1>1. DOMAIN f = DOMAIN s /\ f \in Seq(Seq(Facts))
  <2>1. DOMAIN s = 1 .. Len(s) /\ Len(s) \in Nat
    BY LenProperties
  <2> QED
    BY <2>1
<1>2. Tidy(s) => Apart(f)
  BY <1>1 DEF Tidy, Apart
<1>3. /\ Joined(f) \in Seq(Facts)
      /\ ToSet(Joined(f)) = UNION {ToSet(f[k]) : k \in DOMAIN f}
      /\ Apart(f) => Distinct(Joined(f))
  BY <1>1, JoinedIs
<1>4. (UNION {ToSet(f[k]) : k \in DOMAIN s}) \subseteq FactsOf(s)
  BY DEF FactsOf
<1> QED
  BY <1>1, <1>2, <1>3, <1>4

LEMMA HeuristicIs ==
  ASSUME NEW s \in Seq(Items)
  PROVE  /\ Heuristic(s) \in Seq(Facts) /\ Len(Heuristic(s)) <= SummaryCap
         /\ ToSet(Heuristic(s)) \subseteq FactsOf(s)
         /\ Tidy(s) => Distinct(Heuristic(s))
<1> DEFINE texts == [k \in DOMAIN s |-> Take(ItemText(s[k]), ItemCap)]
<1>1. \A k \in DOMAIN s : s[k] \in Items
  BY LenProperties, ElementOfSeq
<1>2. ItemCap \in Nat /\ SummaryCap \in Nat
  BY Numbers
<1>3. ASSUME NEW k \in DOMAIN s
      PROVE  /\ texts[k] \in Seq(Facts)
             /\ ToSet(texts[k]) \subseteq ToSet(s[k].says)
             /\ Distinct(s[k].says) => Distinct(texts[k])
  <2>1. /\ ItemText(s[k]) \in Seq(Facts)
        /\ ToSet(ItemText(s[k])) \subseteq ToSet(s[k].says)
        /\ Distinct(s[k].says) => Distinct(ItemText(s[k]))
    BY <1>1, TextKeeps
  <2>2. /\ Take(ItemText(s[k]), ItemCap) \in Seq(Facts)
        /\ ToSet(Take(ItemText(s[k]), ItemCap)) \subseteq ToSet(ItemText(s[k]))
        /\ Distinct(ItemText(s[k])) => Distinct(Take(ItemText(s[k]), ItemCap))
    BY <1>2, <2>1, TakeIs, TakeKeeps
  <2> QED
    BY <2>1, <2>2
<1>4. texts \in [DOMAIN s -> Seq(Facts)]
  BY <1>3
<1>5. Heuristic(s) = Take(Joined(texts), SummaryCap)
  BY DEF Heuristic
<1> HIDE DEF texts
<1>6. /\ Joined(texts) \in Seq(Facts)
      /\ ToSet(Joined(texts)) \subseteq FactsOf(s)
      /\ Tidy(s) => Distinct(Joined(texts))
  BY <1>3, <1>4, JoinedTexts
<1>7. Len(Joined(texts)) \in Nat
  BY <1>6, LenProperties
<1>8. Len(Heuristic(s)) <= SummaryCap
  BY <1>2, <1>5, <1>6, <1>7, TakeIs
<1> QED
  BY <1>2, <1>5, <1>6, <1>8, TakeIs, TakeKeeps

(* What a model would be given is what is read of the items.               *)
LEMMA ShownFacts ==
  ASSUME NEW s \in Seq(Items)
  PROVE  FactsOf(Shown(s)) = UNION {ToSet(ItemText(s[k])) : k \in DOMAIN s}
<1> DEFINE m == Shown(s)
<1>1. PICK w \in [DOMAIN m -> DOMAIN s] :
        /\ \A k \in DOMAIN m : m[k] = s[w[k]] /\ ~ Dropped(s[w[k]])
        /\ \A j, k \in DOMAIN m : j < k => w[j] < w[k]
        /\ \A k \in DOMAIN s : Dropped(s[k]) \/ \E j \in DOMAIN m : w[j] = k
  BY ShownIs
<1>2. \A k \in DOMAIN s : s[k] \in Items
  BY LenProperties, ElementOfSeq
<1>3. \A k \in DOMAIN s : ItemText(s[k]) = IF Dropped(s[k]) THEN <<>> ELSE s[k].says
  BY <1>2, TextIs
<1>4. ToSet(<<>>) = {}
  BY DEF ToSet
<1> HIDE DEF m
<1>5. \A j \in DOMAIN m : \E k \in DOMAIN s : m[j].says = ItemText(s[k])
  BY <1>1, <1>3
<1>6. \A k \in DOMAIN s : ItemText(s[k]) = <<>> \/ \E j \in DOMAIN m : m[j].says = ItemText(s[k])
  BY <1>1, <1>3
<1>7. FactsOf(m) \subseteq UNION {ToSet(ItemText(s[k])) : k \in DOMAIN s}
  BY <1>5 DEF FactsOf
<1>8. (UNION {ToSet(ItemText(s[k])) : k \in DOMAIN s}) \subseteq FactsOf(m)
  <2>1. ASSUME NEW k \in DOMAIN s PROVE ToSet(ItemText(s[k])) \subseteq FactsOf(m)
    <3>1. CASE ItemText(s[k]) = <<>>
      BY <1>4, <3>1
    <3>2. CASE \E j \in DOMAIN m : m[j].says = ItemText(s[k])
      BY <3>2 DEF FactsOf
    <3> QED
      BY <1>6, <3>1, <3>2
  <2> QED
    BY <2>1
<1> QED
  BY <1>7, <1>8 DEF m

LEMMA SummariesOf ==
  ASSUME NEW s \in Seq(Items)
  PROVE  /\ Summaries(s) \subseteq Nat /\ Summaries(s) \subseteq DOMAIN s
         /\ \A x \in Summaries(s) : x <= Len(s)
         /\ \A k \in Summaries(s) : s[k] \in Items /\ s[k].kind = "blob"
BY LenProperties, ElementOfSeq DEF Summaries, IsBlob

LEMMA PreviousIs ==
  ASSUME NEW s \in Seq(Items)
  PROVE  /\ Previous(s) \in Seq(Facts)
         /\ Summaries(s) # {} => \E k \in Summaries(s) : Previous(s) = s[k].says
         /\ ToSet(Previous(s)) \subseteq FactsOf(s)
         /\ Tidy(s) => Distinct(Previous(s))
<1>1. CASE Summaries(s) = {}
  <2>1. Previous(s) = <<>>
    BY <1>1 DEF Previous
  <2>2. <<>> \in Seq(Facts) /\ ToSet(<<>>) = {} /\ Distinct(<<>>)
    BY DEF ToSet, Distinct
  <2> QED
    BY <1>1, <2>1, <2>2
<1>2. CASE Summaries(s) # {}
  <2> DEFINE k == Max(Summaries(s))
  <2>1. k \in Summaries(s)
    <3>1. Len(s) \in Nat
      BY LenProperties
    <3> QED
      BY <1>2, <3>1, SummariesOf, GreatestOf
  <2>2. Previous(s) = s[k].says
    BY <1>2 DEF Previous
  <2> HIDE DEF k
  <2>3. s[k].says \in Seq(Facts) /\ k \in DOMAIN s
    BY <2>1, SummariesOf, ItemIs
  <2>4. ToSet(s[k].says) \subseteq FactsOf(s) /\ (Tidy(s) => Distinct(s[k].says))
    BY <2>3 DEF FactsOf, Tidy
  <2> QED
    BY <2>1, <2>2, <2>3, <2>4
<1> QED
  BY <1>1, <1>2

LEMMA InputLimitIs ==
  ASSUME NEW window \in Nat
  PROVE  InputLimit(window) \in Nat /\ InputLimit(window) >= DefaultInput
<1>1. Safe(window) \in Nat
  BY DEF Safe
<1>2. Safe(window) \div 5 \in Nat /\ DefaultInput \in Nat
  BY <1>1, Numbers
<1> DEFINE fifth == Safe(window) \div 5
<1>3. InputLimit(window) = Max({DefaultInput, fifth})
  BY DEF InputLimit
<1> HIDE DEF fifth
<1>4. InputLimit(window) = IF DefaultInput <= fifth THEN fifth ELSE DefaultInput
  BY <1>2, <1>3, OfTwo DEF fifth
<1> QED
  BY <1>2, <1>4 DEF fifth

(* The model's summary has all of the earlier one, and all of what is read *)
(* if that is little.                                                      *)
LEMMA RewrittenIs ==
  ASSUME NEW s \in Seq(Items), NEW window \in Nat
  PROVE  /\ Rewritten(s, window) \in Seq(Facts)
         /\ ToSet(Rewritten(s, window)) \subseteq FactsOf(s)
         /\ Tidy(s) => Distinct(Rewritten(s, window))
         /\ ToSet(Previous(s)) \subseteq ToSet(Rewritten(s, window))
         /\ Tidy(s) /\ Cardinality(FactsOf(Shown(s))) <= DefaultInput
            => FactsOf(Shown(s)) \subseteq ToSet(Rewritten(s, window))
<1> DEFINE texts == [k \in DOMAIN s |-> ItemText(s[k])]
           all == Joined(texts)
           body == Take(all, InputLimit(window))
           earlier == Previous(s)
           K == {n \in DOMAIN body : body[n] \notin ToSet(earlier)}
           fresh == Kept(body, K)
<1>1. \A k \in DOMAIN s : s[k] \in Items
  BY LenProperties, ElementOfSeq
<1>2. InputLimit(window) \in Nat /\ InputLimit(window) >= DefaultInput /\ DefaultInput \in Nat
  BY InputLimitIs, Numbers
<1>3. \A k \in DOMAIN s : /\ texts[k] = ItemText(s[k])
                          /\ texts[k] \in Seq(Facts)
                          /\ ToSet(texts[k]) \subseteq ToSet(s[k].says)
                          /\ Distinct(s[k].says) => Distinct(texts[k])
  BY <1>1, TextKeeps
<1>4. texts \in [DOMAIN s -> Seq(Facts)]
  BY <1>3
<1>5. Rewritten(s, window) = earlier \o fresh
  BY DEF Rewritten
<1> HIDE DEF texts
<1>6. /\ all \in Seq(Facts)
      /\ ToSet(all) = UNION {ToSet(texts[k]) : k \in DOMAIN s}
      /\ ToSet(all) \subseteq FactsOf(s)
      /\ Tidy(s) => Distinct(all)
  BY <1>3, <1>4, JoinedTexts
<1>7. ToSet(all) = FactsOf(Shown(s))
  <2>1. {ToSet(texts[k]) : k \in DOMAIN s} = {ToSet(ItemText(s[k])) : k \in DOMAIN s}
    BY <1>3
  <2> QED
    BY <1>6, <2>1, ShownFacts
<1> HIDE DEF all
<1>8. /\ body \in Seq(Facts) /\ ToSet(body) \subseteq ToSet(all)
      /\ Distinct(all) => Distinct(body)
      /\ Len(all) <= InputLimit(window) => body = all
  BY <1>2, <1>6, TakeIs, TakeKeeps
<1> HIDE DEF body
<1>9. K \in SUBSET DOMAIN body
  OBVIOUS
<1>10. /\ ToSet(fresh) = {body[n] : n \in K} /\ fresh \in Seq(Facts)
       /\ Distinct(body) => Distinct(fresh)
  <2> HIDE DEF K
  <2> QED
    BY <1>8, <1>9, KeptIs, KeptKeeps
<1>11. ToSet(fresh) = ToSet(body) \ ToSet(earlier)
  BY <1>10 DEF ToSet
<1> HIDE DEF fresh, K
<1>12. /\ earlier \in Seq(Facts) /\ ToSet(earlier) \subseteq FactsOf(s)
       /\ Tidy(s) => Distinct(earlier)
  BY PreviousIs
<1> HIDE DEF earlier
<1>13. /\ earlier \o fresh \in Seq(Facts)
       /\ ToSet(earlier \o fresh) = ToSet(earlier) \cup ToSet(fresh)
       /\ Distinct(earlier) /\ Distinct(fresh) => Distinct(earlier \o fresh)
  BY <1>10, <1>11, <1>12, ConcatIs
<1>14. ASSUME Tidy(s), Cardinality(FactsOf(Shown(s))) <= DefaultInput
       PROVE  FactsOf(Shown(s)) \subseteq ToSet(earlier \o fresh)
  <2>1. Cardinality(ToSet(all)) = Len(all) /\ Len(all) \in Nat
    BY <1>6, <1>14, LengthOfDistinct, LenProperties
  <2>2. Len(all) <= InputLimit(window)
    <3>1. Len(all) <= DefaultInput
      BY <1>7, <1>14, <2>1
    <3> QED
      BY <1>2, <2>1, <3>1
  <2> QED
    BY <1>7, <1>8, <1>11, <1>13, <2>2
<1> QED
  BY <1>5, <1>6, <1>8, <1>10, <1>11, <1>12, <1>13, <1>14 DEF earlier

LEMMA NextDepthIs ==
  ASSUME NEW s \in Seq(Items)
  PROVE  NextDepth(s) \in 1 .. MaxDepth
<1> DEFINE depths == {0} \cup {s[k].depth : k \in Summaries(s)}
<1>1. MaxDepth \in Nat /\ MaxDepth >= 1
  BY Numbers
<1>2. \A k \in Summaries(s) : s[k].depth \in 1 .. MaxDepth
  BY SummariesOf, ItemIs
<1>3. depths \subseteq Nat /\ depths # {} /\ \A x \in depths : x <= MaxDepth
  BY <1>1, <1>2
<1> DEFINE most == Max(depths)
<1>4. most \in Nat
  <2> HIDE DEF depths
  <2> QED
    BY <1>1, <1>3, GreatestOf
<1>5. NextDepth(s) = Min({MaxDepth, 1 + most})
  BY DEF NextDepth
<1> HIDE DEF most
<1>6. NextDepth(s) = IF MaxDepth <= 1 + most THEN MaxDepth ELSE 1 + most
  <2>1. 1 + most \in Nat
    BY <1>4
  <2> QED
    BY <1>1, <1>5, <2>1, OfTwo
<1> QED
  BY <1>1, <1>4, <1>6

LEMMA WorkingIs ==
  ASSUME NEW s \in Seq(Items), NEW gone
  PROVE  /\ Working(s) \in Seq(Items)
         /\ FactsOf(Working(s)) \subseteq FactsOf(s)
         /\ Tidy(s) => Tidy(Working(s))
         /\ NoBlobs(s) => NoBlobs(Working(s))
         /\ Runs(s, gone) => Runs(Working(s), gone)
<1>1. Shown(s) \in Seq(Items) /\ Working(s) = Microcompact(Shown(s))
  BY ShownIs DEF Working
<1> QED
  BY <1>1, MicrocompactIs, ShownKeeps, MicrocompactKeeps

(* A blob is left where it is, and none is made.                           *)
LEMMA WorkingBlobs ==
  ASSUME NEW s \in Seq(Items)
  PROVE  /\ \A k \in Summaries(Working(s)) :
              \E j \in Summaries(s) : Working(s)[k] = s[j]
         /\ \A j \in Summaries(s) :
              \E k \in Summaries(Working(s)) : Working(s)[k] = s[j]
<1> DEFINE m == Shown(s)
           t == Working(s)
<1>1. m \in Seq(Items)
  BY ShownIs
<1>2. PICK w \in [DOMAIN m -> DOMAIN s] :
        /\ \A k \in DOMAIN m : m[k] = s[w[k]] /\ ~ Dropped(s[w[k]])
        /\ \A j, k \in DOMAIN m : j < k => w[j] < w[k]
        /\ \A k \in DOMAIN s : Dropped(s[k]) \/ \E j \in DOMAIN m : w[j] = k
  BY ShownIs
<1>3. /\ t \in Seq(Items) /\ Len(t) = Len(m)
      /\ \A k \in 1 .. Len(m) : t[k] = m[k] \/ (t[k] = Talk(m[k].says) /\ m[k].kind = "output")
  <2>1. t = Microcompact(m)
    BY DEF Working
  <2> HIDE DEF m, t
  <2>2. /\ Microcompact(m) \in Seq(Items) /\ Len(Microcompact(m)) = Len(m)
        /\ \A k \in 1 .. Len(m) :
             Microcompact(m)[k] = IF k < TailStart(m) /\ m[k].kind = "output"
                                  THEN Talk(m[k].says) ELSE m[k]
    BY <1>1, MicrocompactIs
  <2> QED
    BY <2>1, <2>2
<1>4. DOMAIN t = DOMAIN m /\ DOMAIN m = 1 .. Len(m)
  BY <1>1, <1>3, LenProperties
<1>5. \A k \in DOMAIN m : IsBlob(t[k]) \/ IsBlob(m[k]) => t[k] = m[k]
  BY <1>3, <1>4 DEF IsBlob, Talk, Plain
<1> HIDE DEF m, t
<1>6. ASSUME NEW k \in Summaries(t)
      PROVE  \E j \in Summaries(s) : t[k] = s[j]
  <2>1. k \in DOMAIN m /\ t[k] = m[k] /\ IsBlob(t[k])
    BY <1>4, <1>5 DEF Summaries
  <2>2. w[k] \in DOMAIN s /\ t[k] = s[w[k]]
    BY <1>2, <2>1
  <2> QED
    BY <2>1, <2>2 DEF Summaries
<1>7. ASSUME NEW j \in Summaries(s)
      PROVE  \E k \in Summaries(t) : t[k] = s[j]
  <2>1. j \in DOMAIN s /\ IsBlob(s[j]) /\ ~ Dropped(s[j])
    BY DEF Summaries, IsBlob, Dropped
  <2>2. PICK k \in DOMAIN m : w[k] = j
    BY <1>2, <2>1
  <2>3. m[k] = s[j] /\ t[k] = m[k]
    BY <1>2, <1>5, <2>1, <2>2
  <2>4. k \in Summaries(t)
    BY <1>4, <2>1, <2>3 DEF Summaries
  <2> QED
    BY <2>3, <2>4
<1> QED
  BY <1>6, <1>7 DEF t

-----------------------------------------------------------------------------
(* What a history weighs.                                                  *)
WeightOf(s) == UNION {{k} \X (1 .. Weight(s[k])) : k \in DOMAIN s}

LEMMA WeightOfIs ==
  ASSUME NEW s \in Seq(Items)
  PROVE  /\ Tokens(s) = Cardinality(WeightOf(s)) /\ IsFiniteSet(WeightOf(s))
         /\ \A p : p \in WeightOf(s) <=>
              \E k \in DOMAIN s : \E i \in 1 .. Weight(s[k]) : p = <<k, i>>
<1>1. Tokens(s) = Cardinality(WeightOf(s))
  BY DEF Tokens, WeightOf
<1>2. \A p : p \in WeightOf(s) <=>
        \E k \in DOMAIN s : \E i \in 1 .. Weight(s[k]) : p = <<k, i>>
  BY DEF WeightOf
<1> DEFINE n == Len(s)
           f == [k \in 1 .. n |-> {k} \X (1 .. Weight(s[k]))]
<1>3. n \in Nat /\ DOMAIN s = 1 .. n /\ \A k \in 1 .. n : s[k] \in Items
  BY LenProperties, ElementOfSeq
<1>4. ASSUME NEW k \in 1 .. n PROVE IsFiniteSet(f[k])
  <2>1. Weight(s[k]) \in Nat
    BY <1>3, WeightIs
  <2>2. IsFiniteSet(1 .. Weight(s[k]))
    BY <2>1, FS_Interval
  <2>3. IsFiniteSet({k})
    BY FS_Singleton
  <2> QED
    BY <2>2, <2>3, FS_Product
<1> DEFINE parts == {f[k] : k \in 1 .. n}
<1>5. f \in Surjection(1 .. n, parts)
  <2>1. f \in [1 .. n -> parts]
    OBVIOUS
  <2>2. \A y \in parts : \E k \in 1 .. n : f[k] = y
    OBVIOUS
  <2> HIDE DEF f, parts, n
  <2> QED
    BY <2>1, <2>2, Fun_IsSurj
<1>6. IsFiniteSet(parts)
  <2>1. IsFiniteSet(1 .. n)
    BY <1>3, FS_Interval
  <2> HIDE DEF f, parts
  <2> QED
    BY <1>5, <2>1, FS_Surjection
<1>7. WeightOf(s) = UNION parts
  BY <1>3 DEF WeightOf
<1>8. \A y \in parts : IsFiniteSet(y)
  <2> HIDE DEF f
  <2> QED
    BY <1>4
<1>9. IsFiniteSet(UNION parts)
  <2> HIDE DEF parts
  <2> QED
    BY <1>6, <1>8, FS_UNION
<1> QED
  BY <1>1, <1>2, <1>7, <1>9

LEMMA LighterItems ==
  ASSUME NEW s \in Seq(Items), NEW t \in Seq(Items), Len(t) = Len(s),
         \A k \in 1 .. Len(s) : Weight(t[k]) <= Weight(s[k])
  PROVE  Tokens(t) <= Tokens(s)
<1>1. /\ Len(s) \in Nat /\ DOMAIN s = 1 .. Len(s) /\ DOMAIN t = 1 .. Len(s)
      /\ \A k \in 1 .. Len(s) : s[k] \in Items /\ t[k] \in Items
  BY LenProperties, ElementOfSeq
<1>2. \A k \in 1 .. Len(s) : Weight(s[k]) \in Nat /\ Weight(t[k]) \in Nat
  BY <1>1, WeightIs
<1>3. \A k \in 1 .. Len(s) : \A i \in 1 .. Weight(t[k]) : i \in 1 .. Weight(s[k])
  BY <1>2
<1>4. WeightOf(t) \in SUBSET WeightOf(s)
  <2>1. ASSUME NEW p \in WeightOf(t) PROVE p \in WeightOf(s)
    <3>0. PICK k \in DOMAIN t : \E i \in 1 .. Weight(t[k]) : p = <<k, i>>
      BY WeightOfIs
    <3>1. PICK i \in 1 .. Weight(t[k]) : p = <<k, i>>
      BY <3>0
    <3>2. k \in DOMAIN s /\ i \in 1 .. Weight(s[k])
      BY <1>1, <1>3
    <3> QED
      BY <3>1, <3>2, WeightOfIs
  <2> QED
    BY <2>1
<1> QED
  BY <1>4, WeightOfIs, FS_Subset

(* A summary and a few items that are not enormous.                        *)
LEMMA SummaryAndFew ==
  ASSUME NEW h \in Items, h.kind = "blob", Len(h.says) <= SummaryCap,
         NEW r \in Seq(Items), Len(r) <= MinPreserve, Moderate(r)
  PROVE  Tokens(<<h>> \o r) <= SummaryCap + MinPreserve * OutputTokens
<1> DEFINE s == <<h>> \o r
           n == Len(r)
           rest == 2 .. MinPreserve + 1
           A == {1} \X (1 .. SummaryCap)
           B == rest \X (1 .. OutputTokens)
<1>1. /\ n \in Nat /\ DOMAIN r = 1 .. n
      /\ SummaryCap \in Nat \ {0} /\ MinPreserve \in Nat /\ OutputTokens \in Nat
  BY Numbers, LenProperties
<1>2. <<h>> \in Seq(Items) /\ Len(<<h>>) = 1 /\ <<h>>[1] = h
  OBVIOUS
<1>3. /\ s \in Seq(Items) /\ Len(s) = 1 + n
      /\ \A i \in 1 .. 1 + n : s[i] = IF i <= 1 THEN <<h>>[i] ELSE r[i - 1]
  BY <1>2, ConcatProperties
<1>4. DOMAIN s = 1 .. 1 + n
  BY <1>3, LenProperties
<1> HIDE DEF s, n
<1>5. s[1] = h
  BY <1>1, <1>2, <1>3
<1>6. Weight(h) <= SummaryCap /\ Weight(h) \in Nat
  <2>1. Weight(h) = Max({1, Len(h.says)}) /\ Weight(h) \in Nat
    BY WeightIs
  <2>2. Len(h.says) \in Nat
    BY ItemIs, LenProperties
  <2>3. Max({1, Len(h.says)}) = IF 1 <= Len(h.says) THEN Len(h.says) ELSE 1
    BY <2>2, OfTwo
  <2> HIDE DEF Max
  <2> QED
    BY <1>1, <2>1, <2>2, <2>3
<1>7. ASSUME NEW k \in 1 .. 1 + n, k # 1
      PROVE  Weight(s[k]) <= OutputTokens /\ Weight(s[k]) \in Nat
  <2>1. k - 1 \in 1 .. n /\ s[k] = r[k - 1]
    BY <1>1, <1>3, <1>7
  <2>2. r[k - 1] \in Items
    BY <1>1, <2>1, ElementOfSeq DEF n
  <2> QED
    BY <1>1, <2>1, <2>2, WeightIs DEF Moderate
<1>8. WeightOf(s) \in SUBSET (A \cup B)
  <2>1. ASSUME NEW p \in WeightOf(s) PROVE p \in A \cup B
    <3>0. PICK k \in DOMAIN s : \E i \in 1 .. Weight(s[k]) : p = <<k, i>>
      BY <1>3, WeightOfIs
    <3>1. PICK i \in 1 .. Weight(s[k]) : p = <<k, i>>
      BY <3>0
    <3>2. CASE k = 1
      <4>1. i \in 1 .. SummaryCap
        BY <1>1, <1>5, <1>6, <3>2
      <4> QED
        BY <3>1, <3>2, <4>1
    <3>3. CASE k # 1
      <4>1. k \in rest
        BY <1>1, <1>4, <3>3 DEF n
      <4>2. i \in 1 .. OutputTokens
        BY <1>1, <1>4, <1>7, <3>3
      <4> QED
        BY <3>1, <4>1, <4>2
    <3> QED
      BY <3>2, <3>3
  <2> QED
    BY <2>1
<1>9. IsFiniteSet(A) /\ Cardinality(A) = SummaryCap
  <2>0. SummaryCap \in Int /\ ~ (1 > SummaryCap) /\ SummaryCap - 1 + 1 = SummaryCap
    BY <1>1
  <2>1. IsFiniteSet(1 .. SummaryCap) /\ Cardinality(1 .. SummaryCap) = SummaryCap
    BY <2>0, FS_Interval
  <2>3. IsFiniteSet({1}) /\ Cardinality({1}) = 1
    BY FS_Singleton
  <2>2. IsFiniteSet(A) /\ Cardinality(A) = 1 * SummaryCap
    BY <2>1, <2>3, FS_Product
  <2> QED
    BY <1>1, <2>2
<1>10. IsFiniteSet(B) /\ Cardinality(B) = MinPreserve * OutputTokens
  <2>0. OutputTokens \in Nat \ {0} /\ MinPreserve \in Nat \ {0}
    BY Numbers
  <2>2. IsFiniteSet(1 .. OutputTokens) /\ Cardinality(1 .. OutputTokens) = OutputTokens
    <3>1. OutputTokens \in Int /\ ~ (1 > OutputTokens) /\ OutputTokens - 1 + 1 = OutputTokens
      BY <2>0
    <3> QED
      BY <3>1, FS_Interval
  <2>3. IsFiniteSet(rest) /\ Cardinality(rest) = MinPreserve
    <3>1. /\ MinPreserve + 1 \in Int /\ ~ (2 > MinPreserve + 1)
          /\ (MinPreserve + 1) - 2 + 1 = MinPreserve
      BY <2>0
    <3> QED
      BY <3>1, FS_Interval
  <2>1. /\ IsFiniteSet(1 .. OutputTokens) /\ Cardinality(1 .. OutputTokens) = OutputTokens
        /\ IsFiniteSet(rest) /\ Cardinality(rest) = MinPreserve
    BY <2>2, <2>3
  <2> HIDE DEF rest
  <2> QED
    BY <2>1, FS_Product
<1> HIDE DEF A, B
<1>11. /\ IsFiniteSet(A \cup B)
       /\ Cardinality(A \cup B) = Cardinality(A) + Cardinality(B) - Cardinality(A \cap B)
  BY <1>9, <1>10, FS_Union
<1>12. Cardinality(A \cap B) \in Nat
  <2>1. IsFiniteSet(A \cap B)
    BY <1>9, FS_Intersection
  <2> QED
    BY <2>1, FS_CardinalityType
<1>13. Cardinality(WeightOf(s)) <= Cardinality(A \cup B) /\ Cardinality(WeightOf(s)) \in Nat
  BY <1>3, <1>8, <1>11, WeightOfIs, FS_Subset, FS_CardinalityType
<1>14. MinPreserve * OutputTokens \in Nat
  BY <1>1
<1>15. Tokens(s) <= SummaryCap + MinPreserve * OutputTokens
  <2> DEFINE p == MinPreserve * OutputTokens
  <2>1. /\ p \in Nat /\ Cardinality(B) = p /\ Tokens(s) = Cardinality(WeightOf(s))
    BY <1>3, <1>10, <1>14, WeightOfIs
  <2> HIDE DEF p
  <2>2. Tokens(s) <= SummaryCap + p
    BY <1>1, <1>9, <1>11, <1>12, <1>13, <2>1
  <2> QED
    BY <2>2 DEF p
<1> QED
  BY <1>15 DEF s

-----------------------------------------------------------------------------
(* What the two kinds of compaction make.                                  *)
LEMMA OneBefore ==
  ASSUME NEW h \in Items, NEW r \in Seq(Items)
  PROVE  /\ <<h>> \o r \in Seq(Items) /\ Len(<<h>> \o r) = 1 + Len(r)
         /\ Len(r) \in Nat
         /\ DOMAIN (<<h>> \o r) = 1 .. 1 + Len(r) /\ DOMAIN r = 1 .. Len(r)
         /\ (<<h>> \o r)[1] = h
         /\ \A k \in 1 .. Len(r) : /\ (<<h>> \o r)[1 + k] = r[k]
                                   /\ 1 + k \in 1 .. 1 + Len(r)
         /\ \A k \in 1 .. 1 + Len(r) : k = 1 \/ \E j \in 1 .. Len(r) : k = 1 + j
<1> DEFINE n == Len(r)
           s == <<h>> \o r
<1>1. <<h>> \in Seq(Items) /\ Len(<<h>>) = 1 /\ <<h>>[1] = h
  OBVIOUS
<1>2. n \in Nat /\ DOMAIN r = 1 .. n
  BY LenProperties
<1>3. /\ s \in Seq(Items) /\ Len(s) = 1 + n
      /\ \A i \in 1 .. 1 + n : s[i] = IF i <= 1 THEN <<h>>[i] ELSE r[i - 1]
  BY <1>1, ConcatProperties
<1>4. DOMAIN s = 1 .. 1 + n
  BY <1>3, LenProperties
<1> HIDE DEF s, n
<1>5. s[1] = h
  BY <1>1, <1>2, <1>3
<1>6. ASSUME NEW k \in 1 .. n
      PROVE  s[1 + k] = r[k] /\ 1 + k \in 1 .. 1 + n
  <2>1. 1 + k \in 1 .. 1 + n /\ ~ (1 + k <= 1) /\ (1 + k) - 1 = k
    BY <1>2
  <2> QED
    BY <1>3, <2>1
<1>7. ASSUME NEW k \in 1 .. 1 + n, k # 1
      PROVE  \E j \in 1 .. n : k = 1 + j
  <2>1. k - 1 \in 1 .. n /\ k = 1 + (k - 1)
    BY <1>2, <1>7
  <2> QED
    BY <2>1
<1> QED
  BY <1>2, <1>3, <1>4, <1>5, <1>6, <1>7 DEF n, s

LEMMA OneBeforeKeeps ==
  ASSUME NEW h \in Items, h.kind = "blob", NEW r \in Seq(Items), NEW gone
  PROVE  /\ FactsOf(<<h>> \o r) = ToSet(h.says) \cup FactsOf(r)
         /\ Tidy(r) /\ Distinct(h.says) /\ ToSet(h.says) \cap FactsOf(r) = {}
            => Tidy(<<h>> \o r)
         /\ Runs(r, gone) => Runs(<<h>> \o r, gone)
<1> DEFINE n == Len(r)
           s == <<h>> \o r
<1>1. /\ s \in Seq(Items) /\ n \in Nat /\ DOMAIN s = 1 .. 1 + n /\ DOMAIN r = 1 .. n
      /\ s[1] = h
      /\ \A k \in 1 .. n : s[1 + k] = r[k] /\ 1 + k \in 1 .. 1 + n
      /\ \A k \in 1 .. 1 + n : k = 1 \/ \E j \in 1 .. n : k = 1 + j
  BY OneBefore
<1> HIDE DEF s, n
<1>2. FactsOf(s) = ToSet(h.says) \cup FactsOf(r)
  <2>1. ASSUME NEW k \in DOMAIN s
        PROVE  ToSet(s[k].says) \subseteq ToSet(h.says) \cup FactsOf(r)
    <3>1. CASE k = 1
      BY <1>1, <3>1
    <3>2. CASE \E j \in 1 .. n : k = 1 + j
      BY <1>1, <3>2 DEF FactsOf
    <3> QED
      BY <1>1, <3>1, <3>2
  <2>2. ToSet(h.says) \subseteq FactsOf(s)
    <3>1. 1 \in DOMAIN s /\ s[1] = h
      BY <1>1
    <3> QED
      BY <3>1 DEF FactsOf
  <2>3. ASSUME NEW k \in DOMAIN r PROVE ToSet(r[k].says) \subseteq FactsOf(s)
    <3>1. 1 + k \in DOMAIN s /\ s[1 + k] = r[k]
      BY <1>1
    <3> QED
      BY <3>1 DEF FactsOf
  <2>4. FactsOf(s) \subseteq ToSet(h.says) \cup FactsOf(r)
    BY <2>1 DEF FactsOf
  <2>5. FactsOf(r) \subseteq FactsOf(s)
    <3>1. FactsOf(r) = UNION {ToSet(r[k].says) : k \in DOMAIN r}
      BY DEF FactsOf
    <3> QED
      BY <2>3, <3>1
  <2> QED
    BY <2>2, <2>4, <2>5
<1>3. ASSUME Tidy(r), Distinct(h.says), ToSet(h.says) \cap FactsOf(r) = {}
      PROVE  Tidy(s)
  <2>1. \A k \in 1 .. n : /\ Distinct(r[k].says)
                          /\ ToSet(r[k].says) \cap ToSet(h.says) = {}
    BY <1>1, <1>3 DEF Tidy, FactsOf
  <2>2. \A j, k \in 1 .. n : j # k => ToSet(r[j].says) \cap ToSet(r[k].says) = {}
    BY <1>1, <1>3 DEF Tidy
  <2>3. ASSUME NEW k \in DOMAIN s PROVE Distinct(s[k].says)
    BY <1>1, <1>3, <2>1
  <2>4. ASSUME NEW j \in DOMAIN s, NEW k \in DOMAIN s, j # k
        PROVE  ToSet(s[j].says) \cap ToSet(s[k].says) = {}
    <3>1. CASE j = 1
      <4>1. PICK l \in 1 .. n : k = 1 + l
        BY <1>1, <2>4, <3>1
      <4> QED
        BY <1>1, <2>1, <3>1, <4>1
    <3>2. CASE k = 1
      <4>1. PICK l \in 1 .. n : j = 1 + l
        BY <1>1, <2>4, <3>2
      <4> QED
        BY <1>1, <2>1, <3>2, <4>1
    <3>3. CASE j # 1 /\ k # 1
      <4>1. PICK l \in 1 .. n : j = 1 + l
        BY <1>1, <3>3
      <4>2. PICK m \in 1 .. n : k = 1 + m
        BY <1>1, <3>3
      <4>3. l # m /\ s[j] = r[l] /\ s[k] = r[m]
        BY <1>1, <2>4, <4>1, <4>2
      <4> QED
        BY <2>2, <4>3
    <3> QED
      BY <3>1, <3>2, <3>3
  <2> QED
    BY <2>3, <2>4 DEF Tidy
<1>4. ASSUME Runs(r, gone) PROVE Runs(s, gone)
  <2> SUFFICES ASSUME NEW k \in DOMAIN s, AnswersCall(s[k]), s[k].call \notin gone
               PROVE  \E j \in 1 .. k : Called(s, j, k)
    BY DEF Runs
  <2>1. k # 1
    BY <1>1 DEF AnswersCall
  <2>2. PICK l \in 1 .. n : k = 1 + l
    BY <1>1, <2>1
  <2>3. s[k] = r[l] /\ l \in DOMAIN r
    BY <1>1, <2>2
  <2>4. PICK i \in 1 .. l : Called(r, i, l)
    BY <1>4, <2>3 DEF Runs
  <2>5. 1 + i \in 1 .. k /\ i \in 1 .. n
    BY <1>1, <2>2
  <2>6. ASSUME NEW m \in 1 + i .. k PROVE ToolLike(s[m])
    <3>1. m - 1 \in i .. l /\ m - 1 \in 1 .. n /\ m = 1 + (m - 1)
      BY <1>1, <2>2, <2>5
    <3>2. s[m] = r[m - 1]
      BY <1>1, <3>1
    <3> QED
      BY <2>4, <3>1, <3>2 DEF Called
  <2>7. s[1 + i] = r[i]
    BY <1>1, <2>5
  <2>8. Called(s, 1 + i, k)
    BY <2>3, <2>4, <2>6, <2>7 DEF Called
  <2> QED
    BY <2>5, <2>8
<1> QED
  BY <1>2, <1>3, <1>4 DEF s

Recent(all) == SubSeq(all, TailStart(all), Len(all))
Older(all) == SubSeq(all, 1, TailStart(all) - 1)
Head2(all) == Blob("v2", NextDepth(all), Heuristic(Older(all)))

LEMMA StartIs ==
  ASSUME NEW s \in Seq(Items)
  PROVE  /\ Min({TailStart(s), Max({1, Len(s) - MinPreserve + 1})}) = TailStart(s)
         /\ TailStart(s) <= Len(s) + 1
<1> DEFINE x == Len(s) - MinPreserve + 1
           t == TailStart(s)
           m == Max({1, x})
<1>1. Len(s) \in Nat /\ MinPreserve \in Nat \ {0} /\ x \in Int
  BY Numbers, LenProperties
<1>2. /\ t \in Nat \ {0} /\ (t = 1 \/ t <= x)
      /\ t # 1 => t \in 1 .. Len(s)
  BY TailStartIs
<1>3. m = IF 1 <= x THEN x ELSE 1
  <2> HIDE DEF x
  <2>1. CASE 1 <= x
    <3>1. x \in {1, x} /\ \A y \in {1, x} : x >= y
      BY <1>1, <2>1
    <3>2. m \in {1, x} /\ \A y \in {1, x} : m >= y
      BY <3>1 DEF Max
    <3> HIDE DEF m
    <3> QED
      BY <1>1, <2>1, <3>2
  <2>2. CASE ~ (1 <= x)
    <3>1. 1 \in {1, x} /\ \A y \in {1, x} : 1 >= y
      BY <1>1, <2>2
    <3>2. m \in {1, x} /\ \A y \in {1, x} : m >= y
      BY <3>1 DEF Max
    <3> HIDE DEF m
    <3> QED
      BY <1>1, <2>2, <3>2
  <2> QED
    BY <2>1, <2>2
<1>4. m \in Nat /\ t <= m
  <2> HIDE DEF m, t, x
  <2> QED
    BY <1>1, <1>2, <1>3
<1>5. Min({t, m}) = t
  <2> HIDE DEF m, t
  <2> QED
    BY <1>2, <1>4, OfTwo
<1>6. t <= Len(s) + 1
  <2> HIDE DEF t
  <2> QED
    BY <1>1, <1>2
<1> QED
  BY <1>5, <1>6

LEMMA BeforeIs ==
  ASSUME NEW s \in Seq(Items), NEW b \in Nat, b <= Len(s)
  PROVE  /\ SubSeq(s, 1, b) \in Seq(Items) /\ DOMAIN SubSeq(s, 1, b) = 1 .. b
         /\ \A k \in 1 .. b : SubSeq(s, 1, b)[k] = s[k] /\ k \in DOMAIN s
<1>1. Len(s) \in Nat /\ DOMAIN s = 1 .. Len(s) /\ \A k \in 1 .. Len(s) : s[k] \in Items
  BY LenProperties, ElementOfSeq
<1>2. \A k \in 1 .. b : k \in 1 .. Len(s)
  BY <1>1
<1>3. \A k \in 1 .. b : s[k] \in Items
  BY <1>1, <1>2
<1>4. /\ SubSeq(s, 1, b) \in Seq(Items) /\ Len(SubSeq(s, 1, b)) = b
      /\ \A k \in 1 .. b : SubSeq(s, 1, b)[k] = s[k]
  BY <1>3, SubSeqProperties
<1> QED
  BY <1>1, <1>2, <1>4, LenProperties

LEMMA RecentIs ==
  ASSUME NEW s \in Seq(Items)
  PROVE  /\ Recent(s) \in Seq(Items) /\ Older(s) \in Seq(Items)
         /\ Len(Recent(s)) = Len(s) - TailStart(s) + 1
         /\ Head2(s) \in Items /\ Head2(s).kind = "blob"
         /\ Head2(s).says = Heuristic(Older(s)) /\ Head2(s).engine = "v2"
         /\ FactsOf(Older(s)) \subseteq FactsOf(s)
         /\ Tidy(s) => /\ Tidy(Older(s))
                       /\ FactsOf(Older(s)) \cap FactsOf(Recent(s)) = {}
<1> DEFINE t == TailStart(s)
           b == t - 1
           r == Recent(s)
           o == Older(s)
<1>1. t \in Nat \ {0} /\ t <= Len(s) + 1 /\ Len(s) \in Nat
  BY StartIs, TailStartIs, LenProperties
<1>2. b \in Nat /\ b <= Len(s)
  BY <1>1
<1>3. /\ r \in Seq(Items) /\ Len(r) = Len(s) - t + 1 /\ Len(s) - t + 1 \in Nat
      /\ \A k \in 1 .. Len(s) - t + 1 : r[k] = s[t + k - 1] /\ t + k - 1 \in t .. Len(s)
  BY <1>1, RestIs DEF Recent
<1>4. /\ o \in Seq(Items) /\ DOMAIN o = 1 .. b
      /\ \A k \in 1 .. b : o[k] = s[k] /\ k \in DOMAIN s
  BY <1>2, BeforeIs DEF Older
<1>5. /\ Heuristic(o) \in Seq(Facts) /\ NextDepth(s) \in 1 .. MaxDepth
  BY <1>4, HeuristicIs, NextDepthIs
<1>6. /\ Head2(s) \in Items /\ Head2(s).kind = "blob"
      /\ Head2(s).says = Heuristic(o) /\ Head2(s).engine = "v2"
  BY <1>5, BlobIs DEF Head2
<1>7. DOMAIN s = 1 .. Len(s) /\ DOMAIN r = 1 .. Len(s) - t + 1
  BY <1>3, LenProperties
<1> HIDE DEF r, o, t
<1>8. FactsOf(o) \subseteq FactsOf(s)
  BY <1>4 DEF FactsOf
<1>9. ASSUME Tidy(s) PROVE Tidy(o) /\ FactsOf(o) \cap FactsOf(r) = {}
  <2>1. Tidy(o)
    BY <1>4, <1>9 DEF Tidy
  <2>2. ASSUME NEW j \in DOMAIN o, NEW k \in DOMAIN r
        PROVE  ToSet(o[j].says) \cap ToSet(r[k].says) = {}
    <3>1. o[j] = s[j] /\ j \in DOMAIN s /\ j \in Nat /\ j < t
      BY <1>1, <1>4
    <3>2. PICK i \in t .. Len(s) : r[k] = s[i]
      BY <1>3, <1>7
    <3>3. i \in DOMAIN s /\ i # j
      BY <1>1, <1>7, <3>1, <3>2
    <3> QED
      BY <1>9, <3>1, <3>2, <3>3 DEF Tidy
  <2>3. \A f \in FactsOf(o) : \E j \in DOMAIN o : f \in ToSet(o[j].says)
    BY DEF FactsOf
  <2>4. \A f \in FactsOf(r) : \E k \in DOMAIN r : f \in ToSet(r[k].says)
    BY DEF FactsOf
  <2>5. FactsOf(o) \cap FactsOf(r) = {}
    BY <2>2, <2>3, <2>4
  <2> QED
    BY <2>1, <2>5
<1> QED
  BY <1>3, <1>4, <1>6, <1>8, <1>9 DEF r, o, t

(* The compaction that keeps the recent items: a summary of what is older, *)
(* and all of the recent but for a few of the first, which are as many as  *)
(* may go if they are not as few as bring the rest under the target.       *)
LEMMA CompactOldIs ==
  ASSUME NEW s \in Seq(Items), NoBlobs(s)
  PROVE  \E n \in 0 .. Len(Recent(Working(s))) :
           /\ CompactOld(s).items =
                <<Head2(Working(s))>> \o
                  SubSeq(Recent(Working(s)), n + 1, Len(Recent(Working(s))))
           /\ CompactOld(s).cut = CallsOf(SubSeq(Recent(Working(s)), 1, n))
           /\ Len(Recent(Working(s))) - n >= Min({MinPreserve, Len(Working(s))})
           /\ \/ Tokens(CompactOld(s).items) <= TargetTokens
              \/ Len(Recent(Working(s))) - n = Min({MinPreserve, Len(Working(s))})
<1> DEFINE all == Working(s)
           t == TailStart(all)
           r == Recent(all)
           h == Head2(all)
           fits(n) == Tokens(<<h>> \o SubSeq(r, n + 1, Len(r))) <= TargetTokens
           some == Min({MinPreserve, Len(r)})
           most == Len(r) - some
           good == {n \in 0 .. most : fits(n)}
           n0 == Trimmed(h, r)
<1>1. all \in Seq(Items) /\ NoBlobs(all)
  BY WorkingIs
<1>2. /\ t \in Nat \ {0} /\ t <= Len(all) + 1
      /\ t = 1 \/ t <= Len(all) - MinPreserve + 1
      /\ Min({t, Max({1, Len(all) - MinPreserve + 1})}) = t
  BY <1>1, TailStartIs, StartIs
<1>3. r \in Seq(Items) /\ Len(r) = Len(all) - t + 1 /\ Len(all) \in Nat /\ Len(r) \in Nat
      /\ NoBlobs(r)
  BY <1>1, <1>2, RestIs, RestKeeps, LenProperties DEF Recent
<1>4. Kept(r, DOMAIN r \ Summaries(r)) = r
  <2>1. Summaries(r) = {}
    BY <1>3 DEF Summaries, NoBlobs
  <2>2. DOMAIN r \ Summaries(r) = DOMAIN r
    BY <2>1
  <2> QED
    BY <1>3, <2>2, KeptAll
<1>5. CompactOld(s) =
        [items |-> <<h>> \o SubSeq(r, n0 + 1, Len(r)), cut |-> CallsOf(SubSeq(r, 1, n0))]
  <2> DEFINE start == Min({TailStart(all), Max({1, Len(all) - MinPreserve + 1})})
             tail == SubSeq(all, start, Len(all))
             recent == Kept(tail, DOMAIN tail \ Summaries(tail))
             head == Blob("v2", NextDepth(all), Heuristic(SubSeq(all, 1, start - 1)))
             n == Trimmed(head, recent)
  <2>1. CompactOld(s) = [items |-> <<head>> \o SubSeq(recent, n + 1, Len(recent)),
                         cut |-> CallsOf(SubSeq(recent, 1, n))]
    BY DEF CompactOld
  <2>2. start = t
    BY <1>2
  <2> HIDE DEF start
  <2>3. tail = r /\ head = h
    BY <2>2 DEF Recent, Head2, Older
  <2> HIDE DEF tail, head
  <2>4. recent = r
    BY <1>4, <2>3
  <2> HIDE DEF recent, all, r, h
  <2> QED
    BY <2>1, <2>3, <2>4
<1>6. /\ some \in Nat /\ some = IF MinPreserve <= Len(r) THEN MinPreserve ELSE Len(r)
      /\ Min({MinPreserve, Len(all)}) =
           IF MinPreserve <= Len(all) THEN MinPreserve ELSE Len(all)
      /\ MinPreserve \in Nat
  <2>1. MinPreserve \in Nat
    BY Numbers
  <2> HIDE DEF all, r
  <2>2. some = IF MinPreserve <= Len(r) THEN MinPreserve ELSE Len(r)
    BY <1>3, <2>1, OfTwo
  <2>3. Min({MinPreserve, Len(all)}) = IF MinPreserve <= Len(all) THEN MinPreserve ELSE Len(all)
    BY <1>3, <2>1, OfTwo
  <2> QED
    BY <1>3, <2>1, <2>2, <2>3
<1> HIDE DEF all, r, h, t, some
<1>7. some = Min({MinPreserve, Len(all)})
  <2>1. CASE t = 1
    <3>1. Len(r) = Len(all)
      BY <1>3, <2>1
    <3> QED
      BY <1>6, <3>1
  <2>2. CASE t <= Len(all) - MinPreserve + 1
    <3>1. MinPreserve <= Len(r) /\ MinPreserve <= Len(all)
      BY <1>2, <1>3, <1>6, <2>2
    <3> QED
      BY <1>6, <3>1
  <2> QED
    BY <1>2, <2>1, <2>2
<1>8. most \in 0 .. Len(r)
  BY <1>3, <1>6
<1>9. n0 = Min({most} \cup good)
  BY DEF Trimmed, some
<1> DEFINE few == {most} \cup good
<1>10. few \subseteq Nat /\ few # {} /\ few \subseteq 0 .. most
  <2> HIDE DEF fits, most
  <2> QED
    BY <1>3, <1>8
<1>11. n0 \in few
  <2> HIDE DEF few, n0
  <2>1. Min(few) \in few
    BY <1>10, LeastOf
  <2> QED
    BY <1>9, <2>1 DEF few
<1>12. n0 = most \/ fits(n0)
  <2> HIDE DEF n0, fits, most
  <2> QED
    BY <1>11
<1>13. n0 \in 0 .. Len(r) /\ Len(r) - n0 >= some
  <2>1. n0 \in 0 .. most
    <3> HIDE DEF few, n0, most
    <3> QED
      BY <1>10, <1>11
  <2> HIDE DEF n0
  <2> QED
    BY <1>3, <1>6, <1>8, <2>1
<1>14. n0 = most => Len(r) - n0 = some
  <2> HIDE DEF n0
  <2> QED
    BY <1>3, <1>6
<1>15. /\ CompactOld(s).items = <<h>> \o SubSeq(r, n0 + 1, Len(r))
       /\ CompactOld(s).cut = CallsOf(SubSeq(r, 1, n0))
  <2> DEFINE a == <<h>> \o SubSeq(r, n0 + 1, Len(r))
             b == CallsOf(SubSeq(r, 1, n0))
  <2>1. CompactOld(s) = [items |-> a, cut |-> b]
    BY <1>5
  <2> HIDE DEF a, b
  <2>2. CompactOld(s).items = a /\ CompactOld(s).cut = b
    BY <2>1
  <2> QED
    BY <2>2 DEF a, b
<1>16. fits(n0) => Tokens(CompactOld(s).items) <= TargetTokens
  <2> HIDE DEF n0
  <2> QED
    BY <1>15
<1> HIDE DEF n0, fits
<1>17. \E n \in 0 .. Len(r) :
         /\ CompactOld(s).items = <<h>> \o SubSeq(r, n + 1, Len(r))
         /\ CompactOld(s).cut = CallsOf(SubSeq(r, 1, n))
         /\ Len(r) - n >= some
         /\ Tokens(CompactOld(s).items) <= TargetTokens \/ Len(r) - n = some
  BY <1>12, <1>13, <1>14, <1>15, <1>16
<1> QED
  BY <1>7, <1>17 DEF r, h, all

LEMMA CompactOldKeeps ==
  ASSUME NEW s \in Seq(Items), NoBlobs(s), Tidy(s), NEW gone, Runs(s, gone)
  PROVE  /\ CompactOld(s).items \in Seq(Items)
         /\ Tidy(CompactOld(s).items)
         /\ Runs(CompactOld(s).items, gone \cup CompactOld(s).cut)
         /\ FactsOf(CompactOld(s).items) \subseteq FactsOf(s)
         /\ CompactOld(s).cut \subseteq Facts
         /\ \A k \in Summaries(CompactOld(s).items) : k = 1
         /\ CompactOld(s).items[1].kind = "blob" /\ CompactOld(s).items[1].engine = "v2"
<1> DEFINE all == Working(s)
           r == Recent(all)
           h == Head2(all)
           new == CompactOld(s).items
           out == CompactOld(s).cut
<1>1. /\ all \in Seq(Items) /\ NoBlobs(all) /\ Tidy(all) /\ Runs(all, gone)
      /\ FactsOf(all) \subseteq FactsOf(s)
  BY WorkingIs
<1> HIDE DEF all
<1>2. /\ r \in Seq(Items) /\ h \in Items /\ h.kind = "blob"
      /\ h.says = Heuristic(Older(all)) /\ h.engine = "v2"
      /\ Older(all) \in Seq(Items) /\ Tidy(Older(all))
      /\ FactsOf(Older(all)) \subseteq FactsOf(all)
      /\ FactsOf(Older(all)) \cap FactsOf(r) = {}
  BY <1>1, RecentIs
<1>3. PICK n \in 0 .. Len(r) :
        /\ new = <<h>> \o SubSeq(r, n + 1, Len(r))
        /\ out = CallsOf(SubSeq(r, 1, n))
  BY CompactOldIs DEF all
<1>4. /\ TailStart(all) \in Nat \ {0} /\ TailStart(all) <= Len(all) + 1
      /\ TailStart(all) = 1 \/ (/\ TailStart(all) <= Len(all)
                               /\ ~ ToolLike(all[TailStart(all)]))
  BY <1>1, StartIs, TailStartIs
<1>5. /\ Tidy(r) /\ NoBlobs(r) /\ Runs(r, gone) /\ FactsOf(r) \subseteq FactsOf(all)
  <2>1. Tidy(r) /\ NoBlobs(r) /\ FactsOf(r) \subseteq FactsOf(all)
    BY <1>1, <1>4, RestKeeps DEF Recent
  <2>2. Runs(r, gone)
    BY <1>1, <1>4, RestRuns DEF Recent
  <2> QED
    BY <2>1, <2>2
<1>6. Len(r) \in Nat /\ n + 1 \in Nat \ {0} /\ n + 1 <= Len(r) + 1 /\ n \in Nat /\ n <= Len(r)
  BY <1>2, <1>3, LenProperties
<1> DEFINE rest == SubSeq(r, n + 1, Len(r))
<1> HIDE DEF r, h, new, out
<1>7. /\ rest \in Seq(Items) /\ Tidy(rest) /\ NoBlobs(rest)
      /\ FactsOf(rest) \subseteq FactsOf(r)
  BY <1>2, <1>5, <1>6, RestIs, RestKeeps
<1>8. Runs(rest, gone \cup out)
  <2>1. CallsOf(SubSeq(r, 1, (n + 1) - 1)) \subseteq gone \cup out
    <3>1. (n + 1) - 1 = n
      BY <1>6
    <3> QED
      BY <1>3, <3>1
  <2>2. gone \subseteq gone \cup out
    OBVIOUS
  <2> QED
    BY <1>2, <1>5, <1>6, <2>1, <2>2, RestRuns
<1>9. /\ ToSet(h.says) \subseteq FactsOf(Older(all)) /\ Distinct(h.says)
  BY <1>2, HeuristicIs
<1>10. ToSet(h.says) \cap FactsOf(rest) = {}
  BY <1>2, <1>7, <1>9
<1>11. out \subseteq Facts
  <2>1. /\ SubSeq(r, 1, n) \in Seq(Items) /\ DOMAIN SubSeq(r, 1, n) = 1 .. n
    BY <1>2, <1>6, BeforeIs
  <2>2. \A k \in 1 .. n : SubSeq(r, 1, n)[k] \in Items
    BY <2>1, ElementOfSeq, LenProperties
  <2>3. \A k \in 1 .. n : SubSeq(r, 1, n)[k].kind = "call" => SubSeq(r, 1, n)[k].call \in Facts
    BY <2>2, ItemIs
  <2> QED
    BY <1>3, <2>1, <2>3 DEF CallsOf
<1> HIDE DEF rest
<1>12. new = <<h>> \o rest
  BY <1>3 DEF rest
<1>13. /\ new \in Seq(Items) /\ new[1] = h
       /\ DOMAIN new = 1 .. 1 + Len(rest)
       /\ \A k \in 1 .. 1 + Len(rest) : k = 1 \/ \E j \in 1 .. Len(rest) : k = 1 + j
       /\ \A k \in 1 .. Len(rest) : new[1 + k] = rest[k]
       /\ DOMAIN rest = 1 .. Len(rest)
  BY <1>2, <1>7, <1>12, OneBefore
<1>14. /\ Tidy(new) /\ FactsOf(new) = ToSet(h.says) \cup FactsOf(rest)
       /\ Runs(new, gone \cup out)
  BY <1>2, <1>7, <1>8, <1>9, <1>10, <1>12, OneBeforeKeeps
<1>15. \A k \in Summaries(new) : k = 1
  <2>1. ASSUME NEW k \in Summaries(new), k # 1 PROVE FALSE
    <3>1. k \in 1 .. 1 + Len(rest) /\ IsBlob(new[k])
      BY <1>13 DEF Summaries
    <3>2. PICK j \in 1 .. Len(rest) : k = 1 + j
      BY <1>13, <2>1, <3>1
    <3> QED
      BY <1>7, <1>13, <3>1, <3>2 DEF NoBlobs
  <2> QED
    BY <2>1
<1>16. FactsOf(new) \subseteq FactsOf(s)
  BY <1>1, <1>2, <1>5, <1>7, <1>9, <1>14
<1> QED
  BY <1>2, <1>11, <1>13, <1>14, <1>15, <1>16 DEF new, out

LEMMA CompactAllIs ==
  ASSUME NEW s \in Seq(Items), NEW oracle, NEW window \in Nat
  PROVE  \E b \in Items :
           /\ CompactAll(Working(s), oracle, window) = <<b>>
           /\ b.kind = "blob"
           /\ ToSet(b.says) \subseteq FactsOf(s)
           /\ Tidy(s) => Distinct(b.says)
           /\ b.engine = "v3" => b.says = Rewritten(Working(s), window)
<1> DEFINE all == Working(s)
<1>1. /\ all \in Seq(Items) /\ (Tidy(s) => Tidy(all)) /\ FactsOf(all) \subseteq FactsOf(s)
  BY WorkingIs
<1>2. CompactAll(Working(s), oracle, window) =
        IF CanRewrite(oracle, all, window)
        THEN <<Blob("v3", NextDepth(all), Rewritten(all, window))>>
        ELSE <<Blob("v2", NextDepth(all), Heuristic(all))>>
  BY DEF CompactAll
<1> HIDE DEF all
<1>3. /\ NextDepth(all) \in 1 .. MaxDepth
      /\ Rewritten(all, window) \in Seq(Facts) /\ Heuristic(all) \in Seq(Facts)
      /\ ToSet(Rewritten(all, window)) \subseteq FactsOf(all)
      /\ ToSet(Heuristic(all)) \subseteq FactsOf(all)
      /\ Tidy(all) => Distinct(Rewritten(all, window)) /\ Distinct(Heuristic(all))
  BY <1>1, NextDepthIs, RewrittenIs, HeuristicIs
<1> DEFINE b3 == Blob("v3", NextDepth(all), Rewritten(all, window))
           b2 == Blob("v2", NextDepth(all), Heuristic(all))
<1>4. /\ b3 \in Items /\ b3.kind = "blob" /\ b3.says = Rewritten(all, window)
  BY <1>3, BlobIs
<1>5. /\ b2 \in Items /\ b2.kind = "blob" /\ b2.says = Heuristic(all) /\ b2.engine = "v2"
  BY <1>3, BlobIs
<1> HIDE DEF b3, b2
<1>6. CASE CanRewrite(oracle, all, window)
  BY <1>1, <1>2, <1>3, <1>4, <1>6 DEF b3, all
<1>7. CASE ~ CanRewrite(oracle, all, window)
  BY <1>1, <1>2, <1>3, <1>5, <1>7 DEF b2, all
<1> QED
  BY <1>6, <1>7

LEMMA WindowIs ==
  ASSUME NEW catalog \in Catalogs
  PROVE  Window(catalog) \in Nat
<1>1. catalog \in Seq([runtime : Nat, trained : Nat])
  BY CompactionAssumption
<1>2. CASE catalog = <<>>
  BY <1>2 DEF Window
<1>3. CASE catalog # <<>>
  <2>1. Head(catalog) \in [runtime : Nat, trained : Nat]
    BY <1>1, <1>3, HeadTailProperties
  <2>2. Window(catalog) \in {Head(catalog).runtime, Head(catalog).trained}
    BY <1>3 DEF Window
  <2> QED
    BY <2>1, <2>2
<1> QED
  BY <1>2, <1>3

-----------------------------------------------------------------------------
(* The invariant.  Every call that is not answered has nothing but calls   *)
(* and outputs after it; an output that has lost its call has lost it by a *)
(* trimming; no fact is said twice, and only the first item is a summary.  *)
Open(s, c) ==
  \E j \in DOMAIN s : /\ s[j].kind = "call" /\ s[j].call = c
                      /\ \A l \in j .. Len(s) : ToolLike(s[l])

CompactionInv ==
  /\ CompactionTypeOK
  /\ asking => due = {}
  /\ \A c \in due : Open(hist, c)
  /\ Runs(hist, cut)
  /\ Tidy(hist)
  /\ FactsOf(hist) \subseteq 1 .. said
  /\ \A k \in Summaries(hist) : k = 1

LEMMA AppendIs ==
  ASSUME NEW s \in Seq(Items), NEW i \in Items, NEW f, i.says = <<f>>, f \notin FactsOf(s),
         i.kind # "blob", NEW gone
  PROVE  /\ Append(s, i) \in Seq(Items)
         /\ Tidy(s) => Tidy(Append(s, i))
         /\ FactsOf(Append(s, i)) \subseteq FactsOf(s) \cup {f}
         /\ Summaries(Append(s, i)) = Summaries(s)
         /\ Runs(s, gone) /\ (AnswersCall(i) => Open(s, i.call))
            => Runs(Append(s, i), gone)
         /\ i.kind = "call" => Open(Append(s, i), i.call)
         /\ \A c : Open(s, c) /\ ToolLike(i) => Open(Append(s, i), c)
<1> DEFINE n == Len(s)
           t == Append(s, i)
<1>1. /\ n \in Nat /\ DOMAIN s = 1 .. n
      /\ t \in Seq(Items) /\ Len(t) = n + 1 /\ DOMAIN t = 1 .. n + 1
      /\ t[n + 1] = i /\ \A k \in 1 .. n : t[k] = s[k]
  BY AppendProperties, LenProperties
<1>2. ToSet(i.says) = {f} /\ Distinct(i.says)
  <2>1. ToSet(<<f>>) = {f} /\ Distinct(<<f>>)
    BY DEF ToSet, Distinct
  <2> QED
    BY <2>1
<1> HIDE DEF t, n
<1>3. \A k \in 1 .. n + 1 : k \in 1 .. n \/ k = n + 1
  BY <1>1
<1>4. \A k \in 1 .. n : k \in 1 .. n + 1 /\ k # n + 1
  BY <1>1
<1>5. n + 1 \in 1 .. n + 1
  BY <1>1
<1>6. FactsOf(t) \subseteq FactsOf(s) \cup {f}
  <2>1. ASSUME NEW k \in DOMAIN t PROVE ToSet(t[k].says) \subseteq FactsOf(s) \cup {f}
    <3>1. CASE k \in 1 .. n
      BY <1>1, <3>1 DEF FactsOf
    <3>2. CASE k = n + 1
      BY <1>1, <1>2, <3>2
    <3> QED
      BY <1>1, <1>3, <3>1, <3>2
  <2> QED
    BY <2>1 DEF FactsOf
<1>7. ASSUME Tidy(s) PROVE Tidy(t)
  <2>1. \A k \in DOMAIN t : Distinct(t[k].says)
    BY <1>1, <1>2, <1>3, <1>7 DEF Tidy
  <2>2. \A k \in 1 .. n : ToSet(t[k].says) \cap ToSet(i.says) = {}
    BY <1>1, <1>2 DEF FactsOf
  <2>3. \A j, k \in 1 .. n : j # k => ToSet(t[j].says) \cap ToSet(t[k].says) = {}
    BY <1>1, <1>7 DEF Tidy
  <2>4. \A j, k \in DOMAIN t : j # k => ToSet(t[j].says) \cap ToSet(t[k].says) = {}
    <3>1. ASSUME NEW j \in DOMAIN t, NEW k \in DOMAIN t, j # k
          PROVE  ToSet(t[j].says) \cap ToSet(t[k].says) = {}
      <4>1. CASE j \in 1 .. n /\ k \in 1 .. n
        BY <2>3, <3>1, <4>1
      <4>2. CASE j \in 1 .. n /\ k = n + 1
        BY <1>1, <2>2, <4>2
      <4>3. CASE j = n + 1 /\ k \in 1 .. n
        BY <1>1, <2>2, <4>3
      <4> QED
        BY <1>1, <1>3, <3>1, <4>1, <4>2, <4>3
    <3> QED
      BY <3>1
  <2> QED
    BY <2>1, <2>4 DEF Tidy
<1>8. Summaries(t) = Summaries(s)
  BY <1>1, <1>3, <1>4 DEF Summaries, IsBlob
<1>9. ASSUME NEW c, NEW j \in 1 .. n, s[j].kind = "call", s[j].call = c,
             \A l \in j .. n : ToolLike(s[l]), ToolLike(i)
      PROVE  /\ j \in 1 .. n + 1 /\ t[j].kind = "call" /\ t[j].call = c
             /\ \A l \in j .. n + 1 : ToolLike(t[l])
  <2>1. \A l \in j .. n + 1 : (l \in j .. n /\ l \in 1 .. n) \/ l = n + 1
    BY <1>1
  <2>2. \A l \in j .. n + 1 : ToolLike(t[l])
    BY <1>1, <1>9, <2>1
  <2> QED
    BY <1>1, <1>4, <1>9, <2>2
<1>10. ASSUME Runs(s, gone), AnswersCall(i) => Open(s, i.call)
       PROVE  Runs(t, gone)
  <2>1. ASSUME NEW k \in 1 .. n, AnswersCall(t[k]), t[k].call \notin gone
        PROVE  \E j \in 1 .. k : Called(t, j, k)
    <3>1. t[k] = s[k] /\ k \in DOMAIN s
      BY <1>1
    <3>2. PICK j \in 1 .. k : Called(s, j, k)
      BY <1>10, <2>1, <3>1 DEF Runs
    <3>3. \A l \in j .. k : t[l] = s[l]
      BY <1>1
    <3>4. j \in j .. k /\ k \in j .. k
      OBVIOUS
    <3>5. Called(t, j, k)
      BY <3>2, <3>3, <3>4 DEF Called
    <3> QED
      BY <3>5
  <2>2. ASSUME AnswersCall(i)
        PROVE  \E j \in 1 .. n + 1 : Called(t, j, n + 1)
    <3>1. PICK j \in 1 .. n : /\ s[j].kind = "call" /\ s[j].call = i.call
                              /\ \A l \in j .. n : ToolLike(s[l])
      BY <1>1, <1>10, <2>2 DEF Open, n
    <3>2. ToolLike(i)
      BY <2>2 DEF ToolLike, AnswersCall
    <3>3. /\ j \in 1 .. n + 1 /\ t[j].kind = "call" /\ t[j].call = i.call
          /\ \A l \in j .. n + 1 : ToolLike(t[l])
      BY <1>9, <3>1, <3>2
    <3>4. Called(t, j, n + 1)
      BY <1>1, <3>3 DEF Called
    <3> QED
      BY <3>3, <3>4
  <2>3. ASSUME NEW k \in DOMAIN t, AnswersCall(t[k])
        PROVE  t[k].call \in gone \/ \E j \in 1 .. k : Called(t, j, k)
    <3>1. CASE k \in 1 .. n
      BY <2>1, <2>3, <3>1
    <3>2. CASE k = n + 1
      BY <1>1, <2>2, <2>3, <3>2
    <3> QED
      BY <1>1, <1>3, <3>1, <3>2
  <2> QED
    BY <2>3 DEF Runs
<1>11. ASSUME i.kind = "call" PROVE Open(t, i.call)
  <2>1. \A l \in n + 1 .. Len(t) : l = n + 1
    BY <1>1
  <2>2. ToolLike(i)
    BY <1>11 DEF ToolLike
  <2>3. \A l \in n + 1 .. Len(t) : ToolLike(t[l])
    BY <1>1, <2>1, <2>2
  <2> QED
    BY <1>1, <1>5, <1>11, <2>3 DEF Open
<1>12. ASSUME NEW c, Open(s, c), ToolLike(i) PROVE Open(t, c)
  <2>1. PICK j \in 1 .. n : /\ s[j].kind = "call" /\ s[j].call = c
                            /\ \A l \in j .. n : ToolLike(s[l])
    BY <1>1, <1>12 DEF Open, n
  <2>2. /\ j \in 1 .. n + 1 /\ t[j].kind = "call" /\ t[j].call = c
        /\ \A l \in j .. n + 1 : ToolLike(t[l])
    BY <1>9, <1>12, <2>1
  <2> QED
    BY <1>1, <2>2 DEF Open
<1> QED
  BY <1>1, <1>6, <1>7, <1>8, <1>10, <1>11, <1>12 DEF t

LEMMA FactsAreNumbered ==
  ASSUME CompactionInv
  PROVE  FactsOf(hist) \subseteq Facts /\ said \in Nat /\ MaxFacts \in Nat
BY Numbers DEF CompactionInv, CompactionTypeOK, Facts

LEMMA GrowKeeps ==
  ASSUME CompactionInv, NEW i \in Items, i.says = <<said + 1>>, i.kind # "blob", Grow(i),
         AnswersCall(i) => Open(hist, i.call)
  PROVE  /\ hist' \in Seq(Items) /\ said' \in 0 .. MaxFacts /\ asking' = FALSE
         /\ fed' = fed /\ cut' = cut
         /\ Runs(hist', cut') /\ Tidy(hist') /\ FactsOf(hist') \subseteq 1 .. said'
         /\ \A k \in Summaries(hist') : k = 1
         /\ \A c : Open(hist, c) /\ ToolLike(i) => Open(hist', c)
         /\ i.kind = "call" => Open(hist', i.call)
<1>1. /\ ~ asking /\ said < MaxFacts /\ said' = said + 1 /\ hist' = Append(hist, i)
      /\ UNCHANGED <<asking, fed, cut>>
  BY DEF Grow
<1>2. said \in Nat /\ MaxFacts \in Nat /\ said' \in 0 .. MaxFacts
  BY <1>1, FactsAreNumbered
<1>3. /\ hist \in Seq(Items) /\ FactsOf(hist) \subseteq 1 .. said /\ asking \in BOOLEAN
      /\ Runs(hist, cut) /\ Tidy(hist) /\ \A k \in Summaries(hist) : k = 1
  BY DEF CompactionInv, CompactionTypeOK
<1>4. said + 1 \notin FactsOf(hist)
  BY <1>2, <1>3
<1>5. /\ hist' \in Seq(Items) /\ Tidy(hist')
      /\ FactsOf(hist') \subseteq FactsOf(hist) \cup {said + 1}
      /\ Summaries(hist') = Summaries(hist) /\ Runs(hist', cut)
      /\ i.kind = "call" => Open(hist', i.call)
      /\ \A c : Open(hist, c) /\ ToolLike(i) => Open(hist', c)
  BY <1>1, <1>3, <1>4, AppendIs
<1>6. FactsOf(hist') \subseteq 1 .. said'
  <2>1. (1 .. said) \cup {said + 1} \subseteq 1 .. said'
    BY <1>1, <1>2
  <2> QED
    BY <1>3, <1>5, <2>1
<1> QED
  BY <1>1, <1>2, <1>3, <1>5, <1>6

LEMMA NewItems ==
  ASSUME CompactionInv, said < MaxFacts
  PROVE  /\ said + 1 \in Facts
         /\ Talk(<<said + 1>>) \in Items
         /\ Plain("thought", NoCall, <<said + 1>>) \in Items
         /\ Plain("call", said + 1, <<said + 1>>) \in Items
         /\ \A c \in Facts \cup {NoCall} : Plain("output", c, <<said + 1>>) \in Items
<1>1. said + 1 \in Facts
  BY FactsAreNumbered DEF Facts
<1>2. <<said + 1>> \in Seq(Facts)
  BY <1>1
<1>3. <<said + 1>> \in {<<f>> : f \in Facts}
  BY <1>1
<1> QED
  BY <1>1, <1>2, <1>3 DEF Items, Talk, Plain, NoCall

LEMMA SpeakKeeps == CompactionInv /\ (Speak \/ Think \/ Show) => CompactionInv'
<1> SUFFICES ASSUME CompactionInv, Speak \/ Think \/ Show PROVE CompactionInv'
  OBVIOUS
<1>1. PICK i \in {Talk(<<said + 1>>), Plain("thought", NoCall, <<said + 1>>),
                  Plain("output", NoCall, <<said + 1>>)} :
        Grow(i) /\ due = {} /\ due' = {}
  BY DEF Speak, Think, Show
<1>2. said < MaxFacts
  BY <1>1 DEF Grow
<1>3. /\ i \in Items /\ i.says = <<said + 1>> /\ i.call = NoCall
      /\ i.kind \in {"talk", "thought", "output"}
  BY <1>1, <1>2, NewItems DEF Talk, Plain
<1>4. /\ hist' \in Seq(Items) /\ said' \in 0 .. MaxFacts /\ asking' = FALSE
      /\ fed' = fed /\ cut' = cut
      /\ Runs(hist', cut') /\ Tidy(hist') /\ FactsOf(hist') \subseteq 1 .. said'
      /\ \A k \in Summaries(hist') : k = 1
  BY <1>1, <1>3, GrowKeeps DEF AnswersCall
<1> QED
  BY <1>1, <1>4 DEF CompactionInv, CompactionTypeOK

LEMMA UseKeeps == CompactionInv /\ Use => CompactionInv'
<1> SUFFICES ASSUME CompactionInv, Use PROVE CompactionInv'
  OBVIOUS
<1> DEFINE i == Plain("call", said + 1, <<said + 1>>)
<1>1. Grow(i) /\ due' = due \cup {said + 1}
  BY DEF Use
<1>2. said < MaxFacts
  BY <1>1 DEF Grow
<1>3. i \in Items /\ i.says = <<said + 1>> /\ i.kind = "call" /\ i.call = said + 1
      /\ said + 1 \in Facts
  BY <1>2, NewItems DEF Plain
<1> HIDE DEF i
<1>4. /\ hist' \in Seq(Items) /\ said' \in 0 .. MaxFacts /\ asking' = FALSE
      /\ fed' = fed /\ cut' = cut
      /\ Runs(hist', cut') /\ Tidy(hist') /\ FactsOf(hist') \subseteq 1 .. said'
      /\ \A k \in Summaries(hist') : k = 1
      /\ \A c : Open(hist, c) /\ ToolLike(i) => Open(hist', c)
      /\ Open(hist', i.call)
  BY <1>1, <1>3, GrowKeeps DEF AnswersCall
<1>5. ToolLike(i)
  BY <1>3 DEF ToolLike
<1>6. \A c \in due' : Open(hist', c)
  BY <1>1, <1>3, <1>4, <1>5 DEF CompactionInv
<1>7. due' \subseteq Facts /\ fed' \subseteq Facts /\ cut' \subseteq Facts
  BY <1>1, <1>3, <1>4 DEF CompactionInv, CompactionTypeOK
<1> QED
  BY <1>4, <1>6, <1>7 DEF CompactionInv, CompactionTypeOK

LEMMA ResultKeeps == CompactionInv /\ Result => CompactionInv'
<1> SUFFICES ASSUME CompactionInv, Result PROVE CompactionInv'
  OBVIOUS
<1>1. PICK c \in due : Grow(Plain("output", c, <<said + 1>>)) /\ due' = due \ {c}
  BY DEF Result
<1> DEFINE i == Plain("output", c, <<said + 1>>)
<1>2. said < MaxFacts /\ c \in Facts
  BY <1>1 DEF Grow, CompactionInv, CompactionTypeOK
<1>3. i \in Items /\ i.says = <<said + 1>> /\ i.kind = "output" /\ i.call = c
  BY <1>2, NewItems DEF Plain
<1>0. Grow(i)
  BY <1>1
<1> HIDE DEF i
<1>4. Open(hist, i.call)
  BY <1>3 DEF CompactionInv
<1>5. /\ hist' \in Seq(Items) /\ said' \in 0 .. MaxFacts /\ asking' = FALSE
      /\ fed' = fed /\ cut' = cut
      /\ Runs(hist', cut') /\ Tidy(hist') /\ FactsOf(hist') \subseteq 1 .. said'
      /\ \A k \in Summaries(hist') : k = 1
      /\ \A d : Open(hist, d) /\ ToolLike(i) => Open(hist', d)
  BY <1>0, <1>3, <1>4, GrowKeeps
<1>6. ToolLike(i)
  BY <1>3 DEF ToolLike
<1>7. \A d \in due' : Open(hist', d)
  BY <1>1, <1>5, <1>6 DEF CompactionInv
<1>8. due' \subseteq Facts /\ fed' \subseteq Facts /\ cut' \subseteq Facts
  BY <1>1, <1>5 DEF CompactionInv, CompactionTypeOK
<1> QED
  BY <1>5, <1>7, <1>8 DEF CompactionInv, CompactionTypeOK

LEMMA PreparedIs ==
  ASSUME CompactionInv
  PROVE  /\ Prepared \in Seq(Items) /\ NoBlobs(Prepared) /\ Tidy(Prepared)
         /\ Runs(Prepared, cut) /\ FactsOf(Prepared) \subseteq FactsOf(hist)
<1>1. hist \in Seq(Items) /\ Tidy(hist) /\ Runs(hist, cut)
  BY DEF CompactionInv, CompactionTypeOK
<1> DEFINE m == Expand(hist)
<1>2. /\ m \in Seq(Items) /\ NoBlobs(m) /\ Tidy(m) /\ Runs(m, cut)
      /\ FactsOf(m) = FactsOf(hist)
  BY <1>1, ExpandIs, ExpandKeeps
<1>3. Prepared = Microcompact(m)
  BY DEF Prepared
<1> HIDE DEF m
<1> QED
  BY <1>2, <1>3, MicrocompactIs, MicrocompactKeeps

LEMMA SendKeeps == CompactionInv /\ (Send \/ Answer) => CompactionInv'
<1> SUFFICES ASSUME CompactionInv, Send \/ Answer PROVE CompactionInv'
  OBVIOUS
<1>1. /\ UNCHANGED <<hist, said, due, cut>> /\ asking' \in BOOLEAN
      /\ asking' => due = {}
      /\ fed' \in {fed, FactsOf(Shown(Prepared))}
  BY DEF Send, Answer
<1>2. FactsOf(Shown(Prepared)) \subseteq Facts
  BY PreparedIs, ShownKeeps, FactsAreNumbered
<1>3. fed' \subseteq Facts
  BY <1>1, <1>2 DEF CompactionInv, CompactionTypeOK
<1> QED
  BY <1>1, <1>3 DEF CompactionInv, CompactionTypeOK

LEMMA ShortenKeeps == CompactionInv /\ Shorten => CompactionInv'
<1> SUFFICES ASSUME CompactionInv, Shorten PROVE CompactionInv'
  OBVIOUS
<1> DEFINE new == CompactOld(Prepared).items
           out == CompactOld(Prepared).cut
<1>1. /\ hist' = new /\ cut' = cut \cup out
      /\ asking /\ UNCHANGED <<said, asking, fed, due>>
  BY DEF Shorten
<1>2. /\ new \in Seq(Items) /\ Tidy(new) /\ Runs(new, cut \cup out)
      /\ FactsOf(new) \subseteq FactsOf(Prepared) /\ out \subseteq Facts
      /\ \A k \in Summaries(new) : k = 1
  BY PreparedIs, CompactOldKeeps
<1>3. FactsOf(new) \subseteq 1 .. said
  BY <1>2, PreparedIs DEF CompactionInv
<1> HIDE DEF new, out
<1>4. due = {} /\ due' = {} /\ cut' \subseteq Facts
  BY <1>1, <1>2 DEF CompactionInv, CompactionTypeOK
<1> QED
  BY <1>1, <1>2, <1>3, <1>4 DEF CompactionInv, CompactionTypeOK

LEMMA CompactKeeps == CompactionInv /\ Compact => CompactionInv'
<1> SUFFICES ASSUME CompactionInv, Compact PROVE CompactionInv'
  OBVIOUS
<1>1. PICK oracle \in Oracles : \E catalog \in Catalogs :
        hist' = CompactAll(Working(hist), oracle, Window(catalog))
  BY DEF Compact
<1>2. PICK catalog \in Catalogs : hist' = CompactAll(Working(hist), oracle, Window(catalog))
  BY <1>1
<1>3. ~ asking /\ due = {} /\ UNCHANGED <<said, asking, fed, due, cut>>
  BY DEF Compact
<1>4. hist \in Seq(Items) /\ Tidy(hist) /\ FactsOf(hist) \subseteq 1 .. said
  BY DEF CompactionInv, CompactionTypeOK
<1>5. PICK b \in Items : /\ hist' = <<b>> /\ b.kind = "blob"
                         /\ ToSet(b.says) \subseteq FactsOf(hist) /\ Distinct(b.says)
  BY <1>2, <1>4, WindowIs, CompactAllIs
<1>6. hist' \in Seq(Items) /\ DOMAIN hist' = {1} /\ hist'[1] = b
  BY <1>5
<1>7. Tidy(hist') /\ FactsOf(hist') \subseteq 1 .. said
  BY <1>4, <1>5, <1>6 DEF Tidy, FactsOf
<1>8. Runs(hist', cut')
  BY <1>5, <1>6 DEF Runs, AnswersCall
<1>9. \A k \in Summaries(hist') : k = 1
  BY <1>6 DEF Summaries
<1> QED
  BY <1>3, <1>6, <1>7, <1>8, <1>9 DEF CompactionInv, CompactionTypeOK

LEMMA CompactionInvHolds == CompactionSpec => []CompactionInv
<1>1. CompactionInit => CompactionInv
  <2> SUFFICES ASSUME CompactionInit PROVE CompactionInv
    OBVIOUS
  <2>1. /\ hist = <<>> /\ said = 0 /\ asking = FALSE /\ fed = {} /\ due = {} /\ cut = {}
        /\ DOMAIN hist = {} /\ MaxFacts \in Nat
    BY Numbers DEF CompactionInit
  <2>2. CompactionTypeOK
    <3>1. said \in 0 .. MaxFacts
      <4>1. 0 \in 0 .. MaxFacts
        BY Numbers
      <4> QED
        BY <2>1, <4>1
    <3>4. asking \in BOOLEAN
      BY <2>1
    <3>3. hist \in Seq(Items)
      <4>1. <<>> \in Seq(Items)
        OBVIOUS
      <4> QED
        BY <2>1, <4>1
    <3>2. fed \subseteq Facts /\ due \subseteq Facts /\ cut \subseteq Facts
      BY <2>1
    <3> QED
      BY <3>1, <3>2, <3>3, <3>4 DEF CompactionTypeOK
  <2>3. Runs(hist, cut) /\ Tidy(hist) /\ FactsOf(hist) = {} /\ Summaries(hist) = {}
    BY <2>1 DEF Runs, Tidy, FactsOf, Summaries
  <2> QED
    BY <2>1, <2>2, <2>3 DEF CompactionInv
<1>2. CompactionInv /\ [CompactionNext]_compactionVars => CompactionInv'
  <2> SUFFICES ASSUME CompactionInv, [CompactionNext]_compactionVars PROVE CompactionInv'
    OBVIOUS
  <2>1. CASE CompactionNext
    BY <2>1, SpeakKeeps, UseKeeps, ResultKeeps, SendKeeps, ShortenKeeps, CompactKeeps
    DEF CompactionNext
  <2>2. CASE UNCHANGED compactionVars
    BY <2>2 DEF CompactionInv, CompactionTypeOK, compactionVars
  <2> QED
    BY <2>1, <2>2
<1> QED
  BY <1>1, <1>2, PTL DEF CompactionSpec

-----------------------------------------------------------------------------
(* The conversation is made of items, and what is open, said and trimmed   *)
(* are facts of it.                                                        *)
THEOREM ConversationsAreTyped == CompactionSpec => []CompactionTypeOK
<1>1. CompactionInv => CompactionTypeOK
  BY DEF CompactionInv
<1> QED
  BY <1>1, CompactionInvHolds, PTL

(* However often a history is compacted, an output of the client's has its *)
(* call before it, or has lost it by a trimming of the recent items: a tail *)
(* never begins in the middle of a run of calls and outputs, although      *)
(* messages of the harness are dropped and old outputs become remarks      *)
(* (_tail_start_for_compaction, _microcompact_old_tool_results).           *)
THEOREM CallsAreSeen == CompactionSpec => []OutputsFollowCalls
<1>1. CompactionInv => OutputsFollowCalls
  <2> SUFFICES ASSUME CompactionInv, NEW k \in DOMAIN hist, AnswersCall(hist[k])
               PROVE  hist[k].call \in CallsOf(SubSeq(hist, 1, k - 1)) \cup cut
    BY DEF OutputsFollowCalls, AnswersCall
  <2>1. hist \in Seq(Items) /\ Len(hist) \in Nat /\ DOMAIN hist = 1 .. Len(hist)
    BY LenProperties DEF CompactionInv, CompactionTypeOK
  <2>2. SUFFICES ASSUME hist[k].call \notin cut
                 PROVE  hist[k].call \in CallsOf(SubSeq(hist, 1, k - 1))
    OBVIOUS
  <2>3. PICK j \in 1 .. k : Called(hist, j, k)
    BY <2>2 DEF CompactionInv, Runs
  <2>4. j # k
    BY <2>3 DEF Called, AnswersCall
  <2>5. j \in 1 .. k - 1 /\ k - 1 \in Nat /\ k - 1 <= Len(hist)
    BY <2>1, <2>4
  <2>6. /\ DOMAIN SubSeq(hist, 1, k - 1) = 1 .. k - 1
        /\ SubSeq(hist, 1, k - 1)[j] = hist[j]
    BY <2>1, <2>5, BeforeIs
  <2> QED
    BY <2>3, <2>5, <2>6 DEF CallsOf, Called
<1> QED
  BY <1>1, CompactionInvHolds, PTL

(* A summary that the model writes has all of the earlier summary, and all *)
(* that a model would be given of the conversation if that fits            *)
(* (_extract_previous_anchored_summary,                                    *)
(* _build_survival_weighted_compaction_prompt).                            *)
THEOREM SummariesLast == CompactionSpec => SummaryCarriedOver
<1>1. ASSUME CompactionInv, CompactionNext, Compacted("v3")
      PROVE  LET old == SummaryFacts(hist)
                 read == FactsOf(Shown(Working(hist)))
                 new == FactsOf(hist')
             IN  /\ old \subseteq new
                 /\ Cardinality(read) <= DefaultInput => read \subseteq new
  <2>1. hist' # hist /\ said' = said /\ IsBlob(hist'[1]) /\ hist'[1].engine = "v3"
    BY <1>1 DEF Compacted
  <2>2. said \in Nat
    BY <1>1, FactsAreNumbered
  <2>3. ~ Shorten
    <3>1. SUFFICES ASSUME Shorten PROVE FALSE
      OBVIOUS
    <3>2. hist' = CompactOld(Prepared).items
      BY <3>1 DEF Shorten
    <3>3. hist'[1].engine = "v2"
      BY <1>1, <3>2, PreparedIs, CompactOldKeeps
    <3> QED
      BY <2>1, <3>3
  <2>4. ~ (Speak \/ Think \/ Show \/ Use \/ Result)
    <3>1. said + 1 # said
      BY <2>2
    <3> QED
      BY <2>1, <3>1 DEF Speak, Think, Show, Use, Result, Grow
  <2>5. Compact
    <3>1. ~ (Send \/ Answer)
      BY <2>1 DEF Send, Answer
    <3> QED
      BY <1>1, <2>3, <2>4, <3>1 DEF CompactionNext
  <2>6. PICK oracle \in Oracles : \E catalog \in Catalogs :
          hist' = CompactAll(Working(hist), oracle, Window(catalog))
    BY <2>5 DEF Compact
  <2>7. PICK catalog \in Catalogs : hist' = CompactAll(Working(hist), oracle, Window(catalog))
    BY <2>6
  <2>8. /\ hist \in Seq(Items) /\ Tidy(hist) /\ \A k \in Summaries(hist) : k = 1
        /\ Window(catalog) \in Nat
    BY <1>1, WindowIs DEF CompactionInv, CompactionTypeOK
  <2> DEFINE all == Working(hist)
             text == Rewritten(all, Window(catalog))
  <2>9. PICK b \in Items :
          /\ hist' = <<b>> /\ (b.engine = "v3" => b.says = text)
    BY <2>7, <2>8, CompactAllIs
  <2>10. FactsOf(hist') = ToSet(text)
    <3>1. DOMAIN hist' = {1} /\ hist'[1] = b
      BY <2>9
    <3>2. b.says = text
      BY <2>1, <2>9, <3>1
    <3> HIDE DEF text
    <3> QED
      BY <3>1, <3>2 DEF FactsOf
  <2>11. all \in Seq(Items) /\ Tidy(all)
    BY <2>8, WorkingIs
  <2>12. /\ ToSet(Previous(all)) \subseteq ToSet(text)
         /\ Cardinality(FactsOf(Shown(all))) <= DefaultInput
            => FactsOf(Shown(all)) \subseteq ToSet(text)
    <3> HIDE DEF all
    <3> QED
      BY <2>8, <2>11, RewrittenIs
  <2>13. SummaryFacts(hist) \subseteq ToSet(Previous(all))
    <3> SUFFICES ASSUME NEW j \in Summaries(hist)
                 PROVE  ToSet(hist[j].says) \subseteq ToSet(Previous(all))
      BY DEF SummaryFacts
    <3>1. PICK k \in Summaries(all) : all[k] = hist[j]
      BY <2>8, WorkingBlobs
    <3>2. PICK l \in Summaries(all) : Previous(all) = all[l].says
      BY <2>11, <3>1, PreviousIs
    <3>3. PICK i \in Summaries(hist) : all[l] = hist[i]
      BY <2>8, <3>2, WorkingBlobs
    <3>4. i = j
      BY <2>8
    <3> QED
      BY <3>2, <3>3, <3>4
  <2> HIDE DEF text, all
  <2> QED
    BY <2>10, <2>12, <2>13 DEF all
<1>2. CompactionInv /\ [CompactionNext]_compactionVars /\ Compacted("v3")
      => CompactionNext
  BY DEF Compacted, compactionVars
<1> QED
  BY <1>1, <1>2, CompactionInvHolds, PTL DEF CompactionSpec, SummaryCarriedOver

(* A step with a request open that changes the history compacts it.        *)
LEMMA OnlyShortens ==
  ASSUME CompactionNext, hist' # hist, asking
  PROVE  Shorten
BY DEF CompactionNext, Speak, Think, Show, Use, Result, Grow, Send, Answer, Compact

LEMMA FewIs ==
  ASSUME NEW all \in Seq(Items)
  PROVE  /\ Min({MinPreserve, Len(all)}) \in Nat
         /\ Min({MinPreserve, Len(all)}) <= Len(all)
         /\ Min({MinPreserve, Len(all)}) <= MinPreserve
<1>1. MinPreserve \in Nat /\ Len(all) \in Nat
  BY Numbers, LenProperties
<1>2. Min({MinPreserve, Len(all)}) = IF MinPreserve <= Len(all) THEN MinPreserve ELSE Len(all)
  BY <1>1, OfTwo
<1> QED
  BY <1>1, <1>2

LEMMA EndingIs ==
  ASSUME NEW s \in Seq(Items), NEW n \in Nat, n <= Len(s)
  PROVE  /\ Ending(s, n) \in Seq(Items) /\ Len(Ending(s, n)) = n
         /\ \A k \in 1 .. n : /\ Ending(s, n)[k] = s[Len(s) - n + k]
                              /\ Len(s) - n + k \in 1 .. Len(s)
<1> DEFINE a == Len(s) - n + 1
<1>1. Len(s) \in Nat /\ a \in Nat \ {0} /\ a <= Len(s) + 1 /\ Len(s) - a + 1 = n
  BY LenProperties
<1>2. Ending(s, n) = SubSeq(s, a, Len(s))
  BY DEF Ending
<1> HIDE DEF a
<1>3. /\ SubSeq(s, a, Len(s)) \in Seq(Items) /\ Len(SubSeq(s, a, Len(s))) = n
      /\ \A k \in 1 .. n : SubSeq(s, a, Len(s))[k] = s[a + k - 1]
  BY <1>1, RestIs
<1>4. \A k \in 1 .. n : a + k - 1 = Len(s) - n + k /\ Len(s) - n + k \in 1 .. Len(s)
  BY <1>1 DEF a
<1> QED
  BY <1>2, <1>3, <1>4

(* The last items of all are those of the recent that are left.            *)
LEMMA EndingOfRest ==
  ASSUME NEW all \in Seq(Items), NEW n \in 0 .. Len(Recent(all)),
         NEW h \in Items, NEW m \in Nat, m <= Len(Recent(all)) - n
  PROVE  /\ Ending(<<h>> \o SubSeq(Recent(all), n + 1, Len(Recent(all))), m) = Ending(all, m)
         /\ m = Len(Recent(all)) - n
            => SubSeq(Recent(all), n + 1, Len(Recent(all))) = Ending(all, m)
<1> DEFINE t == TailStart(all)
           r == Recent(all)
           rest == SubSeq(r, n + 1, Len(r))
           new == <<h>> \o rest
           l == Len(all)
<1>1. l \in Nat /\ t \in Nat \ {0} /\ t <= l + 1
  BY TailStartIs, StartIs, LenProperties
<1>2. /\ r \in Seq(Items) /\ Len(r) = l - t + 1
      /\ \A k \in 1 .. Len(r) : r[k] = all[t + k - 1]
  BY <1>1, RestIs DEF Recent
<1>3. Len(r) \in Nat /\ n \in Nat /\ n + 1 \in Nat \ {0} /\ n + 1 <= Len(r) + 1
  BY <1>2, LenProperties
<1> DEFINE p == Len(r) - n
<1>4. /\ rest \in Seq(Items) /\ Len(rest) = p /\ p \in Nat
      /\ \A k \in 1 .. p : rest[k] = r[(n + 1) + k - 1]
  <2>1. Len(r) - (n + 1) + 1 = p
    BY <1>3
  <2> QED
    BY <1>2, <1>3, <2>1, RestIs
<1> HIDE DEF r, rest, t, l
<1>5. /\ new \in Seq(Items) /\ Len(new) = 1 + p
      /\ \A k \in 1 .. p : new[1 + k] = rest[k]
  BY <1>4, OneBefore
<1>6. m <= p /\ m <= 1 + p /\ m <= l
  <2>1. m <= p
    BY DEF r
  <2> QED
    BY <1>1, <1>2, <1>3, <1>4, <2>1
<1> HIDE DEF p
<1>7. p = Len(r) - n
  BY DEF p
<1>8. \A k \in 1 .. p : rest[k] = all[(l - p) + k]
  <2>1. ASSUME NEW k \in 1 .. p
        PROVE  /\ (n + 1) + k - 1 = n + k /\ n + k \in 1 .. Len(r)
               /\ t + (n + k) - 1 = (l - p) + k
    BY <1>1, <1>2, <1>3, <1>4, <1>7
  <2>2. ASSUME NEW k \in 1 .. p PROVE rest[k] = all[(l - p) + k]
    <3>1. rest[k] = r[n + k]
      BY <1>4, <2>1
    <3>2. r[n + k] = all[t + (n + k) - 1]
      BY <1>2, <2>1
    <3> QED
      BY <2>1, <3>1, <3>2
  <2> QED
    BY <2>2
<1> HIDE DEF new
<1>9. /\ Ending(all, m) \in Seq(Items) /\ Len(Ending(all, m)) = m
      /\ \A k \in 1 .. m : Ending(all, m)[k] = all[l - m + k]
  BY <1>6, EndingIs DEF l
<1>10. /\ Ending(new, m) \in Seq(Items) /\ Len(Ending(new, m)) = m
       /\ \A k \in 1 .. m : Ending(new, m)[k] = new[(1 + p) - m + k]
  <2>1. m <= Len(new)
    BY <1>5, <1>6
  <2>2. /\ Ending(new, m) \in Seq(Items) /\ Len(Ending(new, m)) = m
        /\ \A k \in 1 .. m : Ending(new, m)[k] = new[Len(new) - m + k]
    BY <1>5, <2>1, EndingIs
  <2> QED
    BY <1>5, <2>2
<1>11. ASSUME NEW k \in 1 .. m
       PROVE  Ending(new, m)[k] = Ending(all, m)[k]
  <2>1. /\ p - m + k \in 1 .. p /\ (1 + p) - m + k = 1 + (p - m + k)
        /\ (l - p) + (p - m + k) = l - m + k
    BY <1>1, <1>4, <1>6
  <2>2. new[1 + (p - m + k)] = rest[p - m + k]
    BY <1>5, <2>1
  <2>3. rest[p - m + k] = all[(l - p) + (p - m + k)]
    BY <1>8, <2>1
  <2> QED
    BY <1>9, <1>10, <2>1, <2>2, <2>3
<1>12. Ending(new, m) = Ending(all, m)
  BY <1>9, <1>10, <1>11, SeqEqual
<1>13. ASSUME m = p PROVE rest = Ending(all, m)
  <2>1. ASSUME NEW k \in 1 .. m PROVE rest[k] = Ending(all, m)[k]
    <3>1. (l - p) + k = l - m + k
      BY <1>13
    <3> QED
      BY <1>8, <1>9, <1>13, <3>1
  <2> QED
    BY <1>4, <1>9, <1>13, <2>1, SeqEqual
<1> QED
  BY <1>7, <1>12, <1>13 DEF new, rest, r

LEMMA ShortenedIs ==
  ASSUME CompactionInv, Shorten
  PROVE  /\ Untrimmed \in Seq(Items) /\ Len(Untrimmed) <= MinPreserve
         /\ Ending(hist', Len(Untrimmed)) = Untrimmed
         /\ \/ Tokens(hist') <= TargetTokens
            \/ \E h \in Items : /\ h.kind = "blob" /\ Len(h.says) <= SummaryCap
                                /\ hist' = <<h>> \o Untrimmed
<1> DEFINE all == Working(Prepared)
           m == Min({MinPreserve, Len(all)})
           h == Head2(all)
           r == Recent(all)
<1>1. Prepared \in Seq(Items) /\ NoBlobs(Prepared)
  BY PreparedIs
<1>2. all \in Seq(Items)
  BY <1>1, WorkingIs
<1>3. m \in Nat /\ m <= Len(all) /\ m <= MinPreserve
  BY <1>2, FewIs
<1>4. Untrimmed = Ending(all, m)
  BY DEF Untrimmed
<1>5. PICK n \in 0 .. Len(r) :
        /\ CompactOld(Prepared).items = <<h>> \o SubSeq(r, n + 1, Len(r))
        /\ Len(r) - n >= m
        /\ Tokens(CompactOld(Prepared).items) <= TargetTokens \/ Len(r) - n = m
  BY <1>1, CompactOldIs
<1>6. hist' = CompactOld(Prepared).items
  BY DEF Shorten
<1> HIDE DEF all, m
<1>7. /\ h \in Items /\ h.kind = "blob" /\ Len(h.says) <= SummaryCap
      /\ r \in Seq(Items)
  <2>1. /\ h \in Items /\ h.kind = "blob" /\ h.says = Heuristic(Older(all))
        /\ Older(all) \in Seq(Items) /\ r \in Seq(Items)
    BY <1>2, RecentIs
  <2>2. Len(Heuristic(Older(all))) <= SummaryCap
    BY <2>1, HeuristicIs
  <2> QED
    BY <2>1, <2>2
<1>8. m <= Len(r) - n
  <2>1. Len(r) \in Nat /\ n \in Nat
    BY <1>7, LenProperties
  <2> QED
    BY <1>3, <1>5, <2>1
<1>9. /\ Ending(<<h>> \o SubSeq(r, n + 1, Len(r)), m) = Ending(all, m)
      /\ m = Len(r) - n => SubSeq(r, n + 1, Len(r)) = Ending(all, m)
  BY <1>2, <1>3, <1>7, <1>8, EndingOfRest
<1>10. Ending(all, m) \in Seq(Items) /\ Len(Ending(all, m)) = m
  BY <1>2, <1>3, EndingIs
<1> HIDE DEF r, h
<1>11. Ending(hist', Len(Untrimmed)) = Untrimmed
  BY <1>4, <1>5, <1>6, <1>9, <1>10
<1>12. CASE Tokens(CompactOld(Prepared).items) <= TargetTokens
  BY <1>3, <1>4, <1>6, <1>10, <1>11, <1>12
<1>13. CASE Len(r) - n = m
  <2>1. hist' = <<h>> \o Untrimmed
    BY <1>4, <1>5, <1>6, <1>9, <1>13
  <2> QED
    BY <1>3, <1>4, <1>7, <1>10, <1>11, <2>1
<1> QED
  BY <1>5, <1>12, <1>13

(* The last items of a conversation survive, word for word, in order and   *)
(* at the end, the compaction that a threshold brings about                *)
(* (_build_local_compaction_response, min_preserve_items).                 *)
THEOREM RecentItemsSurvive == CompactionSpec => RecentItemsKept
<1>1. ASSUME CompactionInv, CompactionNext, hist' # hist /\ asking
      PROVE  Ending(hist', Len(Untrimmed)) = Untrimmed
  BY <1>1, OnlyShortens, ShortenedIs
<1>2. hist' # hist /\ asking /\ [CompactionNext]_compactionVars => CompactionNext
  BY DEF compactionVars
<1> QED
  BY <1>1, <1>2, CompactionInvHolds, PTL DEF CompactionSpec, RecentItemsKept

LEMMA PreparedIsLighter ==
  ASSUME NEW s \in Seq(Items)
  PROVE  /\ Tokens(Microcompact(Expand(s))) <= Tokens(s)
         /\ Tokens(Microcompact(Expand(s))) \in Nat /\ Tokens(s) \in Nat
<1> DEFINE e == Expand(s)
           m == Microcompact(e)
           n == Len(s)
<1>1. /\ e \in Seq(Items) /\ Len(e) = n
      /\ \A k \in 1 .. n : e[k] = IF IsBlob(s[k]) THEN Talk(s[k].says) ELSE s[k]
  BY ExpandIs
<1>2. n \in Nat /\ \A k \in 1 .. n : s[k] \in Items
  BY LenProperties, ElementOfSeq
<1> HIDE DEF e, n
<1>3. /\ m \in Seq(Items) /\ Len(m) = n
      /\ \A k \in 1 .. n : m[k] = IF k < TailStart(e) /\ e[k].kind = "output"
                                  THEN Talk(e[k].says) ELSE e[k]
  BY <1>1, MicrocompactIs
<1> HIDE DEF m
<1>4. ASSUME NEW k \in 1 .. n PROVE Weight(m[k]) <= Weight(s[k])
  <2>1. s[k] \in Items /\ Weight(s[k]) \in Nat
    BY <1>2, WeightIs
  <2>2. CASE IsBlob(s[k])
    <3>1. e[k] = Talk(s[k].says) /\ e[k].kind = "talk"
      BY <1>1, <2>2 DEF Talk, Plain
    <3>2. m[k] = Talk(s[k].says)
      BY <1>3, <3>1
    <3> QED
      BY <2>1, <2>2, <3>2, TalkWeighsLess DEF IsBlob
  <2>3. CASE ~ IsBlob(s[k])
    <3>1. e[k] = s[k]
      BY <1>1, <2>3
    <3>2. m[k] = s[k] \/ (s[k].kind = "output" /\ m[k] = Talk(s[k].says))
      BY <1>3, <3>1
    <3> QED
      BY <2>1, <3>2, TalkWeighsLess
  <2> QED
    BY <2>2, <2>3
<1>5. Tokens(m) <= Tokens(s)
  BY <1>3, <1>4, LighterItems DEF n
<1>6. Tokens(m) \in Nat /\ Tokens(s) \in Nat
  BY <1>3, WeightOfIs, FS_CardinalityType
<1> QED
  BY <1>5, <1>6 DEF m, e

(* A history that has been compacted is answered when it comes again, if   *)
(* the client's threshold leaves room for it and no item that is never     *)
(* trimmed is larger than an output that is kept whole                     *)
(* (_build_local_compaction_response, context_management of POST           *)
(* /v1/responses).                                                         *)
THEOREM OnceIsEnough == CompactionSpec => TurnedBackOnce
<1>1. ASSUME CompactionInv, CompactionInv', CompactionNext,
             asking /\ hist' # hist /\ Roomy /\ Moderate(Untrimmed)
      PROVE  ~ TooLong'
  <2>1. Shorten
    BY <1>1, OnlyShortens
  <2>2. /\ Untrimmed \in Seq(Items) /\ Len(Untrimmed) <= MinPreserve
        /\ \/ Tokens(hist') <= TargetTokens
           \/ \E h \in Items : /\ h.kind = "blob" /\ Len(h.says) <= SummaryCap
                               /\ hist' = <<h>> \o Untrimmed
    BY <1>1, <2>1, ShortenedIs
  <2>3. hist' \in Seq(Items)
    BY <1>1 DEF CompactionInv, CompactionTypeOK
  <2>4. /\ Tokens(Prepared') <= Tokens(hist')
        /\ Tokens(Prepared') \in Nat /\ Tokens(hist') \in Nat
    BY <2>3, PreparedIsLighter DEF Prepared
  <2>5. /\ Threshold \in Nat /\ TargetTokens \in Nat
        /\ SummaryCap + MinPreserve * OutputTokens \in Nat
    BY Numbers
  <2> DEFINE room == SummaryCap + MinPreserve * OutputTokens
  <2>6. TargetTokens <= Threshold /\ room <= Threshold
    BY <1>1, <2>5 DEF Roomy
  <2>7. Tokens(hist') <= TargetTokens \/ Tokens(hist') <= room
    BY <1>1, <2>2, SummaryAndFew
  <2> HIDE DEF room
  <2>8. room \in Nat
    BY <2>5 DEF room
  <2>9. Threshold > 0 => Tokens(Prepared') <= Threshold
    BY <2>4, <2>5, <2>6, <2>7, <2>8
  <2>10. Threshold > 0 => ~ (Tokens(Prepared') > Threshold)
    BY <2>4, <2>5, <2>9
  <2> QED
    BY <2>10 DEF TooLong
<1>2. hist' # hist /\ asking /\ [CompactionNext]_compactionVars => CompactionNext
  BY DEF compactionVars
<1> QED
  BY <1>1, <1>2, CompactionInvHolds, PTL DEF CompactionSpec, TurnedBackOnce
=============================================================================
