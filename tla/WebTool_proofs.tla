--------------------------- MODULE WebTool_proofs ---------------------------
(***************************************************************************)
(* What the web tool costs, where its answers come from and how large they *)
(* are, for every configuration: any modes and limits, any profiles and    *)
(* fallbacks, any calls in any order over any number of runs.              *)
(***************************************************************************)
EXTENDS WebTool, FiniteSetTheorems, SequenceTheorems, TLAPS

(* A set of numbers has a least member.                                    *)
LEMMA LeastOf ==
  ASSUME NEW S, S \subseteq Nat, S # {}
  PROVE  Min(S) \in S /\ \A x \in S : Min(S) <= x
<1> DEFINE R == {p \in Nat \X Nat : p[1] < p[2]}
<1>0. IsWellFoundedOn(R, Nat)
  BY NatLessThanWellFounded DEF OpToRel
<1>1. PICK m \in S : \A y \in S : ~ (<<y, m>> \in R)
  <2> HIDE DEF R
  <2> QED
    BY <1>0, WFMin
<1>2. ASSUME NEW y \in S PROVE m =< y
  <2>1. y \in Nat /\ m \in Nat /\ ~ (<<y, m>> \in R)
    BY <1>1
  <2>2. <<y, m>> \in Nat \X Nat /\ <<y, m>>[1] = y /\ <<y, m>>[2] = m
    BY <2>1
  <2> QED
    BY <2>1, <2>2
<1>3. m \in S /\ \A y \in S : m =< y
  BY <1>2
<1> QED
  BY <1>3 DEF Min

(* A set of numbers that is bounded has a greatest.                        *)
LEMMA GreatestOf ==
  ASSUME NEW S, S \subseteq Nat, S # {}, NEW b \in Nat, \A x \in S : x <= b
  PROVE  Max(S) \in S /\ \A x \in S : x <= Max(S)
<1> DEFINE T == {n \in Nat : \A x \in S : x <= n}
<1>1. T \subseteq Nat /\ T # {}
  OBVIOUS
<1>2. PICK m \in T : \A y \in T : m <= y
  <2> HIDE DEF T
  <2> QED
    BY <1>1, LeastOf
<1>3. m \in S
  <2> SUFFICES ASSUME m \notin S PROVE FALSE
    OBVIOUS
  <2>1. \A x \in S : x < m
    OBVIOUS
  <2>2. m - 1 \in Nat
    <3>1. PICK x : x \in S
      OBVIOUS
    <3> QED
      BY <2>1, <3>1
  <2>3. m - 1 \in T
    BY <2>1, <2>2
  <2> QED
    BY <1>2, <2>2, <2>3
<1>4. m \in S /\ \A y \in S : m >= y
  BY <1>3
<1>5. Max(S) \in S /\ \A y \in S : Max(S) >= y
  BY <1>4 DEF Max
<1> QED
  BY <1>5

(* A finite set of numbers is bounded: of its subsets, a least one that is  *)
(* not would be with one member more than one that is.                     *)
LEMMA FiniteBounded ==
  ASSUME NEW S, S \subseteq Nat, IsFiniteSet(S)
  PROVE  \E b \in Nat : \A x \in S : x <= b
<1> DEFINE Free == {T \in FiniteSubsetsOf(S) : ~ \E b \in Nat : \A x \in T : x <= b}
<1>1. SUFFICES ASSUME ~ \E b \in Nat : \A x \in S : x <= b PROVE FALSE
  OBVIOUS
<1>2. S \in FiniteSubsetsOf(S)
  BY FS_FiniteSubsetsOfFinite
<1>3. Free \subseteq FiniteSubsetsOf(S) /\ S \in Free
  BY <1>1, <1>2
<1>4. PICK T \in Free : \A U \in Free : ~ (<<U, T>> \in StrictSubsetOrdering(S))
  <2> HIDE DEF Free
  <2> QED
    BY <1>3, FS_StrictSubsetOrderingWellFounded, WFMin
<1>5. T \subseteq S /\ IsFiniteSet(T) /\ ~ \E b \in Nat : \A x \in T : x <= b
  BY FS_FiniteSubsetsOfFinite, FS_Subset
<1>6. PICK y : y \in T
  BY <1>5
<1> DEFINE U == T \ {y}
<1>7. U \in FiniteSubsetsOf(S)
  <2>1. U \in SUBSET S
    BY <1>5
  <2> QED
    BY <2>1, FS_FiniteSubsetsOfFinite
<1>8. <<U, T>> \in StrictSubsetOrdering(S)
  BY <1>5, <1>6 DEF StrictSubsetOrdering
<1>9. PICK b \in Nat : \A x \in U : x <= b
  BY <1>4, <1>7, <1>8
<1>10. y \in Nat /\ b + y \in Nat /\ \A x \in T : x <= b + y
  BY <1>5, <1>6, <1>9
<1> QED
  BY <1>5, <1>10

-----------------------------------------------------------------------------
(* Budgets.                                                                *)

Asked == Modes \cup {NoMode}

LEMMA ValidPositive ==
  ASSUME NEW v \in Nat, NEW d \in Nat \ {0}
  PROVE  Valid(v, d) \in Nat \ {0}
BY DEF Valid

(* Whatever the operator configures, a cap is at least one and no more     *)
(* than the constant.                                                      *)
LEMMA CapsAre ==
  ASSUME NEW f \in Fields
  PROVE  Cap[f] \in Nat \ {0} /\ Cap[f] <= Absolute[f]
<1>1. OperatorCaps[f] \in Nat /\ Absolute[f] \in Nat \ {0}
  BY WebAssumption DEF WebAssumption
<1>2. Valid(OperatorCaps[f], Absolute[f]) \in Nat \ {0}
  BY <1>1, ValidPositive
<1>3. Cap[f] = Least(Valid(OperatorCaps[f], Absolute[f]), Absolute[f])
  BY DEF Cap
<1> QED
  BY <1>1, <1>2, <1>3 DEF Least

LEMMA WantedPositive ==
  ASSUME NEW m \in Asked, NEW f \in Fields
  PROVE  Wanted(m)[f] \in Nat \ {0}
<1>1. ModeOf(m) \in Modes /\ "quick" \in Modes
  BY WebAssumption DEF ModeOf, WebAssumption
<1>2. /\ BuiltIn[ModeOf(m)] \in [Fields -> Nat \ {0}]
      /\ BuiltIn["quick"] \in [Fields -> Nat \ {0}]
      /\ ModeTable[ModeOf(m)] \in [Fields -> Nat]
      /\ Flat \in [Fields -> Nat]
  BY <1>1, WebAssumption DEF WebAssumption
<1>3. /\ BuiltIn[ModeOf(m)][f] \in Nat \ {0} /\ BuiltIn["quick"][f] \in Nat \ {0}
      /\ ModeTable[ModeOf(m)][f] \in Nat /\ Flat[f] \in Nat
  BY <1>2
<1>4. /\ Valid(ModeTable[ModeOf(m)][f], BuiltIn[ModeOf(m)][f]) \in Nat \ {0}
      /\ Valid(Flat[f], BuiltIn["quick"][f]) \in Nat \ {0}
  BY <1>3, ValidPositive
<1> QED
  BY <1>3, <1>4 DEF Wanted

(* No mode grants more than the caps.                                      *)
LEMMA BudgetsAre ==
  ASSUME NEW m \in Asked, NEW f \in Fields
  PROVE  Budget[m][f] \in Nat \ {0} /\ Budget[m][f] <= Cap[f]
<1>1. Budget[m][f] = Least(Wanted(m)[f], Cap[f])
  BY DEF Budget, Asked
<1>2. Wanted(m)[f] \in Nat \ {0} /\ Cap[f] \in Nat \ {0}
  BY WantedPositive, CapsAre
<1> QED
  BY <1>1, <1>2 DEF Least

LEMMA FieldsAre ==
  /\ "results" \in Fields /\ "searches" \in Fields /\ "opens" \in Fields
  /\ "retrievals" \in Fields /\ "chars" \in Fields
BY WebAssumption DEF WebAssumption

-----------------------------------------------------------------------------
(* Candidates.                                                             *)

Chain(p) == Route(p).fallbacks

LEMMA ChainIs ==
  ASSUME NEW p \in Profiles
  PROVE  Len(Chain(p)) \in Nat /\ DOMAIN Chain(p) = 1 .. Len(Chain(p))
<1>1. Chain(p) \in Seq(Profiles \cup {AutoProfile, NoProfile})
  BY WebAssumption DEF WebAssumption, Chain
<1> HIDE DEF Chain
<1> QED
  BY <1>1, LenProperties

(* The longest chain of fallbacks bounds every other.                      *)
LEMMA ChainsAreShort ==
  ASSUME NEW p \in Profiles
  PROVE  MostTries \in Nat /\ 1 + Len(Chain(p)) <= MostTries
<1> DEFINE L == {Len(Chain(q)) : q \in Profiles}
           f == [q \in Profiles |-> Len(Chain(q))]
<1>1. L \subseteq Nat /\ Len(Chain(p)) \in L
  BY ChainIs
<1>2. f \in Surjection(Profiles, L)
  BY DEF Surjection
<1>3. IsFiniteSet(L)
  <2> HIDE DEF f, L
  <2> QED
    BY <1>2, FS_Surjection, WebAssumption DEF WebAssumption
<1>4. \E b \in Nat : \A x \in L : x <= b
  <2> HIDE DEF L
  <2> QED
    BY <1>1, <1>3, FiniteBounded
<1>5. Max(L) \in L /\ \A x \in L : x <= Max(L)
  <2> HIDE DEF L
  <2> QED
    BY <1>1, <1>4, GreatestOf
<1>6. MostTries = 1 + Max(L)
  BY DEF MostTries, Chain
<1> HIDE DEF L, f
<1>7. Max(L) \in Nat /\ Len(Chain(p)) \in Nat /\ Len(Chain(p)) <= Max(L)
  BY <1>1, <1>5
<1> QED
  BY <1>6, <1>7

(* A search has no more candidates than the longest chain allows, and only *)
(* one if it is strict or names its engines.                               *)
LEMMA CandidatesAre ==
  ASSUME NEW c \in Calls
  PROVE  /\ Candidates(c) \subseteq Nat /\ 0 \in Candidates(c)
         /\ IsFiniteSet(Candidates(c))
         /\ Cardinality(Candidates(c)) \in Nat
         /\ Cardinality(Candidates(c)) <= MostTries /\ MostTries \in Nat
         /\ Strict(c) \/ c.engines # {} => Candidates(c) = {0}
<1> DEFINE p == ProfileOf(c)
           n == Len(Chain(p))
<1>1. p \in Profiles
  BY WebAssumption DEF WebAssumption
<1>2. n \in Nat /\ DOMAIN Chain(p) = 1 .. n /\ MostTries \in Nat /\ 1 + n <= MostTries
  BY <1>1, ChainIs, ChainsAreShort
<1>3. FallbacksOf(c) \subseteq 1 .. n
  BY <1>2 DEF FallbacksOf, Chain
<1>4. Strict(c) \/ c.engines # {} => FallbacksOf(c) = {}
  BY DEF FallbacksOf
<1> HIDE DEF n
<1>5. Candidates(c) \in SUBSET (0 .. n)
  BY <1>2, <1>3 DEF Candidates
<1>6. IsFiniteSet(0 .. n) /\ Cardinality(0 .. n) = n + 1
  BY <1>2, FS_Interval
<1>7. IsFiniteSet(Candidates(c)) /\ Cardinality(Candidates(c)) <= n + 1
  BY <1>5, <1>6, FS_Subset
<1>8. Cardinality(Candidates(c)) \in Nat
  BY <1>7, FS_CardinalityType
<1> QED
  BY <1>2, <1>4, <1>5, <1>7, <1>8 DEF Candidates

-----------------------------------------------------------------------------
(* What is cached under a key is no more than was asked for.               *)
FitsKeys(cache) ==
  \A k \in DOMAIN cache : cache[k] \subseteq Results /\ Cardinality(cache[k]) <= k[3]

Reports(top) == {R \in SUBSET Results : Cardinality(R) <= top}

Sent(c, top) ==
  {e \in {Named(c, k) : k \in Candidates(c)} : Key(c.query, e, top) \notin DOMAIN searches}

LEMMA Subsets ==
  ASSUME NEW R \in SUBSET Results, NEW Q \in SUBSET R
  PROVE  /\ Cardinality(R) \in Nat /\ Cardinality(Q) \in Nat
         /\ Cardinality(Q) <= Cardinality(R)
<1>1. IsFiniteSet(Results)
  BY WebAssumption DEF WebAssumption
<1>2. IsFiniteSet(R)
  BY <1>1, FS_Subset
<1>3. IsFiniteSet(Q) /\ Cardinality(Q) <= Cardinality(R)
  BY <1>2, FS_Subset
<1> QED
  BY <1>2, <1>3, FS_CardinalityType

LEMMA KeyIs ==
  ASSUME NEW q, NEW e, NEW top
  PROVE  Key(q, e, top)[2] = e /\ Key(q, e, top)[3] = top
BY DEF Key

LEMMA ReportedIs ==
  ASSUME FitsKeys(searches), NEW c \in Calls, NEW top \in Nat,
         NEW report \in [Sent(c, top) -> Reports(top)], NEW k \in Candidates(c)
  PROVE  Reported(Key(c.query, Named(c, k), top), report) \in Reports(top)
<1> DEFINE key == Key(c.query, Named(c, k), top)
<1>1. key[2] = Named(c, k) /\ key[3] = top
  BY KeyIs
<1> HIDE DEF key
<1>2. key \in DOMAIN searches => Reported(key, report) \in Reports(top)
  BY <1>1 DEF Reported, FitsKeys, Reports
<1>3. ASSUME key \notin DOMAIN searches PROVE Reported(key, report) \in Reports(top)
  <2>1. Named(c, k) \in Sent(c, top)
    BY <1>3 DEF Sent, key
  <2>2. report[Named(c, k)] \in Reports(top)
    BY <2>1
  <2> QED
    BY <1>1, <1>3, <2>2 DEF Reported
<1>4. Reported(key, report) \in Reports(top)
  BY <1>2, <1>3
<1> QED
  BY <1>4 DEF key

(* What a candidate is answered is results, and no more of them than were  *)
(* asked for; of the first, what its profile accepts.                      *)
LEMMA FoundIs ==
  ASSUME FitsKeys(searches), NEW c \in Calls, NEW top \in Nat,
         NEW report \in [Sent(c, top) -> Reports(top)], NEW k \in Candidates(c)
  PROVE  /\ Found(c, top, report)[k] \in Reports(top)
         /\ Cardinality(Found(c, top, report)[k]) \in Nat
<1> DEFINE key == Key(c.query, Named(c, k), top)
           R == Reported(key, report)
           A == Found(c, top, report)[k]
<1>1. R \in SUBSET Results /\ Cardinality(R) <= top
  BY ReportedIs DEF Reports
<1>2. A = IF k = 0 THEN Accepted(c, key, R) ELSE R
  BY DEF Found
<1> HIDE DEF R, key, A
<1>3. Accepted(c, key, R) \subseteq R
  BY DEF Accepted
<1>4. A \in SUBSET R
  BY <1>2, <1>3
<1>5. /\ Cardinality(R) \in Nat /\ Cardinality(A) \in Nat
      /\ Cardinality(A) <= Cardinality(R)
  BY <1>1, <1>4, Subsets
<1>6. A \in Reports(top) /\ Cardinality(A) \in Nat
  BY <1>1, <1>4, <1>5 DEF Reports
<1> QED
  BY <1>6 DEF A

(* One candidate has the best answer.                                      *)
LEMMA BestTried ==
  ASSUME NEW found, DOMAIN found \subseteq Nat, 0 \in DOMAIN found, NEW top \in Nat,
         \A k \in DOMAIN found :
           Cardinality(found[k]) \in Nat /\ Cardinality(found[k]) <= top
  PROVE  Tried(found) \subseteq DOMAIN found /\ Best(found) \in Tried(found)
<1> DEFINE T == Tried(found)
           M == {Cardinality(found[k]) : k \in T}
           B == {k \in T : \A j \in T : Cardinality(found[j]) <= Cardinality(found[k])}
<1>1. T \subseteq DOMAIN found /\ 0 \in T
  BY DEF Tried
<1> HIDE DEF T
<1>2. M \subseteq Nat /\ M # {} /\ \A x \in M : x <= top
  BY <1>1
<1>3. Max(M) \in M /\ \A x \in M : x <= Max(M)
  <2> HIDE DEF M
  <2> QED
    BY <1>2, GreatestOf
<1>4. PICK k \in T : Cardinality(found[k]) = Max(M)
  BY <1>3
<1>5. k \in B
  BY <1>3, <1>4
<1>6. B \subseteq Nat /\ B # {}
  BY <1>1, <1>5
<1>7. Min(B) \in B
  <2> HIDE DEF B
  <2> QED
    BY <1>6, LeastOf
<1>8. Best(found) = Min(B)
  BY DEF Best, T
<1> QED
  BY <1>1, <1>7, <1>8 DEF T

(* The queries of one search.                                              *)
LEMMA FewAsked ==
  ASSUME NEW c \in Calls, NEW top, NEW T \in SUBSET Candidates(c), NEW D
  PROVE  LET asked == {Key(c.query, Named(c, k), top) : k \in T}
         IN  Cardinality(asked \ D) \in 0 .. MostTries
<1> DEFINE asked == {Key(c.query, Named(c, k), top) : k \in T}
           f == [k \in T |-> Key(c.query, Named(c, k), top)]
           m == Cardinality(Candidates(c))
<1>1. IsFiniteSet(Candidates(c)) /\ m \in Nat /\ m <= MostTries /\ MostTries \in Nat
  BY CandidatesAre
<1>2. IsFiniteSet(T) /\ Cardinality(T) <= m
  BY <1>1, FS_Subset
<1>3. f \in Surjection(T, asked)
  BY DEF Surjection
<1>4. IsFiniteSet(asked) /\ Cardinality(asked) <= Cardinality(T)
  <2> HIDE DEF f, asked
  <2> QED
    BY <1>2, <1>3, FS_Surjection
<1> HIDE DEF f, asked, m
<1>5. asked \ D \in SUBSET asked
  OBVIOUS
<1>6. IsFiniteSet(asked \ D) /\ Cardinality(asked \ D) <= Cardinality(asked)
  BY <1>4, <1>5, FS_Subset
<1>7. /\ Cardinality(T) \in Nat /\ Cardinality(asked) \in Nat
      /\ Cardinality(asked \ D) \in Nat
  BY <1>2, <1>4, <1>6, FS_CardinalityType
<1>8. Cardinality(asked \ D) \in 0 .. MostTries
  BY <1>1, <1>2, <1>4, <1>6, <1>7
<1> QED
  BY <1>8 DEF asked

-----------------------------------------------------------------------------
(* What a search does, as far as the properties can tell.                  *)
Kept(c, k, R) ==
  k = 0 /\ Strict(c) /\ Route(ProfileOf(c)).expected # {}
    => \A r \in R : SourceOf[r] \in Route(ProfileOf(c)).expected

AnswerOf(c, k, R) ==
  [action |-> "search", ok |-> TRUE, call |-> c, profile |-> Candidate(c, k),
   results |-> R, chars |-> 0]

LEMMA SearchStep ==
  ASSUME FitsKeys(searches), NEW c \in Calls, Search(c)
  PROVE  /\ FitsKeys(searches')
         /\ \E n \in 0 .. MostTries :
              cost' = [cost EXCEPT !.searches = @ + 1, !.queries = @ + n]
         /\ \E k \in Candidates(c), R \in Reports(Budget[c.mode]["results"]) :
              answer' = AnswerOf(c, k, R) /\ Kept(c, k, R)
<1> DEFINE limit == Budget[c.mode]["results"]
           top == Least(IF c.top = 0 THEN limit ELSE c.top, limit)
<1>1. limit \in Nat /\ c.top \in Nat
  BY BudgetsAre, FieldsAre, WebAssumption DEF WebAssumption, Asked
<1>2. top \in Nat /\ top <= limit
  BY <1>1 DEF Least
<1>3. PICK report \in [Sent(c, top) -> Reports(top)] : SearchWeb(c, top, report)
  BY DEF Search, Sent, Reports
<1> HIDE DEF limit, top
<1> DEFINE found == Found(c, top, report)
           asked == {Key(c.query, Named(c, k), top) : k \in Tried(found)}
           key == Key(c.query, EnginesOf(c), top)
<1>4. DOMAIN found = Candidates(c)
  BY DEF Found
<1>5. \A k \in Candidates(c) :
        found[k] \in Reports(top) /\ Cardinality(found[k]) \in Nat
  BY <1>2, FoundIs
<1>6. key = Key(c.query, Named(c, 0), top) /\ 0 \in Candidates(c)
  BY CandidatesAre DEF Named
<1>7. found[0] = Accepted(c, key, Reported(key, report))
  BY <1>6 DEF Found
<1>8. /\ searches' = [k \in DOMAIN searches \cup asked |->
                        IF k = key THEN found[0] ELSE Reported(k, report)]
      /\ cost' = [cost EXCEPT !.searches = @ + 1,
                    !.queries = @ + Cardinality(asked \ DOMAIN searches)]
      /\ answer' = AnswerOf(c, Best(found), found[Best(found)])
  BY <1>3 DEF SearchWeb, AnswerOf
<1> HIDE DEF found
<1>9. Tried(found) \in SUBSET Candidates(c) /\ Best(found) \in Candidates(c)
  <2>1. \A k \in DOMAIN found :
          Cardinality(found[k]) \in Nat /\ Cardinality(found[k]) <= top
    BY <1>4, <1>5 DEF Reports
  <2>2. DOMAIN found \subseteq Nat /\ 0 \in DOMAIN found
    BY <1>4, CandidatesAre
  <2>3. Tried(found) \subseteq DOMAIN found /\ Best(found) \in Tried(found)
    BY <1>2, <2>1, <2>2, BestTried
  <2> QED
    BY <1>4, <2>3
<1>10. Cardinality(asked \ DOMAIN searches) \in 0 .. MostTries
  BY <1>9, FewAsked
<1>11. FitsKeys(searches')
  <2> SUFFICES ASSUME NEW k \in DOMAIN searches \cup asked
               PROVE  searches'[k] \subseteq Results /\ Cardinality(searches'[k]) <= k[3]
    BY <1>8 DEF FitsKeys
  <2>1. searches'[k] = IF k = key THEN found[0] ELSE Reported(k, report)
    BY <1>8
  <2>2. CASE k = key
    <3>1. key[3] = top /\ found[0] \in Reports(top)
      BY <1>5, <1>6, KeyIs
    <3> HIDE DEF key
    <3> QED
      BY <2>1, <2>2, <3>1 DEF Reports
  <2>3. CASE k # key /\ k \in DOMAIN searches
    <3> HIDE DEF key
    <3> QED
      BY <2>1, <2>3 DEF FitsKeys, Reported
  <2>4. CASE k # key /\ k \notin DOMAIN searches
    <3>1. PICK i \in Candidates(c) : k = Key(c.query, Named(c, i), top)
      BY <1>9, <2>4
    <3>2. Reported(k, report) \in Reports(top) /\ k[3] = top
      BY <1>2, <3>1, ReportedIs, KeyIs
    <3> HIDE DEF key
    <3> QED
      BY <2>1, <2>4, <3>2 DEF Reports
  <2> QED
    BY <2>2, <2>3, <2>4
<1>12. found[Best(found)] \in Reports(limit)
  <2>1. /\ found[Best(found)] \in Reports(top)
        /\ Cardinality(found[Best(found)]) \in Nat
    BY <1>5, <1>9
  <2> QED
    BY <1>1, <1>2, <2>1 DEF Reports
<1>13. Kept(c, Best(found), found[Best(found)])
  BY <1>7 DEF Kept, Accepted
<1> HIDE DEF asked, key
<1> QED
  BY <1>8, <1>9, <1>10, <1>11, <1>12, <1>13 DEF limit

-----------------------------------------------------------------------------
(* The invariant.  What a run costs is bounded by its counters, which      *)
(* never pass the caps: a counter is compared with the budget of a mode,   *)
(* and no mode grants more.                                                *)
Counters == [search : Nat, open_page : Nat, retrieve : Nat]
Costs == [searches : Nat, queries : Nat, retrievals : Nat]

Spent ==
  /\ counters \in Counters /\ cost \in Costs
  /\ counters.search <= Cap["searches"]
  /\ counters.open_page <= Cap["opens"]
  /\ counters.retrieve <= Cap["retrievals"]
  /\ cost.searches = counters.search
  /\ cost.queries <= counters.search * MostTries
  /\ cost.retrievals <= counters.retrieve

(* A text that is kept is within the operator's cap.                       *)
TextsCapped ==
  \A u \in DOMAIN retrieved : retrieved[u] \in Nat /\ retrieved[u] <= Cap["chars"]

(* Why a profile was advertised as strict: if by the guidance, it is there *)
(* still, or was taken out.                                                *)
Told ==
  \A p \in advertised :
    /\ p \in Profiles
    /\ Advert(p).strict \/ p = Compat \/ p \in guidance \/ p \in withdrawn

IInv ==
  /\ Spent
  /\ FitsKeys(searches)
  /\ TextsCapped
  /\ Told
  /\ answer.chars \in Nat
  /\ AnswerWithinBudget
  /\ StrictStaysInSource

LEMMA Caps ==
  /\ Cap["searches"] \in Nat /\ Cap["opens"] \in Nat
  /\ Cap["retrievals"] \in Nat /\ Cap["chars"] \in Nat
BY CapsAre, FieldsAre

LEMMA TriesNatural == MostTries \in Nat
BY ChainsAreShort, WebAssumption DEF WebAssumption

LEMMA Start == Init => IInv
<1> SUFFICES ASSUME Init PROVE IInv
  OBVIOUS
<1> USE DEF Init
<1>1. Spent
  <2>1. /\ counters = [search |-> 0, open_page |-> 0, retrieve |-> 0]
        /\ cost = [searches |-> 0, queries |-> 0, retrievals |-> 0]
    BY DEF Unused, NoCost
  <2>2. 0 <= 0 * MostTries
    BY TriesNatural
  <2> QED
    BY <2>1, <2>2, Caps DEF Spent, Counters, Costs
<1>2. FitsKeys(searches)
  BY DEF FitsKeys, Nothing
<1>3. TextsCapped
  BY DEF TextsCapped, Nothing
<1>4. Told
  BY DEF Told
<1>5. answer.chars \in Nat /\ AnswerWithinBudget /\ StrictStaysInSource
  BY Caps DEF NoAnswer, AnswerWithinBudget, StrictStaysInSource
<1> QED
  BY <1>1, <1>2, <1>3, <1>4, <1>5 DEF IInv

-----------------------------------------------------------------------------
(* Calls other than searches.                                              *)
LEMMA CallOf ==
  ASSUME NEW c, Call(c)
  PROVE  c \in Calls /\ Calling(c)
BY DEF Call, Search, OpenPage, FindInPage, Retrieve, Refuse, Capabilities, Calling

LEMMA ModesOfCalls ==
  ASSUME NEW c \in Calls, NEW f \in Fields
  PROVE  Budget[c.mode][f] \in Nat /\ Budget[c.mode][f] <= Cap[f] /\ Cap[f] \in Nat
BY BudgetsAre, CapsAre, WebAssumption DEF WebAssumption, Asked

LEMMA SpentKept ==
  ASSUME Spent, FitsKeys(searches), [Next]_vars
  PROVE  Spent'
<1> USE DEF Spent, Counters, Costs
<1> USE Caps, FieldsAre
<1>1. ASSUME NEW c \in Calls, Search(c) PROVE Spent'
  <2>1. /\ counters.search < Budget[c.mode]["searches"]
        /\ counters' = [counters EXCEPT !.search = @ + 1]
    BY <1>1 DEF Search
  <2>2. counters.search + 1 <= Cap["searches"]
    BY <2>1, ModesOfCalls
  <2>3. PICK n \in 0 .. MostTries :
          cost' = [cost EXCEPT !.searches = @ + 1, !.queries = @ + n]
    BY <1>1, SearchStep
  <2>4. (counters.search + 1) * MostTries = counters.search * MostTries + MostTries
    BY TriesNatural
  <2>5. counters.search * MostTries \in Nat
    BY TriesNatural
  <2>6. cost.queries + n <= (counters.search + 1) * MostTries
    BY <2>3, <2>4, <2>5, TriesNatural
  <2>7. /\ counters' \in Counters
        /\ counters'.search = counters.search + 1
        /\ counters'.open_page = counters.open_page
        /\ counters'.retrieve = counters.retrieve
    BY <2>1
  <2>8. /\ cost' \in Costs
        /\ cost'.searches = cost.searches + 1
        /\ cost'.queries = cost.queries + n
        /\ cost'.retrievals = cost.retrievals
    <3>1. n \in Nat
      BY TriesNatural
    <3>2. cost.searches + 1 \in Nat /\ cost.queries + n \in Nat
      BY <3>1
    <3> QED
      BY <2>3, <3>1, <3>2
  <2> QED
    BY <2>2, <2>6, <2>7, <2>8
<1>2. ASSUME NEW c \in Calls, OpenPage(c) PROVE Spent'
  <2>1. /\ counters.open_page < Budget[c.mode]["opens"]
        /\ counters' = [counters EXCEPT !.open_page = @ + 1] /\ cost' = cost
    BY <1>2 DEF OpenPage
  <2>2. counters.open_page + 1 <= Cap["opens"]
    BY <2>1, ModesOfCalls
  <2> QED
    BY <2>1, <2>2
<1>3. ASSUME NEW c \in Calls, Retrieve(c) PROVE Spent'
  <2>1. /\ counters.retrieve < Budget[c.mode]["retrievals"]
        /\ counters' = [counters EXCEPT !.retrieve = @ + 1]
    BY <1>3 DEF Retrieve
  <2>2. counters.retrieve + 1 <= Cap["retrievals"]
    BY <2>1, ModesOfCalls
  <2>3. \E n \in {0, 1} : cost' = [cost EXCEPT !.retrievals = @ + n]
    <3>1. cost' = cost \/ cost' = [cost EXCEPT !.retrievals = @ + 1]
      BY <1>3 DEF Retrieve
    <3> QED
      BY <3>1
  <2> QED
    BY <2>1, <2>2, <2>3
<1>4. ASSUME NEW c \in Calls, FindInPage(c) \/ Refuse(c) \/ Capabilities(c) PROVE Spent'
  BY <1>4 DEF FindInPage, Refuse, Capabilities
<1>5. CASE NewRun
  <2>1. /\ counters' = [search |-> 0, open_page |-> 0, retrieve |-> 0]
        /\ cost' = [searches |-> 0, queries |-> 0, retrievals |-> 0]
    BY <1>5 DEF NewRun, Unused, NoCost
  <2>2. 0 <= 0 * MostTries
    BY TriesNatural
  <2> QED
    BY <2>1, <2>2
<1>6. CASE Expire \/ UNCHANGED vars
  BY <1>6 DEF Expire, vars, runtime
<1> QED
  BY <1>1, <1>2, <1>3, <1>4, <1>5, <1>6, CallOf DEF Next, Call

LEMMA KeysKept ==
  ASSUME FitsKeys(searches), [Next]_vars
  PROVE  FitsKeys(searches')
<1>1. ASSUME NEW c \in Calls, Search(c) PROVE FitsKeys(searches')
  BY <1>1, SearchStep
<1>2. CASE Expire
  BY <1>2 DEF Expire, FitsKeys, Nothing
<1>3. ASSUME searches' = searches PROVE FitsKeys(searches')
  BY <1>3
<1>4. NewRun \/ UNCHANGED vars => searches' = searches
  BY DEF NewRun, vars, cached
<1>5. ASSUME NEW c, Call(c), ~ Search(c) PROVE searches' = searches
  BY <1>5 DEF Call, OpenPage, FindInPage, Retrieve, Refuse, Capabilities, cached
<1> QED
  BY <1>1, <1>2, <1>3, <1>4, <1>5, CallOf DEF Next

LEMMA CutIs ==
  ASSUME NEW u \in Urls, NEW c \in Calls
  PROVE  Cut(u, c.mode) \in Nat /\ Cut(u, c.mode) <= Cap["chars"]
<1>1. /\ Length[u] \in Nat /\ Budget[c.mode]["chars"] \in Nat /\ Cap["chars"] \in Nat
      /\ Budget[c.mode]["chars"] <= Cap["chars"]
  BY ModesOfCalls, FieldsAre, WebAssumption DEF WebAssumption
<1> QED
  BY <1>1 DEF Cut, Least

LEMMA TextsKept ==
  ASSUME TextsCapped, [Next]_vars
  PROVE  TextsCapped'
<1> USE DEF TextsCapped
<1>1. ASSUME NEW c \in Calls, Retrieve(c), retrieved' # retrieved PROVE TextsCapped'
  <2>1. /\ c.url \in Urls
        /\ retrieved' = [u \in DOMAIN retrieved \cup {c.url} |->
                          IF u = c.url THEN Cut(u, c.mode) ELSE retrieved[u]]
    BY <1>1 DEF Retrieve
  <2>2. Cut(c.url, c.mode) \in Nat /\ Cut(c.url, c.mode) <= Cap["chars"]
    BY <2>1, CutIs
  <2> QED
    BY <2>1, <2>2
<1>2. CASE Expire \/ NewRun
  BY <1>2 DEF Expire, NewRun, Nothing
<1>3. CASE retrieved' = retrieved
  BY <1>3
<1>4. ASSUME NEW c, Call(c), ~ Retrieve(c) PROVE retrieved' = retrieved
  BY <1>4 DEF Call, Search, OpenPage, FindInPage, Refuse, Capabilities
<1> QED
  BY <1>1, <1>2, <1>3, <1>4, CallOf DEF Next, vars, runtime

LEMMA ToldKept ==
  ASSUME Told, [Next]_vars
  PROVE  Told'
<1> USE DEF Told
<1>1. ASSUME NEW c \in Calls, Capabilities(c) PROVE Told'
  <2>1. withdrawn' = (withdrawn \cup guidance) \ guidance'
    BY <1>1 DEF Capabilities, Fetch
  <2>2. advertised' = advertised \/ advertised' = advertised \cup AdvertisedWith(guidance')
    BY <1>1 DEF Capabilities
  <2>3. \A p \in AdvertisedWith(guidance') :
          p \in Profiles /\ (Advert(p).strict \/ p = Compat \/ p \in guidance')
    BY DEF AdvertisedWith
  <2> QED
    BY <2>1, <2>2, <2>3
<1>2. CASE NewRun
  BY <1>2 DEF NewRun
<1>3. CASE UNCHANGED <<guidance, advertised, withdrawn>>
  BY <1>3
<1>4. Expire \/ UNCHANGED vars => UNCHANGED <<guidance, advertised, withdrawn>>
  BY DEF Expire, vars, runtime
<1>5. ASSUME NEW c, Call(c), ~ Capabilities(c) PROVE UNCHANGED <<guidance, advertised, withdrawn>>
  BY <1>5 DEF Call, Search, OpenPage, FindInPage, Retrieve, Refuse
<1> QED
  BY <1>1, <1>2, <1>3, <1>4, <1>5, CallOf DEF Next

-----------------------------------------------------------------------------
(* Answers.                                                                *)
OfSearch == answer.action = "search" /\ answer.ok

(* Only a search answers like one.                                         *)
LEMMA OtherAnswers ==
  ASSUME TextsCapped, [Next]_vars, answer' # answer,
         \A c \in Calls : ~ Search(c)
  PROVE  ~ OfSearch' /\ answer'.chars \in Nat /\ answer'.chars <= Cap["chars"]
<1> USE Caps
<1>1. ASSUME NEW c \in Calls, OpenPage(c) \/ FindInPage(c) \/ Capabilities(c)
      PROVE  answer'.action # "search" /\ answer'.chars = 0
  <2>1. answer' = Plain(c, TRUE) \/ answer' = Plain(c, FALSE)
    BY <1>1 DEF OpenPage, FindInPage, Capabilities
  <2>2. c.action # "search"
    BY <1>1 DEF OpenPage, FindInPage, Capabilities
  <2> QED
    BY <2>1, <2>2 DEF Plain
<1>2. ASSUME NEW c \in Calls, Refuse(c)
      PROVE  ~ answer'.ok /\ answer'.chars = 0
  BY <1>2 DEF Refuse, Plain
<1>3. ASSUME NEW c \in Calls, Retrieve(c)
      PROVE  /\ answer'.action # "search"
             /\ answer'.chars \in Nat /\ answer'.chars <= Cap["chars"]
  <2>1. c.action = "retrieve"
    BY <1>3 DEF Retrieve
  <2>2. CASE c.url \in DOMAIN retrieved
    BY <1>3, <2>1, <2>2 DEF Retrieve, Plain, TextsCapped
  <2>3. CASE c.url \notin DOMAIN retrieved
    <3>1. \/ /\ c.url \in Urls
             /\ answer' = [Plain(c, TRUE) EXCEPT !.chars = Cut(c.url, c.mode)]
          \/ answer' = Plain(c, FALSE)
      BY <1>3, <2>3 DEF Retrieve
    <3>2. c.url \in Urls => Cut(c.url, c.mode) \in Nat /\ Cut(c.url, c.mode) <= Cap["chars"]
      BY CutIs
    <3> QED
      BY <2>1, <3>1, <3>2 DEF Plain
  <2> QED
    BY <2>2, <2>3
<1>4. CASE NewRun
  BY <1>4 DEF NewRun, NoAnswer, OfSearch
<1>5. ~ (Expire \/ UNCHANGED vars)
  BY DEF Expire, vars
<1>6. ASSUME NEW c \in Calls, Call(c)
      PROVE  ~ OfSearch' /\ answer'.chars \in Nat /\ answer'.chars <= Cap["chars"]
  BY <1>1, <1>2, <1>3, <1>6 DEF OfSearch, Call
<1> QED
  BY <1>4, <1>5, <1>6, CallOf DEF Next

LEMMA AnswersFit ==
  ASSUME FitsKeys(searches), TextsCapped, answer.chars \in Nat, AnswerWithinBudget,
         [Next]_vars
  PROVE  answer'.chars \in Nat /\ AnswerWithinBudget'
<1> USE Caps
<1>1. ASSUME NEW c \in Calls, Search(c)
      PROVE  answer'.chars \in Nat /\ AnswerWithinBudget'
  <2>1. PICK k \in Candidates(c), R \in Reports(Budget[c.mode]["results"]) :
          answer' = AnswerOf(c, k, R)
    BY <1>1, SearchStep
  <2>2. /\ answer'.chars = 0 /\ answer'.results = R /\ answer'.call = c
    BY <2>1 DEF AnswerOf
  <2> QED
    BY <2>2 DEF AnswerWithinBudget, Reports
<1>2. CASE answer' = answer
  BY <1>2 DEF AnswerWithinBudget
<1>3. CASE answer' # answer /\ \A c \in Calls : ~ Search(c)
  BY <1>3, OtherAnswers DEF AnswerWithinBudget, OfSearch
<1> QED
  BY <1>1, <1>2, <1>3

LEMMA StrictKept ==
  ASSUME FitsKeys(searches), TextsCapped, StrictStaysInSource, [Next]_vars
  PROVE  StrictStaysInSource'
<1>1. ASSUME NEW c \in Calls, Search(c) PROVE StrictStaysInSource'
  <2>1. PICK k \in Candidates(c), R \in Reports(Budget[c.mode]["results"]) :
          answer' = AnswerOf(c, k, R) /\ Kept(c, k, R)
    BY <1>1, SearchStep
  <2> SUFFICES ASSUME Route(ProfileOf(c)).strict
               PROVE  /\ answer'.profile = ProfileOf(c)
                      /\ Route(ProfileOf(c)).expected # {} =>
                           \A r \in answer'.results : SourceOf[r] \in Route(ProfileOf(c)).expected
    BY <2>1 DEF StrictStaysInSource, AnswerOf
  <2>2. Strict(c)
    BY DEF Strict
  <2>3. k = 0
    BY <2>2, CandidatesAre
  <2> QED
    BY <2>1, <2>2, <2>3 DEF AnswerOf, Kept, Candidate
<1>2. CASE answer' = answer
  BY <1>2 DEF StrictStaysInSource
<1>3. CASE answer' # answer /\ \A c \in Calls : ~ Search(c)
  BY <1>3, OtherAnswers DEF StrictStaysInSource, OfSearch
<1> QED
  BY <1>1, <1>2, <1>3

(* The invariant is inductive.                                             *)
THEOREM WebInvariant == Spec => []IInv
<1>1. Init => IInv
  BY Start
<1>2. IInv /\ [Next]_vars => IInv'
  BY SpentKept, KeysKept, TextsKept, ToldKept, AnswersFit, StrictKept DEF IInv
<1> QED
  BY <1>1, <1>2, PTL DEF Spec

(* Whatever modes the calls of a run name, in whatever order, the run      *)
(* costs the provider no more than the operator's caps.                    *)
THEOREM CostIsCapped == Spec => []CostWithinCaps
<1>1. IInv => CostWithinCaps
  <2> SUFFICES ASSUME Spent PROVE CostWithinCaps
    BY DEF IInv
  <2>1. /\ counters.search \in Nat /\ counters.retrieve \in Nat
        /\ cost.retrievals \in Nat /\ cost.queries \in Nat
    BY DEF Spent, Counters, Costs
  <2>2. counters.search * MostTries <= Cap["searches"] * MostTries
    <3>1. PICK d \in Nat : Cap["searches"] = counters.search + d
      <4>1. Cap["searches"] - counters.search \in Nat
        BY <2>1, Caps DEF Spent
      <4> QED
        BY <2>1, <4>1, Caps
    <3>2. (counters.search + d) * MostTries = counters.search * MostTries + d * MostTries
      BY <2>1, TriesNatural
    <3>3. counters.search * MostTries \in Nat /\ d * MostTries \in Nat
      BY <2>1, TriesNatural
    <3> QED
      BY <3>1, <3>2, <3>3
  <2>3. counters.search * MostTries \in Nat /\ Cap["searches"] * MostTries \in Nat
    BY <2>1, Caps, TriesNatural
  <2>4. cost.queries <= Cap["searches"] * MostTries
    BY <2>1, <2>2, <2>3 DEF Spent
  <2> QED
    BY <2>1, <2>4, Caps DEF CostWithinCaps, Spent
<1> QED
  BY <1>1, WebInvariant, PTL

(* A strict profile returns nothing from elsewhere, and never another      *)
(* profile's answer, whatever has filled the caches.                       *)
THEOREM StrictInSource == Spec => []StrictStaysInSource
<1>1. IInv => StrictStaysInSource
  BY DEF IInv
<1> QED
  BY <1>1, WebInvariant, PTL

(* No answer is larger than the mode of its call allows, and no text       *)
(* larger than the operator's cap.                                         *)
THEOREM AnswersFitTheirMode == Spec => []AnswerWithinBudget
<1>1. IInv => AnswerWithinBudget
  BY DEF IInv
<1> QED
  BY <1>1, WebInvariant, PTL

-----------------------------------------------------------------------------
(* Capabilities read search.json before the policy and searches the policy *)
(* before search.json: a profile must not be strict in the one and not in  *)
(* the other, as is so for the files that ship.                            *)
SourcesAgree == \A p \in Profiles : Advert(p).strict => Route(p).strict

LEMMA ServedAsAdvertised ==
  ASSUME SourcesAgree, IInv, AdvertisedIsServed, [Next]_vars
  PROVE  AdvertisedIsServed'
<1>0. FitsKeys(searches) /\ TextsCapped /\ Told
  BY DEF IInv
<1>1. ASSUME NEW c \in Calls, Search(c) PROVE AdvertisedIsServed'
  <2>1. PICK k \in Candidates(c), R \in Reports(Budget[c.mode]["results"]) :
          answer' = AnswerOf(c, k, R)
    BY <1>0, <1>1, SearchStep
  <2>2. advertised' = advertised /\ withdrawn' = withdrawn
    BY <1>1 DEF Search
  <2> SUFFICES ASSUME ProfileOf(c) \in advertised \ withdrawn
               PROVE  answer'.profile = ProfileOf(c)
    BY <2>1, <2>2 DEF AdvertisedIsServed, AnswerOf
  <2>3. Strict(c)
    BY <1>0 DEF Told, Strict, SourcesAgree
  <2>4. k = 0
    BY <2>3, CandidatesAre
  <2> QED
    BY <2>1, <2>4 DEF AnswerOf, Candidate
<1>2. CASE answer' = answer /\ advertised' = advertised /\ withdrawn' = withdrawn
  BY <1>2 DEF AdvertisedIsServed
<1>3. CASE answer' # answer /\ \A c \in Calls : ~ Search(c)
  BY <1>0, <1>3, OtherAnswers DEF AdvertisedIsServed, OfSearch
<1>4. ASSUME NEW c \in Calls, Capabilities(c) PROVE AdvertisedIsServed'
  BY <1>4 DEF Capabilities, Plain, AdvertisedIsServed
<1>5. CASE NewRun
  BY <1>5 DEF NewRun, NoAnswer, AdvertisedIsServed
<1>6. Expire \/ UNCHANGED vars => advertised' = advertised /\ withdrawn' = withdrawn
  BY DEF Expire, vars, runtime
<1>7. ASSUME NEW c, Call(c), ~ Capabilities(c)
      PROVE  advertised' = advertised /\ withdrawn' = withdrawn
  BY <1>7 DEF Call, Search, OpenPage, FindInPage, Retrieve, Refuse
<1> QED
  BY <1>1, <1>2, <1>3, <1>4, <1>5, <1>6, <1>7, CallOf DEF Next

(* A profile of which the model was told, by whichever capabilities call   *)
(* of the run, that it is strict is served so, unless a fetch took it out  *)
(* of the guidance since.                                                  *)
THEOREM AdvertisedServed ==
  ASSUME SourcesAgree
  PROVE  Spec => []AdvertisedIsServed
<1>1. Init => AdvertisedIsServed
  BY DEF Init, NoAnswer, AdvertisedIsServed
<1>2. IInv /\ AdvertisedIsServed /\ [Next]_vars => AdvertisedIsServed'
  BY ServedAsAdvertised
<1> QED
  BY <1>1, <1>2, WebInvariant, PTL DEF Spec

-----------------------------------------------------------------------------
(* The types, of which the caches' pages and the answer's results are not  *)
(* in the invariant.                                                       *)
PagesTyped ==
  /\ pages \in [DOMAIN pages -> [id : Urls, ok : BOOLEAN, fresh : BOOLEAN]]
  /\ DOMAIN pages \subseteq Urls

CachesTyped ==
  /\ searches \in [DOMAIN searches -> SUBSET Results]
  /\ retrieved \in [DOMAIN retrieved -> Nat] /\ DOMAIN retrieved \subseteq Urls

ProfilesTyped ==
  /\ guidance \subseteq Profiles /\ advertised \subseteq Profiles
  /\ withdrawn \subseteq Profiles

LEMMA FetchedIs ==
  ASSUME NEW url \in Urls, NEW page \in Fetched(url)
  PROVE  page \in [id : Urls, ok : BOOLEAN, fresh : BOOLEAN]
<1>1. \/ \E u \in Urls : page = [id |-> u, ok |-> TRUE, fresh |-> TRUE]
      \/ page = [id |-> url, ok |-> FALSE, fresh |-> TRUE]
  BY Zenon DEF Fetched
<1>2. \A u \in Urls : \A ok \in BOOLEAN :
        [id |-> u, ok |-> ok, fresh |-> TRUE] \in [id : Urls, ok : BOOLEAN, fresh : BOOLEAN]
  OBVIOUS
<1>3. TRUE \in BOOLEAN /\ FALSE \in BOOLEAN
  OBVIOUS
<1> QED
  BY <1>1, <1>2, <1>3, Zenon

LEMMA OpenTyped ==
  ASSUME PagesTyped, NEW url, Open(url)
  PROVE  PagesTyped'
<1>1. CASE pages' = pages
  BY <1>1 DEF PagesTyped
<1>2. ASSUME url \in Urls, NEW page \in Fetched(url), PutPage(url, page)
      PROVE  PagesTyped'
  <2>1. page \in [id : Urls, ok : BOOLEAN, fresh : BOOLEAN] /\ page.id \in Urls
    BY <1>2, FetchedIs
  <2> QED
    BY <1>2, <2>1 DEF PagesTyped, PutPage
<1> QED
  BY <1>1, <1>2 DEF Open

LEMMA PagesStayTyped ==
  ASSUME PagesTyped, [Next]_vars
  PROVE  PagesTyped'
<1>1. ASSUME NEW c, OpenPage(c) \/ FindInPage(c) PROVE PagesTyped'
  <2>1. Open(c.url) \/ pages' = pages
    BY <1>1 DEF OpenPage, FindInPage
  <2>2. pages' = pages => PagesTyped'
    BY DEF PagesTyped
  <2> QED
    BY <2>1, <2>2, OpenTyped
<1>2. CASE Expire
  BY <1>2 DEF Expire, PagesTyped
<1>3. CASE pages' = pages
  BY <1>3 DEF PagesTyped
<1>4. NewRun \/ UNCHANGED vars => pages' = pages
  BY DEF NewRun, vars, cached
<1>5. ASSUME NEW c, Call(c), ~ OpenPage(c), ~ FindInPage(c) PROVE pages' = pages
  BY <1>5 DEF Call, Search, Retrieve, Refuse, Capabilities, cached
<1> QED
  BY <1>1, <1>2, <1>3, <1>4, <1>5 DEF Next

LEMMA CachesStayTyped ==
  ASSUME CachesTyped, IInv, [Next]_vars
  PROVE  CachesTyped'
<1> USE DEF CachesTyped
<1>0. FitsKeys(searches) /\ FitsKeys(searches')
  BY KeysKept DEF IInv
<1>1. ASSUME NEW c \in Calls, Search(c) PROVE CachesTyped'
  <2>1. \E D, F : searches' = [k \in D |-> F[k]]
    <3>1. PICK top, report : SearchWeb(c, top, report)
      BY <1>1 DEF Search
    <3>2. searches' = [k \in DOMAIN searches' |-> searches'[k]]
      BY <3>1 DEF SearchWeb
    <3> QED
      BY <3>2
  <2>2. retrieved' = retrieved
    BY <1>1 DEF Search
  <2> QED
    BY <1>0, <2>1, <2>2 DEF FitsKeys
<1>2. ASSUME NEW c \in Calls, Retrieve(c) PROVE CachesTyped'
  <2>1. searches' = searches
    BY <1>2 DEF Retrieve, cached
  <2>2. CASE retrieved' = retrieved
    BY <2>1, <2>2
  <2>3. CASE retrieved' # retrieved
    <3>1. /\ c.url \in Urls
          /\ retrieved' = [u \in DOMAIN retrieved \cup {c.url} |->
                            IF u = c.url THEN Cut(u, c.mode) ELSE retrieved[u]]
      BY <1>2, <2>3 DEF Retrieve
    <3>2. Cut(c.url, c.mode) \in Nat
      BY <3>1, CutIs
    <3> QED
      BY <2>1, <3>1, <3>2
  <2> QED
    BY <2>2, <2>3
<1>3. CASE Expire
  BY <1>3 DEF Expire, Nothing
<1>4. CASE NewRun
  BY <1>4 DEF NewRun, Nothing, cached
<1>5. ASSUME searches' = searches, retrieved' = retrieved PROVE CachesTyped'
  BY <1>5
<1>6. ASSUME NEW c, OpenPage(c) \/ FindInPage(c) \/ Refuse(c) \/ Capabilities(c)
      PROVE  searches' = searches /\ retrieved' = retrieved
  BY <1>6 DEF OpenPage, FindInPage, Refuse, Capabilities, cached
<1>7. UNCHANGED vars => searches' = searches /\ retrieved' = retrieved
  BY DEF vars, cached, runtime
<1> QED
  BY <1>1, <1>2, <1>3, <1>4, <1>5, <1>6, <1>7, CallOf DEF Next, Call

LEMMA ProfilesStayTyped ==
  ASSUME ProfilesTyped, [Next]_vars
  PROVE  ProfilesTyped'
<1> USE DEF ProfilesTyped
<1>1. ASSUME NEW c, Capabilities(c) PROVE ProfilesTyped'
  <2>1. guidance' \in {guidance, Guided, {}}
    BY <1>1 DEF Capabilities, Fetch, Guide
  <2>2. guidance' \subseteq Profiles
    BY <2>1, WebAssumption DEF WebAssumption
  <2>3. AdvertisedWith(guidance') \subseteq Profiles
    BY DEF AdvertisedWith
  <2> QED
    BY <1>1, <2>2, <2>3 DEF Capabilities, Fetch
<1>2. CASE NewRun
  BY <1>2 DEF NewRun
<1>3. CASE UNCHANGED <<guidance, advertised, withdrawn>>
  BY <1>3
<1>4. Expire \/ UNCHANGED vars => UNCHANGED <<guidance, advertised, withdrawn>>
  BY DEF Expire, vars, runtime
<1>5. ASSUME NEW c, Call(c), ~ Capabilities(c) PROVE UNCHANGED <<guidance, advertised, withdrawn>>
  BY <1>5 DEF Call, Search, OpenPage, FindInPage, Retrieve, Refuse
<1> QED
  BY <1>1, <1>2, <1>3, <1>4, <1>5 DEF Next

LEMMA ResultsStayTyped ==
  ASSUME answer.results \subseteq Results, IInv, [Next]_vars
  PROVE  answer'.results \subseteq Results
<1>1. ASSUME NEW c \in Calls, Search(c) PROVE answer'.results \subseteq Results
  <2>1. PICK k \in Candidates(c), R \in Reports(Budget[c.mode]["results"]) :
          answer' = AnswerOf(c, k, R)
    BY <1>1, SearchStep DEF IInv
  <2> QED
    BY <2>1 DEF AnswerOf, Reports
<1>2. ASSUME NEW c, Call(c), ~ Search(c) PROVE answer'.results = {}
  <2>1. ASSUME Retrieve(c) PROVE answer'.results = {}
    <3>1. \/ \E n : answer' = [Plain(c, TRUE) EXCEPT !.chars = n]
          \/ answer' = Plain(c, FALSE)
      BY <2>1 DEF Retrieve
    <3> QED
      BY <3>1 DEF Plain
  <2>2. ASSUME ~ Retrieve(c) PROVE \E ok : answer' = Plain(c, ok)
    BY <1>2, <2>2 DEF Call, OpenPage, FindInPage, Refuse, Capabilities
  <2> QED
    BY <2>1, <2>2 DEF Plain
<1>3. CASE NewRun
  BY <1>3 DEF NewRun, NoAnswer
<1>4. CASE Expire \/ UNCHANGED vars
  BY <1>4 DEF Expire, vars
<1> QED
  BY <1>1, <1>2, <1>3, <1>4, CallOf DEF Next

(* The counters, the caches and the last answer have their types.          *)
THEOREM WebTypes == Spec => []TypeOK
<1> DEFINE T == /\ PagesTyped /\ CachesTyped /\ ProfilesTyped
                /\ answer.results \subseteq Results
<1>1. Init => T
  BY DEF Init, PagesTyped, CachesTyped, ProfilesTyped, Nothing, NoAnswer
<1>2. IInv /\ T /\ [Next]_vars => T'
  BY PagesStayTyped, CachesStayTyped, ProfilesStayTyped, ResultsStayTyped
<1>3. IInv /\ T => TypeOK
  <2> SUFFICES ASSUME IInv, T PROVE TypeOK
    OBVIOUS
  <2>1. counters \in [DOMAIN Unused -> Nat]
    BY DEF IInv, Spent, Counters, Unused
  <2>2. cost \in [DOMAIN NoCost -> Nat]
    BY DEF IInv, Spent, Costs, NoCost
  <2> QED
    BY <2>1, <2>2 DEF TypeOK, IInv, PagesTyped, CachesTyped, ProfilesTyped
<1> HIDE DEF T
<1> QED
  BY <1>1, <1>2, <1>3, WebInvariant, PTL DEF Spec
=============================================================================
