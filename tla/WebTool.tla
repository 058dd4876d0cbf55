------------------------------ MODULE WebTool ------------------------------
(***************************************************************************)
(* The web_search tool of the proxy (qz_tool_web.py).  Every run, which is *)
(* a request as it is relayed, or relayed once more after a recovery, has  *)
(* a WebSearchRuntime of its own, with its counters, the signatures of its *)
(* calls, the provider's guidance and the retrieved texts; the searches    *)
(* and the opened pages are cached by the handler class, for all runs.     *)
(* The request gate serialises the requests, so calls do not overlap.      *)
(*                                                                         *)
(* A result stands for its canonical URL and is known by the source it     *)
(* comes from; a text by its length; a set of engines for what a query is  *)
(* sent to, its categories included.                                       *)
(***************************************************************************)
EXTENDS Naturals, FiniteSets, SequencesExt, FiniteSetsExt

CONSTANTS
  Fields,       \* results, searches, opens, retrievals, chars
  Modes,        \* the budget modes of WEB_SEARCH_MODE_DEFAULTS
  BuiltIn,      \* ... with their limits
  Absolute,     \* WEB_SEARCH_ABSOLUTE_MAX_*
  ModeTable,    \* routing.budget_modes; 0: absent or invalid
  Flat,         \* the flat fields of routing
  OperatorCaps, \* routing.absolute_max_*
  DefaultMode,  \* routing.default_budget_mode
  NoMode,       \* a call that names no mode
  Profiles, AutoProfile, NoProfile,
  Policy,       \* the profiles of the search policy (legacy)
  Config,       \* the profiles of search.json
  Inferred,     \* the profile the keywords of a query select
  Compat,       \* furry_fse
  Guided,       \* the profiles GET /guidance calls source_strict
  Engines, Blocked,
  Results, SourceOf,
  LowResults,   \* routing.low_result_fallback_threshold
  Urls, Length, \* the pages, and the length of what /retrieve has of them
  Calls,        \* the calls the model may make
  MaxCalls,     \* bound: calls in all runs
  MaxRuns       \* bound: runs

VARIABLES
  searches,    \* web_search_cache: a set of results for some of the keys
  pages,       \* opened_page_cache: a page for some of the URLs
  retrieved,   \* retrieval_cache: a length for some of the URLs
  guidance,    \* the profiles the fetched guidance calls source_strict
  counters, seen,
  cost,        \* history: what the run had the provider do
  advertised,  \* history: the profiles the model was told are strict
  withdrawn,   \* history: those that a fetch took out of the guidance
  answer,      \* the output of the last call
  runs         \* the run, and how many calls are left

cached == <<searches, pages>>
runtime == <<retrieved, guidance, counters, seen, cost, advertised, withdrawn>>
vars == <<cached, runtime, answer, runs>>

Least(a, b) == IF a <= b THEN a ELSE b
Most(a, b) == IF a >= b THEN a ELSE b

-----------------------------------------------------------------------------
(* Budgets (_resolve_budget_mode).                                         *)

Valid(value, default) == IF value >= 1 THEN value ELSE default

Cap == [f \in Fields |-> Least(Valid(OperatorCaps[f], Absolute[f]), Absolute[f])]

ModeOf(mode) ==
  IF mode \in Modes THEN mode
  ELSE IF DefaultMode \in Modes THEN DefaultMode ELSE "normal"

Wanted(mode) ==
  IF \E m \in Modes, f \in Fields : ModeTable[m][f] > 0
  THEN [f \in Fields |->
          Valid(ModeTable[ModeOf(mode)][f], BuiltIn[ModeOf(mode)][f])]
  ELSE IF mode \notin Modes /\ \E f \in Fields : Flat[f] > 0
  THEN [f \in Fields |-> Valid(Flat[f], BuiltIn["quick"][f])]
  ELSE BuiltIn[ModeOf(mode)]

(* Slip: the caps of the operator are not applied.                         *)
BudgetUncapped == [m \in Modes \cup {NoMode} |-> Wanted(m)]

Budget ==
  [m \in Modes \cup {NoMode} |->
     [f \in Fields |-> Least(Wanted(m)[f], Cap[f])]]

Threshold == Most(1, Least(LowResults, Budget[NoMode]["results"]))

-----------------------------------------------------------------------------
(* Profiles (_profile_config, _filter_engines, _profile_source_strict).    *)
(* A search reads the policy before search.json, the capabilities read     *)
(* search.json first.                                                      *)

Route(p) == IF p \in DOMAIN Policy THEN Policy[p] ELSE Config[p]
Advert(p) == IF p \in DOMAIN Config THEN Config[p] ELSE Policy[p]

ProfileOf(c) == IF c.profile \in Profiles THEN c.profile ELSE Inferred[c.query]

(* A profile that is described in neither file has the defaults of         *)
(* _profile_config for its entry, and a mode of the table that is not      *)
(* built in those of the built-in default; a fallback may be any name.     *)
ASSUME WebAssumption ==
  /\ Fields = {"results", "searches", "opens", "retrievals", "chars"}
  /\ {"quick", "normal"} \subseteq Modes
  /\ BuiltIn \in [Modes -> [Fields -> Nat \ {0}]]
  /\ ModeTable \in [Modes -> [Fields -> Nat]]
  /\ Absolute \in [Fields -> Nat \ {0}]
  /\ {Flat, OperatorCaps} \subseteq [Fields -> Nat]
  /\ IsFiniteSet(Profiles) /\ Profiles # {} /\ Guided \subseteq Profiles
  /\ {AutoProfile, NoProfile} \cap Profiles = {}
  /\ \A p \in Profiles : /\ Route(p).fallbacks \in Seq(Profiles \cup {AutoProfile, NoProfile})
                         /\ {Route(p).strict, Advert(p).strict} \subseteq BOOLEAN
  /\ IsFiniteSet(Results)
  /\ Length \in [Urls -> Nat] /\ LowResults \in Nat
  /\ \A c \in Calls : /\ c.mode \in Modes \cup {NoMode} /\ c.top \in Nat
                      /\ ProfileOf(c) \in Profiles
  /\ MaxCalls \in Nat /\ MaxRuns \in Nat \ {0}

Usable(names) == names \ Blocked

EnginesOf(c) ==
  Usable(IF c.engines # {} THEN c.engines ELSE Route(ProfileOf(c)).engines)

(* Slip: the guidance is only shown, not obeyed.                           *)
StrictUnguided(c) ==
  \/ Route(ProfileOf(c)).strict
  \/ ProfileOf(c) = Compat
  \/ c.engines = {"fse"}

Strict(c) ==
  \/ Route(ProfileOf(c)).strict
  \/ ProfileOf(c) \in guidance
  \/ ProfileOf(c) = Compat
  \/ c.engines = {"fse"}

(* An explicit choice of engines or a strict profile stays where it is.    *)
FallbacksOf(c) ==
  LET named == Route(ProfileOf(c)).fallbacks
  IN  IF Strict(c) \/ c.engines # {} THEN {}
      ELSE {k \in DOMAIN named : named[k] \in Profiles \ {ProfileOf(c)}}

(* What a search may ask, in order: the profile of the call, at 0, and its  *)
(* fallbacks.                                                              *)
Candidates(c) == {0} \cup FallbacksOf(c)

Candidate(c, k) ==
  IF k = 0 THEN ProfileOf(c) ELSE Route(ProfileOf(c)).fallbacks[k]

Named(c, k) == IF k = 0 THEN EnginesOf(c) ELSE Usable(Route(Candidate(c, k)).engines)

(* Slip: results from the cache are taken as they are.                     *)
AcceptedUncached(c, key, found) ==
  LET expected == Route(ProfileOf(c)).expected
  IN  IF Strict(c) /\ expected # {} /\ key \notin DOMAIN searches
      THEN {r \in found : SourceOf[r] \in expected} ELSE found

(* A strict profile that says what it expects keeps only that.             *)
Accepted(c, key, found) ==
  LET expected == Route(ProfileOf(c)).expected
  IN  IF Strict(c) /\ expected # {}
      THEN {r \in found : SourceOf[r] \in expected} ELSE found

-----------------------------------------------------------------------------
(* The slip forgets top_k in the key of the cache.                         *)
KeyWithoutTop(query, names, top) == <<query, names, 0>>

Key(query, names, top) == <<query, names, top>>

(* What the query returns: the cached dictionary, or the provider's        *)
(* report.  A failure is reported as no results, and cached as well.       *)
Reported(key, report) ==
  IF key \in DOMAIN searches THEN searches[key] ELSE report[key[2]]

(* What the candidates are answered.  The dictionary that is cached is the *)
(* one that is filtered, so the filter of a strict profile stays in the    *)
(* cache.                                                                  *)
Found(c, top, report) ==
  [k \in Candidates(c) |->
     LET key == Key(c.query, Named(c, k), top)
     IN  IF k = 0 THEN Accepted(c, key, Reported(key, report))
         ELSE Reported(key, report)]

(* The candidates are tried in order until one has enough results.         *)
Tried(found) ==
  {k \in DOMAIN found :
     \A j \in DOMAIN found : j < k => Cardinality(found[j]) < Threshold}

(* The first of those tried that none of the others betters.               *)
Best(found) ==
  Min({k \in Tried(found) :
         \A j \in Tried(found) : Cardinality(found[j]) <= Cardinality(found[k])})

(* _search_web.                                                            *)
SearchWeb(c, top, report) ==
  LET found == Found(c, top, report)
      key == Key(c.query, EnginesOf(c), top)
      asked == {Key(c.query, Named(c, k), top) : k \in Tried(found)}
  IN  /\ searches' = [k \in DOMAIN searches \cup asked |->
                        IF k = key THEN found[0] ELSE Reported(k, report)]
      /\ cost' = [cost EXCEPT !.searches = @ + 1,
                    !.queries = @ + Cardinality(asked \ DOMAIN searches)]
      /\ answer' = [action |-> "search", ok |-> TRUE, call |-> c,
                    profile |-> Candidate(c, Best(found)),
                    results |-> found[Best(found)], chars |-> 0]

Signature(c) ==
  <<c.action, IF c.action = "search" THEN c.profile ELSE "", c.query, c.url,
    c.page>>

Plain(c, ok) ==
  [action |-> c.action, ok |-> ok, call |-> c, profile |-> NoProfile,
   results |-> {}, chars |-> 0]

Calling(c) == c \in Calls /\ runs.left > 0
Spend == runs' = [runs EXCEPT !.left = @ - 1]

-----------------------------------------------------------------------------
(* execute_web_search_call, by action.                                     *)

Search(c) ==
  /\ Calling(c) /\ c.action = "search"
  /\ counters.search < Budget[c.mode]["searches"]
  /\ Signature(c) \notin seen /\ c.query # ""
  /\ LET limit == Budget[c.mode]["results"]
         top == Least(IF c.top = 0 THEN limit ELSE c.top, limit)
         named == {Named(c, k) : k \in Candidates(c)}
         sent == {e \in named : Key(c.query, e, top) \notin DOMAIN searches}
     IN  \E report \in [sent -> {R \in SUBSET Results : Cardinality(R) <= top}] :
           SearchWeb(c, top, report)
  /\ counters' = [counters EXCEPT !.search = @ + 1]
  /\ seen' = seen \cup {Signature(c)}
  /\ Spend
  /\ UNCHANGED <<pages, retrieved, guidance, advertised, withdrawn>>

(* _open_page: a page, where it was redirected to, or the error that is    *)
(* kept in its place.                                                      *)
Fetched(url) ==
  {[id |-> u, ok |-> TRUE, fresh |-> TRUE] : u \in Urls}
    \cup {[id |-> url, ok |-> FALSE, fresh |-> TRUE]}

CachedPage(url) == url \in DOMAIN pages /\ pages[url].fresh

PutPage(url, page) ==
  pages' = [u \in DOMAIN pages \cup {url, page.id} |->
              IF u \in {url, page.id} THEN page ELSE pages[u]]

Open(url) ==
  \/ (url \notin Urls \/ CachedPage(url)) /\ UNCHANGED pages
  \/ /\ url \in Urls /\ ~ CachedPage(url)
     /\ \E page \in Fetched(url) : PutPage(url, page)

(* A URL that cannot be opened, and a page that could not be fetched, are  *)
(* answers like others.                                                    *)
OpenPage(c) ==
  /\ Calling(c) /\ c.action = "open_page"
  /\ counters.open_page < Budget[c.mode]["opens"]
  /\ Signature(c) \notin seen /\ c.url # ""
  /\ Open(c.url)
  /\ counters' = [counters EXCEPT !.open_page = @ + 1]
  /\ seen' = seen \cup {Signature(c)}
  /\ answer' = Plain(c, TRUE)
  /\ Spend
  /\ UNCHANGED <<searches, retrieved, guidance, cost, advertised, withdrawn>>

(* _find_in_page.  A page that is known by its id is read however old it   *)
(* is; otherwise the URL is opened, outside the budget of page opens.      *)
FindInPage(c) ==
  /\ Calling(c) /\ c.action = "find_in_page"
  /\ Signature(c) \notin seen /\ c.query # "" /\ (c.page # "" \/ c.url # "")
  /\ IF (\E u \in DOMAIN pages : pages[u].id = c.page) \/ c.url = ""
     THEN UNCHANGED pages ELSE Open(c.url)
  /\ seen' = seen \cup {Signature(c)}
  /\ answer' = Plain(c, TRUE)
  /\ Spend
  /\ UNCHANGED <<searches, retrieved, guidance, counters, cost, advertised, withdrawn>>

(* _normalize_retrieve_response cuts the text to the budget of the call.   *)
Cut(url, mode) == Least(Length[url], Budget[mode]["chars"])

(* _retrieve.  What is cached is the text as it was cut; failures are not  *)
(* cached.                                                                 *)
Retrieve(c) ==
  /\ Calling(c) /\ c.action = "retrieve" /\ c.url # ""
  /\ counters.retrieve < Budget[c.mode]["retrievals"]
  /\ \/ /\ c.url \in DOMAIN retrieved
        /\ answer' = [Plain(c, TRUE) EXCEPT !.chars = retrieved[c.url]]
        /\ UNCHANGED <<retrieved, cost>>
     \/ /\ c.url \in Urls \ DOMAIN retrieved
        /\ retrieved' = [u \in DOMAIN retrieved \cup {c.url} |->
                          IF u = c.url THEN Cut(u, c.mode) ELSE retrieved[u]]
        /\ answer' = [Plain(c, TRUE) EXCEPT !.chars = Cut(c.url, c.mode)]
        /\ cost' = [cost EXCEPT !.retrievals = @ + 1]
     \/ /\ c.url \notin DOMAIN retrieved
        /\ answer' = Plain(c, FALSE)
        /\ cost' = [cost EXCEPT !.retrievals =
                                  IF c.url \in Urls THEN @ + 1 ELSE @]
        /\ UNCHANGED retrieved
  /\ counters' = [counters EXCEPT !.retrieve = @ + 1]
  /\ seen' = seen \cup {Signature(c)}
  /\ Spend
  /\ UNCHANGED <<cached, guidance, advertised, withdrawn>>

(* Out of budget, repeated, or without what the action needs.  A refused   *)
(* call leaves its signature as well.                                      *)
Refuse(c) ==
  /\ Calling(c)
  /\ CASE c.action = "search" ->
            \/ counters.search >= Budget[c.mode]["searches"]
            \/ Signature(c) \in seen \/ c.query = ""
       [] c.action = "open_page" ->
            \/ counters.open_page >= Budget[c.mode]["opens"]
            \/ Signature(c) \in seen \/ c.url = ""
       [] c.action = "find_in_page" ->
            \/ Signature(c) \in seen \/ c.query = ""
            \/ c.page = "" /\ c.url = ""
       [] c.action = "retrieve" ->
            \/ c.url = "" \/ counters.retrieve >= Budget[c.mode]["retrievals"]
       [] OTHER -> c.action # "capabilities"
  /\ seen' = seen \cup {Signature(c)}
  /\ answer' = Plain(c, FALSE)
  /\ Spend
  /\ UNCHANGED <<cached, retrieved, guidance, counters, cost, advertised, withdrawn>>

(* _fetch_provider_guidance_cached: what was fetched before, or the answer *)
(* or failure of a fetch, which is made again when that is old.            *)
Guide == {guidance, Guided, {}}

AdvertisedWith(guide) ==
  {p \in Profiles : Advert(p).strict \/ p = Compat \/ p \in guide}

Fetch ==
  /\ guidance' \in Guide
  /\ withdrawn' = (withdrawn \cup guidance) \ guidance'

(* build_web_search_capabilities, which alone asks for the guidance.  An   *)
(* entry of it that cannot be read fails the call when the guidance has    *)
(* been replaced already.                                                  *)
Capabilities(c) ==
  /\ Calling(c) /\ c.action = "capabilities"
  /\ Fetch
  /\ \/ /\ advertised' = advertised \cup AdvertisedWith(guidance')
        /\ answer' = Plain(c, TRUE)
     \/ /\ guidance' # {} /\ UNCHANGED advertised
        /\ answer' = Plain(c, FALSE)
  /\ Spend
  /\ UNCHANGED <<cached, retrieved, counters, seen, cost>>

-----------------------------------------------------------------------------
Nothing == [u \in {} |-> 0]
NoCost == [searches |-> 0, queries |-> 0, retrievals |-> 0]
Unused == [search |-> 0, open_page |-> 0, retrieve |-> 0]
NoAnswer ==
  [action |-> "none", ok |-> TRUE, call |-> 0, profile |-> NoProfile,
   results |-> {}, chars |-> 0]

(* _web_runtime, and the counters and signatures of a run: the next        *)
(* request, or the retry of a stream, in the same POST.                    *)
NewRun ==
  /\ runs.now < MaxRuns /\ runs.left > 0
  /\ runs' = [runs EXCEPT !.now = @ + 1]
  /\ retrieved' = Nothing /\ guidance' = {} /\ advertised' = {} /\ withdrawn' = {}
  /\ counters' = Unused /\ seen' = {} /\ cost' = NoCost
  /\ answer' = NoAnswer
  /\ UNCHANGED cached

(* _cache_get drops an entry that is older than its time to live.  A pause *)
(* outlives all entries or none; find_in_page reads a page that has.       *)
Expire ==
  /\ searches' = Nothing /\ retrieved' = Nothing
  /\ pages' = [u \in DOMAIN pages |-> [pages[u] EXCEPT !.fresh = FALSE]]
  /\ UNCHANGED <<guidance, counters, seen, cost, advertised, withdrawn, answer, runs>>

Init ==
  /\ searches = Nothing /\ pages = Nothing
  /\ retrieved = Nothing /\ guidance = {} /\ advertised = {} /\ withdrawn = {}
  /\ counters = Unused /\ seen = {} /\ cost = NoCost
  /\ answer = NoAnswer
  /\ runs = [now |-> 1, left |-> MaxCalls]

Call(c) ==
  \/ Search(c) \/ OpenPage(c) \/ FindInPage(c) \/ Retrieve(c) \/ Refuse(c)
  \/ Capabilities(c)

Next == NewRun \/ Expire \/ \E c \in Calls : Call(c)

Spec == Init /\ [][Next]_vars

-----------------------------------------------------------------------------
(* The counters, the caches and the last answer have their types.          *)
TypeOK ==
  /\ searches \in [DOMAIN searches -> SUBSET Results]
  /\ pages \in [DOMAIN pages -> [id : Urls, ok : BOOLEAN, fresh : BOOLEAN]]
  /\ retrieved \in [DOMAIN retrieved -> Nat]
  /\ DOMAIN pages \subseteq Urls /\ DOMAIN retrieved \subseteq Urls
  /\ {guidance, advertised, withdrawn} \subseteq SUBSET Profiles
  /\ counters \in [DOMAIN Unused -> Nat] /\ cost \in [DOMAIN NoCost -> Nat]
  /\ answer.results \subseteq Results /\ answer.chars \in Nat

(* Whatever modes the calls of one run name, in whatever order, the run    *)
(* costs the provider no more than the operator's caps: the calls of a     *)
(* mode count against every other mode.                                    *)
MostTries ==
  1 + Max({Len(Route(p).fallbacks) : p \in Profiles})

CostWithinCaps ==
  /\ cost.searches <= Cap["searches"]
  /\ cost.queries <= Cap["searches"] * MostTries
  /\ cost.retrievals <= Cap["retrievals"]
  /\ counters.open_page <= Cap["opens"]

(* A search of a profile that is configured as strict and names its        *)
(* sources returns nothing from elsewhere and never another profile's      *)
(* answer, also when the results come from a cache that requests of        *)
(* other profiles have filled.                                             *)
StrictStaysInSource ==
  answer.action = "search" /\ answer.ok =>
    LET p == ProfileOf(answer.call)
    IN  Route(p).strict =>
          /\ answer.profile = p
          /\ Route(p).expected # {} =>
               \A r \in answer.results : SourceOf[r] \in Route(p).expected

(* No answer is larger than the mode of the call that gets it allows,      *)
(* although the searches of all modes and requests share a cache; a        *)
(* retrieved text, at least, is never larger than the operator's cap.      *)
AnswerWithinBudget ==
  /\ answer.action = "search" /\ answer.ok =>
       Cardinality(answer.results) <= Budget[answer.call.mode]["results"]
  /\ answer.chars <= Cap["chars"]

(* A profile of which the capabilities have told the model, at any time in *)
(* the run, that it is strict and has no fallback is served so from then   *)
(* on, whatever else they are asked for, unless a later fetch of the       *)
(* guidance has failed or no longer calls it strict.                       *)
AdvertisedIsServed ==
  answer.action = "search" /\ answer.ok =>
    LET p == ProfileOf(answer.call)
    IN  p \in advertised \ withdrawn => answer.profile = p

-----------------------------------------------------------------------------
(* What the documents say and the code does not do; TLC refutes each one.  *)

(* "Source-strict result validation: discard results not from expected     *)
(* sources" (qz_tool_web.py).  The fallback furry_fse of furry is strict,  *)
(* and what it is answered is not filtered.                                *)
LabelIsStrict ==
  answer.action = "search" /\ answer.profile \in Profiles =>
    LET p == answer.profile
    IN  Route(p).strict /\ Route(p).expected # {} =>
          \A r \in answer.results : SourceOf[r] \in Route(p).expected

(* docs/search-config-contract.md: a mode bounds max_retrieved_chars.  A   *)
(* text that was retrieved in a larger mode is returned as it was cached.  *)
TextWithinMode ==
  answer.action = "retrieve" /\ answer.ok =>
    answer.chars <= Budget[answer.call.mode]["chars"]

(* "True when search must stay within expected sources - no fallback, no   *)
(* broadening" (_profile_source_strict), which the capabilities tell the   *)
(* model of a profile.  A fetch of the guidance that fails later takes it  *)
(* back without a word.                                                    *)
AdvertisedForGood ==
  answer.action = "search" /\ answer.ok =>
    LET p == ProfileOf(answer.call)
    IN  p \in advertised => answer.profile = p
=============================================================================
