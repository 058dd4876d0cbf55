----------------------------- MODULE Compaction -----------------------------
(***************************************************************************)
(* What happens to a long conversation (proxy/qz_responses.py, its callers *)
(* in proxy/quantzhai_proxy.py and proxy/qz_request_router.py).  The       *)
(* client keeps the history and sends all of it with each request.  It     *)
(* may have it compacted (POST /v1/responses/compact: everything becomes   *)
(* one summary), or name a threshold in a request, above which the proxy   *)
(* answers with a compacted history (a summary and the recent items)       *)
(* instead of asking the model.  A summary is written by the model itself  *)
(* when it can be asked (v3), else by joining and cutting the texts (v2).  *)
(*                                                                         *)
(* An item says a sequence of facts, the unit in which texts and token     *)
(* budgets are measured; a fact of Marked contains one of the phrases by   *)
(* which messages of the client's own harness are recognised.  The remarks *)
(* that the proxy itself puts into a turn of the model (advisories of the  *)
(* escalation and of the budget) are not in the client's history, and are  *)
(* left out of what the model is fed here.                                 *)
(***************************************************************************)
EXTENDS Histories, SequencesExt, FiniteSetsExt

CONSTANTS
  MaxFacts,      (* bound: facts of a conversation                         *)
  Marked,        (* facts whose text has a harness or checkpoint phrase    *)
  OutputTokens,  (* tokens of an output that is kept whole                 *)
  Threshold,     (* context_management.compact_threshold; 0: not sent      *)
  Catalogs,      (* the catalogs met: see Window                           *)
  KeepRecent,    (* COMPACTION_CONFIG: keep_recent_items                   *)
  MinPreserve,   (*   min_preserve_items                                   *)
  SummaryCap,    (*   max_summary_chars                                    *)
  ItemCap,       (*   max_item_summary_chars                               *)
  TargetTokens,  (*   target_output_tokens                                 *)
  MaxDepth,      (*   max_compaction_depth                                 *)
  DefaultInput,  (* _DEFAULT_LLM_MAX_INPUT_CHARS                           *)
  DefaultOutput, (* _DEFAULT_LLM_MAX_OUTPUT_TOKENS                         *)
  MaxOutput      (* the 8192 of the budget                                 *)

ASSUME CompactionAssumption ==
  /\ {MaxFacts, Threshold, TargetTokens, DefaultInput, DefaultOutput,
      MaxOutput} \subseteq Nat
  /\ {OutputTokens, MinPreserve, SummaryCap, ItemCap, MaxDepth} \subseteq Nat \ {0}
  /\ KeepRecent \in Nat /\ KeepRecent >= MinPreserve
  /\ Catalogs \subseteq Seq([runtime : Nat, trained : Nat])

VARIABLES
  hist,   (* the client's history                                          *)
  said,   (* how many facts there are                                      *)
  asking, (* a request of the client is not answered yet                   *)
  fed,    (* what the model was last given to read                         *)
  due,    (* calls that the client has yet to answer                       *)
  cut     (* calls trimmed from a compacted history (not in the program)   *)

compactionVars == <<hist, said, asking, fed, due, cut>>

Facts == 1 .. MaxFacts
NoCall == 0

(* talk: a message; thought: an item that is not sent again (reasoning, a  *)
(* web search); call and output: of the client's tools.  The other tools   *)
(* of the proxy show the client an output only, of no call.                *)
Plain(kind, call, says) ==
  [kind |-> kind, call |-> call, says |-> says]
Talk(says) == Plain("talk", NoCall, says)

(* A compaction item, with what is written into its blob.                  *)
Blob(engine, depth, says) ==
  [kind |-> "blob", call |-> NoCall, says |-> says, engine |-> engine,
   depth |-> depth]

IsBlob(i) == i.kind = "blob"
ToolLike(i) == i.kind \in {"call", "output"}
FactsOf(items) == UNION {ToSet(items[k].says) : k \in DOMAIN items}
IsMarked(i) == ToSet(i.says) \cap Marked # {}

CallsOf(items) ==
  {items[k].call : k \in {j \in DOMAIN items : items[j].kind = "call"}}

Take(s, n) == SubSeq(s, 1, Min({n, Len(s)}))
Ending(s, n) == SubSeq(s, Len(s) - n + 1, Len(s))
Joined(seqs) == FlattenSeq(seqs)
Summaries(items) == {k \in DOMAIN items : IsBlob(items[k])}

-----------------------------------------------------------------------------
(* _item_text: what a summary or an estimate reads of an item.             *)
ItemText(i) ==
  CASE i.kind = "thought" -> <<>>
    [] i.kind = "talk" /\ IsMarked(i) -> <<>>
    [] i.kind \in {"call", "output"} -> Take(i.says, ItemCap)
    [] OTHER -> i.says

Weight(i) == IF i.kind = "output" THEN OutputTokens
             ELSE Max({1, Len(ItemText(i))})

(* _estimate_items_tokens: at least one for every item.                    *)
Tokens(items) ==
  Cardinality(UNION {{k} \X (1 .. Weight(items[k])) : k \in DOMAIN items})

(* Slip: the tail begins wherever it falls.                                *)
TailStartMidRun(items) ==
  IF Len(items) <= KeepRecent THEN 1 ELSE Len(items) - KeepRecent + 1

(* The recent items: KeepRecent of them, or more so as not to begin in the *)
(* middle of a run of calls and outputs.                                   *)
TailStart(items) ==
  IF Len(items) <= KeepRecent THEN 1
  ELSE Max({1} \cup {k \in 1 .. Len(items) - KeepRecent + 1 :
                       ~ ToolLike(items[k])})

(* Old outputs become remarks that quote their first line.  (The empty     *)
(* sequence has TLC evaluate the function once, not at each application.)  *)
Microcompact(items) ==
  LET start == TailStart(items)
  IN  <<>> \o [k \in DOMAIN items |->
                 IF k < start /\ items[k].kind = "output"
                 THEN Talk(items[k].says) ELSE items[k]]

(* A summary of the proxy's own becomes a message of the user's.           *)
Expand(items) ==
  <<>> \o [k \in DOMAIN items |->
             IF IsBlob(items[k]) THEN Talk(items[k].says) ELSE items[k]]

(* normalize_responses_input_for_qwen: what the model is given.            *)
Dropped(i) == i.kind = "thought" \/ (i.kind = "talk" /\ IsMarked(i))
Shown(items) == Kept(items, {k \in DOMAIN items : ~ Dropped(items[k])})

(* What a compaction works on.                                             *)
Working(items) == Microcompact(Shown(items))

-----------------------------------------------------------------------------
(* _resolve_llm_compaction_budget, in tokens.  A threshold of the client's *)
(* could lower it, but never does: the one caller that has a threshold has *)
(* no window (selected_model has no context_window), and asks no model.    *)
Safe(window) == window - (window * 165) \div 1000
InputLimit(window) == Max({DefaultInput, Safe(window) \div 5})
OutputLimit(window) ==
  Min({MaxOutput, Max({DefaultOutput, Safe(window) \div 25})})

(* _resolve_compact_context_window: of the model that the client names, or *)
(* that is selected, or that comes first; 0: unknown.                      *)
Window(catalog) ==
  LET entry == Head(catalog)
  IN  CASE catalog = <<>> -> 0
        [] catalog # <<>> /\ entry.runtime > 0 -> entry.runtime
        [] OTHER -> entry.trained

(* Whether the model can be asked, and how it answers.  url: the manager's *)
(* if the backend runs, else the operator's; "own": an address of the      *)
(* proxy itself, which is not called.                                      *)
Oracles ==
  [mode : {"heuristic", "auto"}, url : {"none", "own", "backend"},
   answer : {"none", "loose", "anchored"}]

OwnAddress(oracle) == oracle.url = "own"
Answered(oracle) == ~ OwnAddress(oracle) /\ oracle.answer # "none"
IsAnchored(oracle) == oracle.answer = "anchored"

(* _build_local_compaction_response_v3 gets its summary.                   *)
CanRewrite(oracle, source, window) ==
  /\ oracle.mode = "auto"
  /\ oracle.url # "none"
  /\ source # <<>>
  /\ window > 0
  /\ Answered(oracle) /\ IsAnchored(oracle)

-----------------------------------------------------------------------------
(* Slip: the earlier summary is one of the texts, and cut with them.       *)
PreviousInBody(items) == <<>>

(* _extract_previous_anchored_summary: that of the last blob.              *)
Previous(items) ==
  IF Summaries(items) = {} THEN <<>> ELSE items[Max(Summaries(items))].says

(* The prompt: the earlier summary, whole, and as many of the texts as fit. *)
(* The model is taken to leave out nothing that it was given.              *)
Rewritten(source, window) ==
  LET earlier == Previous(source)
      texts == [k \in DOMAIN source |-> ItemText(source[k])]
      body == Take(Joined(texts), InputLimit(window))
  IN  earlier \o Kept(body, {n \in DOMAIN body : body[n] \notin ToSet(earlier)})

(* _summarize_items_for_compaction: the texts, each cut and then all.      *)
Heuristic(source) ==
  LET texts == [k \in DOMAIN source |-> Take(ItemText(source[k]), ItemCap)]
  IN  Take(Joined(texts), SummaryCap)

NextDepth(items) ==
  Min({MaxDepth, 1 + Max({0} \cup {items[k].depth : k \in Summaries(items)})})

(* Slip: the tail is cut down however few items are left.                  *)
TrimmedToNothing(head, recent) ==
  LET fits(n) == Tokens(<<head>> \o SubSeq(recent, n + 1, Len(recent)))
                   <= TargetTokens
  IN  Min({Len(recent)} \cup {n \in 0 .. Len(recent) : fits(n)})

(* Slip: the recent items stay, whatever they weigh.                       *)
NeverTrimmed(head, recent) == 0

(* How many of the recent items go until the summary and the rest are      *)
(* within the target, of those that may.                                   *)
Trimmed(head, recent) ==
  LET fits(n) == Tokens(<<head>> \o SubSeq(recent, n + 1, Len(recent)))
                   <= TargetTokens
      most == Len(recent) - Min({MinPreserve, Len(recent)})
  IN  Min({most} \cup {n \in 0 .. most : fits(n)})

(* _build_local_compaction_response for POST /v1/responses/compact: all of *)
(* it becomes one summary.                                                 *)
CompactAll(all, oracle, window) ==
  LET depth == NextDepth(all)
  IN  IF CanRewrite(oracle, all, window)
      THEN <<Blob("v3", depth, Rewritten(all, window))>>
      ELSE <<Blob("v2", depth, Heuristic(all))>>

(* The same for a threshold that is passed: the recent items stay.  The    *)
(* model is never asked: no window is known.                               *)
CompactOld(items) ==
  LET all == Working(items)
      start == Min({TailStart(all), Max({1, Len(all) - MinPreserve + 1})})
      tail == SubSeq(all, start, Len(all))
      recent == Kept(tail, DOMAIN tail \ Summaries(tail))
      head == Blob("v2", NextDepth(all), Heuristic(SubSeq(all, 1, start - 1)))
      n == Trimmed(head, recent)
  IN  [items |-> <<head>> \o SubSeq(recent, n + 1, Len(recent)),
       cut |-> CallsOf(SubSeq(recent, 1, n))]

-----------------------------------------------------------------------------
CompactionInit ==
  /\ hist = <<>>
  /\ said = 0
  /\ asking = FALSE
  /\ fed = {}
  /\ due = {}
  /\ cut = {}

Grow(item) ==
  /\ ~ asking
  /\ said < MaxFacts
  /\ said' = said + 1
  /\ hist' = Append(hist, item)
  /\ UNCHANGED <<asking, fed, cut>>

(* The conversation goes on: messages, thoughts, what the proxy's tools    *)
(* put out, calls and their outputs (a call is named after its fact).  The *)
(* calls of one response of the model come together and last, and are all  *)
(* answered next.                                                          *)
Speak == due = {} /\ Grow(Talk(<<said + 1>>)) /\ UNCHANGED due
Think == due = {} /\ Grow(Plain("thought", NoCall, <<said + 1>>)) /\ UNCHANGED due
Show == due = {} /\ Grow(Plain("output", NoCall, <<said + 1>>)) /\ UNCHANGED due
Use == /\ due # {} => Last(hist).kind = "call"
       /\ Grow(Plain("call", said + 1, <<said + 1>>))
       /\ due' = due \cup {said + 1}
Result == \E c \in due : /\ Grow(Plain("output", c, <<said + 1>>))
                         /\ due' = due \ {c}

(* The client sends its history: POST /v1/responses.                       *)
Send ==
  /\ ~ asking /\ hist # <<>> /\ due = {}
  /\ asking' = TRUE
  /\ UNCHANGED <<hist, said, fed, due, cut>>

Prepared == Microcompact(Expand(hist))
TooLong == Threshold > 0 /\ Tokens(Prepared) > Threshold

(* It is answered by the model,                                            *)
Answer ==
  /\ asking /\ ~ TooLong
  /\ fed' = FactsOf(Shown(Prepared))
  /\ asking' = FALSE
  /\ UNCHANGED <<hist, said, due, cut>>

(* or by a compacted history, which the client takes on and sends again.   *)
Shorten ==
  /\ asking /\ TooLong
  /\ LET shorter == CompactOld(Prepared)
     IN  hist' = shorter.items /\ cut' = cut \cup shorter.cut
  /\ UNCHANGED <<said, asking, fed, due>>

(* POST /v1/responses/compact, when the client sees fit.  (The quantifier  *)
(* has TLC evaluate the items once, not for each oracle and catalog.)      *)
Compact ==
  /\ ~ asking /\ hist # <<>> /\ due = {}
  /\ \E all \in {Working(hist)} :
       hist' \in {CompactAll(all, oracle, Window(catalog)) :
                   oracle \in Oracles, catalog \in Catalogs}
  /\ UNCHANGED <<said, asking, fed, due, cut>>

CompactionNext ==
  \/ Speak \/ Think \/ Show \/ Use \/ Result
  \/ Send \/ Answer \/ Shorten \/ Compact

CompactionSpec == CompactionInit /\ [][CompactionNext]_compactionVars

-----------------------------------------------------------------------------
Items ==
  [kind : {"talk", "thought"}, call : {NoCall}, says : Seq(Facts)]
  \cup [kind : {"call"}, call : Facts, says : {<<f>> : f \in Facts}]
  \cup [kind : {"output"}, call : Facts \cup {NoCall}, says : {<<f>> : f \in Facts}]
  \cup [kind : {"blob"}, call : {NoCall}, says : Seq(Facts),
         engine : {"v2", "v3"}, depth : 1 .. MaxDepth]

CompactionTypeOK ==
  /\ hist \in Seq(Items)
  /\ said \in 0 .. MaxFacts
  /\ asking \in BOOLEAN
  /\ {fed, due} \subseteq SUBSET Facts
  /\ cut \subseteq Facts

(* An output of the client's in its history has its call before it, but    *)
(* for those calls that were trimmed from a compacted history: the model   *)
(* is not given the outputs of calls that it cannot see.                   *)
OutputsFollowCalls ==
  \A k \in DOMAIN hist :
    hist[k].kind = "output" /\ hist[k].call # NoCall
      => hist[k].call \in CallsOf(SubSeq(hist, 1, k - 1)) \cup cut

SummaryFacts(items) == UNION {ToSet(items[k].says) : k \in Summaries(items)}

(* A step is a compaction by engine.                                       *)
Compacted(engine) ==
  hist' # hist /\ said' = said /\ IsBlob(hist'[1]) /\ hist'[1].engine = engine

(* A summary that the model has written lasts: however long the            *)
(* conversation, and however little of it fits the prompt, the next        *)
(* summary that the model writes has all of the earlier one; and all that  *)
(* a model would be given of the conversation now, if that fits.           *)
SummaryCarriedOver ==
  [][Compacted("v3") =>
       LET old == SummaryFacts(hist)
           read == FactsOf(Shown(Working(hist)))
           new == FactsOf(hist')
       IN  /\ old \subseteq new
           /\ Cardinality(read) <= DefaultInput => read \subseteq new]_compactionVars

(* The items of a request that are never trimmed.                          *)
Untrimmed ==
  LET before == Working(Prepared)
  IN  Ending(before, Min({MinPreserve, Len(before)}))

(* The last items of a conversation survive a compaction that is to keep   *)
(* them word for word, in order, and at the end.                           *)
RecentItemsKept ==
  [][hist' # hist /\ asking => Ending(hist', Len(Untrimmed)) = Untrimmed]_compactionVars

(* A threshold with room for the target, and for a summary and the items   *)
(* that are never trimmed; and items no larger than an output that is kept *)
(* whole.                                                                  *)
Roomy == /\ Threshold >= TargetTokens
         /\ Threshold >= SummaryCap + MinPreserve * OutputTokens
Moderate(items) == \A k \in DOMAIN items : Weight(items[k]) <= OutputTokens

(* A request is not turned back forever: a history that has been compacted *)
(* is under the threshold when it comes again, its summary as a message    *)
(* now, and is answered by the model; if the client's threshold leaves     *)
(* room, and no item that is never trimmed is enormous.                    *)
TurnedBackOnce ==
  [][asking /\ hist' # hist /\ Roomy /\ Moderate(Untrimmed)
       => ~ TooLong']_compactionVars

(* Not so.  What a summary says is there to be read in the next request:   *)
(* a text with a phrase of the harness gets into a summary by way of a     *)
(* call's arguments, or in the words of the model, and the message that    *)
(* the summary becomes is then taken for the harness's and dropped.        *)
SummaryIsRead ==
  [][fed' # fed => \A k \in DOMAIN hist :
        IsBlob(hist[k]) => ToSet(hist[k].says) \subseteq fed']_compactionVars

(* Not so.  A summary survives a compaction for which the model cannot be  *)
(* asked: it is one of the texts to be cut, to ItemCap.                    *)
FallbackKeepsSummary ==
  [][Compacted("v2") /\ ~ asking =>
       SummaryFacts(hist) \subseteq FactsOf(hist')]_compactionVars

(* Not so.  What is put to a model fits into its window: the defaults are  *)
(* a floor under the limits of a small window too.                         *)
PromptFits ==
  \A catalog \in Catalogs :
    LET window == Window(catalog)
    IN  window > 0 => InputLimit(window) + OutputLimit(window) <= window
=============================================================================
