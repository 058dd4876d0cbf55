------------------------------ MODULE MCRecall ------------------------------
(* An instance of Recall: a record of the task at hand between two of other *)
(* tiers, one record more to be staged or merged, two bc_* calls of the     *)
(* memory manager, and a call of each kind of search.                       *)
EXTENDS Recall

MCWordsOf == <<{"w"}, {"v"}, {"w", "v"}, {"w"}>>
MCImportance == <<3, 4, 1, 2>>
MCLength == <<2, 3, 2, 3>>
MCBirths == <<"project_state", "episodic_memory", "working_state">>

Recalling(mode, tiers, word, plan, limit, room) ==
  [tool |-> "recall", mode |-> mode, tiers |-> tiers, ids |-> {}, word |-> word,
   plan |-> plan, limit |-> limit, room |-> room]

Rendering(tiers, ids, word) ==
  [tool |-> "render", mode |-> "task", tiers |-> tiers, ids |-> ids, word |-> word,
   plan |-> "exact", limit |-> 2, room |-> 3]

MCRequests ==
  {Recalling("task", AnyTier, "w", "fts", 2, 3),
   Recalling("project", <<"episodic_memory", "project_state">>, Anything, "exact", 1, 4),
   Recalling("project", AnyTier, "v", "tag", 1, 2),
   Recalling("open_loops", <<"episodic_memory">>, "v", "exact", 1, 1),
   Rendering(AnyTier, {1, 2}, Anything),
   Rendering(<<"working_state">>, {}, "v")}
=============================================================================
