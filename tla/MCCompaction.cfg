SPECIFICATION CompactionSpec
CONSTANTS
  MaxFacts = 7
  Marked = {5}
  OutputTokens = 3
  Threshold = 9
  Catalogs <- MCCatalogs
  KeepRecent = 4
  MinPreserve = 2
  SummaryCap = 3
  ItemCap = 1
  TargetTokens = 7
  MaxDepth = 3
  DefaultInput = 2
  DefaultOutput = 7
  MaxOutput = 7
INVARIANTS
  OutputsFollowCalls
PROPERTIES
  SummaryCarriedOver
  RecentItemsKept
  TurnedBackOnce
CHECK_DEADLOCK FALSE
