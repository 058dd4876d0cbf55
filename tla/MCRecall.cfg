SPECIFICATION Spec
CONSTANTS
  Ids = {1, 2, 3, 4}
  NoId = 0
  Words = {"w", "v"}
  Anything = "anything"
  WordsOf <- MCWordsOf
  Importance <- MCImportance
  Length <- MCLength
  Stub = 1
  Births <- MCBirths
  StageTiers = {"episodic_memory"}
  Labels = {{"v"}}
  Requests <- MCRequests
  MaxCalls = 2
INVARIANT NotStarved
