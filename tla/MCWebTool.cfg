SPECIFICATION Spec
CONSTANTS
  Fields <- MCFields
  Modes = {"quick", "normal"}
  BuiltIn <- MCBuiltIn
  Absolute <- MCAbsolute
  ModeTable <- MCModeTable
  Flat <- MCFlat
  OperatorCaps <- MCOperatorCaps
  DefaultMode = "normal"
  NoMode = "none"
  Profiles = {"broad", "furry", "furry_fse", "wikis"}
  AutoProfile = "auto"
  NoProfile = "nowhere"
  Policy <- MCPolicy
  Config <- MCConfig
  Inferred <- MCInferred
  Compat = "furry_fse"
  Guided = {"wikis"}
  Engines = {"fse", "art", "web", "old"}
  Blocked = {"old"}
  Results = {"f", "w"}
  SourceOf <- MCSourceOf
  LowResults = 2
  Urls = {"u", "v"}
  Length <- MCLength
  Calls <- MCCalls
  MaxCalls = 3
  MaxRuns = 2
INVARIANTS
  CostWithinCaps
  StrictStaysInSource
  AnswerWithinBudget
  AdvertisedIsServed
