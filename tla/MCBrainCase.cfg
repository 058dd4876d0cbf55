SPECIFICATION Spec
CONSTANTS
  a = a
  c = c
  g = g
  Managers = {m1, m2}
  Session = session
  Operator = operator
  Ids <- MCIds
  MergeIds <- MCMergeIds
  NoId = none
  Class <- MCClass
  Births <- MCBirths
  MaxCalls = 1
SYMMETRY MCSymmetry
INVARIANTS
  SuccessorExists
  HistoryExplains
  LockHeldByTheLiving
PROPERTIES
  PruneSparesDurable
