SPECIFICATION Spec
CONSTANTS
  Workers = {w1, w2}
  Models = {m1, m2}
  NoModel = none
  Rounds = 2
  Asked <- MCAsked
  MaxOps = 2
SYMMETRY MCSymmetry
INVARIANTS
  ReloadsKeepOneModel
  ServedUndisturbed
PROPERTIES
  SelectionKept
