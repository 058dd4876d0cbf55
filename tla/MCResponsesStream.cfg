SPECIFICATION LiveSpec
CONSTANTS
  MaxHops = 2
  RepairHops = 1
  NoOutputWatch = TRUE
  TerminalWatch = TRUE
INVARIANTS
  OneResponsePerRun
  ItemsClosed
  ReasoningAnswered
  RegisteredWhileServed
PROPERTIES
  CallEndsTheStream
  RequestEnds
