SPECIFICATION Spec
CONSTANTS
  s = s
  p = p
  s1 = s1
  s2 = s2
  p1 = p1
  x = x
  y = y
  A = A
  B = B
  Calls = {x, y}
  NoCall = none
  KeepRecent = 2
  Clients = {s, p}
  Threads = {s1, s2, p1}
  Nobody = nobody
  Owner <- MCOwner
  Kinds <- MCKinds
  Models = {A, B}
  Wants <- MCWants
  OwnCalls <- MCOwnCalls
  Compacts = {s}
  Leavers = {s}
  Says = {"readonly", "blocked"}
  Starts <- MCStarts
  Turns <- MCTurns
  MaxRestarts = 1
  MaxHops = 2
INVARIANTS
  GateKept
  ResultReachesModel
  ResultEndsTheRound
  StayersAnswered
