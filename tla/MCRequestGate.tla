--------------------------- MODULE MCRequestGate ---------------------------
(* A streaming client that may abandon a request and ask again, and a      *)
(* request of another kind beside it.                                      *)
EXTENDS RequestGate

CONSTANTS s, p, s1, s2, p1, x, y, A, B

MCOwner == [t \in Threads |-> IF t = p1 THEN p ELSE s]

MCKinds == [c \in Clients |-> IF c = s THEN {"stream"} ELSE {"plain", "other"}]

MCWants == [c \in Clients |-> IF c = s THEN A ELSE B]

MCOwnCalls == [c \in Clients |-> IF c = s THEN Calls ELSE {}]

(* The conversation goes on from where another proxy left it: with a       *)
(* command that has been denied and run again.                             *)
MCStarts ==
  LET denied == <<Talk, Call(x, FALSE), Output(x, FALSE, "readonly")>>
      again == <<Call(x, TRUE), Output(x, TRUE, "ok")>>
  IN  [c \in Clients |-> IF c = s THEN {denied \o again} ELSE {<<Talk>>}]

MCTurns == [c \in Clients |-> IF c = s THEN 3 ELSE 1]

(* A conversation resumed after a denial, and nobody else.                 *)
MCDeniedStarts ==
  [c \in Clients |-> {<<Talk, Call(x, FALSE), Output(x, FALSE, "readonly")>>}]

MCLongTurns == [c \in Clients |-> IF c = s THEN 4 ELSE 0]
=============================================================================
