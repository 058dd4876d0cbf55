------------------------------ MODULE Histories ------------------------------
(***************************************************************************)
(* Sequences of which some members are kept, in their order: what the list *)
(* comprehensions over a request's input do (proxy/qz_responses.py,        *)
(* proxy/qz_sandbox_escalation.py).  Said by places instead of member by   *)
(* member, so that it can be reasoned about without induction.             *)
(***************************************************************************)
EXTENDS Naturals, FiniteSets, Sequences

(* The members of a finite set of numbers, in order.                       *)
InOrder(S) ==
  [i \in 1 .. Cardinality(S) |->
     CHOOSE k \in S : Cardinality({j \in S : j <= k}) = i]

(* Those of a sequence that are at the places K.  (The empty sequence has  *)
(* TLC evaluate the function once, not at each application.)               *)
Kept(items, K) ==
  LET order == InOrder(K)
  IN  <<>> \o [n \in DOMAIN order |-> items[order[n]]]
=============================================================================
