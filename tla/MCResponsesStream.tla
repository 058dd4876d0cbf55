-------------------------- MODULE MCResponsesStream --------------------------
(* Two hops and one repair: a hop after a tool, a repair after it, and the  *)
(* limit met in both ways.                                                 *)
EXTENDS ResponsesStream
=============================================================================
