--------------------------- MODULE MCStatusReport ---------------------------
(* Two models and no model tell apart everything the status looks at.      *)
EXTENDS StatusReport
=============================================================================
