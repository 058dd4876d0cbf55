-------------------------- MODULE MCBackendManager --------------------------
(* One lifecycle thread works at a time and the rest is refused, so that   *)
(* one at work and one that competes with it (a start, a stop, or an       *)
(* autostart that sleeps) meet in every way there is.                      *)
EXTENDS BackendAdmission

CONSTANTS t1, t2, m1, none

MCTwoThreads == {t1, t2}
MCModels == {m1}
=============================================================================
