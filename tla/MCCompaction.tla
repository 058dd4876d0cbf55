---------------------------- MODULE MCCompaction ----------------------------
(***************************************************************************)
(* A conversation of a few facts whose fifth has a phrase of the harness,  *)
(* under limits small enough that every one of them is met: two or three   *)
(* items are kept, a summary holds three facts and an item of it one.      *)
(***************************************************************************)
EXTENDS Compaction

(* Nothing known, a small window, and an override that gives a larger one. *)
MCCatalogs ==
  {<<>>, <<[runtime |-> 0, trained |-> 8]>>,
   <<[runtime |-> 24, trained |-> 8]>>}
=============================================================================
