----------------------------- MODULE MCCallGraph -----------------------------
(* Call lists of up to two calls, for all small call graphs. *)
EXTENDS CallGraph, SequencesExt

ShortCalleeLists == BoundedSeq(Ids, 2)
=============================================================================
