-------------------------- MODULE MCPrewriteGuard --------------------------
(* PrewriteGuard for TLC. *)
EXTENDS PrewriteGuard, TLC

Interchangeable == Permutations(Procs) \cup Permutations(Contents)
=============================================================================
