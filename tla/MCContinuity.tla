---------------------------- MODULE MCContinuity ----------------------------
(* Continuity for TLC. *)
EXTENDS Continuity, TLC

Interchangeable == Permutations(Procs) \cup Permutations(Handoffs) \cup Permutations(Decisions)
=============================================================================
