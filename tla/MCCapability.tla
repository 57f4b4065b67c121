---------------------------- MODULE MCCapability ----------------------------
(* Capability for TLC. *)
EXTENDS Capability, TLC

Interchangeable == Permutations(Procs) \cup Permutations(Subjects)
=============================================================================
