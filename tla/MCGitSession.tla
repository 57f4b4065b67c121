---------------------------- MODULE MCGitSession ----------------------------
(* GitSession for TLC. *)
EXTENDS GitSession, TLC

Interchangeable ==
    Permutations(Procs) \cup Permutations(Contents) \cup Permutations(Files \ Protected)
=============================================================================
