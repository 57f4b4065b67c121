----------------------------- MODULE MCExecutor -----------------------------
(* GovernedExecutor for TLC. *)
EXTENDS GovernedExecutor, TLC

CONSTANTS p1, p2, a, b, c
\* Processes are alike, and so are contents.
Interchangeable == Permutations(Procs) \cup Permutations(Contents)
\* Failures that leave a transaction open.
CrashWhileOpen == {"w_replace", "w_note", "w_record", "r_restore", "r_copy", "r_applied", "r_terminal"}
=============================================================================
