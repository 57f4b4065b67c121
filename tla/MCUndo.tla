------------------------------- MODULE MCUndo -------------------------------
(* UndoHistory for TLC. *)
EXTENDS UndoHistory, TLC

CONSTANTS p1, p2, a, b, c
\* Processes are alike, and so are contents.
Interchangeable == Permutations(Procs) \cup Permutations(Contents)

\* Failures before the source of a rollback is marked, and before the
\* replacement of a target is noted.
TwoCrashes == {"r_source", "w_note"}
=============================================================================
