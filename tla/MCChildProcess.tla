--------------------------- MODULE MCChildProcess ---------------------------
(* ChildProcess for TLC: a cap within a chunk and one beyond it. *)
EXTENDS ChildProcess

SmallCaps == [out |-> 2, err |-> 0]
SmallOutputs == [out |-> 4, err |-> 1]
=============================================================================
