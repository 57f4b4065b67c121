--------------------------- MODULE MCResourceLock ---------------------------
(* ResourceLock for TLC: two spellings of one resource, and another one. *)
EXTENDS ResourceLock

CONSTANTS lower, upper, other
SameFile == [s \in Spellings |-> IF s = upper THEN lower ELSE s]
\* A negative timeout, none, and some.
SomeTimeouts == {-1, 0, 2}
=============================================================================
