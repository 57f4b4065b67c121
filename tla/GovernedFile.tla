---------------------------- MODULE GovernedFile ----------------------------
(***************************************************************************)
(* What the governed executor promises to a caller who sees only files: each *)
(* write replaces one image and remembers the image it replaced; a rollback  *)
(* puts back the image replaced last, and nothing else ever changes a file.  *)
(* A write or rollback that leaves the image as it was changes nothing here. *)
(***************************************************************************)
EXTENDS Sequences

CONSTANTS Paths, Contents, Absent
VARIABLES file, undo

Init ==
    /\ file \in [Paths -> Contents \cup {Absent}]
    /\ undo = [q \in Paths |-> <<>>]

Write(q) ==
    \E c \in Contents \ {file[q]} :
        /\ file' = [file EXCEPT ![q] = c]
        /\ undo' = [undo EXCEPT ![q] = <<file[q]>> \o @]

Rollback(q) ==
    /\ undo[q] # <<>>
    /\ file' = [file EXCEPT ![q] = Head(undo[q])]
    /\ undo' = [undo EXCEPT ![q] = Tail(@)]

Next == \E q \in Paths : Write(q) \/ Rollback(q)

Spec == Init /\ [][Next]_<<file, undo>>
=============================================================================
