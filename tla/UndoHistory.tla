---------------------------- MODULE UndoHistory ----------------------------
(***************************************************************************)
(* GovernedExecutor with two history variables that only observe it:         *)
(*   undo   the images that governed writes replaced, newest first, for each *)
(*          path, less the ones rollbacks have put back;                     *)
(*   wrote  the content the write with a given receipt put on disk, Absent   *)
(*          until it has.                                                    *)
(* They state what the journal must know, and map the executor to            *)
(* GovernedFile.                                                             *)
(***************************************************************************)
EXTENDS GovernedExecutor, Sequences

VARIABLES undo, wrote
hvars == <<vars, undo, wrote>>

HInit ==
    /\ Init
    /\ undo = [q \in Paths |-> <<>>]
    /\ wrote = [r \in Ids |-> Absent]

Moves(p, from, to) == pc[p] = from /\ pc'[p] = to
Changed(q) == disk'[q] # disk[q]

\* A governed write has reached the disk; one that changes nothing leaves
\* nothing to undo.
ObserveWrite(p) ==
    /\ Moves(p, "w_replace", "w_note")
    /\ wrote' = [wrote EXCEPT ![work[p].rid] = job[p].data]
    /\ undo' = IF Changed(Path(p))
               THEN [undo EXCEPT ![Path(p)] = <<disk[Path(p)]>> \o @]
               ELSE undo

\* A rollback has reached the disk and has used up the newest image.
ObserveRestore(p) ==
    /\ Moves(p, "r_restore", "r_applied") \/ Moves(p, "r_copy", "r_applied")
    /\ undo' = IF Changed(Path(p)) /\ undo[Path(p)] # <<>>
               THEN [undo EXCEPT ![Path(p)] = Tail(@)]
               ELSE undo
    /\ UNCHANGED wrote

Observe ==
    \/ \E p \in Procs : ObserveWrite(p) \/ ObserveRestore(p)
    \/ /\ \A p \in Procs : ~Moves(p, "w_replace", "w_note") /\ ~(pc'[p] = "r_applied" /\ pc[p] # pc'[p])
       /\ UNCHANGED <<undo, wrote>>

HNext == Next /\ Observe
HSpec == HInit /\ [][HNext]_hvars

(***************************************************************************)
(* The executor implements GovernedFile: with failures at every step and     *)
(* restarts, a rollback restores exactly the image the newest  *)
(* standing write replaced (A, B, C, B rolls back to C), and nothing else    *)
(* changes a target (find_latest_receipt, rollback, recover).                *)
(***************************************************************************)
Abstract == INSTANCE GovernedFile WITH file <- disk
ImplementsGovernedFile == Abstract!Spec

(***************************************************************************)
(* Recovery's verdicts are true: a write settled as RECOVERED_UNAPPLIED or   *)
(* SUPERSEDED never changed its target (_reconcile_one, _supersede_pending). *)
(***************************************************************************)
VerdictsTrue ==
    edits = 0 /\ tampers = 0 =>
        \A r \in Ids :
            journal[r].op = "FS_WRITE" /\ journal[r].state \in {"RECOVERED_UNAPPLIED", "SUPERSEDED"} =>
                wrote[r] \in {Absent, journal[r].pre}

(***************************************************************************)
(* store.py 746-752: writes A, B, C, B "roll back to C, never A": a rollback *)
(* that changes the target restores the image the newest standing write     *)
(* replaced.                                                                 *)
(***************************************************************************)
NewestWriteUndone ==
    \A p \in Procs :
        pc[p] = "r_restore" /\ work[p].want # work[p].pre =>
            undo[Path(p)] # <<>> /\ work[p].want = Head(undo[Path(p)])
=============================================================================
