--------------------------- MODULE RecoveryStore ---------------------------
(***************************************************************************)
(* The recovery journal of src/jvc/recovery/store.py as pure operators: the *)
(* states of a receipt, which receipts of a target are pending, blocking or *)
(* corrupt, how prev_receipt_id pointers form a chain, which receipt a       *)
(* rollback selects, and the verdict reconciliation reaches.  The operators  *)
(* take the journal j, the backup files b and the files d as arguments; the  *)
(* processes that read and write them are in GovernedExecutor.               *)
(*                                                                           *)
(* Data abstraction.  A file image is its content, or Absent when there is   *)
(* no file.  SHA-256 is taken as injective, so a recorded hash IS the image. *)
(* A receipt ID is a number, issued once.                                    *)
(***************************************************************************)
EXTENDS Integers, FiniteSets

CONSTANTS
    Projects,     \* project IDs
    Paths,        \* resolved target paths
    Contents,     \* file contents
    Absent,       \* no file; also "no value" in a record field
    MaxReceipts   \* bound: receipt IDs that can be issued

ASSUME ReceiptBound == MaxReceipts \in Nat
ASSUME AbsentIsNoValue == Absent \notin Contents /\ Absent \notin Projects /\ Absent \notin Paths

Images == Contents \cup {Absent}
Ids    == 1..MaxReceipts
NoId   == 0

TERMINAL_STATES   == {"VERIFIED", "RECOVERED_UNAPPLIED", "ROLLED_BACK", "SUPERSEDED"}
INCOMPLETE_STATES == {"PREPARED", "APPLIED"}
BLOCKING_STATES   == {"RECOVERY_REQUIRED"}
KNOWN_STATES      == TERMINAL_STATES \cup INCOMPLETE_STATES \cup BLOCKING_STATES

(***************************************************************************)
(* What validate_receipt rejects.  UNREADABLE: not parseable as a JSON       *)
(* object, so recovery can only report it.  BAD_STATE: an object whose       *)
(* tx_state is unknown; recovery marks it RECOVERY_REQUIRED in place.        *)
(***************************************************************************)
CORRUPT_STATES == {"UNREADABLE", "BAD_STATE"}

(***************************************************************************)
(* A receipt file.  pre is preimage_sha256 (expected_postimage_sha256 of a   *)
(* rollback receipt); post is postimage_sha256 of a write receipt and        *)
(* restored_sha256 of a rollback receipt; prev is prev_receipt_id.  State    *)
(* "NONE" stands for "there is no such file".                                *)
(***************************************************************************)
Receipt ==
    [op: {"FS_WRITE", "ROLLBACK"}, project: Projects \cup {Absent}, path: Paths \cup {Absent},
     state: KNOWN_STATES \cup CORRUPT_STATES \cup {"NONE"},
     pre: Images, post: Images,
     prev: Ids \cup {NoId}, rollback_of: Ids \cup {NoId}]

NoReceipt ==
    [op |-> "FS_WRITE", project |-> Absent, path |-> Absent, state |-> "NONE",
     pre |-> Absent, post |-> Absent, prev |-> NoId, rollback_of |-> NoId]

\* The PREPARED receipt save_preimage journals.
WriteReceipt(project, path, pre, prev) ==
    [op |-> "FS_WRITE", project |-> project, path |-> path, state |-> "PREPARED",
     pre |-> pre, post |-> Absent, prev |-> prev, rollback_of |-> NoId]

\* The in-memory rb_receipt of rollback(), in the given state.
RollbackReceipt(project, path, state, current, restored, source) ==
    [op |-> "ROLLBACK", project |-> project, path |-> path, state |-> state,
     pre |-> current, post |-> restored, prev |-> NoId, rollback_of |-> source]

----------------------------------------------------------------------------
\* Selections from the journal.

\* Schema-valid receipts of one project and path.
ValidFor(j, project, path) ==
    {r \in Ids : j[r].state \in KNOWN_STATES /\ j[r].project = project /\ j[r].path = path}

Pending(j, project, path) ==
    {r \in ValidFor(j, project, path) : j[r].state \in INCOMPLETE_STATES}

Blocking(j, project, path) ==
    {r \in ValidFor(j, project, path) : j[r].state \in BLOCKING_STATES}

corrupt_receipt_files(j) == {r \in Ids : j[r].state \in CORRUPT_STATES}

\* Faulty variant: only a corrupt file blocks.
CorruptionBlocks(j, project, path) == corrupt_receipt_files(j) # {}

has_blocking_state(j, project, path) ==
    corrupt_receipt_files(j) # {} \/ Blocking(j, project, path) # {}

\* _iter_receipt_files lists write receipts before rollback receipts.
FilesInOrder(j, S) ==
    LET writes == {r \in S : j[r].op = "FS_WRITE"}
    IN  IF writes # {} THEN writes ELSE S

----------------------------------------------------------------------------
\* The chain of prev_receipt_id pointers.

ReferencedBy(j, project, path, states) ==
    {j[r].prev : r \in {i \in ValidFor(j, project, path) : j[i].state \in states}} \ {NoId}

EffectiveRefs(j, project, path) == ReferencedBy(j, project, path, {"APPLIED", "VERIFIED"})
AmbiguousRefs(j, project, path) == ReferencedBy(j, project, path, {"RECOVERY_REQUIRED"})

\* VERIFIED write receipts whose postimage is the given image.
Candidates(j, project, path, image) ==
    {r \in ValidFor(j, project, path) :
        j[r].op = "FS_WRITE" /\ j[r].state = "VERIFIED" /\ j[r].post = image}

Heads(j, project, path, image) ==
    Candidates(j, project, path, image) \ EffectiveRefs(j, project, path)

(***************************************************************************)
(* The possible results of _find_superseded_id for a write over preimage     *)
(* pre.  For a create the code takes the terminal receipt of largest seq, a  *)
(* wall-clock reading that may step backwards, so it can be any of them.     *)
(***************************************************************************)
find_superseded_id(j, project, path, pre) ==
    LET created == {r \in ValidFor(j, project, path) :
                       j[r].op = "FS_WRITE" /\ j[r].state \in TERMINAL_STATES}
        heads   == Heads(j, project, path, pre)
    IN  IF pre # Absent
        THEN IF Cardinality(heads) = 1 THEN heads ELSE {NoId}
        ELSE IF created # {} THEN created ELSE {NoId}

\* Faulty variant: any receipt with the right postimage will do.
AnyCandidate(j, project, path, image) == Candidates(j, project, path, image)

\* find_latest_receipt: the receipt to roll back, or the empty set when the
\* rollback is denied (no candidate, not one head, or a doubtful head).
find_latest_receipt(j, project, path, image) ==
    LET heads == Heads(j, project, path, image)
    IN  IF Cardinality(heads) = 1 THEN heads \ AmbiguousRefs(j, project, path) ELSE {}

----------------------------------------------------------------------------
\* Reconciliation.

backup_ok(j, b, r) == j[r].pre = Absent \/ b[r] = j[r].pre

\* Faulty variant: PREPARED is taken to mean that the target was not replaced.
PreparedMeansUnapplied(j, b, d, r) ==
    IF j[r].state = "PREPARED" \/ d[j[r].path] # j[r].post THEN "RECOVERED_UNAPPLIED" ELSE "VERIFIED"

\* _reconcile_one for an FS_WRITE receipt: the state it is settled in.
ReconciledWrite(j, b, d, r) ==
    LET current == d[j[r].path]
    IN  CASE ~backup_ok(j, b, r) -> "RECOVERY_REQUIRED"
          [] backup_ok(j, b, r) /\ j[r].state = "PREPARED" ->
                IF current = j[r].pre THEN "RECOVERED_UNAPPLIED" ELSE "RECOVERY_REQUIRED"
          [] backup_ok(j, b, r) /\ j[r].state = "APPLIED" ->
                IF current = j[r].post THEN "VERIFIED" ELSE "RECOVERY_REQUIRED"

\* _reconcile_rollback: VERIFIED means _finalize_rollback runs.
ReconciledRollback(j, d, r) ==
    LET current == d[j[r].path]
    IN  IF j[r].state = "PREPARED"
        THEN IF current = j[r].pre  THEN "RECOVERED_UNAPPLIED" ELSE "RECOVERY_REQUIRED"
        ELSE IF current = j[r].post THEN "VERIFIED" ELSE "RECOVERY_REQUIRED"

Reconciled(j, b, d, r) ==
    IF j[r].op = "ROLLBACK" THEN ReconciledRollback(j, d, r) ELSE ReconciledWrite(j, b, d, r)

\* _decide_locked and _audit_verified: the state of r after the decision.
Decided(j, b, d, r) ==
    CASE j[r].state = "BAD_STATE" -> "RECOVERY_REQUIRED"
      [] j[r].state \in INCOMPLETE_STATES -> Reconciled(j, b, d, r)
      [] j[r].state = "VERIFIED" /\ j[r].op = "FS_WRITE" /\ ~backup_ok(j, b, r) -> "RECOVERY_REQUIRED"
      [] OTHER -> j[r].state

\* Faulty variant: the scan settles PREPARED receipts only.
PreparedNeedsDecision(j, b, r) == j[r].state = "PREPARED"

\* The scan of recover() goes on to the lock for these receipts only.
NeedsDecision(j, b, r) ==
    \/ j[r].state \in INCOMPLETE_STATES
    \/ j[r].state = "VERIFIED" /\ (j[r].op = "ROLLBACK" \/ ~backup_ok(j, b, r))

\* Faulty variant: the state written is not a known one.
SourceMisspelt(j, source) ==
    IF source \in Ids THEN [j EXCEPT ![source].state = "ROLLEDBACK"] ELSE j

\* The second write of _finalize_rollback, skipped if the source is unusable.
SourceFinalized(j, source) ==
    IF source \in Ids /\ j[source].state \in KNOWN_STATES
    THEN [j EXCEPT ![source].state = "ROLLED_BACK"]
    ELSE j
=============================================================================
