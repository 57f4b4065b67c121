-------------------------- MODULE GovernedExecutor --------------------------
(***************************************************************************)
(* Processes that share one recovery store, one lock directory and the files *)
(* they govern: GovernedExecutor.fs_write and fs_rollback (execution/         *)
(* executor.py) over RecoveryStore.recover, rollback and prune (recovery/    *)
(* store.py).  One step of a process is one durable effect, a write of a     *)
(* receipt, a backup or the target, together with the reads that decide it.  *)
(*                                                                           *)
(* A process waiting for a resource lock changes nothing shared, so the      *)
(* request starts when the lock is granted; the polling and its deadline are *)
(* in ResourceLock.  A process may raise or crash at every step (Fail): the  *)
(* operating system drops its locks and the files stay as they are.          *)
(***************************************************************************)
EXTENDS RecoveryStore

CONSTANTS
    Procs,        \* executor processes (and threads)
    Free,         \* the lock of a path is not held
    Ops,          \* operations that are requested
    FailPoints,   \* steps before which an operation may raise or crash
    MaxEdits,     \* bound: writes to a target by programs that take no lock
    MaxTampers    \* bound: damage to journal or backup files
ASSUME FreeIsNoProcess == Free \notin Procs
ASSUME KnownOps == Ops \subseteq {"write", "rollback", "recover", "prune"}
ASSUME EnvironmentBounds == MaxEdits \in Nat /\ MaxTampers \in Nat

VARIABLES
    disk,      \* image of every target
    journal,   \* receipt files of the store
    backup,    \* .bak files of the store
    nextId,    \* next receipt ID
    lock,      \* holder of every path's resource lock
    pc,        \* next step of every process
    job,       \* arguments of the operation a process runs
    work,      \* local variables of the operation a process runs
    edits, tampers

store    == <<journal, backup, nextId>>
procVars == <<pc, job, work>>
env      == <<edits, tampers>>
vars     == <<disk, journal, backup, nextId, lock, pc, job, work, edits, tampers>>

WriteSteps    == {"w_reconcile", "w_finalize", "w_save", "w_prepare", "w_replace", "w_note", "w_record"}
RollbackSteps == {"r_check", "r_peek", "r_settle", "r_finalize", "r_supersede", "r_restore",
                  "r_copy", "r_applied", "r_terminal", "r_source"}
RecoverSteps  == {"s_scan", "s_lock", "s_decide", "s_finalize"}
PruneSteps    == {"p_meta", "p_backup"}
Labels        == {"idle"} \cup WriteSteps \cup RollbackSteps \cup RecoverSteps \cup PruneSteps
AllSteps      == Labels \ {"idle"}
\* Steps taken inside `with self._target_lock(...)`.
LockedSteps   == WriteSteps \cup RollbackSteps \cup {"s_decide", "s_finalize"}

ASSUME KnownFailPoints == FailPoints \subseteq AllSteps

(***************************************************************************)
(* data is the content to write; exp the expected_preimage_sha256 or         *)
(* expected_postimage_sha256 the caller passed.                              *)
(***************************************************************************)
Job  == [project: Projects \cup {Absent}, path: Paths \cup {Absent}, data: Images, exp: Images]
(***************************************************************************)
(* pre: the image read under the lock; seen: a second image read later       *)
(* (post_hash, or `current` of _supersede_pending); rid: the receipt being   *)
(* advanced; source, want: the receipt being rolled back and its preimage;   *)
(* todo: the receipt files recover() has still to read.                      *)
(***************************************************************************)
Work == [pre: Images, seen: Images, rid: Ids \cup {NoId}, source: Ids \cup {NoId},
         want: Images, todo: SUBSET Ids]
NoJob  == [project |-> Absent, path |-> Absent, data |-> Absent, exp |-> Absent]
NoWork == [pre |-> Absent, seen |-> Absent, rid |-> NoId, source |-> NoId,
           want |-> Absent, todo |-> {}]

Init ==
    /\ disk \in [Paths -> Images]
    /\ journal = [r \in Ids |-> NoReceipt]
    /\ backup = [r \in Ids |-> Absent]
    /\ nextId = 1
    /\ lock = [q \in Paths |-> Free]
    /\ pc = [p \in Procs |-> "idle"]
    /\ job = [p \in Procs |-> NoJob]
    /\ work = [p \in Procs |-> NoWork]
    /\ edits = 0
    /\ tampers = 0

----------------------------------------------------------------------------
\* Vocabulary of the steps.

At(p, label) == pc[p] = label
Goto(p, label) == pc' = [pc EXCEPT ![p] = label]
Project(p) == job[p].project
Path(p)    == job[p].path
PendingOf(p) == Pending(journal, Project(p), Path(p))

\* What the operating system leaves of the locks when p lets go of its own.
Released(p) == [q \in Paths |-> IF lock[q] = p THEN Free ELSE lock[q]]

\* The operation returns or raises: `with` releases the lock.
Return(p) ==
    /\ Goto(p, "idle")
    /\ job' = [job EXCEPT ![p] = NoJob]
    /\ work' = [work EXCEPT ![p] = NoWork]
    /\ lock' = Released(p)

Continue(p, label) == Goto(p, label) /\ UNCHANGED <<job, work, lock>>

SetState(r, state) == journal' = [journal EXCEPT ![r].state = state]

\* _finalize_rollback has written the VERIFIED rollback receipt r and goes on
\* to the source receipt at the step named.
ThenFinalize(p, label, r) ==
    /\ Goto(p, label)
    /\ work' = [work EXCEPT ![p].source = journal[r].rollback_of]
    /\ UNCHANGED <<job, lock>>

\* Faulty variant: the operation goes ahead although the lock is held.
AcquireAnyway(p, label, project, path, data, exp) ==
    /\ At(p, "idle")
    /\ lock' = [lock EXCEPT ![path] = p]
    /\ Goto(p, label)
    /\ job' = [job EXCEPT ![p] = [project |-> project, path |-> path, data |-> data, exp |-> exp]]
    /\ UNCHANGED <<disk, journal, backup, nextId, work, edits, tampers>>

\* Entering `with self._target_lock(target, lock_timeout)`.
Acquire(p, label, project, path, data, exp) ==
    /\ At(p, "idle")
    /\ lock[path] = Free
    /\ lock' = [lock EXCEPT ![path] = p]
    /\ Goto(p, label)
    /\ job' = [job EXCEPT ![p] = [project |-> project, path |-> path, data |-> data, exp |-> exp]]
    /\ UNCHANGED <<disk, journal, backup, nextId, work, edits, tampers>>

----------------------------------------------------------------------------
\* fs_write

StartWrite(p) ==
    /\ "write" \in Ops
    /\ \E project \in Projects, path \in Paths, data \in Contents, exp \in Images :
          Acquire(p, "w_reconcile", project, path, data, exp)

\* reconcile_target settles one incomplete receipt of the target.
ReconcilePending(p) ==
    /\ At(p, "w_reconcile")
    /\ \E r \in FilesInOrder(journal, PendingOf(p)) :
          LET verdict == Reconciled(journal, backup, disk, r)
          IN  /\ SetState(r, verdict)
              /\ IF journal[r].op = "ROLLBACK" /\ verdict = "VERIFIED"
                 THEN ThenFinalize(p, "w_finalize", r)
                 ELSE Continue(p, "w_reconcile")
    /\ UNCHANGED <<disk, backup, nextId, env>>

\* The gates of fs_write, and the CAS on the preimage.
WriteAllowed(p) ==
    /\ ~has_blocking_state(journal, Project(p), Path(p))
    /\ disk[Path(p)] = job[p].exp

\* Faulty variant: pending transactions are not reconciled first.
CheckWithoutReconciling(p) ==
    /\ At(p, "w_reconcile")
    /\ IF WriteAllowed(p)
       THEN /\ Goto(p, "w_save")
            /\ work' = [work EXCEPT ![p].pre = disk[Path(p)]]
            /\ UNCHANGED <<job, lock>>
       ELSE Return(p)
    /\ UNCHANGED <<disk, store, env>>

CheckWrite(p) ==
    /\ At(p, "w_reconcile")
    /\ PendingOf(p) = {}
    /\ IF WriteAllowed(p)
       THEN /\ Goto(p, "w_save")
            /\ work' = [work EXCEPT ![p].pre = disk[Path(p)]]
            /\ UNCHANGED <<job, lock>>
       ELSE Return(p)
    /\ UNCHANGED <<disk, store, env>>

\* save_preimage, first half: a fresh ID and the backup file of the preimage.
SaveBackup(p) ==
    /\ At(p, "w_save")
    /\ IF nextId \in Ids
       THEN /\ nextId' = nextId + 1
            /\ backup' = [backup EXCEPT ![nextId] = work[p].pre]
            /\ work' = [work EXCEPT ![p].rid = nextId]
            /\ Goto(p, "w_prepare")
            /\ UNCHANGED <<job, lock>>
       ELSE Return(p) /\ UNCHANGED <<backup, nextId>>
    /\ UNCHANGED <<disk, journal, env>>

\* save_preimage, second half: the durable PREPARED receipt.
JournalPrepared(p) ==
    /\ At(p, "w_prepare")
    /\ \E prev \in find_superseded_id(journal, Project(p), Path(p), work[p].pre) :
          journal' = [journal EXCEPT ![work[p].rid] =
                         WriteReceipt(Project(p), Path(p), work[p].pre, prev)]
    /\ Continue(p, "w_replace")
    /\ UNCHANGED <<disk, backup, nextId, env>>

\* durable_replace of the target.
ReplaceTarget(p) ==
    /\ At(p, "w_replace")
    /\ disk' = [disk EXCEPT ![Path(p)] = job[p].data]
    /\ Continue(p, "w_note")
    /\ UNCHANGED <<store, env>>

\* post_hash is read back from the disk; note_target_replaced insists on PREPARED.
NoteReplaced(p) ==
    LET rid == work[p].rid
        post_hash == disk[Path(p)]
    IN  /\ At(p, "w_note")
        /\ IF post_hash # Absent /\ journal[rid].state = "PREPARED"
           THEN /\ journal' = [journal EXCEPT ![rid].state = "APPLIED", ![rid].post = post_hash]
                /\ work' = [work EXCEPT ![p].seen = post_hash]
                /\ Goto(p, "w_record")
                /\ UNCHANGED <<job, lock>>
           ELSE Return(p) /\ UNCHANGED journal
        /\ UNCHANGED <<disk, backup, nextId, env>>

\* record_postimage rereads the target and settles the transaction.
RecordPostimage(p) ==
    LET rid == work[p].rid
        verdict == IF disk[Path(p)] = work[p].seen THEN "VERIFIED" ELSE "RECOVERY_REQUIRED"
    IN  /\ At(p, "w_record")
        /\ IF journal[rid].state \in INCOMPLETE_STATES
           THEN journal' = [journal EXCEPT ![rid].state = verdict, ![rid].post = work[p].seen]
           ELSE UNCHANGED journal
        /\ Return(p)
        /\ UNCHANGED <<disk, backup, nextId, env>>

----------------------------------------------------------------------------
\* fs_rollback

StartRollback(p) ==
    /\ "rollback" \in Ops
    /\ \E project \in Projects, path \in Paths, exp \in Contents :
          Acquire(p, "r_check", project, path, Absent, exp)

\* Corrupt journal, missing target, stale postimage.
CheckRollback(p) ==
    /\ At(p, "r_check")
    /\ IF corrupt_receipt_files(journal) = {} /\ disk[Path(p)] = job[p].exp
       THEN /\ Goto(p, "r_peek")
            /\ work' = [work EXCEPT ![p].pre = disk[Path(p)]]
            /\ UNCHANGED <<job, lock>>
       ELSE Return(p)
    /\ UNCHANGED <<disk, store, env>>

\* `current` of _supersede_pending is a read of its own.
PeekTarget(p) ==
    /\ At(p, "r_peek")
    /\ work' = [work EXCEPT ![p].seen = disk[Path(p)]]
    /\ Goto(p, "r_settle")
    /\ UNCHANGED <<disk, store, lock, job, env>>

\* The verdict of _supersede_pending on r: an applied write is compared with
\* `current` and its backup is not looked at; the rest is reconciled.
Settled(p, r) ==
    IF journal[r].op = "FS_WRITE" /\ journal[r].state = "APPLIED"
    THEN IF work[p].seen = journal[r].post THEN "VERIFIED" ELSE "RECOVERY_REQUIRED"
    ELSE Reconciled(journal, backup, disk, r)

SettlePending(p) ==
    /\ At(p, "r_settle")
    /\ \E r \in FilesInOrder(journal, PendingOf(p)) :
          LET verdict == Settled(p, r)
          IN  /\ SetState(r, verdict)
              /\ CASE verdict = "RECOVERY_REQUIRED" -> Return(p)
                   [] verdict = "VERIFIED" /\ journal[r].op = "ROLLBACK" ->
                         ThenFinalize(p, "r_finalize", r)
                   [] verdict = "RECOVERED_UNAPPLIED" /\ journal[r].op = "FS_WRITE" ->
                         /\ Goto(p, "r_supersede")
                         /\ work' = [work EXCEPT ![p].rid = r]
                         /\ UNCHANGED <<job, lock>>
                   [] OTHER -> Continue(p, "r_settle")
    /\ UNCHANGED <<disk, backup, nextId, env>>

\* The second write on an unapplied intent; a receipt no longer valid raises.
MarkSuperseded(p) ==
    /\ At(p, "r_supersede")
    /\ IF journal[work[p].rid].state \in KNOWN_STATES
       THEN SetState(work[p].rid, "SUPERSEDED") /\ Continue(p, "r_settle")
       ELSE Return(p) /\ UNCHANGED journal
    /\ UNCHANGED <<disk, backup, nextId, env>>

\* find_latest_receipt, then the PREPARED rollback receipt.
SelectAndJournal(p) ==
    LET chosen == find_latest_receipt(journal, Project(p), Path(p), work[p].pre)
    IN  /\ At(p, "r_settle")
        /\ PendingOf(p) = {}
        /\ IF chosen # {} /\ nextId \in Ids
           THEN \E source \in chosen :
                   /\ nextId' = nextId + 1
                   /\ journal' = [journal EXCEPT ![nextId] =
                         RollbackReceipt(Project(p), Path(p), "PREPARED", work[p].pre, Absent, source)]
                   /\ work' = [work EXCEPT ![p].rid = nextId, ![p].source = source,
                                           ![p].want = journal[source].pre]
                   /\ Goto(p, "r_restore")
                   /\ UNCHANGED <<job, lock>>
           ELSE Return(p) /\ UNCHANGED <<journal, nextId>>
        /\ UNCHANGED <<disk, backup, env>>

\* Every later write of the rollback receipt is of the copy in memory.
WriteRollback(p, state, restored) ==
    journal' = [journal EXCEPT ![work[p].rid] =
        RollbackReceipt(Project(p), Path(p), state, work[p].pre, restored, work[p].source)]

\* unlink of a created file, or the check of the backup to restore from.
RestoreTarget(p) ==
    LET want == work[p].want
    IN  /\ At(p, "r_restore")
        /\ CASE want = Absent ->
                  /\ disk' = [disk EXCEPT ![Path(p)] = Absent]
                  /\ Continue(p, "r_applied")
                  /\ UNCHANGED journal
             [] want # Absent /\ backup[work[p].source] = want ->
                  Continue(p, "r_copy") /\ UNCHANGED <<disk, journal>>
             [] want # Absent /\ backup[work[p].source] # want ->
                  /\ WriteRollback(p, "RECOVERY_REQUIRED", Absent)
                  /\ Return(p)
                  /\ UNCHANGED disk
        /\ UNCHANGED <<backup, nextId, env>>

\* The bytes restored are a second read of the backup file.
CopyBackup(p) ==
    LET backup_data == backup[work[p].source]
    IN  /\ At(p, "r_copy")
        /\ IF backup_data # Absent
           THEN /\ disk' = [disk EXCEPT ![Path(p)] = backup_data]
                /\ Continue(p, "r_applied")
           ELSE Return(p) /\ UNCHANGED disk
        /\ UNCHANGED <<store, env>>

\* Faulty variant: the restored file is not hashed again.
AppliedUnverified(p) ==
    /\ At(p, "r_applied")
    /\ WriteRollback(p, "APPLIED", work[p].want)
    /\ Continue(p, "r_terminal")
    /\ UNCHANGED <<disk, backup, nextId, env>>

\* final_hash (of a restored file, not of an unlinked one), then APPLIED.
\* Hashing a file that has disappeared raises before anything is written.
RollbackApplied(p) ==
    LET want == work[p].want
        final_hash == disk[Path(p)]
    IN  /\ At(p, "r_applied")
        /\ CASE want = Absent \/ final_hash = want ->
                  WriteRollback(p, "APPLIED", want) /\ Continue(p, "r_terminal")
             [] want # Absent /\ final_hash \in Contents \ {want} ->
                  WriteRollback(p, "RECOVERY_REQUIRED", Absent) /\ Return(p)
             [] want # Absent /\ final_hash = Absent ->
                  UNCHANGED journal /\ Return(p)
        /\ UNCHANGED <<disk, backup, nextId, env>>

\* _finalize_rollback, first write.
RollbackVerified(p) ==
    /\ At(p, "r_terminal")
    /\ WriteRollback(p, "VERIFIED", work[p].want)
    /\ Continue(p, "r_source")
    /\ UNCHANGED <<disk, backup, nextId, env>>

\* _finalize_rollback, second write, and where its caller goes on.
FinalizeSource(p) ==
    /\ pc[p] \in {"w_finalize", "r_finalize", "s_finalize", "r_source"}
    /\ journal' = SourceFinalized(journal, work[p].source)
    /\ CASE At(p, "w_finalize") -> Continue(p, "w_reconcile")
         [] At(p, "r_finalize") -> Continue(p, "r_settle")
         [] At(p, "r_source")   -> Return(p)
         [] At(p, "s_finalize") -> /\ Goto(p, "s_scan")
                                   /\ lock' = Released(p)
                                   /\ UNCHANGED <<job, work>>
    /\ UNCHANGED <<disk, backup, nextId, env>>

----------------------------------------------------------------------------
\* recover: at start-up, or on demand

StartRecover(p) ==
    /\ "recover" \in Ops
    /\ At(p, "idle")
    /\ Goto(p, "s_scan")
    /\ work' = [work EXCEPT ![p].todo = {r \in Ids : journal[r].state # "NONE"}]
    /\ UNCHANGED <<disk, store, lock, job, env>>

\* One receipt file is read without the lock; most need nothing.
ScanReceipt(p) ==
    /\ At(p, "s_scan")
    /\ \E r \in FilesInOrder(journal, work[p].todo) :
          /\ journal' = IF journal[r].state = "BAD_STATE"
                        THEN [journal EXCEPT ![r].state = "RECOVERY_REQUIRED"]
                        ELSE journal
          /\ work' = [work EXCEPT ![p].todo = @ \ {r}, ![p].rid = r]
          /\ IF NeedsDecision(journal, backup, r)
             THEN Goto(p, "s_lock") /\ job' = [job EXCEPT ![p].path = journal[r].path]
             ELSE UNCHANGED <<pc, job>>
    /\ UNCHANGED <<disk, backup, nextId, lock, env>>

\* Faulty variants: the decision is taken without the lock; a receipt whose
\* lock is held is tried again instead of deferred.
DecideUnlocked(p) ==
    /\ At(p, "s_lock")
    /\ Goto(p, "s_decide")
    /\ UNCHANGED <<disk, store, lock, job, work, env>>
RetryDeferred(p) ==
    /\ At(p, "s_lock")
    /\ IF lock[Path(p)] = Free
       THEN lock' = [lock EXCEPT ![Path(p)] = p] /\ Goto(p, "s_decide") /\ UNCHANGED work
       ELSE /\ work' = [work EXCEPT ![p].todo = @ \cup {work[p].rid}]
            /\ Goto(p, "s_scan")
            /\ UNCHANGED lock
    /\ UNCHANGED <<disk, store, job, env>>

\* The lock is granted, or a live holder outlasts the timeout: deferred.
LockReceipt(p) ==
    /\ At(p, "s_lock")
    /\ IF lock[Path(p)] = Free
       THEN lock' = [lock EXCEPT ![Path(p)] = p] /\ Goto(p, "s_decide")
       ELSE UNCHANGED lock /\ Goto(p, "s_scan")
    /\ UNCHANGED <<disk, store, job, work, env>>

\* _decide_locked on a fresh read of the receipt.
DecideLocked(p) ==
    LET r == work[p].rid
        verdict == Decided(journal, backup, disk, r)
    IN  /\ At(p, "s_decide")
        /\ SetState(r, verdict)
        /\ IF journal[r].op = "ROLLBACK" /\ verdict = "VERIFIED"
           THEN ThenFinalize(p, "s_finalize", r)
           ELSE Goto(p, "s_scan") /\ lock' = Released(p) /\ UNCHANGED <<job, work>>
        /\ UNCHANGED <<disk, backup, nextId, env>>

EndRecover(p) ==
    /\ At(p, "s_scan")
    /\ work[p].todo = {}
    /\ Return(p)
    /\ UNCHANGED <<disk, store, env>>

----------------------------------------------------------------------------
\* prune takes no lock.  An unlink that fails is swallowed and the file kept,
\* so any set of old terminal receipts may be the ones removed.

\* Faulty variant: everything that is not in progress is pruned.
PickNotInProgress(p) ==
    /\ "prune" \in Ops
    /\ At(p, "idle")
    /\ \E r \in Ids : /\ journal[r].state \in KNOWN_STATES \ INCOMPLETE_STATES
                      /\ work' = [work EXCEPT ![p].rid = r]
    /\ Goto(p, "p_meta")
    /\ UNCHANGED <<disk, store, lock, job, env>>

PickPrunable(p) ==
    /\ "prune" \in Ops
    /\ At(p, "idle")
    /\ \E r \in Ids : /\ journal[r].state \in TERMINAL_STATES
                      /\ work' = [work EXCEPT ![p].rid = r]
    /\ Goto(p, "p_meta")
    /\ UNCHANGED <<disk, store, lock, job, env>>

\* Faulty variant: the backup goes first.
PruneBackupFirst(p) ==
    /\ At(p, "p_meta")
    /\ backup' = [backup EXCEPT ![work[p].rid] = Absent]
    /\ Continue(p, "p_backup")
    /\ UNCHANGED <<disk, journal, nextId, env>>

PruneReceipt(p) ==
    /\ At(p, "p_meta")
    /\ journal' = [journal EXCEPT ![work[p].rid] = NoReceipt]
    /\ Continue(p, "p_backup")
    /\ UNCHANGED <<disk, backup, nextId, env>>

PruneBackup(p) ==
    /\ At(p, "p_backup")
    /\ backup' = [backup EXCEPT ![work[p].rid] = Absent]
    /\ Return(p)
    /\ UNCHANGED <<disk, journal, nextId, env>>

----------------------------------------------------------------------------
\* An exception or a crash: the operation is abandoned where it stands.
Fail(p) ==
    /\ pc[p] \in FailPoints
    /\ Return(p)
    /\ UNCHANGED <<disk, store, env>>

\* An editor or build tool that knows nothing of the locks.
Edit ==
    /\ edits < MaxEdits
    /\ edits' = edits + 1
    /\ \E path \in Paths, image \in Images :
          /\ image # disk[path]
          /\ disk' = [disk EXCEPT ![path] = image]
    /\ UNCHANGED <<store, lock, procVars, tampers>>

\* A receipt file is damaged.
TamperReceipt ==
    /\ tampers < MaxTampers
    /\ tampers' = tampers + 1
    /\ \E r \in Ids, damage \in CORRUPT_STATES :
          /\ journal[r].state \in KNOWN_STATES
          /\ SetState(r, damage)
    /\ UNCHANGED <<disk, backup, nextId, lock, procVars, edits>>

\* A backup file is lost or altered.
TamperBackup ==
    /\ tampers < MaxTampers
    /\ tampers' = tampers + 1
    /\ \E r \in Ids, image \in Images :
          /\ backup[r] # Absent /\ image # backup[r]
          /\ backup' = [backup EXCEPT ![r] = image]
    /\ UNCHANGED <<disk, journal, nextId, lock, procVars, edits>>

Environment == Edit \/ TamperReceipt \/ TamperBackup

WriteStep(p) ==
    \/ ReconcilePending(p) \/ CheckWrite(p) \/ SaveBackup(p) \/ JournalPrepared(p)
    \/ ReplaceTarget(p) \/ NoteReplaced(p) \/ RecordPostimage(p)
RollbackStep(p) ==
    \/ CheckRollback(p) \/ PeekTarget(p) \/ SettlePending(p) \/ MarkSuperseded(p)
    \/ SelectAndJournal(p) \/ RestoreTarget(p) \/ CopyBackup(p) \/ RollbackApplied(p) \/ RollbackVerified(p)
    \/ FinalizeSource(p)
RecoverStep(p) ==
    \/ ScanReceipt(p) \/ LockReceipt(p) \/ DecideLocked(p) \/ EndRecover(p)
PruneStep(p) == PruneReceipt(p) \/ PruneBackup(p)

\* What a process does once its operation has started.
Step(p)  == WriteStep(p) \/ RollbackStep(p) \/ RecoverStep(p) \/ PruneStep(p)
Start(p) == StartWrite(p) \/ StartRollback(p) \/ StartRecover(p) \/ PickPrunable(p)

Next == \/ \E p \in Procs : Start(p) \/ Step(p) \/ Fail(p)
        \/ Environment

Spec == Init /\ [][Next]_vars

(***************************************************************************)
(* Every started operation keeps running: its process is scheduled.  A lock  *)
(* wait has a deadline and every loop a finite list, so no stronger          *)
(* assumption is needed.  Starting and failing are never forced.             *)
(***************************************************************************)
FairSpec == Spec /\ \A p \in Procs : WF_vars(Step(p))

\* Moreover every executor is restarted, and so recovers, again and again
\* ("recover() must be called on startup", store.py 13-14).
RestartingSpec == FairSpec /\ \A p \in Procs : SF_vars(StartRecover(p))

----------------------------------------------------------------------------
\* Properties.

\* Every variable stays within its type.
TypeOK ==
    /\ disk \in [Paths -> Images]
    /\ journal \in [Ids -> Receipt]
    /\ backup \in [Ids -> Images]
    /\ nextId \in 1..(MaxReceipts + 1)
    /\ lock \in [Paths -> Procs \cup {Free}]
    /\ pc \in [Procs -> Labels]
    /\ job \in [Procs -> Job]
    /\ work \in [Procs -> Work]
    /\ edits \in 0..MaxEdits
    /\ tampers \in 0..MaxTampers

(***************************************************************************)
(* Compare-and-swap (executor.py 582-603, store.py 894-898): from the check  *)
(* of the caller's expected hash until the target is replaced or restored,   *)
(* the target still is the image that was checked, whatever other writers,   *)
(* rollbacks and recoveries do.  Only a program outside the lock protocol    *)
(* can come between.                                                         *)
(***************************************************************************)
NoLostUpdate ==
    edits = 0 =>
        \A p \in Procs :
            pc[p] \in {"w_save", "w_prepare", "w_replace", "r_peek", "r_settle",
                       "r_finalize", "r_supersede", "r_restore", "r_copy"} =>
                disk[Path(p)] = work[p].pre /\ work[p].pre = job[p].exp

(***************************************************************************)
(* Write-ahead (save_preimage, rollback): when a process is about to touch   *)
(* the target, or has touched it and not yet said so, a PREPARED receipt of  *)
(* its own names the target and the image being destroyed, with the backup   *)
(* on disk.  In particular a concurrent recover() never settles the          *)
(* transaction of a live process, and prune never takes its backup.          *)
(***************************************************************************)
WriteAhead ==
    tampers = 0 =>
        \A p \in Procs :
            LET mine == journal[work[p].rid]
            IN  /\ pc[p] \in {"w_replace", "w_note"} =>
                       /\ mine.op = "FS_WRITE" /\ mine.state = "PREPARED"
                       /\ mine.project = Project(p) /\ mine.path = Path(p)
                       /\ mine.pre = work[p].pre /\ backup[work[p].rid] = work[p].pre
                /\ pc[p] \in {"r_restore", "r_copy", "r_applied"} =>
                       /\ mine.op = "ROLLBACK" /\ mine.state = "PREPARED"
                       /\ mine.project = Project(p) /\ mine.path = Path(p)
                       /\ mine.pre = work[p].pre /\ mine.rollback_of = work[p].source

(***************************************************************************)
(* A rollback that goes on to report success left the exact image recorded   *)
(* as the preimage of the write it undid, even when the backup was damaged   *)
(* after it was checked (store.py 963-995).                                  *)
(***************************************************************************)
RollbackExact ==
    edits = 0 =>
        \A p \in Procs :
            pc[p] \in {"r_terminal", "r_source"} => disk[Path(p)] = work[p].want

(***************************************************************************)
(* At most one transaction of a project's target is open at any time, so     *)
(* reconciliation never has to order two of them (store.py 704-712 relies on *)
(* this: an incomplete receipt seen under the lock is an orphan).            *)
(***************************************************************************)
OneOpenTransaction ==
    \A project \in Projects, path \in Paths :
        Cardinality(Pending(journal, project, path)) <= 1

(***************************************************************************)
(* A receipt that rollback may still use never points at a backup that is    *)
(* gone: prune removes the receipt before the backup, save_preimage writes   *)
(* the backup before the receipt, at every crash point of either.            *)
(***************************************************************************)
BackupBehindReceipt ==
    tampers = 0 =>
        \A r \in Ids :
            journal[r].op = "FS_WRITE" /\ journal[r].state \in INCOMPLETE_STATES \cup {"VERIFIED"} =>
                backup_ok(journal, backup, r)

(***************************************************************************)
(* A target with an unresolved RECOVERY_REQUIRED receipt is never given to a *)
(* writer of the same project (executor.py 562-581, store.py 572-598).       *)
(***************************************************************************)
BlockedNotWritten ==
    tampers = 0 =>
        \A p \in Procs :
            pc[p] \in {"w_save", "w_prepare", "w_replace"} =>
                Blocking(journal, Project(p), Path(p)) = {}

(***************************************************************************)
(* The life of a receipt on an undamaged store (store.py 3-11): settled      *)
(* transactions are never reopened, RECOVERY_REQUIRED is never silently      *)
(* resolved, only terminal receipts are pruned, and only a VERIFIED or       *)
(* already undone write is marked ROLLED_BACK.                               *)
(***************************************************************************)
Succeeds(from, to) ==
    \/ to = from
    \/ from = "NONE" /\ to = "PREPARED"
    \/ from = "PREPARED" /\ to \in {"APPLIED", "RECOVERED_UNAPPLIED", "RECOVERY_REQUIRED"}
    \/ from = "APPLIED" /\ to \in {"VERIFIED", "RECOVERY_REQUIRED"}
    \/ from = "VERIFIED" /\ to = "ROLLED_BACK"
    \/ from = "RECOVERED_UNAPPLIED" /\ to = "SUPERSEDED"
    \/ from \in TERMINAL_STATES /\ to = "NONE"
ReceiptLifecycle ==
    [][tampers' = 0 => \A r \in Ids : Succeeds(journal[r].state, journal'[r].state)]_vars

\* A started operation ends, whatever the other processes do (fs_write,
\* fs_rollback, recover and prune return or raise).
OperationsEnd == \A p \in Procs : ~At(p, "idle") ~> At(p, "idle")

(***************************************************************************)
(* An interrupted transaction does not stay open: if executors are restarted,  *)
(* its receipt is settled, by recover() or by the next writer of the target,  *)
(* though recover() defers whenever a live process holds the lock.  Rollbacks *)
(* with a wrong hash take the lock and leave without settling anything; a    *)
(* caller that repeats them for ever could defer every recovery.             *)
(***************************************************************************)
RollbacksCease == <>[](\A p \in Procs : pc[p] \notin RollbackSteps)
InterruptedSettled ==
    RollbacksCease =>
        \A r \in Ids : journal[r].state \in INCOMPLETE_STATES ~> journal[r].state \notin INCOMPLETE_STATES

----------------------------------------------------------------------------
\* A statement of the code's comments that does not hold.

\* store.py 874-876: "An interrupted rollback is completed idempotently by
\* recover()", so without outside interference none ends RECOVERY_REQUIRED.
InterruptedRollbackCompletes ==
    edits = 0 /\ tampers = 0 =>
        \A r \in Ids : journal[r].op = "ROLLBACK" => journal[r].state # "RECOVERY_REQUIRED"

=============================================================================
