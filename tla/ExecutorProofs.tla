--------------------------- MODULE ExecutorProofs ---------------------------
(***************************************************************************)
(* Theorems about GovernedExecutor for any projects, paths, contents,        *)
(* processes and bounds, whatever steps fail and however files are edited or *)
(* damaged.  First the lock discipline, proved inductive; on it rests the    *)
(* journal of concurrent transactions: at most one is open per target, and   *)
(* every receipt is written ahead of what it describes and lives as          *)
(* documented.                                                               *)
(***************************************************************************)
EXTENDS GovernedExecutor, FiniteSetTheorems, TLAPS

(***************************************************************************)
(* What TypeOK needs to be inductive.  A process inside `with _target_lock`  *)
(* names a real path, whose lock is its own, and has the receipt it works on *)
(* in its local variables; every receipt file names a project and a path.    *)
(***************************************************************************)
ControlTypes ==
    /\ lock \in [Paths -> Procs \cup {Free}]
    /\ pc \in [Procs -> Labels]
    /\ job \in [Procs -> Job]
    /\ work \in [Procs -> Work]

HoldsLock(p) == Path(p) \in Paths /\ lock[Path(p)] = p

LockDiscipline ==
    \A p \in Procs :
        /\ pc[p] \in LockedSteps => HoldsLock(p)
        /\ pc[p] \in WriteSteps \cup RollbackSteps => Project(p) \in Projects
        /\ pc[p] = "s_lock" => Path(p) \in Paths

OwnSteps    == {"w_prepare", "w_replace", "w_note", "w_record", "r_supersede", "r_restore",
                "r_copy", "r_applied", "r_terminal", "r_source",
                "s_lock", "s_decide", "s_finalize", "p_meta", "p_backup"}
SourceSteps == {"r_restore", "r_copy", "r_applied", "r_terminal", "r_source"}

LocalsNamed ==
    \A p \in Procs :
        /\ pc[p] \in OwnSteps => work[p].rid \in Ids
        /\ pc[p] \in SourceSteps => work[p].source \in Ids

StoreTypes ==
    /\ disk \in [Paths -> Images]
    /\ journal \in [Ids -> Receipt]
    /\ backup \in [Ids -> Images]
    /\ nextId \in 1..(MaxReceipts + 1)
    /\ edits \in 0..MaxEdits
    /\ tampers \in 0..MaxTampers

ReceiptsNamed ==
    \A r \in Ids : journal[r].state # "NONE" =>
                       journal[r].project \in Projects /\ journal[r].path \in Paths

Control == ControlTypes /\ LockDiscipline /\ LocalsNamed
Store   == StoreTypes /\ ReceiptsNamed

----------------------------------------------------------------------------
\* Steps of the control state.

\* A label set is a set of labels.
LEMMA LabelFacts ==
    /\ LockedSteps \subseteq Labels /\ OwnSteps \subseteq Labels /\ SourceSteps \subseteq Labels
    /\ WriteSteps \cup RollbackSteps \subseteq LockedSteps
    /\ "idle" \notin LockedSteps \cup OwnSteps \cup SourceSteps \cup {"s_lock"}
    /\ "idle" \in Labels
BY DEF Labels, LockedSteps, OwnSteps, SourceSteps, WriteSteps, RollbackSteps, RecoverSteps, PruneSteps

(***************************************************************************)
(* A step that changes the control state of p only: p arrives at label with  *)
(* what that label requires, and takes no lock that another process holds.   *)
(***************************************************************************)
MovesTo(p, label) ==
    /\ Goto(p, label)
    /\ ControlTypes'
    /\ \A q \in Procs \ {p} : job'[q] = job[q] /\ work'[q] = work[q]
    /\ \A x \in Paths : lock[x] \in Procs \ {p} => lock'[x] = lock[x]
    /\ label \in LockedSteps => HoldsLock(p)'
    /\ label \in WriteSteps \cup RollbackSteps => job'[p].project \in Projects
    /\ label = "s_lock" => job'[p].path \in Paths
    /\ label \in OwnSteps => work'[p].rid \in Ids
    /\ label \in SourceSteps => work'[p].source \in Ids

\* Such a step keeps the control invariant.
LEMMA MoveControl ==
    ASSUME Control, NEW p \in Procs, NEW label \in Labels, MovesTo(p, label)
    PROVE  Control'
<1>1. pc'[p] = label /\ \A q \in Procs \ {p} : pc'[q] = pc[q]
  BY DEF Control, ControlTypes, MovesTo, Goto
<1>2. LockDiscipline'
  <2> SUFFICES ASSUME NEW q \in Procs
               PROVE  /\ pc'[q] \in LockedSteps => HoldsLock(q)'
                      /\ pc'[q] \in WriteSteps \cup RollbackSteps => Project(q)' \in Projects
                      /\ pc'[q] = "s_lock" => Path(q)' \in Paths
    BY DEF LockDiscipline
  <2>1. CASE q = p
    BY <2>1, <1>1 DEF MovesTo, HoldsLock, Path, Project
  <2>2. CASE q # p
    BY <2>2, <1>1 DEF Control, LockDiscipline, HoldsLock, Path, Project, MovesTo
  <2> QED BY <2>1, <2>2
<1>3. LocalsNamed'
  BY <1>1 DEF Control, LocalsNamed, MovesTo
<1> QED BY <1>2, <1>3 DEF Control, MovesTo

\* The operation of p returns or raises: p lets go of its lock and of no other.
LEMMA ReturnControl ==
    ASSUME Control, NEW p \in Procs, Return(p)
    PROVE  Control'
<1>1. NoJob \in Job /\ NoWork \in Work
  BY AbsentIsNoValue DEF NoJob, Job, NoWork, Work, Images, NoId
<1>2. ControlTypes'
  BY <1>1, LabelFacts DEF Control, ControlTypes, Return, Goto, Released
<1>3. MovesTo(p, "idle")
  BY <1>2, LabelFacts DEF MovesTo, Control, ControlTypes, Return, Released
<1> QED BY <1>3, LabelFacts, MoveControl

\* recover() leaves the lock of one receipt and goes on to the next.
LEMMA ReleaseControl ==
    ASSUME Control, NEW p \in Procs, Goto(p, "s_scan"), lock' = Released(p), UNCHANGED <<job, work>>
    PROVE  Control'
<1>1. "s_scan" \in Labels /\ "s_scan" \notin LockedSteps \cup OwnSteps \cup SourceSteps
  BY DEF Labels, LockedSteps, OwnSteps, SourceSteps, WriteSteps, RollbackSteps, RecoverSteps
<1>2. ControlTypes'
  BY <1>1 DEF Control, ControlTypes, Goto, Released
<1>3. MovesTo(p, "s_scan")
  BY <1>1, <1>2, LabelFacts DEF MovesTo, Control, ControlTypes, Released
<1> QED BY <1>1, <1>3, MoveControl

\* p goes on under the same lock with the same local variables.
LEMMA ContinueControl ==
    ASSUME Control, NEW p \in Procs, NEW label \in Labels, Continue(p, label),
           label # "s_lock",
           label \in LockedSteps => pc[p] \in LockedSteps,
           label \in WriteSteps \cup RollbackSteps => pc[p] \in WriteSteps \cup RollbackSteps,
           label \in OwnSteps => pc[p] \in OwnSteps,
           label \in SourceSteps => pc[p] \in SourceSteps
    PROVE  Control'
<1>1. MovesTo(p, label)
  BY DEF MovesTo, Continue, Goto, Control, ControlTypes, LockDiscipline, LocalsNamed,
         HoldsLock, Path, Project
<1> QED BY <1>1, MoveControl

\* p goes on under the same lock with new local variables.
LEMMA AssignControl ==
    ASSUME Control, NEW p \in Procs, NEW label \in Labels,
           Goto(p, label), UNCHANGED <<job, lock>>,
           work' \in [Procs -> Work], \A q \in Procs \ {p} : work'[q] = work[q],
           label # "s_lock",
           label \in LockedSteps => pc[p] \in LockedSteps,
           label \in WriteSteps \cup RollbackSteps => pc[p] \in WriteSteps \cup RollbackSteps,
           label \in OwnSteps => work'[p].rid \in Ids,
           label \in SourceSteps => work'[p].source \in Ids
    PROVE  Control'
<1>1. MovesTo(p, label)
  BY DEF MovesTo, Goto, Control, ControlTypes, LockDiscipline, HoldsLock, Path, Project
<1> QED BY <1>1, MoveControl

\* p goes on to the second write of _finalize_rollback.
LEMMA ThenFinalizeControl ==
    ASSUME Control, NEW p \in Procs, NEW label \in {"w_finalize", "r_finalize", "s_finalize"},
           NEW r \in Ids, journal \in [Ids -> Receipt], ThenFinalize(p, label, r),
           IF label = "s_finalize" THEN pc[p] = "s_decide" ELSE pc[p] \in WriteSteps \cup RollbackSteps
    PROVE  Control'
<1>1. journal[r].rollback_of \in Ids \cup {NoId}
  BY DEF Receipt
<1>2. /\ work' \in [Procs -> Work] /\ \A q \in Procs \ {p} : work'[q] = work[q]
      /\ work'[p].rid = work[p].rid
  BY <1>1 DEF ThenFinalize, Work, Control, ControlTypes
<1>3. Goto(p, label) /\ UNCHANGED <<job, lock>>
  BY DEF ThenFinalize
<1>4. pc[p] = "s_decide" => work[p].rid \in Ids
  BY DEF Control, LocalsNamed, OwnSteps
<1>5. label \in Labels /\ label # "s_lock" /\ label \notin SourceSteps
  BY DEF Labels, SourceSteps, WriteSteps, RollbackSteps, RecoverSteps
<1>6. /\ pc[p] \in LockedSteps
      /\ label \in WriteSteps \cup RollbackSteps => pc[p] \in WriteSteps \cup RollbackSteps
      /\ label \in OwnSteps => label = "s_finalize"
  BY DEF LockedSteps, OwnSteps, WriteSteps, RollbackSteps
<1> QED BY <1>2, <1>3, <1>4, <1>5, <1>6, AssignControl

\* p enters `with _target_lock` for a path that is free.
LEMMA AcquireControl ==
    ASSUME Control, NEW p \in Procs, NEW label \in {"w_reconcile", "r_check"},
           NEW project \in Projects, NEW path \in Paths, NEW data \in Images, NEW exp \in Images,
           Acquire(p, label, project, path, data, exp)
    PROVE  Control'
<1>1. label \in Labels /\ label \notin OwnSteps \cup SourceSteps \cup {"s_lock"}
  BY DEF Labels, OwnSteps, SourceSteps, WriteSteps, RollbackSteps
<1>2. [project |-> project, path |-> path, data |-> data, exp |-> exp] \in Job
  BY DEF Job
<1>3. ControlTypes'
  BY <1>1, <1>2 DEF Control, ControlTypes, Acquire, Goto
<1>4. MovesTo(p, label)
  BY <1>1, <1>3, FreeIsNoProcess DEF MovesTo, Acquire, Control, ControlTypes, HoldsLock, Path
<1> QED BY <1>1, <1>4, MoveControl

----------------------------------------------------------------------------
\* Steps of the store.

\* The journal, as a state function of its own.
JournalOK == journal \in [Ids -> Receipt] /\ ReceiptsNamed

SettledStates == {"VERIFIED", "RECOVERED_UNAPPLIED", "RECOVERY_REQUIRED"}

\* A file taken from a list is in the list.
LEMMA FilesInOrderIn ==
    ASSUME NEW j, NEW S, NEW r \in FilesInOrder(j, S)
    PROVE  r \in S
BY DEF FilesInOrder

\* What being among the pending receipts of p's target means.
LEMMA PendingFacts ==
    ASSUME NEW p, NEW r \in PendingOf(p)
    PROVE  /\ r \in Ids /\ journal[r].state \in INCOMPLETE_STATES
           /\ journal[r].project = Project(p) /\ journal[r].path = Path(p)
BY DEF PendingOf, Pending, ValidFor

\* Reconciliation settles an open receipt.
LEMMA ReconciledSettles ==
    ASSUME NEW j, NEW b, NEW d, NEW r, j[r].state \in INCOMPLETE_STATES
    PROVE  Reconciled(j, b, d, r) \in SettledStates
BY DEF Reconciled, ReconciledRollback, ReconciledWrite, SettledStates, INCOMPLETE_STATES, backup_ok

\* The states a receipt may be given.
LEMMA StateFacts ==
    /\ SettledStates \subseteq KNOWN_STATES
    /\ INCOMPLETE_STATES \subseteq KNOWN_STATES
    /\ "NONE" \notin KNOWN_STATES \cup CORRUPT_STATES
    /\ SettledStates \cap INCOMPLETE_STATES = {}
BY DEF SettledStates, KNOWN_STATES, TERMINAL_STATES, INCOMPLETE_STATES, BLOCKING_STATES, CORRUPT_STATES

\* A receipt file changes its state and nothing else.
LEMMA SetStateEffect ==
    ASSUME journal \in [Ids -> Receipt], NEW r \in Ids,
           NEW s \in KNOWN_STATES \cup CORRUPT_STATES \cup {"NONE"}, SetState(r, s)
    PROVE  /\ journal' \in [Ids -> Receipt]
           /\ journal'[r].state = s
           /\ journal'[r].op = journal[r].op /\ journal'[r].project = journal[r].project
           /\ journal'[r].path = journal[r].path /\ journal'[r].pre = journal[r].pre
           /\ journal'[r].post = journal[r].post /\ journal'[r].prev = journal[r].prev
           /\ journal'[r].rollback_of = journal[r].rollback_of
           /\ \A i \in Ids \ {r} : journal'[i] = journal[i]
<1>1. journal[r] \in Receipt
  OBVIOUS
<1>2. [journal[r] EXCEPT !.state = s] \in Receipt
  BY <1>1 DEF Receipt
<1>3. /\ journal' \in [Ids -> Receipt]
      /\ journal'[r] = [journal[r] EXCEPT !.state = s]
      /\ \A i \in Ids \ {r} : journal'[i] = journal[i]
  BY <1>2, Zenon DEF SetState
<1> QED BY <1>1, <1>3 DEF Receipt

\* A receipt whose state changes keeps the journal well typed.
LEMMA SetStateJournal ==
    ASSUME JournalOK, NEW r \in Ids, NEW s \in KNOWN_STATES \cup CORRUPT_STATES \cup {"NONE"},
           s # "NONE" => journal[r].state # "NONE", SetState(r, s)
    PROVE  JournalOK'
BY SetStateEffect DEF JournalOK, ReceiptsNamed

\* A receipt file changes its state and its postimage.
LEMMA AdvanceEffect ==
    ASSUME journal \in [Ids -> Receipt], NEW r \in Ids, NEW s \in KNOWN_STATES, NEW post \in Images,
           journal' = [journal EXCEPT ![r].state = s, ![r].post = post]
    PROVE  /\ journal' \in [Ids -> Receipt]
           /\ journal'[r].state = s /\ journal'[r].post = post
           /\ journal'[r].op = journal[r].op /\ journal'[r].project = journal[r].project
           /\ journal'[r].path = journal[r].path /\ journal'[r].pre = journal[r].pre
           /\ journal'[r].prev = journal[r].prev
           /\ journal'[r].rollback_of = journal[r].rollback_of
           /\ \A i \in Ids \ {r} : journal'[i] = journal[i]
<1> DEFINE receipt == [journal[r] EXCEPT !.state = s, !.post = post]
<1>1. journal[r] \in Receipt
  OBVIOUS
<1>2. receipt \in Receipt
  BY <1>1 DEF Receipt
<1>3. journal' = [journal EXCEPT ![r] = receipt]
  BY <1>1 DEF Receipt
<1>4. /\ journal' \in [Ids -> Receipt] /\ journal'[r] = receipt
      /\ \A i \in Ids \ {r} : journal'[i] = journal[i]
  <2> HIDE DEF receipt
  <2> QED BY <1>2, <1>3
<1> QED BY <1>1, <1>4 DEF Receipt

\* A write is noted as applied.
LEMMA AppliedEffect ==
    ASSUME journal \in [Ids -> Receipt], NEW r \in Ids, NEW post \in Images,
           journal' = [journal EXCEPT ![r].state = "APPLIED", ![r].post = post]
    PROVE  /\ journal' \in [Ids -> Receipt]
           /\ journal'[r].state = "APPLIED" /\ journal'[r].post = post
           /\ journal'[r].op = journal[r].op /\ journal'[r].project = journal[r].project
           /\ journal'[r].path = journal[r].path /\ journal'[r].pre = journal[r].pre
           /\ journal'[r].prev = journal[r].prev
           /\ journal'[r].rollback_of = journal[r].rollback_of
           /\ \A i \in Ids \ {r} : journal'[i] = journal[i]
<1>1. "APPLIED" \in KNOWN_STATES
  BY DEF KNOWN_STATES, INCOMPLETE_STATES
<1> QED BY <1>1, AdvanceEffect

\* A process remembers a second image and nothing else changes.
LEMMA SeenEffect ==
    ASSUME work \in [Procs -> Work], NEW p \in Procs, NEW image,
           work' = [work EXCEPT ![p].seen = image]
    PROVE  /\ work'[p].pre = work[p].pre /\ work'[p].seen = image /\ work'[p].rid = work[p].rid
           /\ work'[p].source = work[p].source /\ work'[p].want = work[p].want
           /\ work'[p].todo = work[p].todo
           /\ \A q \in Procs \ {p} : work'[q] = work[q]
<1>1. work[p] \in Work /\ work' = [work EXCEPT ![p] = [work[p] EXCEPT !.seen = image]]
  OBVIOUS
<1> QED BY <1>1 DEF Work

\* So does advancing a receipt with its postimage.
LEMMA AdvanceJournal ==
    ASSUME JournalOK, NEW r \in Ids, NEW s \in KNOWN_STATES, NEW post \in Images,
           journal[r].state # "NONE",
           journal' = [journal EXCEPT ![r].state = s, ![r].post = post]
    PROVE  JournalOK'
BY AdvanceEffect DEF JournalOK, ReceiptsNamed

\* A receipt file is written as a whole.
LEMMA PutJournal ==
    ASSUME JournalOK, NEW r, NEW receipt \in Receipt,
           receipt.state # "NONE" => receipt.project \in Projects /\ receipt.path \in Paths,
           journal' = [journal EXCEPT ![r] = receipt]
    PROVE  JournalOK'
BY DEF JournalOK, ReceiptsNamed

\* The receipts that save_preimage and rollback write.
LEMMA WriteReceiptType ==
    ASSUME NEW project \in Projects, NEW path \in Paths, NEW pre \in Images,
           NEW prev \in Ids \cup {NoId}
    PROVE  WriteReceipt(project, path, pre, prev) \in Receipt
BY StateFacts DEF WriteReceipt, Receipt, Images, NoId, INCOMPLETE_STATES, KNOWN_STATES

\* The receipt a rollback prepares is a receipt.
LEMMA RollbackReceiptType ==
    ASSUME NEW project \in Projects, NEW path \in Paths, NEW state \in KNOWN_STATES,
           NEW current \in Images, NEW restored \in Images, NEW source \in Ids
    PROVE  RollbackReceipt(project, path, state, current, restored, source) \in Receipt
BY DEF RollbackReceipt, Receipt, NoId

\* The entry of an unused or pruned id is in the journal's type.
LEMMA NoReceiptType == NoReceipt \in Receipt
BY DEF NoReceipt, Receipt, Images, NoId

\* The second write of _finalize_rollback.
LEMMA FinalizedJournal ==
    ASSUME JournalOK, NEW source, journal' = SourceFinalized(journal, source)
    PROVE  JournalOK'
<1>1. CASE source \in Ids /\ journal[source].state \in KNOWN_STATES
  <2>1. SetState(source, "ROLLED_BACK")
    BY <1>1 DEF SourceFinalized, SetState
  <2>2. "ROLLED_BACK" \in KNOWN_STATES
    BY DEF KNOWN_STATES, TERMINAL_STATES
  <2> QED BY <1>1, <2>1, <2>2, StateFacts, SetStateJournal
<1>2. CASE ~(source \in Ids /\ journal[source].state \in KNOWN_STATES)
  BY <1>2 DEF SourceFinalized, JournalOK, ReceiptsNamed
<1> QED BY <1>1, <1>2

\* The superseded receipt is a receipt, and so is the one rolled back.
LEMMA ChainTypes ==
    ASSUME NEW j, NEW project, NEW path, NEW image
    PROVE  /\ find_superseded_id(j, project, path, image) \subseteq Ids \cup {NoId}
           /\ find_latest_receipt(j, project, path, image) \subseteq Ids
BY DEF find_superseded_id, find_latest_receipt, Heads, Candidates, ValidFor

----------------------------------------------------------------------------
(***************************************************************************)
(* The inductive invariant of type correctness, and one lemma per operation  *)
(* that its steps keep it.                                                   *)
(***************************************************************************)
Sound == Control /\ Store

\* The steps of fs_write keep the types (executor.py 478-645).
LEMMA WriteSound ==
    ASSUME Sound, NEW p \in Procs, WriteStep(p)
    PROVE  Sound'
<1> USE DEF Sound
<1>0. JournalOK
  BY DEF Store, StoreTypes, JournalOK
<1>1. CASE ReconcilePending(p)
  <2>1. PICK r \in FilesInOrder(journal, PendingOf(p)) :
          LET verdict == Reconciled(journal, backup, disk, r)
          IN  /\ SetState(r, verdict)
              /\ IF journal[r].op = "ROLLBACK" /\ verdict = "VERIFIED"
                 THEN ThenFinalize(p, "w_finalize", r)
                 ELSE Continue(p, "w_reconcile")
    BY <1>1 DEF ReconcilePending
  <2> DEFINE verdict == Reconciled(journal, backup, disk, r)
  <2>2. r \in Ids /\ journal[r].state \in INCOMPLETE_STATES
    BY FilesInOrderIn, PendingFacts
  <2>3. verdict \in SettledStates
    BY <2>2, ReconciledSettles
  <2>4. SetState(r, verdict)
    BY <2>1
  <2> HIDE DEF verdict
  <2>5. JournalOK'
    BY <1>0, <2>2, <2>3, <2>4, StateFacts, SetStateJournal
  <2>6. Control'
    <3>1. pc[p] = "w_reconcile" /\ journal \in [Ids -> Receipt]
      BY <1>0, <1>1 DEF ReconcilePending, At, JournalOK
    <3>2. CASE ThenFinalize(p, "w_finalize", r)
      BY <3>1, <3>2, <2>2, ThenFinalizeControl DEF WriteSteps
    <3>3. CASE Continue(p, "w_reconcile")
      BY <3>1, <3>3, ContinueControl
      DEF Labels, LockedSteps, WriteSteps, RollbackSteps, OwnSteps, SourceSteps
    <3> QED BY <2>1, <3>2, <3>3
  <2> QED BY <2>5, <2>6, <1>1 DEF ReconcilePending, Store, StoreTypes, JournalOK, env
<1>2. CASE CheckWrite(p)
  <2>1. CASE Return(p)
    BY <1>2, <2>1, ReturnControl DEF CheckWrite, Store, StoreTypes, ReceiptsNamed, store, env
  <2>2. CASE ~Return(p)
    <3>1. pc[p] = "w_reconcile" /\ Goto(p, "w_save") /\ UNCHANGED <<job, lock>>
          /\ work' = [work EXCEPT ![p].pre = disk[Path(p)]]
      BY <1>2, <2>2 DEF CheckWrite, At
    <3>2. disk[Path(p)] \in Images
      BY <3>1 DEF Control, LockDiscipline, HoldsLock, LockedSteps, WriteSteps, Store, StoreTypes
    <3>3. work' \in [Procs -> Work] /\ \A q \in Procs \ {p} : work'[q] = work[q]
      BY <3>1, <3>2 DEF Work, Control, ControlTypes
    <3>4. Control'
      BY <3>1, <3>3, AssignControl
      DEF Labels, LockedSteps, WriteSteps, RollbackSteps, OwnSteps, SourceSteps
    <3> QED BY <3>4, <1>2 DEF CheckWrite, Store, StoreTypes, ReceiptsNamed, store, env
  <2> QED BY <2>1, <2>2
<1>3. CASE SaveBackup(p)
  <2>1. CASE nextId \in Ids
    <3>1. /\ pc[p] = "w_save" /\ Goto(p, "w_prepare") /\ UNCHANGED <<job, lock>>
          /\ work' = [work EXCEPT ![p].rid = nextId]
          /\ nextId' = nextId + 1 /\ backup' = [backup EXCEPT ![nextId] = work[p].pre]
          /\ UNCHANGED <<disk, journal, edits, tampers>>
      BY <1>3, <2>1 DEF SaveBackup, At, env
    <3>2. /\ work' \in [Procs -> Work] /\ \A q \in Procs \ {p} : work'[q] = work[q]
          /\ work'[p].rid = nextId /\ work[p].pre \in Images
      BY <3>1, <2>1 DEF Work, Control, ControlTypes
    <3>3. Control'
      BY <3>1, <3>2, <2>1, AssignControl
      DEF Labels, LockedSteps, WriteSteps, RollbackSteps, OwnSteps, SourceSteps
    <3>4. Store'
      BY <3>1, <3>2, <2>1, ReceiptBound DEF Store, StoreTypes, ReceiptsNamed, Ids
    <3> QED BY <3>3, <3>4
  <2>2. CASE nextId \notin Ids
    BY <1>3, <2>2, ReturnControl DEF SaveBackup, Store, StoreTypes, ReceiptsNamed, env
  <2> QED BY <2>1, <2>2
<1>4. CASE JournalPrepared(p)
  <2>1. pc[p] = "w_prepare" /\ Continue(p, "w_replace") /\ UNCHANGED <<disk, backup, nextId, edits, tampers>>
    BY <1>4 DEF JournalPrepared, At, env
  <2>2. PICK prev \in find_superseded_id(journal, Project(p), Path(p), work[p].pre) :
          journal' = [journal EXCEPT ![work[p].rid] =
                         WriteReceipt(Project(p), Path(p), work[p].pre, prev)]
    BY <1>4 DEF JournalPrepared
  <2>3. Project(p) \in Projects /\ Path(p) \in Paths /\ work[p].pre \in Images
    BY <2>1 DEF Control, LockDiscipline, HoldsLock, LockedSteps, WriteSteps, ControlTypes, Work
  <2>4. prev \in Ids \cup {NoId}
    BY ChainTypes
  <2> DEFINE receipt == WriteReceipt(Project(p), Path(p), work[p].pre, prev)
  <2>5. receipt \in Receipt
    BY <2>3, <2>4, WriteReceiptType
  <2>6. receipt.project = Project(p) /\ receipt.path = Path(p)
    BY DEF WriteReceipt
  <2>7. JournalOK'
    <3> HIDE DEF receipt
    <3>1. journal' = [journal EXCEPT ![work[p].rid] = receipt]
      BY <2>2 DEF receipt
    <3> QED BY <1>0, <2>3, <2>5, <2>6, <3>1, PutJournal
  <2>8. Control'
    BY <2>1, ContinueControl
    DEF Labels, LockedSteps, WriteSteps, RollbackSteps, OwnSteps, SourceSteps
  <2> QED BY <2>1, <2>7, <2>8 DEF Store, StoreTypes, JournalOK
<1>5. CASE ReplaceTarget(p)
  <2>1. /\ pc[p] = "w_replace" /\ Continue(p, "w_note")
        /\ disk' = [disk EXCEPT ![Path(p)] = job[p].data]
        /\ UNCHANGED <<journal, backup, nextId, edits, tampers>>
    BY <1>5 DEF ReplaceTarget, At, store, env
  <2>2. job[p].data \in Images
    BY DEF Control, ControlTypes, Job
  <2>3. Control'
    BY <2>1, ContinueControl
    DEF Labels, LockedSteps, WriteSteps, RollbackSteps, OwnSteps, SourceSteps
  <2> QED BY <2>1, <2>2, <2>3 DEF Store, StoreTypes, ReceiptsNamed
<1>6. CASE NoteReplaced(p)
  <2> DEFINE rid == work[p].rid
             post_hash == disk[Path(p)]
  <2>1. pc[p] = "w_note" /\ UNCHANGED <<disk, backup, nextId, edits, tampers>>
    BY <1>6 DEF NoteReplaced, At, env
  <2>2. rid \in Ids /\ post_hash \in Images
    BY <2>1 DEF Control, LocalsNamed, LockDiscipline, HoldsLock, OwnSteps, LockedSteps, WriteSteps,
                Store, StoreTypes
  <2>3. CASE post_hash # Absent /\ journal[rid].state = "PREPARED"
    <3>1. /\ journal' = [journal EXCEPT ![rid].state = "APPLIED", ![rid].post = post_hash]
          /\ work' = [work EXCEPT ![p].seen = post_hash]
          /\ Goto(p, "w_record") /\ UNCHANGED <<job, lock>>
      BY <1>6, <2>3 DEF NoteReplaced
    <3>2. /\ work' \in [Procs -> Work] /\ \A q \in Procs \ {p} : work'[q] = work[q]
          /\ work'[p].rid = rid
      BY <3>1, <2>2 DEF Work, Control, ControlTypes
    <3>3. Control'
      BY <3>1, <3>2, <2>1, <2>2, AssignControl
      DEF Labels, LockedSteps, WriteSteps, RollbackSteps, OwnSteps, SourceSteps
    <3>4. JournalOK'
      BY <1>0, <2>2, <2>3, <3>1, StateFacts, AdvanceJournal DEF INCOMPLETE_STATES
    <3> QED BY <2>1, <3>3, <3>4 DEF Store, StoreTypes, JournalOK
  <2>4. CASE ~(post_hash # Absent /\ journal[rid].state = "PREPARED")
    BY <1>6, <2>4, ReturnControl DEF NoteReplaced, Store, StoreTypes, ReceiptsNamed, env
  <2> QED BY <2>3, <2>4
<1>7. CASE RecordPostimage(p)
  <2> DEFINE rid == work[p].rid
             verdict == IF disk[Path(p)] = work[p].seen THEN "VERIFIED" ELSE "RECOVERY_REQUIRED"
  <2>1. pc[p] = "w_record" /\ Return(p) /\ UNCHANGED <<disk, backup, nextId, edits, tampers>>
    BY <1>7 DEF RecordPostimage, At, env
  <2>2. rid \in Ids /\ work[p].seen \in Images /\ verdict \in KNOWN_STATES
    BY <2>1, StateFacts DEF Control, ControlTypes, LocalsNamed, OwnSteps, Work, SettledStates
  <2>3. JournalOK'
    <3>1. CASE journal[rid].state \in INCOMPLETE_STATES
      <4>1. journal' = [journal EXCEPT ![rid].state = verdict, ![rid].post = work[p].seen]
        BY <1>7, <3>1 DEF RecordPostimage
      <4> HIDE DEF verdict
      <4> QED BY <1>0, <2>2, <3>1, <4>1, StateFacts, AdvanceJournal
    <3>2. CASE journal[rid].state \notin INCOMPLETE_STATES
      BY <1>0, <1>7, <3>2 DEF RecordPostimage, JournalOK, ReceiptsNamed
    <3> QED BY <3>1, <3>2
  <2> QED BY <2>1, <2>3, ReturnControl DEF Store, StoreTypes, JournalOK
<1> QED BY <1>1, <1>2, <1>3, <1>4, <1>5, <1>6, <1>7 DEF WriteStep

\* A write of the in-memory rollback receipt.
LEMMA RollbackJournal ==
    ASSUME Sound, NEW p \in Procs, pc[p] \in SourceSteps,
           NEW state \in KNOWN_STATES, NEW restored \in Images, WriteRollback(p, state, restored)
    PROVE  JournalOK'
<1> DEFINE receipt == RollbackReceipt(Project(p), Path(p), state, work[p].pre, restored, work[p].source)
<1>1. pc[p] \in LockedSteps /\ pc[p] \in WriteSteps \cup RollbackSteps
  BY DEF SourceSteps, LockedSteps, RollbackSteps
<1>2. Project(p) \in Projects /\ Path(p) \in Paths /\ work[p].pre \in Images /\ work[p].source \in Ids
  BY <1>1 DEF Sound, Control, LockDiscipline, HoldsLock, LocalsNamed, ControlTypes, Work
<1>3. receipt \in Receipt
  BY <1>2, RollbackReceiptType
<1>4. receipt.project = Project(p) /\ receipt.path = Path(p)
  BY DEF RollbackReceipt
<1>5. journal' = [journal EXCEPT ![work[p].rid] = receipt]
  BY DEF WriteRollback
<1>6. JournalOK
  BY DEF Sound, Store, StoreTypes, JournalOK
<1> HIDE DEF receipt
<1> QED BY <1>2, <1>3, <1>4, <1>5, <1>6, PutJournal

\* The verdict of _supersede_pending settles an open receipt.
LEMMA SettledSettles ==
    ASSUME NEW p, NEW r, journal[r].state \in INCOMPLETE_STATES
    PROVE  Settled(p, r) \in SettledStates
<1>1. Reconciled(journal, backup, disk, r) \in SettledStates
  BY ReconciledSettles
<1> QED BY <1>1 DEF Settled, SettledStates

\* The steps of fs_rollback keep the types (executor.py 647-678, store.py 794-1011).
LEMMA RollbackSound ==
    ASSUME Sound, NEW p \in Procs, RollbackStep(p)
    PROVE  Sound'
<1> USE DEF Sound
<1>0. JournalOK
  BY DEF Store, StoreTypes, JournalOK
<1>1. CASE CheckRollback(p)
  <2>1. CASE Return(p)
    BY <1>1, <2>1, ReturnControl DEF CheckRollback, Store, StoreTypes, ReceiptsNamed, store, env
  <2>2. CASE ~Return(p)
    <3>1. pc[p] = "r_check" /\ Goto(p, "r_peek") /\ UNCHANGED <<job, lock>>
          /\ work' = [work EXCEPT ![p].pre = disk[Path(p)]]
      BY <1>1, <2>2 DEF CheckRollback, At
    <3>2. disk[Path(p)] \in Images
      BY <3>1 DEF Control, LockDiscipline, HoldsLock, LockedSteps, RollbackSteps, Store, StoreTypes
    <3>3. work' \in [Procs -> Work] /\ \A q \in Procs \ {p} : work'[q] = work[q]
      BY <3>1, <3>2 DEF Work, Control, ControlTypes
    <3>4. Control'
      BY <3>1, <3>3, AssignControl
      DEF Labels, LockedSteps, WriteSteps, RollbackSteps, OwnSteps, SourceSteps
    <3> QED BY <3>4, <1>1 DEF CheckRollback, Store, StoreTypes, ReceiptsNamed, store, env
  <2> QED BY <2>1, <2>2
<1>2. CASE PeekTarget(p)
  <2>1. /\ pc[p] = "r_peek" /\ Goto(p, "r_settle")
        /\ work' = [work EXCEPT ![p].seen = disk[Path(p)]]
        /\ UNCHANGED <<disk, journal, backup, nextId, lock, job, edits, tampers>>
    BY <1>2 DEF PeekTarget, At, store, env
  <2>2. disk[Path(p)] \in Images
    BY <2>1 DEF Control, LockDiscipline, HoldsLock, LockedSteps, RollbackSteps, Store, StoreTypes
  <2>3. work' \in [Procs -> Work] /\ \A q \in Procs \ {p} : work'[q] = work[q]
    BY <2>1, <2>2 DEF Work, Control, ControlTypes
  <2>4. Control'
    BY <2>1, <2>3, AssignControl
    DEF Labels, LockedSteps, WriteSteps, RollbackSteps, OwnSteps, SourceSteps
  <2> QED BY <2>1, <2>4 DEF Store, StoreTypes, ReceiptsNamed
<1>3. CASE SettlePending(p)
  <2>1. PICK r \in FilesInOrder(journal, PendingOf(p)) :
          LET verdict == Settled(p, r)
          IN  /\ SetState(r, verdict)
              /\ CASE verdict = "RECOVERY_REQUIRED" -> Return(p)
                   [] verdict = "VERIFIED" /\ journal[r].op = "ROLLBACK" ->
                         ThenFinalize(p, "r_finalize", r)
                   [] verdict = "RECOVERED_UNAPPLIED" /\ journal[r].op = "FS_WRITE" ->
                         /\ Goto(p, "r_supersede")
                         /\ work' = [work EXCEPT ![p].rid = r]
                         /\ UNCHANGED <<job, lock>>
                   [] OTHER -> Continue(p, "r_settle")
    BY <1>3 DEF SettlePending
  <2>2. pc[p] = "r_settle" /\ UNCHANGED <<disk, backup, nextId, edits, tampers>>
    BY <1>3 DEF SettlePending, At, env
  <2>3. r \in Ids /\ journal[r].state \in INCOMPLETE_STATES
    BY FilesInOrderIn, PendingFacts
  <2> DEFINE verdict == Settled(p, r)
  <2>4. verdict \in SettledStates
    BY <2>3, SettledSettles
  <2>5. JournalOK'
    <3>1. SetState(r, verdict)
      BY <2>1
    <3> HIDE DEF verdict
    <3> QED BY <1>0, <2>3, <2>4, <3>1, StateFacts, SetStateJournal
  <2>6. Control'
    <3>1. CASE Return(p)
      BY <3>1, ReturnControl
    <3>2. CASE ThenFinalize(p, "r_finalize", r)
      BY <1>0, <2>2, <2>3, <3>2, ThenFinalizeControl DEF RollbackSteps, JournalOK
    <3>3. CASE Goto(p, "r_supersede") /\ work' = [work EXCEPT ![p].rid = r] /\ UNCHANGED <<job, lock>>
      <4>1. /\ work' \in [Procs -> Work] /\ \A q \in Procs \ {p} : work'[q] = work[q]
            /\ work'[p].rid = r
        BY <3>3, <2>3 DEF Work, Control, ControlTypes
      <4> QED BY <2>2, <2>3, <3>3, <4>1, AssignControl
              DEF Labels, LockedSteps, WriteSteps, RollbackSteps, OwnSteps, SourceSteps
    <3>4. CASE Continue(p, "r_settle")
      BY <2>2, <3>4, ContinueControl
      DEF Labels, LockedSteps, WriteSteps, RollbackSteps, OwnSteps, SourceSteps
    <3> QED BY <2>1, <3>1, <3>2, <3>3, <3>4
  <2> QED BY <2>2, <2>5, <2>6 DEF Store, StoreTypes, JournalOK
<1>4. CASE MarkSuperseded(p)
  <2>1. pc[p] = "r_supersede" /\ UNCHANGED <<disk, backup, nextId, edits, tampers>>
    BY <1>4 DEF MarkSuperseded, At, env
  <2>2. work[p].rid \in Ids /\ "SUPERSEDED" \in KNOWN_STATES
    BY <2>1 DEF Control, LocalsNamed, OwnSteps, KNOWN_STATES, TERMINAL_STATES
  <2>3. CASE journal[work[p].rid].state \in KNOWN_STATES
    <3>1. SetState(work[p].rid, "SUPERSEDED") /\ Continue(p, "r_settle")
      BY <1>4, <2>3 DEF MarkSuperseded
    <3>2. JournalOK'
      BY <1>0, <2>2, <2>3, <3>1, StateFacts, SetStateJournal
    <3>3. Control'
      BY <2>1, <3>1, ContinueControl
      DEF Labels, LockedSteps, WriteSteps, RollbackSteps, OwnSteps, SourceSteps
    <3> QED BY <2>1, <3>2, <3>3 DEF Store, StoreTypes, JournalOK
  <2>4. CASE journal[work[p].rid].state \notin KNOWN_STATES
    BY <1>4, <2>1, <2>4, ReturnControl DEF MarkSuperseded, Store, StoreTypes, ReceiptsNamed
  <2> QED BY <2>3, <2>4
<1>5. CASE SelectAndJournal(p)
  <2> DEFINE chosen == find_latest_receipt(journal, Project(p), Path(p), work[p].pre)
  <2>1. pc[p] = "r_settle" /\ UNCHANGED <<disk, backup, edits, tampers>>
    BY <1>5 DEF SelectAndJournal, At, env
  <2>2. CASE chosen # {} /\ nextId \in Ids
    <3>1. PICK source \in chosen :
            /\ nextId' = nextId + 1
            /\ journal' = [journal EXCEPT ![nextId] =
                  RollbackReceipt(Project(p), Path(p), "PREPARED", work[p].pre, Absent, source)]
            /\ work' = [work EXCEPT ![p].rid = nextId, ![p].source = source,
                                    ![p].want = journal[source].pre]
            /\ Goto(p, "r_restore")
            /\ UNCHANGED <<job, lock>>
      BY <1>5, <2>2 DEF SelectAndJournal
    <3>2. source \in Ids
      BY ChainTypes
    <3>3. journal[source].pre \in Images
      BY <1>0, <3>2 DEF JournalOK, Receipt
    <3>4. Project(p) \in Projects /\ Path(p) \in Paths /\ work[p].pre \in Images
      BY <2>1 DEF Control, LockDiscipline, HoldsLock, LockedSteps, RollbackSteps, ControlTypes, Work
    <3> DEFINE receipt == RollbackReceipt(Project(p), Path(p), "PREPARED", work[p].pre, Absent, source)
    <3>5. receipt \in Receipt
      BY <3>2, <3>4, RollbackReceiptType, StateFacts DEF INCOMPLETE_STATES, Images
    <3>6. receipt.project = Project(p) /\ receipt.path = Path(p)
      BY DEF RollbackReceipt
    <3>7. journal' = [journal EXCEPT ![nextId] = receipt] /\ nextId' = nextId + 1
          /\ Goto(p, "r_restore") /\ UNCHANGED <<job, lock>>
      BY <3>1
    <3>8. JournalOK'
      <4> HIDE DEF receipt
      <4> QED BY <1>0, <3>4, <3>5, <3>6, <3>7, PutJournal
    <3>9. /\ work' \in [Procs -> Work] /\ \A q \in Procs \ {p} : work'[q] = work[q]
          /\ work'[p].rid = nextId /\ work'[p].source = source
      <4>1. work \in [Procs -> Work]
        BY DEF Control, ControlTypes
      <4>2. [work[p] EXCEPT !.rid = nextId, !.source = source, !.want = journal[source].pre] \in Work
        BY <4>1, <3>2, <3>3, <2>2 DEF Work
      <4>3. QED BY <3>1, <4>1, <4>2 DEF Work
    <3>10. Control'
      BY <2>1, <2>2, <3>2, <3>7, <3>9, AssignControl
      DEF Labels, LockedSteps, WriteSteps, RollbackSteps, OwnSteps, SourceSteps
    <3>11. nextId' \in 1..(MaxReceipts + 1)
      BY <2>2, <3>7, ReceiptBound DEF Ids
    <3> QED BY <2>1, <3>8, <3>10, <3>11 DEF Store, StoreTypes, JournalOK
  <2>3. CASE ~(chosen # {} /\ nextId \in Ids)
    BY <1>5, <2>1, <2>3, ReturnControl DEF SelectAndJournal, Store, StoreTypes, ReceiptsNamed
  <2> QED BY <2>2, <2>3
<1>6. CASE RestoreTarget(p)
  <2> DEFINE want == work[p].want
  <2>1. pc[p] = "r_restore" /\ UNCHANGED <<backup, nextId, edits, tampers>>
    BY <1>6 DEF RestoreTarget, At, env
  <2>2. CASE want = Absent
    <3>1. disk' = [disk EXCEPT ![Path(p)] = Absent] /\ Continue(p, "r_applied") /\ UNCHANGED journal
      BY <1>6, <2>2 DEF RestoreTarget
    <3>2. Control'
      BY <2>1, <3>1, ContinueControl
      DEF Labels, LockedSteps, WriteSteps, RollbackSteps, OwnSteps, SourceSteps
    <3> QED BY <2>1, <3>1, <3>2 DEF Store, StoreTypes, ReceiptsNamed, Images
  <2>3. CASE want # Absent /\ backup[work[p].source] = want
    <3>1. Continue(p, "r_copy") /\ UNCHANGED <<disk, journal>>
      BY <1>6, <2>3 DEF RestoreTarget
    <3>2. Control'
      BY <2>1, <3>1, ContinueControl
      DEF Labels, LockedSteps, WriteSteps, RollbackSteps, OwnSteps, SourceSteps
    <3> QED BY <2>1, <3>1, <3>2 DEF Store, StoreTypes, ReceiptsNamed
  <2>4. CASE want # Absent /\ backup[work[p].source] # want
    <3>1. WriteRollback(p, "RECOVERY_REQUIRED", Absent) /\ Return(p) /\ UNCHANGED disk
      BY <1>6, <2>4 DEF RestoreTarget
    <3>2. "RECOVERY_REQUIRED" \in KNOWN_STATES /\ Absent \in Images /\ pc[p] \in SourceSteps
      BY <2>1, StateFacts DEF SettledStates, Images, SourceSteps
    <3>3. JournalOK'
      BY <3>1, <3>2, RollbackJournal
    <3> QED BY <2>1, <3>1, <3>3, ReturnControl DEF Store, StoreTypes, JournalOK
  <2> QED BY <2>2, <2>3, <2>4
<1>7. CASE CopyBackup(p)
  <2>1. pc[p] = "r_copy" /\ UNCHANGED <<journal, backup, nextId, edits, tampers>>
    BY <1>7 DEF CopyBackup, At, store, env
  <2>2. backup[work[p].source] \in Images
    BY <2>1 DEF Control, LocalsNamed, SourceSteps, Store, StoreTypes
  <2>3. CASE backup[work[p].source] # Absent
    <3>1. disk' = [disk EXCEPT ![Path(p)] = backup[work[p].source]] /\ Continue(p, "r_applied")
      BY <1>7, <2>3 DEF CopyBackup
    <3>2. Control'
      BY <2>1, <3>1, ContinueControl
      DEF Labels, LockedSteps, WriteSteps, RollbackSteps, OwnSteps, SourceSteps
    <3> QED BY <2>1, <2>2, <3>1, <3>2 DEF Store, StoreTypes, ReceiptsNamed
  <2>4. CASE backup[work[p].source] = Absent
    BY <1>7, <2>1, <2>4, ReturnControl DEF CopyBackup, Store, StoreTypes, ReceiptsNamed
  <2> QED BY <2>3, <2>4
<1>8. CASE RollbackApplied(p)
  <2> DEFINE want == work[p].want
             final_hash == disk[Path(p)]
  <2>1. pc[p] = "r_applied" /\ UNCHANGED <<disk, backup, nextId, edits, tampers>>
    BY <1>8 DEF RollbackApplied, At, env
  <2>2. /\ pc[p] \in SourceSteps /\ want \in Images /\ Absent \in Images /\ final_hash \in Images
        /\ "APPLIED" \in KNOWN_STATES /\ "RECOVERY_REQUIRED" \in KNOWN_STATES
    BY <2>1, StateFacts DEF SourceSteps, Control, ControlTypes, Work, Images, INCOMPLETE_STATES, SettledStates,
          LockDiscipline, HoldsLock, LockedSteps, RollbackSteps, Store, StoreTypes
  <2>3. CASE want = Absent \/ final_hash = want
    <3>1. WriteRollback(p, "APPLIED", want) /\ Continue(p, "r_terminal")
      BY <1>8, <2>3, AbsentIsNoValue DEF RollbackApplied
    <3>2. JournalOK'
      BY <2>2, <3>1, RollbackJournal
    <3>3. Control'
      BY <2>1, <3>1, ContinueControl
      DEF Labels, LockedSteps, WriteSteps, RollbackSteps, OwnSteps, SourceSteps
    <3> QED BY <2>1, <3>2, <3>3 DEF Store, StoreTypes, JournalOK
  <2>4. CASE want # Absent /\ final_hash \in Contents \ {want}
    <3>1. WriteRollback(p, "RECOVERY_REQUIRED", Absent) /\ Return(p)
      BY <1>8, <2>4, AbsentIsNoValue DEF RollbackApplied
    <3>2. JournalOK'
      BY <2>2, <3>1, RollbackJournal
    <3> QED BY <2>1, <3>1, <3>2, ReturnControl DEF Store, StoreTypes, JournalOK
  <2>5. CASE want # Absent /\ final_hash = Absent
    <3>1. UNCHANGED journal /\ Return(p)
      BY <1>8, <2>5, AbsentIsNoValue DEF RollbackApplied
    <3> QED BY <2>1, <3>1, ReturnControl DEF Store, StoreTypes, ReceiptsNamed
  <2> QED BY <2>2, <2>3, <2>4, <2>5 DEF Images
<1>9. CASE RollbackVerified(p)
  <2>1. /\ pc[p] = "r_terminal" /\ WriteRollback(p, "VERIFIED", work[p].want) /\ Continue(p, "r_source")
        /\ UNCHANGED <<disk, backup, nextId, edits, tampers>>
    BY <1>9 DEF RollbackVerified, At, env
  <2>2. pc[p] \in SourceSteps /\ work[p].want \in Images /\ "VERIFIED" \in KNOWN_STATES
    BY <2>1, StateFacts DEF SourceSteps, Control, ControlTypes, Work, SettledStates
  <2>3. JournalOK'
    BY <2>1, <2>2, RollbackJournal
  <2>4. Control'
    BY <2>1, ContinueControl
    DEF Labels, LockedSteps, WriteSteps, RollbackSteps, OwnSteps, SourceSteps
  <2> QED BY <2>1, <2>3, <2>4 DEF Store, StoreTypes, JournalOK
<1>10. CASE FinalizeSource(p)
  <2>1. JournalOK' /\ UNCHANGED <<disk, backup, nextId, edits, tampers>>
    BY <1>0, <1>10, FinalizedJournal DEF FinalizeSource, env
  <2>2. CASE pc[p] = "w_finalize"
    <3>1. Continue(p, "w_reconcile")
      BY <1>10, <2>2 DEF FinalizeSource, At
    <3> QED BY <2>1, <2>2, <3>1, ContinueControl
            DEF Store, StoreTypes, JournalOK, Labels, LockedSteps, WriteSteps, RollbackSteps, OwnSteps, SourceSteps
  <2>3. CASE pc[p] = "r_finalize"
    <3>1. Continue(p, "r_settle")
      BY <1>10, <2>3 DEF FinalizeSource, At
    <3> QED BY <2>1, <2>3, <3>1, ContinueControl
            DEF Store, StoreTypes, JournalOK, Labels, LockedSteps, WriteSteps, RollbackSteps, OwnSteps, SourceSteps
  <2>4. CASE pc[p] = "r_source"
    <3>1. Return(p)
      BY <1>10, <2>4 DEF FinalizeSource, At
    <3> QED BY <2>1, <3>1, ReturnControl DEF Store, StoreTypes, JournalOK
  <2>5. CASE pc[p] = "s_finalize"
    <3>1. Goto(p, "s_scan") /\ lock' = Released(p) /\ UNCHANGED <<job, work>>
      BY <1>10, <2>5 DEF FinalizeSource, At
    <3> QED BY <2>1, <3>1, ReleaseControl DEF Store, StoreTypes, JournalOK
  <2> QED BY <1>10, <2>2, <2>3, <2>4, <2>5 DEF FinalizeSource
<1> QED BY <1>1, <1>2, <1>3, <1>4, <1>5, <1>6, <1>7, <1>8, <1>9, <1>10 DEF RollbackStep

\* The steps of recover() keep the types (store.py 294-391, 497-535).
LEMMA RecoverSound ==
    ASSUME Sound, NEW p \in Procs, RecoverStep(p)
    PROVE  Sound'
<1> USE DEF Sound
<1>0. JournalOK
  BY DEF Store, StoreTypes, JournalOK
<1>1. CASE ScanReceipt(p)
  <2>1. PICK r \in FilesInOrder(journal, work[p].todo) :
          /\ journal' = IF journal[r].state = "BAD_STATE"
                        THEN [journal EXCEPT ![r].state = "RECOVERY_REQUIRED"]
                        ELSE journal
          /\ work' = [work EXCEPT ![p].todo = @ \ {r}, ![p].rid = r]
          /\ IF NeedsDecision(journal, backup, r)
             THEN Goto(p, "s_lock") /\ job' = [job EXCEPT ![p].path = journal[r].path]
             ELSE UNCHANGED <<pc, job>>
    BY <1>1 DEF ScanReceipt
  <2>2. pc[p] = "s_scan" /\ UNCHANGED <<disk, backup, nextId, lock, edits, tampers>>
    BY <1>1 DEF ScanReceipt, At, env
  <2>3. r \in Ids
    BY FilesInOrderIn DEF Control, ControlTypes, Work
  <2>4. JournalOK'
    <3>1. CASE journal[r].state = "BAD_STATE"
      <4>1. SetState(r, "RECOVERY_REQUIRED") /\ "RECOVERY_REQUIRED" \in KNOWN_STATES
        BY <2>1, <3>1, StateFacts DEF SetState, SettledStates
      <4> QED BY <1>0, <2>3, <3>1, <4>1, SetStateJournal
    <3>2. CASE journal[r].state # "BAD_STATE"
      BY <1>0, <2>1, <3>2 DEF JournalOK, ReceiptsNamed
    <3> QED BY <3>1, <3>2
  <2>5. /\ work' \in [Procs -> Work] /\ \A q \in Procs \ {p} : work'[q] = work[q]
        /\ work'[p].rid = r
    BY <2>1, <2>3 DEF Work, Control, ControlTypes
  <2>6. Control'
    <3>1. CASE NeedsDecision(journal, backup, r)
      <4>1. Goto(p, "s_lock") /\ job' = [job EXCEPT ![p].path = journal[r].path]
        BY <2>1, <3>1
      <4>2. journal[r].path \in Paths
        BY <1>0, <2>3, <3>1 DEF NeedsDecision, INCOMPLETE_STATES, JournalOK, ReceiptsNamed
      <4>3. /\ job' \in [Procs -> Job] /\ \A q \in Procs \ {p} : job'[q] = job[q]
            /\ job'[p].path \in Paths
        BY <4>1, <4>2 DEF Job, Control, ControlTypes
      <4>4. "s_lock" \in Labels /\ "s_lock" \notin LockedSteps \cup SourceSteps
        BY DEF Labels, LockedSteps, SourceSteps, WriteSteps, RollbackSteps, RecoverSteps
      <4>5. MovesTo(p, "s_lock")
        BY <2>2, <2>3, <2>5, <4>1, <4>3, <4>4, LabelFacts
        DEF MovesTo, Control, ControlTypes, Goto
      <4> QED BY <4>4, <4>5, MoveControl
    <3>2. CASE ~NeedsDecision(journal, backup, r)
      <4>1. Goto(p, "s_scan") /\ UNCHANGED <<job, lock>>
        BY <2>1, <2>2, <3>2 DEF Goto, Control, ControlTypes
      <4> QED BY <4>1, <2>5, AssignControl
              DEF Labels, LockedSteps, WriteSteps, RollbackSteps, RecoverSteps, OwnSteps, SourceSteps
    <3> QED BY <3>1, <3>2
  <2> QED BY <2>2, <2>4, <2>6 DEF Store, StoreTypes, JournalOK
<1>2. CASE LockReceipt(p)
  <2>1. pc[p] = "s_lock" /\ UNCHANGED <<disk, journal, backup, nextId, job, work, edits, tampers>>
    BY <1>2 DEF LockReceipt, At, store, env
  <2>2. Path(p) \in Paths /\ work[p].rid \in Ids
    BY <2>1 DEF Control, LockDiscipline, LocalsNamed, OwnSteps
  <2>3. CASE lock[Path(p)] = Free
    <3>1. lock' = [lock EXCEPT ![Path(p)] = p] /\ Goto(p, "s_decide")
      BY <1>2, <2>3 DEF LockReceipt
    <3>2. "s_decide" \in Labels /\ "s_decide" \notin SourceSteps \cup WriteSteps \cup RollbackSteps
      BY DEF Labels, SourceSteps, WriteSteps, RollbackSteps, RecoverSteps
    <3>3. MovesTo(p, "s_decide")
      BY <2>1, <2>2, <2>3, <3>1, <3>2, FreeIsNoProcess
      DEF MovesTo, Control, ControlTypes, Goto, HoldsLock, Path
    <3> QED BY <2>1, <3>2, <3>3, MoveControl DEF Store, StoreTypes, ReceiptsNamed
  <2>4. CASE lock[Path(p)] # Free
    <3>1. Continue(p, "s_scan")
      BY <1>2, <2>1, <2>4 DEF LockReceipt, Continue
    <3> QED BY <2>1, <3>1, ContinueControl
            DEF Store, StoreTypes, ReceiptsNamed, Labels, LockedSteps, WriteSteps, RollbackSteps,
                RecoverSteps, OwnSteps, SourceSteps
  <2> QED BY <2>3, <2>4
<1>3. CASE DecideLocked(p)
  <2> DEFINE r == work[p].rid
             verdict == Decided(journal, backup, disk, r)
  <2>1. pc[p] = "s_decide" /\ SetState(r, verdict) /\ UNCHANGED <<disk, backup, nextId, edits, tampers>>
    BY <1>3 DEF DecideLocked, At, env
  <2>2. r \in Ids
    BY <2>1 DEF Control, LocalsNamed, OwnSteps
  <2>3. verdict = journal[r].state \/ (verdict \in SettledStates /\ journal[r].state # "NONE")
    BY ReconciledSettles DEF Decided, SettledStates, INCOMPLETE_STATES
  <2>4. JournalOK'
    <3>1. verdict \in KNOWN_STATES \cup CORRUPT_STATES \cup {"NONE"}
      BY <1>0, <2>2, <2>3, StateFacts DEF JournalOK, Receipt
    <3> HIDE DEF verdict, r
    <3> QED BY <1>0, <2>1, <2>2, <2>3, <3>1, SetStateJournal
  <2>5. Control'
    <3>1. CASE ThenFinalize(p, "s_finalize", r)
      BY <1>0, <2>1, <2>2, <3>1, ThenFinalizeControl DEF JournalOK
    <3>2. CASE Goto(p, "s_scan") /\ lock' = Released(p) /\ UNCHANGED <<job, work>>
      BY <3>2, ReleaseControl
    <3> QED BY <1>3, <3>1, <3>2 DEF DecideLocked
  <2> QED BY <2>1, <2>4, <2>5 DEF Store, StoreTypes, JournalOK
<1>4. CASE EndRecover(p)
  BY <1>4, ReturnControl DEF EndRecover, Store, StoreTypes, ReceiptsNamed, store, env
<1> QED BY <1>1, <1>2, <1>3, <1>4 DEF RecoverStep

\* The steps of prune() keep the types (store.py 1013-1043).
LEMMA PruneSound ==
    ASSUME Sound, NEW p \in Procs, PruneStep(p)
    PROVE  Sound'
<1> USE DEF Sound
<1>1. CASE PruneReceipt(p)
  <2>1. /\ pc[p] = "p_meta" /\ Continue(p, "p_backup") /\ UNCHANGED <<disk, backup, nextId, edits, tampers>>
        /\ journal' = [journal EXCEPT ![work[p].rid] = NoReceipt]
    BY <1>1 DEF PruneReceipt, At, env
  <2>2. NoReceipt.state = "NONE"
    BY DEF NoReceipt
  <2>3. JournalOK'
    BY <2>1, <2>2, NoReceiptType, PutJournal DEF Store, StoreTypes, JournalOK
  <2>4. Control'
    BY <2>1, ContinueControl
    DEF Labels, LockedSteps, WriteSteps, RollbackSteps, PruneSteps, OwnSteps, SourceSteps
  <2> QED BY <2>1, <2>3, <2>4 DEF Store, StoreTypes, JournalOK
<1>2. CASE PruneBackup(p)
  BY <1>2, ReturnControl DEF PruneBackup, Store, StoreTypes, ReceiptsNamed, env, Images
<1> QED BY <1>1, <1>2 DEF PruneStep

\* Starting an operation keeps the types.
LEMMA StartSound ==
    ASSUME Sound, NEW p \in Procs, Start(p)
    PROVE  Sound'
<1> USE DEF Sound
<1>1. CASE StartWrite(p)
  <2>1. PICK project \in Projects, path \in Paths, data \in Contents, exp \in Images :
          Acquire(p, "w_reconcile", project, path, data, exp)
    BY <1>1 DEF StartWrite
  <2>2. Control'
    BY <2>1, AcquireControl DEF Images
  <2> QED BY <2>1, <2>2 DEF Acquire, Store, StoreTypes, ReceiptsNamed
<1>2. CASE StartRollback(p)
  <2>1. PICK project \in Projects, path \in Paths, exp \in Contents :
          Acquire(p, "r_check", project, path, Absent, exp)
    BY <1>2 DEF StartRollback
  <2>2. Control'
    BY <2>1, AcquireControl DEF Images
  <2> QED BY <2>1, <2>2 DEF Acquire, Store, StoreTypes, ReceiptsNamed
<1>3. CASE StartRecover(p)
  <2>1. /\ Goto(p, "s_scan") /\ UNCHANGED <<disk, journal, backup, nextId, lock, job, edits, tampers>>
        /\ work' = [work EXCEPT ![p].todo = {r \in Ids : journal[r].state # "NONE"}]
    BY <1>3 DEF StartRecover, store, env
  <2>2. work' \in [Procs -> Work] /\ \A q \in Procs \ {p} : work'[q] = work[q]
    BY <2>1 DEF Work, Control, ControlTypes
  <2>3. Control'
    BY <2>1, <2>2, AssignControl
    DEF Labels, LockedSteps, WriteSteps, RollbackSteps, RecoverSteps, OwnSteps, SourceSteps
  <2> QED BY <2>1, <2>3 DEF Store, StoreTypes, ReceiptsNamed
<1>4. CASE PickPrunable(p)
  <2>1. Goto(p, "p_meta") /\ UNCHANGED <<disk, journal, backup, nextId, lock, job, edits, tampers>>
    BY <1>4 DEF PickPrunable, store, env
  <2>2. PICK r \in Ids : work' = [work EXCEPT ![p].rid = r]
    BY <1>4 DEF PickPrunable
  <2>3. /\ work' \in [Procs -> Work] /\ \A q \in Procs \ {p} : work'[q] = work[q]
        /\ work'[p].rid = r
    BY <2>2 DEF Work, Control, ControlTypes
  <2>4. Control'
    BY <2>1, <2>3, AssignControl
    DEF Labels, LockedSteps, WriteSteps, RollbackSteps, PruneSteps, OwnSteps, SourceSteps
  <2> QED BY <2>1, <2>4 DEF Store, StoreTypes, ReceiptsNamed
<1> QED BY <1>1, <1>2, <1>3, <1>4 DEF Start

\* So do failures and the environment.
LEMMA FailSound ==
    ASSUME Sound, NEW p \in Procs, Fail(p)
    PROVE  Sound'
BY ReturnControl DEF Sound, Fail, Store, StoreTypes, ReceiptsNamed, store, env

\* Crashes, edits from outside and damaged backups keep the types.
LEMMA EnvironmentSound ==
    ASSUME Sound, Environment
    PROVE  Sound'
<1> USE DEF Sound
<1>1. ASSUME UNCHANGED <<lock, pc, job, work>>
      PROVE  Control'
  BY <1>1 DEF Control, ControlTypes, LockDiscipline, LocalsNamed, HoldsLock, Path, Project
<1>2. CASE Edit
  BY <1>1, <1>2, EnvironmentBounds DEF Edit, Store, StoreTypes, ReceiptsNamed, store, procVars
<1>3. CASE TamperReceipt
  <2>1. PICK r \in Ids, damage \in CORRUPT_STATES : journal[r].state \in KNOWN_STATES /\ SetState(r, damage)
    BY <1>3 DEF TamperReceipt
  <2>2. JournalOK'
    BY <2>1, StateFacts, SetStateJournal DEF Store, StoreTypes, JournalOK
  <2> QED BY <1>1, <1>3, <2>2, EnvironmentBounds DEF TamperReceipt, Store, StoreTypes, JournalOK, procVars
<1>4. CASE TamperBackup
  BY <1>1, <1>4, EnvironmentBounds DEF TamperBackup, Store, StoreTypes, ReceiptsNamed, procVars
<1> QED BY <1>2, <1>3, <1>4 DEF Environment

\* The invariant holds initially and is kept by every step.
LEMMA SoundInit == Init => Sound
<1> SUFFICES ASSUME Init PROVE Sound
  OBVIOUS
<1>1. NoJob \in Job /\ NoWork \in Work
  BY AbsentIsNoValue DEF NoJob, Job, NoWork, Work, Images, NoId
<1>2. Control
  BY <1>1, LabelFacts DEF Init, Control, ControlTypes, LockDiscipline, LocalsNamed
<1>3. Store
  BY NoReceiptType, ReceiptBound, EnvironmentBounds
  DEF Init, Store, StoreTypes, ReceiptsNamed, NoReceipt, Images
<1> QED BY <1>2, <1>3 DEF Sound

\* Sound is inductive: every step of every process, and of the environment, keeps it.
LEMMA SoundNext == Sound /\ [Next]_vars => Sound'
<1> SUFFICES ASSUME Sound, [Next]_vars PROVE Sound'
  OBVIOUS
<1>1. ASSUME NEW p \in Procs, Step(p) PROVE Sound'
  BY <1>1, WriteSound, RollbackSound, RecoverSound, PruneSound DEF Step
<1>2. ASSUME NEW p \in Procs, Start(p) \/ Fail(p) PROVE Sound'
  BY <1>2, StartSound, FailSound
<1>3. CASE UNCHANGED vars
  BY <1>3 DEF vars, Sound, Control, ControlTypes, LockDiscipline, LocalsNamed, HoldsLock, Path, Project,
              Store, StoreTypes, ReceiptsNamed
<1> QED BY <1>1, <1>2, <1>3, EnvironmentSound DEF Next

\* Hence it holds in every reachable state.
LEMMA AlwaysSound == Spec => []Sound
BY SoundInit, SoundNext, PTL DEF Spec

(***************************************************************************)
(* Type correctness of the executor and its journal, for every number of     *)
(* processes, targets and receipts.                                          *)
(***************************************************************************)
THEOREM TypeCorrect == Spec => []TypeOK
<1>1. Sound => TypeOK
  BY DEF Sound, Control, ControlTypes, Store, StoreTypes, TypeOK
<1> QED BY <1>1, AlwaysSound, PTL

----------------------------------------------------------------------------
\* What a step leaves alone.

\* The steps that change a target.
TouchSteps == {"w_replace", "r_restore", "r_copy"}

(***************************************************************************)
(* What a step of p leaves alone: the local state of the others, the         *)
(* environment's counters, and every target but the one p has locked.        *)
(***************************************************************************)
Frame(p) ==
    /\ \A q \in Procs \ {p} : pc'[q] = pc[q] /\ job'[q] = job[q] /\ work'[q] = work[q]
    /\ edits' = edits /\ tampers' = tampers
    /\ \A x \in Paths : disk'[x] # disk[x] => pc[p] \in TouchSteps /\ x = Path(p)

\* A step of p that only assigns to the entries of p is local to p.
LEMMA ReturnFrame ==
    ASSUME Sound, NEW p \in Procs, Return(p)
    PROVE  \A q \in Procs \ {p} : pc'[q] = pc[q] /\ job'[q] = job[q] /\ work'[q] = work[q]
BY DEF Sound, Control, ControlTypes, Return, Goto

\* The next target of a recovery pass is a step of its own process only.
LEMMA ContinueFrame ==
    ASSUME Sound, NEW p \in Procs, NEW label, Continue(p, label)
    PROVE  \A q \in Procs \ {p} : pc'[q] = pc[q] /\ job'[q] = job[q] /\ work'[q] = work[q]
BY DEF Sound, Control, ControlTypes, Continue, Goto

\* So is the release that follows a finalized rollback.
LEMMA FinalizeFrame ==
    ASSUME Sound, NEW p \in Procs, NEW label, NEW r, ThenFinalize(p, label, r)
    PROVE  \A q \in Procs \ {p} : pc'[q] = pc[q] /\ job'[q] = job[q] /\ work'[q] = work[q]
BY DEF Sound, Control, ControlTypes, ThenFinalize, Goto

\* Every step of fs_write changes only its own locals, and other locks stay as they are.
LEMMA WriteFrame ==
    ASSUME Sound, NEW p \in Procs, WriteStep(p)
    PROVE  Frame(p)
<1> USE DEF Frame, env
<1>1. CASE ReconcilePending(p)
  <2>1. disk' = disk /\ edits' = edits /\ tampers' = tampers
    BY <1>1 DEF ReconcilePending
  <2>2. \/ \E r : ThenFinalize(p, "w_finalize", r)
        \/ Continue(p, "w_reconcile")
    BY <1>1 DEF ReconcilePending
  <2> QED BY <2>1, <2>2, FinalizeFrame, ContinueFrame
<1>2. CASE CheckWrite(p)
  BY <1>2, ReturnFrame DEF CheckWrite, Goto, Sound, Control, ControlTypes
<1>3. CASE SaveBackup(p)
  BY <1>3, ReturnFrame DEF SaveBackup, Goto, Sound, Control, ControlTypes
<1>4. CASE JournalPrepared(p)
  BY <1>4, ContinueFrame DEF JournalPrepared
<1>5. CASE ReplaceTarget(p)
  BY <1>5, ContinueFrame DEF ReplaceTarget, At, TouchSteps, Sound, Store, StoreTypes
<1>6. CASE NoteReplaced(p)
  BY <1>6, ReturnFrame DEF NoteReplaced, Goto, Sound, Control, ControlTypes
<1>7. CASE RecordPostimage(p)
  BY <1>7, ReturnFrame DEF RecordPostimage
<1> QED BY <1>1, <1>2, <1>3, <1>4, <1>5, <1>6, <1>7 DEF WriteStep

\* The same of fs_rollback.
LEMMA RollbackFrame ==
    ASSUME Sound, NEW p \in Procs, RollbackStep(p)
    PROVE  Frame(p)
<1> USE DEF Frame, env
<1>1. CASE CheckRollback(p)
  BY <1>1, ReturnFrame DEF CheckRollback, Goto, Sound, Control, ControlTypes
<1>2. CASE PeekTarget(p)
  BY <1>2 DEF PeekTarget, Goto, Sound, Control, ControlTypes
<1>3. CASE SettlePending(p)
  <2>1. disk' = disk /\ edits' = edits /\ tampers' = tampers
    BY <1>3 DEF SettlePending
  <2>2. \/ Return(p)
        \/ \E r : ThenFinalize(p, "r_finalize", r)
        \/ \E r : Goto(p, "r_supersede") /\ work' = [work EXCEPT ![p].rid = r] /\ UNCHANGED <<job, lock>>
        \/ Continue(p, "r_settle")
    BY <1>3, Zenon DEF SettlePending
  <2> QED BY <2>1, <2>2, ReturnFrame, FinalizeFrame, ContinueFrame DEF Goto, Sound, Control, ControlTypes
<1>4. CASE MarkSuperseded(p)
  BY <1>4, ReturnFrame, ContinueFrame DEF MarkSuperseded
<1>5. CASE SelectAndJournal(p)
  BY <1>5, ReturnFrame DEF SelectAndJournal, Goto, Sound, Control, ControlTypes
<1>6. CASE RestoreTarget(p)
  <2>1. edits' = edits /\ tampers' = tampers /\ pc[p] = "r_restore"
    BY <1>6 DEF RestoreTarget, At
  <2>2. \/ disk' = [disk EXCEPT ![Path(p)] = Absent] /\ Continue(p, "r_applied")
        \/ Continue(p, "r_copy") /\ disk' = disk
        \/ Return(p) /\ disk' = disk
    BY <1>6, Zenon DEF RestoreTarget
  <2> QED BY <2>1, <2>2, ReturnFrame, ContinueFrame DEF TouchSteps, Sound, Store, StoreTypes
<1>7. CASE CopyBackup(p)
  BY <1>7, ReturnFrame, ContinueFrame DEF CopyBackup, At, TouchSteps, Sound, Store, StoreTypes
<1>8. CASE RollbackApplied(p)
  <2>1. disk' = disk /\ edits' = edits /\ tampers' = tampers
    BY <1>8 DEF RollbackApplied
  <2>2. Continue(p, "r_terminal") \/ Return(p)
    <3>1. disk[Path(p)] \in Images
      BY <1>8 DEF RollbackApplied, At, Sound, Control, LockDiscipline, HoldsLock, LockedSteps, RollbackSteps,
                  Store, StoreTypes
    <3> QED BY <1>8, <3>1, Zenon DEF RollbackApplied, Images
  <2> QED BY <2>1, <2>2, ReturnFrame, ContinueFrame
<1>9. CASE RollbackVerified(p)
  BY <1>9, ContinueFrame DEF RollbackVerified
<1>10. CASE FinalizeSource(p)
  <2>1. disk' = disk /\ edits' = edits /\ tampers' = tampers
    BY <1>10 DEF FinalizeSource
  <2>2. \/ Continue(p, "w_reconcile") \/ Continue(p, "r_settle") \/ Return(p)
        \/ Goto(p, "s_scan") /\ UNCHANGED <<job, work>>
    BY <1>10, Zenon DEF FinalizeSource, At
  <2> QED BY <2>1, <2>2, ReturnFrame, ContinueFrame DEF Goto, Sound, Control, ControlTypes
<1> QED BY <1>1, <1>2, <1>3, <1>4, <1>5, <1>6, <1>7, <1>8, <1>9, <1>10 DEF RollbackStep

\* The same of recover(), prune() and of the calls' starts and failures.
LEMMA OtherFrame ==
    ASSUME Sound, NEW p \in Procs, Start(p) \/ RecoverStep(p) \/ PruneStep(p) \/ Fail(p)
    PROVE  Frame(p)
<1> USE DEF Frame, env, store
<1>1. CASE Start(p)
  BY <1>1 DEF Start, StartWrite, StartRollback, StartRecover, PickPrunable, Acquire, Goto,
              Sound, Control, ControlTypes
<1>2. CASE ScanReceipt(p)
  BY <1>2 DEF ScanReceipt, Goto, Sound, Control, ControlTypes
<1>3. CASE LockReceipt(p)
  BY <1>3 DEF LockReceipt, Goto, Sound, Control, ControlTypes
<1>4. CASE DecideLocked(p)
  BY <1>4, FinalizeFrame DEF DecideLocked, Goto, Sound, Control, ControlTypes
<1>5. CASE EndRecover(p)
  BY <1>5, ReturnFrame DEF EndRecover
<1>6. CASE PruneStep(p)
  BY <1>6, ReturnFrame, ContinueFrame DEF PruneStep, PruneReceipt, PruneBackup
<1>7. CASE Fail(p)
  BY <1>7, ReturnFrame DEF Fail
<1> QED BY <1>1, <1>2, <1>3, <1>4, <1>5, <1>6, <1>7 DEF RecoverStep

\* The same of any step of a process.
LEMMA StepFrame ==
    ASSUME Sound, NEW p \in Procs, Start(p) \/ Step(p) \/ Fail(p)
    PROVE  Frame(p)
BY WriteFrame, RollbackFrame, OtherFrame DEF Step

----------------------------------------------------------------------------
\* The compare-and-swap.

CasSteps == {"w_save", "w_prepare", "w_replace", "r_peek", "r_settle",
             "r_finalize", "r_supersede", "r_restore", "r_copy"}

\* The target is the image p has read, which is the one its caller expects.
Matches(p) == disk[Path(p)] = work[p].pre /\ work[p].pre = job[p].exp

\* Two processes never hold the lock of one path.
LEMMA HoldersDiffer ==
    ASSUME Sound, NEW p \in Procs, NEW q \in Procs, p # q,
           pc[p] \in LockedSteps, pc[q] \in LockedSteps
    PROVE  Path(p) # Path(q)
BY DEF Sound, Control, LockDiscipline, HoldsLock

\* Where a step of p can lead, and from where, in the guarded region.
LEMMA OwnCas ==
    ASSUME Sound, NEW p \in Procs, Start(p) \/ Step(p) \/ Fail(p),
           pc[p] \in CasSteps => Matches(p), pc'[p] \in CasSteps
    PROVE  Matches(p)'
<1> USE DEF Matches, Path
<1>1. work \in [Procs -> Work] /\ pc \in [Procs -> Labels]
  BY DEF Sound, Control, ControlTypes
<1>2. ASSUME NEW label, Goto(p, label), label \notin CasSteps PROVE FALSE
  BY <1>1, <1>2 DEF Goto
<1>3. ASSUME Return(p) PROVE FALSE
  BY <1>2, <1>3 DEF Return, CasSteps
<1>4. CASE Fail(p)
  BY <1>3, <1>4 DEF Fail
<1>5. CASE Start(p)
  BY <1>2, <1>5 DEF Start, StartWrite, StartRollback, StartRecover, PickPrunable, Acquire, CasSteps
<1>6. CASE PruneStep(p)
  BY <1>2, <1>3, <1>6 DEF PruneStep, PruneReceipt, PruneBackup, Continue, CasSteps
<1>7. CASE RecoverStep(p)
  BY <1>1, <1>2, <1>3, <1>7
  DEF RecoverStep, ScanReceipt, LockReceipt, DecideLocked, EndRecover, ThenFinalize, At, CasSteps
<1>8. CASE WriteStep(p)
  <2>1. CASE ReconcilePending(p)
    BY <1>2, <2>1 DEF ReconcilePending, ThenFinalize, Continue, CasSteps
  <2>2. CASE CheckWrite(p)
    BY <1>1, <1>3, <2>2 DEF CheckWrite, WriteAllowed, Work
  <2>3. CASE SaveBackup(p)
    BY <1>1, <1>3, <2>3 DEF SaveBackup, At, CasSteps, Work
  <2>4. CASE JournalPrepared(p)
    BY <2>4 DEF JournalPrepared, Continue, At, CasSteps
  <2>5. CASE ReplaceTarget(p)
    BY <1>2, <2>5 DEF ReplaceTarget, Continue, CasSteps
  <2>6. CASE NoteReplaced(p)
    BY <1>2, <1>3, <2>6 DEF NoteReplaced, CasSteps
  <2>7. CASE RecordPostimage(p)
    BY <1>3, <2>7 DEF RecordPostimage
  <2> QED BY <1>8, <2>1, <2>2, <2>3, <2>4, <2>5, <2>6, <2>7 DEF WriteStep
<1>9. CASE RollbackStep(p)
  <2>1. CASE CheckRollback(p)
    BY <1>1, <1>3, <2>1 DEF CheckRollback, Work
  <2>2. CASE PeekTarget(p)
    BY <1>1, <2>2 DEF PeekTarget, At, CasSteps, Work
  <2>3. CASE SettlePending(p)
    <3>1. pc[p] = "r_settle" /\ disk' = disk
      BY <2>3 DEF SettlePending, At
    <3>2. \/ \E r : ThenFinalize(p, "r_finalize", r)
          \/ \E r : work' = [work EXCEPT ![p].rid = r] /\ UNCHANGED <<job, lock>>
          \/ Continue(p, "r_settle")
      BY <1>3, <2>3, Zenon DEF SettlePending
    <3>3. work'[p].pre = work[p].pre /\ job' = job
      BY <1>1, <3>2 DEF ThenFinalize, Continue, Work
    <3> QED BY <3>1, <3>3 DEF CasSteps
  <2>4. CASE MarkSuperseded(p)
    BY <1>3, <2>4 DEF MarkSuperseded, Continue, At, CasSteps
  <2>5. CASE SelectAndJournal(p)
    <3>1. PICK source : work' = [work EXCEPT ![p].rid = nextId, ![p].source = source,
                                             ![p].want = journal[source].pre]
      BY <1>3, <2>5 DEF SelectAndJournal
    <3>2. work'[p].pre = work[p].pre
      BY <1>1, <3>1 DEF Work
    <3>3. pc[p] = "r_settle" /\ UNCHANGED <<disk, job>>
      BY <1>3, <2>5 DEF SelectAndJournal, At
    <3> QED BY <3>2, <3>3 DEF CasSteps
  <2>6. CASE RestoreTarget(p)
    <3>1. /\ pc[p] = "r_restore"
          /\ \/ Continue(p, "r_applied")
             \/ Continue(p, "r_copy") /\ disk' = disk
      BY <1>3, <2>6, Zenon DEF RestoreTarget, At
    <3> QED BY <1>2, <3>1 DEF Continue, CasSteps
  <2>7. CASE CopyBackup(p)
    BY <1>2, <1>3, <2>7 DEF CopyBackup, Continue, CasSteps
  <2>8. CASE RollbackApplied(p)
    <3>1. disk[Path(p)] \in Images
      BY <2>8 DEF RollbackApplied, At, Sound, Control, LockDiscipline, HoldsLock, LockedSteps, RollbackSteps,
                  Store, StoreTypes
    <3>2. Continue(p, "r_terminal")
      BY <1>3, <2>8, <3>1, Zenon DEF RollbackApplied, Images
    <3> QED BY <1>2, <3>2 DEF Continue, CasSteps
  <2>9. CASE RollbackVerified(p)
    BY <1>2, <2>9 DEF RollbackVerified, Continue, CasSteps
  <2>10. CASE FinalizeSource(p)
    <3>1. disk' = disk
      BY <2>10 DEF FinalizeSource
    <3>2. pc[p] = "r_finalize" /\ Continue(p, "r_settle")
      <4>1. \/ Continue(p, "w_reconcile")
            \/ At(p, "r_finalize") /\ Continue(p, "r_settle")
            \/ Return(p)
            \/ Goto(p, "s_scan")
        BY <2>10, Zenon DEF FinalizeSource, At
      <4> QED BY <4>1, <1>2, <1>3 DEF Continue, CasSteps, At
    <3> QED BY <3>1, <3>2 DEF Continue, CasSteps
  <2> QED BY <1>9, <2>1, <2>2, <2>3, <2>4, <2>5, <2>6, <2>7, <2>8, <2>9, <2>10 DEF RollbackStep
<1> QED BY <1>4, <1>5, <1>6, <1>7, <1>8, <1>9 DEF Step

\* The comparison a writer made stays true in every step, its own and others'.
LEMMA CasNext ==
    ASSUME Sound, NoLostUpdate, [Next]_vars
    PROVE  NoLostUpdate'
<1> USE DEF Matches
<1>1. ASSUME NEW p \in Procs, Start(p) \/ Step(p) \/ Fail(p)
      PROVE  NoLostUpdate'
  <2> SUFFICES ASSUME edits' = 0, NEW q \in Procs, pc'[q] \in CasSteps
               PROVE  Matches(q)'
    BY DEF NoLostUpdate, CasSteps
  <2>1. Frame(p)
    BY <1>1, StepFrame
  <2>2. \A x \in Procs : pc[x] \in CasSteps => Matches(x)
    BY <2>1 DEF NoLostUpdate, CasSteps, Frame
  <2>3. CASE q = p
    BY <1>1, <2>2, <2>3, OwnCas
  <2>4. CASE q # p
    <3>1. pc[q] \in CasSteps /\ Matches(q) /\ Path(q)' = Path(q)
      BY <2>1, <2>2, <2>4 DEF Frame, Path
    <3>2. pc[q] \in LockedSteps /\ Path(q) \in Paths
      BY <3>1 DEF CasSteps, LockedSteps, WriteSteps, RollbackSteps, Sound, Control, LockDiscipline, HoldsLock
    <3>3. pc[p] \in TouchSteps => Path(p) # Path(q)
      BY <2>4, <3>2, HoldersDiffer DEF TouchSteps, LockedSteps, WriteSteps, RollbackSteps
    <3>4. disk'[Path(q)] = disk[Path(q)]
      BY <2>1, <3>2, <3>3 DEF Frame
    <3> QED BY <2>1, <2>4, <3>1, <3>4 DEF Frame
  <2> QED BY <2>3, <2>4
<1>2. CASE Edit
  BY <1>2 DEF Edit, NoLostUpdate, Sound, Store, StoreTypes
<1>3. CASE TamperReceipt \/ TamperBackup
  BY <1>3 DEF TamperReceipt, TamperBackup, procVars, NoLostUpdate, Path
<1>4. CASE UNCHANGED vars
  BY <1>4 DEF vars, NoLostUpdate, Path
<1> QED BY <1>1, <1>2, <1>3, <1>4 DEF Next, Environment

(***************************************************************************)
(* Compare-and-swap (executor.py 582-627, store.py 894-970): as long as no   *)
(* program outside the lock protocol writes a target, the target a write or  *)
(* a rollback changes is still the image its caller expected, for any number *)
(* of writers, rollbacks, recoveries and prunings, and any crashes.          *)
(***************************************************************************)
THEOREM CompareAndSwap == Spec => []NoLostUpdate
<1>1. Init => NoLostUpdate
  BY DEF Init, NoLostUpdate
<1>2. Sound /\ NoLostUpdate /\ [Next]_vars => NoLostUpdate'
  BY CasNext
<1> QED BY <1>1, <1>2, AlwaysSound, PTL DEF Spec

----------------------------------------------------------------------------
\* Exact restoration.

RestoredSteps == {"r_copy", "r_applied", "r_terminal", "r_source"}

\* A rollback copies a backup only to restore a file, and what it has found to
\* be restored is still there.
RestoredExactly(p) ==
    /\ pc[p] = "r_copy" => work[p].want # Absent
    /\ edits = 0 =>
          /\ pc[p] = "r_applied" /\ work[p].want = Absent => disk[Path(p)] = Absent
          /\ pc[p] \in {"r_terminal", "r_source"} => disk[Path(p)] = work[p].want

\* What a rollback has restored is still there after its own next step.
LEMMA RestoreOwn ==
    ASSUME Sound, NEW p \in Procs, Start(p) \/ Step(p) \/ Fail(p), RestoredExactly(p)
    PROVE  RestoredExactly(p)'
<1>0. /\ disk \in [Paths -> Images] /\ pc \in [Procs -> Labels] /\ work \in [Procs -> Work]
      /\ edits' = edits
  BY StepFrame DEF Frame, Sound, Store, StoreTypes, Control, ControlTypes
<1>g. ASSUME NEW label, label \notin RestoredSteps, Goto(p, label)
      PROVE  RestoredExactly(p)'
  BY <1>0, <1>g DEF Goto, RestoredExactly, RestoredSteps
<1>r. ASSUME Return(p) PROVE RestoredExactly(p)'
  BY <1>g, <1>r DEF Return, RestoredSteps
<1>1. CASE WriteStep(p)
  BY <1>1, <1>g, <1>r
  DEF WriteStep, ReconcilePending, CheckWrite, SaveBackup, JournalPrepared, ReplaceTarget, NoteReplaced,
      RecordPostimage, ThenFinalize, Continue, RestoredSteps
<1>2. CASE CheckRollback(p) \/ PeekTarget(p) \/ MarkSuperseded(p) \/ SelectAndJournal(p)
  BY <1>2, <1>g, <1>r DEF CheckRollback, PeekTarget, MarkSuperseded, SelectAndJournal, Continue, RestoredSteps
<1>3. CASE SettlePending(p)
  <2>1. Return(p) \/ Goto(p, "r_finalize") \/ Goto(p, "r_supersede") \/ Goto(p, "r_settle")
    BY <1>3, Zenon DEF SettlePending, ThenFinalize, Continue
  <2> QED BY <2>1, <1>g, <1>r DEF RestoredSteps
<1>4. CASE RestoreTarget(p)
  <2>1. pc[p] = "r_restore" /\ Path(p) \in Paths
    BY <1>4 DEF RestoreTarget, At, Sound, Control, LockDiscipline, HoldsLock, LockedSteps, RollbackSteps
  <2>2. \/ Return(p)
        \/ /\ work[p].want = Absent /\ disk' = [disk EXCEPT ![Path(p)] = Absent]
           /\ Continue(p, "r_applied")
        \/ work[p].want # Absent /\ Continue(p, "r_copy")
    BY <1>4, Zenon DEF RestoreTarget
  <2> QED BY <1>0, <1>r, <2>1, <2>2 DEF Continue, Goto, RestoredExactly, Path
<1>5. CASE CopyBackup(p)
  <2>1. work[p].want # Absent /\ (Return(p) \/ Continue(p, "r_applied"))
    BY <1>5 DEF CopyBackup, At, RestoredExactly
  <2> QED BY <1>0, <1>r, <2>1 DEF Continue, Goto, RestoredExactly
<1>6. CASE RollbackApplied(p)
  <2>1. pc[p] = "r_applied" /\ disk' = disk /\ disk[Path(p)] \in Images
    BY <1>6 DEF RollbackApplied, At, Sound, Control, LockDiscipline, HoldsLock, LockedSteps, RollbackSteps,
                Store, StoreTypes
  <2>2. \/ Return(p)
        \/ (work[p].want = Absent \/ disk[Path(p)] = work[p].want) /\ Continue(p, "r_terminal")
    BY <1>6, <2>1, Zenon DEF RollbackApplied, Images
  <2> QED BY <1>0, <1>r, <2>1, <2>2 DEF Continue, Goto, RestoredExactly, Path
<1>7. CASE RollbackVerified(p)
  BY <1>0, <1>7 DEF RollbackVerified, At, Continue, Goto, RestoredExactly, Path
<1>8. CASE FinalizeSource(p)
  <2>1. Goto(p, "w_reconcile") \/ Goto(p, "r_settle") \/ Return(p) \/ Goto(p, "s_scan")
    BY <1>8, Zenon DEF FinalizeSource, At, Continue
  <2> QED BY <2>1, <1>g, <1>r DEF RestoredSteps
<1>9. CASE RecoverStep(p)
  <2>1. CASE ScanReceipt(p)
    BY <1>0, <1>g, <2>1 DEF ScanReceipt, At, RestoredSteps, RestoredExactly
  <2> QED BY <2>1, <1>9, <1>g, <1>r
          DEF RecoverStep, LockReceipt, DecideLocked, EndRecover, ThenFinalize, RestoredSteps
<1>10. CASE PruneStep(p)
  BY <1>10, <1>g, <1>r DEF PruneStep, PruneReceipt, PruneBackup, Continue, RestoredSteps
<1>11. CASE Start(p)
  BY <1>11, <1>g DEF Start, StartWrite, StartRollback, StartRecover, PickPrunable, Acquire, RestoredSteps
<1>12. CASE Fail(p)
  BY <1>12, <1>r DEF Fail
<1> QED BY <1>1, <1>2, <1>3, <1>4, <1>5, <1>6, <1>7, <1>8, <1>9, <1>10, <1>11, <1>12 DEF Step, RollbackStep

\* Nobody else touches it: the target is locked.
LEMMA RestoreNext ==
    ASSUME Sound, \A p \in Procs : RestoredExactly(p), [Next]_vars
    PROVE  \A p \in Procs : RestoredExactly(p)'
<1>1. ASSUME NEW p \in Procs, Start(p) \/ Step(p) \/ Fail(p), NEW q \in Procs
      PROVE  RestoredExactly(q)'
  <2>1. Frame(p)
    BY <1>1, StepFrame
  <2>2. CASE q # p /\ pc[q] \in RestoredSteps
    <3>1. pc[q] \in LockedSteps /\ Path(q) \in Paths
      BY <2>2 DEF RestoredSteps, LockedSteps, RollbackSteps, Sound, Control, LockDiscipline, HoldsLock
    <3>2. pc[p] \in TouchSteps => Path(p) # Path(q)
      BY <2>2, <3>1, HoldersDiffer DEF TouchSteps, LockedSteps, WriteSteps, RollbackSteps
    <3>3. disk'[Path(q)] = disk[Path(q)]
      BY <2>1, <3>1, <3>2 DEF Frame
    <3> QED BY <2>1, <2>2, <3>3 DEF Frame, RestoredExactly, Path
  <2>3. CASE q # p /\ pc[q] \notin RestoredSteps
    BY <2>1, <2>3 DEF Frame, RestoredExactly, RestoredSteps
  <2> QED BY <1>1, <2>2, <2>3, RestoreOwn
<1>2. CASE Edit
  BY <1>2 DEF Edit, procVars, RestoredExactly, Sound, Store, StoreTypes
<1>3. CASE TamperReceipt \/ TamperBackup \/ UNCHANGED vars
  BY <1>3 DEF TamperReceipt, TamperBackup, vars, procVars, RestoredExactly, Path
<1> QED BY <1>1, <1>2, <1>3 DEF Next, Environment

(***************************************************************************)
(* Exact restoration (store.py 963-995): a rollback that goes on to report   *)
(* success has left the preimage of the write it undid, even when the backup *)
(* is damaged between its check and the copy.                                *)
(***************************************************************************)
THEOREM ExactRestore == Spec => []RollbackExact
<1> DEFINE I == \A p \in Procs : RestoredExactly(p)
<1>1. Init => I
  BY DEF Init, RestoredExactly
<1>2. Sound /\ I /\ [Next]_vars => I'
  BY RestoreNext
<1>3. I => RollbackExact
  BY DEF RestoredExactly, RollbackExact
<1> QED BY <1>1, <1>2, <1>3, AlwaysSound, PTL DEF Spec

----------------------------------------------------------------------------
\* One open transaction per target.

FreshSteps == {"w_save", "w_prepare"}
BusySteps  == {"w_replace", "w_note", "w_record", "r_restore", "r_copy", "r_applied", "r_terminal"}

IsOpen(r) == journal[r].state \in INCOMPLETE_STATES

\* No two open receipts name one project and path.
UniqueOpen ==
    \A i, j \in Ids :
        /\ IsOpen(i) /\ IsOpen(j)
        /\ journal[i].project = journal[j].project /\ journal[i].path = journal[j].path
        => i = j

(***************************************************************************)
(* The strengthening: a writer that has reconciled its target finds nothing  *)
(* open until it journals its own intent, and a process in the middle of its *)
(* transaction finds nothing open but its own receipt.                       *)
(***************************************************************************)
OnlyOwnOpen ==
    \A p \in Procs :
        /\ pc[p] \in FreshSteps => PendingOf(p) = {}
        /\ pc[p] \in BusySteps => PendingOf(p) \subseteq {work[p].rid}

OpenInv == UniqueOpen /\ OnlyOwnOpen

\* A step opens no receipt.
Kept == \A i \in Ids : IsOpen(i)' => /\ IsOpen(i)
                                     /\ journal'[i].project = journal[i].project
                                     /\ journal'[i].path = journal[i].path

\* A step of p opens its own receipt only, where nothing else is open.
OpensOwn(p) ==
    \E r \in Ids :
        /\ r = work'[p].rid /\ PendingOf(p) \subseteq {r}
        /\ pc[p] \in LockedSteps /\ pc'[p] \in BusySteps
        /\ journal'[r].project = Project(p) /\ journal'[r].path = Path(p)
        /\ \A i \in Ids \ {r} : journal'[i] = journal[i]

\* How p comes to the steps that the strengthening is about.
Arrives(p) ==
    pc'[p] \in FreshSteps \cup BusySteps =>
        /\ job'[p] = job[p]
        /\ \/ PendingOf(p) = {}
           \/ pc[p] \in BusySteps /\ pc'[p] \in BusySteps /\ work'[p].rid = work[p].rid
        /\ pc'[p] \in FreshSteps => journal' = journal

\* Settling a receipt opens none.
LEMMA SettleKeeps ==
    ASSUME Sound, NEW r \in Ids, NEW s \in KNOWN_STATES \cup CORRUPT_STATES \cup {"NONE"},
           s \in INCOMPLETE_STATES => s = journal[r].state, SetState(r, s)
    PROVE  Kept
<1>1. journal \in [Ids -> Receipt]
  BY DEF Sound, Store, StoreTypes
<1> QED BY <1>1, SetStateEffect DEF Kept, IsOpen

\* Finalizing a rollback settles receipts and opens none.
LEMMA FinalizeKeeps ==
    ASSUME Sound, NEW source, journal' = SourceFinalized(journal, source)
    PROVE  Kept
<1>1. CASE source \in Ids /\ journal[source].state \in KNOWN_STATES
  <2>1. SetState(source, "ROLLED_BACK")
    BY <1>1 DEF SourceFinalized, SetState
  <2>2. "ROLLED_BACK" \in KNOWN_STATES /\ "ROLLED_BACK" \notin INCOMPLETE_STATES
    BY DEF KNOWN_STATES, TERMINAL_STATES, INCOMPLETE_STATES
  <2> QED BY <1>1, <2>1, <2>2, SettleKeeps
<1>2. CASE ~(source \in Ids /\ journal[source].state \in KNOWN_STATES)
  BY <1>2 DEF SourceFinalized, Kept, IsOpen
<1> QED BY <1>1, <1>2

\* A write of the rollback receipt touches that receipt only.
LEMMA RollbackPut ==
    ASSUME Sound, NEW p \in Procs, pc[p] \in SourceSteps,
           NEW state, NEW restored, WriteRollback(p, state, restored)
    PROVE  /\ work[p].rid \in Ids /\ pc[p] \in LockedSteps
           /\ journal'[work[p].rid].state = state
           /\ journal'[work[p].rid].project = Project(p) /\ journal'[work[p].rid].path = Path(p)
           /\ \A i \in Ids \ {work[p].rid} : journal'[i] = journal[i]
<1>1. work[p].rid \in Ids /\ pc[p] \in LockedSteps /\ journal \in [Ids -> Receipt]
  BY DEF Sound, Control, LocalsNamed, SourceSteps, OwnSteps, LockedSteps, RollbackSteps, Store, StoreTypes
<1> QED BY <1>1 DEF WriteRollback, RollbackReceipt

\* A step of fs_write opens at most the receipt the process holds its lock for.
LEMMA WriteOpens ==
    ASSUME Sound, OnlyOwnOpen, NEW p \in Procs, WriteStep(p)
    PROVE  (Kept \/ OpensOwn(p)) /\ Arrives(p)
<1>0. /\ journal \in [Ids -> Receipt] /\ work \in [Procs -> Work] /\ pc \in [Procs -> Labels]
      /\ job \in [Procs -> Job]
  BY DEF Sound, Store, StoreTypes, Control, ControlTypes
<1>r. ASSUME Return(p) PROVE Arrives(p)
  BY <1>0, <1>r DEF Return, Goto, Arrives, FreshSteps, BusySteps
<1>u. ASSUME journal' = journal PROVE Kept
  BY <1>u DEF Kept, IsOpen
<1>1. CASE ReconcilePending(p)
  <2>1. PICK r \in FilesInOrder(journal, PendingOf(p)) :
          /\ SetState(r, Reconciled(journal, backup, disk, r))
          /\ ThenFinalize(p, "w_finalize", r) \/ Continue(p, "w_reconcile")
    BY <1>1 DEF ReconcilePending
  <2>2. r \in Ids /\ journal[r].state \in INCOMPLETE_STATES
    BY FilesInOrderIn, PendingFacts
  <2>3. Kept
    BY <2>1, <2>2, ReconciledSettles, StateFacts, SettleKeeps
  <2>4. Arrives(p)
    BY <1>0, <2>1 DEF ThenFinalize, Continue, Goto, Arrives, FreshSteps, BusySteps
  <2> QED BY <2>3, <2>4
<1>2. CASE CheckWrite(p)
  <2>1. journal' = journal /\ PendingOf(p) = {}
    BY <1>2 DEF CheckWrite, store
  <2>2. Return(p) \/ (Goto(p, "w_save") /\ job' = job)
    BY <1>2 DEF CheckWrite
  <2> QED BY <2>1, <2>2, <1>0, <1>r, <1>u DEF Arrives, Goto
<1>3. CASE SaveBackup(p)
  <2>1. journal' = journal /\ PendingOf(p) = {}
    BY <1>3 DEF SaveBackup, At, OnlyOwnOpen, FreshSteps
  <2>2. Return(p) \/ (Goto(p, "w_prepare") /\ job' = job)
    BY <1>3 DEF SaveBackup
  <2> QED BY <2>1, <2>2, <1>0, <1>r, <1>u DEF Arrives, Goto
<1>4. CASE JournalPrepared(p)
  <2>1. pc[p] = "w_prepare" /\ PendingOf(p) = {} /\ work[p].rid \in Ids /\ pc[p] \in LockedSteps
    BY <1>4 DEF JournalPrepared, At, OnlyOwnOpen, FreshSteps, Sound, Control, LocalsNamed, OwnSteps,
                LockedSteps, WriteSteps
  <2>2. PICK prev : journal' = [journal EXCEPT ![work[p].rid] =
                                   WriteReceipt(Project(p), Path(p), work[p].pre, prev)]
    BY <1>4 DEF JournalPrepared
  <2>3. /\ journal'[work[p].rid].project = Project(p) /\ journal'[work[p].rid].path = Path(p)
        /\ \A i \in Ids \ {work[p].rid} : journal'[i] = journal[i]
    BY <1>0, <2>1, <2>2 DEF WriteReceipt
  <2>4. pc'[p] = "w_replace" /\ job' = job /\ work' = work
    BY <1>0, <1>4 DEF JournalPrepared, Continue, Goto
  <2>5. OpensOwn(p)
    BY <2>1, <2>3, <2>4 DEF OpensOwn, BusySteps
  <2>6. Arrives(p)
    BY <2>1, <2>4 DEF Arrives, FreshSteps
  <2> QED BY <2>5, <2>6
<1>5. CASE ReplaceTarget(p)
  BY <1>0, <1>5, <1>u DEF ReplaceTarget, At, Continue, Goto, store, Arrives, FreshSteps, BusySteps
<1>6. CASE NoteReplaced(p)
  <2> DEFINE rid == work[p].rid
             post_hash == disk[Path(p)]
  <2>1. pc[p] = "w_note" /\ rid \in Ids /\ post_hash \in Images
    BY <1>6 DEF NoteReplaced, At, Sound, Control, LocalsNamed, LockDiscipline, HoldsLock, OwnSteps,
                LockedSteps, WriteSteps, Store, StoreTypes
  <2>2. CASE post_hash # Absent /\ journal[rid].state = "PREPARED"
    <3>1. /\ journal' = [journal EXCEPT ![rid].state = "APPLIED", ![rid].post = post_hash]
          /\ work' = [work EXCEPT ![p].seen = post_hash]
          /\ Goto(p, "w_record") /\ job' = job
      BY <1>6, <2>2 DEF NoteReplaced
    <3>2. Kept
      <4> HIDE DEF post_hash
      <4> QED BY <1>0, <2>1, <2>2, <3>1, AppliedEffect DEF Kept, IsOpen, INCOMPLETE_STATES
    <3>3. pc'[p] = "w_record" /\ work'[p].rid = work[p].rid
      BY <1>0, <3>1, SeenEffect DEF Goto
    <3>4. Arrives(p)
      BY <2>1, <3>1, <3>3 DEF Arrives, FreshSteps, BusySteps
    <3> QED BY <3>2, <3>4
  <2>3. CASE ~(post_hash # Absent /\ journal[rid].state = "PREPARED")
    BY <1>6, <2>3, <1>r, <1>u DEF NoteReplaced
  <2> QED BY <2>2, <2>3
<1>7. CASE RecordPostimage(p)
  <2> DEFINE rid == work[p].rid
             verdict == IF disk[Path(p)] = work[p].seen THEN "VERIFIED" ELSE "RECOVERY_REQUIRED"
  <2>1. rid \in Ids /\ work[p].seen \in Images /\ verdict \in KNOWN_STATES
    BY <1>0, <1>7, StateFacts DEF RecordPostimage, At, Sound, Control, LocalsNamed, OwnSteps, Work, SettledStates
  <2>2. Kept
    <3>1. CASE journal[rid].state \in INCOMPLETE_STATES
      <4>1. journal' = [journal EXCEPT ![rid].state = verdict, ![rid].post = work[p].seen]
        BY <1>7, <3>1 DEF RecordPostimage
      <4> HIDE DEF verdict
      <4> QED BY <1>0, <2>1, <3>1, <4>1, AdvanceEffect DEF Kept, IsOpen
    <3>2. CASE journal[rid].state \notin INCOMPLETE_STATES
      BY <1>7, <3>2, <1>u DEF RecordPostimage
    <3> QED BY <3>1, <3>2
  <2> QED BY <1>7, <2>2, <1>r DEF RecordPostimage
<1> QED BY <1>1, <1>2, <1>3, <1>4, <1>5, <1>6, <1>7 DEF WriteStep

\* The same of a step of fs_rollback.
LEMMA RollbackOpens ==
    ASSUME Sound, OnlyOwnOpen, NEW p \in Procs, RollbackStep(p)
    PROVE  (Kept \/ OpensOwn(p)) /\ Arrives(p)
<1>0. /\ journal \in [Ids -> Receipt] /\ work \in [Procs -> Work] /\ pc \in [Procs -> Labels]
      /\ job \in [Procs -> Job]
  BY DEF Sound, Store, StoreTypes, Control, ControlTypes
<1>r. ASSUME Return(p) PROVE Arrives(p)
  BY <1>0, <1>r DEF Return, Goto, Arrives, FreshSteps, BusySteps
<1>u. ASSUME journal' = journal PROVE Kept
  BY <1>u DEF Kept, IsOpen
<1>1. CASE CheckRollback(p)
  <2>1. journal' = journal /\ (Return(p) \/ Goto(p, "r_peek"))
    BY <1>1 DEF CheckRollback, store
  <2> QED BY <2>1, <1>0, <1>r, <1>u DEF Arrives, Goto, FreshSteps, BusySteps
<1>2. CASE PeekTarget(p)
  BY <1>0, <1>2, <1>u DEF PeekTarget, store, Arrives, Goto, FreshSteps, BusySteps
<1>3. CASE SettlePending(p)
  <2>1. PICK r \in FilesInOrder(journal, PendingOf(p)) :
          /\ SetState(r, Settled(p, r))
          /\ \/ Return(p) \/ ThenFinalize(p, "r_finalize", r)
             \/ Goto(p, "r_supersede") \/ Continue(p, "r_settle")
    BY <1>3, Zenon DEF SettlePending
  <2>2. r \in Ids /\ journal[r].state \in INCOMPLETE_STATES
    BY FilesInOrderIn, PendingFacts
  <2>3. Kept
    BY <2>1, <2>2, SettledSettles, StateFacts, SettleKeeps
  <2>4. Arrives(p)
    BY <1>0, <1>r, <2>1 DEF ThenFinalize, Continue, Goto, Arrives, FreshSteps, BusySteps
  <2> QED BY <2>3, <2>4
<1>4. CASE MarkSuperseded(p)
  <2>1. work[p].rid \in Ids
    BY <1>4 DEF MarkSuperseded, At, Sound, Control, LocalsNamed, OwnSteps
  <2>2. "SUPERSEDED" \in KNOWN_STATES /\ "SUPERSEDED" \notin INCOMPLETE_STATES
    BY DEF KNOWN_STATES, TERMINAL_STATES, INCOMPLETE_STATES
  <2>3. \/ SetState(work[p].rid, "SUPERSEDED") /\ Continue(p, "r_settle")
        \/ Return(p) /\ journal' = journal
    BY <1>4 DEF MarkSuperseded
  <2>4. Kept
    BY <2>1, <2>2, <2>3, <1>u, SettleKeeps
  <2> QED BY <1>0, <1>r, <2>3, <2>4 DEF Continue, Goto, Arrives, FreshSteps, BusySteps
<1>5. CASE SelectAndJournal(p)
  <2> DEFINE chosen == find_latest_receipt(journal, Project(p), Path(p), work[p].pre)
  <2>1. pc[p] = "r_settle" /\ PendingOf(p) = {}
    BY <1>5 DEF SelectAndJournal, At
  <2>2. CASE chosen # {} /\ nextId \in Ids
    <3>1. PICK source :
            /\ journal' = [journal EXCEPT ![nextId] =
                  RollbackReceipt(Project(p), Path(p), "PREPARED", work[p].pre, Absent, source)]
            /\ work' = [work EXCEPT ![p].rid = nextId, ![p].source = source,
                                    ![p].want = journal[source].pre]
            /\ Goto(p, "r_restore")
            /\ UNCHANGED <<job, lock>>
      BY <1>5, <2>2 DEF SelectAndJournal
    <3>2. /\ journal'[nextId].project = Project(p) /\ journal'[nextId].path = Path(p)
          /\ \A i \in Ids \ {nextId} : journal'[i] = journal[i]
      BY <1>0, <2>2, <3>1 DEF RollbackReceipt
    <3>3. work'[p].rid = nextId
      BY <1>0, <3>1 DEF Work
    <3>4. pc'[p] = "r_restore" /\ job' = job
      BY <1>0, <3>1 DEF Goto
    <3>5. OpensOwn(p)
      BY <2>1, <2>2, <3>2, <3>3, <3>4 DEF OpensOwn, BusySteps, LockedSteps, RollbackSteps
    <3>6. Arrives(p)
      BY <2>1, <3>4 DEF Arrives, FreshSteps
    <3> QED BY <3>5, <3>6
  <2>3. CASE ~(chosen # {} /\ nextId \in Ids)
    BY <1>5, <2>3, <1>r, <1>u DEF SelectAndJournal
  <2> QED BY <2>2, <2>3
<1>6. CASE RestoreTarget(p)
  <2>1. pc[p] = "r_restore" /\ pc[p] \in SourceSteps
    BY <1>6 DEF RestoreTarget, At, SourceSteps
  <2>2. CASE Return(p) /\ WriteRollback(p, "RECOVERY_REQUIRED", Absent)
    <3>1. Kept
      BY <2>1, <2>2, RollbackPut DEF Kept, IsOpen, INCOMPLETE_STATES
    <3> QED BY <2>2, <3>1, <1>r
  <2>3. CASE journal' = journal /\ (Continue(p, "r_applied") \/ Continue(p, "r_copy"))
    BY <1>0, <1>u, <2>1, <2>3 DEF Continue, Goto, Arrives, FreshSteps, BusySteps
  <2> QED BY <1>6, <2>2, <2>3, Zenon DEF RestoreTarget
<1>7. CASE CopyBackup(p)
  <2>1. pc[p] = "r_copy" /\ journal' = journal /\ (Return(p) \/ Continue(p, "r_applied"))
    BY <1>7 DEF CopyBackup, At, store
  <2> QED BY <1>0, <1>r, <1>u, <2>1 DEF Continue, Goto, Arrives, FreshSteps, BusySteps
<1>8. CASE RollbackApplied(p)
  <2>1. pc[p] = "r_applied" /\ pc[p] \in SourceSteps
    BY <1>8 DEF RollbackApplied, At, SourceSteps
  <2>2. CASE WriteRollback(p, "APPLIED", work[p].want) /\ Continue(p, "r_terminal")
    <3>1. pc'[p] = "r_terminal" /\ work' = work /\ job' = job
      BY <1>0, <2>2 DEF Continue, Goto
    <3>2. PendingOf(p) \subseteq {work[p].rid}
      BY <2>1 DEF OnlyOwnOpen, BusySteps
    <3>3. OpensOwn(p)
      BY <2>1, <2>2, <3>1, <3>2, RollbackPut DEF OpensOwn, BusySteps
    <3> QED BY <2>1, <3>1, <3>3 DEF Arrives, FreshSteps, BusySteps
  <2>3. CASE WriteRollback(p, "RECOVERY_REQUIRED", Absent) /\ Return(p)
    <3>1. Kept
      BY <2>1, <2>3, RollbackPut DEF Kept, IsOpen, INCOMPLETE_STATES
    <3> QED BY <2>3, <3>1, <1>r
  <2>4. CASE journal' = journal /\ Return(p)
    BY <2>4, <1>r, <1>u
  <2>5. disk[Path(p)] \in Images
    BY <2>1 DEF Sound, Control, LockDiscipline, HoldsLock, LockedSteps, RollbackSteps, Store, StoreTypes
  <2> QED BY <1>8, <2>2, <2>3, <2>4, <2>5, Zenon DEF RollbackApplied, Images
<1>9. CASE RollbackVerified(p)
  <2>1. /\ pc[p] = "r_terminal" /\ pc[p] \in SourceSteps
        /\ WriteRollback(p, "VERIFIED", work[p].want) /\ Continue(p, "r_source")
    BY <1>9 DEF RollbackVerified, At, SourceSteps
  <2>2. Kept
    BY <2>1, RollbackPut DEF Kept, IsOpen, INCOMPLETE_STATES
  <2> QED BY <1>0, <2>1, <2>2 DEF Continue, Goto, Arrives, FreshSteps, BusySteps
<1>10. CASE FinalizeSource(p)
  <2>1. Kept
    BY <1>10, FinalizeKeeps DEF FinalizeSource
  <2>2. \/ Continue(p, "w_reconcile") \/ Continue(p, "r_settle") \/ Return(p) \/ Goto(p, "s_scan")
    BY <1>10, Zenon DEF FinalizeSource, At
  <2> QED BY <1>0, <1>r, <2>1, <2>2 DEF Continue, Goto, Arrives, FreshSteps, BusySteps
<1> QED BY <1>1, <1>2, <1>3, <1>4, <1>5, <1>6, <1>7, <1>8, <1>9, <1>10 DEF RollbackStep

\* recover() and prune() open no receipt.
LEMMA OtherOpens ==
    ASSUME Sound, NEW p \in Procs, Start(p) \/ RecoverStep(p) \/ PruneStep(p) \/ Fail(p)
    PROVE  Kept /\ Arrives(p)
<1>0. /\ journal \in [Ids -> Receipt] /\ work \in [Procs -> Work] /\ pc \in [Procs -> Labels]
      /\ job \in [Procs -> Job]
  BY DEF Sound, Store, StoreTypes, Control, ControlTypes
<1>r. ASSUME Return(p) PROVE Arrives(p)
  BY <1>0, <1>r DEF Return, Goto, Arrives, FreshSteps, BusySteps
<1>g. ASSUME NEW label \in {"w_reconcile", "r_check", "s_scan", "s_lock", "s_decide", "s_finalize",
                            "p_meta", "p_backup"}, Goto(p, label)
      PROVE  Arrives(p)
  BY <1>0, <1>g DEF Goto, Arrives, FreshSteps, BusySteps
<1>u. ASSUME journal' = journal PROVE Kept
  BY <1>u DEF Kept, IsOpen
<1>1. CASE Start(p)
  BY <1>1, <1>g, <1>u DEF Start, StartWrite, StartRollback, StartRecover, PickPrunable, Acquire, store
<1>2. CASE ScanReceipt(p)
  <2>1. PICK r \in FilesInOrder(journal, work[p].todo) :
          /\ journal' = IF journal[r].state = "BAD_STATE"
                        THEN [journal EXCEPT ![r].state = "RECOVERY_REQUIRED"]
                        ELSE journal
          /\ Goto(p, "s_lock") \/ pc' = pc
    BY <1>2 DEF ScanReceipt
  <2>2. r \in Ids /\ pc[p] = "s_scan"
    BY <1>0, <1>2, FilesInOrderIn DEF ScanReceipt, At, Work
  <2>3. CASE journal[r].state = "BAD_STATE"
    <3>1. SetState(r, "RECOVERY_REQUIRED")
      BY <2>1, <2>3 DEF SetState
    <3>2. Kept
      BY <2>2, <3>1, StateFacts, SettleKeeps DEF SettledStates
    <3> QED BY <2>1, <2>2, <3>2, <1>g DEF Arrives, FreshSteps, BusySteps
  <2>4. CASE journal[r].state # "BAD_STATE"
    BY <2>1, <2>2, <2>4, <1>g, <1>u DEF Arrives, FreshSteps, BusySteps
  <2> QED BY <2>3, <2>4
<1>3. CASE LockReceipt(p)
  BY <1>3, <1>g, <1>u DEF LockReceipt, store
<1>4. CASE DecideLocked(p)
  <2> DEFINE r == work[p].rid
             verdict == Decided(journal, backup, disk, r)
  <2>1. SetState(r, verdict) /\ r \in Ids
    BY <1>4 DEF DecideLocked, At, Sound, Control, LocalsNamed, OwnSteps
  <2>2. verdict = journal[r].state \/ verdict \in SettledStates
    BY ReconciledSettles DEF Decided, SettledStates, INCOMPLETE_STATES
  <2>3. verdict \in KNOWN_STATES \cup CORRUPT_STATES \cup {"NONE"}
    BY <1>0, <2>1, <2>2, StateFacts DEF Receipt
  <2>4. Kept
    <3> HIDE DEF r, verdict
    <3> QED BY <2>1, <2>2, <2>3, StateFacts, SettleKeeps
  <2> QED BY <1>4, <2>4, <1>g DEF DecideLocked, ThenFinalize
<1>5. CASE EndRecover(p)
  BY <1>5, <1>r, <1>u DEF EndRecover, store
<1>6. CASE PruneReceipt(p)
  <2>1. Kept
    BY <1>0, <1>6 DEF PruneReceipt, Kept, IsOpen, NoReceipt, INCOMPLETE_STATES
  <2> QED BY <1>6, <2>1, <1>g DEF PruneReceipt, Continue
<1>7. CASE PruneBackup(p)
  BY <1>7, <1>r, <1>u DEF PruneBackup
<1>8. CASE Fail(p)
  BY <1>8, <1>r, <1>u DEF Fail, store
<1> QED BY <1>1, <1>2, <1>3, <1>4, <1>5, <1>6, <1>7, <1>8 DEF RecoverStep, PruneStep

\* The three together, for any step of a process.
LEMMA StepOpens ==
    ASSUME Sound, OnlyOwnOpen, NEW p \in Procs, Start(p) \/ Step(p) \/ Fail(p)
    PROVE  (Kept \/ OpensOwn(p)) /\ Arrives(p)
BY WriteOpens, RollbackOpens, OtherOpens DEF Step

\* What stays open was open, unless it is the receipt p has just journalled.
LEMMA OpenNow ==
    ASSUME NEW p \in Procs, Kept \/ OpensOwn(p), NEW i \in Ids, IsOpen(i)'
    PROVE  \/ /\ IsOpen(i)
              /\ journal'[i].project = journal[i].project /\ journal'[i].path = journal[i].path
           \/ /\ i = work'[p].rid /\ PendingOf(p) \subseteq {i}
              /\ pc[p] \in LockedSteps /\ pc'[p] \in BusySteps
              /\ journal'[i].project = Project(p) /\ journal'[i].path = Path(p)
BY DEF Kept, OpensOwn, IsOpen

\* Pending receipts are the open ones of a target.
LEMMA PendingIsOpen ==
    ASSUME NEW project, NEW path, NEW i
    PROVE  i \in Pending(journal, project, path) <=>
              i \in Ids /\ IsOpen(i) /\ journal[i].project = project /\ journal[i].path = path
BY StateFacts DEF Pending, ValidFor, IsOpen

\* The same of the receipts pending for a process, now and after a step.
LEMMA PendingOfIsOpen ==
    ASSUME NEW q, NEW i
    PROVE  /\ i \in PendingOf(q) <=>
                 i \in Ids /\ IsOpen(i) /\ journal[i].project = Project(q) /\ journal[i].path = Path(q)
           /\ (i \in PendingOf(q) <=>
                 i \in Ids /\ IsOpen(i) /\ journal[i].project = Project(q) /\ journal[i].path = Path(q))'
BY StateFacts DEF PendingOf, Pending, ValidFor, IsOpen

\* A step of one process keeps the two invariants on open receipts.
LEMMA OpenStep ==
    ASSUME Sound, OpenInv, NEW p \in Procs, Start(p) \/ Step(p) \/ Fail(p)
    PROVE  OpenInv'
<1>1. (Kept \/ OpensOwn(p)) /\ Arrives(p)
  BY StepOpens DEF OpenInv
<1>2. Frame(p)
  BY StepFrame
<1>3. UniqueOpen'
  <2> SUFFICES ASSUME NEW i \in Ids, NEW j \in Ids, IsOpen(i)', IsOpen(j)',
                      journal'[i].project = journal'[j].project, journal'[i].path = journal'[j].path
               PROVE  i = j
    BY DEF UniqueOpen
  <2> QED BY <1>1, OpenNow, PendingOfIsOpen DEF OpenInv, UniqueOpen
<1>4. OnlyOwnOpen'
  <2> SUFFICES ASSUME NEW q \in Procs
               PROVE  /\ pc'[q] \in FreshSteps => PendingOf(q)' = {}
                      /\ pc'[q] \in BusySteps => PendingOf(q)' \subseteq {work'[q].rid}
    BY DEF OnlyOwnOpen
  <2>1. CASE q = p
    <3>1. CASE pc'[p] \in FreshSteps
      <4>1. PendingOf(p) = {} /\ job'[p] = job[p] /\ journal' = journal
        BY <1>1, <3>1 DEF Arrives, FreshSteps, BusySteps
      <4>2. PendingOf(p)' = {}
        BY <4>1 DEF PendingOf, Pending, ValidFor, Project, Path
      <4> QED BY <2>1, <3>1, <4>2 DEF FreshSteps, BusySteps
    <3>2. CASE pc'[p] \in BusySteps
      <4> SUFFICES ASSUME NEW i \in PendingOf(p)' PROVE i = work'[p].rid
        BY <2>1, <3>2 DEF FreshSteps, BusySteps
      <4>1. /\ job'[p] = job[p]
            /\ PendingOf(p) \subseteq {work'[p].rid}
        BY <1>1, <3>2 DEF Arrives, OpenInv, OnlyOwnOpen
      <4>2. i \in Ids /\ IsOpen(i)' /\ journal'[i].project = Project(p) /\ journal'[i].path = Path(p)
        BY <4>1, PendingOfIsOpen DEF Project, Path
      <4> QED BY <1>1, <4>1, <4>2, OpenNow, PendingOfIsOpen
    <3> QED BY <2>1, <3>1, <3>2
  <2>2. CASE q # p
    <3>1. pc'[q] = pc[q] /\ job'[q] = job[q] /\ work'[q] = work[q]
      BY <1>2, <2>2 DEF Frame
    <3>2. ASSUME pc[q] \in FreshSteps \cup BusySteps, NEW i \in PendingOf(q)'
          PROVE  i \in PendingOf(q)
      <4>1. i \in Ids /\ IsOpen(i)' /\ journal'[i].project = Project(q) /\ journal'[i].path = Path(q)
        BY <3>1, <3>2, PendingOfIsOpen DEF Project, Path
      <4>2. pc[q] \in LockedSteps
        BY <3>2 DEF FreshSteps, BusySteps, LockedSteps, WriteSteps, RollbackSteps
      <4>3. pc[p] \in LockedSteps => Path(p) # Path(q)
        BY <2>2, <4>2, HoldersDiffer
      <4> QED BY <1>1, <4>1, <4>3, OpenNow, PendingOfIsOpen
    <3> QED BY <3>1, <3>2 DEF OpenInv, OnlyOwnOpen
  <2> QED BY <2>1, <2>2
<1> QED BY <1>3, <1>4 DEF OpenInv

\* So does every step: OpenInv is inductive under Sound.
LEMMA OpenNext ==
    ASSUME Sound, OpenInv, [Next]_vars
    PROVE  OpenInv'
<1>1. CASE Edit \/ TamperBackup \/ UNCHANGED vars
  <2>1. UNCHANGED <<journal, pc, job, work>>
    BY <1>1 DEF Edit, TamperBackup, vars, store, procVars
  <2> QED BY <2>1 DEF OpenInv, UniqueOpen, OnlyOwnOpen, IsOpen, PendingOf, Pending, ValidFor, Project, Path
<1>2. CASE TamperReceipt
  <2>1. PICK r \in Ids, damage \in CORRUPT_STATES : SetState(r, damage)
    BY <1>2 DEF TamperReceipt
  <2>2. Kept
    BY <2>1, SettleKeeps DEF CORRUPT_STATES, INCOMPLETE_STATES
  <2>3. UNCHANGED <<pc, job, work>>
    BY <1>2 DEF TamperReceipt, procVars
  <2>4. UniqueOpen'
    BY <2>2 DEF OpenInv, UniqueOpen, Kept
  <2>5. ASSUME NEW q \in Procs PROVE PendingOf(q)' \subseteq PendingOf(q)
    BY <2>2, <2>3, PendingOfIsOpen DEF Kept, Project, Path
  <2>6. OnlyOwnOpen'
    BY <2>3, <2>5 DEF OpenInv, OnlyOwnOpen
  <2> QED BY <2>4, <2>6 DEF OpenInv
<1> QED BY <1>1, <1>2, OpenStep DEF Next, Environment

\* Hence the invariant on open receipts holds in every reachable state.
LEMMA AlwaysOpen == Spec => []OpenInv
<1>1. Init => OpenInv
  BY DEF Init, OpenInv, UniqueOpen, OnlyOwnOpen, IsOpen, NoReceipt, INCOMPLETE_STATES, FreshSteps, BusySteps
<1>2. Sound /\ OpenInv /\ [Next]_vars => OpenInv'
  BY OpenNext
<1> QED BY <1>1, <1>2, AlwaysSound, PTL DEF Spec

(***************************************************************************)
(* At most one transaction of a project's target is open (store.py 704-712), *)
(* whatever crashes leave behind and however the journal is damaged: each    *)
(* new intent is journalled only under the lock and after every open receipt *)
(* of the target has been settled.                                           *)
(***************************************************************************)
THEOREM SingleTransaction == Spec => []OneOpenTransaction
<1>1. OpenInv => OneOpenTransaction
  <2> SUFFICES ASSUME OpenInv, NEW project \in Projects, NEW path \in Paths
               PROVE  Cardinality(Pending(journal, project, path)) <= 1
    BY DEF OneOpenTransaction
  <2> DEFINE P == Pending(journal, project, path)
  <2>1. \A i, j \in P : i = j
    BY PendingIsOpen DEF OpenInv, UniqueOpen
  <2> HIDE DEF P
  <2>2. CASE P = {}
    BY <2>2, FS_EmptySet DEF P
  <2>3. CASE P # {}
    <3>1. PICK i : P = {i}
      BY <2>1, <2>3
    <3>2. Cardinality({i}) = 1
      BY FS_Singleton
    <3>3. Cardinality(P) = 1
      BY <3>1, <3>2
    <3> QED BY <3>3 DEF P
  <2> QED BY <2>2, <2>3
<1> QED BY <1>1, AlwaysOpen, PTL

----------------------------------------------------------------------------
(***************************************************************************)
(* The journal of an undamaged store.  Every ID is issued once: reserved     *)
(* under the lock by save_preimage, or taken by rollback(); what a process   *)
(* remembers of a receipt it has seen, and what a receipt says of another,   *)
(* stays so in the steps of the other processes.                             *)
(***************************************************************************)
\* The second write of _finalize_rollback for a rollback of another process.
FinalizeSteps == {"w_finalize", "r_finalize", "s_finalize"}

\* The ID has been reserved by save_preimage, and the receipt is to come.
Reserved(r) == \E p \in Procs : pc[p] = "w_prepare" /\ work[p].rid = r

\* The ID has been used: it has a receipt, or had one, or never will.
Issued(r) == r \in Ids /\ r < nextId /\ ~Reserved(r)

\* A write that is undone, or may be.
Undoable(r) == /\ Issued(r) /\ journal[r].op = "FS_WRITE"
               /\ journal[r].state \in {"VERIFIED", "ROLLED_BACK", "NONE"}

\* r names the target and the image that p is about to change.
Describes(r, p, op, state) ==
    /\ journal[r].op = op /\ journal[r].state = state
    /\ journal[r].project = Project(p) /\ journal[r].path = Path(p)
    /\ journal[r].pre = work[p].pre

\* A reserved ID is new, p's alone, and has its backup on disk.
ReservationOK(p) ==
    pc[p] = "w_prepare" =>
        /\ work[p].rid < nextId /\ backup[work[p].rid] = work[p].pre
        /\ \A q \in Procs \ {p} : pc[q] = "w_prepare" => work[q].rid # work[p].rid

ReceiptOK(r) ==
    /\ journal[r].state \notin CORRUPT_STATES
    /\ journal[r].state # "NONE" => Issued(r)
    /\ journal[r].op = "ROLLBACK" => Undoable(journal[r].rollback_of)
    /\ journal[r].op = "FS_WRITE" /\ journal[r].state \in INCOMPLETE_STATES \cup {"VERIFIED"} =>
           backup_ok(journal, backup, r)

\* The transaction of p is journalled as far as p has come.
OwnOK(p) ==
    LET rid == work[p].rid
    IN  /\ pc[p] \in {"w_replace", "w_note"} =>
               Describes(rid, p, "FS_WRITE", "PREPARED") /\ backup[rid] = work[p].pre
        /\ pc[p] = "w_record" => Describes(rid, p, "FS_WRITE", "APPLIED") /\ backup[rid] = work[p].pre
        /\ pc[p] \in {"r_restore", "r_copy", "r_applied"} =>
               Describes(rid, p, "ROLLBACK", "PREPARED") /\ journal[rid].rollback_of = work[p].source
        /\ pc[p] = "r_terminal" =>
               Describes(rid, p, "ROLLBACK", "APPLIED") /\ journal[rid].rollback_of = work[p].source

\* r is in one of these states, or has been pruned.
Lasts(r, S) == Issued(r) /\ journal[r].state \in S \cup {"NONE"}

\* What p remembers of other transactions is still so.
MemoryOK(p) ==
    LET rid == work[p].rid
        SamePath == journal[rid].state = "NONE" \/ journal[rid].path = Path(p)
    IN  /\ pc[p] \in SourceSteps \cup FinalizeSteps => Undoable(work[p].source)
        /\ pc[p] \in {"s_lock", "s_decide"} => Issued(rid) /\ SamePath
        /\ pc[p] = "r_supersede" => Lasts(rid, {"RECOVERED_UNAPPLIED"}) /\ SamePath
        /\ pc[p] = "p_meta" => Lasts(rid, TERMINAL_STATES)
        /\ pc[p] = "p_backup" => Lasts(rid, {})

\* A target that p has found unblocked still is.
Unblocked(p) ==
    pc[p] \in {"w_save", "w_prepare", "w_replace"} => Blocking(journal, Project(p), Path(p)) = {}

ProcessOK(p) == ReservationOK(p) /\ OwnOK(p) /\ MemoryOK(p) /\ Unblocked(p)

Intact == /\ \A r \in Ids : ReceiptOK(r)
          /\ \A p \in Procs : ProcessOK(p)

\* The receipt keeps everything but its state and postimage.
SameTransaction(r) ==
    /\ journal'[r].op = journal[r].op /\ journal'[r].project = journal[r].project
    /\ journal'[r].path = journal[r].path /\ journal'[r].pre = journal[r].pre
    /\ journal'[r].rollback_of = journal[r].rollback_of

\* The next states of a receipt in a process that holds its lock.
Advances(from, to) ==
    \/ from = "PREPARED" /\ to \in {"APPLIED", "RECOVERED_UNAPPLIED", "RECOVERY_REQUIRED"}
    \/ from = "APPLIED" /\ to \in {"VERIFIED", "RECOVERY_REQUIRED"}
    \/ from = "RECOVERED_UNAPPLIED" /\ to = "SUPERSEDED"

\* The ways a step of p changes the receipt r: it is pruned, marked as undone,
\* advanced under the lock of its path, or written for the first time.
Prunes(p, r) == pc[p] = "p_meta" /\ r = work[p].rid /\ journal'[r] = NoReceipt
Undoes(r) == /\ Undoable(r) /\ journal[r].state # "NONE"
             /\ SameTransaction(r) /\ journal'[r].state = "ROLLED_BACK"
Settles(p, r) == /\ pc[p] \in LockedSteps /\ journal[r].path = Path(p)
                 /\ SameTransaction(r) /\ Advances(journal[r].state, journal'[r].state)
                 /\ journal'[r].state = "RECOVERED_UNAPPLIED" => disk[Path(p)] = journal[r].pre
Opens(p, r) == /\ ~Issued(r) /\ pc[p] \in LockedSteps
               /\ journal'[r].state = "PREPARED" /\ journal'[r].path = Path(p)
               /\ Issued(r)'
               /\ journal'[r].op = "ROLLBACK" => Undoable(journal'[r].rollback_of)
               /\ journal'[r].op = "FS_WRITE" => backup'[r] = journal'[r].pre
Changes(p, r) ==
    journal'[r] = journal[r] \/ Prunes(p, r) \/ Undoes(r) \/ Settles(p, r) \/ Opens(p, r)

\* A step writes a backup before its receipt and deletes it after.
BackupKept(r) == backup'[r] = backup[r] \/ r >= nextId \/ Lasts(r, {})

StepChanges(p) == \A r \in Ids : Changes(p, r) /\ BackupKept(r)

\* Only save_preimage reserves an ID, and always a new one.
LEMMA Reserving ==
    ASSUME Sound, NEW p \in Procs, Start(p) \/ Step(p) \/ Fail(p)
    PROVE  /\ nextId' = nextId \/ nextId' = nextId + 1
           /\ pc'[p] = "w_prepare" =>
                 /\ pc[p] = "w_save" /\ nextId \in Ids /\ nextId' = nextId + 1
                 /\ work'[p].rid = nextId /\ work'[p].pre = work[p].pre
                 /\ backup' = [backup EXCEPT ![nextId] = work[p].pre]
                 /\ journal' = journal /\ job' = job
<1> USE DEF store
<1>1. work \in [Procs -> Work] /\ pc \in [Procs -> Labels]
  BY DEF Sound, Control, ControlTypes
<1>g. ASSUME NEW label, label # "w_prepare", Goto(p, label) PROVE pc'[p] # "w_prepare"
  BY <1>1, <1>g DEF Goto
<1>r. ASSUME Return(p) PROVE pc'[p] # "w_prepare"
  BY <1>g, <1>r DEF Return
<1>2. CASE SaveBackup(p)
  BY <1>1, <1>2, <1>r DEF SaveBackup, At, Goto, Work
<1>3. CASE ReconcilePending(p)
  BY <1>3, <1>g DEF ReconcilePending, ThenFinalize, Continue
<1>4. CASE CheckWrite(p) \/ JournalPrepared(p) \/ ReplaceTarget(p) \/ NoteReplaced(p) \/ RecordPostimage(p)
  BY <1>4, <1>g, <1>r DEF CheckWrite, JournalPrepared, ReplaceTarget, NoteReplaced, RecordPostimage, Continue
<1>5. CASE SettlePending(p)
  <2>1. \/ Return(p) \/ Goto(p, "r_finalize") \/ Goto(p, "r_supersede") \/ Goto(p, "r_settle")
    BY <1>5, Zenon DEF SettlePending, ThenFinalize, Continue
  <2>2. nextId' = nextId
    BY <1>5 DEF SettlePending
  <2> QED BY <2>1, <2>2, <1>g, <1>r
<1>6. CASE CheckRollback(p) \/ PeekTarget(p) \/ MarkSuperseded(p) \/ SelectAndJournal(p) \/ CopyBackup(p)
  BY <1>6, <1>g, <1>r DEF CheckRollback, PeekTarget, MarkSuperseded, SelectAndJournal, CopyBackup, Continue
<1>7. CASE RestoreTarget(p)
  <2>1. Return(p) \/ Goto(p, "r_applied") \/ Goto(p, "r_copy")
    BY <1>7, Zenon DEF RestoreTarget, Continue
  <2>2. nextId' = nextId
    BY <1>7 DEF RestoreTarget
  <2> QED BY <2>1, <2>2, <1>g, <1>r
<1>8. CASE RollbackApplied(p)
  <2>1. disk[Path(p)] \in Images
    BY <1>8 DEF RollbackApplied, At, Sound, Control, LockDiscipline, HoldsLock, LockedSteps, RollbackSteps,
                Store, StoreTypes
  <2>2. Return(p) \/ Goto(p, "r_terminal")
    BY <1>8, <2>1, Zenon DEF RollbackApplied, Images, Continue
  <2>3. nextId' = nextId
    BY <1>8 DEF RollbackApplied
  <2> QED BY <2>2, <2>3, <1>g, <1>r
<1>9. CASE RollbackVerified(p)
  BY <1>9, <1>g DEF RollbackVerified, Continue
<1>10. CASE FinalizeSource(p)
  <2>1. Goto(p, "w_reconcile") \/ Goto(p, "r_settle") \/ Return(p) \/ Goto(p, "s_scan")
    BY <1>10, Zenon DEF FinalizeSource, At, Continue
  <2>2. nextId' = nextId
    BY <1>10 DEF FinalizeSource
  <2> QED BY <2>1, <2>2, <1>g, <1>r
<1>11. CASE RecoverStep(p)
  <2>1. CASE ScanReceipt(p)
    BY <2>1, <1>1, <1>g DEF ScanReceipt, At
  <2> QED BY <2>1, <1>11, <1>g, <1>r DEF RecoverStep, LockReceipt, DecideLocked, EndRecover, ThenFinalize
<1>12. CASE PruneStep(p)
  BY <1>12, <1>g, <1>r DEF PruneStep, PruneReceipt, PruneBackup, Continue
<1>13. CASE Start(p)
  BY <1>13, <1>g DEF Start, StartWrite, StartRollback, StartRecover, PickPrunable, Acquire
<1>14. CASE Fail(p)
  BY <1>14, <1>r DEF Fail
<1> QED BY <1>2, <1>3, <1>4, <1>5, <1>6, <1>7, <1>8, <1>9, <1>10, <1>11, <1>12, <1>13, <1>14
        DEF Step, WriteStep, RollbackStep

\* An issued ID is never reserved again.
LEMMA IssuedStays ==
    ASSUME Sound, NEW p \in Procs, Start(p) \/ Step(p) \/ Fail(p), NEW r, Issued(r)
    PROVE  Issued(r)'
<1>1. Frame(p)
  BY StepFrame
<1>2. r < nextId' /\ r \in Ids /\ nextId \in Nat
  BY Reserving, ReceiptBound DEF Issued, Ids, Sound, Store, StoreTypes
<1>3. ASSUME NEW q \in Procs, pc'[q] = "w_prepare", work'[q].rid = r PROVE FALSE
  <2>1. CASE q = p
    BY <1>2, <1>3, <2>1, Reserving DEF Issued, Ids
  <2>2. CASE q # p
    BY <1>1, <1>3, <2>2 DEF Frame, Issued, Reserved
  <2> QED BY <2>1, <2>2
<1> QED BY <1>2, <1>3 DEF Issued, Reserved

\* What reconciliation or _supersede_pending makes of an open receipt.
LEMMA VerdictAdvances ==
    ASSUME NEW p, NEW r, journal[r].state \in INCOMPLETE_STATES
    PROVE  /\ Advances(journal[r].state, Reconciled(journal, backup, disk, r))
           /\ Advances(journal[r].state, Settled(p, r))
           /\ "RECOVERED_UNAPPLIED" \in {Reconciled(journal, backup, disk, r), Settled(p, r)} =>
                  disk[journal[r].path] = journal[r].pre
BY DEF Advances, Settled, Reconciled, ReconciledRollback, ReconciledWrite, INCOMPLETE_STATES, backup_ok

\* A receipt of p's path that p advances by its state alone.
LEMMA StateSettles ==
    ASSUME Sound, NEW p \in Procs, pc[p] \in LockedSteps, NEW r \in Ids, NEW s, SetState(r, s),
           journal[r].path = Path(p), Advances(journal[r].state, s),
           s = "RECOVERED_UNAPPLIED" => disk[Path(p)] = journal[r].pre
    PROVE  \A i \in Ids : Changes(p, i)
<1>1. s \in KNOWN_STATES
  BY DEF Advances, KNOWN_STATES, TERMINAL_STATES, INCOMPLETE_STATES, BLOCKING_STATES
<1>2. journal \in [Ids -> Receipt]
  BY DEF Sound, Store, StoreTypes
<1>3. SameTransaction(r) /\ journal'[r].state = s /\ \A i \in Ids \ {r} : journal'[i] = journal[i]
  BY <1>1, <1>2, SetStateEffect DEF SameTransaction
<1> QED BY <1>3 DEF Changes, Settles

\* A receipt of p that p advances with its postimage.
LEMMA PostSettles ==
    ASSUME Sound, NEW p \in Procs, pc[p] \in LockedSteps, NEW r \in Ids, NEW s, NEW post \in Images,
           journal' = [journal EXCEPT ![r].state = s, ![r].post = post],
           journal[r].path = Path(p), Advances(journal[r].state, s), s # "RECOVERED_UNAPPLIED"
    PROVE  \A i \in Ids : Changes(p, i)
<1>1. s \in KNOWN_STATES
  BY DEF Advances, KNOWN_STATES, TERMINAL_STATES, INCOMPLETE_STATES, BLOCKING_STATES
<1>2. journal \in [Ids -> Receipt]
  BY DEF Sound, Store, StoreTypes
<1>3. SameTransaction(r) /\ journal'[r].state = s /\ \A i \in Ids \ {r} : journal'[i] = journal[i]
  BY <1>1, <1>2, AdvanceEffect DEF SameTransaction
<1> QED BY <1>3 DEF Changes, Settles

\* A write of p's rollback receipt advances it.
LEMMA RollbackSettles ==
    ASSUME Sound, NEW p \in Procs, pc[p] \in SourceSteps, OwnOK(p),
           pc[p] \in {"r_restore", "r_copy", "r_applied", "r_terminal"},
           NEW state, NEW restored, WriteRollback(p, state, restored),
           Advances(journal[work[p].rid].state, state), state # "RECOVERED_UNAPPLIED"
    PROVE  \A i \in Ids : Changes(p, i)
<1> DEFINE rid == work[p].rid
<1>1. rid \in Ids /\ pc[p] \in LockedSteps /\ \A i \in Ids \ {rid} : journal'[i] = journal[i]
  BY RollbackPut
<1>2. journal'[rid] = RollbackReceipt(Project(p), Path(p), state, work[p].pre, restored, work[p].source)
  BY <1>1 DEF WriteRollback, Sound, Store, StoreTypes
<1>3. journal[rid].path = Path(p) /\ SameTransaction(rid) /\ journal'[rid].state = state
  <2>1. \E s \in {"PREPARED", "APPLIED"} : Describes(rid, p, "ROLLBACK", s)
    BY DEF OwnOK
  <2>2. journal[rid].rollback_of = work[p].source
    BY DEF OwnOK
  <2> QED BY <1>2, <2>1, <2>2 DEF Describes, SameTransaction, RollbackReceipt
<1> QED BY <1>1, <1>3 DEF Changes, Settles

\* A step that writes neither a receipt nor a backup.
LEMMA NothingChanges ==
    ASSUME NEW p, journal' = journal, backup' = backup
    PROVE  StepChanges(p)
BY DEF StepChanges, Changes, BackupKept

\* Every step of fs_write changes the journal in these ways only.
LEMMA WriteChanges ==
    ASSUME Sound, Intact, NEW p \in Procs, WriteStep(p)
    PROVE  StepChanges(p)
<1>0. /\ journal \in [Ids -> Receipt] /\ backup \in [Ids -> Images] /\ nextId \in Nat
      /\ pc \in [Procs -> Labels] /\ work \in [Procs -> Work]
  BY ReceiptBound DEF Sound, Store, StoreTypes, Control, ControlTypes
<1>p. ProcessOK(p)
  BY DEF Intact
<1>b. ASSUME backup' = backup, \A i \in Ids : Changes(p, i) PROVE StepChanges(p)
  BY <1>b DEF StepChanges, BackupKept
<1>1. CASE ReconcilePending(p)
  <2>1. PICK r \in FilesInOrder(journal, PendingOf(p)) : SetState(r, Reconciled(journal, backup, disk, r))
    BY <1>1 DEF ReconcilePending
  <2>2. r \in Ids /\ journal[r].state \in INCOMPLETE_STATES /\ journal[r].path = Path(p)
    BY FilesInOrderIn, PendingFacts
  <2>3. pc[p] \in LockedSteps /\ backup' = backup
    BY <1>1 DEF ReconcilePending, At, LockedSteps, WriteSteps
  <2> QED BY <1>b, <2>1, <2>2, <2>3, VerdictAdvances, StateSettles
<1>2. CASE CheckWrite(p)
  BY <1>2, NothingChanges DEF CheckWrite, store
<1>3. CASE SaveBackup(p)
  BY <1>0, <1>3 DEF SaveBackup, StepChanges, Changes, BackupKept
<1>4. CASE JournalPrepared(p)
  <2> DEFINE rid == work[p].rid
  <2>1. /\ pc[p] = "w_prepare" /\ backup' = backup /\ nextId' = nextId /\ pc[p] \in LockedSteps
        /\ rid \in Ids /\ rid < nextId /\ backup[rid] = work[p].pre
    BY <1>4, <1>p DEF JournalPrepared, At, ProcessOK, ReservationOK, LockedSteps, WriteSteps,
                      Sound, Control, LocalsNamed, OwnSteps
  <2>2. PICK prev : journal' = [journal EXCEPT ![rid] = WriteReceipt(Project(p), Path(p), work[p].pre, prev)]
    BY <1>4 DEF JournalPrepared
  <2>3. \A i \in Ids \ {rid} : journal'[i] = journal[i]
    BY <1>0, <2>2
  <2>4. /\ journal'[rid].op = "FS_WRITE" /\ journal'[rid].state = "PREPARED"
        /\ journal'[rid].path = Path(p) /\ journal'[rid].pre = work[p].pre
    BY <1>0, <2>1, <2>2 DEF WriteReceipt
  <2>5. ~Issued(rid)
    BY <2>1 DEF Issued, Reserved
  <2>6. work' = work /\ pc'[p] = "w_replace" /\ \A q \in Procs \ {p} : pc'[q] = pc[q]
    BY <1>0, <1>4 DEF JournalPrepared, Continue, Goto
  <2>7. Issued(rid)'
    BY <1>p, <2>1, <2>6 DEF Issued, Reserved, ProcessOK, ReservationOK
  <2>8. Opens(p, rid)
    BY <2>1, <2>4, <2>5, <2>7 DEF Opens
  <2> QED BY <1>b, <2>1, <2>3, <2>8 DEF Changes
<1>5. CASE ReplaceTarget(p)
  BY <1>5, NothingChanges DEF ReplaceTarget, store
<1>6. CASE NoteReplaced(p)
  <2> DEFINE rid == work[p].rid
             post_hash == disk[Path(p)]
  <2>1. pc[p] = "w_note" /\ rid \in Ids /\ post_hash \in Images /\ backup' = backup /\ pc[p] \in LockedSteps
    BY <1>6 DEF NoteReplaced, At, Sound, Control, LocalsNamed, LockDiscipline, HoldsLock, OwnSteps,
                LockedSteps, WriteSteps, Store, StoreTypes
  <2>2. journal[rid].path = Path(p) /\ Advances(journal[rid].state, "APPLIED")
    BY <1>p, <2>1 DEF ProcessOK, OwnOK, Describes, Advances
  <2>3. \/ journal' = [journal EXCEPT ![rid].state = "APPLIED", ![rid].post = post_hash]
        \/ journal' = journal
    BY <1>6 DEF NoteReplaced
  <2> QED BY <1>b, <2>1, <2>2, <2>3, PostSettles, NothingChanges
<1>7. CASE RecordPostimage(p)
  <2> DEFINE rid == work[p].rid
             verdict == IF disk[Path(p)] = work[p].seen THEN "VERIFIED" ELSE "RECOVERY_REQUIRED"
  <2>1. pc[p] = "w_record" /\ rid \in Ids /\ work[p].seen \in Images /\ backup' = backup /\ pc[p] \in LockedSteps
    BY <1>0, <1>7 DEF RecordPostimage, At, Sound, Control, LocalsNamed, OwnSteps, LockedSteps, WriteSteps, Work
  <2>2. /\ journal[rid].path = Path(p) /\ Advances(journal[rid].state, verdict)
        /\ verdict # "RECOVERED_UNAPPLIED"
    BY <1>p, <2>1 DEF ProcessOK, OwnOK, Describes, Advances
  <2>3. \/ journal' = [journal EXCEPT ![rid].state = verdict, ![rid].post = work[p].seen]
        \/ journal' = journal
    BY <1>7 DEF RecordPostimage
  <2> HIDE DEF verdict, rid
  <2> QED BY <1>b, <2>1, <2>2, <2>3, PostSettles, NothingChanges
<1> QED BY <1>1, <1>2, <1>3, <1>4, <1>5, <1>6, <1>7 DEF WriteStep

\* So does every step of fs_rollback.
LEMMA RollbackChanges ==
    ASSUME Sound, Intact, NEW p \in Procs, RollbackStep(p)
    PROVE  StepChanges(p)
<1>0. /\ journal \in [Ids -> Receipt] /\ backup \in [Ids -> Images] /\ nextId \in Nat
      /\ pc \in [Procs -> Labels] /\ work \in [Procs -> Work]
  BY ReceiptBound DEF Sound, Store, StoreTypes, Control, ControlTypes
<1>p. ProcessOK(p)
  BY DEF Intact
<1>b. ASSUME backup' = backup, \A i \in Ids : Changes(p, i) PROVE StepChanges(p)
  BY <1>b DEF StepChanges, BackupKept
<1>1. CASE CheckRollback(p) \/ PeekTarget(p) \/ CopyBackup(p)
  BY <1>1, NothingChanges DEF CheckRollback, PeekTarget, CopyBackup, store
<1>3. CASE SettlePending(p)
  <2>1. PICK r \in FilesInOrder(journal, PendingOf(p)) : SetState(r, Settled(p, r))
    BY <1>3 DEF SettlePending
  <2>2. r \in Ids /\ journal[r].state \in INCOMPLETE_STATES /\ journal[r].path = Path(p)
    BY FilesInOrderIn, PendingFacts
  <2>3. pc[p] \in LockedSteps /\ backup' = backup
    BY <1>3 DEF SettlePending, At, LockedSteps, RollbackSteps
  <2> QED BY <1>b, <2>1, <2>2, <2>3, VerdictAdvances, StateSettles
<1>4. CASE MarkSuperseded(p)
  <2> DEFINE rid == work[p].rid
  <2>1. pc[p] = "r_supersede" /\ rid \in Ids /\ pc[p] \in LockedSteps /\ backup' = backup
    BY <1>4 DEF MarkSuperseded, At, Sound, Control, LocalsNamed, OwnSteps, LockedSteps, RollbackSteps
  <2>2. CASE journal[rid].state \in KNOWN_STATES
    <3>1. journal[rid].path = Path(p) /\ Advances(journal[rid].state, "SUPERSEDED")
      BY <1>p, <2>1, <2>2, StateFacts DEF ProcessOK, MemoryOK, Lasts, Advances
    <3>2. SetState(rid, "SUPERSEDED")
      BY <1>4, <2>2 DEF MarkSuperseded
    <3> QED BY <1>b, <2>1, <3>1, <3>2, StateSettles
  <2>3. CASE journal[rid].state \notin KNOWN_STATES
    BY <1>4, <2>3, NothingChanges DEF MarkSuperseded
  <2> QED BY <2>2, <2>3
<1>5. CASE SelectAndJournal(p)
  <2> DEFINE chosen == find_latest_receipt(journal, Project(p), Path(p), work[p].pre)
  <2>1. CASE chosen # {} /\ nextId \in Ids
    <3>1. PICK source \in chosen :
            /\ nextId' = nextId + 1
            /\ journal' = [journal EXCEPT ![nextId] =
                  RollbackReceipt(Project(p), Path(p), "PREPARED", work[p].pre, Absent, source)]
            /\ work' = [work EXCEPT ![p].rid = nextId, ![p].source = source, ![p].want = journal[source].pre]
            /\ Goto(p, "r_restore")
      BY <1>5, <2>1 DEF SelectAndJournal
    <3>2. pc[p] = "r_settle" /\ pc[p] \in LockedSteps /\ backup' = backup
      BY <1>5 DEF SelectAndJournal, At, LockedSteps, RollbackSteps
    <3>3. source \in Ids /\ journal[source].op = "FS_WRITE" /\ journal[source].state = "VERIFIED"
      BY DEF find_latest_receipt, Heads, Candidates, ValidFor
    <3>4. Undoable(source)
      BY <3>3 DEF Undoable, Intact, ReceiptOK
    <3>5. PICK id \in Ids : id = nextId
      BY <2>1
    <3>6. /\ journal'[id].op = "ROLLBACK" /\ journal'[id].state = "PREPARED"
          /\ journal'[id].path = Path(p) /\ journal'[id].rollback_of = source
          /\ \A i \in Ids \ {id} : journal'[i] = journal[i]
      BY <1>0, <3>1, <3>5 DEF RollbackReceipt
    <3>7. ~Issued(id)
      BY <1>0, <3>5 DEF Issued
    <3>8. ASSUME NEW q \in Procs, pc'[q] = "w_prepare", work'[q].rid = id PROVE FALSE
      <4>1. q # p /\ pc[q] = "w_prepare" /\ work[q].rid = id
        BY <1>0, <3>1, <3>8 DEF Goto
      <4> QED BY <1>0, <3>5, <4>1 DEF Intact, ProcessOK, ReservationOK
    <3>9. Issued(id)'
      BY <1>0, <3>1, <3>5, <3>8 DEF Issued, Reserved
    <3>10. Opens(p, id)
      BY <3>2, <3>4, <3>6, <3>7, <3>9 DEF Opens
    <3> QED BY <1>b, <3>2, <3>6, <3>10 DEF Changes
  <2>2. CASE ~(chosen # {} /\ nextId \in Ids)
    BY <1>5, <2>2, NothingChanges DEF SelectAndJournal
  <2> QED BY <2>1, <2>2
<1>6. CASE RestoreTarget(p)
  <2>1. pc[p] = "r_restore" /\ pc[p] \in SourceSteps /\ backup' = backup
    BY <1>6 DEF RestoreTarget, At, SourceSteps
  <2>2. Advances(journal[work[p].rid].state, "RECOVERY_REQUIRED")
    BY <1>p, <2>1 DEF ProcessOK, OwnOK, Describes, Advances
  <2>3. journal' = journal \/ WriteRollback(p, "RECOVERY_REQUIRED", Absent)
    BY <1>6, Zenon DEF RestoreTarget
  <2> QED BY <1>b, <1>p, <2>1, <2>2, <2>3, NothingChanges, RollbackSettles DEF ProcessOK
<1>8. CASE RollbackApplied(p)
  <2>1. pc[p] = "r_applied" /\ pc[p] \in SourceSteps /\ backup' = backup
    BY <1>8 DEF RollbackApplied, At, SourceSteps
  <2>2. /\ Advances(journal[work[p].rid].state, "RECOVERY_REQUIRED")
        /\ Advances(journal[work[p].rid].state, "APPLIED")
    BY <1>p, <2>1 DEF ProcessOK, OwnOK, Describes, Advances
  <2>3. disk[Path(p)] \in Images
    BY <2>1 DEF Sound, Control, LockDiscipline, HoldsLock, LockedSteps, RollbackSteps, Store, StoreTypes
  <2>4. \/ journal' = journal \/ WriteRollback(p, "RECOVERY_REQUIRED", Absent)
        \/ WriteRollback(p, "APPLIED", work[p].want)
    BY <1>8, <2>3, Zenon DEF RollbackApplied, Images
  <2> QED BY <1>b, <1>p, <2>1, <2>2, <2>4, NothingChanges, RollbackSettles DEF ProcessOK
<1>9. CASE RollbackVerified(p)
  <2>1. /\ pc[p] = "r_terminal" /\ pc[p] \in SourceSteps /\ backup' = backup
        /\ WriteRollback(p, "VERIFIED", work[p].want)
    BY <1>9 DEF RollbackVerified, At, SourceSteps
  <2>2. Advances(journal[work[p].rid].state, "VERIFIED")
    BY <1>p, <2>1 DEF ProcessOK, OwnOK, Describes, Advances
  <2> QED BY <1>b, <1>p, <2>1, <2>2, RollbackSettles DEF ProcessOK
<1>10. CASE FinalizeSource(p)
  <2> DEFINE source == work[p].source
  <2>1. /\ pc[p] \in SourceSteps \cup FinalizeSteps /\ backup' = backup
        /\ journal' = SourceFinalized(journal, source)
    BY <1>10 DEF FinalizeSource, SourceSteps, FinalizeSteps
  <2>2. Undoable(source) /\ source \in Ids
    BY <1>p, <2>1 DEF ProcessOK, MemoryOK, Undoable, Issued
  <2>3. CASE journal[source].state \in KNOWN_STATES
    <3>1. SetState(source, "ROLLED_BACK")
      BY <2>1, <2>2, <2>3 DEF SourceFinalized, SetState
    <3>2. "ROLLED_BACK" \in KNOWN_STATES
      BY DEF KNOWN_STATES, TERMINAL_STATES
    <3>3. /\ SameTransaction(source) /\ journal'[source].state = "ROLLED_BACK"
          /\ \A i \in Ids \ {source} : journal'[i] = journal[i]
      BY <1>0, <2>2, <3>1, <3>2, SetStateEffect DEF SameTransaction
    <3> QED BY <1>b, <2>1, <2>2, <2>3, <3>3, StateFacts DEF Changes, Undoes
  <2>4. CASE journal[source].state \notin KNOWN_STATES
    BY <2>1, <2>4, NothingChanges DEF SourceFinalized
  <2> QED BY <2>3, <2>4
<1> QED BY <1>1, <1>3, <1>4, <1>5, <1>6, <1>8, <1>9, <1>10 DEF RollbackStep

\* So does every step of recover and prune, and every start and failure.
LEMMA OtherChanges ==
    ASSUME Sound, Intact, NEW p \in Procs, Start(p) \/ RecoverStep(p) \/ PruneStep(p) \/ Fail(p)
    PROVE  StepChanges(p)
<1>0. journal \in [Ids -> Receipt] /\ backup \in [Ids -> Images] /\ work \in [Procs -> Work]
  BY DEF Sound, Store, StoreTypes, Control, ControlTypes
<1>p. ProcessOK(p)
  BY DEF Intact
<1>b. ASSUME backup' = backup, \A i \in Ids : Changes(p, i) PROVE StepChanges(p)
  BY <1>b DEF StepChanges, BackupKept
<1>1. CASE Start(p) \/ Fail(p) \/ LockReceipt(p) \/ EndRecover(p)
  BY <1>1, NothingChanges DEF Start, StartWrite, StartRollback, StartRecover, PickPrunable, Acquire, Fail,
                              LockReceipt, EndRecover, store
<1>2. CASE ScanReceipt(p)
  <2>1. PICK r \in FilesInOrder(journal, work[p].todo) :
          journal' = IF journal[r].state = "BAD_STATE"
                     THEN [journal EXCEPT ![r].state = "RECOVERY_REQUIRED"]
                     ELSE journal
    BY <1>2 DEF ScanReceipt
  <2>2. r \in Ids /\ journal[r].state # "BAD_STATE"
    BY <1>0, FilesInOrderIn DEF Work, Intact, ReceiptOK, CORRUPT_STATES
  <2> QED BY <1>2, <2>1, <2>2, NothingChanges DEF ScanReceipt
<1>3. CASE DecideLocked(p)
  <2> DEFINE r == work[p].rid
             verdict == Decided(journal, backup, disk, r)
  <2>1. /\ pc[p] = "s_decide" /\ pc[p] \in LockedSteps /\ r \in Ids /\ backup' = backup
        /\ SetState(r, verdict)
    BY <1>3 DEF DecideLocked, At, LockedSteps, Sound, Control, LocalsNamed, OwnSteps
  <2>2. ReceiptOK(r)
    BY <2>1 DEF Intact
  <2>3. CASE journal[r].state \in INCOMPLETE_STATES
    <3>1. journal[r].path = Path(p)
      BY <1>p, <2>1, <2>3, StateFacts DEF ProcessOK, MemoryOK
    <3>2. verdict = Reconciled(journal, backup, disk, r)
      BY <2>3 DEF Decided, INCOMPLETE_STATES
    <3> HIDE DEF verdict
    <3> QED BY <1>b, <2>1, <2>3, <3>1, <3>2, VerdictAdvances, StateSettles
  <2>4. CASE journal[r].state \notin INCOMPLETE_STATES
    <3>1. verdict = journal[r].state
      BY <2>2, <2>4 DEF Decided, ReceiptOK, CORRUPT_STATES
    <3>2. journal' = journal
      <4>1. [journal[r] EXCEPT !.state = journal[r].state] = journal[r]
        BY <1>0, <2>1 DEF Receipt
      <4> QED BY <1>0, <2>1, <3>1, <4>1, Zenon DEF SetState
    <3> QED BY <2>1, <3>2, NothingChanges
  <2> QED BY <2>3, <2>4
<1>4. CASE PruneReceipt(p)
  <2>1. pc[p] = "p_meta" /\ work[p].rid \in Ids /\ backup' = backup
    BY <1>4 DEF PruneReceipt, At, Sound, Control, LocalsNamed, OwnSteps
  <2>2. journal'[work[p].rid] = NoReceipt /\ \A i \in Ids \ {work[p].rid} : journal'[i] = journal[i]
    BY <1>0, <1>4, <2>1 DEF PruneReceipt
  <2> QED BY <1>b, <2>1, <2>2 DEF Changes, Prunes
<1>5. CASE PruneBackup(p)
  <2>1. pc[p] = "p_backup" /\ journal' = journal /\ backup' = [backup EXCEPT ![work[p].rid] = Absent]
    BY <1>5 DEF PruneBackup, At
  <2>2. Lasts(work[p].rid, {})
    BY <1>p, <2>1 DEF ProcessOK, MemoryOK
  <2> QED BY <1>0, <2>1, <2>2 DEF StepChanges, Changes, BackupKept
<1> QED BY <1>1, <1>2, <1>3, <1>4, <1>5 DEF RecoverStep, PruneStep

\* So does any step of a process.
LEMMA JournalChanges ==
    ASSUME Sound, Intact, NEW p \in Procs, Start(p) \/ Step(p) \/ Fail(p)
    PROVE  StepChanges(p)
BY WriteChanges, RollbackChanges, OtherChanges DEF Step

\* A write that may be undone stays one.
LEMMA UndoableStays ==
    ASSUME Sound, Intact, NEW p \in Procs, Start(p) \/ Step(p) \/ Fail(p), NEW r, Undoable(r)
    PROVE  Undoable(r)'
<1>1. Issued(r)' /\ r \in Ids
  BY IssuedStays DEF Undoable, Issued
<1>2. Changes(p, r)
  BY <1>1, JournalChanges DEF StepChanges
<1> QED BY <1>1, <1>2 DEF Changes, Prunes, Undoes, Settles, Opens, Undoable, Advances, SameTransaction, NoReceipt

\* A receipt in use keeps its backup.
LEMMA BackupStays ==
    ASSUME Sound, Intact, NEW p \in Procs, Start(p) \/ Step(p) \/ Fail(p),
           NEW r \in Ids, journal[r].state # "NONE"
    PROVE  backup'[r] = backup[r]
<1>1. BackupKept(r) /\ Issued(r) /\ nextId \in Nat
  BY JournalChanges, ReceiptBound DEF StepChanges, Intact, ReceiptOK, Sound, Store, StoreTypes
<1> QED BY <1>1 DEF BackupKept, Lasts, Issued, Ids

\* Every receipt stays as an undamaged store has it.
LEMMA ReceiptsStay ==
    ASSUME Sound, Intact, NEW p \in Procs, Start(p) \/ Step(p) \/ Fail(p), NEW r \in Ids
    PROVE  ReceiptOK(r)'
<1>1. Changes(p, r) /\ ReceiptOK(r)
  BY JournalChanges DEF StepChanges, Intact
<1>2. Issued(r) => Issued(r)'
  BY IssuedStays
<1>3. ASSUME NEW i, Undoable(i) PROVE Undoable(i)'
  BY <1>3, UndoableStays
<1>4. journal[r].state # "NONE" => backup'[r] = backup[r]
  BY BackupStays
<1>5. CASE journal'[r] = journal[r]
  <2>1. journal'[r].op = "ROLLBACK" => Undoable(journal[r].rollback_of)
    BY <1>1, <1>5 DEF ReceiptOK
  <2>2. journal'[r].op = "ROLLBACK" => Undoable(journal[r].rollback_of)'
    BY <1>3, <1>5, <2>1
  <2> QED BY <1>1, <1>2, <1>4, <1>5, <2>2, StateFacts DEF ReceiptOK, backup_ok, INCOMPLETE_STATES
<1>6. CASE Prunes(p, r)
  BY <1>6, StateFacts DEF Prunes, NoReceipt, ReceiptOK, INCOMPLETE_STATES
<1>7. CASE Undoes(r)
  BY <1>2, <1>7 DEF Undoes, Undoable, SameTransaction, ReceiptOK, INCOMPLETE_STATES, CORRUPT_STATES
<1>8. CASE Settles(p, r)
  <2>1. /\ journal[r].state \in {"PREPARED", "APPLIED", "RECOVERED_UNAPPLIED"}
        /\ journal'[r].state \notin CORRUPT_STATES
        /\ journal'[r].state \in INCOMPLETE_STATES \cup {"VERIFIED"} => journal[r].state \in INCOMPLETE_STATES
    BY <1>8 DEF Settles, Advances, CORRUPT_STATES, INCOMPLETE_STATES
  <2>2. SameTransaction(r) /\ Issued(r)'
    BY <1>1, <1>2, <1>8, <2>1 DEF Settles, ReceiptOK
  <2>3. PICK source : source = journal[r].rollback_of /\ source = journal'[r].rollback_of
    BY <2>2 DEF SameTransaction
  <2>4. journal'[r].op = "ROLLBACK" => Undoable(source)'
    BY <1>1, <1>3, <2>2, <2>3 DEF ReceiptOK, SameTransaction
  <2> QED BY <1>1, <1>4, <2>1, <2>2, <2>3, <2>4 DEF ReceiptOK, SameTransaction, backup_ok
<1>9. CASE Opens(p, r)
  BY <1>3, <1>9 DEF Opens, ReceiptOK, CORRUPT_STATES, backup_ok
<1> QED BY <1>1, <1>5, <1>6, <1>7, <1>8, <1>9 DEF Changes

\* Nobody else changes the open receipt of the target a process has locked.
LEMMA OwnReceiptStays ==
    ASSUME Sound, Intact, NEW p \in Procs, Start(p) \/ Step(p) \/ Fail(p), NEW q \in Procs \ {p},
           pc[q] \in LockedSteps, NEW r \in Ids, journal[r].path = Path(q),
           journal[r].state \in {"PREPARED", "APPLIED", "RECOVERED_UNAPPLIED", "RECOVERY_REQUIRED"}
    PROVE  /\ backup'[r] = backup[r]
           /\ \/ journal'[r] = journal[r]
              \/ journal[r].state = "RECOVERED_UNAPPLIED" /\ journal'[r].state = "NONE"
<1>1. Changes(p, r) /\ ProcessOK(p) /\ ReceiptOK(r)
  BY JournalChanges DEF StepChanges, Intact
<1>2. backup'[r] = backup[r]
  BY BackupStays
<1>3. ~Settles(p, r)
  BY HoldersDiffer DEF Settles
<1>4. ~Undoes(r)
  BY DEF Undoes, Undoable
<1>5. ~Opens(p, r)
  BY <1>1 DEF Opens, ReceiptOK
<1>6. Prunes(p, r) => journal[r].state = "RECOVERED_UNAPPLIED" /\ journal'[r].state = "NONE"
  BY <1>1 DEF Prunes, ProcessOK, MemoryOK, Lasts, TERMINAL_STATES, NoReceipt
<1> QED BY <1>1, <1>2, <1>3, <1>4, <1>5, <1>6 DEF Changes

\* No step of p disturbs what another process relies on.
LEMMA OthersStay ==
    ASSUME Sound, Intact, NEW p \in Procs, Start(p) \/ Step(p) \/ Fail(p), NEW q \in Procs \ {p}
    PROVE  ProcessOK(q)'
<1> DEFINE rid == work[q].rid
<1>0. /\ pc'[q] = pc[q] /\ work'[q] = work[q] /\ job'[q] = job[q]
      /\ \A x \in Procs \ {p} : pc'[x] = pc[x] /\ work'[x] = work[x]
  BY StepFrame DEF Frame
<1>1. Project(q)' = Project(q) /\ Path(q)' = Path(q) /\ ProcessOK(q) /\ nextId \in Nat
  BY <1>0, ReceiptBound DEF Project, Path, Intact, Sound, Store, StoreTypes
<1>2. pc[q] \in OwnSteps => rid \in Ids
  BY DEF Sound, Control, LocalsNamed
<1>3. ReservationOK(q)'
  <2> SUFFICES ASSUME pc[q] = "w_prepare" PROVE ReservationOK(q)'
    BY <1>0 DEF ReservationOK
  <2>1. rid \in Ids /\ rid < nextId /\ backup[rid] = work[q].pre
    BY <1>1, <1>2 DEF OwnSteps, ProcessOK, ReservationOK
  <2>2. BackupKept(rid)
    BY <2>1, JournalChanges DEF StepChanges
  <2>3. backup'[rid] = backup[rid]
    BY <1>1, <2>1, <2>2 DEF BackupKept, Lasts, Issued, Reserved, Ids
  <2>4. ASSUME NEW x \in Procs \ {q}, pc'[x] = "w_prepare" PROVE work'[x].rid # rid
    BY <1>0, <1>1, <2>1, <2>4, Reserving DEF ProcessOK, ReservationOK, Ids
  <2> QED BY <1>0, <1>1, <2>1, <2>3, <2>4, Reserving DEF ReservationOK, Ids
<1>4. OwnOK(q)'
  <2>1. CASE pc[q] \in {"w_replace", "w_note", "w_record", "r_restore", "r_copy", "r_applied", "r_terminal"}
    <3>1. /\ rid \in Ids /\ pc[q] \in LockedSteps
          /\ journal[rid].path = Path(q) /\ journal[rid].state \in {"PREPARED", "APPLIED"}
      BY <1>1, <1>2, <2>1 DEF OwnSteps, LockedSteps, WriteSteps, RollbackSteps, ProcessOK, OwnOK, Describes
    <3>2. journal'[rid] = journal[rid] /\ backup'[rid] = backup[rid]
      BY <3>1, OwnReceiptStays
    <3> QED BY <1>0, <1>1, <3>2 DEF ProcessOK, OwnOK, Describes
  <2> QED BY <1>0, <2>1 DEF OwnOK
<1>5. MemoryOK(q)'
  <2>1. ASSUME pc[q] \in SourceSteps \cup FinalizeSteps PROVE Undoable(work[q].source)'
    <3>1. Undoable(work[q].source)
      BY <1>1, <2>1 DEF ProcessOK, MemoryOK
    <3> QED BY <1>0, <3>1, UndoableStays
  <2>2. ASSUME pc[q] \in {"s_lock", "s_decide", "r_supersede", "p_meta", "p_backup"}
        PROVE  rid \in Ids /\ Issued(rid) /\ Issued(work[q].rid)' /\ Changes(p, rid)
    <3>1. rid \in Ids /\ Issued(rid)
      BY <1>1, <1>2, <2>2 DEF OwnSteps, ProcessOK, MemoryOK, Lasts
    <3> QED BY <1>0, <3>1, JournalChanges, IssuedStays DEF StepChanges
  <2>3. ASSUME pc[q] \in {"s_lock", "s_decide"}
        PROVE  journal'[rid].state = "NONE" \/ journal'[rid].path = Path(q)
    <3>1. journal[rid].state = "NONE" \/ journal[rid].path = Path(q)
      BY <1>1, <2>3 DEF ProcessOK, MemoryOK
    <3>2. Changes(p, rid) /\ ~Opens(p, rid)
      BY <2>2, <2>3 DEF Opens
    <3>3. Undoes(rid) \/ Settles(p, rid) => journal'[rid].path = journal[rid].path /\ journal[rid].state # "NONE"
      BY DEF Undoes, Settles, SameTransaction, Advances
    <3>4. Prunes(p, rid) => journal'[rid].state = "NONE"
      BY DEF Prunes, NoReceipt
    <3> QED BY <3>1, <3>2, <3>3, <3>4 DEF Changes
  <2>4. ASSUME pc[q] = "r_supersede"
        PROVE  \/ journal'[rid].state = "NONE"
               \/ journal'[rid].state = "RECOVERED_UNAPPLIED" /\ journal'[rid].path = Path(q)
    <3>1. pc[q] \in LockedSteps
      BY <2>4 DEF LockedSteps, RollbackSteps
    <3>2. CASE journal[rid].state = "NONE"
      BY <2>2, <2>4, <3>2 DEF Changes, Prunes, Undoes, Settles, Opens, Advances, NoReceipt
    <3>3. CASE journal[rid].state = "RECOVERED_UNAPPLIED" /\ journal[rid].path = Path(q)
      BY <2>2, <2>4, <3>1, <3>3, OwnReceiptStays
    <3> QED BY <1>1, <2>4, <3>2, <3>3 DEF ProcessOK, MemoryOK, Lasts
  <2>5. ASSUME pc[q] = "p_meta" PROVE journal'[rid].state \in TERMINAL_STATES \cup {"NONE"}
    <3>1. journal[rid].state \in TERMINAL_STATES \cup {"NONE"}
      BY <1>1, <2>5 DEF ProcessOK, MemoryOK, Lasts
    <3>2. Changes(p, rid) /\ ~Opens(p, rid)
      BY <2>2, <2>5 DEF Opens
    <3>3. Settles(p, rid) => journal'[rid].state \in TERMINAL_STATES
      BY <3>1 DEF Settles, Advances, TERMINAL_STATES
    <3>4. Undoes(rid) \/ Prunes(p, rid) => journal'[rid].state \in TERMINAL_STATES \cup {"NONE"}
      BY DEF Undoes, Prunes, NoReceipt, TERMINAL_STATES
    <3> QED BY <3>1, <3>2, <3>3, <3>4 DEF Changes
  <2>6. ASSUME pc[q] = "p_backup" PROVE journal'[rid].state = "NONE"
    <3>1. journal[rid].state = "NONE"
      BY <1>1, <2>6 DEF ProcessOK, MemoryOK, Lasts
    <3> QED BY <2>2, <2>6, <3>1 DEF Changes, Prunes, Undoes, Settles, Opens, Advances, NoReceipt
  <2> QED BY <1>0, <1>1, <2>1, <2>2, <2>3, <2>4, <2>5, <2>6 DEF MemoryOK, Lasts
<1>6. Unblocked(q)'
  <2> SUFFICES ASSUME pc[q] \in {"w_save", "w_prepare", "w_replace"},
                      NEW r \in Ids, journal'[r].state = "RECOVERY_REQUIRED",
                      journal'[r].project = Project(q), journal'[r].path = Path(q)
               PROVE  FALSE
    BY <1>0, <1>1 DEF Unblocked, Blocking, ValidFor, BLOCKING_STATES
  <2>1. Changes(p, r) /\ pc[q] \in LockedSteps
    BY JournalChanges DEF StepChanges, LockedSteps, WriteSteps
  <2>2. ~Settles(p, r)
    BY <2>1, HoldersDiffer DEF Settles, SameTransaction
  <2>3. journal'[r] = journal[r]
    BY <2>1, <2>2 DEF Changes, Prunes, Undoes, Opens, NoReceipt
  <2> QED BY <1>1, <2>3 DEF ProcessOK, Unblocked, Blocking, ValidFor, BLOCKING_STATES, KNOWN_STATES
<1> QED BY <1>3, <1>4, <1>5, <1>6 DEF ProcessOK

\* The steps at which nothing of the journal is relied on.
LEMMA NothingHeld ==
    ASSUME NEW p, pc'[p] \in {"idle", "w_reconcile", "r_check", "r_peek", "r_settle", "s_scan"}
    PROVE  ProcessOK(p)'
BY DEF ProcessOK, ReservationOK, OwnOK, MemoryOK, Unblocked, SourceSteps, FinalizeSteps

\* Nor is it after the operation has returned.
LEMMA ReturnHeld ==
    ASSUME Sound, NEW p \in Procs, Return(p)
    PROVE  ProcessOK(p)'
BY NothingHeld DEF Return, Goto, Sound, Control, ControlTypes

\* The write that an orphaned rollback undid may be marked as undone.
LEMMA FinalizeHeld ==
    ASSUME Sound, Intact, NEW p \in Procs, Start(p) \/ Step(p) \/ Fail(p),
           NEW label \in FinalizeSteps, NEW r \in Ids, ThenFinalize(p, label, r), journal[r].op = "ROLLBACK"
    PROVE  ProcessOK(p)'
<1>1. PICK source : source = journal[r].rollback_of
  OBVIOUS
<1>2. Undoable(source)
  BY <1>1 DEF Intact, ReceiptOK
<1>3. Undoable(source)'
  BY <1>2, UndoableStays
<1>4. pc'[p] = label /\ work'[p].source = source
  BY <1>1 DEF ThenFinalize, Goto, Sound, Control, ControlTypes, Work
<1>5. Undoable(work[p].source)'
  BY <1>3, <1>4
<1>6. /\ ReservationOK(p)' /\ OwnOK(p)' /\ Unblocked(p)'
      /\ pc'[p] \notin {"s_lock", "s_decide", "r_supersede", "p_meta", "p_backup"}
  BY <1>4 DEF ReservationOK, OwnOK, Unblocked, FinalizeSteps
<1> QED BY <1>4, <1>5, <1>6 DEF ProcessOK, MemoryOK

\* What p relies on after its own step of fs_write.
LEMMA WriteOwn ==
    ASSUME Sound, Intact, NEW p \in Procs, WriteStep(p)
    PROVE  ProcessOK(p)'
<1> DEFINE rid == work[p].rid
<1> USE DEF store
<1>0. /\ journal \in [Ids -> Receipt] /\ backup \in [Ids -> Images] /\ nextId \in Nat
      /\ pc \in [Procs -> Labels] /\ work \in [Procs -> Work] /\ job \in [Procs -> Job]
  BY ReceiptBound DEF Sound, Store, StoreTypes, Control, ControlTypes
<1>p. ProcessOK(p) /\ (pc[p] \in OwnSteps => rid \in Ids)
  BY DEF Intact, Sound, Control, LocalsNamed
<1>s. Step(p)
  BY DEF Step
<1>1. CASE ReconcilePending(p)
  <2>1. PICK r \in FilesInOrder(journal, PendingOf(p)) :
          \/ journal[r].op = "ROLLBACK" /\ ThenFinalize(p, "w_finalize", r)
          \/ Continue(p, "w_reconcile")
    BY <1>1 DEF ReconcilePending
  <2>2. r \in Ids
    BY FilesInOrderIn, PendingFacts
  <2> QED BY <1>0, <1>s, <2>1, <2>2, FinalizeHeld, NothingHeld DEF FinalizeSteps, Continue, Goto
<1>2. CASE CheckWrite(p)
  <2>1. CASE WriteAllowed(p)
    <3>1. pc'[p] = "w_save" /\ job' = job /\ journal' = journal
      BY <1>0, <1>2, <2>1 DEF CheckWrite, Goto
    <3>2. Unblocked(p)'
      BY <2>1, <3>1 DEF WriteAllowed, has_blocking_state, Unblocked, Blocking, ValidFor, Project, Path
    <3> QED BY <3>1, <3>2 DEF ProcessOK, ReservationOK, OwnOK, MemoryOK, SourceSteps, FinalizeSteps
  <2>2. CASE ~WriteAllowed(p)
    BY <1>2, <2>2, ReturnHeld DEF CheckWrite
  <2> QED BY <2>1, <2>2
<1>3. CASE SaveBackup(p)
  <2>1. CASE nextId \in Ids
    <3>1. pc'[p] = "w_prepare"
      BY <1>0, <1>3, <2>1 DEF SaveBackup, Goto
    <3>2. /\ nextId' = nextId + 1 /\ work'[p].rid = nextId /\ work'[p].pre = work[p].pre
          /\ backup'[nextId] = work[p].pre /\ journal' = journal /\ job' = job /\ pc[p] = "w_save"
      BY <1>0, <1>s, <2>1, <3>1, Reserving
    <3>3. ASSUME NEW q \in Procs \ {p}, pc'[q] = "w_prepare" PROVE work'[q].rid # nextId
      BY <1>0, <1>s, <3>3, StepFrame DEF Frame, Intact, ProcessOK, ReservationOK
    <3>4. ReservationOK(p)'
      BY <1>0, <3>2, <3>3 DEF ReservationOK
    <3>5. Unblocked(p)'
      BY <1>p, <3>2 DEF ProcessOK, Unblocked, Blocking, ValidFor, Project, Path
    <3> QED BY <3>1, <3>4, <3>5 DEF ProcessOK, OwnOK, MemoryOK, SourceSteps, FinalizeSteps
  <2>2. CASE nextId \notin Ids
    BY <1>3, <2>2, ReturnHeld DEF SaveBackup
  <2> QED BY <2>1, <2>2
<1>4. CASE JournalPrepared(p)
  <2>1. /\ pc[p] = "w_prepare" /\ pc'[p] = "w_replace" /\ UNCHANGED <<work, job, backup>>
        /\ rid \in Ids /\ backup[rid] = work[p].pre
    BY <1>0, <1>4, <1>p DEF JournalPrepared, At, Continue, Goto, OwnSteps, ProcessOK, ReservationOK
  <2>2. PICK prev : journal' = [journal EXCEPT ![rid] = WriteReceipt(Project(p), Path(p), work[p].pre, prev)]
    BY <1>4 DEF JournalPrepared
  <2>3. /\ journal'[rid] = WriteReceipt(Project(p), Path(p), work[p].pre, prev)
        /\ \A i \in Ids \ {rid} : journal'[i] = journal[i]
    BY <1>0, <2>1, <2>2
  <2>4. OwnOK(p)'
    BY <2>1, <2>3 DEF OwnOK, Describes, WriteReceipt, Project, Path
  <2>5. Unblocked(p)'
    BY <1>p, <2>1, <2>3 DEF ProcessOK, Unblocked, Blocking, ValidFor, WriteReceipt, BLOCKING_STATES, Project, Path
  <2> QED BY <2>1, <2>4, <2>5 DEF ProcessOK, ReservationOK, MemoryOK, SourceSteps, FinalizeSteps
<1>5. CASE ReplaceTarget(p)
  <2>1. pc[p] = "w_replace" /\ pc'[p] = "w_note" /\ UNCHANGED <<journal, backup, work, job>>
    BY <1>0, <1>5 DEF ReplaceTarget, At, Continue, Goto
  <2>2. OwnOK(p)'
    BY <1>p, <2>1 DEF ProcessOK, OwnOK, Describes, Project, Path
  <2> QED BY <2>1, <2>2 DEF ProcessOK, ReservationOK, MemoryOK, Unblocked, SourceSteps, FinalizeSteps
<1>6. CASE NoteReplaced(p)
  <2> DEFINE post_hash == disk[Path(p)]
  <2>1. pc[p] = "w_note" /\ rid \in Ids /\ post_hash \in Images /\ backup' = backup
    BY <1>6 DEF NoteReplaced, At, Sound, Control, LocalsNamed, LockDiscipline, HoldsLock, OwnSteps,
                LockedSteps, WriteSteps, Store, StoreTypes
  <2>2. CASE post_hash # Absent /\ journal[rid].state = "PREPARED"
    <3>1. /\ journal' = [journal EXCEPT ![rid].state = "APPLIED", ![rid].post = post_hash]
          /\ work' = [work EXCEPT ![p].seen = post_hash] /\ Goto(p, "w_record") /\ job' = job
      BY <1>6, <2>2 DEF NoteReplaced
    <3>2. /\ journal'[rid].op = journal[rid].op /\ journal'[rid].state = "APPLIED"
          /\ journal'[rid].project = journal[rid].project /\ journal'[rid].path = journal[rid].path
          /\ journal'[rid].pre = journal[rid].pre
      <4> HIDE DEF post_hash
      <4> QED BY <1>0, <2>1, <3>1, AppliedEffect
    <3>3. pc'[p] = "w_record" /\ work'[p].rid = rid /\ work'[p].pre = work[p].pre
      BY <1>0, <3>1, SeenEffect DEF Goto
    <3>4. OwnOK(p)'
      BY <1>p, <2>1, <3>1, <3>2, <3>3 DEF ProcessOK, OwnOK, Describes, Project, Path
    <3> QED BY <3>3, <3>4 DEF ProcessOK, ReservationOK, MemoryOK, Unblocked, SourceSteps, FinalizeSteps
  <2>3. CASE ~(post_hash # Absent /\ journal[rid].state = "PREPARED")
    BY <1>6, <2>3, ReturnHeld DEF NoteReplaced
  <2> QED BY <2>2, <2>3
<1>7. CASE RecordPostimage(p)
  BY <1>7, ReturnHeld DEF RecordPostimage
<1> QED BY <1>1, <1>2, <1>3, <1>4, <1>5, <1>6, <1>7 DEF WriteStep

\* A rollback that goes on to its next write still has its receipt and its source.
LEMMA RollbackHeld ==
    ASSUME Sound, Intact, NEW p \in Procs, Start(p) \/ Step(p) \/ Fail(p), pc[p] \in SourceSteps,
           NEW label \in SourceSteps, Continue(p, label), OwnOK(p)'
    PROVE  ProcessOK(p)'
<1>1. PICK source : source = work[p].source
  OBVIOUS
<1>2. Undoable(source)
  BY <1>1 DEF Intact, ProcessOK, MemoryOK
<1>3. Undoable(source)' /\ pc'[p] = label /\ work'[p].source = source
  BY <1>1, <1>2, UndoableStays DEF Continue, Goto, Sound, Control, ControlTypes
<1>4. Undoable(work[p].source)'
  BY <1>3
<1> QED BY <1>3, <1>4 DEF ProcessOK, MemoryOK, ReservationOK, Unblocked, SourceSteps

\* What p relies on after its own step of fs_rollback.
LEMMA RollbackOwn ==
    ASSUME Sound, Intact, NEW p \in Procs, RollbackStep(p)
    PROVE  ProcessOK(p)'
<1> DEFINE rid == work[p].rid
<1> USE DEF store
<1>0. /\ journal \in [Ids -> Receipt] /\ backup \in [Ids -> Images] /\ nextId \in Nat
      /\ pc \in [Procs -> Labels] /\ work \in [Procs -> Work] /\ job \in [Procs -> Job]
  BY ReceiptBound DEF Sound, Store, StoreTypes, Control, ControlTypes
<1>p. ProcessOK(p) /\ OwnOK(p) /\ (pc[p] \in OwnSteps => rid \in Ids)
  BY DEF Intact, ProcessOK, Sound, Control, LocalsNamed
<1>s. Step(p)
  BY DEF Step
<1>1. CASE CheckRollback(p) \/ PeekTarget(p)
  BY <1>0, <1>1, NothingHeld, ReturnHeld DEF CheckRollback, PeekTarget, Goto
<1>3. CASE SettlePending(p)
  <2>1. PICK r \in FilesInOrder(journal, PendingOf(p)) :
          /\ SetState(r, Settled(p, r))
          /\ CASE Settled(p, r) = "RECOVERY_REQUIRED" -> Return(p)
               [] Settled(p, r) = "VERIFIED" /\ journal[r].op = "ROLLBACK" ->
                     ThenFinalize(p, "r_finalize", r)
               [] Settled(p, r) = "RECOVERED_UNAPPLIED" /\ journal[r].op = "FS_WRITE" ->
                     /\ Goto(p, "r_supersede")
                     /\ work' = [work EXCEPT ![p].rid = r]
                     /\ UNCHANGED <<job, lock>>
               [] OTHER -> Continue(p, "r_settle")
    BY <1>3 DEF SettlePending
  <2>2. r \in Ids /\ journal[r].state \in INCOMPLETE_STATES /\ journal[r].path = Path(p)
    BY FilesInOrderIn, PendingFacts
  <2>3. \/ Return(p)
        \/ journal[r].op = "ROLLBACK" /\ ThenFinalize(p, "r_finalize", r)
        \/ /\ Settled(p, r) = "RECOVERED_UNAPPLIED" /\ Goto(p, "r_supersede")
           /\ work' = [work EXCEPT ![p].rid = r] /\ job' = job
        \/ Continue(p, "r_settle")
    BY <2>1, Zenon
  <2>4. CASE Settled(p, r) = "RECOVERED_UNAPPLIED" /\ Goto(p, "r_supersede")
             /\ work' = [work EXCEPT ![p].rid = r] /\ job' = job
    <3>1. pc'[p] = "r_supersede" /\ work'[p].rid = r /\ Path(p)' = Path(p)
      BY <1>0, <2>4 DEF Goto, Work, Path
    <3>2. Issued(r)'
      BY <1>s, <2>2, StateFacts, IssuedStays DEF Intact, ReceiptOK
    <3>3. journal'[r].state = "RECOVERED_UNAPPLIED" /\ journal'[r].path = Path(p)
      BY <1>0, <2>1, <2>2, <2>4, SetStateEffect, StateFacts DEF SettledStates
    <3>4. Issued(work[p].rid)'
      BY <3>1, <3>2
    <3> QED BY <3>1, <3>3, <3>4
            DEF ProcessOK, ReservationOK, OwnOK, MemoryOK, Lasts, Unblocked, SourceSteps, FinalizeSteps
  <2> QED BY <1>0, <1>s, <2>2, <2>3, <2>4, FinalizeHeld, NothingHeld, ReturnHeld
          DEF FinalizeSteps, Continue, Goto
<1>4. CASE MarkSuperseded(p)
  BY <1>0, <1>4, NothingHeld, ReturnHeld DEF MarkSuperseded, Continue, Goto
<1>5. CASE SelectAndJournal(p)
  <2> DEFINE chosen == find_latest_receipt(journal, Project(p), Path(p), work[p].pre)
  <2>1. CASE chosen # {} /\ nextId \in Ids
    <3>1. PICK source \in chosen :
            /\ journal' = [journal EXCEPT ![nextId] =
                  RollbackReceipt(Project(p), Path(p), "PREPARED", work[p].pre, Absent, source)]
            /\ work' = [work EXCEPT ![p].rid = nextId, ![p].source = source, ![p].want = journal[source].pre]
            /\ Goto(p, "r_restore") /\ job' = job
      BY <1>5, <2>1 DEF SelectAndJournal
    <3>2. source \in Ids /\ journal[source].op = "FS_WRITE" /\ journal[source].state = "VERIFIED"
      BY DEF find_latest_receipt, Heads, Candidates, ValidFor
    <3>3. Undoable(source)
      BY <3>2 DEF Undoable, Intact, ReceiptOK
    <3>4. Undoable(source)'
      BY <1>s, <3>3, UndoableStays
    <3>5. /\ pc'[p] = "r_restore" /\ work'[p].rid = nextId /\ work'[p].source = source
          /\ work'[p].pre = work[p].pre
      BY <1>0, <2>1, <3>1, <3>2 DEF Goto, Work
    <3>6. journal'[nextId] = RollbackReceipt(Project(p), Path(p), "PREPARED", work[p].pre, Absent, source)
      BY <1>0, <2>1, <3>1
    <3>7. OwnOK(p)'
      BY <3>1, <3>5, <3>6 DEF OwnOK, Describes, RollbackReceipt, Project, Path
    <3>8. Undoable(work[p].source)'
      BY <3>4, <3>5
    <3> QED BY <3>5, <3>7, <3>8 DEF ProcessOK, ReservationOK, MemoryOK, Unblocked
  <2>2. CASE ~(chosen # {} /\ nextId \in Ids)
    BY <1>5, <2>2, ReturnHeld DEF SelectAndJournal
  <2> QED BY <2>1, <2>2
<1>6. CASE RestoreTarget(p)
  <2>1. pc[p] = "r_restore" /\ pc[p] \in SourceSteps
    BY <1>6 DEF RestoreTarget, At, SourceSteps
  <2>2. CASE journal' = journal /\ (Continue(p, "r_applied") \/ Continue(p, "r_copy"))
    <3>1. pc'[p] \in {"r_applied", "r_copy"} /\ work' = work /\ job' = job
      BY <1>0, <2>2 DEF Continue, Goto
    <3>2. OwnOK(p)'
      BY <1>p, <2>1, <2>2, <3>1 DEF OwnOK, Describes, Project, Path
    <3> QED BY <1>s, <2>1, <2>2, <3>2, RollbackHeld DEF SourceSteps
  <2>3. Return(p) \/ (journal' = journal /\ (Continue(p, "r_applied") \/ Continue(p, "r_copy")))
    BY <1>6, Zenon DEF RestoreTarget
  <2> QED BY <2>2, <2>3, ReturnHeld
<1>7. CASE CopyBackup(p)
  <2>1. pc[p] = "r_copy" /\ pc[p] \in SourceSteps
    BY <1>7 DEF CopyBackup, At, SourceSteps
  <2>2. CASE journal' = journal /\ Continue(p, "r_applied")
    <3>1. pc'[p] = "r_applied" /\ work' = work /\ job' = job
      BY <1>0, <2>2 DEF Continue, Goto
    <3>2. OwnOK(p)'
      BY <1>p, <2>1, <2>2, <3>1 DEF OwnOK, Describes, Project, Path
    <3> QED BY <1>s, <2>1, <2>2, <3>2, RollbackHeld DEF SourceSteps
  <2> QED BY <1>7, <2>2, ReturnHeld DEF CopyBackup
<1>8. CASE RollbackApplied(p)
  <2>1. pc[p] = "r_applied" /\ pc[p] \in SourceSteps /\ rid \in Ids
    BY <1>8, <1>p DEF RollbackApplied, At, SourceSteps, OwnSteps
  <2>2. disk[Path(p)] \in Images
    BY <2>1 DEF Sound, Control, LockDiscipline, HoldsLock, LockedSteps, RollbackSteps, Store, StoreTypes
  <2>3. Return(p) \/ (WriteRollback(p, "APPLIED", work[p].want) /\ Continue(p, "r_terminal"))
    BY <1>8, <2>2, Zenon DEF RollbackApplied, Images
  <2>4. CASE WriteRollback(p, "APPLIED", work[p].want) /\ Continue(p, "r_terminal")
    <3>1. pc'[p] = "r_terminal" /\ work' = work /\ job' = job
      BY <1>0, <2>4 DEF Continue, Goto
    <3>2. journal'[rid] = RollbackReceipt(Project(p), Path(p), "APPLIED", work[p].pre, work[p].want,
                                          work[p].source)
      BY <1>0, <2>1, <2>4 DEF WriteRollback
    <3>3. OwnOK(p)'
      BY <3>1, <3>2 DEF OwnOK, Describes, RollbackReceipt, Project, Path
    <3> QED BY <1>s, <2>1, <2>4, <3>3, RollbackHeld DEF SourceSteps
  <2> QED BY <2>3, <2>4, ReturnHeld
<1>9. CASE RollbackVerified(p)
  <2>1. pc[p] \in SourceSteps /\ Continue(p, "r_source") /\ pc'[p] = "r_source"
    BY <1>0, <1>9 DEF RollbackVerified, At, SourceSteps, Continue, Goto
  <2>2. OwnOK(p)'
    BY <2>1 DEF OwnOK
  <2> QED BY <1>s, <2>1, <2>2, RollbackHeld DEF SourceSteps
<1>10. CASE FinalizeSource(p)
  <2>1. Goto(p, "w_reconcile") \/ Goto(p, "r_settle") \/ Return(p) \/ Goto(p, "s_scan")
    BY <1>10, Zenon DEF FinalizeSource, At, Continue
  <2> QED BY <1>0, <2>1, NothingHeld, ReturnHeld DEF Goto
<1> QED BY <1>1, <1>3, <1>4, <1>5, <1>6, <1>7, <1>8, <1>9, <1>10 DEF RollbackStep

\* What p relies on after its own step of recover or prune, or a start or failure.
LEMMA OtherOwn ==
    ASSUME Sound, Intact, NEW p \in Procs, Start(p) \/ RecoverStep(p) \/ PruneStep(p) \/ Fail(p)
    PROVE  ProcessOK(p)'
<1> DEFINE rid == work[p].rid
<1> USE DEF store
<1>0. /\ journal \in [Ids -> Receipt] /\ pc \in [Procs -> Labels] /\ work \in [Procs -> Work]
      /\ job \in [Procs -> Job]
  BY DEF Sound, Store, StoreTypes, Control, ControlTypes
<1>p. ProcessOK(p) /\ (pc[p] \in OwnSteps => rid \in Ids)
  BY DEF Intact, Sound, Control, LocalsNamed
<1>s. Start(p) \/ Step(p) \/ Fail(p)
  BY DEF Step
<1>i. ASSUME NEW r \in Ids, Issued(r), work'[p].rid = r PROVE Issued(work[p].rid)'
  <2>1. Issued(r)'
    BY <1>i, <1>s, IssuedStays
  <2> QED BY <1>i, <2>1
<1>1. CASE StartWrite(p) \/ StartRollback(p) \/ StartRecover(p)
  BY <1>0, <1>1, NothingHeld DEF StartWrite, StartRollback, StartRecover, Acquire, Goto
<1>2. CASE PickPrunable(p)
  <2>1. PICK r \in Ids : journal[r].state \in TERMINAL_STATES /\ work' = [work EXCEPT ![p].rid = r]
    BY <1>2 DEF PickPrunable
  <2>2. pc'[p] = "p_meta" /\ journal' = journal /\ work'[p].rid = r
    BY <1>0, <1>2, <2>1 DEF PickPrunable, Goto, Work
  <2>3. Issued(r)
    BY <2>1 DEF Intact, ReceiptOK, TERMINAL_STATES
  <2>4. Issued(work[p].rid)'
    BY <1>i, <2>2, <2>3
  <2> QED BY <2>1, <2>2, <2>4
          DEF ProcessOK, ReservationOK, OwnOK, MemoryOK, Lasts, Unblocked, SourceSteps, FinalizeSteps
<1>3. CASE Fail(p) \/ EndRecover(p) \/ PruneBackup(p)
  BY <1>3, ReturnHeld DEF Fail, EndRecover, PruneBackup
<1>4. CASE ScanReceipt(p)
  <2>1. PICK r \in FilesInOrder(journal, work[p].todo) :
          /\ journal' = IF journal[r].state = "BAD_STATE"
                        THEN [journal EXCEPT ![r].state = "RECOVERY_REQUIRED"]
                        ELSE journal
          /\ work' = [work EXCEPT ![p].todo = @ \ {r}, ![p].rid = r]
          /\ IF NeedsDecision(journal, backup, r)
             THEN Goto(p, "s_lock") /\ job' = [job EXCEPT ![p].path = journal[r].path]
             ELSE UNCHANGED <<pc, job>>
    BY <1>4 DEF ScanReceipt
  <2>2. r \in Ids /\ pc[p] = "s_scan"
    BY <1>0, <1>4, FilesInOrderIn DEF ScanReceipt, At, Work
  <2>3. CASE NeedsDecision(journal, backup, r)
    <3>1. journal[r].state # "NONE" /\ journal[r].state # "BAD_STATE" /\ Issued(r)
      BY <2>2, <2>3 DEF NeedsDecision, INCOMPLETE_STATES, Intact, ReceiptOK
    <3>2. /\ pc'[p] = "s_lock" /\ work'[p].rid = r /\ job'[p].path = journal[r].path /\ journal' = journal
      BY <1>0, <2>1, <2>2, <2>3, <3>1 DEF Goto, Work, Job
    <3>3. Issued(work[p].rid)'
      BY <1>i, <2>2, <3>1, <3>2
    <3> QED BY <3>2, <3>3
            DEF ProcessOK, ReservationOK, OwnOK, MemoryOK, Unblocked, SourceSteps, FinalizeSteps, Path
  <2>4. CASE ~NeedsDecision(journal, backup, r)
    BY <2>1, <2>2, <2>4, NothingHeld
  <2> QED BY <2>3, <2>4
<1>5. CASE LockReceipt(p)
  <2>1. /\ pc[p] = "s_lock" /\ pc'[p] \in {"s_decide", "s_scan"}
        /\ UNCHANGED <<journal, work, job>>
    BY <1>0, <1>5 DEF LockReceipt, At, Goto
  <2>2. rid \in Ids /\ Issued(rid) /\ (journal[rid].state = "NONE" \/ journal[rid].path = Path(p))
    BY <1>p, <2>1 DEF ProcessOK, MemoryOK, OwnSteps
  <2>3. Issued(work[p].rid)'
    BY <1>i, <2>1, <2>2
  <2>4. CASE pc'[p] = "s_decide"
    BY <2>1, <2>2, <2>3, <2>4
    DEF ProcessOK, ReservationOK, OwnOK, MemoryOK, Unblocked, SourceSteps, FinalizeSteps, Path
  <2> QED BY <2>1, <2>4, NothingHeld
<1>6. CASE DecideLocked(p)
  <2>1. rid \in Ids
    BY <1>6, <1>p DEF DecideLocked, At, OwnSteps
  <2>2. (journal[rid].op = "ROLLBACK" /\ ThenFinalize(p, "s_finalize", rid)) \/ Goto(p, "s_scan")
    BY <1>6 DEF DecideLocked
  <2> QED BY <1>0, <1>s, <2>1, <2>2, FinalizeHeld, NothingHeld DEF FinalizeSteps, Goto
<1>7. CASE PruneReceipt(p)
  <2>1. pc[p] = "p_meta" /\ pc'[p] = "p_backup" /\ work' = work /\ rid \in Ids
    BY <1>0, <1>7, <1>p DEF PruneReceipt, At, Continue, Goto, OwnSteps
  <2>2. journal'[rid].state = "NONE"
    BY <1>0, <1>7, <2>1 DEF PruneReceipt, NoReceipt
  <2>3. Issued(rid)
    BY <1>p, <2>1 DEF ProcessOK, MemoryOK, Lasts
  <2>4. Issued(work[p].rid)'
    BY <1>i, <2>1, <2>3
  <2> QED BY <2>1, <2>2, <2>4
          DEF ProcessOK, ReservationOK, OwnOK, MemoryOK, Lasts, Unblocked, SourceSteps, FinalizeSteps
<1> QED BY <1>1, <1>2, <1>3, <1>4, <1>5, <1>6, <1>7 DEF Start, RecoverStep, PruneStep

\* Every step of a process keeps the journal intact.
LEMMA IntactStep ==
    ASSUME Sound, Intact, NEW p \in Procs, Start(p) \/ Step(p) \/ Fail(p)
    PROVE  Intact'
<1>1. ProcessOK(p)'
  BY WriteOwn, RollbackOwn, OtherOwn DEF Step
<1> QED BY <1>1, ReceiptsStay, OthersStay DEF Intact

JournalInv == tampers = 0 => Intact

\* A store that nobody has damaged stays intact in every step.
LEMMA IntactNext ==
    ASSUME Sound, JournalInv, [Next]_vars
    PROVE  JournalInv'
<1> SUFFICES ASSUME tampers' = 0 PROVE Intact'
  BY DEF JournalInv
<1>1. tampers \in Nat
  BY EnvironmentBounds DEF Sound, Store, StoreTypes
<1>2. ASSUME NEW p \in Procs, Start(p) \/ Step(p) \/ Fail(p) PROVE Intact'
  BY <1>2, StepFrame, IntactStep DEF Frame, JournalInv
<1>3. CASE Edit \/ UNCHANGED vars
  <2>1. UNCHANGED <<journal, backup, nextId, pc, job, work>> /\ tampers' = tampers
    BY <1>3 DEF Edit, vars, store, procVars
  <2>2. Intact
    BY <2>1 DEF JournalInv
  <2>3. ASSUME NEW r PROVE Issued(r)' <=> Issued(r)
    BY <2>1 DEF Issued, Reserved
  <2>4. ASSUME NEW r PROVE Undoable(r)' <=> Undoable(r)
    BY <2>1, <2>3 DEF Undoable
  <2>5. ASSUME NEW r \in Ids PROVE ReceiptOK(r)'
    <3>1. ReceiptOK(r)
      BY <2>2 DEF Intact
    <3> QED BY <2>1, <2>3, <2>4, <3>1 DEF ReceiptOK, backup_ok
  <2>6. ASSUME NEW p \in Procs PROVE ProcessOK(p)'
    <3>1. ProcessOK(p)
      BY <2>2 DEF Intact
    <3> QED BY <2>1, <2>3, <2>4, <3>1
            DEF ProcessOK, ReservationOK, OwnOK, Describes, MemoryOK, Lasts, Unblocked, Blocking, ValidFor,
                Project, Path
  <2> QED BY <2>5, <2>6 DEF Intact
<1>4. CASE TamperReceipt \/ TamperBackup
  BY <1>1, <1>4 DEF TamperReceipt, TamperBackup
<1> QED BY <1>2, <1>3, <1>4 DEF Next, Environment

\* Hence every reachable undamaged store is intact.
LEMMA AlwaysIntact == Spec => []JournalInv
<1>1. Init => JournalInv
  BY StateFacts DEF Init, JournalInv, Intact, ReceiptOK, NoReceipt, ProcessOK, ReservationOK, OwnOK, MemoryOK,
                    Unblocked, SourceSteps, FinalizeSteps, INCOMPLETE_STATES
<1>2. Sound /\ JournalInv /\ [Next]_vars => JournalInv'
  BY IntactNext
<1> QED BY <1>1, <1>2, AlwaysSound, PTL DEF Spec

(***************************************************************************)
(* Write-ahead (store.py 420-520 save_preimage, 852-1000 rollback): before a *)
(* process touches a target, and until it has said so, a PREPARED receipt of *)
(* its own describes the change and the backup is on disk, whatever the      *)
(* other processes do and wherever they fail.                                *)
(***************************************************************************)
THEOREM WrittenAhead == Spec => []WriteAhead
<1>1. JournalInv => WriteAhead
  BY DEF JournalInv, Intact, ProcessOK, OwnOK, Describes, WriteAhead
<1> QED BY <1>1, AlwaysIntact, PTL

(***************************************************************************)
(* No receipt that a rollback may still use has lost its backup (save_       *)
(* preimage writes the backup first, prune deletes it last), at any point at *)
(* which a process may fail.                                                 *)
(***************************************************************************)
THEOREM BackupsKept == Spec => []BackupBehindReceipt
<1>1. JournalInv => BackupBehindReceipt
  BY DEF JournalInv, Intact, ReceiptOK, BackupBehindReceipt
<1> QED BY <1>1, AlwaysIntact, PTL

(***************************************************************************)
(* From the check of fs_write to the replacement no receipt of the target    *)
(* is RECOVERY_REQUIRED (executor.py 562-581): another process can reach     *)
(* that verdict only under the lock that the writer holds.                   *)
(***************************************************************************)
THEOREM NoBlockedWrite == Spec => []BlockedNotWritten
<1>1. JournalInv => BlockedNotWritten
  BY DEF JournalInv, Intact, ProcessOK, Unblocked, BlockedNotWritten
<1> QED BY <1>1, AlwaysIntact, PTL

(***************************************************************************)
(* The life of a receipt (store.py 3-11): whatever processes interleave and  *)
(* fail, a settled receipt is not reopened, RECOVERY_REQUIRED stays, and     *)
(* only terminal receipts are pruned.                                        *)
(***************************************************************************)
THEOREM Lifecycle == Spec => ReceiptLifecycle
<1> DEFINE A == tampers' = 0 => \A r \in Ids : Succeeds(journal[r].state, journal'[r].state)
<1>1. ASSUME Sound, JournalInv, [Next]_vars PROVE A
  <2> SUFFICES ASSUME tampers' = 0, NEW r \in Ids
               PROVE  Succeeds(journal[r].state, journal'[r].state)
    OBVIOUS
  <2>1. ASSUME NEW p \in Procs, Start(p) \/ Step(p) \/ Fail(p)
        PROVE  Succeeds(journal[r].state, journal'[r].state)
    <3>1. Intact
      BY <1>1, <2>1, StepFrame DEF Frame, JournalInv
    <3>2. Changes(p, r) /\ ReceiptOK(r) /\ ProcessOK(p)
      BY <1>1, <2>1, <3>1, JournalChanges DEF StepChanges, Intact
    <3>3. Prunes(p, r) => journal[r].state \in TERMINAL_STATES \cup {"NONE"} /\ journal'[r].state = "NONE"
      BY <3>2 DEF Prunes, ProcessOK, MemoryOK, Lasts, NoReceipt
    <3> QED BY <3>2, <3>3 DEF Changes, Undoes, Undoable, Settles, Advances, Opens, ReceiptOK, Succeeds
  <2>2. CASE Edit \/ TamperBackup \/ UNCHANGED vars
    BY <2>2 DEF Edit, TamperBackup, vars, store, Succeeds
  <2>3. CASE TamperReceipt
    BY <1>1, <2>3, EnvironmentBounds DEF TamperReceipt, Sound, Store, StoreTypes
  <2> QED BY <1>1, <2>1, <2>2, <2>3 DEF Next, Environment
<1>2. Sound /\ JournalInv /\ [Next]_vars => [A]_vars
  BY <1>1
<1> QED BY <1>2, AlwaysSound, AlwaysIntact, PTL DEF Spec, ReceiptLifecycle
=============================================================================
