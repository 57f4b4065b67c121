--------------------------- MODULE HistoryProofs ---------------------------
(***************************************************************************)
(* Theorems about UndoHistory.  What recovery says of a write is true; a     *)
(* rollback that changes its target restores the image the newest standing   *)
(* write replaced; and the executor implements GovernedFile.  They rest on   *)
(* the journal and the lock discipline of ExecutorProofs.                    *)
(***************************************************************************)
EXTENDS ExecutorProofs, UndoHistory

----------------------------------------------------------------------------
\* The verdicts of recovery, on the history of UndoHistory.

\* What a write put on disk is there as long as its receipt says PREPARED, and
\* what it did not change was rightly settled.
WriteKnown(r) ==
    /\ ~Issued(r) => wrote[r] = Absent
    /\ journal[r].op = "FS_WRITE" /\ journal[r].state = "PREPARED" /\ wrote[r] # Absent =>
           disk[journal[r].path] = wrote[r]
    /\ journal[r].op = "FS_WRITE" /\ journal[r].state \in {"RECOVERED_UNAPPLIED", "SUPERSEDED"} =>
           wrote[r] \in {Absent, journal[r].pre}

KnownInv == /\ wrote \in [Ids -> Images]
            /\ edits = 0 /\ tampers = 0 => \A r \in Ids : WriteKnown(r)

\* A process about to replace its target does so or fails.
LEMMA Replacing ==
    ASSUME NEW p, pc[p] = "w_replace", Start(p) \/ Step(p) \/ Fail(p)
    PROVE  ReplaceTarget(p) \/ Fail(p)
BY DEF Start, StartWrite, StartRollback, StartRecover, PickPrunable, Acquire, Step, WriteStep, ReconcilePending,
       CheckWrite, SaveBackup, JournalPrepared, NoteReplaced, RecordPostimage, RollbackStep, CheckRollback,
       PeekTarget, SettlePending, MarkSuperseded, SelectAndJournal, RestoreTarget, CopyBackup, RollbackApplied,
       RollbackVerified, FinalizeSource, RecoverStep, ScanReceipt, LockReceipt, DecideLocked, EndRecover,
       PruneStep, PruneReceipt, PruneBackup, At

\* The history of writes grows with the replacement of a target only.
LEMMA WroteStep ==
    ASSUME Sound, NEW p \in Procs, Start(p) \/ Step(p) \/ Fail(p), Observe
    PROVE  \/ ReplaceTarget(p) /\ wrote' = [wrote EXCEPT ![work[p].rid] = job[p].data]
           \/ ~ReplaceTarget(p) /\ wrote' = wrote
<1>1. /\ pc \in [Procs -> Labels]
      /\ \A q \in Procs \ {p} : pc'[q] = pc[q]
  BY StepFrame DEF Frame, Sound, Control, ControlTypes
<1>2. ReplaceTarget(p) <=> Moves(p, "w_replace", "w_note")
  <2>1. ReplaceTarget(p) => Moves(p, "w_replace", "w_note")
    BY <1>1 DEF ReplaceTarget, At, Continue, Goto, Moves
  <2>2. Fail(p) => pc'[p] = "idle"
    BY <1>1 DEF Fail, Return, Goto
  <2> QED BY <2>1, <2>2, Replacing DEF Moves
<1>3. ASSUME NEW q \in Procs, ObserveWrite(q)
      PROVE  ReplaceTarget(p) /\ wrote' = [wrote EXCEPT ![work[p].rid] = job[p].data]
  <2>1. q = p
    BY <1>1, <1>3 DEF ObserveWrite, Moves
  <2> QED BY <1>2, <1>3, <2>1 DEF ObserveWrite
<1>4. ASSUME NEW q \in Procs, ObserveRestore(q) PROVE ~ReplaceTarget(p) /\ wrote' = wrote
  <2>1. q = p
    BY <1>1, <1>4 DEF ObserveRestore, Moves
  <2> QED BY <1>2, <1>4, <2>1 DEF ObserveRestore, Moves
<1> QED BY <1>2, <1>3, <1>4 DEF Observe

\* What the history knows of a write stays true in a step of a process.
LEMMA KnownStep ==
    ASSUME \A x, y \in Projects : x = y,
           Sound, OpenInv, Intact, wrote \in [Ids -> Images], \A i \in Ids : WriteKnown(i),
           NEW p \in Procs, Start(p) \/ Step(p) \/ Fail(p), Observe, NEW r \in Ids
    PROVE  WriteKnown(r)'
<1> DEFINE rid == work[p].rid
<1>0. /\ disk \in [Paths -> Images] /\ journal \in [Ids -> Receipt]
      /\ pc[p] \in WriteSteps \cup RollbackSteps => Project(p) \in Projects
      /\ journal[r].state # "NONE" => journal[r].project \in Projects /\ journal[r].path \in Paths
      /\ pc[p] \in OwnSteps => rid \in Ids
  BY DEF Sound, Store, StoreTypes, ReceiptsNamed, Control, LockDiscipline, LocalsNamed
<1>1. WriteKnown(r) /\ ProcessOK(p) /\ ReceiptOK(r) /\ (Issued(r) => Issued(r)')
  BY IssuedStays DEF Intact
<1>2. ASSUME pc[p] \in TouchSteps, journal[r].state = "PREPARED", journal[r].path = Path(p)
      PROVE  r = rid
  <2>1. pc[p] \in BusySteps /\ Project(p) \in Projects /\ journal[r].project \in Projects
    BY <1>0, <1>2 DEF TouchSteps, BusySteps, WriteSteps, RollbackSteps
  <2>2. journal[r].project = Project(p)
    BY <2>1
  <2>3. r \in PendingOf(p)
    BY <1>2, <2>2, PendingOfIsOpen DEF IsOpen, INCOMPLETE_STATES
  <2> QED BY <2>1, <2>3 DEF OpenInv, OnlyOwnOpen
<1>3. CASE ReplaceTarget(p)
  <2>1. /\ pc[p] = "w_replace" /\ journal' = journal /\ rid \in Ids /\ Path(p) \in Paths
        /\ disk' = [disk EXCEPT ![Path(p)] = job[p].data]
        /\ wrote' = [wrote EXCEPT ![rid] = job[p].data]
    BY <1>0, <1>3, WroteStep DEF ReplaceTarget, At, store, OwnSteps, Sound, Control, LockDiscipline, HoldsLock,
                                 LockedSteps, WriteSteps
  <2>2. journal[rid].state = "PREPARED" /\ journal[rid].path = Path(p)
    BY <1>1, <2>1 DEF ProcessOK, OwnOK, Describes
  <2>3. CASE r = rid
    <3>1. journal[r].state = "PREPARED" /\ journal[r].path = Path(p) /\ Issued(r)'
      BY <1>1, <2>2, <2>3 DEF ReceiptOK
    <3>2. wrote'[r] = job[p].data /\ disk'[Path(p)] = job[p].data
      BY <1>0, <2>1, <2>3
    <3> QED BY <2>1, <3>1, <3>2 DEF WriteKnown
  <2>4. CASE r # rid
    <3>1. wrote'[r] = wrote[r] /\ journal'[r] = journal[r]
      BY <2>1, <2>4
    <3>2. journal[r].state = "PREPARED" => disk'[journal[r].path] = disk[journal[r].path]
      BY <1>0, <1>2, <2>1, <2>4 DEF TouchSteps
    <3> QED BY <1>1, <3>1, <3>2 DEF WriteKnown
  <2> QED BY <2>3, <2>4
<1>4. CASE ~ReplaceTarget(p)
  <2>1. wrote' = wrote /\ Changes(p, r) /\ Frame(p)
    BY <1>4, WroteStep, JournalChanges, StepFrame DEF StepChanges
  <2>2. ~Issued(r)' => wrote'[r] = Absent
    BY <1>1, <2>1 DEF WriteKnown
  <2>3. ASSUME journal'[r].op = "FS_WRITE", journal'[r].state = "PREPARED", wrote[r] # Absent
        PROVE  disk'[journal'[r].path] = wrote[r]
    <3>1. journal'[r] = journal[r]
      BY <1>1, <2>1, <2>3
      DEF Changes, Prunes, NoReceipt, Undoes, Settles, Advances, Opens, WriteKnown
    <3>2. disk[journal[r].path] = wrote[r]
      BY <1>1, <2>3, <3>1 DEF WriteKnown
    <3>3. disk'[journal[r].path] = disk[journal[r].path]
      <4> SUFFICES ASSUME disk'[journal[r].path] # disk[journal[r].path] PROVE FALSE
        OBVIOUS
      <4>1. pc[p] \in TouchSteps /\ journal[r].path = Path(p)
        BY <1>0, <2>1, <2>3, <3>1 DEF Frame
      <4>2. pc[p] # "w_replace"
        BY <1>4, Replacing DEF Fail
      <4>3. r = rid
        BY <1>2, <2>3, <3>1, <4>1
      <4> QED BY <1>1, <2>3, <3>1, <4>1, <4>2, <4>3 DEF TouchSteps, ProcessOK, OwnOK, Describes
    <3> QED BY <3>1, <3>2, <3>3
  <2>4. ASSUME journal'[r].op = "FS_WRITE", journal'[r].state \in {"RECOVERED_UNAPPLIED", "SUPERSEDED"}
        PROVE  wrote[r] \in {Absent, journal'[r].pre}
    <3>1. (journal'[r] = journal[r]) \/ Settles(p, r)
      BY <2>1, <2>4 DEF Changes, Prunes, NoReceipt, Undoes, Opens
    <3> QED BY <1>1, <2>4, <3>1 DEF Settles, Advances, SameTransaction, WriteKnown
  <2> QED BY <2>1, <2>2, <2>3, <2>4 DEF WriteKnown
<1> QED BY <1>3, <1>4

\* So it does in every step.
LEMMA KnownNext ==
    ASSUME \A x, y \in Projects : x = y,
           Sound, OpenInv, JournalInv, KnownInv, [HNext]_hvars
    PROVE  KnownInv'
<1>1. edits \in Nat /\ tampers \in Nat /\ wrote \in [Ids -> Images]
  BY EnvironmentBounds DEF Sound, Store, StoreTypes, KnownInv
<1>2. ASSUME NEW p \in Procs, Start(p) \/ Step(p) \/ Fail(p), Observe PROVE KnownInv'
  <2>1. edits' = edits /\ tampers' = tampers
    BY <1>2, StepFrame DEF Frame
  <2>2. wrote' \in [Ids -> Images]
    BY <1>1, <1>2, WroteStep DEF Sound, Control, ControlTypes, Job
  <2> QED BY <1>1, <1>2, <2>1, <2>2, KnownStep DEF KnownInv, JournalInv
<1>3. ASSUME Environment, Observe PROVE KnownInv'
  <2>1. pc' = pc /\ ~(edits' = 0 /\ tampers' = 0)
    BY <1>1, <1>3 DEF Environment, Edit, TamperReceipt, TamperBackup, procVars
  <2>2. wrote' = wrote
    BY <1>3, <2>1 DEF Observe, ObserveWrite, ObserveRestore, Moves
  <2> QED BY <1>1, <2>1, <2>2 DEF KnownInv
<1>4. CASE UNCHANGED hvars
  BY <1>4 DEF hvars, vars, KnownInv, WriteKnown, Issued, Reserved
<1> QED BY <1>2, <1>3, <1>4 DEF HNext, Next

(***************************************************************************)
(* Recovery's verdicts are true (store.py _reconcile_one, _supersede_        *)
(* pending): for any number of writers, rollbacks and recoveries of the      *)
(* targets of a project, failing anywhere, a write settled as RECOVERED_     *)
(* UNAPPLIED or SUPERSEDED put nothing on disk that its preimage was not.    *)
(* A journal in which two projects name one target is left out: open         *)
(* receipts are looked up by project and path.                               *)
(***************************************************************************)
THEOREM TrueVerdicts ==
    ASSUME \A x, y \in Projects : x = y
    PROVE  HSpec => []VerdictsTrue
<1>1. HInit => Init
  BY DEF HInit
<1>2. [HNext]_hvars => [Next]_vars
  BY DEF HNext, hvars
<1>3. HInit => KnownInv
  BY DEF HInit, Init, KnownInv, WriteKnown, NoReceipt, Images
<1>4. Sound /\ OpenInv /\ JournalInv /\ KnownInv /\ [HNext]_hvars => KnownInv'
  BY KnownNext
<1>5. KnownInv => VerdictsTrue
  BY DEF KnownInv, WriteKnown, VerdictsTrue
<1>6. HSpec => Spec
  BY <1>1, <1>2, PTL DEF HSpec, Spec
<1> QED BY <1>3, <1>4, <1>5, <1>6, AlwaysSound, AlwaysOpen, AlwaysIntact, PTL DEF HSpec

----------------------------------------------------------------------------
(***************************************************************************)
(* The undo history.  The standing writes of a path form one chain through   *)
(* prev, in the order of their IDs; the undo stack is the preimages of those *)
(* that changed the target.  A path is in a state of this chain by what is   *)
(* open on it.                                                               *)
(***************************************************************************)
\* _finalize_rollback marks the source, its second write.
FinishSteps == FinalizeSteps \cup {"r_source"}

\* The receipts of q in one of these states.
On(q, S) == {r \in Ids : journal[r].path = q /\ journal[r].state \in S}
OpenOn(q) == On(q, INCOMPLETE_STATES)
StuckOn(q) == On(q, BLOCKING_STATES)
IsWrite(r) == journal[r].op = "FS_WRITE"

\* The writes of q that have been made and not undone.
Standing(q) == {r \in On(q, {"APPLIED", "VERIFIED"}) : IsWrite(r)}
Newest(q, t) == t \in Standing(q) \cup {NoId} /\ \A s \in Standing(q) : s <= t

\* 1 for a write that changed its target.
Alters(r) == IF journal[r].pre = journal[r].post THEN 0 ELSE 1

\* prev is the standing write before, whose postimage is the preimage.
Linked(q) ==
    \A s \in Standing(q) :
        /\ journal[s].prev < s /\ journal[s].post # Absent
        /\ journal[s].prev \in Standing(q) => journal[s].pre = journal[journal[s].prev].post
        /\ \A r \in Standing(q) : r < s =>
               /\ journal[s].prev \in Standing(q) /\ r <= journal[s].prev
               /\ \E u \in Standing(q) : journal[u].prev = r

\* h counts the standing writes up to r that changed the target.
Heights(h, q) ==
    \A s \in Standing(q) :
        /\ h[s] = (IF journal[s].prev \in Standing(q) THEN h[journal[s].prev] ELSE 0) + Alters(s)
        /\ \A r \in Standing(q) : r < s => h[r] <= h[s]

Chain(h, q, t) == Newest(q, t) /\ Linked(q) /\ Heights(h, q)

\* From the bottom, the undo stack is what these writes replaced.
Remembered(h, q) ==
    \A s \in Standing(q) :
        Alters(s) = 1 /\ h[s] <= Len(undo[q]) => undo[q][Len(undo[q]) + 1 - h[s]] = journal[s].pre

\* The target is as the newest standing write left it.
AtRest(h, q, t) == Len(undo[q]) = h[t] /\ (t # NoId => disk[q] = journal[t].post)

\* The target is as it was before the newest standing write, still VERIFIED.
PutBack(h, q, t) ==
    /\ t \in Standing(q) /\ journal[t].state = "VERIFIED"
    /\ disk[q] = journal[t].pre /\ Len(undo[q]) = h[t] - Alters(t)

\* A PREPARED write, before or after its replacement.
Intends(h, q, t, r) ==
    /\ journal[r].prev < r /\ t < r
    /\ t # NoId => journal[r].prev = t /\ journal[r].pre = journal[t].post
    /\ IF disk[q] = journal[r].pre THEN Len(undo[q]) = h[t]
       ELSE Len(undo[q]) = h[t] + 1 /\ Head(undo[q]) = journal[r].pre

\* An open rollback, before or after its restoration.
Reverts(h, q, t, r) ==
    /\ journal[r].rollback_of = t /\ t \in Standing(q) /\ journal[t].state = "VERIFIED"
    /\ journal[r].pre = journal[t].post
    /\ IF disk[q] = journal[t].post THEN Len(undo[q]) = h[t] ELSE PutBack(h, q, t)
    /\ journal[r].state = "APPLIED" => journal[r].post = journal[t].pre /\ disk[q] = journal[t].pre

OpenOK(h, q, t) ==
    \A r \in OpenOn(q) :
        /\ IsWrite(r) /\ journal[r].state = "PREPARED" => Intends(h, q, t, r)
        /\ IsWrite(r) /\ journal[r].state = "APPLIED" => r = t /\ AtRest(h, q, t)
        /\ ~IsWrite(r) => Reverts(h, q, t, r)

\* A target that needs an operator is not as the newest standing write left it.
StuckOK(q, t) ==
    StuckOn(q) # {} => OpenOn(q) = {} /\ (t # NoId => disk[q] # journal[t].post)

\* The writes of q about to be marked as undone.
Finishing(q) == {work[p].source : p \in {x \in Procs : pc[x] \in FinishSteps /\ Path(x) = q}}

Marked(q, s) == s \in On(q, {"ROLLED_BACK"})

FinishOK(h, q, t) ==
    /\ \A r \in On(q, {"VERIFIED"}) :
           ~IsWrite(r) => Marked(q, journal[r].rollback_of) \/ journal[r].rollback_of \in Finishing(q)
    /\ \A s \in Finishing(q) :
           Marked(q, s) \/ (s = t /\ PutBack(h, q, t) /\ OpenOn(q) = {} /\ StuckOn(q) = {})

\* A rollback has no place in the chain.
Unlinked(q) == \A r \in On(q, {"PREPARED", "APPLIED", "VERIFIED"}) : ~IsWrite(r) => journal[r].prev = NoId

QuietOK(h, q, t) ==
    OpenOn(q) = {} /\ StuckOn(q) = {} /\ (\A s \in Finishing(q) : Marked(q, s)) => AtRest(h, q, t)

Story(h, q, t) ==
    /\ Chain(h, q, t) /\ Remembered(h, q)
    /\ OpenOK(h, q, t) /\ StuckOK(q, t) /\ FinishOK(h, q, t) /\ QuietOK(h, q, t)
    /\ Unlinked(q)

Rank == {h \in [Ids \cup {NoId} -> Nat] : h[NoId] = 0}
Told(q) == \E h \in Rank, t \in Ids \cup {NoId} : Story(h, q, t)

\* The states of receipts that the story is about.
LIVE == {"PREPARED", "APPLIED", "VERIFIED", "RECOVERY_REQUIRED", "ROLLED_BACK"}

\* What p remembers of its path.
Recalls(p) ==
    LET rid == work[p].rid
    IN  /\ pc[p] = "w_prepare" => \A r \in Ids : journal[r].state # "NONE" /\ journal[r].path = Path(p) => r < rid
        /\ pc[p] = "w_record" => journal[rid].post = work[p].seen
        /\ pc[p] \in {"r_settle", "r_finalize", "r_supersede"} => work[p].seen = disk[Path(p)]
        /\ pc[p] \in SourceSteps \ {"r_source"} => work[p].want = journal[work[p].source].pre
        /\ pc[p] = "r_applied" => disk[Path(p)] = work[p].want
        /\ pc[p] \in WriteSteps => job[p].data \in Contents
        /\ pc[p] \notin PruneSteps

\* One project, no pruning, no other programs, and no failure between the two
\* terminal writes of a rollback.
Undisturbed ==
    /\ \A x, y \in Projects : x = y
    /\ "prune" \notin Ops /\ MaxEdits = 0 /\ MaxTampers = 0
    /\ FailPoints \cap FinishSteps = {}

\* What is known of the executor in every state.
Known ==
    /\ Sound /\ OpenInv /\ Intact /\ NoLostUpdate
    /\ \A p \in Procs : RestoredExactly(p)
    /\ undo \in [Paths -> Seq(Images)]

LEMMA Counters ==
    ASSUME Undisturbed, Sound
    PROVE  edits = 0 /\ tampers = 0
BY DEF Undisturbed, Sound, Store, StoreTypes

----------------------------------------------------------------------------
\* Looking at one path.

\* In one project, what is pending or blocking for a process is so on its path.
LEMMA PendingOn ==
    ASSUME Undisturbed, Known, NEW p \in Procs, pc[p] \in WriteSteps \cup RollbackSteps
    PROVE  /\ PendingOf(p) = OpenOn(Path(p))
           /\ Blocking(journal, Project(p), Path(p)) = StuckOn(Path(p))
           /\ \A r \in Ids : journal[r].state # "NONE" => journal[r].project = Project(p)
<1>1. Project(p) \in Projects
  BY DEF Known, Sound, Control, LockDiscipline
<1>2. ASSUME NEW r \in Ids, journal[r].state # "NONE" PROVE journal[r].project = Project(p)
  BY <1>1, <1>2 DEF Undisturbed, Known, Sound, Store, ReceiptsNamed
<1>3. "NONE" \notin KNOWN_STATES /\ INCOMPLETE_STATES \subseteq KNOWN_STATES /\ BLOCKING_STATES \subseteq KNOWN_STATES
  BY DEF KNOWN_STATES, INCOMPLETE_STATES, BLOCKING_STATES, TERMINAL_STATES
<1> QED BY <1>2, <1>3 DEF PendingOf, Pending, Blocking, ValidFor, OpenOn, StuckOn, On

\* One receipt is open on a path at most.
LEMMA OneOpen ==
    ASSUME Undisturbed, Known, NEW q, NEW i \in OpenOn(q), NEW j \in OpenOn(q)
    PROVE  i = j
<1>1. i \in Ids /\ j \in Ids /\ IsOpen(i) /\ IsOpen(j) /\ journal[i].path = journal[j].path
  BY DEF OpenOn, On, IsOpen
<1>2. journal[i].state # "NONE" /\ journal[j].state # "NONE"
  BY <1>1 DEF IsOpen, INCOMPLETE_STATES
<1>3. journal[i].project = journal[j].project
  BY <1>1, <1>2 DEF Undisturbed, Known, Sound, Store, ReceiptsNamed
<1> QED BY <1>1, <1>3 DEF Known, OpenInv, UniqueOpen

\* Whoever is inside the lock of a path is the only one who can be finishing there.
LEMMA FinishingOwn ==
    ASSUME Known, NEW p \in Procs, pc[p] \in LockedSteps, NEW q, q = Path(p)
    PROVE  q \in Paths /\ Finishing(q) = IF pc[p] \in FinishSteps THEN {work[p].source} ELSE {}
<1>1. FinishSteps \subseteq LockedSteps
  BY DEF FinishSteps, FinalizeSteps, LockedSteps, WriteSteps, RollbackSteps
<1>2. \A x \in Procs \ {p} : ~(pc[x] \in FinishSteps /\ Path(x) = q)
  BY <1>1, HoldersDiffer DEF Known
<1>3. q \in Paths
  BY DEF Known, Sound, Control, LockDiscipline, HoldsLock
<1> QED BY <1>2, <1>3 DEF Finishing

\* So it is after a step of that process.
LEMMA FinishingNext ==
    ASSUME Known, NEW p \in Procs, pc[p] \in LockedSteps, Frame(p),
           pc'[p] \in FinishSteps => job'[p] = job[p]
    PROVE  /\ \A q : q = Path(p) =>
                  Finishing(q)' = IF pc'[p] \in FinishSteps THEN {work'[p].source} ELSE {}
           /\ \A q : q # Path(p) => Finishing(q)' = Finishing(q)
<1>1. FinishSteps \subseteq LockedSteps
  BY DEF FinishSteps, FinalizeSteps, LockedSteps, WriteSteps, RollbackSteps
<1>2. ASSUME NEW x \in Procs \ {p}
      PROVE  pc'[x] = pc[x] /\ Path(x)' = Path(x) /\ work'[x] = work[x]
  BY DEF Frame, Path
<1>3. ASSUME NEW q, q = Path(p)
      PROVE  Finishing(q)' = IF pc'[p] \in FinishSteps THEN {work'[p].source} ELSE {}
  <2>1. \A x \in Procs \ {p} : ~(pc[x] \in FinishSteps /\ Path(x) = q)
    BY <1>1, <1>3, HoldersDiffer DEF Known
  <2>2. pc'[p] \in FinishSteps => Path(p)' = q
    BY <1>3 DEF Path
  <2> QED BY <1>2, <2>1, <2>2 DEF Finishing
<1>4. ASSUME NEW q, q # Path(p) PROVE Finishing(q)' = Finishing(q)
  <2>1. pc'[p] \in FinishSteps => Path(p)' # q
    BY <1>4 DEF Path
  <2>2. ASSUME NEW x \in Procs PROVE (pc[x] \in FinishSteps /\ Path(x) = q)' <=> (pc[x] \in FinishSteps /\ Path(x) = q)
    BY <1>2, <1>4, <2>1
  <2> QED BY <1>2, <1>4, <2>2 DEF Finishing
<1> QED BY <1>3, <1>4

----------------------------------------------------------------------------
\* What leaves the story of a path alone.

\* The chain is told by the standing writes and their images.
LEMMA ChainKept ==
    ASSUME NEW h, NEW q, NEW t, Chain(h, q, t), Standing(q)' = Standing(q),
           \A s \in Standing(q) : /\ journal'[s].pre = journal[s].pre /\ journal'[s].post = journal[s].post
                                  /\ journal'[s].prev = journal[s].prev
    PROVE  /\ Chain(h, q, t)'
           /\ \A s \in Standing(q) : Alters(s)' = Alters(s)
<1>1. \A s \in Standing(q) : Alters(s)' = Alters(s)
  BY DEF Alters
<1>2. Newest(q, t)'
  BY DEF Chain, Newest
<1>3. Linked(q)'
  BY DEF Chain, Linked
<1>4. Heights(h, q)'
  BY <1>1 DEF Chain, Heights
<1> QED BY <1>1, <1>2, <1>3, <1>4 DEF Chain

\* So is what the undo stack holds.
LEMMA RememberedKept ==
    ASSUME NEW h, NEW q, NEW t, Chain(h, q, t), Remembered(h, q), Standing(q)' = Standing(q),
           \A s \in Standing(q) : /\ journal'[s].pre = journal[s].pre /\ journal'[s].post = journal[s].post
                                  /\ journal'[s].prev = journal[s].prev,
           undo'[q] = undo[q]
    PROVE  Remembered(h, q)'
BY ChainKept DEF Remembered

(***************************************************************************)
(* Nothing changes for a path when its live receipts, its target and its     *)
(* undo stack stay, and no unmarked source is taken up or dropped.           *)
(***************************************************************************)
LEMMA StoryKept ==
    ASSUME NEW h, NEW q, NEW t, Story(h, q, t), disk'[q] = disk[q], undo'[q] = undo[q],
           \A r \in Ids : r \in On(q, LIVE) \/ r \in On(q, LIVE)' => journal'[r] = journal[r],
           \A s : ~Marked(q, s) => (s \in Finishing(q) <=> s \in Finishing(q)')
    PROVE  Story(h, q, t)'
<1>1. ASSUME NEW S \in SUBSET LIVE PROVE On(q, S)' = On(q, S)
  BY DEF On
<1>2. ASSUME NEW S \in SUBSET LIVE, NEW r \in On(q, S) PROVE journal'[r] = journal[r] /\ (IsWrite(r)' <=> IsWrite(r))
  BY DEF On, IsWrite
<1>3. OpenOn(q)' = OpenOn(q) /\ \A r \in OpenOn(q) : journal'[r] = journal[r] /\ (IsWrite(r)' <=> IsWrite(r))
  BY <1>1, <1>2 DEF OpenOn, INCOMPLETE_STATES, LIVE
<1>4. StuckOn(q)' = StuckOn(q)
  BY <1>1 DEF StuckOn, BLOCKING_STATES, LIVE
<1>5. /\ On(q, {"VERIFIED"})' = On(q, {"VERIFIED"})
      /\ \A r \in On(q, {"VERIFIED"}) : journal'[r] = journal[r] /\ (IsWrite(r)' <=> IsWrite(r))
  BY <1>1, <1>2 DEF LIVE
<1>6. \A s : Marked(q, s)' <=> Marked(q, s)
  BY <1>1 DEF Marked, LIVE
<1>7. Standing(q)' = Standing(q) /\ \A s \in Standing(q) : journal'[s] = journal[s]
  <2>1. {"APPLIED", "VERIFIED"} \in SUBSET LIVE
    BY DEF LIVE
  <2> QED BY <1>1, <1>2, <2>1 DEF Standing
<1>8. Chain(h, q, t)' /\ Remembered(h, q)'
  BY <1>7, ChainKept, RememberedKept DEF Story
<1>9. t \in Standing(q) \cup {NoId} /\ (t # NoId => journal'[t] = journal[t] /\ Alters(t)' = Alters(t))
  BY <1>7 DEF Story, Chain, Newest, Alters
<1>10. (AtRest(h, q, t)' <=> AtRest(h, q, t)) /\ (PutBack(h, q, t)' <=> PutBack(h, q, t))
  BY <1>7, <1>9 DEF AtRest, PutBack, Alters
<1>11. OpenOK(h, q, t)'
  <2> SUFFICES ASSUME NEW r \in OpenOn(q)
               PROVE  /\ IsWrite(r)' /\ journal'[r].state = "PREPARED" => Intends(h, q, t, r)'
                      /\ IsWrite(r)' /\ journal'[r].state = "APPLIED" => r = t /\ AtRest(h, q, t)'
                      /\ ~IsWrite(r)' => Reverts(h, q, t, r)'
    BY <1>3 DEF OpenOK
  <2>1. journal'[r] = journal[r] /\ (IsWrite(r)' <=> IsWrite(r))
    BY <1>3
  <2>2. Intends(h, q, t, r) => Intends(h, q, t, r)'
    BY <1>9, <2>1 DEF Intends
  <2>3. Reverts(h, q, t, r) => Reverts(h, q, t, r)'
    BY <1>7, <1>9, <1>10, <2>1 DEF Reverts
  <2> QED BY <1>10, <2>1, <2>2, <2>3 DEF Story, OpenOK
<1>12. StuckOK(q, t)'
  BY <1>3, <1>4, <1>9 DEF Story, StuckOK
<1>13. FinishOK(h, q, t)'
  BY <1>3, <1>4, <1>5, <1>6, <1>10 DEF Story, FinishOK
<1>14. QuietOK(h, q, t)'
  BY <1>3, <1>4, <1>6, <1>10 DEF Story, QuietOK
<1>15. Unlinked(q)'
  <2>1. {"PREPARED", "APPLIED", "VERIFIED"} \in SUBSET LIVE
    BY DEF LIVE
  <2> QED BY <1>1, <1>2, <2>1 DEF Story, Unlinked
<1> QED BY <1>8, <1>11, <1>12, <1>13, <1>14, <1>15 DEF Story

----------------------------------------------------------------------------
\* Settling the open receipt of a path.

\* Only r changes, by its state, and a write that was applied keeps its postimage.
OnlyState(r) ==
    /\ \A i \in Ids \ {r} : journal'[i] = journal[i]
    /\ SameTransaction(r) /\ journal'[r].prev = journal[r].prev
    /\ IsWrite(r) /\ journal[r].state = "APPLIED" => journal'[r].post = journal[r].post

\* The verdict on r is what the target says.
TrueVerdict(q, r) ==
    \/ journal[r].state = "PREPARED" /\ journal'[r].state = "RECOVERED_UNAPPLIED" /\ disk[q] = journal[r].pre
    \/ journal[r].state = "PREPARED" /\ journal'[r].state = "RECOVERY_REQUIRED" /\ disk[q] # journal[r].pre
    \/ journal[r].state = "APPLIED" /\ journal'[r].state = "VERIFIED"

LEMMA StorySettled ==
    ASSUME NEW q, NEW h \in Rank, NEW t \in Ids \cup {NoId}, Story(h, q, t), undo \in [Paths -> Seq(Images)], q \in Paths,
           NEW r, OpenOn(q) = {r}, OnlyState(r), TrueVerdict(q, r),
           disk'[q] = disk[q], undo'[q] = undo[q], Finishing(q) = {},
           Finishing(q)' = IF journal'[r].state = "VERIFIED" /\ ~IsWrite(r) THEN {journal[r].rollback_of} ELSE {}
    PROVE  Story(h, q, t)'
<1>1. /\ r \in Ids /\ journal[r].path = q /\ journal'[r].path = q
      /\ (IsWrite(r)' <=> IsWrite(r)) /\ journal'[r].rollback_of = journal[r].rollback_of
      /\ journal[r].state \in {"PREPARED", "APPLIED"}
      /\ journal'[r].state \in {"RECOVERED_UNAPPLIED", "RECOVERY_REQUIRED", "VERIFIED"}
      /\ \A i \in Ids \ {r} : journal'[i] = journal[i]
  BY DEF OpenOn, On, IsWrite, OnlyState, SameTransaction, TrueVerdict, INCOMPLETE_STATES
<1>2. \A i \in Ids \ {r} : (IsWrite(i)' <=> IsWrite(i))
  BY <1>1 DEF IsWrite
<1>3. OpenOn(q)' = {}
  BY <1>1 DEF OpenOn, On, INCOMPLETE_STATES
<1>4. StuckOn(q) = {} /\ StuckOn(q)' = IF journal'[r].state = "RECOVERY_REQUIRED" THEN {r} ELSE {}
  <2>1. StuckOn(q) = {}
    BY DEF Story, StuckOK
  <2> QED BY <1>1, <2>1 DEF StuckOn, On, BLOCKING_STATES
<1>5. Standing(q)' = Standing(q)
  <2>1. IsWrite(r) /\ journal[r].state = "PREPARED" => r \notin Standing(q) /\ r \notin Standing(q)'
    BY <1>1 DEF Standing, On, TrueVerdict
  <2>2. IsWrite(r) /\ journal[r].state = "APPLIED" => r \in Standing(q) /\ r \in Standing(q)'
    BY <1>1 DEF Standing, On, TrueVerdict
  <2>3. \A i \in Ids \ {r} : i \in Standing(q)' <=> i \in Standing(q)
    BY <1>1, <1>2 DEF Standing, On
  <2>4. Standing(q) \subseteq Ids /\ Standing(q)' \subseteq Ids
    BY DEF Standing, On
  <2>5. ~IsWrite(r) => r \notin Standing(q) /\ r \notin Standing(q)'
    BY <1>1 DEF Standing
  <2>6. r \in Standing(q)' <=> r \in Standing(q)
    BY <1>1, <2>1, <2>2, <2>5
  <2>7. \A i : i \in Standing(q)' <=> i \in Standing(q)
    <3> SUFFICES ASSUME NEW i PROVE i \in Standing(q)' <=> i \in Standing(q)
      OBVIOUS
    <3> QED BY <2>3, <2>4, <2>6
  <2> QED BY <2>7
<1>6. \A s \in Standing(q) : /\ journal'[s].pre = journal[s].pre /\ journal'[s].post = journal[s].post
                             /\ journal'[s].prev = journal[s].prev
  <2>1. r \in Standing(q) => IsWrite(r) /\ journal[r].state = "APPLIED"
    BY <1>1 DEF Standing, On
  <2>2. Standing(q) \subseteq Ids
    BY DEF Standing, On
  <2> QED BY <1>1, <2>1, <2>2 DEF OnlyState, SameTransaction
<1>7. Chain(h, q, t)' /\ Remembered(h, q)' /\ \A s \in Standing(q) : Alters(s)' = Alters(s)
  BY <1>5, <1>6, ChainKept, RememberedKept DEF Story
<1>8. t \in Standing(q) \cup {NoId} /\ (t # NoId => journal'[t].pre = journal[t].pre /\ journal'[t].post = journal[t].post)
  BY <1>6 DEF Story, Chain, Newest
<1>9. ASSUME AtRest(h, q, t) PROVE AtRest(h, q, t)'
  BY <1>8, <1>9 DEF AtRest
<1>10. \A s : Marked(q, s)' <=> Marked(q, s)
  BY <1>1 DEF Marked, On
<1>11. OpenOK(h, q, t)'
  BY <1>3 DEF OpenOK
<1>12. Unlinked(q)'
  <2>1. \A i \in On(q, {"PREPARED", "APPLIED", "VERIFIED"})' :
          i \in On(q, {"PREPARED", "APPLIED", "VERIFIED"}) /\ journal'[i].prev = journal[i].prev /\ (IsWrite(i)' <=> IsWrite(i))
    <3>1. r \in On(q, {"PREPARED", "APPLIED", "VERIFIED"}) /\ journal'[r].prev = journal[r].prev
      BY <1>1 DEF On, OnlyState
    <3>2. \A i \in On(q, {"PREPARED", "APPLIED", "VERIFIED"})' \ {r} :
            i \in On(q, {"PREPARED", "APPLIED", "VERIFIED"}) /\ journal'[i].prev = journal[i].prev
      BY <1>1 DEF On
    <3>3. \A i \in On(q, {"PREPARED", "APPLIED", "VERIFIED"})' : IsWrite(i)' <=> IsWrite(i)
      BY <1>1, <1>2 DEF On
    <3> QED BY <3>1, <3>2, <3>3
  <2> QED BY <2>1 DEF Story, Unlinked
<1>13. \A i \in On(q, {"VERIFIED"})' \ {r} :
         i \in On(q, {"VERIFIED"}) /\ journal'[i] = journal[i] /\ (IsWrite(i)' <=> IsWrite(i))
  BY <1>1, <1>2 DEF On
<1>14. \A i \in On(q, {"VERIFIED"})' \ {r} : ~IsWrite(i)' => Marked(q, journal[i].rollback_of)' /\ journal'[i] = journal[i]
  BY <1>10, <1>13 DEF Story, FinishOK
<1>15. CASE IsWrite(r) /\ journal[r].state = "PREPARED"
  <2>1. Intends(h, q, t, r) /\ Finishing(q)' = {} /\ journal'[r].state # "VERIFIED"
    BY <1>1, <1>15 DEF Story, OpenOK, TrueVerdict
  <2>2. FinishOK(h, q, t)'
    <3>1. r \notin On(q, {"VERIFIED"})'
      BY <2>1 DEF On
    <3> QED BY <1>14, <2>1, <3>1 DEF FinishOK
  <2>3. StuckOK(q, t)'
    <3> SUFFICES ASSUME journal'[r].state = "RECOVERY_REQUIRED", t # NoId PROVE disk[q] # journal[t].post
      BY <1>3, <1>4, <1>8 DEF StuckOK
    <3> QED BY <1>1, <2>1 DEF Intends, TrueVerdict
  <2>4. QuietOK(h, q, t)'
    <3> SUFFICES ASSUME journal'[r].state # "RECOVERY_REQUIRED" PROVE AtRest(h, q, t)'
      BY <1>4 DEF QuietOK
    <3>1. disk[q] = journal[r].pre
      BY <1>15 DEF TrueVerdict
    <3>2. AtRest(h, q, t)
      BY <2>1, <3>1 DEF Intends, AtRest
    <3> QED BY <1>9, <3>2
  <2> QED BY <1>7, <1>11, <1>12, <2>2, <2>3, <2>4 DEF Story
<1>16. CASE IsWrite(r) /\ journal[r].state = "APPLIED"
  <2>1. AtRest(h, q, t)' /\ Finishing(q)' = {} /\ StuckOn(q)' = {}
    BY <1>4, <1>9, <1>16 DEF Story, OpenOK, TrueVerdict
  <2>2. FinishOK(h, q, t)'
    BY <1>1, <1>14, <1>16, <2>1 DEF FinishOK
  <2> QED BY <1>7, <1>11, <1>12, <2>1, <2>2 DEF Story, StuckOK, QuietOK
<1>17. CASE ~IsWrite(r)
  <2>1. Reverts(h, q, t, r) /\ t \in Standing(q) /\ journal[t].state = "VERIFIED" /\ t # NoId /\ t # r
    <3>1. Reverts(h, q, t, r)
      BY <1>17 DEF Story, OpenOK
    <3>2. t \in Standing(q) /\ journal[t].state = "VERIFIED" /\ t \in Ids
      BY <3>1 DEF Reverts, Standing, On
    <3> QED BY <1>17, <3>1, <3>2 DEF Standing, Ids, NoId
  <2>2. journal'[t] = journal[t]
    BY <1>1, <2>1 DEF Standing, On
  <2>3. CASE journal'[r].state = "RECOVERED_UNAPPLIED"
    <3>1. AtRest(h, q, t)'
      BY <1>9, <2>1, <2>3 DEF TrueVerdict, Reverts, AtRest
    <3>2. FinishOK(h, q, t)'
      <4>1. r \notin On(q, {"VERIFIED"})' /\ Finishing(q)' = {}
        BY <2>3 DEF On
      <4> QED BY <1>14, <4>1 DEF FinishOK
    <3> QED BY <1>4, <1>7, <1>11, <1>12, <2>3, <3>1, <3>2 DEF Story, StuckOK, QuietOK
  <2>4. CASE journal'[r].state = "RECOVERY_REQUIRED"
    <3>1. disk[q] # journal[t].post
      BY <2>1, <2>4 DEF TrueVerdict, Reverts
    <3>2. FinishOK(h, q, t)'
      <4>1. r \notin On(q, {"VERIFIED"})' /\ Finishing(q)' = {}
        BY <2>4 DEF On
      <4> QED BY <1>14, <4>1 DEF FinishOK
    <3>3. StuckOK(q, t)' /\ QuietOK(h, q, t)'
      BY <1>3, <1>4, <1>8, <2>4, <3>1 DEF StuckOK, QuietOK
    <3> QED BY <1>7, <1>11, <1>12, <3>2, <3>3 DEF Story
  <2>5. CASE journal'[r].state = "VERIFIED"
    <3>1. journal[r].state = "APPLIED" /\ Finishing(q)' = {t} /\ journal[r].rollback_of = t
      BY <1>17, <2>1, <2>5 DEF TrueVerdict, Reverts
    <3>2. PutBack(h, q, t)
      <4>1. disk[q] = journal[t].pre
        BY <2>1, <3>1 DEF Reverts
      <4>2. CASE disk[q] = journal[t].post
        BY <2>1, <4>1, <4>2 DEF Reverts, PutBack, Alters, Rank
      <4> QED BY <2>1, <4>2 DEF Reverts
    <3>3. PutBack(h, q, t)'
      BY <1>5, <1>7, <2>1, <2>2, <3>2 DEF PutBack
    <3>4. FinishOK(h, q, t)'
      BY <1>1, <1>3, <1>4, <1>14, <2>5, <3>1, <3>3 DEF FinishOK
    <3>5. ~Marked(q, t)'
      BY <2>1, <2>2 DEF Marked, On
    <3>6. StuckOK(q, t)' /\ QuietOK(h, q, t)'
      BY <1>4, <2>5, <3>1, <3>5 DEF StuckOK, QuietOK
    <3> QED BY <1>7, <1>11, <1>12, <3>4, <3>6 DEF Story
  <2> QED BY <1>1, <2>3, <2>4, <2>5
<1> QED BY <1>1, <1>15, <1>16, <1>17

----------------------------------------------------------------------------
\* Changing the target of a path.

\* An image on top of a stack.
LEMMA Pushed ==
    ASSUME NEW T, NEW u \in Seq(T), NEW x \in T, NEW v, v = <<x>> \o u
    PROVE  /\ v \in Seq(T) /\ Len(v) = Len(u) + 1 /\ Head(v) = x /\ v[1] = x
           /\ \A k \in 1..Len(u) : v[k + 1] = u[k]
OBVIOUS

\* A stack without its top.
LEMMA Popped ==
    ASSUME NEW T, NEW u \in Seq(T), u # <<>>
    PROVE  /\ Tail(u) \in Seq(T) /\ Len(Tail(u)) = Len(u) - 1 /\ Len(u) >= 1 /\ Head(u) = u[1]
           /\ \A k \in 1..(Len(u) - 1) : Tail(u)[k] = u[k + 1]
OBVIOUS

\* The ranks of standing writes are numbers, the newest has the highest.
LEMMA Ranked ==
    ASSUME NEW h \in Rank, NEW q, NEW t \in Ids \cup {NoId}, Chain(h, q, t), NEW s \in Standing(q)
    PROVE  /\ h[s] \in Nat /\ h[t] \in Nat /\ h[s] <= h[t] /\ Alters(s) \in {0, 1}
           /\ s \in Ids /\ t \in Standing(q) /\ (Alters(s) = 1 => h[s] >= 1)
<1>1. s \in Ids /\ s \in Nat /\ Alters(s) \in {0, 1}
  BY DEF Standing, On, Alters, Ids
<1>2. t \in Standing(q) /\ s <= t /\ t \in Nat
  BY <1>1 DEF Chain, Newest, NoId, Ids
<1>3. s < t \/ s = t
  BY <1>1, <1>2
<1>4. h[s] \in Nat /\ h[t] \in Nat
  BY <1>1 DEF Rank
<1>5. h[s] <= h[t]
  <2>1. \A r \in Standing(q) : r < t => h[r] <= h[t]
    BY <1>2 DEF Chain, Heights
  <2> QED BY <1>3, <1>4, <2>1
<1>6. ASSUME Alters(s) = 1 PROVE h[s] >= 1
  <2>1. h[s] = (IF journal[s].prev \in Standing(q) THEN h[journal[s].prev] ELSE 0) + Alters(s)
    BY DEF Chain, Heights
  <2>2. journal[s].prev \in Standing(q) => h[journal[s].prev] \in Nat
    BY DEF Rank, Standing, On
  <2> QED BY <1>4, <1>6, <2>1, <2>2
<1> QED BY <1>1, <1>2, <1>4, <1>5, <1>6

\* A rollback about to change its target finds the preimage of the newest write
\* on top of the stack.
LEMMA TopRemembered ==
    ASSUME NEW h \in Rank, NEW q \in Paths, NEW t \in Ids \cup {NoId}, Story(h, q, t),
           undo \in [Paths -> Seq(Images)], t \in Standing(q), Len(undo[q]) = h[t], Alters(t) = 1
    PROVE  undo[q] # <<>> /\ Head(undo[q]) = journal[t].pre /\ h[t] >= 1
<1>1. h[t] >= 1 /\ h[t] \in Nat
  BY Ranked DEF Story
<1>2. undo[q][Len(undo[q]) + 1 - h[t]] = journal[t].pre
  BY <1>1 DEF Story, Remembered
<1>3. undo[q][1] = journal[t].pre
  BY <1>1, <1>2
<1>4. undo[q] # <<>>
  BY <1>1
<1> QED BY <1>1, <1>3, <1>4, Popped

\* The journal stays, and nothing is being finished.
LEMMA JournalStays ==
    ASSUME NEW q, NEW h, NEW t, Story(h, q, t), journal' = journal, Finishing(q) = {}, Finishing(q)' = {}
    PROVE  /\ Chain(h, q, t)' /\ OpenOn(q)' = OpenOn(q) /\ StuckOn(q)' = StuckOn(q) /\ Standing(q)' = Standing(q)
           /\ Unlinked(q)' /\ FinishOK(h, q, t)'
           /\ \A r : (IsWrite(r)' <=> IsWrite(r)) /\ Alters(r)' = Alters(r)
<1>1. \A S : On(q, S)' = On(q, S)
  BY DEF On
<1>2. Standing(q)' = Standing(q) /\ OpenOn(q)' = OpenOn(q) /\ StuckOn(q)' = StuckOn(q)
  BY <1>1 DEF Standing, OpenOn, StuckOn, IsWrite
<1>3. Chain(h, q, t)'
  BY <1>2, ChainKept DEF Story
<1>4. Unlinked(q)'
  BY <1>1 DEF Story, Unlinked, IsWrite
<1>5. FinishOK(h, q, t)'
  BY <1>1 DEF Story, FinishOK, Marked, IsWrite
<1> QED BY <1>2, <1>3, <1>4, <1>5 DEF IsWrite, Alters

\* A write replaces the target.
LEMMA StoryReplaced ==
    ASSUME NEW q \in Paths, NEW h \in Rank, NEW t \in Ids \cup {NoId}, Story(h, q, t),
           undo \in [Paths -> Seq(Images)], disk[q] \in Images,
           NEW r, OpenOn(q) = {r}, IsWrite(r), journal[r].state = "PREPARED", disk[q] = journal[r].pre,
           disk'[q] # disk[q], undo'[q] = <<disk[q]>> \o undo[q],
           journal' = journal, Finishing(q) = {}, Finishing(q)' = {}
    PROVE  Story(h, q, t)'
<1>1. /\ Chain(h, q, t)' /\ OpenOn(q)' = {r} /\ StuckOn(q)' = {} /\ Standing(q)' = Standing(q)
      /\ Unlinked(q)' /\ FinishOK(h, q, t)' /\ IsWrite(r)'
      /\ \A s : Alters(s)' = Alters(s)
  BY JournalStays DEF Story, StuckOK
<1>2. Intends(h, q, t, r) /\ undo[q] \in Seq(Images) /\ Len(undo[q]) = h[t] /\ h[t] \in Nat
  BY DEF Story, OpenOK, Intends, Rank
<1>3. /\ Len(undo'[q]) = Len(undo[q]) + 1 /\ Head(undo'[q]) = disk[q]
      /\ \A k \in 1..Len(undo[q]) : undo'[q][k + 1] = undo[q][k]
  BY <1>2, Pushed
<1>4. OpenOK(h, q, t)'
  <2>1. Intends(h, q, t, r)'
    BY <1>2, <1>3 DEF Intends
  <2> QED BY <1>1, <2>1 DEF OpenOK
<1>5. Remembered(h, q)'
  <2> SUFFICES ASSUME NEW s \in Standing(q), Alters(s) = 1
               PROVE  undo'[q][Len(undo'[q]) + 1 - h[s]] = journal[s].pre
    BY <1>1 DEF Remembered
  <2>1. h[s] \in Nat /\ h[s] >= 1 /\ h[s] <= Len(undo[q])
    BY <1>2, Ranked DEF Story
  <2>2. undo[q][Len(undo[q]) + 1 - h[s]] = journal[s].pre
    BY <2>1 DEF Story, Remembered
  <2> DEFINE k == Len(undo[q]) + 1 - h[s]
  <2>3. k \in 1..Len(undo[q]) /\ Len(undo'[q]) + 1 - h[s] = k + 1
    <3>1. PICK n \in Nat : n = Len(undo[q])
      BY <1>2
    <3>2. Len(undo'[q]) = n + 1
      BY <1>3, <3>1
    <3> QED BY <2>1, <3>1, <3>2
  <2> HIDE DEF k
  <2>4. undo'[q][k + 1] = undo[q][k]
    BY <1>3, <2>3
  <2> QED BY <2>2, <2>3, <2>4 DEF k
<1> QED BY <1>1, <1>4, <1>5 DEF Story, StuckOK, QuietOK

\* A rollback restores the target.
LEMMA StoryRestored ==
    ASSUME NEW q \in Paths, NEW h \in Rank, NEW t \in Ids \cup {NoId}, Story(h, q, t),
           undo \in [Paths -> Seq(Images)],
           NEW r, OpenOn(q) = {r}, ~IsWrite(r), journal[r].state = "PREPARED", disk[q] = journal[r].pre,
           disk'[q] = journal[t].pre, disk'[q] # disk[q],
           undo[q] # <<>> => undo'[q] = Tail(undo[q]),
           journal' = journal, Finishing(q) = {}, Finishing(q)' = {}
    PROVE  Story(h, q, t)'
<1>1. /\ Chain(h, q, t)' /\ OpenOn(q)' = {r} /\ StuckOn(q)' = {} /\ Standing(q)' = Standing(q)
      /\ Unlinked(q)' /\ FinishOK(h, q, t)' /\ ~IsWrite(r)'
      /\ \A s : Alters(s)' = Alters(s)
  BY JournalStays DEF Story, StuckOK
<1>2. Reverts(h, q, t, r) /\ undo[q] \in Seq(Images)
  BY DEF Story, OpenOK
<1>3. /\ t \in Standing(q) /\ Len(undo[q]) = h[t] /\ Alters(t) = 1 /\ h[t] \in Nat
      /\ disk[q] = journal[t].post /\ journal[t].state = "VERIFIED"
  BY <1>2 DEF Reverts, Alters, Rank
<1>4. undo[q] # <<>> /\ h[t] >= 1
  BY <1>3, TopRemembered
<1>5. /\ Len(undo'[q]) = Len(undo[q]) - 1
      /\ \A k \in 1..(Len(undo[q]) - 1) : undo'[q][k] = undo[q][k + 1]
  BY <1>2, <1>4, Popped
<1>6. PutBack(h, q, t)'
  BY <1>1, <1>3, <1>5 DEF PutBack
<1>7. OpenOK(h, q, t)'
  <2>1. Reverts(h, q, t, r)'
    BY <1>1, <1>2, <1>3, <1>6 DEF Reverts
  <2> QED BY <1>1, <2>1 DEF OpenOK
<1>8. Remembered(h, q)'
  <2> SUFFICES ASSUME NEW s \in Standing(q), Alters(s) = 1, h[s] <= Len(undo'[q])
               PROVE  undo'[q][Len(undo'[q]) + 1 - h[s]] = journal[s].pre
    BY <1>1 DEF Remembered
  <2>1. h[s] \in Nat /\ h[s] >= 1 /\ h[s] <= Len(undo[q]) - 1
    BY <1>3, <1>5, Ranked DEF Story
  <2>2. undo[q][Len(undo[q]) + 1 - h[s]] = journal[s].pre
    BY <1>3, <2>1 DEF Story, Remembered
  <2> DEFINE k == Len(undo[q]) - h[s]
  <2>3. k \in 1..(Len(undo[q]) - 1) /\ Len(undo'[q]) + 1 - h[s] = k /\ Len(undo[q]) + 1 - h[s] = k + 1
    <3>1. PICK n \in Nat, m \in Nat : n = Len(undo[q]) /\ m = h[s]
      BY <1>3, <2>1
    <3>2. m >= 1 /\ m <= n - 1 /\ Len(undo'[q]) = n - 1
      BY <1>5, <2>1, <3>1
    <3> QED BY <3>1, <3>2
  <2> HIDE DEF k
  <2> QED BY <1>5, <2>2, <2>3
<1> QED BY <1>1, <1>7, <1>8 DEF Story, StuckOK, QuietOK

----------------------------------------------------------------------------
\* Opening and advancing a receipt.

\* Only the receipt r of q changes, nothing is finished.
OnlyReceipt(q, r) ==
    /\ r \in Ids /\ journal'[r].path = q /\ (journal[r].path = q \/ journal[r].state = "NONE")
    /\ \A i \in Ids \ {r} : journal'[i] = journal[i]
    /\ disk'[q] = disk[q] /\ undo'[q] = undo[q] /\ Finishing(q) = {} /\ Finishing(q)' = {}

\* The receipts of a path, but for r, are those before.
LEMMA OthersOn ==
    ASSUME NEW q, NEW r, OnlyReceipt(q, r)
    PROVE  /\ \A S, i : i # r => (i \in On(q, S)' <=> i \in On(q, S))
           /\ \A i \in Ids \ {r} : /\ journal'[i] = journal[i] /\ (IsWrite(i)' <=> IsWrite(i))
                                   /\ Alters(i)' = Alters(i)
           /\ \A i : i # r => (i \in Standing(q)' <=> i \in Standing(q))
           /\ \A S : "NONE" \notin S => (r \in On(q, S) <=> journal[r].state \in S)
           /\ \A S : r \in On(q, S)' <=> journal'[r].state \in S
<1>1. \A i \in Ids \ {r} : /\ journal'[i] = journal[i] /\ (IsWrite(i)' <=> IsWrite(i)) /\ Alters(i)' = Alters(i)
  BY DEF OnlyReceipt, IsWrite, Alters
<1>2. ASSUME NEW S, NEW i, i # r PROVE i \in On(q, S)' <=> i \in On(q, S)
  BY <1>1, <1>2 DEF On
<1>3. ASSUME NEW i, i # r PROVE i \in Standing(q)' <=> i \in Standing(q)
  BY <1>1, <1>2, <1>3 DEF Standing, On
<1> QED BY <1>1, <1>2, <1>3 DEF On, OnlyReceipt

\* A write is noted as applied: it is the newest standing write of its path.
LEMMA StoryNoted ==
    ASSUME NEW q \in Paths, NEW h \in Rank, NEW t \in Ids \cup {NoId}, Story(h, q, t),
           undo \in [Paths -> Seq(Images)],
           NEW r, OpenOn(q) = {r}, IsWrite(r), journal[r].state = "PREPARED", OnlyReceipt(q, r),
           SameTransaction(r), journal'[r].prev = journal[r].prev, journal'[r].state = "APPLIED",
           journal'[r].post = disk[q], disk[q] # Absent
    PROVE  Told(q)'
<1>0. r \in Ids /\ journal[r].path = q /\ r \in Nat /\ t \in Nat /\ r # NoId
  BY DEF OnlyReceipt, OpenOn, On, Ids, NoId
<1>1. PICK n \in Nat : n = Len(undo[q])
  OBVIOUS
<1> DEFINE hh == [h EXCEPT ![r] = n]
<1>2. hh \in Rank /\ hh[r] = n /\ \A i \in (Ids \cup {NoId}) \ {r} : hh[i] = h[i]
  BY <1>0 DEF Rank
<1>3. Intends(h, q, t, r)
  BY DEF Story, OpenOK
<1>4. /\ t < r /\ journal[r].prev < r /\ t \in Standing(q) \cup {NoId} /\ (t # NoId => journal[r].prev = t)
      /\ \A s \in Standing(q) : s <= t /\ s \in Ids /\ s \in Nat /\ s # r
  BY <1>0, <1>3 DEF Intends, Story, Chain, Newest, Standing, On, Ids
<1>5. Standing(q)' = Standing(q) \cup {r} /\ IsWrite(r)'
  <2>1. IsWrite(r)' /\ r \in Standing(q)'
    BY <1>0, OthersOn DEF IsWrite, SameTransaction, Standing
  <2> QED BY <1>4, <2>1, OthersOn
<1>6. \A s \in Standing(q) : journal'[s] = journal[s] /\ Alters(s)' = Alters(s) /\ hh[s] = h[s]
  BY <1>2, <1>4, OthersOn
<1>7. \A s \in Standing(q) : journal[s].prev # r
  <2>1. \A s \in Standing(q) : journal[s].prev < s
    BY DEF Story, Chain, Linked
  <2> SUFFICES ASSUME NEW s \in Standing(q), journal[s].prev = r PROVE FALSE
    OBVIOUS
  <2>3. r < s /\ s <= t /\ t < r
    BY <1>4, <2>1
  <2> QED BY <1>0, <1>4, <2>3
<1> HIDE DEF hh
<1>8. Newest(q, r)'
  BY <1>0, <1>4, <1>5 DEF Newest
<1>9. /\ journal'[r].prev = journal[r].prev /\ journal'[r].pre = journal[r].pre /\ journal'[r].post = disk[q]
      /\ (journal[r].prev \in Standing(q) <=> t # NoId)
      /\ journal[r].prev # r
  <2>1. journal[r].prev \in Standing(q) => t # NoId
    <3> SUFFICES ASSUME NEW s \in Standing(q), t = NoId PROVE FALSE
      OBVIOUS
    <3>1. s <= t /\ s \in Ids
      BY <1>4
    <3> QED BY <3>1 DEF NoId, Ids
  <2>2. t # NoId => journal[r].prev \in Standing(q)
    BY <1>4
  <2>3. journal[r].prev # r
    BY <1>0, <1>4
  <2> QED BY <2>1, <2>2, <2>3 DEF SameTransaction
<1>10. Linked(q)'
  <2> SUFFICES ASSUME NEW s \in Standing(q) \cup {r}
               PROVE  /\ journal'[s].prev < s /\ journal'[s].post # Absent
                      /\ journal'[s].prev \in Standing(q) \cup {r} => journal'[s].pre = journal'[journal'[s].prev].post
                      /\ \A x \in Standing(q) \cup {r} : x < s =>
                             /\ journal'[s].prev \in Standing(q) \cup {r} /\ x <= journal'[s].prev
                             /\ \E u \in Standing(q) \cup {r} : journal'[u].prev = x
    BY <1>5 DEF Linked
  <2>1. CASE s \in Standing(q)
    <3>1. journal'[s] = journal[s] /\ journal[s].prev # r /\ ~(r < s)
      <4>1. s <= t /\ s \in Nat
        BY <1>4, <2>1
      <4>2. ~(r < s)
        BY <1>0, <1>4, <4>1
      <4> QED BY <1>6, <1>7, <2>1, <4>2
    <3>2. /\ journal[s].prev < s /\ journal[s].post # Absent
          /\ journal[s].prev \in Standing(q) => journal[s].pre = journal[journal[s].prev].post
          /\ \A x \in Standing(q) : x < s =>
               /\ journal[s].prev \in Standing(q) /\ x <= journal[s].prev
               /\ \E u \in Standing(q) : journal[u].prev = x
      BY <2>1 DEF Story, Chain, Linked
    <3>3. \A x \in Standing(q) : x < s => \E u \in Standing(q) \cup {r} : journal'[u].prev = x
      BY <1>6, <3>2
    <3> QED BY <1>6, <3>1, <3>2, <3>3
  <2>2. CASE s = r
    <3>1. journal'[r].prev \in Standing(q) \cup {r} => journal'[r].pre = journal'[journal'[r].prev].post
      <4>1. t # NoId => journal[r].pre = journal[t].post /\ journal'[t] = journal[t]
        BY <1>3, <1>4, <1>6 DEF Intends
      <4> QED BY <1>4, <1>9, <4>1
    <3>2. ASSUME NEW x \in Standing(q)
          PROVE  /\ journal'[r].prev \in Standing(q) /\ x <= journal'[r].prev
                 /\ \E u \in Standing(q) \cup {r} : journal'[u].prev = x
      <4>1. t # NoId /\ journal'[r].prev = t /\ t \in Standing(q) /\ x <= t
        BY <1>0, <1>4, <1>9, <3>2 DEF Ids, NoId
      <4>2. CASE x = t
        BY <4>1, <4>2
      <4>3. CASE x # t
        <5>1. x < t
          BY <1>0, <1>4, <4>1, <4>3
        <5>2. PICK u \in Standing(q) : journal[u].prev = x
          BY <4>1, <5>1 DEF Story, Chain, Linked
        <5> QED BY <1>6, <4>1, <5>2
      <4> QED BY <4>2, <4>3
    <3> QED BY <1>0, <1>4, <1>9, <2>2, <3>1, <3>2
  <2> QED BY <2>1, <2>2
<1>11. Alters(r)' = (IF disk[q] = journal[r].pre THEN 0 ELSE 1) /\ n = h[t] + Alters(r)' /\ h[t] \in Nat
  <2>1. Alters(r)' = (IF disk[q] = journal[r].pre THEN 0 ELSE 1)
    BY <1>9 DEF Alters
  <2> QED BY <1>1, <1>3, <2>1 DEF Intends, Rank
<1>12. Heights(hh, q)'
  <2> SUFFICES ASSUME NEW s \in Standing(q) \cup {r}
               PROVE  /\ hh[s] = (IF journal'[s].prev \in Standing(q) \cup {r} THEN hh[journal'[s].prev] ELSE 0) + Alters(s)'
                      /\ \A x \in Standing(q) \cup {r} : x < s => hh[x] <= hh[s]
    BY <1>5 DEF Heights
  <2>1. CASE s \in Standing(q)
    <3>1. /\ h[s] = (IF journal[s].prev \in Standing(q) THEN h[journal[s].prev] ELSE 0) + Alters(s)
          /\ \A x \in Standing(q) : x < s => h[x] <= h[s]
      BY <2>1 DEF Story, Chain, Heights
    <3>2. journal'[s] = journal[s] /\ journal[s].prev # r /\ ~(r < s)
      <4>1. s <= t /\ s \in Nat
        BY <1>4, <2>1
      <4>2. ~(r < s)
        BY <1>0, <1>4, <4>1
      <4> QED BY <1>6, <1>7, <2>1, <4>2
    <3> QED BY <1>6, <2>1, <3>1, <3>2
  <2>2. CASE s = r
    <3>1. hh[r] = (IF journal'[r].prev \in Standing(q) \cup {r} THEN hh[journal'[r].prev] ELSE 0) + Alters(r)'
      <4>1. CASE t = NoId
        <5>1. h[t] = 0 /\ journal'[r].prev \notin Standing(q) \cup {r}
          BY <1>9, <4>1 DEF Rank
        <5> QED BY <1>2, <1>11, <5>1
      <4>2. CASE t # NoId
        <5>1. journal'[r].prev = t /\ t \in Standing(q) /\ hh[t] = h[t]
          BY <1>4, <1>6, <1>9, <4>2
        <5> QED BY <1>2, <1>11, <5>1
      <4> QED BY <4>1, <4>2
    <3>2. ASSUME NEW x \in Standing(q) PROVE hh[x] <= hh[r]
      <4>1. h[x] \in Nat /\ h[x] <= h[t] /\ hh[x] = h[x]
        BY <1>6, <3>2, Ranked DEF Story
      <4> QED BY <1>2, <1>11, <4>1
    <3> QED BY <1>0, <2>2, <3>1, <3>2
  <2> QED BY <2>1, <2>2
<1>13. Remembered(hh, q)'
  <2> SUFFICES ASSUME NEW s \in Standing(q) \cup {r}, Alters(s)' = 1, hh[s] <= Len(undo[q])
               PROVE  undo[q][Len(undo[q]) + 1 - hh[s]] = journal'[s].pre
    BY <1>5 DEF Remembered, OnlyReceipt
  <2>1. CASE s \in Standing(q)
    BY <1>6, <2>1 DEF Story, Remembered
  <2>2. CASE s = r
    <3>1. disk[q] # journal[r].pre /\ Head(undo[q]) = journal[r].pre /\ n >= 1
      BY <1>3, <1>11, <2>2 DEF Intends
    <3>2. undo[q] # <<>> /\ undo[q] \in Seq(Images)
      BY <1>1, <3>1
    <3>3. Head(undo[q]) = undo[q][1]
      BY <3>2, Popped
    <3> QED BY <1>1, <1>2, <1>9, <2>2, <3>1, <3>3
  <2> QED BY <2>1, <2>2
<1>14. StuckOn(q)' = {} /\ OpenOn(q)' = {r}
  <2>1. StuckOn(q) = {}
    BY DEF Story, StuckOK
  <2>2. r \notin StuckOn(q)' /\ r \in OpenOn(q)'
    BY OthersOn DEF StuckOn, OpenOn, BLOCKING_STATES, INCOMPLETE_STATES
  <2>3. \A i : i # r => i \notin StuckOn(q)' /\ i \notin OpenOn(q)'
    BY <2>1, OthersOn DEF StuckOn, OpenOn
  <2> QED BY <2>2, <2>3
<1>15. OpenOK(hh, q, r)'
  <2>1. AtRest(hh, q, r)'
    BY <1>1, <1>2, <1>9 DEF AtRest, OnlyReceipt
  <2> QED BY <1>5, <1>14, <2>1 DEF OpenOK
<1>16. FinishOK(hh, q, r)'
  <2>1. r \notin On(q, {"VERIFIED"})'
    BY OthersOn
  <2>2. \A s : Marked(q, s) => Marked(q, s)'
    <3>1. r \notin On(q, {"ROLLED_BACK"})
      BY DEF On
    <3> QED BY <3>1, OthersOn DEF Marked
  <2>3. ASSUME NEW i \in On(q, {"VERIFIED"})', ~IsWrite(i)' PROVE Marked(q, journal[i].rollback_of)'
    <3>1. i # r /\ i \in On(q, {"VERIFIED"}) /\ i \in Ids
      BY <2>1, <2>3, OthersOn DEF On
    <3>2. journal'[i] = journal[i] /\ ~IsWrite(i)
      BY <2>3, <3>1, OthersOn
    <3>3. PICK source : source = journal[i].rollback_of /\ source = journal'[i].rollback_of
      BY <3>2
    <3>4. Marked(q, source)
      BY <3>1, <3>2, <3>3 DEF Story, FinishOK, OnlyReceipt
    <3> QED BY <2>2, <3>3, <3>4
  <2> QED BY <2>3 DEF FinishOK, OnlyReceipt
<1>17. Unlinked(q)'
  <2> SUFFICES ASSUME NEW i \in On(q, {"PREPARED", "APPLIED", "VERIFIED"})', ~IsWrite(i)'
               PROVE  journal'[i].prev = NoId
    BY DEF Unlinked
  <2>1. i # r /\ i \in On(q, {"PREPARED", "APPLIED", "VERIFIED"}) /\ i \in Ids
    BY <1>5, OthersOn DEF On
  <2>2. journal'[i] = journal[i] /\ ~IsWrite(i)
    BY <2>1, OthersOn
  <2> QED BY <2>1, <2>2 DEF Story, Unlinked
<1>18. Story(hh, q, r)'
  BY <1>8, <1>10, <1>12, <1>13, <1>14, <1>15, <1>16, <1>17 DEF Story, Chain, StuckOK, QuietOK
<1> QED BY <1>0, <1>2, <1>18 DEF Told

\* A receipt that is no standing write, and is not settled, leaves the chain alone.
LEMMA BesideChain ==
    ASSUME NEW q, NEW h, NEW t, Story(h, q, t), NEW r, OnlyReceipt(q, r),
           r \notin Standing(q), r \notin Standing(q)',
           journal[r].state # "ROLLED_BACK", journal'[r].state # "VERIFIED",
           ~IsWrite(r)' => journal'[r].prev = NoId
    PROVE  /\ Standing(q)' = Standing(q) /\ \A s \in Standing(q) : journal'[s] = journal[s] /\ Alters(s)' = Alters(s)
           /\ Chain(h, q, t)' /\ Remembered(h, q)' /\ FinishOK(h, q, t)' /\ Unlinked(q)'
           /\ t \in Standing(q) \cup {NoId}
<1>1. \A i : i \in Standing(q)' <=> i \in Standing(q)
  <2> SUFFICES ASSUME NEW i PROVE i \in Standing(q)' <=> i \in Standing(q)
    OBVIOUS
  <2> QED BY OthersOn
<1>2. Standing(q)' = Standing(q)
  BY <1>1
<1>3. \A s \in Standing(q) : journal'[s] = journal[s] /\ Alters(s)' = Alters(s)
  BY OthersOn DEF Standing, On
<1>4. Chain(h, q, t)' /\ Remembered(h, q)'
  BY <1>2, <1>3, ChainKept, RememberedKept DEF Story, OnlyReceipt
<1>5. FinishOK(h, q, t)'
  <2>1. r \notin On(q, {"VERIFIED"})'
    BY OthersOn
  <2>2. \A s : Marked(q, s) => Marked(q, s)'
    <3>1. r \notin On(q, {"ROLLED_BACK"})
      BY DEF On
    <3> QED BY <3>1, OthersOn DEF Marked
  <2>3. ASSUME NEW i \in On(q, {"VERIFIED"})', ~IsWrite(i)' PROVE Marked(q, journal[i].rollback_of)'
    <3>1. i # r /\ i \in On(q, {"VERIFIED"}) /\ i \in Ids
      BY <2>1, <2>3, OthersOn DEF On
    <3>2. journal'[i] = journal[i] /\ ~IsWrite(i)
      BY <2>3, <3>1, OthersOn
    <3>3. PICK source : source = journal[i].rollback_of /\ source = journal'[i].rollback_of
      BY <3>2
    <3>4. Marked(q, source)
      BY <3>1, <3>2, <3>3 DEF Story, FinishOK, OnlyReceipt
    <3> QED BY <2>2, <3>3, <3>4
  <2> QED BY <2>3 DEF FinishOK, OnlyReceipt
<1>6. Unlinked(q)'
  <2> SUFFICES ASSUME NEW i \in On(q, {"PREPARED", "APPLIED", "VERIFIED"})', ~IsWrite(i)', i # r
               PROVE  journal'[i].prev = NoId
    BY DEF Unlinked
  <2>1. i \in On(q, {"PREPARED", "APPLIED", "VERIFIED"}) /\ i \in Ids
    BY OthersOn DEF On
  <2>2. journal'[i] = journal[i] /\ ~IsWrite(i)
    BY <2>1, OthersOn
  <2> QED BY <2>1, <2>2 DEF Story, Unlinked
<1> QED BY <1>2, <1>3, <1>4, <1>5, <1>6 DEF Story, Chain, Newest

\* A quiet path has been left as its newest write or the undo of the next left it.
LEMMA Quiet ==
    ASSUME NEW q, NEW h, NEW t, Story(h, q, t), OpenOn(q) = {}, StuckOn(q) = {}, Finishing(q) = {}
    PROVE  AtRest(h, q, t) /\ \A s \in Standing(q) : journal[s].state = "VERIFIED"
<1>1. AtRest(h, q, t)
  BY DEF Story, QuietOK
<1>2. ASSUME NEW s \in Standing(q) PROVE journal[s].state = "VERIFIED"
  BY DEF Standing, OpenOn, On, INCOMPLETE_STATES
<1> QED BY <1>1, <1>2

\* An intent is journalled on a quiet path.
LEMMA StoryOpened ==
    ASSUME NEW q \in Paths, NEW h \in Rank, NEW t \in Ids \cup {NoId}, Story(h, q, t),
           OpenOn(q) = {}, StuckOn(q) = {},
           NEW r, OnlyReceipt(q, r), journal[r].state = "NONE", journal'[r].state = "PREPARED",
           journal'[r].pre = disk[q],
           \/ IsWrite(r)' /\ journal'[r].prev < r /\ t < r /\ (t # NoId => journal'[r].prev = t)
           \/ ~IsWrite(r)' /\ journal'[r].rollback_of = t /\ t # NoId /\ journal'[r].prev = NoId
    PROVE  Story(h, q, t)'
<1>1. r \notin Standing(q) /\ r \notin Standing(q)'
  BY DEF Standing, On
<1>2. /\ Standing(q)' = Standing(q) /\ \A s \in Standing(q) : journal'[s] = journal[s] /\ Alters(s)' = Alters(s)
      /\ Chain(h, q, t)' /\ Remembered(h, q)' /\ FinishOK(h, q, t)' /\ Unlinked(q)'
      /\ t \in Standing(q) \cup {NoId}
  BY <1>1, BesideChain
<1>3. AtRest(h, q, t) /\ \A s \in Standing(q) : journal[s].state = "VERIFIED"
  BY Quiet DEF OnlyReceipt
<1>4. OpenOn(q)' = {r} /\ StuckOn(q)' = {}
  <2>1. r \notin StuckOn(q)' /\ r \in OpenOn(q)'
    BY OthersOn DEF StuckOn, OpenOn, BLOCKING_STATES, INCOMPLETE_STATES
  <2>2. \A i : i # r => i \notin StuckOn(q)' /\ i \notin OpenOn(q)'
    BY OthersOn DEF StuckOn, OpenOn
  <2> QED BY <2>1, <2>2
<1>5. disk'[q] = disk[q] /\ undo'[q] = undo[q]
  BY DEF OnlyReceipt
<1>6. OpenOK(h, q, t)'
  <2>1. CASE IsWrite(r)'
    <3>1. Intends(h, q, t, r)'
      BY <1>2, <1>3, <1>5, <2>1 DEF Intends, AtRest
    <3> QED BY <1>4, <2>1, <3>1 DEF OpenOK
  <2>2. CASE ~IsWrite(r)'
    <3>1. t \in Standing(q) /\ journal'[t] = journal[t] /\ journal[t].state = "VERIFIED"
      BY <1>2, <1>3, <2>2
    <3>2. Reverts(h, q, t, r)'
      BY <1>2, <1>3, <1>5, <2>2, <3>1 DEF Reverts, AtRest
    <3> QED BY <1>4, <2>2, <3>2 DEF OpenOK
  <2> QED BY <2>1, <2>2
<1> QED BY <1>2, <1>4, <1>6 DEF Story, StuckOK, QuietOK

\* A rollback is noted as applied.
LEMMA StoryApplied ==
    ASSUME NEW q \in Paths, NEW h \in Rank, NEW t \in Ids \cup {NoId}, Story(h, q, t),
           NEW r, OpenOn(q) = {r}, ~IsWrite(r), OnlyReceipt(q, r), SameTransaction(r),
           journal[r].state = "PREPARED", journal'[r].state = "APPLIED", journal'[r].prev = NoId,
           journal'[r].post = journal[t].pre, disk[q] = journal[t].pre
    PROVE  Story(h, q, t)'
<1>0. ~IsWrite(r)' /\ journal'[r].pre = journal[r].pre /\ journal'[r].rollback_of = journal[r].rollback_of
  BY DEF IsWrite, SameTransaction
<1>1. r \notin Standing(q) /\ r \notin Standing(q)'
  BY <1>0 DEF Standing
<1>2. /\ Standing(q)' = Standing(q) /\ \A s \in Standing(q) : journal'[s] = journal[s] /\ Alters(s)' = Alters(s)
      /\ Chain(h, q, t)' /\ Remembered(h, q)' /\ FinishOK(h, q, t)' /\ Unlinked(q)'
  BY <1>1, BesideChain
<1>3. Reverts(h, q, t, r)
  BY DEF Story, OpenOK
<1>4. OpenOn(q)' = {r} /\ StuckOn(q)' = {}
  <2>1. StuckOn(q) = {}
    BY DEF Story, StuckOK
  <2>2. r \notin StuckOn(q)' /\ r \in OpenOn(q)'
    BY OthersOn DEF StuckOn, OpenOn, BLOCKING_STATES, INCOMPLETE_STATES
  <2>3. \A i : i # r => i \notin StuckOn(q)' /\ i \notin OpenOn(q)'
    BY <2>1, OthersOn DEF StuckOn, OpenOn
  <2> QED BY <2>2, <2>3
<1>5. disk'[q] = disk[q] /\ undo'[q] = undo[q]
  BY DEF OnlyReceipt
<1>6. t \in Standing(q) /\ journal'[t] = journal[t] /\ Alters(t)' = Alters(t)
  BY <1>2, <1>3 DEF Reverts
<1>7. PutBack(h, q, t) => PutBack(h, q, t)'
  BY <1>2, <1>5, <1>6 DEF PutBack
<1>8. Reverts(h, q, t, r)'
  BY <1>0, <1>2, <1>3, <1>5, <1>6, <1>7 DEF Reverts
<1>9. OpenOK(h, q, t)'
  BY <1>0, <1>4, <1>8 DEF OpenOK
<1> QED BY <1>2, <1>4, <1>9 DEF Story, StuckOK, QuietOK

\* The newest write is marked as undone: the one before it is the newest.
LEMMA StoryUndone ==
    ASSUME NEW q \in Paths, NEW h \in Rank, NEW t \in Ids \cup {NoId}, Story(h, q, t),
           undo \in [Paths -> Seq(Images)],
           NEW source, Finishing(q) = {source}, ~Marked(q, source), Finishing(q)' = {},
           SameTransaction(source), journal'[source].prev = journal[source].prev,
           journal'[source].post = journal[source].post, journal'[source].state = "ROLLED_BACK",
           \A i \in Ids \ {source} : journal'[i] = journal[i],
           disk'[q] = disk[q], undo'[q] = undo[q]
    PROVE  Told(q)'
<1>1. /\ source = t /\ PutBack(h, q, t) /\ OpenOn(q) = {} /\ StuckOn(q) = {}
      /\ t \in Standing(q) /\ journal[t].state = "VERIFIED"
  BY DEF Story, FinishOK, PutBack
<1>2. t \in Ids /\ t \in Nat /\ journal[t].path = q /\ IsWrite(t) /\ \A s \in Standing(q) : s \in Ids /\ s \in Nat
  BY <1>1 DEF Standing, On, Ids
<1>3. /\ IsWrite(t)' /\ journal'[t].path = q /\ journal'[t].state = "ROLLED_BACK"
      /\ \A i \in Ids \ {t} : journal'[i] = journal[i] /\ (IsWrite(i)' <=> IsWrite(i)) /\ Alters(i)' = Alters(i)
  BY <1>1, <1>2 DEF SameTransaction, IsWrite, Alters
<1>4. ASSUME NEW S, NEW i, i # t PROVE i \in On(q, S)' <=> i \in On(q, S)
  BY <1>3, <1>4 DEF On
<1>5. OpenOn(q)' = {} /\ StuckOn(q)' = {}
  <2>1. t \notin OpenOn(q)' /\ t \notin StuckOn(q)'
    BY <1>3 DEF OpenOn, StuckOn, On, INCOMPLETE_STATES, BLOCKING_STATES
  <2>2. \A i : i # t => i \notin OpenOn(q)' /\ i \notin StuckOn(q)'
    BY <1>1, <1>4 DEF OpenOn, StuckOn
  <2> QED BY <2>1, <2>2
<1>6. Standing(q)' = Standing(q) \ {t}
  <2>1. t \notin Standing(q)'
    BY <1>3 DEF Standing, On
  <2>2. \A i : i # t => (i \in Standing(q)' <=> i \in Standing(q))
    BY <1>2, <1>3, <1>4 DEF Standing, On
  <2> QED BY <2>1, <2>2
<1>7. \A s \in Standing(q) \ {t} : journal'[s] = journal[s] /\ Alters(s)' = Alters(s) /\ s < t
  <2>1. \A s \in Standing(q) : s <= t
    BY DEF Story, Chain, Newest
  <2>2. \A s \in Standing(q) \ {t} : s < t
    BY <1>2, <2>1
  <2> QED BY <1>2, <1>3, <2>2
<1>8. /\ journal[t].prev < t
      /\ journal[t].prev \in Standing(q) => journal[t].pre = journal[journal[t].prev].post
      /\ \A x \in Standing(q) \ {t} : journal[t].prev \in Standing(q) /\ x <= journal[t].prev
  BY <1>1, <1>7 DEF Story, Chain, Linked
<1>9. PICK tt \in Ids \cup {NoId} : tt = IF journal[t].prev \in Standing(q) THEN journal[t].prev ELSE NoId
  BY <1>2
<1>10. /\ tt # NoId => tt \in Standing(q) \ {t} /\ tt = journal[t].prev
       /\ tt = NoId => Standing(q) \ {t} = {}
       /\ \A x \in Standing(q) \ {t} : x <= tt
       /\ tt # NoId <=> journal[t].prev \in Standing(q)
  <2>1. journal[t].prev # t
    BY <1>2, <1>8
  <2>2. NoId \notin Standing(q)
    BY <1>2 DEF Ids, NoId
  <2> QED BY <1>8, <1>9, <2>1, <2>2
<1>11. Newest(q, tt)'
  BY <1>6, <1>10 DEF Newest
<1>12. ASSUME NEW s \in Standing(q) \ {t}
       PROVE  /\ journal[s].prev # t
              /\ journal[s].prev < s /\ journal[s].post # Absent
              /\ journal[s].prev \in Standing(q) => journal[s].pre = journal[journal[s].prev].post
              /\ \A x \in Standing(q) \ {t} : x < s =>
                     /\ journal[s].prev \in Standing(q) /\ x <= journal[s].prev
                     /\ \E u \in Standing(q) \ {t} : journal[u].prev = x
  <2>1. /\ journal[s].prev < s /\ journal[s].post # Absent
        /\ journal[s].prev \in Standing(q) => journal[s].pre = journal[journal[s].prev].post
        /\ \A x \in Standing(q) : x < s =>
               /\ journal[s].prev \in Standing(q) /\ x <= journal[s].prev
               /\ \E u \in Standing(q) : journal[u].prev = x
    BY DEF Story, Chain, Linked
  <2>2. s < t /\ s \in Nat
    BY <1>2, <1>7
  <2>3. journal[s].prev # t
    BY <1>2, <2>1, <2>2
  <2>4. ASSUME NEW x \in Standing(q) \ {t}, x < s PROVE \E u \in Standing(q) \ {t} : journal[u].prev = x
    <3>1. PICK u \in Standing(q) : journal[u].prev = x
      BY <2>1, <2>4
    <3>2. u # t
      <4> SUFFICES ASSUME u = t PROVE FALSE
        OBVIOUS
      <4>1. s <= journal[t].prev /\ journal[t].prev = x /\ x \in Nat
        BY <1>2, <1>8, <3>1
      <4> QED BY <2>2, <2>4, <4>1
    <3> QED BY <3>1, <3>2
  <2> QED BY <2>1, <2>3, <2>4
<1>13. Linked(q)'
  <2> SUFFICES ASSUME NEW s \in Standing(q) \ {t}
               PROVE  /\ journal'[s].prev < s /\ journal'[s].post # Absent
                      /\ journal'[s].prev \in Standing(q) \ {t} => journal'[s].pre = journal'[journal'[s].prev].post
                      /\ \A x \in Standing(q) \ {t} : x < s =>
                             /\ journal'[s].prev \in Standing(q) \ {t} /\ x <= journal'[s].prev
                             /\ \E u \in Standing(q) \ {t} : journal'[u].prev = x
    BY <1>6 DEF Linked
  <2>1. journal'[s] = journal[s]
    BY <1>7
  <2>2. journal[s].prev \in Standing(q) \ {t} => journal'[journal[s].prev] = journal[journal[s].prev]
    BY <1>7
  <2>3. ASSUME NEW x \in Standing(q) \ {t}, x < s PROVE \E u \in Standing(q) \ {t} : journal'[u].prev = x
    BY <1>7, <1>12, <2>3
  <2> QED BY <1>12, <2>1, <2>2, <2>3
<1>14. Heights(h, q)'
  <2> SUFFICES ASSUME NEW s \in Standing(q) \ {t}
               PROVE  /\ h[s] = (IF journal'[s].prev \in Standing(q) \ {t} THEN h[journal'[s].prev] ELSE 0) + Alters(s)'
                      /\ \A x \in Standing(q) \ {t} : x < s => h[x] <= h[s]
    BY <1>6 DEF Heights
  <2>1. /\ h[s] = (IF journal[s].prev \in Standing(q) THEN h[journal[s].prev] ELSE 0) + Alters(s)
        /\ \A x \in Standing(q) : x < s => h[x] <= h[s]
    BY DEF Story, Chain, Heights
  <2>2. journal'[s] = journal[s] /\ Alters(s)' = Alters(s) /\ journal[s].prev # t
    BY <1>7, <1>12
  <2> QED BY <2>1, <2>2
<1>15. Remembered(h, q)'
  <2> SUFFICES ASSUME NEW s \in Standing(q) \ {t}, Alters(s)' = 1, h[s] <= Len(undo[q])
               PROVE  undo[q][Len(undo[q]) + 1 - h[s]] = journal'[s].pre
    BY <1>6 DEF Remembered
  <2> QED BY <1>7 DEF Story, Remembered
<1>16. AtRest(h, q, tt)'
  <2>1. /\ disk[q] = journal[t].pre /\ Len(undo[q]) = h[t] - Alters(t) /\ Alters(t) \in {0, 1}
        /\ h[t] = (IF journal[t].prev \in Standing(q) THEN h[journal[t].prev] ELSE 0) + Alters(t)
    BY <1>1 DEF PutBack, Story, Chain, Heights, Alters
  <2>2. CASE tt = NoId
    BY <1>10, <2>1, <2>2 DEF AtRest, Rank
  <2>3. CASE tt # NoId
    <3>1. /\ journal[t].prev = tt /\ journal[t].pre = journal[tt].post /\ journal'[tt] = journal[tt]
          /\ tt \in Standing(q) /\ h[tt] \in Nat
      BY <1>7, <1>8, <1>10, <2>3 DEF Rank
    <3> QED BY <2>1, <3>1 DEF AtRest
  <2> QED BY <2>2, <2>3
<1>17. FinishOK(h, q, tt)'
  <2>1. Marked(q, t)' /\ \A s : Marked(q, s) => Marked(q, s)'
    <3>1. Marked(q, t)'
      BY <1>2, <1>3 DEF Marked, On
    <3>2. ASSUME NEW s, s # t, Marked(q, s) PROVE Marked(q, s)'
      BY <1>4, <3>2 DEF Marked
    <3> QED BY <3>1, <3>2
  <2>2. ASSUME NEW i \in On(q, {"VERIFIED"})', ~IsWrite(i)' PROVE Marked(q, journal[i].rollback_of)' /\ i # t
    <3>1. i # t /\ i \in On(q, {"VERIFIED"}) /\ i \in Ids
      BY <1>3, <1>4 DEF On
    <3>2. ~IsWrite(i)
      BY <1>3, <2>2, <3>1
    <3>3. PICK s : s = journal[i].rollback_of
      OBVIOUS
    <3>4. Marked(q, s) \/ s = t
      BY <1>1, <3>1, <3>2, <3>3 DEF Story, FinishOK
    <3>5. Marked(q, s)' /\ journal'[i] = journal[i]
      BY <1>3, <2>1, <3>1, <3>4
    <3> QED BY <3>1, <3>3, <3>5
  <2>3. ASSUME NEW i \in On(q, {"VERIFIED"})' PROVE i # t => journal'[i] = journal[i]
    BY <1>3 DEF On
  <2> QED BY <2>2, <2>3 DEF FinishOK
<1>18. Unlinked(q)'
  <2> SUFFICES ASSUME NEW i \in On(q, {"PREPARED", "APPLIED", "VERIFIED"})', ~IsWrite(i)'
               PROVE  journal'[i].prev = NoId
    BY DEF Unlinked
  <2>1. i # t /\ i \in On(q, {"PREPARED", "APPLIED", "VERIFIED"}) /\ i \in Ids
    BY <1>3, <1>4 DEF On
  <2>2. journal'[i] = journal[i] /\ ~IsWrite(i)
    BY <1>3, <2>1
  <2> QED BY <2>1, <2>2 DEF Story, Unlinked
<1>19. Story(h, q, tt)'
  BY <1>5, <1>11, <1>13, <1>14, <1>15, <1>16, <1>17, <1>18 DEF Story, Chain, OpenOK, StuckOK, QuietOK
<1> QED BY <1>19 DEF Told

----------------------------------------------------------------------------
\* The steps of a process on its path.

\* How a step of p moves the undo stacks.
UndoMoves(p) ==
    /\ undo' \in [Paths -> Seq(Images)]
    /\ \A x \in Paths : disk'[x] = disk[x] => undo'[x] = undo[x]
    /\ \A x \in Paths : x = Path(p) /\ disk'[x] # disk[x] =>
           /\ pc[p] = "w_replace" => undo'[x] = <<disk[x]>> \o undo[x]
           /\ pc[p] \in {"r_restore", "r_copy"} /\ undo[x] # <<>> => undo'[x] = Tail(undo[x])

\* Only these steps change a target.
LEMMA Touching ==
    ASSUME NEW p \in Procs, Start(p) \/ Step(p) \/ Fail(p), pc[p] \in TouchSteps, disk' # disk
    PROVE  ReplaceTarget(p) \/ RestoreTarget(p) \/ CopyBackup(p)
BY DEF TouchSteps, Start, StartWrite, StartRollback, StartRecover, PickPrunable, Acquire, Step, WriteStep,
       ReconcilePending, CheckWrite, SaveBackup, JournalPrepared, NoteReplaced, RecordPostimage, RollbackStep,
       CheckRollback, PeekTarget, SettlePending, MarkSuperseded, SelectAndJournal, RollbackApplied,
       RollbackVerified, FinalizeSource, RecoverStep, ScanReceipt, LockReceipt, DecideLocked, EndRecover,
       PruneStep, PruneReceipt, PruneBackup, Fail, At

\* Who restores a target goes on to its next step.
LEMMA Restoring ==
    ASSUME Sound, NEW p \in Procs, Start(p) \/ Step(p) \/ Fail(p), pc[p] \in TouchSteps, disk' # disk
    PROVE  \/ pc[p] = "w_replace" /\ pc'[p] = "w_note"
           \/ pc[p] \in {"r_restore", "r_copy"} /\ pc'[p] = "r_applied"
<1>1. pc \in [Procs -> Labels]
  BY DEF Sound, Control, ControlTypes
<1>2. ReplaceTarget(p) \/ RestoreTarget(p) \/ CopyBackup(p)
  BY Touching
<1>3. CASE ReplaceTarget(p)
  BY <1>1, <1>3 DEF ReplaceTarget, At, Continue, Goto
<1>4. CASE RestoreTarget(p)
  <2>1. disk' = disk \/ Continue(p, "r_applied")
    BY <1>4, Zenon DEF RestoreTarget
  <2> QED BY <1>1, <1>4, <2>1 DEF RestoreTarget, At, Continue, Goto
<1>5. CASE CopyBackup(p)
  BY <1>1, <1>5 DEF CopyBackup, At, Continue, Goto
<1> QED BY <1>2, <1>3, <1>4, <1>5

LEMMA UndoStep ==
    ASSUME Sound, undo \in [Paths -> Seq(Images)], NEW p \in Procs, Start(p) \/ Step(p) \/ Fail(p), Observe
    PROVE  UndoMoves(p)
<1>0. /\ pc \in [Procs -> Labels] /\ \A q \in Procs \ {p} : pc'[q] = pc[q]
      /\ \A x \in Paths : disk'[x] # disk[x] => pc[p] \in TouchSteps /\ x = Path(p)
      /\ disk \in [Paths -> Images]
  BY StepFrame DEF Frame, Sound, Control, ControlTypes, Store, StoreTypes
<1>1. ASSUME NEW x \in Paths PROVE undo[x] \in Seq(Images) /\ disk[x] \in Images
  BY <1>0
<1>2. CASE undo' = undo /\ ~Moves(p, "w_replace", "w_note") /\ ~(pc'[p] = "r_applied" /\ pc[p] # pc'[p])
  <2>1. \A x \in Paths : disk'[x] = disk[x]
    BY <1>0, <1>2, Restoring DEF Moves
  <2> QED BY <1>2, <2>1 DEF UndoMoves
<1>3. CASE ObserveWrite(p)
  <2>1. pc[p] = "w_replace" /\ (pc[p] \in TouchSteps => Path(p) \in Paths)
    BY <1>3 DEF ObserveWrite, Moves, Sound, Control, LockDiscipline, HoldsLock, LockedSteps, WriteSteps
  <2>2. Path(p) \in Paths
    BY <2>1 DEF TouchSteps
  <2>3. CASE Changed(Path(p))
    <3>1. undo' = [undo EXCEPT ![Path(p)] = <<disk[Path(p)]>> \o @]
      BY <1>3, <2>3 DEF ObserveWrite
    <3>2. <<disk[Path(p)]>> \o undo[Path(p)] \in Seq(Images)
      BY <1>1, <2>2, Pushed
    <3> QED BY <2>1, <2>2, <2>3, <3>1, <3>2 DEF UndoMoves, Changed
  <2>4. CASE ~Changed(Path(p))
    <3>1. undo' = undo
      BY <1>3, <2>4 DEF ObserveWrite
    <3> QED BY <2>4, <3>1 DEF UndoMoves, Changed
  <2> QED BY <2>3, <2>4
<1>4. CASE ObserveRestore(p)
  <2>1. pc[p] \in {"r_restore", "r_copy"} /\ Path(p) \in Paths
    BY <1>4 DEF ObserveRestore, Moves, Sound, Control, LockDiscipline, HoldsLock, LockedSteps, RollbackSteps
  <2>2. CASE Changed(Path(p)) /\ undo[Path(p)] # <<>>
    <3>1. undo' = [undo EXCEPT ![Path(p)] = Tail(@)]
      BY <1>4, <2>2 DEF ObserveRestore
    <3>2. Tail(undo[Path(p)]) \in Seq(Images)
      BY <1>1, <2>1, <2>2, Popped
    <3> QED BY <2>1, <2>2, <3>1, <3>2 DEF UndoMoves, Changed
  <2>3. CASE ~(Changed(Path(p)) /\ undo[Path(p)] # <<>>)
    <3>1. undo' = undo
      BY <1>4, <2>3 DEF ObserveRestore
    <3> QED BY <2>1, <2>3, <3>1 DEF UndoMoves, Changed
  <2> QED BY <2>2, <2>3
<1>5. ASSUME NEW x \in Procs \ {p} PROVE ~ObserveWrite(x) /\ ~ObserveRestore(x)
  BY <1>0 DEF ObserveWrite, ObserveRestore, Moves
<1> QED BY <1>2, <1>3, <1>4, <1>5 DEF Observe

\* Only receipts of q change.
StaysOn(q) ==
    \A i \in Ids : journal'[i] # journal[i] =>
        journal'[i].path = q /\ (journal[i].path = q \/ journal[i].state = "NONE")

\* The other paths have their story as before.
LEMMA ToldElsewhere ==
    ASSUME Known, NEW p \in Procs, pc[p] \in LockedSteps, Frame(p), UndoMoves(p),
           pc'[p] \in FinishSteps => job'[p] = job[p],
           StaysOn(Path(p)), NEW q \in Paths, q # Path(p), Told(q)
    PROVE  Told(q)'
<1>1. PICK h \in Rank, t \in Ids \cup {NoId} : Story(h, q, t)
  BY DEF Told
<1>2. Finishing(q)' = Finishing(q)
  BY FinishingNext
<1>3. disk'[q] = disk[q] /\ undo'[q] = undo[q]
  BY DEF Frame, UndoMoves
<1>4. \A r \in Ids : r \in On(q, LIVE) \/ r \in On(q, LIVE)' => journal'[r] = journal[r]
  <2> SUFFICES ASSUME NEW r \in Ids, journal'[r] # journal[r] PROVE r \notin On(q, LIVE) /\ r \notin On(q, LIVE)'
    OBVIOUS
  <2> QED BY DEF StaysOn, On, LIVE
<1>5. Story(h, q, t)'
  BY <1>1, <1>2, <1>3, <1>4, StoryKept
<1> QED BY <1>5 DEF Told

\* A step of p that touches no live receipt and is not of the finishing ones.
LEMMA ToldKept ==
    ASSUME Known, NEW p \in Procs, pc[p] \in LockedSteps, Frame(p), UndoMoves(p),
           pc[p] \notin FinishSteps, pc'[p] \notin FinishSteps,
           NEW q, q = Path(p), Told(q), disk'[q] = disk[q],
           \A r \in Ids : journal'[r] # journal[r] => journal[r].state \notin LIVE /\ journal'[r].state \notin LIVE
    PROVE  Told(q)'
<1>1. PICK h \in Rank, t \in Ids \cup {NoId} : Story(h, q, t)
  BY DEF Told
<1>2. q \in Paths /\ Finishing(q) = {} /\ Finishing(q)' = {}
  BY FinishingOwn, FinishingNext
<1>3. undo'[q] = undo[q]
  BY <1>2 DEF UndoMoves
<1>4. \A r \in Ids : r \in On(q, LIVE) \/ r \in On(q, LIVE)' => journal'[r] = journal[r]
  BY DEF On
<1>5. Story(h, q, t)'
  BY <1>1, <1>2, <1>3, <1>4, StoryKept
<1> QED BY <1>5 DEF Told

\* A step of p that settles the open receipt of its path.
LEMMA ToldSettled ==
    ASSUME Undisturbed, Known, NEW p \in Procs, pc[p] \in LockedSteps, Frame(p), UndoMoves(p), pc[p] \notin FinishSteps,
           NEW q, q = Path(p), Told(q), disk'[q] = disk[q],
           NEW r, r \in OpenOn(q), OnlyState(r), TrueVerdict(q, r),
           (pc'[p] \in FinishSteps) <=> (journal'[r].state = "VERIFIED" /\ ~IsWrite(r)),
           pc'[p] \in FinishSteps => job'[p] = job[p] /\ work'[p].source = journal[r].rollback_of
    PROVE  Told(q)' /\ StaysOn(q)
<1>1. PICK h \in Rank, t \in Ids \cup {NoId} : Story(h, q, t)
  BY DEF Told
<1>2. q \in Paths /\ Finishing(q) = {} /\ Finishing(q)' = IF pc'[p] \in FinishSteps THEN {work'[p].source} ELSE {}
  BY FinishingOwn, FinishingNext
<1>3. undo'[q] = undo[q] /\ undo \in [Paths -> Seq(Images)]
  BY <1>2 DEF UndoMoves, Known
<1>4. OpenOn(q) = {r}
  BY OneOpen
<1>5. Story(h, q, t)'
  BY <1>1, <1>2, <1>3, <1>4, StorySettled
<1>6. StaysOn(q)
  BY DEF StaysOn, OnlyState, SameTransaction, OpenOn, On
<1> QED BY <1>5, <1>6 DEF Told

----------------------------------------------------------------------------
\* The verdicts on an open receipt.

\* A process inside the lock of a path, or inside a write or a rollback.
LEMMA InsideLock ==
    ASSUME Known, NEW p \in Procs, pc[p] \in LockedSteps, NEW q, q = Path(p)
    PROVE  q \in Paths /\ disk[q] \in Images /\ undo[q] \in Seq(Images)
BY DEF Known, Sound, Control, LockDiscipline, HoldsLock, Store, StoreTypes

\* A receipt is of a write or of a rollback.
LEMMA TwoOps ==
    ASSUME Known, NEW r \in Ids
    PROVE  /\ journal[r] \in Receipt
           /\ IsWrite(r) <=> journal[r].op = "FS_WRITE"
           /\ ~IsWrite(r) <=> journal[r].op = "ROLLBACK"
<1>1. journal[r] \in Receipt
  BY DEF Known, Sound, Store, StoreTypes
<1>2. journal[r].op \in {"FS_WRITE", "ROLLBACK"}
  BY <1>1 DEF Receipt
<1> QED BY <1>1, <1>2 DEF IsWrite

\* What an applied receipt says is on disk is there, so _reconcile_one settles it.
LEMMA OpenVerdict ==
    ASSUME Undisturbed, Known, NEW q \in Paths, Told(q), NEW r, r \in OpenOn(q)
    PROVE  /\ r \in Ids /\ journal[r].path = q /\ journal[r].state \in INCOMPLETE_STATES
           /\ journal[r].state = "PREPARED" =>
                  Reconciled(journal, backup, disk, r) =
                      IF disk[q] = journal[r].pre THEN "RECOVERED_UNAPPLIED" ELSE "RECOVERY_REQUIRED"
           /\ journal[r].state = "APPLIED" =>
                  Reconciled(journal, backup, disk, r) = "VERIFIED" /\ disk[q] = journal[r].post
<1>1. r \in Ids /\ journal[r].path = q /\ journal[r].state \in INCOMPLETE_STATES
  BY DEF OpenOn, On
<1>2. PICK h \in Rank, t \in Ids \cup {NoId} : Story(h, q, t)
  BY DEF Told
<1>3. journal[r].state = "APPLIED" => disk[q] = journal[r].post
  <2>1. IsWrite(r) /\ journal[r].state = "APPLIED" => r = t /\ AtRest(h, q, t)
    BY <1>2 DEF Story, OpenOK
  <2>2. ~IsWrite(r) => Reverts(h, q, t, r)
    BY <1>2 DEF Story, OpenOK
  <2>3. r # NoId
    BY <1>1 DEF Ids, NoId
  <2>4. CASE IsWrite(r)
    BY <2>1, <2>3, <2>4 DEF AtRest
  <2>5. CASE ~IsWrite(r)
    BY <2>2, <2>5 DEF Reverts
  <2> QED BY <2>4, <2>5
<1>4. CASE IsWrite(r)
  <2>1. backup_ok(journal, backup, r) /\ journal[r].op = "FS_WRITE"
    BY <1>1, <1>4 DEF Known, Intact, ReceiptOK, IsWrite
  <2>2. Reconciled(journal, backup, disk, r) = ReconciledWrite(journal, backup, disk, r)
    BY <2>1 DEF Reconciled
  <2> QED BY <1>1, <1>3, <2>1, <2>2 DEF ReconciledWrite
<1>5. CASE ~IsWrite(r)
  <2>1. Reconciled(journal, backup, disk, r) = ReconciledRollback(journal, disk, r)
    BY <1>1, <1>5, TwoOps DEF Reconciled
  <2> QED BY <1>1, <1>3, <2>1 DEF ReconciledRollback
<1> QED BY <1>1, <1>3, <1>4, <1>5

\* Writing that verdict settles the receipt as StorySettled has it.
LEMMA VerdictTrue ==
    ASSUME Undisturbed, Known, NEW q \in Paths, Told(q), NEW r, r \in OpenOn(q),
           NEW s, s = Reconciled(journal, backup, disk, r), SetState(r, s)
    PROVE  /\ OnlyState(r) /\ TrueVerdict(q, r) /\ journal'[r].state = s
           /\ s \in SettledStates
<1>1. /\ r \in Ids /\ journal[r].path = q /\ journal[r].state \in INCOMPLETE_STATES
      /\ journal[r].state = "PREPARED" =>
             s = IF disk[q] = journal[r].pre THEN "RECOVERED_UNAPPLIED" ELSE "RECOVERY_REQUIRED"
      /\ journal[r].state = "APPLIED" => s = "VERIFIED" /\ disk[q] = journal[r].post
  BY OpenVerdict
<1>2. s \in SettledStates
  BY <1>1, ReconciledSettles
<1>3. /\ journal \in [Ids -> Receipt] /\ s \in KNOWN_STATES \cup CORRUPT_STATES \cup {"NONE"}
  BY <1>2, StateFacts DEF Known, Sound, Store, StoreTypes
<1>4. /\ journal'[r].state = s
      /\ journal'[r].op = journal[r].op /\ journal'[r].project = journal[r].project
      /\ journal'[r].path = journal[r].path /\ journal'[r].pre = journal[r].pre
      /\ journal'[r].post = journal[r].post /\ journal'[r].prev = journal[r].prev
      /\ journal'[r].rollback_of = journal[r].rollback_of
      /\ \A i \in Ids \ {r} : journal'[i] = journal[i]
  BY <1>1, <1>3, SetStateEffect
<1>5. OnlyState(r)
  BY <1>4 DEF OnlyState, SameTransaction
<1>6. TrueVerdict(q, r)
  BY <1>1, <1>4 DEF TrueVerdict, INCOMPLETE_STATES
<1> QED BY <1>2, <1>4, <1>5, <1>6

----------------------------------------------------------------------------
\* The head that rollback selects is the newest standing write.

LEMMA HeadIsTop ==
    ASSUME Undisturbed, Known, NEW p \in Procs, pc[p] \in WriteSteps \cup RollbackSteps,
           NEW q, q = Path(p), NEW h, NEW t \in Ids \cup {NoId}, Story(h, q, t), NEW image,
           NEW s \in Heads(journal, Project(p), q, image)
    PROVE  /\ s = t /\ t \in Standing(q) /\ t \in Ids
           /\ journal[t].state = "VERIFIED" /\ journal[t].post = image
<1>1. /\ s \in Ids /\ journal[s].path = q /\ IsWrite(s)
      /\ journal[s].state = "VERIFIED" /\ journal[s].post = image
  BY DEF Heads, Candidates, ValidFor, IsWrite
<1>2. s \in Standing(q) /\ s \in Nat /\ s # NoId
  BY <1>1 DEF Standing, On, Ids, NoId
<1>3. s <= t /\ t \in Standing(q) \cup {NoId}
  BY <1>2 DEF Story, Chain, Newest
<1>4. t \in Standing(q) /\ t \in Nat
  BY <1>2, <1>3 DEF Ids, NoId
<1>5. ~(s < t)
  <2> SUFFICES ASSUME s < t PROVE FALSE
    OBVIOUS
  <2>1. PICK u \in Standing(q) : journal[u].prev = s
    BY <1>2, <1>4 DEF Story, Chain, Linked
  <2>2. u \in Ids /\ journal[u].state \in {"APPLIED", "VERIFIED"} /\ journal[u].path = q
    BY <2>1 DEF Standing, On
  <2>3. journal[u].project = Project(p) /\ journal[u].state \in KNOWN_STATES
    BY <2>2, PendingOn DEF KNOWN_STATES, TERMINAL_STATES, INCOMPLETE_STATES
  <2>4. s \in EffectiveRefs(journal, Project(p), q)
    BY <1>2, <2>1, <2>2, <2>3 DEF EffectiveRefs, ReferencedBy, ValidFor
  <2> QED BY <2>4 DEF Heads
<1>6. s = t
  BY <1>2, <1>3, <1>4, <1>5
<1> QED BY <1>1, <1>4, <1>6

LEMMA TopIsHead ==
    ASSUME Undisturbed, Known, NEW p \in Procs, pc[p] \in WriteSteps \cup RollbackSteps,
           NEW q, q = Path(p), NEW h, NEW t \in Ids \cup {NoId}, Story(h, q, t),
           t \in Standing(q), journal[t].state = "VERIFIED"
    PROVE  Heads(journal, Project(p), q, journal[t].post) = {t}
<1>1. t \in Ids /\ t \in Nat /\ t # NoId /\ journal[t].path = q /\ journal[t].op = "FS_WRITE"
  BY DEF Standing, On, Ids, NoId, IsWrite
<1>2. t \in Candidates(journal, Project(p), q, journal[t].post)
  BY <1>1, PendingOn DEF Candidates, ValidFor, KNOWN_STATES, TERMINAL_STATES
<1>3. ASSUME NEW i \in Ids, journal[i].path = q, journal[i].state \in {"APPLIED", "VERIFIED"}
      PROVE  journal[i].prev # t
  <2>1. CASE IsWrite(i)
    <3>1. i \in Standing(q) /\ i \in Nat
      BY <1>3, <2>1 DEF Standing, On, Ids
    <3>2. i <= t /\ journal[i].prev < i
      BY <3>1 DEF Story, Chain, Newest, Linked
    <3> QED BY <1>1, <3>1, <3>2
  <2>2. CASE ~IsWrite(i)
    <3>1. i \in On(q, {"PREPARED", "APPLIED", "VERIFIED"})
      BY <1>3 DEF On
    <3> QED BY <1>1, <2>2, <3>1 DEF Story, Unlinked
  <2> QED BY <2>1, <2>2
<1>4. t \notin EffectiveRefs(journal, Project(p), q)
  BY <1>3 DEF EffectiveRefs, ReferencedBy, ValidFor
<1>5. t \in Heads(journal, Project(p), q, journal[t].post)
  BY <1>2, <1>4 DEF Heads
<1> QED BY <1>5, HeadIsTop

----------------------------------------------------------------------------
\* The steps of fs_write.

\* No step but the ones named is of the finishing ones.
LEMMA StepFacts ==
    /\ FinishSteps = {"w_finalize", "r_finalize", "s_finalize", "r_source"}
    /\ FinishSteps \subseteq LockedSteps
    /\ WriteSteps \cup RollbackSteps \subseteq LockedSteps
BY DEF FinishSteps, FinalizeSteps, LockedSteps, WriteSteps, RollbackSteps

\* A step that leaves the journal and the target leaves the story.
LEMMA NothingTold ==
    ASSUME Known, NEW p \in Procs, pc[p] \in LockedSteps, Frame(p), UndoMoves(p),
           pc[p] \notin FinishSteps, pc'[p] \notin FinishSteps,
           NEW q, q = Path(p), Told(q), disk'[q] = disk[q], journal' = journal
    PROVE  Told(q)' /\ StaysOn(q)
<1>1. Told(q)'
  BY ToldKept
<1> QED BY <1>1 DEF StaysOn

\* An operation that returns is idle.
LEMMA ReturnIdle ==
    ASSUME Known, NEW p \in Procs, Return(p)
    PROVE  pc'[p] = "idle" /\ pc'[p] \notin FinishSteps
BY StepFacts DEF Return, Goto, Known, Sound, Control, ControlTypes

LEMMA GotoAt ==
    ASSUME Known, NEW p \in Procs, NEW label, Goto(p, label)
    PROVE  pc'[p] = label
BY DEF Goto, Known, Sound, Control, ControlTypes

\* The second write of a rollback is next.
LEMMA FinalizeAt ==
    ASSUME Known, NEW p \in Procs, NEW label, NEW r, ThenFinalize(p, label, r)
    PROVE  pc'[p] = label /\ work'[p].source = journal[r].rollback_of /\ job' = job
<1>1. work \in [Procs -> Work] /\ work' = [work EXCEPT ![p].source = journal[r].rollback_of]
  BY DEF Known, Sound, Control, ControlTypes, ThenFinalize
<1>2. work[p] \in Work
  BY <1>1
<1>3. work'[p].source = journal[r].rollback_of
  BY <1>1, <1>2 DEF Work
<1> QED BY <1>3, GotoAt DEF ThenFinalize

LEMMA ReconcileTold ==
    ASSUME Undisturbed, Known, NEW p \in Procs, Frame(p), UndoMoves(p), ReconcilePending(p),
           NEW q, q = Path(p), Told(q)
    PROVE  Told(q)' /\ StaysOn(q)
<1>1. pc[p] = "w_reconcile" /\ disk' = disk
  BY DEF ReconcilePending, At
<1>2. PICK r \in FilesInOrder(journal, PendingOf(p)) :
        LET verdict == Reconciled(journal, backup, disk, r)
        IN  /\ SetState(r, verdict)
            /\ IF journal[r].op = "ROLLBACK" /\ verdict = "VERIFIED"
               THEN ThenFinalize(p, "w_finalize", r)
               ELSE Continue(p, "w_reconcile")
  BY DEF ReconcilePending
<1>3. PICK s : s = Reconciled(journal, backup, disk, r)
  OBVIOUS
<1>4. /\ SetState(r, s)
      /\ IF journal[r].op = "ROLLBACK" /\ s = "VERIFIED" THEN ThenFinalize(p, "w_finalize", r)
         ELSE Continue(p, "w_reconcile")
  BY <1>2, <1>3
<1>5. pc[p] \in WriteSteps /\ pc[p] \in LockedSteps /\ pc[p] \notin FinishSteps /\ q \in Paths
  BY <1>1, StepFacts, InsideLock DEF WriteSteps
<1>6. r \in OpenOn(q)
  BY <1>5, FilesInOrderIn, PendingOn
<1>7. r \in Ids /\ OnlyState(r) /\ TrueVerdict(q, r) /\ journal'[r].state = s
  BY <1>3, <1>4, <1>5, <1>6, VerdictTrue DEF OpenOn, On
<1>8. CASE journal[r].op = "ROLLBACK" /\ s = "VERIFIED"
  <2>1. pc'[p] = "w_finalize" /\ work'[p].source = journal[r].rollback_of /\ job' = job
    BY <1>4, <1>8, FinalizeAt
  <2>2. pc'[p] \in FinishSteps /\ ~IsWrite(r)
    BY <1>7, <1>8, <2>1, StepFacts, TwoOps
  <2> QED BY <1>1, <1>5, <1>6, <1>7, <1>8, <2>1, <2>2, ToldSettled
<1>9. CASE ~(journal[r].op = "ROLLBACK" /\ s = "VERIFIED")
  <2>1. pc'[p] = "w_reconcile"
    BY <1>4, <1>9, GotoAt DEF Continue
  <2>2. pc'[p] \notin FinishSteps /\ ~(s = "VERIFIED" /\ ~IsWrite(r))
    BY <1>7, <1>9, <2>1, StepFacts, TwoOps
  <2> QED BY <1>1, <1>5, <1>6, <1>7, <2>2, ToldSettled
<1> QED BY <1>8, <1>9

LEMMA CheckTold ==
    ASSUME Known, NEW p \in Procs, Frame(p), UndoMoves(p),
           CheckWrite(p) \/ SaveBackup(p) \/ CheckRollback(p) \/ PeekTarget(p),
           NEW q, q = Path(p), Told(q)
    PROVE  Told(q)' /\ StaysOn(q)
<1>1. journal' = journal /\ disk' = disk
  BY DEF CheckWrite, SaveBackup, CheckRollback, PeekTarget, store
<1>2. pc[p] \in LockedSteps /\ pc[p] \notin FinishSteps
  BY StepFacts DEF CheckWrite, SaveBackup, CheckRollback, PeekTarget, At, LockedSteps, WriteSteps, RollbackSteps
<1>3. \/ Return(p) \/ Goto(p, "w_save") \/ Goto(p, "w_prepare") \/ Goto(p, "r_peek") \/ Goto(p, "r_settle")
  BY DEF CheckWrite, SaveBackup, CheckRollback, PeekTarget
<1>4. pc'[p] \notin FinishSteps
  BY <1>3, ReturnIdle, GotoAt, StepFacts
<1> QED BY <1>1, <1>2, <1>4, NothingTold

\* save_preimage journals its intent on a quiet path, with the newest standing write as prev.
LEMMA PreparedTold ==
    ASSUME Undisturbed, Known, NEW p \in Procs, Recalls(p), Frame(p), UndoMoves(p), JournalPrepared(p),
           NEW q, q = Path(p), Told(q)
    PROVE  Told(q)' /\ StaysOn(q)
<1>0. PICK rid \in Ids : rid = work[p].rid
  BY DEF JournalPrepared, At, Known, Sound, Control, LocalsNamed, OwnSteps
<1>1. pc[p] = "w_prepare" /\ disk' = disk /\ pc'[p] = "w_replace"
  BY GotoAt DEF JournalPrepared, At, Continue
<1>2. PICK prev \in find_superseded_id(journal, Project(p), q, work[p].pre) :
        journal' = [journal EXCEPT ![rid] = WriteReceipt(Project(p), q, work[p].pre, prev)]
  BY <1>0 DEF JournalPrepared
<1>3. /\ pc[p] \in WriteSteps /\ pc[p] \in LockedSteps /\ pc[p] \notin FinishSteps /\ pc'[p] \notin FinishSteps
      /\ q \in Paths /\ journal \in [Ids -> Receipt]
  BY <1>1, StepFacts, InsideLock DEF WriteSteps, Known, Sound, Store, StoreTypes
<1>4. OpenOn(q) = {} /\ StuckOn(q) = {}
  <2>1. PendingOf(p) = {} /\ Blocking(journal, Project(p), Path(p)) = {}
    BY <1>1 DEF Known, OpenInv, OnlyOwnOpen, FreshSteps, Intact, ProcessOK, Unblocked
  <2> QED BY <1>3, <2>1, PendingOn
<1>5. Finishing(q) = {} /\ Finishing(q)' = {} /\ undo'[q] = undo[q]
  BY <1>1, <1>3, FinishingOwn, FinishingNext DEF UndoMoves
<1>6. work[p].pre = disk[q]
  BY <1>1, Counters DEF Known, NoLostUpdate
<1>7. journal[rid].state = "NONE"
  <2>1. ~Issued(rid)
    BY <1>0, <1>1 DEF Issued, Reserved
  <2> QED BY <1>3, <2>1 DEF Known, Intact, ReceiptOK
<1>8. PICK h \in Rank, t \in Ids \cup {NoId} : Story(h, q, t)
  BY DEF Told
<1>9. AtRest(h, q, t) /\ \A s \in Standing(q) : journal[s].state = "VERIFIED"
  BY <1>4, <1>5, <1>8, Quiet
<1>10. t \in Standing(q) \cup {NoId} /\ NoId \notin Ids /\ \A i \in Ids : i \in Nat
  BY <1>8 DEF Story, Chain, Newest, Ids, NoId
<1>11. \A r \in Ids : journal[r].state # "NONE" /\ journal[r].path = q => r < rid
  BY <1>0, <1>1 DEF Recalls
<1>12. t < rid
  <2>1. CASE t = NoId
    BY <1>3, <2>1 DEF Ids, NoId
  <2>2. CASE t \in Standing(q)
    BY <1>11, <2>2 DEF Standing, On
  <2> QED BY <1>10, <2>1, <2>2
<1>13. t # NoId => prev = t
  <2> SUFFICES ASSUME t # NoId PROVE prev = t
    OBVIOUS
  <2>1. t \in Standing(q) /\ journal[t].state = "VERIFIED" /\ disk[q] = journal[t].post
    BY <1>9, <1>10 DEF AtRest
  <2>2. journal[t].post # Absent
    BY <1>8, <2>1 DEF Story, Chain, Linked
  <2>3. Heads(journal, Project(p), q, work[p].pre) = {t}
    BY <1>3, <1>6, <1>8, <2>1, TopIsHead
  <2>4. Cardinality({t}) = 1
    BY FS_Singleton
  <2> QED BY <1>2, <1>6, <2>1, <2>2, <2>3, <2>4 DEF find_superseded_id
<1>14. prev < rid
  <2>1. CASE t # NoId
    BY <1>12, <1>13, <2>1
  <2>2. CASE t = NoId
    <3>1. Heads(journal, Project(p), q, work[p].pre) = {}
      BY <1>3, <1>8, <1>10, <2>2, HeadIsTop
    <3>2. prev = NoId \/ prev \in ValidFor(journal, Project(p), q)
      BY <1>2, <3>1 DEF find_superseded_id
    <3>3. prev = NoId => prev < rid
      BY <1>3 DEF Ids, NoId
    <3> QED BY <1>11, <3>2, <3>3, StateFacts DEF ValidFor
  <2> QED BY <2>1, <2>2
<1> DEFINE receipt == WriteReceipt(Project(p), q, work[p].pre, prev)
<1>15. /\ receipt.state = "PREPARED" /\ receipt.path = q /\ receipt.pre = work[p].pre
       /\ receipt.prev = prev /\ receipt.op = "FS_WRITE"
  BY DEF WriteReceipt
<1>16. journal'[rid] = receipt /\ \A i \in Ids \ {rid} : journal'[i] = journal[i]
  <2> HIDE DEF receipt
  <2>1. journal' = [journal EXCEPT ![rid] = receipt]
    BY <1>2 DEF receipt
  <2> QED BY <1>3, <2>1
<1> HIDE DEF receipt
<1>17. OnlyReceipt(q, rid)
  BY <1>1, <1>3, <1>5, <1>7, <1>15, <1>16 DEF OnlyReceipt
<1>18. IsWrite(rid)'
  <2>1. journal'[rid].op = "FS_WRITE"
    BY <1>15, <1>16
  <2> QED BY <2>1 DEF IsWrite
<1>19. Story(h, q, t)'
  BY <1>3, <1>4, <1>6, <1>7, <1>8, <1>12, <1>13, <1>14, <1>15, <1>16, <1>17, <1>18, StoryOpened
<1> QED BY <1>17, <1>19 DEF Told, StaysOn, OnlyReceipt

\* A process that has journalled its intent has the one open receipt of its path.
LEMMA OwnOpen ==
    ASSUME Undisturbed, Known, NEW p \in Procs, NEW q, q = Path(p),
           pc[p] \in {"w_replace", "w_note", "w_record", "r_restore", "r_copy", "r_applied", "r_terminal"},
           NEW rid, rid = work[p].rid
    PROVE  /\ rid \in Ids /\ OpenOn(q) = {rid} /\ journal[rid].path = q /\ journal[rid].pre = work[p].pre
           /\ journal[rid].project = Project(p)
           /\ IsWrite(rid) <=> pc[p] \in {"w_replace", "w_note", "w_record"}
           /\ journal[rid].state = IF pc[p] \in {"w_record", "r_terminal"} THEN "APPLIED" ELSE "PREPARED"
           /\ ~IsWrite(rid) => journal[rid].rollback_of = work[p].source
           /\ pc[p] \in LockedSteps /\ pc[p] \in WriteSteps \cup RollbackSteps /\ pc[p] \notin FinishSteps
           /\ Finishing(q) = {}
<1>1. /\ rid \in Ids /\ pc[p] \in LockedSteps /\ pc[p] \in WriteSteps \cup RollbackSteps
      /\ pc[p] \notin FinishSteps
  BY StepFacts DEF Known, Sound, Control, LocalsNamed, OwnSteps, LockedSteps, WriteSteps, RollbackSteps
<1>2. OwnOK(p)
  BY DEF Known, Intact, ProcessOK
<1>3. /\ journal[rid].path = q /\ journal[rid].pre = work[p].pre /\ journal[rid].project = Project(p)
      /\ journal[rid].state = IF pc[p] \in {"w_record", "r_terminal"} THEN "APPLIED" ELSE "PREPARED"
      /\ journal[rid].op = IF pc[p] \in {"w_replace", "w_note", "w_record"} THEN "FS_WRITE" ELSE "ROLLBACK"
      /\ pc[p] \notin {"w_replace", "w_note", "w_record"} => journal[rid].rollback_of = work[p].source
  BY <1>2 DEF OwnOK, Describes
<1>4. rid \in OpenOn(q)
  BY <1>1, <1>3 DEF OpenOn, On, INCOMPLETE_STATES
<1>5. OpenOn(q) = {rid}
  BY <1>4, OneOpen
<1>6. Finishing(q) = {}
  BY <1>1, FinishingOwn
<1> QED BY <1>1, <1>3, <1>5, <1>6 DEF IsWrite

\* durable_replace of the target.
LEMMA ReplacedTold ==
    ASSUME Undisturbed, Known, NEW p \in Procs, Frame(p), UndoMoves(p), ReplaceTarget(p),
           NEW q, q = Path(p), Told(q)
    PROVE  Told(q)' /\ StaysOn(q)
<1>1. PICK rid : rid = work[p].rid
  OBVIOUS
<1>2. pc[p] = "w_replace" /\ journal' = journal /\ pc'[p] = "w_note"
  BY GotoAt DEF ReplaceTarget, At, Continue, store
<1>3. /\ rid \in Ids /\ OpenOn(q) = {rid} /\ journal[rid].pre = work[p].pre /\ IsWrite(rid)
      /\ journal[rid].state = "PREPARED" /\ pc[p] \in LockedSteps /\ pc[p] \notin FinishSteps /\ Finishing(q) = {}
  BY <1>1, <1>2, OwnOpen
<1>4. q \in Paths /\ disk[q] \in Images /\ pc'[p] \notin FinishSteps
  BY <1>2, <1>3, InsideLock, StepFacts
<1>5. disk[q] = journal[rid].pre
  BY <1>2, <1>3, Counters DEF Known, NoLostUpdate
<1>6. CASE disk'[q] = disk[q]
  BY <1>2, <1>3, <1>4, <1>6, NothingTold
<1>7. CASE disk'[q] # disk[q]
  <2>1. PICK h \in Rank, t \in Ids \cup {NoId} : Story(h, q, t)
    BY DEF Told
  <2>2. undo'[q] = <<disk[q]>> \o undo[q] /\ undo \in [Paths -> Seq(Images)]
    BY <1>2, <1>4, <1>7 DEF UndoMoves, Known
  <2>3. Finishing(q)' = {}
    BY <1>3, <1>4, FinishingNext
  <2>4. Story(h, q, t)'
    BY <1>2, <1>3, <1>4, <1>5, <1>7, <2>1, <2>2, <2>3, StoryReplaced
  <2> QED BY <1>2, <2>4 DEF Told, StaysOn
<1> QED BY <1>6, <1>7

\* note_target_replaced.
LEMMA NotedTold ==
    ASSUME Undisturbed, Known, NEW p \in Procs, Frame(p), UndoMoves(p), NoteReplaced(p),
           NEW q, q = Path(p), Told(q)
    PROVE  Told(q)' /\ StaysOn(q)
<1>1. PICK rid : rid = work[p].rid
  OBVIOUS
<1>2. pc[p] = "w_note" /\ disk' = disk
  BY DEF NoteReplaced, At
<1>3. /\ rid \in Ids /\ OpenOn(q) = {rid} /\ journal[rid].path = q /\ IsWrite(rid)
      /\ journal[rid].state = "PREPARED" /\ pc[p] \in LockedSteps /\ pc[p] \notin FinishSteps /\ Finishing(q) = {}
  BY <1>1, <1>2, OwnOpen
<1>4. q \in Paths /\ disk[q] \in Images /\ undo'[q] = undo[q]
  BY <1>2, <1>3, InsideLock DEF UndoMoves
<1>5. CASE disk[q] = Absent
  <2>1. journal' = journal /\ Return(p)
    BY <1>5 DEF NoteReplaced
  <2>2. pc'[p] \notin FinishSteps
    BY <2>1, ReturnIdle
  <2> QED BY <1>2, <1>3, <2>1, <2>2, NothingTold
<1>6. CASE disk[q] # Absent
  <2>1. /\ journal' = [journal EXCEPT ![rid].state = "APPLIED", ![rid].post = disk[q]]
        /\ Goto(p, "w_record")
    BY <1>1, <1>3, <1>6 DEF NoteReplaced
  <2>2. journal \in [Ids -> Receipt]
    BY DEF Known, Sound, Store, StoreTypes
  <2>3. /\ journal'[rid].state = "APPLIED" /\ journal'[rid].post = disk[q]
        /\ SameTransaction(rid) /\ journal'[rid].prev = journal[rid].prev
        /\ \A i \in Ids \ {rid} : journal'[i] = journal[i]
    BY <1>3, <1>4, <2>1, <2>2, AppliedEffect DEF SameTransaction
  <2>4. Finishing(q)' = {}
    BY <1>3, <2>1, GotoAt, FinishingNext, StepFacts
  <2>5. OnlyReceipt(q, rid)
    BY <1>2, <1>3, <1>4, <2>3, <2>4 DEF OnlyReceipt, SameTransaction
  <2>6. PICK h \in Rank, t \in Ids \cup {NoId} : Story(h, q, t)
    BY DEF Told
  <2>7. Told(q)'
    BY <1>3, <1>4, <1>6, <2>3, <2>5, <2>6, StoryNoted DEF Known
  <2> QED BY <2>5, <2>7 DEF StaysOn, OnlyReceipt
<1> QED BY <1>5, <1>6

\* A write is recorded as verified.
LEMMA RecordedEffect ==
    ASSUME journal \in [Ids -> Receipt], NEW r \in Ids, NEW post \in Images,
           journal' = [journal EXCEPT ![r].state = "VERIFIED", ![r].post = post]
    PROVE  /\ journal' \in [Ids -> Receipt]
           /\ journal'[r].state = "VERIFIED" /\ journal'[r].post = post
           /\ journal'[r].op = journal[r].op /\ journal'[r].project = journal[r].project
           /\ journal'[r].path = journal[r].path /\ journal'[r].pre = journal[r].pre
           /\ journal'[r].prev = journal[r].prev
           /\ journal'[r].rollback_of = journal[r].rollback_of
           /\ \A i \in Ids \ {r} : journal'[i] = journal[i]
<1>1. "VERIFIED" \in KNOWN_STATES
  BY DEF KNOWN_STATES, TERMINAL_STATES
<1> QED BY <1>1, AdvanceEffect

\* record_postimage finds the image it noted.
LEMMA RecordedTold ==
    ASSUME Undisturbed, Known, NEW p \in Procs, Recalls(p), Frame(p), UndoMoves(p), RecordPostimage(p),
           NEW q, q = Path(p), Told(q)
    PROVE  Told(q)' /\ StaysOn(q)
<1>1. PICK rid : rid = work[p].rid
  OBVIOUS
<1>2. pc[p] = "w_record" /\ disk' = disk /\ Return(p)
  BY DEF RecordPostimage, At
<1>3. /\ rid \in Ids /\ rid \in OpenOn(q) /\ journal[rid].path = q /\ IsWrite(rid)
      /\ journal[rid].state = "APPLIED" /\ pc[p] \in LockedSteps /\ pc[p] \notin FinishSteps
  BY <1>1, <1>2, OwnOpen
<1>4. q \in Paths /\ pc'[p] \notin FinishSteps
  BY <1>2, <1>3, InsideLock, ReturnIdle
<1>5. journal[rid].post = work[p].seen /\ disk[q] = journal[rid].post
  BY <1>1, <1>2, <1>3, <1>4, OpenVerdict DEF Recalls
<1>6. /\ journal' = [journal EXCEPT ![rid].state = "VERIFIED", ![rid].post = work[p].seen]
      /\ journal \in [Ids -> Receipt] /\ work[p].seen \in Images
  BY <1>1, <1>3, <1>5 DEF RecordPostimage, INCOMPLETE_STATES, Known, Sound, Store, StoreTypes, Control,
     ControlTypes, Work
<1>7. /\ journal'[rid].state = "VERIFIED" /\ journal'[rid].post = journal[rid].post
      /\ SameTransaction(rid) /\ journal'[rid].prev = journal[rid].prev
      /\ \A i \in Ids \ {rid} : journal'[i] = journal[i]
  BY <1>3, <1>5, <1>6, RecordedEffect DEF SameTransaction
<1>8. OnlyState(rid) /\ TrueVerdict(q, rid)
  BY <1>3, <1>7 DEF OnlyState, TrueVerdict
<1> QED BY <1>2, <1>3, <1>4, <1>8, ToldSettled

----------------------------------------------------------------------------
\* The steps of fs_rollback.

\* `current` of _supersede_pending is what is on disk.
LEMMA SettledSame ==
    ASSUME Undisturbed, Known, NEW p \in Procs, pc[p] = "r_settle", Recalls(p),
           NEW q, q = Path(p), q \in Paths, Told(q), NEW r, r \in OpenOn(q)
    PROVE  Settled(p, r) = Reconciled(journal, backup, disk, r)
<1>1. work[p].seen = disk[q]
  BY DEF Recalls
<1>2. journal[r].state = "APPLIED" =>
          Reconciled(journal, backup, disk, r) = "VERIFIED" /\ disk[q] = journal[r].post
  BY OpenVerdict
<1> QED BY <1>1, <1>2 DEF Settled

LEMMA SettleTold ==
    ASSUME Undisturbed, Known, NEW p \in Procs, Recalls(p), Frame(p), UndoMoves(p), SettlePending(p),
           NEW q, q = Path(p), Told(q)
    PROVE  Told(q)' /\ StaysOn(q)
<1>1. pc[p] = "r_settle" /\ disk' = disk
  BY DEF SettlePending, At
<1>2. PICK r \in FilesInOrder(journal, PendingOf(p)) :
        LET verdict == Settled(p, r)
        IN  /\ SetState(r, verdict)
            /\ CASE verdict = "RECOVERY_REQUIRED" -> Return(p)
                 [] verdict = "VERIFIED" /\ journal[r].op = "ROLLBACK" ->
                       ThenFinalize(p, "r_finalize", r)
                 [] verdict = "RECOVERED_UNAPPLIED" /\ journal[r].op = "FS_WRITE" ->
                       /\ Goto(p, "r_supersede")
                       /\ work' = [work EXCEPT ![p].rid = r]
                       /\ UNCHANGED <<job, lock>>
                 [] OTHER -> Continue(p, "r_settle")
  BY DEF SettlePending
<1>3. pc[p] \in RollbackSteps /\ pc[p] \in LockedSteps /\ pc[p] \notin FinishSteps /\ q \in Paths
  BY <1>1, StepFacts, InsideLock DEF RollbackSteps
<1>4. r \in OpenOn(q)
  BY <1>3, FilesInOrderIn, PendingOn
<1>5. PICK s : s = Settled(p, r)
  OBVIOUS
<1>6. SetState(r, s) /\ s = Reconciled(journal, backup, disk, r)
  BY <1>1, <1>2, <1>3, <1>4, <1>5, SettledSame
<1>7. /\ r \in Ids /\ OnlyState(r) /\ TrueVerdict(q, r) /\ journal'[r].state = s
  BY <1>3, <1>4, <1>6, VerdictTrue DEF OpenOn, On
<1>8. CASE s = "VERIFIED" /\ journal[r].op = "ROLLBACK"
  <2>1. ThenFinalize(p, "r_finalize", r)
    BY <1>2, <1>5, <1>8
  <2>2. pc'[p] = "r_finalize" /\ work'[p].source = journal[r].rollback_of /\ job' = job
    BY <2>1, FinalizeAt
  <2>3. pc'[p] \in FinishSteps /\ ~IsWrite(r)
    BY <1>7, <1>8, <2>2, StepFacts, TwoOps
  <2> QED BY <1>1, <1>3, <1>4, <1>7, <1>8, <2>2, <2>3, ToldSettled
<1>9. CASE ~(s = "VERIFIED" /\ journal[r].op = "ROLLBACK")
  <2>1. Return(p) \/ Goto(p, "r_supersede") \/ Goto(p, "r_settle")
    BY <1>2, <1>5, <1>9 DEF Continue
  <2>2. pc'[p] \notin FinishSteps
    BY <2>1, ReturnIdle, GotoAt, StepFacts
  <2>3. ~(s = "VERIFIED" /\ ~IsWrite(r))
    BY <1>7, <1>9, TwoOps
  <2> QED BY <1>1, <1>3, <1>4, <1>7, <2>2, <2>3, ToldSettled
<1> QED BY <1>8, <1>9

\* A receipt marked SUPERSEDED was settled before.
LEMMA SupersededTold ==
    ASSUME Known, NEW p \in Procs, Frame(p), UndoMoves(p), MarkSuperseded(p),
           NEW q, q = Path(p), Told(q)
    PROVE  Told(q)' /\ StaysOn(q)
<1>1. pc[p] = "r_supersede" /\ disk' = disk
  BY DEF MarkSuperseded, At
<1>2. pc[p] \in LockedSteps /\ pc[p] \notin FinishSteps
  BY <1>1, StepFacts DEF RollbackSteps
<1>3. PICK rid \in Ids : rid = work[p].rid
  BY <1>1 DEF Known, Sound, Control, LocalsNamed, OwnSteps
<1>4. /\ journal[rid].state \in {"RECOVERED_UNAPPLIED", "NONE"}
      /\ journal[rid].state = "NONE" \/ journal[rid].path = q
  BY <1>1, <1>3 DEF Known, Intact, ProcessOK, MemoryOK, Lasts
<1>5. CASE journal[rid].state \in KNOWN_STATES
  <2>1. SetState(rid, "SUPERSEDED") /\ Goto(p, "r_settle")
    BY <1>3, <1>5 DEF MarkSuperseded, Continue
  <2>2. pc'[p] \notin FinishSteps
    BY <2>1, GotoAt, StepFacts
  <2>3. journal \in [Ids -> Receipt] /\ "SUPERSEDED" \in KNOWN_STATES
    BY DEF Known, Sound, Store, StoreTypes, KNOWN_STATES, TERMINAL_STATES
  <2>4. /\ journal'[rid].state = "SUPERSEDED" /\ journal'[rid].path = journal[rid].path
        /\ \A i \in Ids \ {rid} : journal'[i] = journal[i]
    BY <2>1, <2>3, SetStateEffect
  <2>5. journal[rid].path = q /\ journal[rid].state \notin LIVE /\ journal'[rid].state \notin LIVE
    BY <1>4, <1>5, <2>4, StateFacts DEF LIVE
  <2>6. Told(q)'
    BY <1>1, <1>2, <2>2, <2>4, <2>5, ToldKept
  <2> QED BY <2>4, <2>5, <2>6 DEF StaysOn
<1>6. CASE journal[rid].state \notin KNOWN_STATES
  <2>1. journal' = journal /\ Return(p)
    BY <1>3, <1>6 DEF MarkSuperseded
  <2>2. pc'[p] \notin FinishSteps
    BY <2>1, ReturnIdle
  <2> QED BY <1>1, <1>2, <2>1, <2>2, NothingTold
<1> QED BY <1>5, <1>6

\* find_latest_receipt selects the newest standing write, which the target is at rest on.
LEMMA SelectTold ==
    ASSUME Undisturbed, Known, NEW p \in Procs, Frame(p), UndoMoves(p), SelectAndJournal(p),
           NEW q, q = Path(p), Told(q)
    PROVE  Told(q)' /\ StaysOn(q)
<1> DEFINE chosen == find_latest_receipt(journal, Project(p), Path(p), work[p].pre)
<1>1. pc[p] = "r_settle" /\ disk' = disk /\ PendingOf(p) = {}
  BY DEF SelectAndJournal, At
<1>2. /\ pc[p] \in RollbackSteps /\ pc[p] \in LockedSteps /\ pc[p] \notin FinishSteps
      /\ q \in Paths /\ journal \in [Ids -> Receipt]
  BY <1>1, StepFacts, InsideLock DEF RollbackSteps, Known, Sound, Store, StoreTypes
<1>3. CASE ~(chosen # {} /\ nextId \in Ids)
  <2>1. journal' = journal /\ Return(p)
    BY <1>3 DEF SelectAndJournal
  <2>2. pc'[p] \notin FinishSteps
    BY <2>1, ReturnIdle
  <2> QED BY <1>1, <1>2, <2>1, <2>2, NothingTold
<1>4. CASE chosen # {} /\ nextId \in Ids
  <2>1. PICK source \in chosen :
          /\ nextId' = nextId + 1
          /\ journal' = [journal EXCEPT ![nextId] =
                RollbackReceipt(Project(p), Path(p), "PREPARED", work[p].pre, Absent, source)]
          /\ work' = [work EXCEPT ![p].rid = nextId, ![p].source = source,
                                  ![p].want = journal[source].pre]
          /\ Goto(p, "r_restore")
          /\ UNCHANGED <<job, lock>>
    BY <1>4 DEF SelectAndJournal
  <2>2. PICK rid \in Ids : rid = nextId
    BY <1>4
  <2>3. PICK h \in Rank, t \in Ids \cup {NoId} : Story(h, q, t)
    BY DEF Told
  <2>4. source \in Heads(journal, Project(p), q, work[p].pre)
    BY DEF find_latest_receipt
  <2>5. source = t /\ t \in Standing(q) /\ t \in Ids /\ journal[t].state = "VERIFIED" /\ journal[t].post = work[p].pre
    BY <1>2, <2>3, <2>4, HeadIsTop
  <2>6. t # NoId /\ work[p].pre = disk[q]
    BY <1>1, <2>5, Counters DEF Ids, NoId, Known, NoLostUpdate
  <2>7. OpenOn(q) = {} /\ StuckOn(q) = {}
    <3>1. OpenOn(q) = {}
      BY <1>1, <1>2, PendingOn
    <3>2. StuckOn(q) = {}
      BY <2>3, <2>5, <2>6 DEF Story, StuckOK
    <3> QED BY <3>1, <3>2
  <2>8. journal[rid].state = "NONE"
    <3>1. ~Issued(rid)
      BY <2>2 DEF Issued, Ids
    <3> QED BY <3>1 DEF Known, Intact, ReceiptOK
  <2>9. pc'[p] = "r_restore" /\ pc'[p] \notin FinishSteps
    BY <2>1, GotoAt, StepFacts
  <2>10. Finishing(q) = {} /\ Finishing(q)' = {} /\ undo'[q] = undo[q]
    BY <1>1, <1>2, <2>9, FinishingOwn, FinishingNext DEF UndoMoves
  <2>11. PICK receipt : receipt = RollbackReceipt(Project(p), q, "PREPARED", work[p].pre, Absent, source)
    OBVIOUS
  <2>12. /\ receipt.state = "PREPARED" /\ receipt.path = q /\ receipt.pre = disk[q]
         /\ receipt.prev = NoId /\ receipt.op = "ROLLBACK" /\ receipt.rollback_of = t
    BY <2>5, <2>6, <2>11 DEF RollbackReceipt
  <2>13. journal' = [journal EXCEPT ![rid] = receipt]
    BY <2>1, <2>2, <2>11
  <2>14. journal'[rid] = receipt /\ \A i \in Ids \ {rid} : journal'[i] = journal[i]
    BY <1>2, <2>13
  <2>15. OnlyReceipt(q, rid)
    BY <1>1, <2>8, <2>10, <2>12, <2>14 DEF OnlyReceipt
  <2>16. ~IsWrite(rid)'
    BY <2>12, <2>14 DEF IsWrite
  <2>17. Story(h, q, t)'
    BY <1>2, <2>3, <2>6, <2>7, <2>8, <2>12, <2>14, <2>15, <2>16, StoryOpened
  <2> QED BY <2>15, <2>17 DEF Told, StaysOn, OnlyReceipt
<1> QED BY <1>3, <1>4

\* What a rollback that has not touched its target yet is about to do.
LEMMA AboutToRestore ==
    ASSUME Undisturbed, Known, NEW p \in Procs, pc[p] \in {"r_restore", "r_copy"}, Recalls(p),
           NEW q, q = Path(p), NEW h, NEW t, Story(h, q, t)
    PROVE  /\ work[p].source = t /\ t \in Standing(q) /\ work[p].want = journal[t].pre
           /\ disk[q] = work[p].pre /\ disk[q] = journal[t].post /\ Len(undo[q]) = h[t]
           /\ work[p].want # Absent => backup[work[p].source] = work[p].want
<1>1. PICK rid : rid = work[p].rid
  OBVIOUS
<1>2. /\ rid \in OpenOn(q) /\ ~IsWrite(rid) /\ journal[rid].rollback_of = work[p].source
      /\ journal[rid].pre = work[p].pre
  BY <1>1, OwnOpen
<1>3. Reverts(h, q, t, rid)
  BY <1>2 DEF Story, OpenOK
<1>4. /\ work[p].source = t /\ t \in Standing(q) /\ journal[t].state = "VERIFIED" /\ work[p].pre = journal[t].post
  BY <1>2, <1>3 DEF Reverts
<1>5. disk[q] = work[p].pre
  BY Counters DEF Known, NoLostUpdate
<1>6. Len(undo[q]) = h[t]
  BY <1>3, <1>4, <1>5 DEF Reverts
<1>7. work[p].want = journal[t].pre
  BY <1>4 DEF Recalls, SourceSteps
<1>8. backup_ok(journal, backup, t)
  BY <1>4 DEF Known, Intact, ReceiptOK, Standing, On, IsWrite
<1> QED BY <1>4, <1>5, <1>6, <1>7, <1>8 DEF backup_ok

\* The target is unlinked or copied back: the effect on its story.
LEMMA PutBackTold ==
    ASSUME Undisturbed, Known, NEW p \in Procs, pc[p] \in {"r_restore", "r_copy"}, Recalls(p),
           Frame(p), UndoMoves(p), NEW q, q = Path(p), Told(q),
           disk' = [disk EXCEPT ![Path(p)] = work[p].want], journal' = journal, Goto(p, "r_applied")
    PROVE  Told(q)' /\ StaysOn(q)
<1>1. PICK rid : rid = work[p].rid
  OBVIOUS
<1>2. /\ OpenOn(q) = {rid} /\ ~IsWrite(rid) /\ journal[rid].state = "PREPARED" /\ journal[rid].pre = work[p].pre
      /\ pc[p] \in LockedSteps /\ pc[p] \notin FinishSteps /\ Finishing(q) = {}
  BY <1>1, OwnOpen
<1>3. q \in Paths /\ pc'[p] \notin FinishSteps /\ disk \in [Paths -> Images]
  BY <1>2, InsideLock, GotoAt, StepFacts DEF Known, Sound, Store, StoreTypes
<1>4. PICK h \in Rank, t \in Ids \cup {NoId} : Story(h, q, t)
  BY DEF Told
<1>5. work[p].want = journal[t].pre /\ disk[q] = work[p].pre /\ disk'[q] = work[p].want
  BY <1>3, <1>4, AboutToRestore
<1>6. CASE disk'[q] = disk[q]
  BY <1>2, <1>3, <1>6, NothingTold
<1>7. CASE disk'[q] # disk[q]
  <2>1. undo[q] # <<>> => undo'[q] = Tail(undo[q])
    BY <1>3, <1>7 DEF UndoMoves
  <2>2. Finishing(q)' = {}
    BY <1>2, <1>3, FinishingNext
  <2>3. Story(h, q, t)'
    BY <1>2, <1>3, <1>4, <1>5, <1>7, <2>1, <2>2, StoryRestored DEF Known
  <2> QED BY <2>3 DEF Told, StaysOn
<1> QED BY <1>6, <1>7

LEMMA RestoreTold ==
    ASSUME Undisturbed, Known, NEW p \in Procs, Recalls(p), Frame(p), UndoMoves(p),
           RestoreTarget(p) \/ CopyBackup(p), NEW q, q = Path(p), Told(q)
    PROVE  Told(q)' /\ StaysOn(q)
<1>1. pc[p] \in {"r_restore", "r_copy"} /\ pc[p] \in LockedSteps /\ pc[p] \notin FinishSteps
  BY StepFacts DEF RestoreTarget, CopyBackup, At, RollbackSteps
<1>2. PICK h \in Rank, t \in Ids \cup {NoId} : Story(h, q, t)
  BY DEF Told
<1>3. work[p].want # Absent => backup[work[p].source] = work[p].want
  BY <1>1, <1>2, AboutToRestore
<1>4. CASE RestoreTarget(p)
  <2>1. CASE work[p].want = Absent
    <3>1. disk' = [disk EXCEPT ![Path(p)] = work[p].want] /\ Goto(p, "r_applied") /\ journal' = journal
      BY <1>4, <2>1 DEF RestoreTarget, Continue
    <3> QED BY <1>1, <3>1, PutBackTold
  <2>2. CASE work[p].want # Absent
    <3>1. Goto(p, "r_copy") /\ disk' = disk /\ journal' = journal
      BY <1>3, <1>4, <2>2 DEF RestoreTarget, Continue
    <3>2. pc'[p] \notin FinishSteps
      BY <3>1, GotoAt, StepFacts
    <3> QED BY <1>1, <3>1, <3>2, NothingTold
  <2> QED BY <2>1, <2>2
<1>5. CASE CopyBackup(p)
  <2>1. work[p].want # Absent
    BY <1>5 DEF CopyBackup, At, Known, RestoredExactly
  <2>2. /\ disk' = [disk EXCEPT ![Path(p)] = work[p].want] /\ Goto(p, "r_applied") /\ journal' = journal
    BY <1>3, <1>5, <2>1 DEF CopyBackup, Continue, store
  <2> QED BY <1>1, <2>2, PutBackTold
<1> QED BY <1>4, <1>5

\* Every write of the rollback receipt is of the copy in memory.
LEMMA RollbackWritten ==
    ASSUME Undisturbed, Known, NEW p \in Procs, NEW q, q = Path(p),
           pc[p] \in {"r_restore", "r_copy", "r_applied", "r_terminal"}, NEW rid, rid = work[p].rid,
           NEW state, NEW restored, WriteRollback(p, state, restored)
    PROVE  /\ SameTransaction(rid) /\ journal'[rid].state = state /\ journal'[rid].post = restored
           /\ journal'[rid].prev = NoId /\ \A i \in Ids \ {rid} : journal'[i] = journal[i]
<1>1. /\ rid \in Ids /\ journal[rid].path = Path(p) /\ journal[rid].pre = work[p].pre
      /\ journal[rid].project = Project(p) /\ ~IsWrite(rid) /\ journal[rid].rollback_of = work[p].source
  BY OwnOpen
<1>2. journal[rid].op = "ROLLBACK"
  BY <1>1, TwoOps
<1>3. PICK receipt : receipt = RollbackReceipt(Project(p), Path(p), state, work[p].pre, restored, work[p].source)
  OBVIOUS
<1>4. /\ receipt.op = "ROLLBACK" /\ receipt.project = Project(p) /\ receipt.path = Path(p)
      /\ receipt.state = state /\ receipt.pre = work[p].pre /\ receipt.post = restored
      /\ receipt.prev = NoId /\ receipt.rollback_of = work[p].source
  BY <1>3 DEF RollbackReceipt
<1>5. journal' = [journal EXCEPT ![rid] = receipt] /\ journal \in [Ids -> Receipt]
  BY <1>3 DEF WriteRollback, Known, Sound, Store, StoreTypes
<1>6. journal'[rid] = receipt /\ \A i \in Ids \ {rid} : journal'[i] = journal[i]
  BY <1>1, <1>5
<1> QED BY <1>1, <1>2, <1>4, <1>6 DEF SameTransaction

\* The restored file is found as it was restored.
LEMMA AppliedTold ==
    ASSUME Undisturbed, Known, NEW p \in Procs, Recalls(p), Frame(p), UndoMoves(p), RollbackApplied(p),
           NEW q, q = Path(p), Told(q)
    PROVE  Told(q)' /\ StaysOn(q)
<1>1. PICK rid : rid = work[p].rid
  OBVIOUS
<1>2. pc[p] = "r_applied" /\ disk' = disk
  BY DEF RollbackApplied, At
<1>3. disk[q] = work[p].want
  BY <1>2 DEF Recalls
<1>4. WriteRollback(p, "APPLIED", work[p].want) /\ Goto(p, "r_terminal")
  BY <1>3, AbsentIsNoValue DEF RollbackApplied, Continue
<1>5. /\ rid \in Ids /\ OpenOn(q) = {rid} /\ ~IsWrite(rid) /\ journal[rid].state = "PREPARED"
      /\ journal[rid].path = q /\ journal[rid].rollback_of = work[p].source
      /\ pc[p] \in LockedSteps /\ pc[p] \notin FinishSteps /\ Finishing(q) = {}
  BY <1>1, <1>2, OwnOpen
<1>6. /\ SameTransaction(rid) /\ journal'[rid].state = "APPLIED" /\ journal'[rid].post = work[p].want
      /\ journal'[rid].prev = NoId /\ \A i \in Ids \ {rid} : journal'[i] = journal[i]
  BY <1>1, <1>2, <1>4, RollbackWritten
<1>7. q \in Paths /\ pc'[p] \notin FinishSteps /\ undo'[q] = undo[q]
  BY <1>2, <1>4, <1>5, InsideLock, GotoAt, StepFacts DEF UndoMoves
<1>8. Finishing(q)' = {}
  BY <1>5, <1>7, FinishingNext
<1>9. PICK h \in Rank, t \in Ids \cup {NoId} : Story(h, q, t)
  BY DEF Told
<1>10. journal[rid].rollback_of = t
  BY <1>5, <1>9 DEF Story, OpenOK, Reverts
<1>11. work[p].want = journal[t].pre
  BY <1>2, <1>5, <1>10 DEF Recalls, SourceSteps
<1>12. OnlyReceipt(q, rid)
  BY <1>2, <1>5, <1>6, <1>7, <1>8 DEF OnlyReceipt, SameTransaction
<1>13. Story(h, q, t)'
  BY <1>3, <1>5, <1>6, <1>7, <1>9, <1>11, <1>12, StoryApplied
<1> QED BY <1>12, <1>13 DEF Told, StaysOn, OnlyReceipt

\* _finalize_rollback, first write.
LEMMA TerminalTold ==
    ASSUME Undisturbed, Known, NEW p \in Procs, Frame(p), UndoMoves(p), RollbackVerified(p),
           NEW q, q = Path(p), Told(q)
    PROVE  Told(q)' /\ StaysOn(q)
<1>1. PICK rid : rid = work[p].rid
  OBVIOUS
<1>2. /\ pc[p] = "r_terminal" /\ disk' = disk /\ WriteRollback(p, "VERIFIED", work[p].want)
      /\ Goto(p, "r_source") /\ job' = job /\ work' = work
  BY DEF RollbackVerified, At, Continue
<1>3. /\ rid \in Ids /\ rid \in OpenOn(q) /\ ~IsWrite(rid) /\ journal[rid].state = "APPLIED"
      /\ journal[rid].path = q /\ journal[rid].rollback_of = work[p].source
      /\ pc[p] \in LockedSteps /\ pc[p] \notin FinishSteps
  BY <1>1, <1>2, OwnOpen
<1>4. /\ SameTransaction(rid) /\ journal'[rid].state = "VERIFIED"
      /\ journal'[rid].prev = NoId /\ \A i \in Ids \ {rid} : journal'[i] = journal[i]
  BY <1>1, <1>2, RollbackWritten
<1>5. journal[rid].prev = NoId
  BY <1>3 DEF Told, Story, Unlinked, On
<1>6. OnlyState(rid) /\ TrueVerdict(q, rid)
  BY <1>3, <1>4, <1>5 DEF OnlyState, TrueVerdict
<1>7. pc'[p] = "r_source" /\ pc'[p] \in FinishSteps
  BY <1>2, GotoAt, StepFacts
<1> QED BY <1>2, <1>3, <1>4, <1>6, <1>7, ToldSettled

----------------------------------------------------------------------------
\* The second write of a rollback, and recover().

\* A source that is marked already stays so.
LEMMA MarkedAgain ==
    ASSUME Known, NEW s \in Ids, journal[s].state = "ROLLED_BACK", journal' = SourceFinalized(journal, s)
    PROVE  journal' = journal
<1>1. journal \in [Ids -> Receipt] /\ journal[s] \in Receipt
  BY DEF Known, Sound, Store, StoreTypes
<1>2. [journal[s] EXCEPT !.state = "ROLLED_BACK"] = journal[s]
  BY <1>1 DEF Receipt
<1>3. PICK receipt : receipt = journal[s]
  OBVIOUS
<1>4. [journal EXCEPT ![s].state = "ROLLED_BACK"] = [journal EXCEPT ![s] = receipt]
  BY <1>1, <1>2, <1>3
<1>5. [journal EXCEPT ![s] = receipt] = journal
  BY <1>1, <1>3
<1>6. journal' = journal \/ journal' = [journal EXCEPT ![s].state = "ROLLED_BACK"]
  BY DEF SourceFinalized
<1> QED BY <1>4, <1>5, <1>6

LEMMA FinalizedTold ==
    ASSUME Undisturbed, Known, NEW p \in Procs, Frame(p), UndoMoves(p), FinalizeSource(p),
           NEW q, q = Path(p), Told(q)
    PROVE  Told(q)' /\ StaysOn(q)
<1>1. pc[p] \in FinishSteps /\ pc[p] \in LockedSteps /\ disk' = disk
  BY StepFacts DEF FinalizeSource
<1>2. PICK s : s = work[p].source
  OBVIOUS
<1>3. journal' = SourceFinalized(journal, s)
  BY <1>2 DEF FinalizeSource
<1>4. pc'[p] \notin FinishSteps
  <2>1. Goto(p, "w_reconcile") \/ Goto(p, "r_settle") \/ Return(p) \/ Goto(p, "s_scan")
    BY <1>1, StepFacts DEF FinalizeSource, At, Continue
  <2> QED BY <2>1, ReturnIdle, GotoAt, StepFacts
<1>5. q \in Paths /\ Finishing(q) = {s} /\ Finishing(q)' = {}
  BY <1>1, <1>2, <1>4, FinishingOwn, FinishingNext
<1>6. disk'[q] = disk[q] /\ undo'[q] = undo[q]
  BY <1>1, <1>5 DEF UndoMoves
<1>7. PICK h \in Rank, t \in Ids \cup {NoId} : Story(h, q, t)
  BY DEF Told
<1>8. CASE Marked(q, s)
  <2>1. s \in Ids /\ journal[s].state = "ROLLED_BACK"
    BY <1>8 DEF Marked, On
  <2>2. journal' = journal
    BY <1>3, <2>1, MarkedAgain
  <2>3. Story(h, q, t)'
    BY <1>5, <1>6, <1>7, <1>8, <2>2, StoryKept
  <2> QED BY <2>2, <2>3 DEF Told, StaysOn
<1>9. CASE ~Marked(q, s)
  <2>1. s = t /\ t \in Standing(q) /\ journal[t].state = "VERIFIED"
    BY <1>5, <1>7, <1>9 DEF Story, FinishOK, PutBack
  <2>2. s \in Ids /\ journal[s].path = q /\ journal[s].state \in KNOWN_STATES
    BY <2>1, StateFacts DEF Standing, On, SettledStates
  <2>3. SetState(s, "ROLLED_BACK")
    BY <1>3, <2>2 DEF SourceFinalized, SetState
  <2>4. journal \in [Ids -> Receipt] /\ "ROLLED_BACK" \in KNOWN_STATES
    BY DEF Known, Sound, Store, StoreTypes, KNOWN_STATES, TERMINAL_STATES
  <2>5. /\ journal'[s].state = "ROLLED_BACK" /\ SameTransaction(s)
        /\ journal'[s].post = journal[s].post /\ journal'[s].prev = journal[s].prev
        /\ \A i \in Ids \ {s} : journal'[i] = journal[i]
    BY <2>2, <2>3, <2>4, SetStateEffect DEF SameTransaction
  <2>6. Told(q)'
    BY <1>5, <1>6, <1>7, <1>9, <2>5, StoryUndone DEF Known
  <2> QED BY <2>2, <2>5, <2>6 DEF StaysOn, SameTransaction
<1> QED BY <1>8, <1>9

\* _decide_locked settles what is open and goes over the rest again.
LEMMA DecidedTold ==
    ASSUME Undisturbed, Known, NEW p \in Procs, Frame(p), UndoMoves(p), DecideLocked(p),
           NEW q, q = Path(p), Told(q)
    PROVE  Told(q)' /\ StaysOn(q)
<1>1. pc[p] = "s_decide" /\ disk' = disk
  BY DEF DecideLocked, At
<1>2. pc[p] \in LockedSteps /\ pc[p] \notin FinishSteps
  BY <1>1, StepFacts DEF LockedSteps
<1>3. PICK r \in Ids : r = work[p].rid
  BY <1>1 DEF Known, Sound, Control, LocalsNamed, OwnSteps
<1>4. PICK s : s = Decided(journal, backup, disk, r)
  OBVIOUS
<1>5. /\ SetState(r, s)
      /\ IF journal[r].op = "ROLLBACK" /\ s = "VERIFIED" THEN ThenFinalize(p, "s_finalize", r)
         ELSE Goto(p, "s_scan")
  BY <1>3, <1>4 DEF DecideLocked
<1>6. /\ journal[r].state = "NONE" \/ journal[r].path = q
      /\ journal[r].state # "BAD_STATE"
      /\ journal[r].op = "FS_WRITE" /\ journal[r].state = "VERIFIED" => backup_ok(journal, backup, r)
  BY <1>1, <1>3 DEF Known, Intact, ProcessOK, MemoryOK, ReceiptOK, CORRUPT_STATES
<1>7. q \in Paths /\ undo'[q] = undo[q]
  BY <1>1, <1>2, InsideLock DEF UndoMoves
<1>8. IF journal[r].op = "ROLLBACK" /\ s = "VERIFIED"
      THEN pc'[p] = "s_finalize" /\ pc'[p] \in FinishSteps /\ work'[p].source = journal[r].rollback_of /\ job' = job
      ELSE pc'[p] \notin FinishSteps
  BY <1>5, FinalizeAt, GotoAt, StepFacts
<1>9. CASE journal[r].state \in INCOMPLETE_STATES
  <2>1. r \in OpenOn(q) /\ s = Reconciled(journal, backup, disk, r)
    BY <1>4, <1>6, <1>9 DEF OpenOn, On, INCOMPLETE_STATES, Decided
  <2>2. OnlyState(r) /\ TrueVerdict(q, r) /\ journal'[r].state = s
    BY <1>5, <1>7, <2>1, VerdictTrue
  <2>3. journal[r].op = "ROLLBACK" <=> ~IsWrite(r)
    BY TwoOps
  <2>4. (pc'[p] \in FinishSteps) <=> (journal'[r].state = "VERIFIED" /\ ~IsWrite(r))
    BY <1>8, <2>2, <2>3
  <2>5. pc'[p] \in FinishSteps => job'[p] = job[p] /\ work'[p].source = journal[r].rollback_of
    BY <1>8
  <2> QED BY <1>1, <1>2, <2>1, <2>2, <2>4, <2>5, ToldSettled
<1>10. CASE journal[r].state \notin INCOMPLETE_STATES
  <2>1. s = journal[r].state
    BY <1>4, <1>6, <1>10 DEF Decided
  <2>2. journal' = journal
    <3>1. journal \in [Ids -> Receipt] /\ journal[r] \in Receipt
      BY DEF Known, Sound, Store, StoreTypes
    <3>2. [journal[r] EXCEPT !.state = s] = journal[r]
      BY <2>1, <3>1 DEF Receipt
    <3>3. PICK receipt : receipt = journal[r]
      OBVIOUS
    <3>4. journal' = [journal EXCEPT ![r] = receipt]
      BY <1>5, <3>1, <3>2, <3>3 DEF SetState
    <3> QED BY <3>1, <3>3, <3>4
  <2>3. CASE ~(journal[r].op = "ROLLBACK" /\ s = "VERIFIED")
    BY <1>1, <1>2, <1>8, <2>2, <2>3, NothingTold
  <2>4. CASE journal[r].op = "ROLLBACK" /\ s = "VERIFIED"
    <3>1. PICK h \in Rank, t \in Ids \cup {NoId} : Story(h, q, t)
      BY DEF Told
    <3>2. Finishing(q) = {} /\ Finishing(q)' = {journal[r].rollback_of}
      BY <1>2, <1>8, <2>4, FinishingOwn, FinishingNext
    <3>3. journal[r].path = q /\ ~IsWrite(r)
      BY <1>6, <2>1, <2>4, TwoOps
    <3>4. r \in On(q, {"VERIFIED"})
      BY <2>1, <2>4, <3>3 DEF On
    <3>5. Marked(q, journal[r].rollback_of)
      BY <3>1, <3>2, <3>3, <3>4 DEF Story, FinishOK
    <3>6. Story(h, q, t)'
      BY <1>1, <1>7, <2>2, <3>1, <3>2, <3>5, StoryKept
    <3> QED BY <2>2, <3>6 DEF Told, StaysOn
  <2> QED BY <2>3, <2>4
<1> QED BY <1>9, <1>10

\* An operation is abandoned, but not between the two writes of a rollback.
LEMMA FailTold ==
    ASSUME Undisturbed, Known, NEW p \in Procs, pc[p] \in LockedSteps, Frame(p), UndoMoves(p), Fail(p),
           NEW q, q = Path(p), Told(q)
    PROVE  Told(q)' /\ StaysOn(q)
<1>1. pc[p] \notin FinishSteps /\ pc'[p] \notin FinishSteps /\ disk' = disk /\ journal' = journal
  BY ReturnIdle DEF Fail, Undisturbed, store
<1> QED BY <1>1, NothingTold

\* So every step inside the lock of a path keeps its story.
LEMMA LockedTold ==
    ASSUME Undisturbed, Known, NEW p \in Procs, pc[p] \in LockedSteps, Recalls(p), Frame(p), UndoMoves(p),
           Start(p) \/ Step(p) \/ Fail(p), NEW q, q = Path(p), Told(q)
    PROVE  Told(q)' /\ StaysOn(q)
<1>1. CASE Start(p)
  BY <1>1 DEF Start, StartWrite, StartRollback, StartRecover, PickPrunable, Acquire, At, LockedSteps, WriteSteps,
              RollbackSteps
<1>2. CASE WriteStep(p)
  BY <1>2, ReconcileTold, CheckTold, PreparedTold, ReplacedTold, NotedTold, RecordedTold DEF WriteStep
<1>3. CASE RollbackStep(p)
  BY <1>3, CheckTold, SettleTold, SupersededTold, SelectTold, RestoreTold, AppliedTold, TerminalTold, FinalizedTold
  DEF RollbackStep
<1>4. CASE RecoverStep(p)
  <2>1. DecideLocked(p)
    BY <1>4 DEF RecoverStep, ScanReceipt, LockReceipt, EndRecover, At, LockedSteps, WriteSteps, RollbackSteps
  <2> QED BY <2>1, DecidedTold
<1>5. CASE PruneStep(p)
  BY <1>5 DEF PruneStep, PruneReceipt, PruneBackup, At, LockedSteps, WriteSteps, RollbackSteps
<1>6. CASE Fail(p)
  BY <1>6, FailTold
<1> QED BY <1>1, <1>2, <1>3, <1>4, <1>5, <1>6 DEF Step

----------------------------------------------------------------------------
\* Every step keeps the story of every path.

\* Outside the locks nothing that the stories are about changes.
LEMMA OutsideStays ==
    ASSUME Undisturbed, Known, NEW p \in Procs, pc[p] \notin LockedSteps, Recalls(p),
           Start(p) \/ Step(p) \/ Fail(p)
    PROVE  journal' = journal /\ disk' = disk /\ pc'[p] \notin FinishSteps
<1>1. pc[p] \notin WriteSteps \cup RollbackSteps
  BY StepFacts
<1>2. CASE StartWrite(p)
  BY <1>2, GotoAt, StepFacts DEF StartWrite, Acquire
<1>3. CASE StartRollback(p)
  BY <1>3, GotoAt, StepFacts DEF StartRollback, Acquire
<1>4. CASE StartRecover(p)
  BY <1>4, GotoAt, StepFacts DEF StartRecover, store
<1>5. CASE ScanReceipt(p)
  <2>1. PICK r \in FilesInOrder(journal, work[p].todo) :
          /\ journal' = IF journal[r].state = "BAD_STATE"
                        THEN [journal EXCEPT ![r].state = "RECOVERY_REQUIRED"]
                        ELSE journal
          /\ IF NeedsDecision(journal, backup, r) THEN Goto(p, "s_lock") ELSE pc' = pc
    BY <1>5 DEF ScanReceipt
  <2>2. r \in Ids
    BY FilesInOrderIn DEF Known, Sound, Control, ControlTypes, Work
  <2>3. journal[r].state # "BAD_STATE"
    BY <2>2 DEF Known, Intact, ReceiptOK, CORRUPT_STATES
  <2>4. pc'[p] \in {"s_lock", pc[p]}
    BY <2>1, GotoAt
  <2> QED BY <1>5, <2>1, <2>3, <2>4, StepFacts DEF ScanReceipt
<1>6. CASE LockReceipt(p)
  <2>1. Goto(p, "s_decide") \/ Goto(p, "s_scan")
    BY <1>6 DEF LockReceipt
  <2> QED BY <1>6, <2>1, GotoAt, StepFacts DEF LockReceipt, store
<1>7. CASE EndRecover(p) \/ Fail(p)
  BY <1>7, ReturnIdle DEF EndRecover, Fail, store
<1>8. ~PickPrunable(p) /\ ~PruneStep(p) /\ ~DecideLocked(p)
  BY DEF Undisturbed, PickPrunable, PruneStep, PruneReceipt, PruneBackup, DecideLocked, Recalls, At, PruneSteps,
         LockedSteps
<1>9. ~WriteStep(p)
  BY <1>1 DEF WriteStep, ReconcilePending, CheckWrite, SaveBackup, JournalPrepared, ReplaceTarget, NoteReplaced,
         RecordPostimage, At, WriteSteps
<1>10. ~RollbackStep(p)
  BY <1>1, StepFacts DEF RollbackStep, CheckRollback, PeekTarget, SettlePending, MarkSuperseded, SelectAndJournal,
         RestoreTarget, CopyBackup, RollbackApplied, RollbackVerified, FinalizeSource, At, RollbackSteps
<1> QED BY <1>2, <1>3, <1>4, <1>5, <1>6, <1>7, <1>8, <1>9, <1>10 DEF Start, Step, RecoverStep

\* A process that goes on to mark a source is in the operation it was in.
LEMMA FinishingStays ==
    ASSUME Undisturbed, Known, NEW p \in Procs, pc[p] \in LockedSteps, Recalls(p),
           Start(p) \/ Step(p) \/ Fail(p), pc'[p] \in FinishSteps
    PROVE  job'[p] = job[p]
<1>1. ~Fail(p) /\ ~Return(p)
  BY ReturnIdle DEF Fail
<1>2. ~Start(p)
  BY DEF Start, StartWrite, StartRollback, StartRecover, PickPrunable, Acquire, At, LockedSteps, WriteSteps, RollbackSteps
<1>3. CASE WriteStep(p)
  BY <1>1, <1>3 DEF WriteStep, ReconcilePending, CheckWrite, SaveBackup, JournalPrepared, ReplaceTarget, NoteReplaced,
         RecordPostimage, Continue, ThenFinalize
<1>4. CASE RollbackStep(p)
  <2>1. CASE CheckRollback(p) \/ PeekTarget(p) \/ MarkSuperseded(p) \/ SelectAndJournal(p)
    BY <1>1, <2>1 DEF CheckRollback, PeekTarget, MarkSuperseded, SelectAndJournal, Continue
  <2>2. CASE SettlePending(p)
    <3>1. PICK r : \/ Return(p) \/ ThenFinalize(p, "r_finalize", r) \/ job' = job \/ Continue(p, "r_settle")
      BY <2>2, Zenon DEF SettlePending
    <3> QED BY <1>1, <3>1 DEF ThenFinalize, Continue
  <2>3. CASE RestoreTarget(p)
    <3>1. \/ Continue(p, "r_applied") \/ Continue(p, "r_copy") \/ Return(p)
      BY <2>3 DEF RestoreTarget
    <3> QED BY <1>1, <3>1 DEF Continue
  <2>4. CASE CopyBackup(p) \/ RollbackVerified(p)
    BY <1>1, <2>4 DEF CopyBackup, RollbackVerified, Continue
  <2>5. CASE RollbackApplied(p)
    <3>1. pc[p] = "r_applied"
      BY <2>5 DEF RollbackApplied, At
    <3>2. disk[Path(p)] = work[p].want
      BY <3>1 DEF Recalls
    <3> QED BY <2>5, <3>2, AbsentIsNoValue DEF RollbackApplied, Continue
  <2>6. CASE FinalizeSource(p)
    <3>1. Continue(p, "w_reconcile") \/ Continue(p, "r_settle") \/ Return(p) \/ job' = job
      BY <2>6, StepFacts DEF FinalizeSource, At
    <3> QED BY <1>1, <3>1 DEF Continue
  <2> QED BY <1>4, <2>1, <2>2, <2>3, <2>4, <2>5, <2>6 DEF RollbackStep
<1>5. CASE RecoverStep(p)
  <2>1. DecideLocked(p)
    BY <1>5 DEF RecoverStep, ScanReceipt, LockReceipt, EndRecover, At, LockedSteps, WriteSteps, RollbackSteps
  <2> QED BY <2>1 DEF DecideLocked, ThenFinalize
<1>6. ~PruneStep(p)
  BY DEF PruneStep, PruneReceipt, PruneBackup, At, LockedSteps, WriteSteps, RollbackSteps
<1> QED BY <1>1, <1>2, <1>3, <1>4, <1>5, <1>6 DEF Step

LEMMA ToldStep ==
    ASSUME Undisturbed, Known, NEW p \in Procs, Recalls(p), Start(p) \/ Step(p) \/ Fail(p), Observe,
           NEW q \in Paths, \A x \in Paths : Told(x)
    PROVE  Told(q)'
<1>1. Frame(p) /\ UndoMoves(p)
  BY StepFrame, UndoStep DEF Known
<1>2. CASE pc[p] \notin LockedSteps
  <2>1. journal' = journal /\ disk' = disk /\ pc'[p] \notin FinishSteps /\ pc[p] \notin FinishSteps
    BY <1>2, OutsideStays, StepFacts
  <2>2. undo'[q] = undo[q] /\ disk'[q] = disk[q]
    BY <1>1, <2>1 DEF UndoMoves
  <2>3. Finishing(q)' = Finishing(q)
    <3>1. ASSUME NEW x \in Procs
          PROVE  (pc[x] \in FinishSteps /\ Path(x) = q)' <=> (pc[x] \in FinishSteps /\ Path(x) = q)
      BY <1>1, <2>1 DEF Frame, Path
    <3>2. ASSUME NEW x \in Procs, pc[x] \in FinishSteps PROVE work'[x] = work[x]
      BY <1>1, <2>1, <3>2 DEF Frame
    <3> QED BY <3>1, <3>2 DEF Finishing
  <2>4. PICK h \in Rank, t \in Ids \cup {NoId} : Story(h, q, t)
    BY DEF Told
  <2>5. Story(h, q, t)'
    BY <2>1, <2>2, <2>3, <2>4, StoryKept
  <2> QED BY <2>5 DEF Told
<1>3. CASE pc[p] \in LockedSteps
  <2>1. PICK own : own = Path(p)
    OBVIOUS
  <2>2. own \in Paths
    BY <1>3, <2>1, InsideLock
  <2>3. Told(own)' /\ StaysOn(own)
    BY <1>1, <1>3, <2>1, <2>2, LockedTold
  <2>4. CASE q = own
    BY <2>3, <2>4
  <2>5. CASE q # own
    BY <1>1, <1>3, <2>1, <2>3, <2>5, FinishingStays, ToldElsewhere
  <2> QED BY <2>4, <2>5
<1> QED BY <1>2, <1>3

----------------------------------------------------------------------------
\* What a process remembers of its path stays true.

\* The preimage of a source is not overwritten.
LEMMA SourcePre ==
    ASSUME Known, NEW p \in Procs, Start(p) \/ Step(p) \/ Fail(p), pc[p] \notin PruneSteps,
           NEW s, Undoable(s)
    PROVE  journal'[s].pre = journal[s].pre
<1>1. s \in Ids /\ Changes(p, s) /\ Issued(s) /\ journal[s].state \in {"VERIFIED", "ROLLED_BACK", "NONE"}
  BY JournalChanges DEF Known, StepChanges, Undoable, Issued
<1>2. ~Prunes(p, s) /\ ~Opens(p, s) /\ ~Settles(p, s)
  BY <1>1 DEF Prunes, PruneSteps, Opens, Settles, Advances
<1> QED BY <1>1, <1>2 DEF Changes, Undoes, SameTransaction

LEMMA OthersRecall ==
    ASSUME Undisturbed, Known, NEW p \in Procs, Recalls(p), Start(p) \/ Step(p) \/ Fail(p),
           NEW x \in Procs \ {p}, Recalls(x)
    PROVE  Recalls(x)'
<1>1. /\ pc'[x] = pc[x] /\ job'[x] = job[x] /\ work'[x] = work[x] /\ Path(x)' = Path(x)
      /\ pc[p] \notin PruneSteps
  BY StepFrame DEF Known, Frame, Path, Recalls
<1>2. ASSUME pc[x] \in LockedSteps PROVE disk'[Path(x)] = disk[Path(x)]
  <2>1. PICK q : q = Path(x)
    OBVIOUS
  <2>2. q \in Paths /\ (pc[p] \in LockedSteps => q # Path(p))
    BY <1>2, <2>1, InsideLock, HoldersDiffer DEF Known
  <2>3. TouchSteps \subseteq LockedSteps
    BY StepFacts DEF TouchSteps, WriteSteps, RollbackSteps
  <2>4. disk'[q] = disk[q]
    BY <2>2, <2>3, StepFrame DEF Known, Frame
  <2> QED BY <2>1, <2>4
<1>3. PICK rid, s, q : rid = work[x].rid /\ s = work[x].source /\ q = Path(x)
  OBVIOUS
<1>4. ASSUME pc[x] = "w_prepare", NEW r \in Ids, journal'[r].state # "NONE", journal'[r].path = q PROVE r < rid
  <2>1. pc[x] \in LockedSteps
    BY <1>4, StepFacts DEF WriteSteps
  <2>2. pc[p] \in LockedSteps => Path(p) # q
    BY <1>3, <2>1, HoldersDiffer DEF Known
  <2>3. Changes(p, r)
    BY JournalChanges DEF Known, StepChanges
  <2>4. ~Prunes(p, r) /\ ~Opens(p, r)
    BY <1>1, <1>4, <2>2 DEF Prunes, PruneSteps, Opens
  <2>5. journal[r].state # "NONE" /\ journal[r].path = q
    BY <1>4, <2>3, <2>4 DEF Changes, Undoes, Settles, SameTransaction, Advances
  <2> QED BY <1>3, <1>4, <2>5 DEF Recalls
<1>5. ASSUME pc[x] = "w_record" PROVE journal'[rid].post = journal[rid].post
  <2>1. rid \in Ids /\ journal[rid].path = Path(x) /\ journal[rid].state = "APPLIED" /\ pc[x] \in LockedSteps
    BY <1>3, <1>5, OwnOpen
  <2>2. journal'[rid] = journal[rid]
    BY <2>1, OwnReceiptStays DEF Known
  <2> QED BY <2>2
<1>6. ASSUME pc[x] \in SourceSteps PROVE journal'[s].pre = journal[s].pre
  <2>1. Undoable(s)
    BY <1>3, <1>6 DEF Known, Intact, ProcessOK, MemoryOK
  <2> QED BY <1>1, <2>1, SourcePre
<1>7. /\ pc[x] \in {"r_settle", "r_finalize", "r_supersede", "r_applied"} => disk'[q] = disk[q]
  BY <1>2, <1>3, StepFacts DEF RollbackSteps
<1> QED BY <1>1, <1>3, <1>4, <1>5, <1>6, <1>7 DEF Recalls

\* Most steps lead to where there is nothing to remember.
LEMMA LittleToRecall ==
    ASSUME NEW p, pc'[p] \notin {"w_prepare", "w_record", "r_settle", "r_finalize", "r_supersede"},
           pc'[p] \notin SourceSteps \ {"r_source"}, pc'[p] \notin PruneSteps,
           pc'[p] \in WriteSteps => job'[p].data \in Contents
    PROVE  Recalls(p)'
BY DEF Recalls, SourceSteps

\* The steps at which there is.
LEMMA Labelled ==
    /\ SourceSteps \ {"r_source"} = {"r_restore", "r_copy", "r_applied", "r_terminal"}
    /\ PruneSteps = {"p_meta", "p_backup"}
    /\ WriteSteps = {"w_reconcile", "w_finalize", "w_save", "w_prepare", "w_replace", "w_note", "w_record"}
BY DEF SourceSteps, PruneSteps, WriteSteps

LEMMA WriteRecalls ==
    ASSUME Undisturbed, Known, NEW p \in Procs, Recalls(p), WriteStep(p)
    PROVE  Recalls(p)'
<1>1. pc[p] \in WriteSteps /\ job[p].data \in Contents
  <2>1. pc[p] \in WriteSteps
    BY DEF WriteStep, ReconcilePending, CheckWrite, SaveBackup, JournalPrepared, ReplaceTarget, NoteReplaced,
           RecordPostimage, At, WriteSteps
  <2> QED BY <2>1 DEF Recalls
<1>2. CASE Return(p)
  BY <1>2, ReturnIdle, LittleToRecall, Labelled
<1>3. CASE ReconcilePending(p) /\ ~Return(p)
  <2>1. PICK r : ThenFinalize(p, "w_finalize", r) \/ Continue(p, "w_reconcile")
    BY <1>3, Zenon DEF ReconcilePending
  <2>2. pc'[p] \in {"w_finalize", "w_reconcile"} /\ job' = job
    BY <2>1, FinalizeAt, GotoAt DEF Continue
  <2> QED BY <1>1, <2>2, LittleToRecall, Labelled
<1>4. CASE CheckWrite(p) /\ ~Return(p)
  <2>1. pc'[p] = "w_save" /\ job' = job
    BY <1>4, GotoAt DEF CheckWrite
  <2> QED BY <1>1, <2>1, LittleToRecall, Labelled
<1>5. CASE SaveBackup(p) /\ ~Return(p)
  <2>1. pc'[p] = "w_prepare" /\ job' = job
    BY <1>5, GotoAt DEF SaveBackup
  <2>2. work'[p].rid = nextId /\ journal' = journal
    BY <1>5, <2>1, Reserving DEF Known, Step
  <2>3. PICK rid : rid = nextId
    OBVIOUS
  <2>4. \A r \in Ids : journal[r].state # "NONE" => r < rid
    BY <2>3 DEF Known, Intact, ReceiptOK, Issued
  <2>5. pc'[p] = "w_prepare" => \A r \in Ids : journal'[r].state # "NONE" /\ journal'[r].path = Path(p)' => r < work'[p].rid
    BY <2>2, <2>3, <2>4
  <2> QED BY <1>1, <2>1, <2>5, Labelled DEF Recalls
<1>6. CASE JournalPrepared(p) \/ ReplaceTarget(p)
  <2>1. pc'[p] \in {"w_replace", "w_note"} /\ job' = job
    BY <1>6, GotoAt DEF JournalPrepared, ReplaceTarget, Continue
  <2> QED BY <1>1, <2>1, LittleToRecall, Labelled
<1>7. CASE NoteReplaced(p) /\ ~Return(p)
  <2>1. PICK rid, post : rid = work[p].rid /\ post = disk[Path(p)]
    OBVIOUS
  <2>2. /\ pc[p] = "w_note" /\ Goto(p, "w_record") /\ job' = job
        /\ journal' = [journal EXCEPT ![rid].state = "APPLIED", ![rid].post = post]
        /\ work' = [work EXCEPT ![p].seen = post]
    BY <1>7, <2>1 DEF NoteReplaced, At
  <2>3. rid \in Ids /\ post \in Images /\ pc'[p] = "w_record"
    BY <2>1, <2>2, OwnOpen, InsideLock, GotoAt
  <2>4. journal \in [Ids -> Receipt] /\ work \in [Procs -> Work]
    BY DEF Known, Sound, Store, StoreTypes, Control, ControlTypes
  <2>5. journal'[rid].post = post
    BY <2>2, <2>3, <2>4, AppliedEffect
  <2>6. work'[p].rid = rid /\ work'[p].seen = post
    BY <2>1, <2>2, <2>4, SeenEffect
  <2> QED BY <1>1, <2>2, <2>3, <2>5, <2>6, Labelled DEF Recalls
<1>8. RecordPostimage(p) => Return(p)
  BY DEF RecordPostimage
<1> QED BY <1>2, <1>3, <1>4, <1>5, <1>6, <1>7, <1>8 DEF WriteStep

\* While p looks over its path, what it saw is what is there.
LEMMA SeenRecalls ==
    ASSUME NEW p, NEW q, q = Path(p), pc[p] \in {"r_settle", "r_finalize", "r_supersede"}, Recalls(p),
           pc'[p] \in {"r_settle", "r_finalize", "r_supersede"},
           job' = job, work'[p].seen = work[p].seen, disk'[q] = disk[q]
    PROVE  Recalls(p)'
<1>1. Path(p)' = q
  BY DEF Path
<1>2. work'[p].seen = disk'[q]
  BY DEF Recalls
<1> QED BY <1>1, <1>2, Labelled DEF Recalls

LEMMA LookRecalls ==
    ASSUME Undisturbed, Known, NEW p \in Procs, Recalls(p),
           CheckRollback(p) \/ PeekTarget(p) \/ SettlePending(p) \/ MarkSuperseded(p) \/ FinalizeSource(p)
    PROVE  Recalls(p)'
<1>0. work \in [Procs -> Work] /\ work[p] \in Work
  BY DEF Known, Sound, Control, ControlTypes
<1>1. CASE Return(p)
  BY <1>1, ReturnIdle, LittleToRecall, Labelled
<1>2. CASE CheckRollback(p) /\ ~Return(p)
  <2>1. pc'[p] = "r_peek"
    BY <1>2, GotoAt DEF CheckRollback
  <2> QED BY <2>1, LittleToRecall, Labelled
<1>3. CASE PeekTarget(p)
  <2>1. PICK image : image = disk[Path(p)]
    OBVIOUS
  <2>2. pc'[p] = "r_settle" /\ disk' = disk /\ job' = job /\ work' = [work EXCEPT ![p].seen = image]
    BY <1>3, <2>1, GotoAt DEF PeekTarget
  <2>3. work'[p].seen = image
    BY <1>0, <2>2, SeenEffect
  <2>4. work'[p].seen = disk'[Path(p)']
    BY <2>1, <2>2, <2>3 DEF Path
  <2> QED BY <2>2, <2>4, Labelled DEF Recalls
<1>4. CASE SettlePending(p) /\ ~Return(p)
  <2>1. PICK r : \/ ThenFinalize(p, "r_finalize", r)
                 \/ Goto(p, "r_supersede") /\ work' = [work EXCEPT ![p].rid = r] /\ UNCHANGED <<job, lock>>
                 \/ Continue(p, "r_settle")
    BY <1>4, Zenon DEF SettlePending
  <2>2. pc'[p] \in {"r_finalize", "r_supersede", "r_settle"} /\ job' = job
    BY <2>1, FinalizeAt, GotoAt DEF Continue
  <2>3. work'[p].seen = work[p].seen
    BY <1>0, <2>1 DEF ThenFinalize, Continue, Work
  <2>4. pc[p] = "r_settle" /\ disk' = disk
    BY <1>4 DEF SettlePending, At
  <2> QED BY <2>2, <2>3, <2>4, SeenRecalls
<1>5. CASE MarkSuperseded(p) /\ ~Return(p)
  <2>1. pc'[p] = "r_settle" /\ job' = job /\ work' = work /\ disk' = disk /\ pc[p] = "r_supersede"
    BY <1>5, GotoAt DEF MarkSuperseded, Continue, At
  <2> QED BY <2>1, SeenRecalls
<1>6. CASE FinalizeSource(p) /\ ~Return(p)
  <2>1. CASE pc[p] = "r_finalize"
    <3>1. pc'[p] = "r_settle" /\ job' = job /\ work' = work /\ disk' = disk
      BY <1>6, <2>1, GotoAt DEF FinalizeSource, Continue, At
    <3> QED BY <2>1, <3>1, SeenRecalls
  <2>2. CASE pc[p] = "w_finalize"
    <3>1. pc'[p] = "w_reconcile" /\ job' = job
      BY <1>6, <2>2, GotoAt DEF FinalizeSource, Continue, At
    <3>2. job[p].data \in Contents
      BY <2>2, Labelled DEF Recalls
    <3> QED BY <3>1, <3>2, LittleToRecall, Labelled
  <2>3. CASE pc[p] = "s_finalize"
    <3>1. pc'[p] = "s_scan"
      BY <1>6, <2>3, GotoAt DEF FinalizeSource, At
    <3> QED BY <3>1, LittleToRecall, Labelled
  <2> QED BY <1>6, <2>1, <2>2, <2>3 DEF FinalizeSource, At
<1> QED BY <1>1, <1>2, <1>3, <1>4, <1>5, <1>6

\* The source and its preimage are remembered from the selection to the end.
LEMMA WantRecalls ==
    ASSUME Undisturbed, Known, NEW p \in Procs, Recalls(p), pc[p] \in SourceSteps \ {"r_source"},
           pc'[p] \in SourceSteps \ {"r_source"}, RollbackStep(p), work' = work, job' = job,
           pc'[p] = "r_applied" => disk'[Path(p)] = work[p].want
    PROVE  Recalls(p)'
<1>1. PICK s, q : s = work[p].source /\ q = Path(p)
  OBVIOUS
<1>2. Undoable(s) /\ pc[p] \notin PruneSteps
  BY <1>1, Labelled DEF Known, Intact, ProcessOK, MemoryOK
<1>3. journal'[s].pre = journal[s].pre
  BY <1>2, SourcePre DEF Step
<1>4. work[p].want = journal[s].pre
  BY <1>1 DEF Recalls
<1>5. Path(p)' = q /\ work'[p].want = work[p].want /\ work'[p].source = s
  BY <1>1 DEF Path
<1> QED BY <1>1, <1>3, <1>4, <1>5, Labelled DEF Recalls

LEMMA RestoreRecalls ==
    ASSUME Undisturbed, Known, NEW p \in Procs, Recalls(p), NEW q, q = Path(p), Told(q),
           SelectAndJournal(p) \/ RestoreTarget(p) \/ CopyBackup(p) \/ RollbackApplied(p) \/ RollbackVerified(p)
    PROVE  Recalls(p)'
<1>0. work \in [Procs -> Work] /\ work[p] \in Work /\ journal \in [Ids -> Receipt]
  BY DEF Known, Sound, Control, ControlTypes, Store, StoreTypes
<1>1. CASE Return(p)
  BY <1>1, ReturnIdle, LittleToRecall, Labelled
<1>2. CASE SelectAndJournal(p) /\ ~Return(p)
  <2>1. PICK source \in find_latest_receipt(journal, Project(p), Path(p), work[p].pre) :
          /\ journal' = [journal EXCEPT ![nextId] =
                RollbackReceipt(Project(p), Path(p), "PREPARED", work[p].pre, Absent, source)]
          /\ work' = [work EXCEPT ![p].rid = nextId, ![p].source = source,
                                  ![p].want = journal[source].pre]
          /\ Goto(p, "r_restore")
    BY <1>2 DEF SelectAndJournal
  <2>2. source \in Ids /\ journal[source].state # "NONE"
    BY StateFacts DEF find_latest_receipt, Heads, Candidates, ValidFor
  <2>3. source # nextId
    <3>1. source < nextId /\ source \in Nat
      BY <2>2 DEF Known, Intact, ReceiptOK, Issued, Ids
    <3> QED BY <3>1
  <2>4. PICK receipt, rid : /\ receipt = RollbackReceipt(Project(p), Path(p), "PREPARED", work[p].pre, Absent, source)
                            /\ rid = nextId
    OBVIOUS
  <2>5. journal'[source] = journal[source]
    <3>1. journal' = [journal EXCEPT ![rid] = receipt]
      BY <2>1, <2>4
    <3> QED BY <1>0, <2>2, <2>3, <2>4, <3>1
  <2>6. work'[p].source = source /\ work'[p].want = journal[source].pre
    BY <1>0, <2>1 DEF Work
  <2>7. pc'[p] = "r_restore"
    BY <2>1, GotoAt
  <2>8. work'[p].want = journal'[work'[p].source].pre
    BY <2>5, <2>6
  <2> QED BY <2>7, <2>8, Labelled DEF Recalls
<1>3. CASE RestoreTarget(p) /\ ~Return(p)
  <2>1. pc[p] = "r_restore" /\ (Continue(p, "r_applied") \/ Continue(p, "r_copy"))
    BY <1>3 DEF RestoreTarget, At
  <2>2. pc'[p] \in {"r_applied", "r_copy"} /\ work' = work /\ job' = job
    BY <2>1, GotoAt DEF Continue
  <2>3. pc'[p] = "r_applied" => disk'[Path(p)] = work[p].want
    <3>1. CASE work[p].want = Absent
      <4>1. disk' = [disk EXCEPT ![q] = work[p].want]
        BY <1>3, <3>1 DEF RestoreTarget
      <4>2. q \in Paths /\ disk \in [Paths -> Images]
        BY <2>1, InsideLock, StepFacts DEF RollbackSteps, Known, Sound, Store, StoreTypes
      <4> QED BY <4>1, <4>2
    <3>2. CASE work[p].want # Absent
      <4>1. Goto(p, "r_copy") \/ Return(p)
        BY <1>3, <3>2 DEF RestoreTarget, Continue
      <4> QED BY <1>3, <4>1, GotoAt
    <3> QED BY <3>1, <3>2
  <2> QED BY <1>3, <2>1, <2>2, <2>3, WantRecalls, Labelled DEF RollbackStep
<1>4. CASE CopyBackup(p) /\ ~Return(p)
  <2>1. /\ pc[p] = "r_copy" /\ Continue(p, "r_applied") /\ disk' = [disk EXCEPT ![q] = backup[work[p].source]]
        /\ backup[work[p].source] # Absent
    BY <1>4 DEF CopyBackup, At
  <2>2. PICK h \in Rank, t \in Ids \cup {NoId} : Story(h, q, t)
    BY DEF Told
  <2>3. work[p].want # Absent
    BY <2>1 DEF Known, RestoredExactly
  <2>4. backup[work[p].source] = work[p].want
    BY <2>1, <2>2, <2>3, AboutToRestore
  <2>5. q \in Paths /\ disk \in [Paths -> Images]
    BY <2>1, InsideLock, StepFacts DEF RollbackSteps, Known, Sound, Store, StoreTypes
  <2>6. disk'[Path(p)] = work[p].want
    BY <2>1, <2>4, <2>5
  <2>7. pc'[p] = "r_applied" /\ work' = work /\ job' = job
    BY <2>1, GotoAt DEF Continue
  <2> QED BY <1>4, <2>1, <2>6, <2>7, WantRecalls, Labelled DEF RollbackStep
<1>5. CASE RollbackApplied(p) /\ ~Return(p)
  <2>1. pc[p] = "r_applied" /\ Continue(p, "r_terminal")
    BY <1>5, AbsentIsNoValue, Zenon DEF RollbackApplied, At, Recalls
  <2>2. pc'[p] = "r_terminal" /\ work' = work /\ job' = job
    BY <2>1, GotoAt DEF Continue
  <2> QED BY <1>5, <2>1, <2>2, WantRecalls, Labelled DEF RollbackStep
<1>6. CASE RollbackVerified(p)
  <2>1. pc'[p] = "r_source"
    BY <1>6, GotoAt DEF RollbackVerified, Continue
  <2> QED BY <2>1, LittleToRecall, Labelled
<1> QED BY <1>1, <1>2, <1>3, <1>4, <1>5, <1>6

LEMMA OwnRecalls ==
    ASSUME Undisturbed, Known, NEW p \in Procs, Recalls(p), Start(p) \/ Step(p) \/ Fail(p),
           \A q \in Paths : Told(q)
    PROVE  Recalls(p)'
<1>0. job \in [Procs -> Job] /\ pc \in [Procs -> Labels]
  BY DEF Known, Sound, Control, ControlTypes
<1>1. CASE StartWrite(p)
  <2>1. PICK project \in Projects, path \in Paths, data \in Contents, exp \in Images : Acquire(p, "w_reconcile", project, path, data, exp)
    BY <1>1, Zenon DEF StartWrite
  <2>2. job'[p].data \in Contents
    BY <1>0, <2>1 DEF Acquire
  <2>3. pc'[p] = "w_reconcile"
    BY <2>1, GotoAt DEF Acquire
  <2> QED BY <2>2, <2>3, LittleToRecall, Labelled
<1>2. CASE StartRollback(p) \/ StartRecover(p)
  <2>1. Goto(p, "r_check") \/ Goto(p, "s_scan")
    BY <1>2 DEF StartRollback, StartRecover, Acquire
  <2>2. pc'[p] \in {"r_check", "s_scan"}
    BY <2>1, GotoAt
  <2> QED BY <2>2, LittleToRecall, Labelled
<1>3. ~PickPrunable(p) /\ ~PruneStep(p)
  BY DEF Undisturbed, PickPrunable, PruneStep, PruneReceipt, PruneBackup, Recalls, At, PruneSteps
<1>4. CASE RecoverStep(p)
  <2>1. PICK r : \/ \E s \in {"s_lock", "s_decide", "s_scan"} : Goto(p, s)
                 \/ pc' = pc /\ pc[p] = "s_scan"
                 \/ ThenFinalize(p, "s_finalize", r)
                 \/ Return(p)
    BY <1>4 DEF RecoverStep, ScanReceipt, LockReceipt, DecideLocked, EndRecover, At
  <2>2. pc'[p] \in {"s_lock", "s_scan", "s_decide", "s_finalize", "idle"}
    BY <2>1, GotoAt, FinalizeAt, ReturnIdle
  <2> QED BY <2>2, LittleToRecall, Labelled
<1>5. CASE Fail(p)
  <2>1. pc'[p] = "idle"
    BY <1>5, ReturnIdle DEF Fail
  <2> QED BY <2>1, LittleToRecall, Labelled
<1>6. CASE RollbackStep(p)
  <2>1. PICK q : q = Path(p)
    OBVIOUS
  <2>2. pc[p] \in LockedSteps
    BY <1>6, StepFacts DEF RollbackStep, CheckRollback, PeekTarget, SettlePending, MarkSuperseded, SelectAndJournal,
       RestoreTarget, CopyBackup, RollbackApplied, RollbackVerified, FinalizeSource, At, RollbackSteps
  <2>3. Told(q)
    BY <2>1, <2>2, InsideLock
  <2> QED BY <1>6, <2>1, <2>3, LookRecalls, RestoreRecalls DEF RollbackStep
<1> QED BY <1>1, <1>2, <1>3, <1>4, <1>5, <1>6, WriteRecalls DEF Start, Step

----------------------------------------------------------------------------
\* The inductive invariant of the history.

HistoryInv ==
    /\ undo \in [Paths -> Seq(Images)]
    /\ \A q \in Paths : Told(q)
    /\ \A p \in Procs : Recalls(p)

\* Before anything is written there is no chain and nothing to undo.
LEMMA HistoryInit == HInit => HistoryInv
<1> SUFFICES ASSUME HInit PROVE HistoryInv
  OBVIOUS
<1>1. undo \in [Paths -> Seq(Images)] /\ \A q \in Paths : undo[q] = <<>>
  BY DEF HInit
<1>2. \A p \in Procs : pc[p] = "idle"
  BY DEF HInit, Init
<1>3. ASSUME NEW p \in Procs PROVE Recalls(p)
  BY <1>2, Labelled DEF Recalls
<1>4. ASSUME NEW q \in Paths PROVE Told(q)
  <2>1. \A r \in Ids : journal[r].state = "NONE"
    BY DEF HInit, Init, NoReceipt
  <2>2. /\ OpenOn(q) = {} /\ StuckOn(q) = {} /\ Standing(q) = {} /\ On(q, {"VERIFIED"}) = {}
        /\ On(q, {"PREPARED", "APPLIED", "VERIFIED"}) = {}
    BY <2>1 DEF OpenOn, StuckOn, Standing, On, INCOMPLETE_STATES, BLOCKING_STATES
  <2>3. Finishing(q) = {}
    BY <1>2, StepFacts DEF Finishing
  <2>4. PICK h \in Rank : h = [i \in Ids \cup {NoId} |-> 0]
    BY DEF Rank
  <2>5. h[NoId] = 0
    BY <2>4
  <2>6. Story(h, q, NoId)
    BY <1>1, <2>2, <2>3, <2>5 DEF Story, Chain, Newest, Linked, Heights, Remembered, OpenOK, StuckOK, FinishOK, QuietOK,
       Unlinked, AtRest
  <2> QED BY <2>6 DEF Told
<1> QED BY <1>1, <1>3, <1>4 DEF HistoryInv

\* The history is told after every step.
LEMMA HistoryNext ==
    ASSUME Undisturbed, Sound, OpenInv, JournalInv, NoLostUpdate, \A p \in Procs : RestoredExactly(p),
           HistoryInv, [HNext]_hvars
    PROVE  HistoryInv'
<1>1. Known
  BY Counters DEF Known, JournalInv, HistoryInv
<1>2. ASSUME NEW p \in Procs, Start(p) \/ Step(p) \/ Fail(p), Observe PROVE HistoryInv'
  <2>1. UndoMoves(p)
    BY <1>1, <1>2, UndoStep DEF Known
  <2>2. ASSUME NEW q \in Paths PROVE Told(q)'
    BY <1>1, <1>2, ToldStep DEF HistoryInv
  <2>3. ASSUME NEW x \in Procs PROVE Recalls(x)'
    BY <1>1, <1>2, OwnRecalls, OthersRecall DEF HistoryInv
  <2> QED BY <2>1, <2>2, <2>3 DEF HistoryInv, UndoMoves
<1>3. ~Environment
  BY EnvironmentBounds DEF Environment, Edit, TamperReceipt, TamperBackup, Undisturbed, Sound, Store, StoreTypes
<1>4. CASE UNCHANGED hvars
  <2>1. ASSUME NEW q \in Paths PROVE Told(q)'
    <3>1. PICK h \in Rank, t \in Ids \cup {NoId} : Story(h, q, t)
      BY DEF HistoryInv, Told
    <3>2. /\ journal' = journal /\ disk' = disk /\ undo' = undo
          /\ pc' = pc /\ job' = job /\ work' = work
      BY <1>4 DEF hvars, vars
    <3>3. Finishing(q)' = Finishing(q)
      BY <3>2 DEF Finishing, Path
    <3>4. Story(h, q, t)'
      BY <3>1, <3>2, <3>3, StoryKept
    <3> QED BY <3>4 DEF Told
  <2>2. ASSUME NEW p \in Procs PROVE Recalls(p)'
    BY <1>4 DEF hvars, vars, HistoryInv, Recalls, Path
  <2> QED BY <1>4, <2>1, <2>2 DEF HistoryInv, hvars
<1> QED BY <1>2, <1>3, <1>4 DEF HNext, Next

\* Without other programs a restored target is as it was restored.
LEMMA AlwaysRestored == Spec => [](\A p \in Procs : RestoredExactly(p))
<1> DEFINE I == \A p \in Procs : RestoredExactly(p)
<1>1. Init => I
  BY DEF Init, RestoredExactly
<1>2. Sound /\ I /\ [Next]_vars => I'
  BY RestoreNext
<1> QED BY <1>1, <1>2, AlwaysSound, PTL DEF Spec

\* What the proofs of the history rest on.
HistoryFacts ==
    /\ Sound /\ OpenInv /\ JournalInv /\ NoLostUpdate
    /\ \A p \in Procs : RestoredExactly(p)
    /\ HistoryInv

\* The history is told in every reachable state.
LEMMA AlwaysHistory ==
    ASSUME Undisturbed
    PROVE  HSpec => []HistoryFacts
<1> DEFINE Restored == \A p \in Procs : RestoredExactly(p)
<1>1. HInit => Init /\ HistoryInv
  BY HistoryInit DEF HInit
<1>2. [HNext]_hvars => [Next]_vars
  BY DEF HNext, hvars
<1>3. HSpec => Spec
  BY <1>1, <1>2, PTL DEF HSpec, Spec
<1>4. Sound /\ OpenInv /\ JournalInv /\ NoLostUpdate /\ Restored /\ HistoryInv /\ [HNext]_hvars => HistoryInv'
  BY HistoryNext
<1>5. Spec => []Restored
  BY AlwaysRestored
<1>6. Sound /\ OpenInv /\ JournalInv /\ NoLostUpdate /\ Restored /\ HistoryInv => HistoryFacts
  BY DEF HistoryFacts
<1> QED BY <1>1, <1>3, <1>4, <1>5, <1>6, AlwaysSound, AlwaysOpen, AlwaysIntact, CompareAndSwap, PTL DEF HSpec

\* A rollback that changes its target is about to restore the top of the undo stack.
LEMMA RestoresTop ==
    ASSUME Undisturbed, HistoryFacts, NEW p \in Procs, pc[p] \in {"r_restore", "r_copy"},
           work[p].want # work[p].pre, NEW q, q = Path(p)
    PROVE  /\ q \in Paths /\ disk[q] = work[p].pre
           /\ undo[q] # <<>> /\ work[p].want = Head(undo[q])
           /\ work[p].want # Absent => backup[work[p].source] = work[p].want
<1>1. Known
  BY Counters DEF Known, HistoryFacts, HistoryInv, JournalInv
<1>2. q \in Paths
  BY <1>1, InsideLock, StepFacts DEF RollbackSteps
<1>3. PICK h \in Rank, t \in Ids \cup {NoId} : Story(h, q, t)
  BY <1>2 DEF HistoryFacts, HistoryInv, Told
<1>4. Recalls(p)
  BY DEF HistoryFacts, HistoryInv
<1>5. /\ t \in Standing(q) /\ work[p].want = journal[t].pre
      /\ disk[q] = work[p].pre /\ disk[q] = journal[t].post /\ Len(undo[q]) = h[t]
      /\ work[p].want # Absent => backup[work[p].source] = work[p].want
  BY <1>1, <1>3, <1>4, AboutToRestore
<1>6. Alters(t) = 1
  BY <1>5 DEF Alters
<1>7. undo[q] # <<>> /\ Head(undo[q]) = journal[t].pre
  BY <1>2, <1>3, <1>5, <1>6, TopRemembered DEF HistoryFacts, HistoryInv
<1> QED BY <1>2, <1>5, <1>7

(***************************************************************************)
(* store.py 746-752, find_latest_receipt: for any number of writes and       *)
(* rollbacks in one project, failing or killed anywhere but between the two  *)
(* last writes of a rollback, a rollback that changes its target restores    *)
(* the image that the newest write not yet undone replaced (A, B, C, B       *)
(* rolls back to C).                                                        *)
(***************************************************************************)
THEOREM NewestUndone ==
    ASSUME Undisturbed
    PROVE  HSpec => []NewestWriteUndone
<1>1. HistoryFacts => NewestWriteUndone
  BY RestoresTop DEF NewestWriteUndone
<1> QED BY <1>1, AlwaysHistory, PTL

\* A restored target gets the image the rollback wants.
LEMMA PutsBack ==
    ASSUME Undisturbed, Known, NEW p \in Procs, Recalls(p), RestoreTarget(p) \/ CopyBackup(p), disk' # disk,
           NEW q, q = Path(p), Told(q)
    PROVE  disk' = [disk EXCEPT ![q] = work[p].want]
<1>1. pc[p] \in {"r_restore", "r_copy"}
  BY DEF RestoreTarget, CopyBackup, At
<1>2. PICK h \in Rank, t \in Ids \cup {NoId} : Story(h, q, t)
  BY DEF Told
<1>3. work[p].want # Absent => backup[work[p].source] = work[p].want
  BY <1>1, <1>2, AboutToRestore
<1>4. CASE RestoreTarget(p)
  BY <1>3, <1>4 DEF RestoreTarget
<1>5. CASE CopyBackup(p)
  BY <1>3, <1>5 DEF CopyBackup, At, Known, RestoredExactly
<1> QED BY <1>4, <1>5

\* A process that changes a target writes it or rolls it back.
LEMMA FileStep ==
    ASSUME Undisturbed, HistoryFacts, NEW p \in Procs, Start(p) \/ Step(p) \/ Fail(p), Observe
    PROVE  Abstract!Next \/ UNCHANGED <<disk, undo>>
<1>1. /\ Known /\ Recalls(p) /\ disk \in [Paths -> Images] /\ undo \in [Paths -> Seq(Images)]
      /\ pc \in [Procs -> Labels]
  BY Counters DEF Known, HistoryFacts, HistoryInv, JournalInv, Sound, Store, StoreTypes, Control, ControlTypes
<1>2. UndoMoves(p) /\ Frame(p)
  BY <1>1, UndoStep, StepFrame DEF Known
<1>3. disk' \in [Paths -> Images]
  BY SoundNext DEF HistoryFacts, Next, Sound, Store, StoreTypes
<1>4. CASE \A x \in Paths : disk'[x] = disk[x]
  <2>1. disk' = disk
    BY <1>1, <1>3, <1>4
  <2>2. undo' = undo
    BY <1>1, <1>2, <1>4 DEF UndoMoves
  <2> QED BY <2>1, <2>2
<1>5. ASSUME NEW q \in Paths, disk'[q] # disk[q] PROVE Abstract!Next
  <2>1. /\ q = Path(p) /\ pc[p] \in TouchSteps /\ disk' # disk
        /\ \A x \in Paths \ {q} : disk'[x] = disk[x] /\ undo'[x] = undo[x]
    BY <1>2, <1>5 DEF Frame, UndoMoves
  <2>2. CASE pc[p] = "w_replace"
    <3>1. ReplaceTarget(p)
      BY <2>1, <2>2, Touching DEF RestoreTarget, CopyBackup, At
    <3>2. PICK c \in Contents : c = job[p].data
      BY <1>1, <2>2 DEF Recalls, WriteSteps
    <3>3. disk' = [disk EXCEPT ![q] = c]
      BY <2>1, <3>1, <3>2 DEF ReplaceTarget
    <3>4. c # disk[q]
      BY <1>1, <1>5, <3>3
    <3>5. undo'[q] = <<disk[q]>> \o undo[q]
      BY <1>2, <1>5, <2>1, <2>2 DEF UndoMoves
    <3>6. undo' = [undo EXCEPT ![q] = <<disk[q]>> \o @]
      BY <1>1, <1>2, <2>1, <3>5 DEF UndoMoves
    <3>7. Abstract!Write(q)
      BY <3>3, <3>4, <3>6 DEF Abstract!Write
    <3> QED BY <3>7 DEF Abstract!Next
  <2>3. CASE pc[p] \in {"r_restore", "r_copy"}
    <3>1. RestoreTarget(p) \/ CopyBackup(p)
      BY <2>1, <2>3, Touching DEF ReplaceTarget, At
    <3>2. PICK want : want = work[p].want
      OBVIOUS
    <3>3. disk' = [disk EXCEPT ![q] = want]
      BY <1>1, <2>1, <3>1, <3>2, PutsBack DEF HistoryFacts, HistoryInv
    <3>4. want # disk[q]
      BY <1>1, <1>5, <3>3
    <3>5. disk[q] = work[p].pre
      BY <1>1, <2>1, <2>3, Counters DEF Known, NoLostUpdate
    <3>6. undo[q] # <<>> /\ want = Head(undo[q])
      BY <2>1, <2>3, <3>2, <3>4, <3>5, RestoresTop
    <3>7. undo'[q] = Tail(undo[q])
      BY <1>2, <1>5, <2>1, <2>3, <3>6 DEF UndoMoves
    <3>8. undo' = [undo EXCEPT ![q] = Tail(@)]
      BY <1>1, <1>2, <2>1, <3>7 DEF UndoMoves
    <3>9. Abstract!Rollback(q)
      BY <3>3, <3>6, <3>8 DEF Abstract!Rollback
    <3> QED BY <3>9 DEF Abstract!Next
  <2> QED BY <2>1, <2>2, <2>3 DEF TouchSteps
<1> QED BY <1>4, <1>5

(***************************************************************************)
(* The executor implements GovernedFile (execute_write, rollback, recover):  *)
(* under the same hypotheses and to a caller who sees only files, every step *)
(* of the journalled protocol is a write that remembers the image it         *)
(* replaced, a rollback that puts back the image remembered last, or         *)
(* nothing at all.                                                          *)
(***************************************************************************)
THEOREM ImplementsFile ==
    ASSUME Undisturbed
    PROVE  HSpec => ImplementsGovernedFile
<1>1. HInit => Abstract!Init
  BY DEF HInit, Init, Abstract!Init, Images
<1>2. HistoryFacts /\ [HNext]_hvars => [Abstract!Next]_<<disk, undo>>
  <2> SUFFICES ASSUME HistoryFacts, [HNext]_hvars PROVE Abstract!Next \/ UNCHANGED <<disk, undo>>
    OBVIOUS
  <2>1. ~Environment
    BY EnvironmentBounds DEF Environment, Edit, TamperReceipt, TamperBackup, Undisturbed, HistoryFacts, Sound, Store,
       StoreTypes
  <2>2. CASE UNCHANGED hvars
    BY <2>2 DEF hvars, vars
  <2> QED BY <2>1, <2>2, FileStep DEF HNext, Next
<1> QED BY <1>1, <1>2, AlwaysHistory, PTL DEF HSpec, ImplementsGovernedFile, Abstract!Spec
=============================================================================
