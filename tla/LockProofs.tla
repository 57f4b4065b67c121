----------------------------- MODULE LockProofs -----------------------------
(***************************************************************************)
(* Theorems about ResourceLock for any processes, spellings, timeouts and    *)
(* length of time: exclusion per resource, nothing left behind by an idle    *)
(* process, and the implementation of the one-step lock of Mutex.            *)
(***************************************************************************)
EXTENDS ResourceLock, TLAPS

\* What TypeOK and the properties rest on: a process has the lock file open
\* from acquire to release, owns a lock file only from the successful attempt to
\* the close, and owns no other than that of the resource it asked for.
HandleOpen  == \A p \in Procs : handle[p] <=> pc[p] # "idle"
InsideOwns  == \A p \in Procs : pc[p] = "inside" => owner[LockFile(p)] = p
OwnsOwnFile == \A p \in Procs, f \in Spellings :
                  owner[f] = p => pc[p] \in {"inside", "close"} /\ f = LockFile(p)
LockInv == TypeOK /\ HandleOpen /\ InsideOwns /\ OwnsOwnFile

LEMMA LockFileIsSpelling ==
    ASSUME TypeOK, NEW p \in Procs
    PROVE  LockFile(p) \in Spellings
BY LockConstants DEF TypeOK, LockFile, lock_name_for_resource

LEMMA Max0Natural == ASSUME NEW t \in Int PROVE Max0(t) \in Nat
BY DEF Max0

LEMMA InitLockInv == Init => LockInv
BY LockConstants DEF Init, LockInv, TypeOK, HandleOpen, InsideOwns, OwnsOwnFile, Labels

\* A step that touches no owner, changes the local state of one process only,
\* and does not take it inside, or out with something in its hands.
LEMMA LocalStep ==
    ASSUME LockInv, NEW p \in Procs, NEW l \in Labels,
           UNCHANGED <<now, owner>>,
           pc[p] \notin {"inside", "close"}, l \notin {"inside", "close"},
           pc' = [pc EXCEPT ![p] = l],
           name' \in [Procs -> Spellings], \A q \in Procs \ {p} : name'[q] = name[q],
           handle' = [handle EXCEPT ![p] = (l # "idle")],
           deadline' \in [Procs -> 0..MaxTime], timeout' \in [Procs -> Timeouts \cup {0}]
    PROVE  LockInv'
<1>1. TypeOK'
    BY DEF LockInv, TypeOK
<1>2. HandleOpen'
    BY DEF LockInv, TypeOK, HandleOpen
<1>3. InsideOwns'
    BY DEF LockInv, TypeOK, InsideOwns, LockFile
<1>4. OwnsOwnFile'
    BY DEF LockInv, TypeOK, OwnsOwnFile, LockFile
<1>5. QED BY <1>1, <1>2, <1>3, <1>4 DEF LockInv

\* A process that leaves with its handle closed owns nothing afterwards.
LEMMA Leaving ==
    ASSUME LockInv, NEW p \in Procs,
           UNCHANGED <<now, name, deadline, timeout>>,
           handle' = [handle EXCEPT ![p] = FALSE], owner' = GivenUp(p), Goto(p, "idle")
    PROVE  LockInv'
<1>1. \A f \in Spellings : owner'[f] = IF owner[f] = p THEN Free ELSE owner[f]
    BY DEF GivenUp
<1>2. \A q \in Procs : pc'[q] = IF q = p THEN "idle" ELSE pc[q]
    BY DEF LockInv, TypeOK, Goto
<1>3. TypeOK'
    BY DEF LockInv, TypeOK, GivenUp, Goto, Labels
<1>4. HandleOpen'
    BY <1>2 DEF LockInv, TypeOK, HandleOpen
<1>5. InsideOwns'
    <2>1. SUFFICES ASSUME NEW q \in Procs, pc'[q] = "inside" PROVE owner'[LockFile(q)'] = q
        BY DEF InsideOwns
    <2>2. q # p /\ pc[q] = "inside" /\ LockFile(q)' = LockFile(q)
        BY <1>2, <2>1 DEF LockFile
    <2>3. LockFile(q) \in Spellings /\ owner[LockFile(q)] = q
        BY <2>2, LockFileIsSpelling DEF LockInv, InsideOwns
    <2>4. QED BY <1>1, <2>2, <2>3
<1>6. OwnsOwnFile'
    BY <1>1, <1>2, LockConstants DEF LockInv, OwnsOwnFile, LockFile
<1>7. QED BY <1>3, <1>4, <1>5, <1>6 DEF LockInv

LEMMA OpenInv == ASSUME LockInv, NEW p \in Procs, Open(p) PROVE LockInv'
<1>1. PICK s \in Spellings, t \in Timeouts :
          /\ now + Max0(t) <= MaxTime
          /\ name' = [name EXCEPT ![p] = s]
          /\ timeout' = [timeout EXCEPT ![p] = t]
          /\ deadline' = [deadline EXCEPT ![p] = now + Max0(t)]
    BY DEF Open
<1>2. now + Max0(t) \in 0..MaxTime
    BY <1>1, Max0Natural, LockConstants DEF LockInv, TypeOK
<1>3. QED BY <1>1, <1>2, LocalStep DEF Open, LockInv, TypeOK, Goto, Labels

LEMMA TryLockInv == ASSUME LockInv, NEW p \in Procs, TryLock(p) PROVE LockInv'
<1>1. CASE owner[LockFile(p)] = Free
    <2>1. LockFile(p) \in Spellings
        BY LockFileIsSpelling DEF LockInv
    <2>2. owner' = [owner EXCEPT ![LockFile(p)] = p] /\ pc' = [pc EXCEPT ![p] = "inside"]
        BY <1>1 DEF TryLock, Goto
    <2>3. \A q \in Procs : LockFile(q)' = LockFile(q) /\ LockFile(q) \in Spellings
        BY LockFileIsSpelling DEF TryLock, LockFile, LockInv
    <2>4. TypeOK'
        BY <2>1, <2>2 DEF LockInv, TypeOK, TryLock, Labels
    <2>5. HandleOpen'
        BY <2>2 DEF LockInv, TypeOK, HandleOpen, TryLock
    <2>6. InsideOwns'
        BY <1>1, <2>1, <2>2, <2>3, LockConstants DEF LockInv, TypeOK, InsideOwns
    <2>7. OwnsOwnFile'
        BY <2>1, <2>2, <2>3 DEF LockInv, TypeOK, OwnsOwnFile
    <2>8. QED BY <2>4, <2>5, <2>6, <2>7 DEF LockInv
<1>2. CASE owner[LockFile(p)] # Free
    <2>1. handle' = [handle EXCEPT ![p] = TRUE]
        BY DEF LockInv, TypeOK, HandleOpen, TryLock
    <2>2. QED BY <1>2, <2>1, LocalStep DEF TryLock, Goto, Labels, LockInv, TypeOK
<1>3. QED BY <1>1, <1>2

LEMMA CheckDeadlineInv == ASSUME LockInv, NEW p \in Procs, CheckDeadline(p) PROVE LockInv'
<1>1. CASE now >= deadline[p]
    BY <1>1, LocalStep DEF CheckDeadline, Goto, Labels, LockInv, TypeOK
<1>2. CASE ~(now >= deadline[p])
    <2>1. handle' = [handle EXCEPT ![p] = TRUE]
        BY <1>2 DEF LockInv, TypeOK, HandleOpen, CheckDeadline
    <2>2. QED BY <1>2, <2>1, LocalStep DEF CheckDeadline, Goto, Labels, LockInv, TypeOK
<1>3. QED BY <1>1, <1>2

LEMMA WakeInv == ASSUME LockInv, NEW p \in Procs, Wake(p) PROVE LockInv'
<1>1. handle' = [handle EXCEPT ![p] = TRUE]
    BY DEF LockInv, TypeOK, HandleOpen, Wake
<1>2. QED BY <1>1, LocalStep DEF Wake, Goto, Labels, LockInv, TypeOK

\* After unlocking, or failing to, a process owns at most what it owned.
LEMMA UnlockInv == ASSUME LockInv, NEW p \in Procs, Unlock(p) PROVE LockInv'
<1>1. LockFile(p) \in Spellings /\ owner[LockFile(p)] = p
    BY LockFileIsSpelling DEF LockInv, InsideOwns, Unlock
<1>2. pc' = [pc EXCEPT ![p] = "close"]
    BY DEF Unlock, Goto
<1>3. /\ owner' \in [Spellings -> Procs \cup {Free}]
      /\ \A f \in Spellings : owner'[f] = owner[f] \/ (owner[f] = p /\ owner'[f] = Free)
    BY <1>1 DEF Unlock, LockInv, TypeOK
<1>4. \A q \in Procs : LockFile(q)' = LockFile(q) /\ LockFile(q) \in Spellings
    BY LockFileIsSpelling DEF Unlock, LockFile, LockInv
<1>5. TypeOK'
    BY <1>2, <1>3 DEF LockInv, TypeOK, Unlock, Labels
<1>6. HandleOpen'
    BY <1>2 DEF LockInv, TypeOK, HandleOpen, Unlock
<1>7. InsideOwns'
    BY <1>2, <1>3, <1>4 DEF LockInv, TypeOK, InsideOwns
<1>8. OwnsOwnFile'
    BY <1>2, <1>3, <1>4, LockConstants DEF LockInv, TypeOK, OwnsOwnFile, Unlock
<1>9. QED BY <1>5, <1>6, <1>7, <1>8 DEF LockInv

LEMMA TickInv == ASSUME LockInv, Tick PROVE LockInv'
BY LockConstants DEF LockInv, TypeOK, HandleOpen, InsideOwns, OwnsOwnFile, LockFile, Tick

LEMMA NextLockInv == ASSUME LockInv, [Next]_vars PROVE LockInv'
<1>1. CASE Tick
    BY <1>1, TickInv
<1>2. ASSUME NEW p \in Procs, Open(p) PROVE LockInv'
    BY <1>2, OpenInv
<1>3. ASSUME NEW p \in Procs, Waiting(p) PROVE LockInv'
    BY <1>3, TryLockInv, CheckDeadlineInv, WakeInv DEF Waiting
<1>4. ASSUME NEW p \in Procs, Unlock(p) PROVE LockInv'
    BY <1>4, UnlockInv
<1>5. ASSUME NEW p \in Procs, Close(p) PROVE LockInv'
    BY <1>5, Leaving DEF Close
<1>6. ASSUME NEW p \in Procs, Die(p) PROVE LockInv'
    BY <1>6, Leaving DEF Die
<1>7. CASE UNCHANGED vars
    BY <1>7 DEF vars, LockInv, TypeOK, HandleOpen, InsideOwns, OwnsOwnFile, LockFile
<1>8. QED BY <1>1, <1>2, <1>3, <1>4, <1>5, <1>6, <1>7 DEF Next

\* The invariant holds in every reachable state, TypeOK with it.
THEOREM LockInvariant == Spec => []LockInv
BY InitLockInv, NextLockInv, PTL DEF Spec

\* The variables of acquire and release keep their types (locks.py 145-246).
THEOREM LockTypes == Spec => []TypeOK
BY LockInvariant, PTL DEF LockInv

\* Whoever is inside owns the lock file of his resource; a file has one owner.
LEMMA InvExcludes == LockInv => ExclusivePerResource
BY DEF LockInv, InsideOwns, ExclusivePerResource, LockFile, lock_name_for_resource

\* Two processes are never inside the same resource, however they spell it: the
\* lock file is named after the normalised resource (locks.py 58-67).
THEOREM Exclusion == Spec => []ExclusivePerResource
BY LockInvariant, InvExcludes, PTL

\* Without an open handle no lock file is owned.
LEMMA InvIdle == LockInv => IdleOwnsNothing
BY DEF LockInv, HandleOpen, OwnsOwnFile, IdleOwnsNothing

\* No path out of acquire or release leaks a handle or a lock (locks.py 208-246).
THEOREM NothingLeaked == Spec => []IdleOwnsNothing
BY LockInvariant, InvIdle, PTL

----------------------------------------------------------------------------
\* The one-step lock.

LEMMA OneHolder ==
    ASSUME LockInv, NEW s \in Spellings, NEW p \in Holders(s), NEW q \in Holders(s)
    PROVE  p = q
BY InvExcludes DEF Holders, ExclusivePerResource

LEMMA OneOfOne == ASSUME NEW p PROVE OneOf({p}) = p
BY DEF OneOf

LEMMA OneOfNone == OneOf({}) = Free
BY DEF OneOf

LEMMA HolderIs ==
    ASSUME LockInv, NEW s \in Spellings, NEW p \in Holders(s)
    PROVE  Holder[s] = p
<1>1. Holders(s) = {p}
    BY OneHolder
<1>2. QED BY <1>1, OneOfOne DEF Holder

LEMMA HolderFree ==
    ASSUME NEW s \in Spellings, Holders(s) = {}
    PROVE  Holder[s] = Free
BY OneOfNone DEF Holder

\* A step after which the same processes are inside, for the same resources.
LEMMA SameHolders ==
    ASSUME \A q \in Procs : pc'[q] = "inside" <=> pc[q] = "inside",
           \A q \in Procs : pc[q] = "inside" => name'[q] = name[q]
    PROVE  Holder' = Holder
<1>1. \A s : Holders(s)' = Holders(s)
    BY DEF Holders
<1>2. QED BY <1>1 DEF Holder

\* A process that goes inside takes the one-step lock of its resource.
LEMMA Entering ==
    ASSUME LockInv, LockInv', NEW p \in Procs, UNCHANGED name,
           owner[LockFile(p)] = Free, pc[p] # "inside", pc' = [pc EXCEPT ![p] = "inside"]
    PROVE  OneStepLock!Acquire(p, LockFile(p))
<1> DEFINE r == LockFile(p)
<1>1. r \in Spellings /\ Identity[name[p]] = r
    BY LockFileIsSpelling DEF LockInv, LockFile, lock_name_for_resource
<1>2. Holders(r) = {}
    BY LockConstants DEF Holders, LockInv, InsideOwns, LockFile, lock_name_for_resource
<1>3. \A q \in Procs : pc'[q] = "inside" <=> q = p \/ pc[q] = "inside"
    BY DEF LockInv, TypeOK
<1>4. \A s \in Spellings : Holders(s)' = IF s = r THEN {p} ELSE Holders(s)
    BY <1>1, <1>2, <1>3 DEF Holders
<1>5. Holder' = [Holder EXCEPT ![r] = p]
    BY <1>1, <1>4, OneOfOne DEF Holder
<1>6. QED BY <1>1, <1>2, <1>5, HolderFree DEF OneStepLock!Acquire

\* A process that leaves gives it up.
LEMMA GivingUp ==
    ASSUME LockInv, NEW p \in Procs, UNCHANGED name, NEW l \in Labels, l # "inside",
           pc[p] = "inside", pc' = [pc EXCEPT ![p] = l]
    PROVE  OneStepLock!Release(LockFile(p))
<1> DEFINE r == LockFile(p)
<1>1. r \in Spellings /\ Identity[name[p]] = r
    BY LockFileIsSpelling DEF LockInv, LockFile, lock_name_for_resource
<1>2. p \in Holders(r)
    BY <1>1 DEF Holders
<1>3. \A q \in Procs : pc'[q] = "inside" <=> q # p /\ pc[q] = "inside"
    BY DEF LockInv, TypeOK
<1>4. Holders(r) = {p}
    BY <1>1, <1>2, OneHolder
<1>5. \A s \in Spellings : Holders(s)' = IF s = r THEN {} ELSE Holders(s)
    BY <1>1, <1>3, <1>4 DEF Holders
<1>6. Holder' = [Holder EXCEPT ![r] = Free]
    BY <1>1, <1>5, OneOfNone DEF Holder
<1>7. Holder[r] # Free
    BY <1>1, <1>2, HolderIs, LockConstants
<1>8. QED BY <1>1, <1>6, <1>7 DEF OneStepLock!Release

\* A step that moves only p, and not in or out.
LEMMA OutsideStep ==
    ASSUME LockInv, NEW p \in Procs, NEW l \in Labels, l # "inside", pc[p] # "inside",
           pc' = [pc EXCEPT ![p] = l], \A q \in Procs \ {p} : name'[q] = name[q]
    PROVE  Holder' = Holder
<1>1. \A q \in Procs : pc'[q] = IF q = p THEN l ELSE pc[q]
    BY DEF LockInv, TypeOK
<1>2. QED BY <1>1, SameHolders

LEMMA StepImplements ==
    ASSUME LockInv, LockInv', [Next]_vars
    PROVE  [OneStepLock!Next]_Holder
<1> SUFFICES ASSUME Holder' # Holder PROVE OneStepLock!Next
    OBVIOUS
<1>1. CASE Tick \/ UNCHANGED vars
    BY <1>1, SameHolders DEF Tick, vars
<1>2. ASSUME NEW p \in Procs, Open(p) PROVE OneStepLock!Next
    <2>1. \A q \in Procs \ {p} : name'[q] = name[q]
        BY <1>2 DEF Open, LockInv, TypeOK
    <2>2. QED BY <1>2, <2>1, OutsideStep DEF Open, Goto, Labels
<1>3. ASSUME NEW p \in Procs, CheckDeadline(p) \/ Wake(p) \/ Close(p) PROVE OneStepLock!Next
    BY <1>3, OutsideStep DEF CheckDeadline, Wake, Close, Goto, Labels
<1>4. ASSUME NEW p \in Procs, TryLock(p) PROVE OneStepLock!Next
    <2>1. CASE owner[LockFile(p)] = Free
        BY <1>4, <2>1, Entering, LockFileIsSpelling DEF TryLock, Goto, LockInv, OneStepLock!Next
    <2>2. CASE owner[LockFile(p)] # Free
        BY <1>4, <2>2, OutsideStep DEF TryLock, Goto, Labels
    <2>3. QED BY <2>1, <2>2
<1>5. ASSUME NEW p \in Procs, Unlock(p) PROVE OneStepLock!Next
    BY <1>5, GivingUp, LockFileIsSpelling DEF Unlock, Goto, Labels, LockInv, OneStepLock!Next
<1>6. ASSUME NEW p \in Procs, Die(p) PROVE OneStepLock!Next
    <2>1. CASE pc[p] = "inside"
        BY <1>6, <2>1, GivingUp, LockFileIsSpelling DEF Die, Goto, Labels, LockInv, OneStepLock!Next
    <2>2. CASE pc[p] # "inside"
        BY <1>6, <2>2, OutsideStep DEF Die, Goto, Labels
    <2>3. QED BY <2>1, <2>2
<1>7. QED BY <1>1, <1>2, <1>3, <1>4, <1>5, <1>6 DEF Next, Waiting

LEMMA InitImplements == Init => OneStepLock!Init
<1> SUFFICES ASSUME Init PROVE OneStepLock!Init
    OBVIOUS
<1>1. \A s \in Spellings : Holders(s) = {}
    BY DEF Init, Holders
<1>2. QED BY <1>1, OneOfNone DEF Holder, OneStepLock!Init

(***************************************************************************)
(* Whatever times out, fails to unlock or dies, and however processes spell  *)
(* their resources, taking and giving up a lock is one step of Mutex each.   *)
(***************************************************************************)
THEOREM OneStep == Spec => ImplementsMutex
BY LockInvariant, InitImplements, StepImplements, PTL
   DEF Spec, ImplementsMutex, OneStepLock!Spec
=============================================================================
