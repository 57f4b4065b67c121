---------------------------- MODULE ResourceLock ----------------------------
(***************************************************************************)
(* ResourceLock (policy/locks.py): an interprocess mutex on a lock file named *)
(* after the resource, taken by polling a non-blocking OS lock until a       *)
(* deadline.  GovernedExecutor, Continuity and GitSession take it as one     *)
(* atomic step; this module is the protocol behind that step (Mutex).        *)
(*                                                                           *)
(* The OS lock (flock, msvcrt.locking) is external: one open handle owns a   *)
(* lock file at a time, and closing the handle gives it up.                  *)
(***************************************************************************)
EXTENDS Integers

CONSTANTS
    Procs, Free,
    Spellings,    \* the ways callers write the path of a resource
    Identity,     \* canonical_resource_id: the resource a spelling denotes
    Timeouts,     \* timeouts callers pass, in ticks
    MaxTime       \* bound: ticks of the monotonic clock

ASSUME LockConstants ==
    /\ Free \notin Procs
    /\ Identity \in [Spellings -> Spellings]
    /\ Timeouts \subseteq Int /\ MaxTime \in Nat

VARIABLES
    now,
    owner,      \* who owns the OS lock of each lock file
    pc,
    name,       \* the spelling a process asked for
    handle,     \* does the process have the lock file open?
    deadline, timeout

vars == <<now, owner, pc, name, handle, deadline, timeout>>

Labels == {"idle", "poll", "refused", "sleep", "inside", "close"}

Init ==
    /\ now = 0
    /\ owner = [f \in Spellings |-> Free]
    /\ pc = [p \in Procs |-> "idle"]
    /\ name \in [Procs -> Spellings]
    /\ handle = [p \in Procs |-> FALSE]
    /\ deadline = [p \in Procs |-> 0]
    /\ timeout = [p \in Procs |-> 0]

----------------------------------------------------------------------------
Goto(p, label) == pc' = [pc EXCEPT ![p] = label]
Max0(t) == IF t > 0 THEN t ELSE 0

\* Faulty variant: the lock file is named after the spelling.
NameFromSpelling(spelling) == spelling

\* The lock file of a resource.
lock_name_for_resource(spelling) == Identity[spelling]

LockFile(p) == lock_name_for_resource(name[p])

\* Faulty variant: a negative timeout is taken as it is.
OpenNegative(p) ==
    /\ pc[p] = "idle"
    /\ \E s \in Spellings, t \in Timeouts :
          /\ now + t <= MaxTime
          /\ name' = [name EXCEPT ![p] = s]
          /\ timeout' = [timeout EXCEPT ![p] = t]
          /\ deadline' = [deadline EXCEPT ![p] = now + t]
    /\ handle' = [handle EXCEPT ![p] = TRUE]
    /\ Goto(p, "poll")
    /\ UNCHANGED <<now, owner>>

\* acquire(): validation passes and the lock file is opened; when either fails,
\* LockError is raised and nothing has changed.
Open(p) ==
    /\ pc[p] = "idle"
    /\ \E s \in Spellings, t \in Timeouts :
          /\ now + Max0(t) <= MaxTime
          /\ name' = [name EXCEPT ![p] = s]
          /\ timeout' = [timeout EXCEPT ![p] = t]
          /\ deadline' = [deadline EXCEPT ![p] = now + Max0(t)]
    /\ handle' = [handle EXCEPT ![p] = TRUE]
    /\ Goto(p, "poll")
    /\ UNCHANGED <<now, owner>>

\* One non-blocking attempt of _blocking_lock.
TryLock(p) ==
    /\ pc[p] = "poll"
    /\ IF owner[LockFile(p)] = Free
       THEN owner' = [owner EXCEPT ![LockFile(p)] = p] /\ Goto(p, "inside")
       ELSE UNCHANGED owner /\ Goto(p, "refused")
    /\ UNCHANGED <<now, name, handle, deadline, timeout>>

\* Faulty variant: every attempt starts the timeout afresh.
DeadlineRestarted(p) ==
    /\ pc[p] = "refused"
    /\ IF now >= deadline[p]
       THEN handle' = [handle EXCEPT ![p] = FALSE] /\ Goto(p, "idle") /\ UNCHANGED deadline
       ELSE /\ deadline' = [deadline EXCEPT ![p] = now + Max0(timeout[p])]
            /\ Goto(p, "sleep")
            /\ UNCHANGED handle
    /\ UNCHANGED <<now, owner, name, timeout>>

\* Faulty variant: after the deadline the holder is taken for dead.
EnterAtDeadline(p) ==
    /\ pc[p] = "refused"
    /\ Goto(p, IF now >= deadline[p] THEN "inside" ELSE "sleep")
    /\ UNCHANGED <<now, owner, name, handle, deadline, timeout>>

\* After a refused attempt the clock decides: LockTimeoutError, with the
\* handle closed, or another round.
CheckDeadline(p) ==
    /\ pc[p] = "refused"
    /\ IF now >= deadline[p]
       THEN handle' = [handle EXCEPT ![p] = FALSE] /\ Goto(p, "idle")
       ELSE UNCHANGED handle /\ Goto(p, "sleep")
    /\ UNCHANGED <<now, owner, name, deadline, timeout>>

Wake(p) ==
    /\ pc[p] = "sleep"
    /\ Goto(p, "poll")
    /\ UNCHANGED <<now, owner, name, handle, deadline, timeout>>

\* release(): the unlock call, which may fail and raise.
Unlock(p) ==
    /\ pc[p] = "inside"
    /\ \/ owner' = [owner EXCEPT ![LockFile(p)] = Free]
       \/ UNCHANGED owner
    /\ Goto(p, "close")
    /\ UNCHANGED <<now, name, handle, deadline, timeout>>

\* The system gives up what a closed handle owned.
GivenUp(p) == [f \in Spellings |-> IF owner[f] = p THEN Free ELSE owner[f]]

\* Faulty variant: a failed unlock skips the close.
CloseIfUnlocked(p) ==
    /\ pc[p] = "close"
    /\ IF owner[LockFile(p)] = p
       THEN UNCHANGED <<handle, owner>>
       ELSE handle' = [handle EXCEPT ![p] = FALSE] /\ owner' = GivenUp(p)
    /\ Goto(p, "idle")
    /\ UNCHANGED <<now, name, deadline, timeout>>

\* The `finally` clause of release().
Close(p) ==
    /\ pc[p] = "close"
    /\ handle' = [handle EXCEPT ![p] = FALSE]
    /\ owner' = GivenUp(p)
    /\ Goto(p, "idle")
    /\ UNCHANGED <<now, name, deadline, timeout>>

\* The process dies and the system closes its handles.
Die(p) ==
    /\ pc[p] # "idle"
    /\ handle' = [handle EXCEPT ![p] = FALSE]
    /\ owner' = GivenUp(p)
    /\ Goto(p, "idle")
    /\ UNCHANGED <<now, name, deadline, timeout>>

Tick ==
    /\ now < MaxTime
    /\ now' = now + 1
    /\ UNCHANGED <<owner, pc, name, handle, deadline, timeout>>

\* The loop of _blocking_lock; how long a holder stays inside is its affair.
Waiting(p) == TryLock(p) \/ CheckDeadline(p) \/ Wake(p)
Next == Tick \/ \E p \in Procs : Open(p) \/ Waiting(p) \/ Unlock(p) \/ Close(p) \/ Die(p)

Spec     == Init /\ [][Next]_vars
\* Time passes and a waiting process is scheduled.  A holder need never leave.
FairSpec == Spec /\ WF_vars(Tick) /\ \A p \in Procs : WF_vars(Waiting(p))

----------------------------------------------------------------------------
\* Types of the clock, the lock files and the processes.
TypeOK ==
    /\ now \in 0..MaxTime
    /\ owner \in [Spellings -> Procs \cup {Free}]
    /\ pc \in [Procs -> Labels] /\ name \in [Procs -> Spellings]
    /\ handle \in [Procs -> BOOLEAN]
    /\ deadline \in [Procs -> 0..MaxTime] /\ timeout \in [Procs -> Timeouts \cup {0}]

(***************************************************************************)
(* Mutual exclusion per resource: two processes that spell the same resource *)
(* differently are never inside together (locks.py 58-67).                   *)
(***************************************************************************)
ExclusivePerResource ==
    \A p, q \in Procs :
        p # q /\ pc[p] = "inside" /\ pc[q] = "inside" => Identity[name[p]] # Identity[name[q]]

(***************************************************************************)
(* However a process left acquire or release, by success, timeout, a failed  *)
(* unlock or death, an idle process has no handle open and owns no lock.     *)
(***************************************************************************)
IdleOwnsNothing ==
    \A p \in Procs : pc[p] = "idle" => ~handle[p] /\ \A f \in Spellings : owner[f] # p

\* Waiting ends, with the lock or with a timeout, even if the holder never
\* lets go (locks.py 176-206).
WaitingEnds ==
    \A p \in Procs : pc[p] \in {"poll", "refused", "sleep"} ~> pc[p] \in {"inside", "idle"}

(***************************************************************************)
(* Polling, deadlines, failed unlocks and deaths implement the one-step lock *)
(* that the other modules are written with.                                  *)
(***************************************************************************)
Holders(s) == {p \in Procs : pc[p] = "inside" /\ Identity[name[p]] = s}
OneOf(procs) == IF procs = {} THEN Free ELSE CHOOSE p \in procs : TRUE
Holder == [s \in Spellings |-> OneOf(Holders(s))]
OneStepLock == INSTANCE Mutex WITH Resources <- Spellings, holder <- Holder
ImplementsMutex == OneStepLock!Spec
=============================================================================
