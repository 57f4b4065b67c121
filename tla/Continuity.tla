----------------------------- MODULE Continuity -----------------------------
(***************************************************************************)
(* ContinuityManager (continuity/state.py): a revision counter and a record  *)
(* of HANDOFF.md kept in .continuity/state.json, with checkpoint and         *)
(* decision files beside it.  Every update runs under one interprocess lock: *)
(* it reads the state, checks what the caller expects, writes its artifact   *)
(* and then the state.  A process may raise or crash before every write.     *)
(***************************************************************************)
EXTENDS Integers, FiniteSets

CONSTANTS
    Procs,         \* processes that share a project
    Free,          \* the revision lock is not held
    Handoffs,      \* contents of HANDOFF.md
    Absent,        \* no HANDOFF.md, or no value
    Decisions,     \* decision IDs
    MaxRevision,   \* bound: updates are requested below this revision
    MaxEdits       \* bound: edits of HANDOFF.md from outside

ASSUME ContinuityConstants ==
    /\ Free \notin Procs /\ Absent \notin Handoffs
    /\ MaxRevision \in Nat \ {0} /\ MaxEdits \in Nat

VARIABLES
    state,        \* state.json: its revision (0: no file) and handoff_sha256
    handoff,      \* HANDOFF.md
    checkpoints,  \* the revisions and handoffs of the checkpoint files
    decisions,    \* the revision in each decision file, 0 when there is none
    lock, pc,
    call,         \* arguments of the call a process makes
    seen,         \* the state and the handoff the process has read
    edits,
    commits       \* history: what advanced the state to each revision

files == <<state, handoff, checkpoints, decisions>>
vars  == <<state, handoff, checkpoints, decisions, lock, pc, call, seen, edits, commits>>

Images    == Handoffs \cup {Absent}
Revisions == 0..MaxRevision
Labels    == {"idle", "check", "artifact", "commit"}
Kinds     == {"init", "checkpoint", "reconcile", "decision"}
\* exp_rev 0 is expected_metadata_revision=None; exp and obs are the expected
\* and the observed handoff hash.
Call == [kind: Kinds \cup {"none"}, exp_rev: Revisions, exp: Images, obs: Images,
         decision: Decisions \cup {Absent}]
NoCall == [kind |-> "none", exp_rev |-> 0, exp |-> Absent, obs |-> Absent, decision |-> Absent]
StateFile == [rev: Revisions, handoff: Images]
NoState   == [rev |-> 0, handoff |-> Absent]

Init ==
    /\ state = NoState
    /\ handoff \in Images
    /\ checkpoints = {}
    /\ decisions = [d \in Decisions |-> 0]
    /\ lock = Free
    /\ pc = [p \in Procs |-> "idle"]
    /\ call = [p \in Procs |-> NoCall]
    /\ seen = [p \in Procs |-> NoState]
    /\ edits = 0
    /\ commits = [r \in Revisions |-> {}]

----------------------------------------------------------------------------
Goto(p, label) == pc' = [pc EXCEPT ![p] = label]

\* The call returns or raises; leaving `with` releases the lock.
Return(p) ==
    /\ Goto(p, "idle")
    /\ lock' = IF lock = p THEN Free ELSE lock
    /\ call' = [call EXCEPT ![p] = NoCall]
    /\ seen' = [seen EXCEPT ![p] = NoState]

\* Faulty variant: callers do not wait for one another.
EnterAnyway(p, c) ==
    /\ pc[p] = "idle"
    /\ lock' = p
    /\ Goto(p, "check")
    /\ call' = [call EXCEPT ![p] = c]
    /\ UNCHANGED <<files, seen, edits, commits>>

\* `with self._revision_lock(...)`
Enter(p, c) ==
    /\ pc[p] = "idle"
    /\ lock = Free
    /\ lock' = p
    /\ Goto(p, "check")
    /\ call' = [call EXCEPT ![p] = c]
    /\ UNCHANGED <<files, seen, edits, commits>>

StartInit(p) == Enter(p, [NoCall EXCEPT !.kind = "init"])
StartCheckpoint(p) ==
    \E r \in Revisions, h \in Handoffs :
        Enter(p, [NoCall EXCEPT !.kind = "checkpoint", !.exp_rev = r, !.exp = h])
StartReconcile(p) ==
    \E r \in Revisions, e, o \in Handoffs :
        Enter(p, [NoCall EXCEPT !.kind = "reconcile", !.exp_rev = r, !.exp = e, !.obs = o])
StartDecision(p) ==
    \E r \in Revisions \ {0}, d \in Decisions :
        Enter(p, [NoCall EXCEPT !.kind = "decision", !.exp_rev = r, !.decision = d])

----------------------------------------------------------------------------
\* The checks, made on what is on disk once the lock is held.

\* Faulty variant: is_initialized is not asked again under the lock.
AlwaysInit(p) == call[p].kind = "init"

init_locked(p) == call[p].kind = "init" /\ state.rev = 0

RevisionExpected(p) == call[p].exp_rev \in {0, state.rev}

checkpoint_locked(p) ==
    /\ call[p].kind = "checkpoint" /\ state.rev # 0
    /\ RevisionExpected(p)
    /\ handoff = call[p].exp

reconcile_locked(p) ==
    /\ call[p].kind = "reconcile" /\ state.rev # 0
    /\ RevisionExpected(p)
    /\ handoff = call[p].obs
    /\ state.handoff \in {Absent, call[p].exp}

record_decision_locked(p) ==
    /\ call[p].kind = "decision" /\ state.rev # 0
    /\ state.rev = call[p].exp_rev
    /\ decisions[call[p].decision] = 0

\* Faulty variant: a decision records the handoff it finds on disk.
RecordedFromDisk(p) == handoff

\* The handoff hash the state file will have; a decision leaves it alone.
handoff_sha256(p) == IF call[p].kind = "decision" THEN state.handoff ELSE handoff

\* A call that passes its checks remembers the state and what it will write.
Check(p) ==
    /\ pc[p] = "check"
    /\ IF /\ init_locked(p) \/ checkpoint_locked(p) \/ reconcile_locked(p) \/ record_decision_locked(p)
          /\ state.rev < MaxRevision
       THEN /\ Goto(p, IF call[p].kind \in {"checkpoint", "decision"} THEN "artifact" ELSE "commit")
            /\ seen' = [seen EXCEPT ![p] =
                  [rev |-> state.rev, handoff |-> handoff_sha256(p)]]
            /\ UNCHANGED <<lock, call>>
       ELSE Return(p)
    /\ UNCHANGED <<files, edits, commits>>

\* Faulty variant: the expected revision is added, not one.
ExpectedAdded(p) == IF call[p].kind = "init" THEN 1 ELSE seen[p].rev + call[p].exp_rev

new_rev(p) == IF call[p].kind = "init" THEN 1 ELSE seen[p].rev + 1

\* Faulty variant: the artifact is left to be written after the state.
ArtifactSkipped(p) ==
    /\ pc[p] = "artifact"
    /\ Goto(p, "commit")
    /\ UNCHANGED <<files, lock, call, seen, edits, commits>>

WriteArtifact(p) ==
    /\ pc[p] = "artifact"
    /\ IF call[p].kind = "checkpoint"
       THEN /\ checkpoints' = checkpoints \cup {[rev |-> new_rev(p), handoff |-> seen[p].handoff]}
            /\ UNCHANGED decisions
       ELSE /\ decisions' = [decisions EXCEPT ![call[p].decision] = new_rev(p)]
            /\ UNCHANGED checkpoints
    /\ Goto(p, "commit")
    /\ UNCHANGED <<state, handoff, lock, call, seen, edits, commits>>

WriteState(p) ==
    /\ pc[p] = "commit"
    /\ state' = [rev |-> new_rev(p), handoff |-> seen[p].handoff]
    /\ commits' = [commits EXCEPT ![new_rev(p)] = @ \cup {<<p, call[p]>>}]
    /\ Return(p)
    /\ UNCHANGED <<handoff, checkpoints, decisions, edits>>

Fail(p) ==
    /\ pc[p] # "idle"
    /\ Return(p)
    /\ UNCHANGED <<files, edits, commits>>

\* HANDOFF.md is written by hand, or removed.
EditHandoff ==
    /\ edits < MaxEdits
    /\ edits' = edits + 1
    /\ handoff' \in Images \ {handoff}
    /\ UNCHANGED <<state, checkpoints, decisions, lock, pc, call, seen, commits>>

Start(p) == StartInit(p) \/ StartCheckpoint(p) \/ StartReconcile(p) \/ StartDecision(p)
Step(p)  == Check(p) \/ WriteArtifact(p) \/ WriteState(p)
Next == (\E p \in Procs : Start(p) \/ Step(p) \/ Fail(p)) \/ EditHandoff

Spec == Init /\ [][Next]_vars

----------------------------------------------------------------------------
\* Types of the files and of the processes' local state.
TypeOK ==
    /\ state \in StateFile /\ handoff \in Images
    /\ checkpoints \subseteq StateFile
    /\ decisions \in [Decisions -> Revisions]
    /\ lock \in Procs \cup {Free} /\ pc \in [Procs -> Labels]
    /\ call \in [Procs -> Call] /\ seen \in [Procs -> StateFile]
    /\ edits \in 0..MaxEdits

(***************************************************************************)
(* "two processes racing from the same revision serialize: exactly one       *)
(* mutation succeeds" (state.py 94-97): no revision is reached twice.        *)
(***************************************************************************)
OneWinnerPerRevision == \A r \in Revisions : Cardinality(commits[r]) <= 1

(***************************************************************************)
(* Every revision up to the current one has its artifact on disk, unless it  *)
(* was an init or a reconciliation: the artifact is written before the       *)
(* state, so a crash never leaves a revision without its checkpoint or       *)
(* decision file (state.py 222-243, 358-376).                                *)
(***************************************************************************)
RevisionsAccounted ==
    \A r \in 1..state.rev : \E e \in commits[r] :
        /\ e[2].kind = "checkpoint" => \E k \in checkpoints : k.rev = r
        /\ e[2].kind = "decision"   => decisions[e[2].decision] = r

\* A project is initialised once and its revision advances by one at a time,
\* whoever races (state.py 127-145).
RevisionAdvances == [][state'.rev \in {state.rev, state.rev + 1}]_vars

(***************************************************************************)
(* After init the recorded handoff hash only becomes one that a caller has   *)
(* named: a checkpoint as the handoff it expects, a reconciliation as the    *)
(* one it observed, and then in place of the one it expected to be recorded. *)
(* An edit of HANDOFF.md that nobody named is never adopted on the way, by a *)
(* decision or by a call that waited for the lock (state.py 211-219,         *)
(* 289-304, 355-376).                                                        *)
(***************************************************************************)
RecordNamed ==
    [][state.rev # 0 /\ state'.handoff # state.handoff =>
         \E e \in commits'[state'.rev] : LET c == e[2] IN
            \/ c.kind = "checkpoint" /\ c.exp = state'.handoff
            \/ /\ c.kind = "reconcile" /\ c.obs = state'.handoff
               /\ state.handoff \in {Absent, c.exp}]_vars

=============================================================================
