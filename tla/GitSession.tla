----------------------------- MODULE GitSession -----------------------------
(***************************************************************************)
(* git_stage, git_commit and git_branch of GovernedExecutor (execution/      *)
(* executor.py) on one repository shared by several executors.  Each holds   *)
(* the repository's git lock from its checks to the git command, and keeps   *)
(* the paths it has staged (_staged_paths) in memory only.                   *)
(*                                                                           *)
(* A tree is a function from files to contents, Absent for no such file.     *)
(* What the git commands do is external, modelled from how they are used.    *)
(***************************************************************************)
EXTENDS Integers, FiniteSets

CONSTANTS
    Procs,        \* executors, one session each
    Free,         \* the git lock is not held
    Files,        \* exact file paths of the repository
    Protected,    \* the files assert_permitted_path denies
    Contents,
    Absent,       \* no file, no branch, or no value
    Branches,     \* branch names
    Initial,      \* the branch checked out at first
    MaxEdits,     \* bound: changes of the working tree
    MaxOutside,   \* bound: `git add` by programs that take no lock
    MaxCommits    \* bound: governed commits

ASSUME GitConstants ==
    /\ Free \notin Procs /\ Absent \notin Contents \cup Branches
    /\ Files # {} /\ Protected \subseteq Files /\ Initial \in Branches
    /\ MaxEdits \in Nat /\ MaxOutside \in Nat /\ MaxCommits \in Nat

VARIABLES
    worktree, index,
    refs,          \* tree at the tip of every branch, NoTree if there is none
    head,          \* the branch checked out
    staged_paths,  \* the files every session owns
    lock, pc, args,
    edits, outside, commits

repo == <<worktree, index, refs, head>>
vars == <<worktree, index, refs, head, staged_paths, lock, pc, args, edits, outside, commits>>
bounds == <<edits, outside, commits>>

Images == Contents \cup {Absent}
Tree   == [Files -> Images]
NoTree == [f \in {} |-> Absent]
Labels == {"idle", "stage", "add", "check", "commit", "branch", "switch"}
Args   == [paths: SUBSET Files, branch: Branches \cup {Absent}]
NoArgs == [paths |-> {}, branch |-> Absent]

\* Every repository is checked out and clean; another branch may already be there.
Init ==
    /\ \E tree \in Tree :
          /\ refs \in [Branches -> Tree \cup {NoTree}] /\ refs[Initial] = tree
          /\ worktree = tree /\ index = tree
    /\ head = Initial
    /\ staged_paths = [p \in Procs |-> {}]
    /\ lock = Free
    /\ pc = [p \in Procs |-> "idle"]
    /\ args = [p \in Procs |-> NoArgs]
    /\ edits = 0 /\ outside = 0 /\ commits = 0

----------------------------------------------------------------------------
staged_files   == {f \in Files : index[f] # refs[head][f]}
dirty_worktree == staged_files \cup {f \in Files : worktree[f] # index[f]}
Permitted(paths) == paths \cap Protected = {}

Goto(p, label) == pc' = [pc EXCEPT ![p] = label]

\* The call returns or raises, leaving `with self._git_lock(...)`.
Return(p) ==
    /\ Goto(p, "idle")
    /\ args' = [args EXCEPT ![p] = NoArgs]
    /\ lock' = IF lock = p THEN Free ELSE lock

Enter(p, label, a) ==
    /\ pc[p] = "idle"
    /\ lock = Free
    /\ lock' = p
    /\ Goto(p, label)
    /\ args' = [args EXCEPT ![p] = a]
    /\ UNCHANGED <<repo, staged_paths, bounds>>

\* A check is passed on to the git command, or raises.
Proceed(p, ok, label) ==
    /\ IF ok THEN Goto(p, label) /\ UNCHANGED <<args, lock>> ELSE Return(p)
    /\ UNCHANGED <<repo, staged_paths, bounds>>

----------------------------------------------------------------------------
\* git_stage

\* Faulty variant: an empty list of paths is let through.
StageNothing(p) ==
    \E paths \in SUBSET Files : Enter(p, "stage", [NoArgs EXCEPT !.paths = paths])

StartStage(p) ==
    \E paths \in (SUBSET Files) \ {{}} : Enter(p, "stage", [NoArgs EXCEPT !.paths = paths])

\* Boundary policy, then no unrelated path may be staged already.
CheckStage(p) ==
    /\ pc[p] = "stage"
    /\ Proceed(p, /\ Permitted(args[p].paths)
                  /\ staged_files \ (args[p].paths \cup staged_paths[p]) = {}, "add")

\* git add: fails as a whole on a path that is neither in the tree nor the index.
Add(p) ==
    LET paths == args[p].paths
    IN  /\ pc[p] = "add"
        /\ IF \E f \in paths : worktree[f] = Absent /\ index[f] = Absent
           THEN UNCHANGED <<index, staged_paths>>
           ELSE /\ index' = [f \in Files |-> IF f \in paths THEN worktree[f] ELSE index[f]]
                /\ staged_paths' = [staged_paths EXCEPT ![p] = @ \cup paths]
        /\ Return(p)
        /\ UNCHANGED <<worktree, refs, head, bounds>>

----------------------------------------------------------------------------
\* git_commit

StartCommit(p) == commits < MaxCommits /\ Enter(p, "check", NoArgs)

\* Faulty variant: one owned path is enough.
CommitPartlyOwned(p) ==
    /\ pc[p] = "check"
    /\ Proceed(p, staged_files \cap staged_paths[p] # {} /\ Permitted(staged_files), "commit")

CheckCommit(p) ==
    /\ pc[p] = "check"
    /\ Proceed(p, /\ staged_files # {}
                  /\ staged_files \subseteq staged_paths[p]
                  /\ Permitted(staged_files), "commit")

\* git commit records the index as it now is.  Ownership ends with it.
Commit(p) ==
    /\ pc[p] = "commit"
    /\ IF staged_files # {}
       THEN /\ refs' = [refs EXCEPT ![head] = index]
            /\ staged_paths' = [staged_paths EXCEPT ![p] = {}]
            /\ commits' = commits + 1
       ELSE UNCHANGED <<refs, staged_paths, commits>>
    /\ Return(p)
    /\ UNCHANGED <<worktree, index, head, edits, outside>>

----------------------------------------------------------------------------
\* git_branch

StartBranch(p) == \E b \in Branches : Enter(p, "branch", [NoArgs EXCEPT !.branch = b])

Differing(b) == {f \in Files : refs[head][f] # refs[b][f]}

\* Faulty variant: the files of the branch are not looked at.
SwitchUnchecked(b) == TRUE

assert_switch_targets_safe(b) == refs[b] # NoTree => Permitted(Differing(b))

CheckBranch(p) ==
    /\ pc[p] = "branch"
    /\ Proceed(p, dirty_worktree = {} /\ assert_switch_targets_safe(args[p].branch), "switch")

\* git switch refuses to overwrite a change; other changes are carried along.
Switch(p) ==
    LET b == args[p].branch
        moved == IF refs[b] = NoTree THEN {} ELSE Differing(b)
        Moved(tree) == [f \in Files |-> IF f \in moved THEN refs[b][f] ELSE tree[f]]
    IN  /\ pc[p] = "switch"
        /\ IF moved \cap dirty_worktree = {}
           THEN /\ head' = b
                /\ refs' = IF refs[b] = NoTree THEN [refs EXCEPT ![b] = refs[head]] ELSE refs
                /\ worktree' = Moved(worktree)
                /\ index' = Moved(index)
           ELSE UNCHANGED repo
        /\ Return(p)
        /\ UNCHANGED <<staged_paths, bounds>>

----------------------------------------------------------------------------
\* An unsafe configuration or attribute, or git itself, makes the call raise.
Raise(p) ==
    /\ pc[p] # "idle"
    /\ Return(p)
    /\ UNCHANGED <<repo, staged_paths, bounds>>

\* The process ends and a new session takes its place: nothing is owned.
Restart(p) ==
    /\ staged_paths[p] # {}
    /\ staged_paths' = [staged_paths EXCEPT ![p] = {}]
    /\ Return(p)
    /\ UNCHANGED <<repo, bounds>>

\* A change of the working tree, by fs_write or an editor.
Edit ==
    /\ edits < MaxEdits
    /\ edits' = edits + 1
    /\ \E f \in Files, image \in Images :
          /\ image # worktree[f]
          /\ worktree' = [worktree EXCEPT ![f] = image]
    /\ UNCHANGED <<index, refs, head, staged_paths, lock, pc, args, outside, commits>>

\* Somebody runs `git add` by hand.
OutsideAdd ==
    /\ outside < MaxOutside
    /\ outside' = outside + 1
    /\ \E f \in Files :
          /\ worktree[f] # index[f]
          /\ index' = [index EXCEPT ![f] = worktree[f]]
    /\ UNCHANGED <<worktree, refs, head, staged_paths, lock, pc, args, edits, commits>>

Next ==
    \/ \E p \in Procs :
          \/ StartStage(p) \/ CheckStage(p) \/ Add(p)
          \/ StartCommit(p) \/ CheckCommit(p) \/ Commit(p)
          \/ StartBranch(p) \/ CheckBranch(p) \/ Switch(p)
          \/ Raise(p) \/ Restart(p)
    \/ Edit \/ OutsideAdd

Spec == Init /\ [][Next]_vars

----------------------------------------------------------------------------
\* Properties.

\* Every variable stays within its type, the branch checked out exists, and only
\* a staging call under way names paths (never none: executor.py 867-868).
TypeOK ==
    /\ worktree \in Tree /\ index \in Tree
    /\ refs \in [Branches -> Tree \cup {NoTree}] /\ head \in Branches /\ refs[head] # NoTree
    /\ staged_paths \in [Procs -> SUBSET Files]
    /\ lock \in Procs \cup {Free} /\ pc \in [Procs -> Labels] /\ args \in [Procs -> Args]
    /\ \A p \in Procs : pc[p] \in {"stage", "add"} <=> args[p].paths # {}
    /\ edits \in 0..MaxEdits /\ outside \in 0..MaxOutside /\ commits \in 0..MaxCommits

(***************************************************************************)
(* The ownership check still holds when git commit runs (executor.py 943-963 *)
(* under the lock of 935): no other session has staged, committed or         *)
(* switched in between, so only owned and permitted paths are committed.     *)
(***************************************************************************)
CommitsOwned ==
    outside = 0 =>
        \A p \in Procs :
            pc[p] = "commit" =>
                staged_files # {} /\ staged_files \subseteq staged_paths[p] /\ Permitted(staged_files)

(***************************************************************************)
(* Governed operations leave protected files alone: no commit changes one,   *)
(* and no branch switch installs one (executor.py 959-960, 1037-1045).       *)
(***************************************************************************)
ProtectedUntouched ==
    [][outside' = 0 =>
          \A f \in Protected :
             /\ worktree'[f] # worktree[f] => edits' # edits
             /\ \A b \in Branches : refs[b] # NoTree => refs'[b][f] = refs[b][f]]_vars

=============================================================================
