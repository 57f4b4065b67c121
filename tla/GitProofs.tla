----------------------------- MODULE GitProofs -----------------------------
(***************************************************************************)
(* Proofs about GitSession: what the ownership and boundary checks said      *)
(* still holds when the git command runs, for any number of sessions.        *)
(*                                                                           *)
(* The argument is the git lock.  A call that has left "idle" holds it, so   *)
(* no other session's git command runs between the check and the command:    *)
(* the index, the tips and the owned paths are as the check saw them.  Only  *)
(* a program that takes no lock (OutsideAdd) can change the index meanwhile. *)
(***************************************************************************)
EXTENDS GitSession, TLAPS

\* Only the holder of the lock is inside a call.
LockHeld == \A p \in Procs : pc[p] # "idle" => lock = p

\* A branch call names its branch.
BranchNamed == \A p \in Procs : pc[p] \in {"branch", "switch"} => args[p].branch \in Branches

\* What CheckBranch looked at still holds when git switch runs.
SwitchesSafe == \A p \in Procs : pc[p] = "switch" => assert_switch_targets_safe(args[p].branch)

\* A commit under way is counted in advance.
Counted == \A p \in Procs : pc[p] \in {"check", "commit"} => commits < MaxCommits

GitInv == TypeOK /\ LockHeld /\ BranchNamed /\ Counted /\ CommitsOwned /\ SwitchesSafe


\* The part of the invariant that is about calls, and the part about the repository.
CallsOK ==
    /\ lock \in Procs \cup {Free} /\ pc \in [Procs -> Labels] /\ args \in [Procs -> Args]
    /\ \A p \in Procs : pc[p] \in {"stage", "add"} <=> args[p].paths # {}
    /\ LockHeld
    /\ BranchNamed

RepoOK ==
    /\ worktree \in Tree /\ index \in Tree
    /\ refs \in [Branches -> Tree \cup {NoTree}] /\ head \in Branches /\ refs[head] # NoTree
    /\ staged_paths \in [Procs -> SUBSET Files]
    /\ edits \in 0..MaxEdits /\ outside \in 0..MaxOutside /\ commits \in 0..MaxCommits

\* The invariant is about calls, about the repository, and about both.
LEMMA Parts == GitInv <=> CallsOK /\ RepoOK /\ Counted /\ CommitsOwned /\ SwitchesSafe
BY DEF GitInv, TypeOK, CallsOK, RepoOK

----------------------------------------------------------------------------
(* Calls: who is inside one, and what it was called with.                    *)

\* Arguments that a label may come with.
Fits(label, a) ==
    /\ label \in Labels /\ a \in Args
    /\ label \in {"stage", "add"} <=> a.paths # {}
    /\ label \in {"branch", "switch"} => a.branch \in Branches

\* A call that ends leaves the lock, and keeps no argument.
LEMMA Returning ==
    ASSUME CallsOK, NEW p \in Procs, Return(p)
    PROVE  CallsOK'
<1>1. NoArgs \in Args /\ NoArgs.paths = {} /\ "idle" \in Labels
  BY DEF NoArgs, Args, Labels
<1>2. /\ pc' \in [Procs -> Labels] /\ args' \in [Procs -> Args]
      /\ pc'[p] = "idle" /\ args'[p] = NoArgs
      /\ \A q \in Procs \ {p} : pc'[q] = pc[q] /\ args'[q] = args[q]
  BY <1>1 DEF Return, Goto, CallsOK
<1>3. lock' \in Procs \cup {Free}
  BY DEF Return, CallsOK
<1>4. \A q \in Procs : pc'[q] \in {"stage", "add"} <=> args'[q].paths # {}
  BY <1>1, <1>2 DEF CallsOK
<1>5. LockHeld'
  BY <1>2 DEF CallsOK, LockHeld, Return
<1>6. BranchNamed'
  BY <1>2 DEF CallsOK, BranchNamed
<1>7. QED
  BY <1>2, <1>3, <1>4, <1>5, <1>6 DEF CallsOK

\* A call that starts finds nobody else inside one.
LEMMA Entering ==
    ASSUME CallsOK, NEW p \in Procs, NEW label, NEW a, Fits(label, a), Enter(p, label, a)
    PROVE  CallsOK'
<1>1. /\ pc' \in [Procs -> Labels] /\ args' \in [Procs -> Args]
      /\ pc'[p] = label /\ args'[p] = a
      /\ \A q \in Procs \ {p} : pc'[q] = pc[q] /\ args'[q] = args[q]
  BY DEF Enter, Goto, CallsOK, Fits
<1>2. \A q \in Procs \ {p} : pc'[q] = "idle"
  BY <1>1, GitConstants DEF Enter, CallsOK, LockHeld
<1>3. lock' \in Procs \cup {Free}
  BY DEF Enter
<1>4. \A q \in Procs : pc'[q] \in {"stage", "add"} <=> args'[q].paths # {}
  BY <1>1 DEF CallsOK, Fits
<1>5. LockHeld'
  BY <1>2 DEF LockHeld, Enter
<1>6. BranchNamed'
  BY <1>1 DEF CallsOK, BranchNamed, Fits
<1>7. QED
  BY <1>1, <1>3, <1>4, <1>5, <1>6 DEF CallsOK

\* A check passes its arguments on, or the call ends.
LEMMA Proceeding ==
    ASSUME CallsOK, NEW p \in Procs, NEW label, Fits(label, args[p]), NEW ok \in BOOLEAN,
           pc[p] # "idle", Proceed(p, ok, label)
    PROVE  CallsOK'
<1>1. CASE ~ok
  BY <1>1, Returning DEF Proceed
<1>2. CASE ok
  <2>1. /\ pc' \in [Procs -> Labels] /\ pc'[p] = label /\ args' = args /\ lock' = lock
        /\ \A q \in Procs \ {p} : pc'[q] = pc[q]
    BY <1>2 DEF Proceed, Goto, CallsOK, Fits
  <2>2. \A q \in Procs : pc'[q] \in {"stage", "add"} <=> args'[q].paths # {}
    BY <2>1 DEF CallsOK, Fits
  <2>3. LockHeld'
    BY <2>1 DEF CallsOK, LockHeld
  <2>4. BranchNamed'
    BY <2>1 DEF CallsOK, BranchNamed, Fits
  <2>5. QED
    BY <2>1, <2>2, <2>3, <2>4 DEF CallsOK
<1>3. QED
  BY <1>1, <1>2

\* A step of one session, inside its call, or entering or leaving it.
Steps(p) ==
    \/ StartStage(p) \/ CheckStage(p) \/ Add(p)
    \/ StartCommit(p) \/ CheckCommit(p) \/ Commit(p)
    \/ StartBranch(p) \/ CheckBranch(p) \/ Switch(p)
    \/ Raise(p) \/ Restart(p)

\* A step that touches no call.
Outsiders == Edit \/ OutsideAdd \/ UNCHANGED vars

\* A step is one of a session, or of somebody outside the calls.
LEMMA Cases == [Next]_vars <=> Outsiders \/ \E p \in Procs : Steps(p)
BY DEF Next, Steps, Outsiders

\* Every step of a session keeps the calls in order.
LEMMA CallsStep ==
    ASSUME CallsOK, NEW p \in Procs, Steps(p)
    PROVE  CallsOK'
<1>1. args[p] \in Args
  BY DEF CallsOK
<1>2. CASE StartStage(p)
  <2>1. PICK paths \in (SUBSET Files) \ {{}} : Enter(p, "stage", [NoArgs EXCEPT !.paths = paths])
    BY <1>2 DEF StartStage
  <2>2. Fits("stage", [NoArgs EXCEPT !.paths = paths])
    BY DEF Fits, NoArgs, Args, Labels
  <2>3. QED
    BY <2>1, <2>2, Entering
<1>3. CASE StartCommit(p)
  <2>1. Fits("check", NoArgs)
    BY DEF Fits, NoArgs, Args, Labels
  <2>2. QED
    BY <1>3, <2>1, Entering DEF StartCommit
<1>4. CASE StartBranch(p)
  <2>1. PICK b \in Branches : Enter(p, "branch", [NoArgs EXCEPT !.branch = b])
    BY <1>4 DEF StartBranch
  <2>2. Fits("branch", [NoArgs EXCEPT !.branch = b])
    BY DEF Fits, NoArgs, Args, Labels
  <2>3. QED
    BY <2>1, <2>2, Entering
<1>5. CASE CheckStage(p)
  <2>1. Fits("add", args[p])
    BY <1>1, <1>5 DEF Fits, CheckStage, CallsOK, Labels
  <2>2. PICK ok \in BOOLEAN : Proceed(p, ok, "add")
    BY <1>5 DEF CheckStage
  <2>3. QED
    BY <1>5, <2>1, <2>2, Proceeding DEF CheckStage
<1>6. CASE CheckCommit(p)
  <2>1. Fits("commit", args[p])
    BY <1>1, <1>6 DEF Fits, CheckCommit, CallsOK, Labels
  <2>2. PICK ok \in BOOLEAN : Proceed(p, ok, "commit")
    BY <1>6 DEF CheckCommit
  <2>3. QED
    BY <1>6, <2>1, <2>2, Proceeding DEF CheckCommit
<1>7. CASE CheckBranch(p)
  <2>1. Fits("switch", args[p])
    BY <1>1, <1>7 DEF Fits, CheckBranch, CallsOK, Labels, BranchNamed
  <2>2. PICK ok \in BOOLEAN : Proceed(p, ok, "switch")
    BY <1>7 DEF CheckBranch, assert_switch_targets_safe
  <2>3. QED
    BY <1>7, <2>1, <2>2, Proceeding DEF CheckBranch
<1>8. CASE Add(p) \/ Commit(p) \/ Switch(p) \/ Raise(p) \/ Restart(p)
  BY <1>8, Returning DEF Add, Commit, Switch, Raise, Restart
<1>9. QED
  BY <1>2, <1>3, <1>4, <1>5, <1>6, <1>7, <1>8 DEF Steps

----------------------------------------------------------------------------
(* What a step may do to the repository.                                     *)

\* Every step but these four leaves the repository and what is owned alone, or
\* forgets what a session owns.
LEMMA Untouched ==
    ASSUME NEW p \in Procs, Steps(p)
    PROVE  \/ Add(p) \/ Commit(p) \/ Switch(p)
           \/ Restart(p)
           \/ UNCHANGED <<repo, staged_paths, bounds>>
BY DEF Steps, StartStage, CheckStage, StartCommit, CheckCommit, StartBranch, CheckBranch, Raise,
       Enter, Proceed

\* git add, commit and switch keep the repository well formed: every branch has a tip.
LEMMA RepoStep ==
    ASSUME RepoOK, CallsOK, Counted, NEW p \in Procs, Steps(p)
    PROVE  RepoOK'
<1>1. CASE UNCHANGED <<repo, staged_paths, bounds>>
  BY <1>1 DEF RepoOK, repo, bounds
<1>2. CASE Restart(p)
  BY <1>2 DEF RepoOK, Restart, repo, bounds
<1>3. CASE Add(p)
  <2>1. args[p].paths \in SUBSET Files
    BY DEF CallsOK, Args
  <2>2. index' \in Tree
    BY <1>3 DEF Add, RepoOK, Tree
  <2>3. staged_paths' \in [Procs -> SUBSET Files]
    BY <1>3, <2>1 DEF Add, RepoOK
  <2>4. QED
    BY <1>3, <2>2, <2>3 DEF Add, RepoOK, bounds
<1>4. CASE Commit(p)
  <2>1. CASE staged_files = {}
    BY <1>4, <2>1 DEF Commit, RepoOK
  <2>2. CASE staged_files # {}
    <3>1. index # NoTree
      <4>1. DOMAIN index = Files /\ Files # {}
        BY GitConstants DEF RepoOK, Tree
      <4>2. DOMAIN NoTree = {}
        BY DEF NoTree
      <4>3. QED
        BY <4>1, <4>2
    <3>2. refs' \in [Branches -> Tree \cup {NoTree}] /\ refs'[head'] # NoTree
      BY <1>4, <2>2, <3>1 DEF Commit, RepoOK
    <3>3. staged_paths' \in [Procs -> SUBSET Files]
      BY <1>4, <2>2 DEF Commit, RepoOK
    <3>4. commits' \in 0..MaxCommits
      <4>1. commits < MaxCommits /\ commits \in Nat /\ MaxCommits \in Nat
        BY <1>4, GitConstants DEF Commit, Counted, RepoOK
      <4>2. commits' = commits + 1
        BY <1>4, <2>2 DEF Commit
      <4>3. QED
        BY <4>1, <4>2
    <3>5. QED
      BY <1>4, <3>2, <3>3, <3>4 DEF Commit, RepoOK
  <2>3. QED
    BY <2>1, <2>2
<1>5. CASE Switch(p)
  <2> DEFINE b == args[p].branch
             moved == IF refs[b] = NoTree THEN {} ELSE Differing(b)
             Moved(tree) == [f \in Files |-> IF f \in moved THEN refs[b][f] ELSE tree[f]]
  <2>1. b \in Branches
    BY <1>5 DEF Switch, CallsOK, BranchNamed
  <2>2. CASE moved \cap dirty_worktree # {}
    BY <1>5, <2>2 DEF Switch, RepoOK, repo, bounds
  <2>3. CASE moved \cap dirty_worktree = {}
    <3>1. /\ head' = b
          /\ refs' = IF refs[b] = NoTree THEN [refs EXCEPT ![b] = refs[head]] ELSE refs
          /\ worktree' = Moved(worktree) /\ index' = Moved(index)
          /\ UNCHANGED <<staged_paths, edits, outside, commits>>
      BY <1>5, <2>3 DEF Switch, bounds
    <3>2. refs' \in [Branches -> Tree \cup {NoTree}] /\ refs'[b] # NoTree
      BY <2>1, <3>1 DEF RepoOK
    <3>3. \A tree \in Tree : Moved(tree) \in Tree
      <4>1. refs[b] # NoTree => refs[b] \in Tree
        BY <2>1 DEF RepoOK
      <4>2. QED
        BY <4>1 DEF Tree
    <3>4. worktree' \in Tree /\ index' \in Tree
      BY <3>1, <3>3 DEF RepoOK
    <3>5. QED
      BY <2>1, <3>1, <3>2, <3>4 DEF RepoOK
  <2>4. QED
    BY <2>2, <2>3
<1>6. QED
  BY <1>1, <1>2, <1>3, <1>4, <1>5, Untouched


\* So does an edit, or a git add by hand, and neither moves a branch or a call.
LEMMA OutsidersStep ==
    ASSUME RepoOK, CallsOK, Outsiders
    PROVE  /\ RepoOK' /\ CallsOK'
           /\ UNCHANGED <<refs, head, staged_paths, lock, pc, args, commits>>
<1>1. UNCHANGED <<refs, head, staged_paths, lock, pc, args, commits>>
  BY DEF Outsiders, Edit, OutsideAdd, vars
<1>2. CallsOK'
  BY <1>1 DEF CallsOK, LockHeld, BranchNamed
<1>3. worktree' \in Tree /\ index' \in Tree
  BY DEF Outsiders, Edit, OutsideAdd, vars, RepoOK, Tree
<1>4. edits' \in 0..MaxEdits /\ outside' \in 0..MaxOutside
  BY GitConstants DEF Outsiders, Edit, OutsideAdd, vars, RepoOK
<1>5. QED
  BY <1>1, <1>2, <1>3, <1>4 DEF RepoOK

----------------------------------------------------------------------------
(* What was checked still holds.                                             *)

\* While a session is inside its call, no other one touches what it looks at.
LEMMA Alone ==
    ASSUME CallsOK, RepoOK, NEW p \in Procs, Steps(p), NEW q \in Procs \ {p}, pc'[q] # "idle"
    PROVE  /\ pc'[q] = pc[q] /\ args'[q] = args[q] /\ staged_paths'[q] = staged_paths[q]
           /\ UNCHANGED <<repo, bounds>>
<1>1. pc'[q] = pc[q] /\ args'[q] = args[q]
  BY DEF Steps, StartStage, CheckStage, Add, StartCommit, CheckCommit, Commit, StartBranch,
         CheckBranch, Switch, Raise, Restart, Enter, Proceed, Return, Goto, CallsOK
<1>2. lock = q
  BY <1>1 DEF CallsOK, LockHeld
<1>3. pc[p] = "idle"
  BY <1>2 DEF CallsOK, LockHeld
<1>4. ~(Add(p) \/ Commit(p) \/ Switch(p))
  BY <1>3 DEF Add, Commit, Switch
<1>5. Restart(p) \/ UNCHANGED <<repo, staged_paths, bounds>>
  BY <1>4, Untouched
<1>6. staged_paths'[q] = staged_paths[q] /\ UNCHANGED <<repo, bounds>>
  BY <1>5 DEF Restart, RepoOK
<1>7. QED
  BY <1>1, <1>6

\* A step of the session itself that brings it to one of the last three labels.
LEMMA Arriving ==
    ASSUME CallsOK, RepoOK, NEW p \in Procs, Steps(p)
    PROVE  /\ pc'[p] = "check" => commits < MaxCommits /\ UNCHANGED <<repo, staged_paths, bounds>>
           /\ pc'[p] = "commit" =>
                 /\ pc[p] = "check"
                 /\ staged_files # {} /\ staged_files \subseteq staged_paths[p]
                 /\ Permitted(staged_files)
                 /\ UNCHANGED <<repo, staged_paths, bounds>>
           /\ pc'[p] = "switch" =>
                 /\ assert_switch_targets_safe(args[p].branch)
                 /\ UNCHANGED <<repo, staged_paths, bounds, args>>
<1>1. CASE StartStage(p) \/ StartBranch(p)
  BY <1>1 DEF StartStage, StartBranch, Enter, Goto, CallsOK
<1>2. CASE StartCommit(p)
  BY <1>2 DEF StartCommit, Enter, Goto, CallsOK
<1>3. CASE CheckStage(p)
  BY <1>3 DEF CheckStage, Proceed, Return, Goto, CallsOK
<1>4. CASE CheckCommit(p)
  BY <1>4 DEF CheckCommit, Proceed, Return, Goto, CallsOK
<1>5. CASE CheckBranch(p)
  BY <1>5 DEF CheckBranch, Proceed, Return, Goto, CallsOK
<1>6. CASE Add(p) \/ Commit(p) \/ Switch(p) \/ Raise(p) \/ Restart(p)
  BY <1>6 DEF Add, Commit, Switch, Raise, Restart, Return, Goto, CallsOK
<1>7. QED
  BY <1>1, <1>2, <1>3, <1>4, <1>5, <1>6 DEF Steps

\* The commits counted are within the bound.
LEMMA CountedStep ==
    ASSUME CallsOK, RepoOK, Counted, NEW p \in Procs, Steps(p)
    PROVE  Counted'
<1> SUFFICES ASSUME NEW q \in Procs, pc'[q] \in {"check", "commit"}
             PROVE  commits' < MaxCommits
  BY DEF Counted
<1>1. CASE q = p
  BY <1>1, Arriving DEF Counted, bounds
<1>2. CASE q # p
  BY <1>2, Alone DEF Counted, bounds
<1>3. QED
  BY <1>1, <1>2

\* The files staged, and what switching to a branch changes, are functions of the repository.
LEMMA SameRepo ==
    ASSUME UNCHANGED <<index, refs, head>>
    PROVE  /\ staged_files' = staged_files
           /\ \A b : assert_switch_targets_safe(b)' <=> assert_switch_targets_safe(b)
BY DEF staged_files, assert_switch_targets_safe, Differing, Permitted

\* A step of any session leaves what a commit is about to record owned and permitted.
LEMMA CommitsOwnedStep ==
    ASSUME CallsOK, RepoOK, CommitsOwned, NEW p \in Procs, Steps(p)
    PROVE  CommitsOwned'
<1> SUFFICES ASSUME outside' = 0, NEW q \in Procs, pc'[q] = "commit"
             PROVE  /\ staged_files' # {} /\ staged_files' \subseteq staged_paths'[q]
                    /\ Permitted(staged_files')
  BY DEF CommitsOwned, Permitted
<1>1. CASE q = p
  BY <1>1, Arriving, SameRepo DEF repo
<1>2. CASE q # p
  <2>1. pc[q] = "commit" /\ outside = 0 /\ staged_paths'[q] = staged_paths[q] /\ UNCHANGED repo
    BY <1>2, Alone DEF bounds
  <2>2. QED
    BY <2>1, SameRepo DEF CommitsOwned, repo
<1>3. QED
  BY <1>1, <1>2

\* A step of any session leaves what a switch is about to install permitted.
LEMMA SwitchesSafeStep ==
    ASSUME CallsOK, RepoOK, SwitchesSafe, NEW p \in Procs, Steps(p)
    PROVE  SwitchesSafe'
<1> SUFFICES ASSUME NEW q \in Procs, pc'[q] = "switch"
             PROVE  assert_switch_targets_safe(args[q].branch)'
  BY DEF SwitchesSafe
<1>1. /\ assert_switch_targets_safe(args[q].branch)
      /\ args'[q] = args[q] /\ UNCHANGED <<index, refs, head>>
  <2>1. CASE q = p
    BY <2>1, Arriving DEF repo
  <2>2. CASE q # p
    BY <2>2, Alone DEF repo, SwitchesSafe
  <2>3. QED
    BY <2>1, <2>2
<1>2. QED
  BY <1>1 DEF assert_switch_targets_safe, Differing, Permitted

----------------------------------------------------------------------------
(* The theorems.                                                             *)

\* The invariant holds at first.
LEMMA GitStart == Init => GitInv
<1> SUFFICES ASSUME Init PROVE GitInv
  OBVIOUS
<1>1. NoArgs \in Args /\ NoArgs.paths = {} /\ "idle" \in Labels
  BY DEF NoArgs, Args, Labels
<1>2. CallsOK
  BY <1>1 DEF Init, CallsOK, LockHeld, BranchNamed
<1>3. RepoOK
  <2>1. PICK tree \in Tree :
           /\ refs \in [Branches -> Tree \cup {NoTree}] /\ refs[Initial] = tree
           /\ worktree = tree /\ index = tree
    BY DEF Init
  <2>2. tree # NoTree
    <3>1. DOMAIN tree = Files /\ Files # {}
      BY GitConstants DEF Tree
    <3>2. DOMAIN NoTree = {}
      BY DEF NoTree
    <3>3. QED
      BY <3>1, <3>2
  <2>3. head = Initial /\ staged_paths \in [Procs -> SUBSET Files]
    BY DEF Init
  <2>4. edits \in 0..MaxEdits /\ outside \in 0..MaxOutside /\ commits \in 0..MaxCommits
    BY GitConstants DEF Init
  <2>5. QED
    BY <2>1, <2>2, <2>3, <2>4, GitConstants DEF RepoOK
<1>4. Counted /\ CommitsOwned /\ SwitchesSafe
  BY DEF Init, Counted, CommitsOwned, SwitchesSafe
<1>5. QED
  BY <1>2, <1>3, <1>4, Parts

\* The invariant is inductive.
LEMMA GitStep == GitInv /\ [Next]_vars => GitInv'
<1> SUFFICES ASSUME GitInv, [Next]_vars PROVE GitInv'
  OBVIOUS
<1>0. CallsOK /\ RepoOK /\ Counted /\ CommitsOwned /\ SwitchesSafe
  BY Parts
<1>1. CASE Outsiders
  <2>1. RepoOK' /\ CallsOK' /\ UNCHANGED <<refs, head, staged_paths, lock, pc, args, commits>>
    BY <1>0, <1>1, OutsidersStep
  <2>2. Counted'
    BY <1>0, <2>1 DEF Counted
  <2>3. SwitchesSafe'
    BY <1>0, <2>1 DEF SwitchesSafe, assert_switch_targets_safe, Differing, Permitted
  <2>4. CommitsOwned'
    <3>1. CASE outside' # 0
      BY <3>1 DEF CommitsOwned
    <3>2. CASE outside' = 0
      <4>1. outside = 0 /\ index' = index
        BY <1>0, <1>1, <3>2 DEF Outsiders, Edit, OutsideAdd, vars, RepoOK
      <4>2. staged_files' = staged_files
        BY <2>1, <4>1, SameRepo
      <4>3. QED
        BY <1>0, <2>1, <4>1, <4>2 DEF CommitsOwned, Permitted
    <3>3. QED
      BY <3>1, <3>2
  <2>5. QED
    BY <2>1, <2>2, <2>3, <2>4, Parts DEF GitInv, TypeOK, CallsOK, RepoOK
<1>2. CASE \E p \in Procs : Steps(p)
  <2>1. PICK p \in Procs : Steps(p)
    BY <1>2
  <2>2. CallsOK' /\ RepoOK' /\ Counted' /\ CommitsOwned' /\ SwitchesSafe'
    BY <1>0, <2>1, CallsStep, RepoStep, CountedStep, CommitsOwnedStep, SwitchesSafeStep
  <2>3. QED
    BY <2>2 DEF GitInv, TypeOK, CallsOK, RepoOK
<1>3. QED
  BY <1>1, <1>2, Cases

\* So it holds in every reachable state.
LEMMA AlwaysGit == Spec => []GitInv
BY GitStart, GitStep, PTL DEF Spec

(***************************************************************************)
(* Type correctness for any number of sessions: git_stage is never under way *)
(* without a path (executor.py 867-868), and the branch checked out always   *)
(* has a tip, whatever is committed or switched to.                          *)
(***************************************************************************)
THEOREM GitTypes == Spec => []TypeOK
<1>1. GitInv => TypeOK
  BY DEF GitInv
<1>2. QED
  BY <1>1, AlwaysGit, PTL

(***************************************************************************)
(* When git commit runs, what is staged is still exactly what git_commit     *)
(* found owned and permitted (executor.py 935-963), as long as nobody stages *)
(* by hand: the lock keeps every other session's git commands out.           *)
(***************************************************************************)
THEOREM OwnedCommits == Spec => []CommitsOwned
<1>1. GitInv => CommitsOwned
  BY DEF GitInv
<1>2. QED
  BY <1>1, AlwaysGit, PTL

\* A step changes no protected file, unless it is an edit.
LEMMA UntouchedStep ==
    ASSUME GitInv, [Next]_vars, outside' = 0, NEW f \in Protected
    PROVE  /\ worktree'[f] # worktree[f] => edits' # edits
           /\ \A b \in Branches : refs[b] # NoTree => refs'[b][f] = refs[b][f]
<1>0. CallsOK /\ RepoOK /\ CommitsOwned /\ SwitchesSafe /\ f \in Files
  BY Parts, GitConstants
<1>1. CASE Outsiders
  BY <1>0, <1>1 DEF Outsiders, Edit, OutsideAdd, vars, RepoOK
<1>2. CASE \E p \in Procs : Steps(p)
  <2>1. PICK p \in Procs : Steps(p)
    BY <1>2
  <2>2. CASE Commit(p)
    <3>1. worktree' = worktree /\ outside = 0
      BY <2>2 DEF Commit
    <3>2. f \notin staged_files
      BY <1>0, <2>2, <3>1 DEF CommitsOwned, Permitted, Commit
    <3>3. index[f] = refs[head][f]
      BY <1>0, <3>2 DEF staged_files
    <3>4. refs' = refs \/ refs' = [refs EXCEPT ![head] = index]
      BY <2>2 DEF Commit
    <3>5. \A b \in Branches : refs'[b][f] = refs[b][f]
      BY <1>0, <3>3, <3>4 DEF RepoOK
    <3>6. QED
      BY <3>1, <3>5
  <2>3. CASE Switch(p)
    <3> DEFINE b == args[p].branch
               moved == IF refs[b] = NoTree THEN {} ELSE Differing(b)
               Moved(tree) == [g \in Files |-> IF g \in moved THEN refs[b][g] ELSE tree[g]]
    <3>1. f \notin moved
      BY <1>0, <2>3 DEF Switch, SwitchesSafe, assert_switch_targets_safe, Permitted
    <3>2. worktree' = worktree \/ worktree' = Moved(worktree)
      BY <2>3 DEF Switch, repo
    <3>3. worktree'[f] = worktree[f]
      BY <1>0, <3>1, <3>2 DEF RepoOK, Tree
    <3>4. refs' = refs \/ (refs[b] = NoTree /\ refs' = [refs EXCEPT ![b] = refs[head]])
      BY <2>3 DEF Switch, repo
    <3>5. \A c \in Branches : refs[c] # NoTree => refs'[c] = refs[c]
      BY <1>0, <3>4 DEF RepoOK
    <3>6. QED
      BY <3>3, <3>5
  <2>4. CASE ~Commit(p) /\ ~Switch(p)
    <3>1. UNCHANGED <<worktree, refs>>
      BY <2>1, <2>4, Untouched DEF repo, Add, Restart
    <3>2. QED
      BY <3>1
  <2>5. QED
    BY <2>2, <2>3, <2>4
<1>3. QED
  BY <1>1, <1>2, Cases

(***************************************************************************)
(* Governed operations leave the protected files alone, in the working tree  *)
(* and on every branch, for any number of sessions and branches: a commit    *)
(* records only what was permitted (executor.py 959-960), a switch moves     *)
(* only what was (1037-1045), and neither can go stale under the lock.       *)
(***************************************************************************)
THEOREM Untouchable == Spec => ProtectedUntouched
<1>1. GitInv /\ [Next]_vars =>
        [outside' = 0 =>
          \A f \in Protected :
             /\ worktree'[f] # worktree[f] => edits' # edits
             /\ \A b \in Branches : refs[b] # NoTree => refs'[b][f] = refs[b][f]]_vars
  BY UntouchedStep
<1>2. QED
  BY <1>1, AlwaysGit, PTL DEF ProtectedUntouched, Spec
=============================================================================
