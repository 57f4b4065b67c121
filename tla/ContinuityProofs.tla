-------------------------- MODULE ContinuityProofs --------------------------
(***************************************************************************)
(* Theorems about Continuity for any processes, handoffs, decisions and      *)
(* bounds, whatever calls fail or crash and whoever edits HANDOFF.md.        *)
(***************************************************************************)
EXTENDS Continuity, FiniteSetTheorems, TLAPS

Writing == {"artifact", "commit"}

\* A process in a call holds the revision lock.
Locked == \A p \in Procs : pc[p] # "idle" => lock = p

\* What a process that passed the checks has seen is what is there; a process
\* that has written its artifact finds it.
Prepared(p) ==
    LET c == call[p] IN
    /\ c.kind \in Kinds
    /\ state.rev < MaxRevision
    /\ c.kind = "init" <=> state.rev = 0
    /\ c.kind # "init" => seen[p].rev = state.rev
    /\ c.kind = "checkpoint" => seen[p].handoff = c.exp
    /\ c.kind = "reconcile" => seen[p].handoff = c.obs /\ state.handoff \in {Absent, c.exp}
    /\ c.kind = "decision" => c.decision \in Decisions /\ seen[p].handoff = state.handoff
    /\ pc[p] = "artifact" => /\ c.kind \in {"checkpoint", "decision"}
                             /\ c.kind = "decision" => decisions[c.decision] = 0
    /\ pc[p] = "commit" =>
          /\ c.kind = "checkpoint" => \E k \in checkpoints : k.rev = new_rev(p)
          /\ c.kind = "decision"   => decisions[c.decision] = new_rev(p)

\* A decision that is asked for has an ID.
Named == \A p \in Procs : pc[p] = "check" /\ call[p].kind = "decision" => call[p].decision \in Decisions

\* Revisions up to the current one have been committed once, later ones never.
Committed ==
    /\ commits \in [Revisions -> SUBSET (Procs \X Call)]
    /\ \A r \in Revisions : r > state.rev => commits[r] = {}
    /\ \A r \in Revisions : \A d, e \in commits[r] : d = e
    /\ \A r \in Revisions : \A e \in commits[r] :
          e[2].kind = "decision" => e[2].decision \in Decisions

RevInv == /\ TypeOK /\ Locked /\ Named /\ Committed /\ RevisionsAccounted
          /\ \A p \in Procs : pc[p] \in Writing => Prepared(p)

LEMMA CallTypes ==
    /\ NoCall \in Call /\ NoState \in StateFile
    /\ NoCall.kind = "none"
BY ContinuityConstants DEF NoCall, NoState, Call, StateFile, Images, Revisions, Kinds

LEMMA InitRev == Init => RevInv
<1> SUFFICES ASSUME Init PROVE RevInv
    OBVIOUS
<1>1. TypeOK
    BY ContinuityConstants, CallTypes DEF Init, TypeOK, Labels, Revisions
<1>2. Locked /\ Named
    BY DEF Init, Locked, Named
<1>3. Committed
    BY DEF Init, Committed
<1>4. RevisionsAccounted
    BY DEF Init, RevisionsAccounted, NoState
<1>5. \A p \in Procs : pc[p] \notin Writing
    BY DEF Init, Writing
<1>6. QED BY <1>1, <1>2, <1>3, <1>4, <1>5 DEF RevInv

\* Only the holder of the lock is in a call.
LEMMA OnlyHolder ==
    ASSUME RevInv, NEW p \in Procs, pc[p] # "idle", NEW q \in Procs, q # p
    PROVE  pc[q] = "idle"
BY DEF RevInv, Locked

\* A step that leaves the files and the commits alone, and after which nobody is
\* past the checks.
LEMMA NobodyWriting ==
    ASSUME RevInv, TypeOK', Locked', Named',
           UNCHANGED <<state, checkpoints, decisions, commits>>,
           \A q \in Procs : pc'[q] \notin Writing
    PROVE  RevInv'
<1>1. Committed' /\ RevisionsAccounted'
    BY DEF RevInv, Committed, RevisionsAccounted
<1>2. QED BY <1>1 DEF RevInv

LEMMA ReturnInv ==
    ASSUME RevInv, NEW p \in Procs, pc[p] # "idle", Return(p), UNCHANGED <<files, edits, commits>>
    PROVE  RevInv'
<1>1. TypeOK'
    BY CallTypes, ContinuityConstants DEF RevInv, TypeOK, Return, Goto, files, Labels
<1>2. \A q \in Procs : pc'[q] = "idle"
    BY OnlyHolder DEF Return, Goto, RevInv, TypeOK
<1>3. Locked' /\ Named'
    BY <1>2 DEF Locked, Named
<1>4. QED BY <1>1, <1>2, <1>3, NobodyWriting DEF files, Writing

LEMMA FailInv == ASSUME RevInv, NEW p \in Procs, Fail(p) PROVE RevInv'
BY ReturnInv DEF Fail

LEMMA EnterInv ==
    ASSUME RevInv, NEW p \in Procs, NEW c \in Call, Enter(p, c),
           c.kind = "decision" => c.decision \in Decisions
    PROVE  RevInv'
<1>1. TypeOK'
    BY DEF RevInv, TypeOK, Enter, Goto, files, Labels
<1>2. \A q \in Procs : pc'[q] = IF q = p THEN "check" ELSE "idle"
    BY ContinuityConstants DEF RevInv, TypeOK, Locked, Enter, Goto
<1>3. Locked' /\ Named'
    BY <1>2 DEF Locked, Named, Enter, RevInv, TypeOK
<1>4. QED BY <1>1, <1>2, <1>3, NobodyWriting DEF Enter, files, Writing

LEMMA StartInv == ASSUME RevInv, NEW p \in Procs, Start(p) PROVE RevInv'
<1>1. CASE StartInit(p)
    <2>1. [NoCall EXCEPT !.kind = "init"] \in Call /\ [NoCall EXCEPT !.kind = "init"].kind = "init"
        BY CallTypes DEF NoCall, Call, Kinds
    <2>2. QED BY <1>1, <2>1, EnterInv DEF StartInit
<1>2. CASE StartCheckpoint(p)
    <2>1. PICK r \in Revisions, h \in Handoffs :
              Enter(p, [NoCall EXCEPT !.kind = "checkpoint", !.exp_rev = r, !.exp = h])
        BY <1>2 DEF StartCheckpoint
    <2>2. /\ [NoCall EXCEPT !.kind = "checkpoint", !.exp_rev = r, !.exp = h] \in Call
          /\ [NoCall EXCEPT !.kind = "checkpoint", !.exp_rev = r, !.exp = h].kind = "checkpoint"
        BY CallTypes DEF NoCall, Call, Kinds, Images
    <2>3. QED BY <2>1, <2>2, EnterInv
<1>3. CASE StartReconcile(p)
    <2>1. PICK r \in Revisions, e \in Handoffs, o \in Handoffs :
              Enter(p, [NoCall EXCEPT !.kind = "reconcile", !.exp_rev = r, !.exp = e, !.obs = o])
        BY <1>3 DEF StartReconcile
    <2>2. /\ [NoCall EXCEPT !.kind = "reconcile", !.exp_rev = r, !.exp = e, !.obs = o] \in Call
          /\ [NoCall EXCEPT !.kind = "reconcile", !.exp_rev = r, !.exp = e, !.obs = o].kind = "reconcile"
        BY CallTypes DEF NoCall, Call, Kinds, Images
    <2>3. QED BY <2>1, <2>2, EnterInv
<1>4. CASE StartDecision(p)
    <2>1. PICK r \in Revisions \ {0}, d \in Decisions :
              Enter(p, [NoCall EXCEPT !.kind = "decision", !.exp_rev = r, !.decision = d])
        BY <1>4 DEF StartDecision
    <2>2. /\ [NoCall EXCEPT !.kind = "decision", !.exp_rev = r, !.decision = d] \in Call
          /\ [NoCall EXCEPT !.kind = "decision", !.exp_rev = r, !.decision = d].decision = d
        BY CallTypes DEF NoCall, Call, Kinds
    <2>3. QED BY <2>1, <2>2, EnterInv
<1>5. QED BY <1>1, <1>2, <1>3, <1>4 DEF Start

LEMMA CheckInv == ASSUME RevInv, NEW p \in Procs, Check(p) PROVE RevInv'
<1> DEFINE Passed == \/ init_locked(p) \/ checkpoint_locked(p)
                     \/ reconcile_locked(p) \/ record_decision_locked(p)
<1>1. CASE ~(Passed /\ state.rev < MaxRevision)
    BY <1>1, ReturnInv DEF Check
<1>2. CASE Passed /\ state.rev < MaxRevision
    <2> DEFINE l == IF call[p].kind \in {"checkpoint", "decision"} THEN "artifact" ELSE "commit"
               s == [rev |-> state.rev, handoff |-> handoff_sha256(p)]
    <2>1. /\ pc' = [pc EXCEPT ![p] = l] /\ seen' = [seen EXCEPT ![p] = s] /\ pc[p] = "check"
          /\ UNCHANGED <<files, lock, call, edits, commits>>
        BY <1>2 DEF Check, Goto
    <2>2. s \in StateFile
        BY DEF RevInv, TypeOK, StateFile, handoff_sha256
    <2>3. l \in Writing
        BY DEF Writing
    <2>4. TypeOK'
        BY <2>1, <2>2, <2>3 DEF RevInv, TypeOK, files, Labels, Writing
    <2>5. Locked' /\ Named'
        BY <2>1, <2>3 DEF RevInv, TypeOK, Locked, Named, Writing
    <2>6. Committed' /\ RevisionsAccounted'
        BY <2>1 DEF RevInv, Committed, RevisionsAccounted, files
    <2>7. \A q \in Procs : pc'[q] \in Writing => q = p
        BY <2>1, OnlyHolder DEF RevInv, TypeOK, Writing
    <2>8. pc'[p] = l /\ seen'[p] = s
        BY <2>1 DEF RevInv, TypeOK
    <2>9. call[p].kind = "decision" => call[p].decision \in Decisions
        BY <2>1 DEF RevInv, Named
    <2>10. Prepared(p)'
        <3>1. seen'[p].rev = state.rev /\ seen'[p].handoff = handoff_sha256(p)
            BY <2>8
        <3>2. call[p].kind \in Kinds
            BY <1>2 DEF init_locked, checkpoint_locked, reconcile_locked, record_decision_locked, Kinds
        <3>3. call[p].kind = "init" <=> state.rev = 0
            BY <1>2 DEF init_locked, checkpoint_locked, reconcile_locked, record_decision_locked
        <3>4. call[p].kind = "checkpoint" => handoff = call[p].exp
            BY <1>2 DEF init_locked, checkpoint_locked, reconcile_locked, record_decision_locked
        <3>5. call[p].kind = "reconcile" => handoff = call[p].obs /\ state.handoff \in {Absent, call[p].exp}
            BY <1>2 DEF init_locked, checkpoint_locked, reconcile_locked, record_decision_locked
        <3>6. call[p].kind = "decision" => decisions[call[p].decision] = 0
            BY <1>2 DEF init_locked, checkpoint_locked, reconcile_locked, record_decision_locked
        <3>7. QED
            BY <1>2, <2>1, <2>8, <2>9, <3>1, <3>2, <3>3, <3>4, <3>5, <3>6
            DEF Prepared, handoff_sha256, files
    <2>11. QED BY <2>4, <2>5, <2>6, <2>7, <2>10 DEF RevInv
<1>3. QED BY <1>1, <1>2

LEMMA NewRevision ==
    ASSUME RevInv, NEW p \in Procs, pc[p] \in Writing
    PROVE  new_rev(p) = state.rev + 1 /\ new_rev(p) \in Revisions
BY ContinuityConstants DEF RevInv, TypeOK, StateFile, Prepared, new_rev, Revisions

LEMMA WriteArtifactInv == ASSUME RevInv, NEW p \in Procs, WriteArtifact(p) PROVE RevInv'
<1>1. /\ pc[p] = "artifact" /\ pc' = [pc EXCEPT ![p] = "commit"] /\ Prepared(p)
      /\ UNCHANGED <<state, handoff, lock, call, seen, edits, commits>>
      /\ new_rev(p) = state.rev + 1 /\ new_rev(p) \in Revisions
    BY NewRevision DEF WriteArtifact, Goto, RevInv, Writing
<1>2. /\ checkpoints \subseteq checkpoints'
      /\ call[p].kind = "checkpoint" => \E k \in checkpoints' : k.rev = new_rev(p)
      /\ checkpoints' \subseteq StateFile
    <2> DEFINE k == [rev |-> new_rev(p), handoff |-> seen[p].handoff]
    <2>1. k \in StateFile /\ k.rev = new_rev(p)
        BY <1>1 DEF RevInv, TypeOK, StateFile
    <2>2. checkpoints' = IF call[p].kind = "checkpoint" THEN checkpoints \cup {k} ELSE checkpoints
        BY DEF WriteArtifact
    <2> HIDE DEF k
    <2>3. QED BY <2>1, <2>2 DEF RevInv, TypeOK
<1>3. /\ decisions' \in [Decisions -> Revisions]
      /\ call[p].kind = "decision" => decisions'[call[p].decision] = new_rev(p)
      /\ \A d \in Decisions : decisions[d] # 0 => decisions'[d] = decisions[d]
    BY <1>1 DEF WriteArtifact, RevInv, TypeOK, Prepared
<1>4. TypeOK'
    BY <1>1, <1>2, <1>3 DEF RevInv, TypeOK, Labels
<1>5. Locked' /\ Named'
    BY <1>1 DEF RevInv, TypeOK, Locked, Named
<1>6. Committed'
    BY <1>1 DEF RevInv, Committed
<1>7. RevisionsAccounted'
    <2>1. SUFFICES ASSUME NEW r \in 1..state.rev
                   PROVE  \E e \in commits[r] :
                              /\ e[2].kind = "checkpoint" => \E k \in checkpoints' : k.rev = r
                              /\ e[2].kind = "decision" => decisions'[e[2].decision] = r
        BY <1>1 DEF RevisionsAccounted
    <2>2. PICK e \in commits[r] :
              /\ e[2].kind = "checkpoint" => \E k \in checkpoints : k.rev = r
              /\ e[2].kind = "decision" => decisions[e[2].decision] = r
        BY DEF RevInv, RevisionsAccounted
    <2>3. e[2].kind = "decision" => decisions'[e[2].decision] = r
        <3>1. e[2].kind = "decision" => e[2].decision \in Decisions
            BY ContinuityConstants DEF RevInv, TypeOK, Committed, StateFile, Revisions
        <3>2. QED BY <1>3, <2>2, <3>1
    <2>4. QED BY <1>2, <2>2, <2>3
<1>8. \A q \in Procs : pc'[q] \in Writing => q = p
    BY <1>1, OnlyHolder DEF RevInv, TypeOK, Writing
<1>9. Prepared(p)'
    <2>1. pc'[p] = "commit" /\ new_rev(p)' = new_rev(p)
        BY <1>1 DEF RevInv, TypeOK, new_rev
    <2>2. QED BY <1>1, <1>2, <1>3, <2>1 DEF Prepared
<1>10. QED BY <1>4, <1>5, <1>6, <1>7, <1>8, <1>9 DEF RevInv

LEMMA WriteStateInv == ASSUME RevInv, NEW p \in Procs, WriteState(p) PROVE RevInv'
<1> DEFINE n == new_rev(p)
<1>1. /\ pc[p] = "commit" /\ Prepared(p) /\ Return(p)
      /\ state' = [rev |-> n, handoff |-> seen[p].handoff]
      /\ commits' = [commits EXCEPT ![n] = @ \cup {<<p, call[p]>>}]
      /\ UNCHANGED <<handoff, checkpoints, decisions, edits>>
      /\ n = state.rev + 1 /\ n \in Revisions
    BY NewRevision DEF WriteState, RevInv, Writing
<1> HIDE DEF n
<1>2. TypeOK'
    BY <1>1, CallTypes, ContinuityConstants DEF RevInv, TypeOK, Return, Goto, Labels, StateFile
<1>3. \A q \in Procs : pc'[q] = "idle"
    BY <1>1, OnlyHolder DEF Return, Goto, RevInv, TypeOK
<1>4. Locked' /\ Named'
    BY <1>3 DEF Locked, Named
<1>5. <<p, call[p]>> \in Procs \X Call /\ commits[n] = {}
    <2>1. call[p] \in Call
        BY DEF RevInv, TypeOK
    <2>2. n > state.rev
        BY <1>1, ContinuityConstants DEF RevInv, TypeOK, StateFile, Revisions
    <2>3. commits[n] = {}
        BY <1>1, <2>2 DEF RevInv, Committed
    <2>4. QED BY <2>1, <2>3
<1>6. commits' = [commits EXCEPT ![n] = {<<p, call[p]>>}] /\ state'.rev = n
    BY <1>1, <1>5
<1>7. Committed'
    <2> DEFINE e == <<p, call[p]>>
    <2>1. e \in Procs \X Call /\ (e[2].kind = "decision" => e[2].decision \in Decisions)
        BY <1>1, <1>5 DEF Prepared
    <2>2. commits' = [commits EXCEPT ![n] = {e}]
        BY <1>6
    <2> HIDE DEF e
    <2>3. commits' \in [Revisions -> SUBSET (Procs \X Call)]
        BY <1>1, <2>1, <2>2 DEF RevInv, Committed
    <2>4. \A r \in Revisions : commits'[r] = IF r = n THEN {e} ELSE commits[r]
        BY <1>1, <2>2 DEF RevInv, Committed
    <2>5. \A r \in Revisions : r > state'.rev => r # n /\ r > state.rev
        BY <1>1, <1>6, ContinuityConstants DEF RevInv, TypeOK, StateFile, Revisions
    <2>6. QED BY <2>1, <2>3, <2>4, <2>5 DEF RevInv, Committed
<1>8. RevisionsAccounted'
    <2>1. SUFFICES ASSUME NEW r \in 1..n
                   PROVE  \E e \in commits'[r] :
                              /\ e[2].kind = "checkpoint" => \E k \in checkpoints : k.rev = r
                              /\ e[2].kind = "decision" => decisions[e[2].decision] = r
        BY <1>1, <1>6 DEF RevisionsAccounted
    <2>2. CASE r = n
        <3>1. <<p, call[p]>> \in commits'[r]
            BY <1>1, <1>6, <2>2 DEF RevInv, Committed
        <3>2. /\ call[p].kind = "checkpoint" => \E k \in checkpoints : k.rev = n
              /\ call[p].kind = "decision" => decisions[call[p].decision] = n
            BY <1>1 DEF Prepared, n
        <3>3. QED BY <2>2, <3>1, <3>2
    <2>3. CASE r # n
        <3>1. r \in 1..state.rev /\ commits'[r] = commits[r]
            BY <1>1, <1>6, <2>3, ContinuityConstants DEF RevInv, TypeOK, StateFile, Revisions, Committed
        <3>2. QED BY <3>1 DEF RevInv, RevisionsAccounted
    <2>4. QED BY <2>2, <2>3
<1>9. QED BY <1>2, <1>3, <1>4, <1>7, <1>8 DEF RevInv, Writing

LEMMA EditInv == ASSUME RevInv, EditHandoff PROVE RevInv'
<1>1. TypeOK'
    BY ContinuityConstants DEF RevInv, TypeOK, EditHandoff
<1>2. Locked' /\ Named' /\ Committed' /\ RevisionsAccounted'
    BY DEF RevInv, EditHandoff, Locked, Named, Committed, RevisionsAccounted
<1>3. \A p \in Procs : pc'[p] \in Writing => Prepared(p)'
    BY DEF RevInv, EditHandoff, Prepared, new_rev
<1>4. QED BY <1>1, <1>2, <1>3 DEF RevInv

LEMMA StutterInv == ASSUME RevInv, UNCHANGED vars PROVE RevInv'
BY DEF RevInv, vars, files, TypeOK, Locked, Named, Committed, RevisionsAccounted, Prepared, new_rev

LEMMA NextRev == ASSUME RevInv, [Next]_vars PROVE RevInv'
BY StartInv, CheckInv, WriteArtifactInv, WriteStateInv, FailInv, EditInv, StutterInv
   DEF Next, Step

\* The invariant of the revision protocol holds in every reachable state.
THEOREM RevInvariant == Spec => []RevInv
BY InitRev, NextRev, PTL DEF Spec

\* state.json, artifacts, lock and calls keep their types, for every value of the
\* constants.
THEOREM ContinuityTypes == Spec => []TypeOK
BY RevInvariant, PTL DEF RevInv

(***************************************************************************)
(* state.py 94-97: of the updates that start from one revision, one commits. *)
(***************************************************************************)
THEOREM OneWinner == Spec => []OneWinnerPerRevision
<1>1. RevInv => OneWinnerPerRevision
    <2>1. SUFFICES ASSUME RevInv, NEW r \in Revisions PROVE Cardinality(commits[r]) <= 1
        BY DEF OneWinnerPerRevision
    <2>2. CASE commits[r] = {}
        BY <2>2, FS_EmptySet
    <2>3. CASE commits[r] # {}
        <3>1. PICK e \in commits[r] : TRUE
            BY <2>3
        <3>2. \A d \in commits[r] : d = e
            BY <2>1, <3>1 DEF RevInv, Committed
        <3>3. commits[r] = {e}
            BY <3>1, <3>2
        <3>4. Cardinality(commits[r]) = 1
            BY <3>3, FS_Singleton
        <3>5. QED BY <3>4
    <2>4. QED BY <2>2, <2>3
<1>2. QED BY <1>1, RevInvariant, PTL

\* state.py 222-243, 358-376: the artifact of every revision is there.
THEOREM Accounted == Spec => []RevisionsAccounted
BY RevInvariant, PTL DEF RevInv

\* A step changes the state file only by committing.
LEMMA StateWritten ==
    ASSUME [Next]_vars, state' # state
    PROVE  \E p \in Procs : WriteState(p)
BY DEF Next, Start, StartInit, StartCheckpoint, StartReconcile, StartDecision, Enter, Step, Check,
       WriteArtifact, Fail, EditHandoff, files, vars

\* state.py 127-145: revisions advance by one, from no file to the first.
THEOREM Advances == Spec => RevisionAdvances
<1>1. RevInv /\ [Next]_vars => [state'.rev \in {state.rev, state.rev + 1}]_vars
    <2>1. SUFFICES ASSUME RevInv, [Next]_vars, state' # state
                   PROVE  state'.rev \in {state.rev, state.rev + 1}
        OBVIOUS
    <2>2. PICK p \in Procs : WriteState(p)
        BY <2>1, StateWritten
    <2>3. QED BY <2>1, <2>2, NewRevision DEF WriteState, Writing
<1>2. QED BY <1>1, RevInvariant, PTL DEF Spec, RevisionAdvances

\* The caller that commits has named what it records.
LEMMA HandoffNamed ==
    ASSUME RevInv, [Next]_vars, state.rev # 0, state'.handoff # state.handoff
    PROVE  \E e \in commits'[state'.rev] : LET c == e[2] IN
              \/ c.kind = "checkpoint" /\ c.exp = state'.handoff
              \/ /\ c.kind = "reconcile" /\ c.obs = state'.handoff
                 /\ state.handoff \in {Absent, c.exp}
<1>1. PICK p \in Procs : WriteState(p)
    BY StateWritten
<1>2. Prepared(p) /\ new_rev(p) \in Revisions
    BY <1>1, NewRevision DEF WriteState, RevInv, Writing
<1>3. state'.rev = new_rev(p) /\ state'.handoff = seen[p].handoff
    BY <1>1 DEF WriteState
<1>4. <<p, call[p]>> \in commits'[state'.rev]
    BY <1>1, <1>2, <1>3 DEF WriteState, RevInv, Committed
<1>5. \/ call[p].kind = "checkpoint" /\ call[p].exp = state'.handoff
      \/ /\ call[p].kind = "reconcile" /\ call[p].obs = state'.handoff
         /\ state.handoff \in {Absent, call[p].exp}
    BY <1>2, <1>3 DEF Prepared, Kinds
<1>6. QED BY <1>4, <1>5

(***************************************************************************)
(* A handoff nobody named is never recorded after init, whoever edits        *)
(* HANDOFF.md while calls wait or run (state.py 211-219, 289-304, 355-376).  *)
(***************************************************************************)
THEOREM HandoffsNamed == Spec => RecordNamed
<1>1. RevInv /\ [Next]_vars =>
        [state.rev # 0 /\ state'.handoff # state.handoff =>
           \E e \in commits'[state'.rev] : LET c == e[2] IN
              \/ c.kind = "checkpoint" /\ c.exp = state'.handoff
              \/ /\ c.kind = "reconcile" /\ c.obs = state'.handoff
                 /\ state.handoff \in {Absent, c.exp}]_vars
    BY HandoffNamed
<1>2. QED BY <1>1, RevInvariant, PTL DEF Spec, RecordNamed
=============================================================================
