---------------------------- MODULE ChildProcess ----------------------------
(***************************************************************************)
(* The programs the executor runs and listens to: git reads, whose output is *)
(* capped by two pump threads (GovernedExecutor._run_git_capped, execution/  *)
(* executor.py), and declared checks, whose verdict is taken from the whole  *)
(* output (run_declared_check, execution/runner.py).  Both verify pinned     *)
(* files by hash and then run them by path.                                  *)
(*                                                                           *)
(* A call shares nothing with another call, so a behaviour is one call.      *)
(* Concurrent are the calling thread, a pump for each stream, the child, a   *)
(* descendant of the child that keeps the pipes open, and whoever replaces   *)
(* pinned files.  Output is counted in units, not bytes.                     *)
(***************************************************************************)
EXTENDS Naturals, Sequences, FiniteSets

CONSTANTS
    Cap,        \* bytes kept of each stream by a git read
    Chunk,      \* bytes a pump asks for with one read
    PipeSize,   \* bytes a pipe holds
    MaxOutput,  \* bound: bytes the child writes to each stream
    MaxEdits    \* bound: replacements of a pinned file during a call
Streams == {"out", "err"}
ASSUME CapIsNat == Cap \in [Streams -> Nat]
ASSUME MaxOutputIsNat == MaxOutput \in [Streams -> Nat]
ASSUME SizesPositive == Chunk \in Nat \ {0} /\ PipeSize \in Nat \ {0} /\ MaxEdits \in Nat

VARIABLES
    pc,       \* next step of the calling thread
    kind,     \* the kind of call
    todo,     \* pinned files still to be hashed, in order
    intact,   \* pinned files that are as pinned
    late,     \* pinned files replaced since this call hashed them last
    edits,
    prog,     \* what the child is going to do
    child, written, pipe,
    held,     \* a descendant of the child holds the pipes open
    pump,     \* state of the reader of each stream
    got,      \* bytes collected by the read() in progress
    buf,      \* bytes kept for the caller
    stop,     \* the event `stop`
    result    \* what the call returns

call   == <<pc, kind, todo>>
pins   == <<intact, late, edits>>
output == <<prog, child, written, pipe, held>>
pumps  == <<pump, got, buf, stop>>
vars   == <<pc, kind, todo, intact, late, edits, prog, child, written, pipe, held,
            pump, got, buf, stop, result>>

Files == {"exe", "child_exe", "script"}
\* "ambient" is a read for which the host has pinned no git.
Reads == {"read", "ambient"}
Kinds == Reads \cup {"check"}
\* Faulty variant: the executed files are not hashed.
OnlyExecutablesChecked(k) ==
    CASE k = "ambient" -> <<>>
      [] k = "read"    -> <<"exe", "exe">>
      [] k = "check"   -> <<"exe", "exe", "child_exe", "child_exe">>
\* _git_exe is called for the arguments and again for the environment; a
\* declared check hashes executables for the host's pin and for the spec's.
FilesChecked(k) ==
    CASE k = "ambient" -> <<>>
      [] k = "read"    -> <<"exe", "exe">>
      [] k = "check"   -> <<"exe", "exe", "child_exe", "child_exe", "script">>
Pinned(k) == CASE k = "ambient" -> {} [] k = "read" -> {"exe"} [] k = "check" -> Files

\* What the child will do: how much it writes, how much of stdout and then
\* stderr contains the expected text (0: none is expected; more than it writes:
\* never printed), whether it exits as expected, or never, or leaves a
\* descendant behind.
Sizes == {[out |-> m, err |-> n] : m \in 0..MaxOutput.out, n \in 0..MaxOutput.err}
Total(n) == n.out + n.err
Programs(k) ==
    {q \in [size: Sizes, marker: IF k = "check" THEN 0..(Total(MaxOutput) + 1) ELSE {0},
            expected: BOOLEAN, hangs: BOOLEAN, leaves: BOOLEAN] : q.marker <= Total(q.size) + 1}
Zero   == [s \in Streams |-> 0]
NoProg == [size |-> Zero, marker |-> 0, expected |-> FALSE, hangs |-> FALSE, leaves |-> FALSE]

\* "ERROR" is the FAIL of a check that carries an "error" instead of an exit code.
Nothing == [status |-> "none", cut |-> [s \in Streams |-> FALSE], kept |-> Zero]

\* A call whose request has passed the checks of its arguments (project, check
\* ID, working directory, max_bytes) and of the repository.
Init ==
    /\ pc = "verify" /\ kind \in Kinds /\ todo = FilesChecked(kind)
    /\ intact \in SUBSET Files /\ late = {} /\ edits = 0
    /\ prog = NoProg /\ child = "none" /\ written = Zero /\ pipe = Zero /\ held = FALSE
    /\ pump = [s \in Streams |-> "none"] /\ got = Zero /\ buf = Zero /\ stop = FALSE
    /\ result = Nothing

AtMost(m, n) == IF m < n THEN m ELSE n

----------------------------------------------------------------------------
\* The calling thread, up to the start of the child.

Give(status) ==
    /\ pc' = "done"
    /\ result' = [result EXCEPT !.status = status]

\* resolve_trusted_executable and the comparisons of run_declared_check.
VerifyPin ==
    /\ pc = "verify"
    /\ todo # <<>>
    /\ IF Head(todo) \in intact
       THEN pc' = "verify" /\ UNCHANGED result
       ELSE Give("raised")
    /\ todo' = Tail(todo)
    /\ late' = late \ {Head(todo)}
    /\ UNCHANGED <<kind, intact, edits, output, pumps>>

\* Popen, the pumps of a read and the readers of communicate().
Spawn ==
    /\ pc = "verify"
    /\ todo = <<>>
    /\ prog' \in Programs(kind)
    /\ child' = "running"
    /\ held' = prog'.leaves
    /\ pump' = [s \in Streams |-> "started"]
    /\ pc' = "wait"
    /\ UNCHANGED <<kind, todo, pins, written, pipe, got, buf, stop, result>>

\* An OSError of Popen is a result of a check; a read raises it.
SpawnFails ==
    /\ pc = "verify"
    /\ todo = <<>>
    /\ Give(IF kind = "check" THEN "ERROR" ELSE "raised")
    /\ UNCHANGED <<kind, todo, pins, output, pumps>>

----------------------------------------------------------------------------
\* The child and its descendant (operating system).

ChildWrite(s) ==
    /\ child = "running"
    /\ written[s] < prog.size[s]
    /\ pipe[s] < PipeSize
    /\ written' = [written EXCEPT ![s] = @ + 1]
    /\ pipe' = [pipe EXCEPT ![s] = @ + 1]
    /\ UNCHANGED <<call, pins, prog, child, held, pumps, result>>

ChildExit ==
    /\ child = "running"
    /\ ~prog.hangs
    /\ written = prog.size
    /\ child' = "exited"
    /\ UNCHANGED <<call, pins, prog, written, pipe, held, pumps, result>>

ChildDies ==
    /\ child = "dying"
    /\ child' = "dead"
    /\ UNCHANGED <<call, pins, prog, written, pipe, held, pumps, result>>

Released ==
    /\ held
    /\ held' = FALSE
    /\ UNCHANGED <<call, pins, prog, child, written, pipe, pumps, result>>

Ended  == child \in {"exited", "dead"}
EOF(s) == pipe[s] = 0 /\ Ended /\ ~held

----------------------------------------------------------------------------
\* _pump.  stream.read(65536) returns when it has so many bytes or at the end
\* of the stream; `stop` is looked at before every read and at no other time.

PumpStart(s) ==
    /\ kind \in Reads
    /\ pump[s] = "started"
    /\ pump' = [pump EXCEPT ![s] = IF stop THEN "done" ELSE "reading"]
    /\ UNCHANGED <<call, pins, output, got, buf, stop, result>>

PumpFill(s) ==
    LET n == AtMost(pipe[s], Chunk - got[s])
    IN  /\ kind \in Reads
        /\ pump[s] = "reading"
        /\ n > 0
        /\ got' = [got EXCEPT ![s] = @ + n]
        /\ pipe' = [pipe EXCEPT ![s] = @ - n]
        /\ UNCHANGED <<call, pins, prog, child, written, held, pump, buf, stop, result>>

ReadReturns(s) == pump[s] = "reading" /\ (got[s] = Chunk \/ EOF(s))

\* Faulty variants: everything read is kept; the pump ends at the cap.
PumpKeepAll(s) ==
    /\ kind \in Reads
    /\ ReadReturns(s)
    /\ buf' = [buf EXCEPT ![s] = @ + got[s]]
    /\ got' = [got EXCEPT ![s] = 0]
    /\ pump' = [pump EXCEPT ![s] = IF got[s] = 0 \/ stop THEN "done" ELSE "reading"]
    /\ UNCHANGED <<call, pins, output, stop, result>>
PumpEndAtCap(s) ==
    LET kept == AtMost(Cap[s] + 1, buf[s] + got[s])
    IN  /\ kind \in Reads
        /\ ReadReturns(s)
        /\ buf' = [buf EXCEPT ![s] = kept]
        /\ got' = [got EXCEPT ![s] = 0]
        /\ pump' = [pump EXCEPT ![s] = IF got[s] = 0 \/ stop \/ kept > Cap[s] THEN "done" ELSE "reading"]
        /\ UNCHANGED <<call, pins, output, stop, result>>

\* The bytes up to cap + 1 are kept, the rest is discarded; an empty read ends.
PumpKeep(s) ==
    /\ kind \in Reads
    /\ ReadReturns(s)
    /\ buf' = [buf EXCEPT ![s] = AtMost(Cap[s] + 1, @ + got[s])]
    /\ got' = [got EXCEPT ![s] = 0]
    /\ pump' = [pump EXCEPT ![s] = IF got[s] = 0 \/ stop THEN "done" ELSE "reading"]
    /\ UNCHANGED <<call, pins, output, stop, result>>

\* subprocess.run: communicate() collects each stream up to its end.
\* Faulty variants: stderr is merged into stdout; it collects until the child
\* has exited.
CollectMerged(s) ==
    /\ kind = "check"
    /\ pump[s] = "started"
    /\ pipe[s] > 0 \/ EOF(s)
    /\ buf' = [buf EXCEPT !.out = @ + AtMost(pipe[s], Chunk)]
    /\ pipe' = [pipe EXCEPT ![s] = @ - AtMost(@, Chunk)]
    /\ pump' = [pump EXCEPT ![s] = IF EOF(s) THEN "done" ELSE @]
    /\ UNCHANGED <<call, pins, prog, child, written, held, got, stop, result>>
CollectUntilExit(s) ==
    /\ kind = "check"
    /\ pump[s] = "started"
    /\ IF Ended
       THEN pump' = [pump EXCEPT ![s] = "done"] /\ UNCHANGED <<buf, pipe>>
       ELSE /\ buf' = [buf EXCEPT ![s] = @ + AtMost(pipe[s], Chunk)]
            /\ pipe' = [pipe EXCEPT ![s] = @ - AtMost(@, Chunk)]
            /\ UNCHANGED pump
    /\ UNCHANGED <<call, pins, prog, child, written, held, got, stop, result>>
Collect(s) ==
    /\ kind = "check"
    /\ pump[s] = "started"
    /\ pipe[s] > 0 \/ EOF(s)
    /\ buf' = [buf EXCEPT ![s] = @ + AtMost(pipe[s], Chunk)]
    /\ pipe' = [pipe EXCEPT ![s] = @ - AtMost(@, Chunk)]
    /\ pump' = [pump EXCEPT ![s] = IF EOF(s) THEN "done" ELSE @]
    /\ UNCHANGED <<call, pins, prog, child, written, held, got, stop, result>>

----------------------------------------------------------------------------
\* The calling thread, from the start of the child.

\* proc.wait returns; then stop.set().
Waited ==
    /\ kind \in Reads
    /\ pc = "wait"
    /\ child = "exited"
    /\ stop' = TRUE
    /\ pc' = "join"
    /\ UNCHANGED <<kind, todo, pins, output, pump, got, buf, result>>

\* TimeoutExpired, then kill() of a child that may just have exited.
TimedOut ==
    /\ pc = "wait"
    /\ child' = IF child = "running" THEN "dying" ELSE child
    /\ pc' = "reap"
    /\ UNCHANGED <<kind, todo, pins, prog, written, pipe, held, pumps, result>>

\* The second wait of a read; the child may outlive it, which raises.
Reaped ==
    /\ kind \in Reads
    /\ pc = "reap"
    /\ IF Ended
       THEN stop' = TRUE /\ pc' = "join" /\ UNCHANGED result
       ELSE Give("raised") /\ UNCHANGED stop
    /\ UNCHANGED <<kind, todo, pins, output, pump, got, buf>>

\* A pump has ended, or is stuck on a pipe somebody holds open and join()
\* times out: its ten seconds outlast everything a pump does by itself.
Joined(s) == pump[s] = "done" \/ (pipe[s] = 0 /\ held)

\* A killed git has an exit code of its own.
ReadResult ==
    [status |-> IF child = "exited" /\ prog.expected THEN "PASS" ELSE "FAIL",
     cut    |-> [s \in Streams |-> buf[s] > Cap[s]],
     kept   |-> buf]

\* Faulty variant: join() has no timeout.
JoinForEver ==
    /\ pc = "join"
    /\ \A s \in Streams : pump[s] = "done"
    /\ pc' = "done"
    /\ result' = ReadResult
    /\ UNCHANGED <<kind, todo, pins, output, pumps>>

Join ==
    /\ pc = "join"
    /\ \A s \in Streams : Joined(s)
    /\ pc' = "done"
    /\ result' = ReadResult
    /\ UNCHANGED <<kind, todo, pins, output, pumps>>

\* communicate() has both streams and the exit code; text that is not of the
\* encoding raises.
Judge ==
    /\ kind = "check"
    /\ pc = "wait"
    /\ child = "exited"
    /\ \A s \in Streams : pump[s] = "done"
    /\ \/ Give(IF prog.expected /\ prog.marker <= Total(buf) THEN "PASS" ELSE "FAIL")
       \/ Give("raised")
    /\ UNCHANGED <<kind, todo, pins, output, pumps>>

\* subprocess.run waits for the child it has killed and raises TimeoutExpired.
CheckTimedOut ==
    /\ kind = "check"
    /\ pc = "reap"
    /\ Ended
    /\ Give("ERROR")
    /\ UNCHANGED <<kind, todo, pins, output, pumps>>

\* The caller has the result.  A pump left behind fills a buffer nobody reads.
Done == pc = "done" /\ UNCHANGED vars

\* Somebody replaces a pinned file, or puts it back.
Replace(f) ==
    /\ pc # "done"
    /\ edits < MaxEdits
    /\ edits' = edits + 1
    /\ intact' = IF f \in intact THEN intact \ {f} ELSE intact \cup {f}
    /\ late' = late \cup {f}
    /\ UNCHANGED <<call, output, pumps, result>>

Pump(s)  == PumpStart(s) \/ PumpFill(s) \/ PumpKeep(s) \/ Collect(s)
Caller   == VerifyPin \/ Spawn \/ SpawnFails \/ Waited \/ Reaped \/ Join \/ Judge \/ CheckTimedOut
Child    == (\E s \in Streams : ChildWrite(s)) \/ ChildExit \/ ChildDies

Next == \/ Caller \/ TimedOut \/ Done
        \/ Child \/ Released
        \/ \E s \in Streams : Pump(s)
        \/ \E f \in Files : Replace(f)

Spec == Init /\ [][Next]_vars

(***************************************************************************)
(* The threads of the host are scheduled and its timers expire; a killed     *)
(* child dies.  Nothing is assumed of a child or of its descendants.         *)
(***************************************************************************)
FairSpec ==
    /\ Spec
    /\ WF_vars(Caller) /\ WF_vars(TimedOut) /\ WF_vars(ChildDies)
    /\ \A s \in Streams : WF_vars(Pump(s))

----------------------------------------------------------------------------
\* Properties.

\* Every variable stays within its type.
TypeOK ==
    /\ pc \in {"verify", "wait", "reap", "join", "done"}
    /\ kind \in Kinds
    /\ todo \in Seq(Files) /\ Len(todo) <= 5
    /\ intact \in SUBSET Files /\ late \in SUBSET Files
    /\ edits \in 0..MaxEdits
    /\ prog \in Programs("check") \cup {NoProg}
    /\ child \in {"none", "running", "exited", "dying", "dead"}
    /\ written \in Sizes
    /\ \A s \in Streams : pipe[s] \in 0..PipeSize /\ got[s] \in 0..Chunk
    /\ held \in BOOLEAN
    /\ pump \in [Streams -> {"none", "started", "reading", "done"}]
    /\ buf \in Sizes /\ result.kept \in Sizes
    /\ stop \in BOOLEAN
    /\ result.status \in {"none", "PASS", "FAIL", "ERROR", "raised"}

(***************************************************************************)
(* A git read keeps at most one byte more than it may return, however much   *)
(* the child writes, and says truncated only if the child wrote more         *)
(* (_run_git_capped).                                                        *)
(***************************************************************************)
OutputBounded ==
    kind \in Reads =>
        \A s \in Streams : /\ buf[s] <= Cap[s] + 1
                           /\ result.cut[s] => written[s] > Cap[s]

(***************************************************************************)
(* "Keep draining past the cap so the child can finish promptly instead of   *)
(* blocking on a full pipe": until the caller's wait is over, a running git  *)
(* has a reader at each of its pipes.                                        *)
(***************************************************************************)
ChildDrained ==
    kind \in Reads /\ pc = "wait" /\ child = "running" =>
        \A s \in Streams : pump[s] # "done"

(***************************************************************************)
(* A declared check that is reported with an exit code passed exactly if the *)
(* child ended by itself as expected and printed the expected text, wherever *)
(* in the output it is and whatever was in the pipes when the child exited.  *)
(***************************************************************************)
VerdictTrue ==
    kind = "check" /\ result.status \in {"PASS", "FAIL"} =>
        (result.status = "PASS" <=>
            child = "exited" /\ prog.expected /\ prog.marker <= Total(prog.size))

(***************************************************************************)
(* A child is started only with every pinned file of the call as pinned,     *)
(* except for what was replaced after the call had hashed it (the window     *)
(* between resolve_trusted_executable or sha256_file and Popen).             *)
(***************************************************************************)
PinnedUnlessLate ==
    child # "none" => Pinned(kind) \ late \subseteq intact

\* Every call ends, with a child that hangs or floods its pipes, and with a
\* descendant that never closes them (the timeouts of wait and join).
CallEnds == <>(pc = "done")

----------------------------------------------------------------------------
\* A statement of the documents that does not hold.

\* docs/security-model.md 54: a read that leaves something out reports
\* truncated.  Stated for a git that exits by itself and leaves no descendant.
UntruncatedWhole ==
    kind \in Reads /\ result.status = "PASS" /\ ~prog.leaves =>
        \A s \in Streams : ~result.cut[s] => result.kept[s] = prog.size[s]
=============================================================================
