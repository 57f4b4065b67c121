----------------------------- MODULE ChildProofs -----------------------------
(***************************************************************************)
(* Theorems about ChildProcess for any caps, chunk and pipe sizes and any    *)
(* child: what is kept of the output, who reads the pipes, what the verdict  *)
(* of a check is about and which files it ran.                               *)
(***************************************************************************)
EXTENDS ChildProcess, TLAPS

Counts == [Streams -> Nat]

\* The parts of the state the arguments are about.
Types ==
    /\ kind \in Kinds /\ todo \in Seq(Files)
    /\ intact \in SUBSET Files /\ late \in SUBSET Files
    /\ written \in Counts /\ pipe \in Counts /\ got \in Counts /\ buf \in Counts
    /\ pump \in [Streams -> {"none", "started", "reading", "done"}]
    /\ prog.size \in Counts
    /\ child \in {"none", "running", "exited", "dying", "dead"} /\ stop \in BOOLEAN
    /\ result \in [status: {"none", "PASS", "FAIL", "ERROR", "raised"},
                   cut: [Streams -> BOOLEAN], kept: Counts]

\* Output is in the pipe, in the read in progress or kept; a read may have
\* discarded some, a check has not.
Conserved ==
    \A s \in Streams :
        /\ buf[s] + got[s] + pipe[s] <= written[s]
        /\ kind = "check" => got[s] = 0 /\ buf[s] + pipe[s] = written[s]

\* A read keeps at most a byte more than its cap.
Capped ==
    kind \in Reads => \A s \in Streams : /\ buf[s] <= Cap[s] + 1
                                         /\ result.cut[s] => written[s] > Cap[s]

\* A pump ends at the end of its stream or when it is told to stop, and it is
\* told to after the wait; a reader of communicate() ends at the end.
Drained ==
    /\ pc = "join" => kind \in Reads
    /\ stop = TRUE => pc \notin {"verify", "wait"}
    /\ kind \in Reads => \A s \in Streams : pump[s] = "done" => stop = TRUE \/ Ended
    /\ kind = "check" => \A s \in Streams : pump[s] = "done" => pipe[s] = 0 /\ Ended

\* A child that has exited by itself has written everything.
Finished == child = "exited" => written = prog.size

\* A pinned file is as pinned, was replaced after it was hashed, or is still to
\* be hashed; nothing is left to hash when there is a child.
ToDo     == {todo[i] : i \in 1..Len(todo)}
Hashed   == pc = "verify" \/ child # "none" => Pinned(kind) \subseteq intact \cup late \cup ToDo
NoneLeft == child # "none" => todo = <<>>
Fresh    == pc = "verify" => child = "none"
Early    == child = "none" => pc \in {"verify", "done"} /\ written = Zero

\* Only a call that is over has a result, and a check has a verdict only of a
\* child that has exited by itself.
Decided ==
    /\ result.status # "none" => pc = "done"
    /\ kind = "check" /\ result.status \in {"PASS", "FAIL"} => child = "exited"

ChildInv == /\ Types /\ Conserved /\ Capped /\ Drained /\ Finished
            /\ Hashed /\ NoneLeft /\ Fresh /\ Early /\ Decided /\ VerdictTrue

LEMMA Constants ==
    /\ Cap \in Counts /\ MaxOutput \in Counts /\ Zero \in Counts
    /\ Chunk \in Nat /\ Chunk > 0
    /\ \A s \in Streams : Zero[s] = 0
BY CapIsNat, MaxOutputIsNat, SizesPositive DEF Counts, Zero

LEMMA ProgramSizes ==
    ASSUME NEW k, NEW q \in Programs(k)
    PROVE  q.size \in Counts
<1>1. q.size \in Sizes
    BY DEF Programs
<1>2. PICK m \in 0..MaxOutput.out, n \in 0..MaxOutput.err : q.size = [out |-> m, err |-> n]
    BY <1>1 DEF Sizes
<1>3. m \in Nat /\ n \in Nat
    BY <1>2, Constants DEF Counts, Streams
<1>4. QED BY <1>2, <1>3 DEF Counts, Streams

LEMMA AtMostFacts ==
    ASSUME NEW m \in Nat, NEW n \in Nat
    PROVE  AtMost(m, n) \in Nat /\ AtMost(m, n) <= m /\ AtMost(m, n) <= n
BY DEF AtMost

LEMMA InitTodo ==
    ASSUME NEW k \in Kinds, todo = FilesChecked(k)
    PROVE  todo \in Seq(Files) /\ Pinned(k) \subseteq ToDo
<1>1. CASE k = "ambient"
    BY <1>1 DEF FilesChecked, Pinned
<1>2. CASE k = "read"
    BY <1>2 DEF FilesChecked, Pinned, ToDo, Files
<1>3. CASE k = "check"
    BY <1>3 DEF FilesChecked, Pinned, ToDo, Files
<1>4. QED BY <1>1, <1>2, <1>3 DEF Kinds, Reads

LEMMA InitChild == Init => ChildInv
<1> SUFFICES ASSUME Init PROVE ChildInv
    OBVIOUS
<1>1. Types
    BY InitTodo, Constants DEF Init, Types, NoProg, Nothing
<1>2. Conserved /\ Capped
    BY Constants DEF Init, Conserved, Capped, Nothing, Counts
<1>3. Drained /\ Finished
    BY DEF Init, Drained, Finished
<1>4. Hashed /\ NoneLeft /\ Fresh /\ Early
    BY InitTodo DEF Init, Hashed, NoneLeft, Fresh, Early
<1>5. Decided /\ VerdictTrue
    BY DEF Init, Decided, VerdictTrue, Nothing
<1>6. QED BY <1>1, <1>2, <1>3, <1>4, <1>5 DEF ChildInv

----------------------------------------------------------------------------
\* Steps that move no output.

\* A result that is neither a verdict nor says truncated.
LEMMA Given ==
    ASSUME Types, Capped, NEW st \in {"ERROR", "raised"}, Give(st)
    PROVE  /\ result' \in [status: {"none", "PASS", "FAIL", "ERROR", "raised"},
                            cut: [Streams -> BOOLEAN], kept: Counts]
           /\ result'.cut = result.cut /\ result'.status = st /\ pc' = "done"
BY DEF Give, Types

LEMMA VerifyPinInv == ASSUME ChildInv, VerifyPin PROVE ChildInv'
<1>1. /\ pc = "verify" /\ child = "none" /\ todo # <<>>
      /\ todo' = Tail(todo) /\ late' = late \ {Head(todo)}
      /\ UNCHANGED <<kind, intact, edits, output, pumps>>
    BY DEF VerifyPin, ChildInv, Fresh
<1>2. /\ todo' \in Seq(Files)
      /\ ToDo \subseteq ToDo' \cup {Head(todo)}
    <2>1. /\ todo \in Seq(Files) /\ Len(todo) \in Nat /\ Len(todo) > 0
          /\ Tail(todo) \in Seq(Files) /\ Len(Tail(todo)) = Len(todo) - 1
          /\ \A i \in 1..(Len(todo) - 1) : Tail(todo)[i] = todo[i + 1]
        BY <1>1 DEF ChildInv, Types
    <2>2. ASSUME NEW i \in 1..Len(todo), i # 1 PROVE todo[i] \in ToDo'
        <3>1. i - 1 \in 1..Len(todo') /\ todo'[i - 1] = todo[i]
            BY <1>1, <2>1, <2>2
        <3>2. QED BY <3>1 DEF ToDo
    <2>3. todo[1] = Head(todo)
        BY <2>1
    <2>4. QED BY <1>1, <2>1, <2>2, <2>3 DEF ToDo
<1>3. /\ Head(todo) \in intact /\ pc' = "verify" /\ result' = result
      \/ Give("raised")
    BY DEF VerifyPin
<1>4. /\ result' \in [status: {"none", "PASS", "FAIL", "ERROR", "raised"},
                       cut: [Streams -> BOOLEAN], kept: Counts]
      /\ result'.cut = result.cut /\ (result'.status = result.status \/ result'.status = "raised")
      /\ (pc' = "done" \/ (pc' = "verify" /\ Head(todo) \in intact))
    BY <1>3, Given DEF ChildInv, Types
<1>5. Types' /\ Conserved' /\ Capped'
    BY <1>1, <1>2, <1>4 DEF ChildInv, Types, Conserved, Capped, output, pumps
<1>6. Drained'
    BY <1>1, <1>4 DEF ChildInv, Drained, Ended, output, pumps
<1>7. /\ child' = "none" /\ child' = child /\ written' = written /\ prog' = prog
      /\ result'.status \notin {"PASS", "FAIL"} /\ (result'.status # "none" => pc' = "done")
    <2>1. child' = "none" /\ child' = child /\ written' = written /\ prog' = prog
        BY <1>1 DEF output
    <2>2. result.status = "none"
        BY <1>1 DEF ChildInv, Decided
    <2>3. CASE result' = result /\ pc' = "verify"
        BY <2>1, <2>2, <2>3
    <2>4. CASE Give("raised")
        BY <2>1, <2>4, Given DEF ChildInv
    <2>5. QED BY <1>3, <2>3, <2>4
<1>8. Finished' /\ NoneLeft' /\ Fresh'
    BY <1>7 DEF Finished, NoneLeft, Fresh
<1>9. Early'
    BY <1>4, <1>7 DEF ChildInv, Early
<1>10. Decided' /\ VerdictTrue'
    BY <1>7 DEF Decided, VerdictTrue
<1>11. Hashed'
    BY <1>1, <1>2, <1>4 DEF ChildInv, Hashed, output
<1>12. QED BY <1>5, <1>6, <1>8, <1>9, <1>10, <1>11 DEF ChildInv

LEMMA SpawnInv == ASSUME ChildInv, Spawn PROVE ChildInv'
<1>1. /\ pc = "verify" /\ todo = <<>> /\ child = "none" /\ child' = "running" /\ pc' = "wait"
      /\ pump' = [s \in Streams |-> "started"] /\ written = Zero
      /\ UNCHANGED <<kind, todo, pins, written, pipe, got, buf, stop, result>>
      /\ prog'.size \in Counts
    BY ProgramSizes DEF Spawn, ChildInv, Fresh, Early
<1>2. Types' /\ Conserved' /\ Capped'
    BY <1>1 DEF ChildInv, Types, Conserved, Capped, pins
<1>3. Drained' /\ Finished' /\ NoneLeft' /\ Fresh' /\ Early'
    BY <1>1 DEF ChildInv, Drained, Ended, Finished, NoneLeft, Fresh, Early
<1>4. Hashed'
    BY <1>1 DEF ChildInv, Hashed, ToDo, pins
<1>5. Decided' /\ VerdictTrue'
    BY <1>1 DEF ChildInv, Decided, VerdictTrue
<1>6. QED BY <1>2, <1>3, <1>4, <1>5 DEF ChildInv

LEMMA SpawnFailsInv == ASSUME ChildInv, SpawnFails PROVE ChildInv'
<1>1. /\ pc = "verify" /\ child = "none" /\ pc' = "done"
      /\ result' \in [status: {"none", "PASS", "FAIL", "ERROR", "raised"},
                       cut: [Streams -> BOOLEAN], kept: Counts]
      /\ result'.cut = result.cut /\ result'.status \in {"ERROR", "raised"}
      /\ UNCHANGED <<kind, todo, pins, output, pumps>>
    BY Given DEF SpawnFails, ChildInv, Fresh
<1>2. Types' /\ Conserved' /\ Capped'
    BY <1>1 DEF ChildInv, Types, Conserved, Capped, pins, output, pumps
<1>3. Drained' /\ Finished' /\ NoneLeft' /\ Fresh' /\ Early' /\ Decided' /\ VerdictTrue'
    BY <1>1 DEF ChildInv, Drained, Ended, Finished, NoneLeft, Fresh, Early, Decided, VerdictTrue,
                output, pumps
<1>4. Hashed'
    BY <1>1 DEF ChildInv, Hashed, ToDo, pins, output
<1>5. QED BY <1>2, <1>3, <1>4 DEF ChildInv

\* The child and its descendant.
LEMMA ChildWriteInv == ASSUME ChildInv, NEW s \in Streams, ChildWrite(s) PROVE ChildInv'
<1>1. /\ child = "running" /\ UNCHANGED <<call, pins, prog, child, held, pumps, result>>
      /\ written' = [written EXCEPT ![s] = @ + 1] /\ pipe' = [pipe EXCEPT ![s] = @ + 1]
    BY DEF ChildWrite
<1> written \in Counts /\ pipe \in Counts /\ buf \in Counts /\ got \in Counts /\ Cap \in Counts
    BY Constants DEF ChildInv, Types
<1>6. Types'
    <2>1. Types /\ UNCHANGED <<kind, todo, intact, late, prog, child, pump, got, buf, stop, result>>
        BY <1>1 DEF ChildInv, call, pins, pumps
    <2>2. written' \in Counts /\ pipe' \in Counts
        BY <1>1 DEF Counts
    <2>3. QED BY <2>1, <2>2 DEF Types
<1>7. ASSUME NEW r \in Streams
      PROVE  /\ buf'[r] = buf[r] /\ got'[r] = got[r]
             /\ \/ written'[r] = written[r] /\ pipe'[r] = pipe[r]
                \/ written'[r] = written[r] + 1 /\ pipe'[r] = pipe[r] + 1
    BY <1>1 DEF pumps, Counts
<1>8. Conserved'
    <2> SUFFICES ASSUME NEW r \in Streams
                 PROVE  /\ buf'[r] + got'[r] + pipe'[r] <= written'[r]
                        /\ kind = "check" => got'[r] = 0 /\ buf'[r] + pipe'[r] = written'[r]
        BY <1>1 DEF Conserved, call
    <2>1. buf[r] \in Nat /\ got[r] \in Nat /\ pipe[r] \in Nat /\ written[r] \in Nat
        BY DEF Counts
    <2>2. QED BY <1>7, <2>1 DEF ChildInv, Conserved
<1>9. Capped'
    <2> SUFFICES ASSUME kind \in Reads, NEW r \in Streams
                 PROVE  buf'[r] <= Cap[r] + 1 /\ (result'.cut[r] => written'[r] > Cap[r])
        BY <1>1 DEF Capped, call
    <2>1. written[r] \in Nat /\ Cap[r] \in Nat
        BY DEF Counts
    <2>2. QED BY <1>1, <1>7, <2>1 DEF ChildInv, Capped
<1>2. Types' /\ Conserved' /\ Capped'
    BY <1>6, <1>8, <1>9
<1>3. Drained' /\ Finished' /\ NoneLeft' /\ Fresh' /\ Early' /\ Decided' /\ VerdictTrue'
    BY <1>1 DEF ChildInv, Drained, Ended, Finished, NoneLeft, Fresh, Early, Decided, VerdictTrue,
                call, pumps
<1>4. Hashed'
    BY <1>1 DEF ChildInv, Hashed, ToDo, pins, call
<1>5. QED BY <1>2, <1>3, <1>4 DEF ChildInv

LEMMA ChildEndsInv == ASSUME ChildInv, ChildExit \/ ChildDies PROVE ChildInv'
<1>1. /\ \/ child = "running" /\ child' = "exited" /\ written = prog.size
         \/ child = "dying" /\ child' = "dead"
      /\ UNCHANGED <<call, pins, prog, written, pipe, held, pumps, result>>
    BY DEF ChildExit, ChildDies
<1>2. Types' /\ Conserved' /\ Capped'
    BY <1>1 DEF ChildInv, Types, Conserved, Capped, call, pins, pumps
<1>3. Drained' /\ Finished' /\ NoneLeft' /\ Fresh' /\ Early' /\ Decided' /\ VerdictTrue'
    BY <1>1 DEF ChildInv, Drained, Ended, Finished, NoneLeft, Fresh, Early, Decided, VerdictTrue,
                call, pumps
<1>4. Hashed'
    BY <1>1 DEF ChildInv, Hashed, ToDo, pins, call
<1>5. QED BY <1>2, <1>3, <1>4 DEF ChildInv

LEMMA ReleasedInv == ASSUME ChildInv, Released PROVE ChildInv'
<1>1. UNCHANGED <<call, pins, prog, child, written, pipe, pumps, result>>
    BY DEF Released
<1>2. Types' /\ Conserved' /\ Capped'
    BY <1>1 DEF ChildInv, Types, Conserved, Capped, call, pins, pumps
<1>3. Drained' /\ Finished' /\ NoneLeft' /\ Fresh' /\ Early' /\ Decided' /\ VerdictTrue'
    BY <1>1 DEF ChildInv, Drained, Ended, Finished, NoneLeft, Fresh, Early, Decided, VerdictTrue,
                call, pumps
<1>4. Hashed'
    BY <1>1 DEF ChildInv, Hashed, ToDo, pins, call
<1>5. QED BY <1>2, <1>3, <1>4 DEF ChildInv

----------------------------------------------------------------------------
\* The readers.

\* A step of a reader changes its own stream, whose output it moves or drops:
\* b units are kept then, g are in the read in progress and n in the pipe.
ReaderMoves(s, st, b, g, n) ==
    /\ UNCHANGED <<call, pins, prog, child, written, held, stop, result>>
    /\ buf' = [buf EXCEPT ![s] = b] /\ got' = [got EXCEPT ![s] = g]
    /\ pipe' = [pipe EXCEPT ![s] = n] /\ pump' = [pump EXCEPT ![s] = st]
    /\ b + g + n <= buf[s] + got[s] + pipe[s]
    /\ kind = "check" => g = 0 /\ b + n = buf[s] + pipe[s]
    /\ kind \in Reads => b <= Cap[s] + 1 /\ (st = "done" => stop = TRUE \/ Ended)
    /\ kind = "check" /\ st = "done" => n = 0 /\ Ended
    /\ kind = "check" => pump[s] # "done"

LEMMA ReaderInv ==
    ASSUME ChildInv, NEW s \in Streams, NEW st \in {"started", "reading", "done"},
           NEW b \in Nat, NEW g \in Nat, NEW n \in Nat, ReaderMoves(s, st, b, g, n)
    PROVE  ChildInv'
<1> USE DEF ReaderMoves
<1>1. Types'
    <2>1. /\ Types
          /\ UNCHANGED <<kind, todo, intact, late, prog, child, written, stop, result>>
        BY DEF ChildInv, call, pins
    <2>2. buf' \in Counts /\ got' \in Counts /\ pipe' \in Counts
        BY <2>1 DEF Types, Counts
    <2>3. pump' \in [Streams -> {"none", "started", "reading", "done"}]
        BY <2>1 DEF Types
    <2>4. QED BY <2>1, <2>2, <2>3 DEF Types
<1>0. ASSUME NEW r \in Streams
      PROVE  /\ buf[r] \in Nat /\ got[r] \in Nat /\ pipe[r] \in Nat /\ written'[r] = written[r]
             /\ IF r = s THEN buf'[r] = b /\ got'[r] = g /\ pipe'[r] = n
                         ELSE buf'[r] = buf[r] /\ got'[r] = got[r] /\ pipe'[r] = pipe[r]
    BY DEF ChildInv, Types, Counts
<1>2. Conserved'
    <2> SUFFICES ASSUME NEW r \in Streams
                 PROVE  /\ buf'[r] + got'[r] + pipe'[r] <= written'[r]
                        /\ kind = "check" => got'[r] = 0 /\ buf'[r] + pipe'[r] = written'[r]
        BY DEF Conserved, call
    <2>1. /\ buf[r] + got[r] + pipe[r] <= written[r]
          /\ kind = "check" => got[r] = 0 /\ buf[r] + pipe[r] = written[r]
        BY DEF ChildInv, Conserved
    <2>2. written[r] \in Nat
        BY DEF ChildInv, Types, Counts
    <2>3. QED BY <1>0, <2>1, <2>2
<1>3. Capped'
    BY <1>0 DEF ChildInv, Capped, call
<1>4. Drained'
    <2>1. pump \in [Streams -> {"none", "started", "reading", "done"}] /\ pipe \in Counts
        BY DEF ChildInv, Types
    <2>2. (pc' = "join" => kind' \in Reads) /\ (stop' = TRUE => pc' \notin {"verify", "wait"})
        BY DEF ChildInv, Drained, call
    <2>3. ASSUME kind \in Reads, NEW r \in Streams, pump'[r] = "done" PROVE stop = TRUE \/ Ended
        BY <2>1, <2>3 DEF ChildInv, Drained
    <2>4. ASSUME kind = "check", NEW r \in Streams, pump'[r] = "done" PROVE pipe'[r] = 0 /\ Ended
        BY <2>1, <2>4 DEF ChildInv, Drained, Counts
    <2>5. kind' = kind /\ stop' = stop /\ (Ended' <=> Ended)
        BY DEF call, Ended
    <2>6. QED BY <2>2, <2>3, <2>4, <2>5 DEF Drained
<1>5. Finished' /\ NoneLeft' /\ Fresh' /\ Early' /\ Decided' /\ VerdictTrue'
    BY DEF ChildInv, Finished, NoneLeft, Fresh, Early, Decided, VerdictTrue, call
<1>6. Hashed'
    BY DEF ChildInv, Hashed, ToDo, pins, call
<1>7. QED BY <1>1, <1>2, <1>3, <1>4, <1>5, <1>6 DEF ChildInv

LEMMA Unmoved ==
    ASSUME ChildInv, NEW s \in Streams
    PROVE  /\ buf[s] \in Nat /\ got[s] \in Nat /\ pipe[s] \in Nat /\ Cap[s] \in Nat
           /\ buf = [buf EXCEPT ![s] = buf[s]] /\ got = [got EXCEPT ![s] = got[s]]
           /\ pipe = [pipe EXCEPT ![s] = pipe[s]] /\ pump = [pump EXCEPT ![s] = pump[s]]
           /\ kind \in Reads => buf[s] <= Cap[s] + 1 /\ kind # "check"
BY Constants DEF ChildInv, Types, Capped, Counts, Reads

LEMMA PumpStartInv == ASSUME ChildInv, NEW s \in Streams, PumpStart(s) PROVE ChildInv'
<1>1. PICK st \in {"reading", "done"} : pump' = [pump EXCEPT ![s] = st] /\ (st = "done" => stop = TRUE)
    <2>1. CASE stop = TRUE
        BY <2>1 DEF PumpStart
    <2>2. CASE stop = FALSE
        BY <2>2 DEF PumpStart
    <2>3. QED BY <2>1, <2>2 DEF ChildInv, Types
<1>2. /\ UNCHANGED <<call, pins, prog, child, written, held, stop, result>>
      /\ buf' = buf /\ got' = got /\ pipe' = pipe /\ kind \in Reads
    BY DEF PumpStart, output
<1>3. /\ buf[s] \in Nat /\ got[s] \in Nat /\ pipe[s] \in Nat
      /\ buf[s] + got[s] + pipe[s] <= buf[s] + got[s] + pipe[s]
      /\ buf[s] <= Cap[s] + 1 /\ kind # "check"
      /\ buf' = [buf EXCEPT ![s] = buf[s]] /\ got' = [got EXCEPT ![s] = got[s]]
      /\ pipe' = [pipe EXCEPT ![s] = pipe[s]]
    BY <1>2, Unmoved
<1>4. st \in {"started", "reading", "done"}
    OBVIOUS
<1>5. /\ kind = "check" => got[s] = 0 /\ buf[s] + pipe[s] = buf[s] + pipe[s]
      /\ kind \in Reads => buf[s] <= Cap[s] + 1 /\ (st = "done" => stop = TRUE \/ Ended)
      /\ kind = "check" /\ st = "done" => pipe[s] = 0 /\ Ended
      /\ kind = "check" => pump[s] # "done"
    BY <1>1, <1>3
<1>6. ReaderMoves(s, st, buf[s], got[s], pipe[s])
    BY <1>1, <1>2, <1>3, <1>5 DEF ReaderMoves
<1>7. QED BY <1>3, <1>4, <1>6, ReaderInv

LEMMA PumpFillInv == ASSUME ChildInv, NEW s \in Streams, PumpFill(s) PROVE ChildInv'
<1> DEFINE n == AtMost(pipe[s], Chunk - got[s])
<1>1. /\ kind \in Reads /\ pump[s] = "reading" /\ n > 0 /\ got' = [got EXCEPT ![s] = got[s] + n]
      /\ pipe' = [pipe EXCEPT ![s] = pipe[s] - n]
      /\ UNCHANGED <<call, pins, prog, child, written, held, pump, buf, stop, result>>
    BY DEF PumpFill
<1>2. n \in Nat /\ n <= pipe[s]
    BY <1>1, Unmoved, Constants DEF AtMost
<1> HIDE DEF n
<1>3. /\ got[s] + n \in Nat /\ pipe[s] - n \in Nat
      /\ buf[s] + (got[s] + n) + (pipe[s] - n) <= buf[s] + got[s] + pipe[s]
    BY <1>2, Unmoved
<1>4. ReaderMoves(s, "reading", buf[s], got[s] + n, pipe[s] - n)
    BY <1>1, <1>3, Unmoved DEF ReaderMoves
<1>5. QED BY <1>3, <1>4, Unmoved, ReaderInv

LEMMA PumpKeepInv == ASSUME ChildInv, NEW s \in Streams, PumpKeep(s) PROVE ChildInv'
<1> DEFINE b == AtMost(Cap[s] + 1, buf[s] + got[s])
<1>1. /\ kind \in Reads /\ buf' = [buf EXCEPT ![s] = b] /\ got' = [got EXCEPT ![s] = 0]
      /\ UNCHANGED <<call, pins, output, stop, result>>
    BY DEF PumpKeep
<1>2. b \in Nat /\ b <= Cap[s] + 1 /\ b <= buf[s] + got[s]
    <2>1. Cap[s] + 1 \in Nat /\ buf[s] + got[s] \in Nat
        BY Unmoved
    <2>2. QED BY <2>1, AtMostFacts
<1> HIDE DEF b
<1>3. b + 0 + pipe[s] <= buf[s] + got[s] + pipe[s]
    BY <1>2, Unmoved
<1>4. PICK st \in {"reading", "done"} :
          pump' = [pump EXCEPT ![s] = st] /\ (st = "done" => stop = TRUE \/ Ended)
    <2>1. CASE got[s] = 0
        <3>1. Ended
            BY <2>1, Constants DEF PumpKeep, ReadReturns, EOF
        <3>2. QED BY <2>1, <3>1 DEF PumpKeep
    <2>2. CASE got[s] # 0 /\ stop = TRUE
        BY <2>2 DEF PumpKeep
    <2>3. CASE got[s] # 0 /\ stop = FALSE
        BY <2>3 DEF PumpKeep
    <2>4. QED BY <2>1, <2>2, <2>3 DEF ChildInv, Types
<1>5. ReaderMoves(s, st, b, 0, pipe[s])
    BY <1>1, <1>2, <1>3, <1>4, Unmoved DEF ReaderMoves, output
<1>6. 0 \in Nat /\ pipe[s] \in Nat /\ st \in {"started", "reading", "done"}
    BY <1>4, Unmoved
<1>7. QED BY <1>2, <1>5, <1>6, ReaderInv

LEMMA CollectInv == ASSUME ChildInv, NEW s \in Streams, Collect(s) PROVE ChildInv'
<1> DEFINE n == AtMost(pipe[s], Chunk)
<1>1. /\ kind = "check" /\ pump[s] = "started" /\ buf' = [buf EXCEPT ![s] = buf[s] + n]
      /\ pipe' = [pipe EXCEPT ![s] = pipe[s] - n]
      /\ UNCHANGED <<call, pins, prog, child, written, held, got, stop, result>>
    BY DEF Collect
<1>2. n \in Nat /\ n <= pipe[s] /\ got[s] = 0
    BY <1>1, Unmoved, AtMostFacts, Constants DEF ChildInv, Conserved
<1> HIDE DEF n
<1>3. /\ buf[s] + n \in Nat /\ pipe[s] - n \in Nat
      /\ (buf[s] + n) + got[s] + (pipe[s] - n) <= buf[s] + got[s] + pipe[s]
      /\ (buf[s] + n) + (pipe[s] - n) = buf[s] + pipe[s]
    BY <1>2, Unmoved
<1>4. PICK st \in {"started", "done"} :
          pump' = [pump EXCEPT ![s] = st] /\ (st = "done" => pipe[s] = 0 /\ Ended)
    BY <1>1 DEF Collect, EOF
<1>5. st = "done" => pipe[s] - n = 0
    BY <1>2, <1>4
<1>6. kind \notin Reads
    BY <1>1 DEF Reads
<1>7. ReaderMoves(s, st, buf[s] + n, got[s], pipe[s] - n)
    BY <1>1, <1>2, <1>3, <1>4, <1>5, <1>6, Unmoved DEF ReaderMoves
<1>8. QED BY <1>3, <1>4, <1>7, Unmoved, ReaderInv

----------------------------------------------------------------------------
\* The caller after the start.

LEMMA WaitedInv == ASSUME ChildInv, Waited PROVE ChildInv'
<1>1. /\ kind \in Reads /\ pc = "wait" /\ pc' = "join" /\ child = "exited"
      /\ UNCHANGED <<kind, todo, pins, output, pump, got, buf, result>> /\ stop' \in BOOLEAN
    BY DEF Waited
<1>2. Types' /\ Conserved' /\ Capped'
    BY <1>1 DEF ChildInv, Types, Conserved, Capped, pins, output
<1>3. Drained' /\ Finished' /\ NoneLeft' /\ Fresh' /\ Early' /\ Decided' /\ VerdictTrue'
    BY <1>1 DEF ChildInv, Drained, Ended, Finished, NoneLeft, Fresh, Early, Decided, VerdictTrue,
                output, Reads
<1>4. Hashed'
    BY <1>1 DEF ChildInv, Hashed, ToDo, pins, output
<1>5. QED BY <1>2, <1>3, <1>4 DEF ChildInv

LEMMA TimedOutInv == ASSUME ChildInv, TimedOut PROVE ChildInv'
<1>1. /\ pc = "wait" /\ pc' = "reap" /\ child' \in {child, "dying"} /\ (child' # child => child = "running")
      /\ UNCHANGED <<kind, todo, pins, prog, written, pipe, held, pumps, result>>
    BY DEF TimedOut
<1>2. Types' /\ Conserved' /\ Capped'
    BY <1>1 DEF ChildInv, Types, Conserved, Capped, pins, pumps
<1>3. Drained' /\ Finished' /\ NoneLeft' /\ Fresh' /\ Early' /\ Decided' /\ VerdictTrue'
    BY <1>1 DEF ChildInv, Drained, Ended, Finished, NoneLeft, Fresh, Early, Decided, VerdictTrue,
                pumps
<1>4. Hashed'
    BY <1>1 DEF ChildInv, Hashed, ToDo, pins
<1>5. QED BY <1>2, <1>3, <1>4 DEF ChildInv

\* A call that ends without a verdict of a check.
LEMMA EndInv ==
    ASSUME ChildInv, pc \in {"wait", "reap", "join"}, pc' \in {"join", "done"},
           pc' = "join" => result' = result,
           UNCHANGED <<kind, todo, pins, output, pump, got, buf>>,
           stop' \in BOOLEAN, stop = TRUE => stop' = TRUE, pc' = "join" => kind \in Reads,
           result' \in [status: {"none", "PASS", "FAIL", "ERROR", "raised"},
                        cut: [Streams -> BOOLEAN], kept: Counts],
           kind \in Reads => \A s \in Streams : result'.cut[s] => written[s] > Cap[s],
           kind = "check" => result'.status \in {"none", "ERROR", "raised"}
    PROVE  ChildInv'
<1>1. Types' /\ Conserved' /\ Capped'
    BY DEF ChildInv, Types, Conserved, Capped, pins, output
<1>2. Drained' /\ Finished' /\ NoneLeft' /\ Fresh' /\ Early'
    BY DEF ChildInv, Drained, Ended, Finished, NoneLeft, Fresh, Early, output
<1>3. Decided' /\ VerdictTrue'
    BY DEF ChildInv, Decided, VerdictTrue
<1>4. Hashed'
    BY DEF ChildInv, Hashed, ToDo, pins, output
<1>5. QED BY <1>1, <1>2, <1>3, <1>4 DEF ChildInv

LEMMA ReapedInv == ASSUME ChildInv, Reaped PROVE ChildInv'
<1>1. CASE Ended
    BY <1>1, EndInv DEF Reaped, ChildInv, Types, Capped, Reads
<1>2. CASE ~Ended
    BY <1>2, Given, EndInv DEF Reaped, ChildInv, Types, Capped, Reads
<1>3. QED BY <1>1, <1>2

LEMMA CheckTimedOutInv == ASSUME ChildInv, CheckTimedOut PROVE ChildInv'
<1>1. /\ kind = "check" /\ kind \notin Reads /\ pc = "reap" /\ Give("ERROR")
      /\ UNCHANGED <<kind, todo, pins, output, pump, got, buf>> /\ stop' = stop
    BY DEF CheckTimedOut, pumps, Reads
<1>2. Types /\ Capped /\ stop \in BOOLEAN
    BY DEF ChildInv, Types
<1>3. /\ result' \in [status: {"none", "PASS", "FAIL", "ERROR", "raised"},
                        cut: [Streams -> BOOLEAN], kept: Counts]
      /\ result'.status = "ERROR" /\ pc' = "done"
    BY <1>1, <1>2, Given
<1>4. QED BY <1>1, <1>2, <1>3, EndInv

LEMMA JoinInv == ASSUME ChildInv, Join PROVE ChildInv'
<1>1. /\ pc = "join" /\ pc' = "done" /\ result' = ReadResult
      /\ UNCHANGED <<kind, todo, pins, output, pumps>>
    BY DEF Join
<1>2. ReadResult \in [status: {"none", "PASS", "FAIL", "ERROR", "raised"},
                      cut: [Streams -> BOOLEAN], kept: Counts]
    BY DEF ReadResult, ChildInv, Types
<1>3. \A s \in Streams : ReadResult.cut[s] => written[s] > Cap[s]
    <2>1. SUFFICES ASSUME NEW s \in Streams, buf[s] > Cap[s] PROVE written[s] > Cap[s]
        BY DEF ReadResult
    <2>2. written[s] \in Nat /\ buf[s] <= written[s]
        BY Unmoved DEF ChildInv, Types, Conserved, Counts
    <2>3. QED BY <2>1, <2>2, Unmoved
<1>4. kind \in Reads
    BY <1>1 DEF ChildInv, Drained
<1>5. kind # "check" /\ stop \in BOOLEAN /\ stop' = stop
      /\ UNCHANGED <<kind, todo, pins, output, pump, got, buf>>
    BY <1>1, <1>4 DEF ChildInv, Types, pumps, Reads
<1>6. QED BY <1>1, <1>2, <1>3, <1>4, <1>5, EndInv

LEMMA JudgeInv == ASSUME ChildInv, Judge PROVE ChildInv'
<1>1. /\ kind = "check" /\ pc = "wait" /\ pc' = "done" /\ child = "exited"
      /\ UNCHANGED <<kind, todo, pins, output, pumps>>
    BY DEF Judge, Give
<1>2. CASE Give("raised")
    <2>1. Types /\ Capped /\ stop \in BOOLEAN /\ stop' = stop /\ kind \notin Reads
          /\ UNCHANGED <<kind, todo, pins, output, pump, got, buf>>
        BY <1>1 DEF ChildInv, Types, pumps, Reads
    <2>2. /\ result' \in [status: {"none", "PASS", "FAIL", "ERROR", "raised"},
                            cut: [Streams -> BOOLEAN], kept: Counts]
          /\ result'.status = "raised"
        BY <1>2, <2>1, Given
    <2>3. QED BY <1>1, <2>1, <2>2, EndInv
<1>3. CASE Give(IF prog.expected /\ prog.marker <= Total(buf) THEN "PASS" ELSE "FAIL")
    <2>1. buf = prog.size
        <3>1. \A s \in Streams : buf[s] = written[s]
            BY <1>1, Unmoved DEF Judge, ChildInv, Types, Drained, Conserved, Counts
        <3>2. buf = written
            BY <3>1 DEF ChildInv, Types, Counts
        <3>3. QED BY <1>1, <3>2 DEF ChildInv, Finished
    <2>2. result'.status = IF prog.expected /\ prog.marker <= Total(prog.size) THEN "PASS" ELSE "FAIL"
        BY <1>3, <2>1 DEF Give, ChildInv, Types
    <2>3. /\ result' \in [status: {"none", "PASS", "FAIL", "ERROR", "raised"},
                           cut: [Streams -> BOOLEAN], kept: Counts]
          /\ result'.cut = result.cut
        BY <1>3 DEF Give, ChildInv, Types
    <2>4. Types' /\ Conserved' /\ Capped'
        BY <1>1, <2>3 DEF ChildInv, Types, Conserved, Capped, pins, output, pumps
    <2>5. Drained' /\ Finished' /\ NoneLeft' /\ Fresh' /\ Early'
        BY <1>1 DEF ChildInv, Drained, Ended, Finished, NoneLeft, Fresh, Early, output, pumps, Reads
    <2>6. Decided' /\ VerdictTrue'
        BY <1>1, <2>2 DEF Decided, VerdictTrue, output
    <2>7. Hashed'
        BY <1>1 DEF ChildInv, Hashed, ToDo, pins, output
    <2>8. QED BY <2>4, <2>5, <2>6, <2>7 DEF ChildInv
<1>4. QED BY <1>2, <1>3 DEF Judge

\* Somebody replaces a pinned file: it is late from now on.
LEMMA ReplaceInv == ASSUME ChildInv, NEW f \in Files, Replace(f) PROVE ChildInv'
<1>1. /\ intact' \in {intact \ {f}, intact \cup {f}} /\ late' = late \cup {f}
      /\ UNCHANGED <<call, output, pumps, result>>
    BY DEF Replace
<1>2. Types'
    BY <1>1 DEF ChildInv, Types, call, output, pumps
<1>3. Conserved' /\ Capped'
    BY <1>1 DEF ChildInv, Conserved, Capped, call, output, pumps
<1>4. Drained' /\ Finished' /\ NoneLeft' /\ Fresh' /\ Early' /\ Decided' /\ VerdictTrue'
    BY <1>1 DEF ChildInv, Drained, Ended, Finished, NoneLeft, Fresh, Early, Decided, VerdictTrue,
                call, output, pumps
<1>5. Hashed'
    BY <1>1 DEF ChildInv, Hashed, ToDo, call, output
<1>6. QED BY <1>2, <1>3, <1>4, <1>5 DEF ChildInv

LEMMA StutterInv == ASSUME ChildInv, UNCHANGED vars PROVE ChildInv'
<1>1. Types' /\ Conserved' /\ Capped'
    BY DEF ChildInv, Types, Conserved, Capped, vars
<1>2. Drained' /\ Finished' /\ NoneLeft' /\ Fresh' /\ Early' /\ Decided' /\ VerdictTrue'
    BY DEF ChildInv, Drained, Ended, Finished, NoneLeft, Fresh, Early, Decided, VerdictTrue, vars
<1>3. Hashed'
    BY DEF ChildInv, Hashed, ToDo, vars
<1>4. QED BY <1>1, <1>2, <1>3 DEF ChildInv

LEMMA NextChild == ASSUME ChildInv, [Next]_vars PROVE ChildInv'
<1>1. CASE Caller
    BY <1>1, VerifyPinInv, SpawnInv, SpawnFailsInv, WaitedInv, ReapedInv, JoinInv, JudgeInv,
       CheckTimedOutInv DEF Caller
<1>2. CASE TimedOut \/ Done \/ UNCHANGED vars
    BY <1>2, TimedOutInv, StutterInv DEF Done
<1>3. CASE Child \/ Released
    BY <1>3, ChildWriteInv, ChildEndsInv, ReleasedInv DEF Child
<1>4. CASE \E s \in Streams : Pump(s)
    BY <1>4, PumpStartInv, PumpFillInv, PumpKeepInv, CollectInv DEF Pump
<1>5. CASE \E f \in Files : Replace(f)
    BY <1>5, ReplaceInv
<1>6. QED BY <1>1, <1>2, <1>3, <1>4, <1>5 DEF Next

(***************************************************************************)
(* The invariant holds in every reachable state of a call, for every cap,    *)
(* chunk and pipe size and every child.                                      *)
(***************************************************************************)
THEOREM ChildInvariant == Spec => []ChildInv
<1>1. QED BY InitChild, NextChild, PTL DEF Spec

----------------------------------------------------------------------------
\* What the invariant says of a call.

(***************************************************************************)
(* A git read keeps at most a byte more than its cap and says truncated only *)
(* of a stream that exceeded it (_run_git_capped).                           *)
(***************************************************************************)
THEOREM Bounded == Spec => []OutputBounded
<1>1. ChildInv => OutputBounded
    BY DEF ChildInv, Capped, OutputBounded
<1>2. QED BY <1>1, ChildInvariant, PTL

(***************************************************************************)
(* Both pumps of a git read outlive the caller's wait for a running child,   *)
(* so the child is never left to block on a full pipe (_pump).               *)
(***************************************************************************)
THEOREM AlwaysDrained == Spec => []ChildDrained
<1>1. ChildInv => ChildDrained
    BY DEF ChildInv, Drained, ChildDrained, Ended
<1>2. QED BY <1>1, ChildInvariant, PTL

(***************************************************************************)
(* The verdict of a declared check is about the whole output of a child that *)
(* ended by itself (run_declared_check).                                     *)
(***************************************************************************)
THEOREM Verdicts == Spec => []VerdictTrue
<1>1. ChildInv => VerdictTrue
    BY DEF ChildInv
<1>2. QED BY <1>1, ChildInvariant, PTL

(***************************************************************************)
(* A started child runs pinned files only, but for those replaced after they *)
(* were hashed (resolve_trusted_executable, run_declared_check).             *)
(***************************************************************************)
THEOREM PinsHeld == Spec => []PinnedUnlessLate
<1>1. ChildInv => PinnedUnlessLate
    <2> SUFFICES ASSUME ChildInv, child # "none" PROVE Pinned(kind) \ late \subseteq intact
        BY DEF PinnedUnlessLate
    <2>1. ToDo = {}
        BY DEF ChildInv, NoneLeft, ToDo
    <2>2. QED BY <2>1 DEF ChildInv, Hashed
<1>2. QED BY <1>1, ChildInvariant, PTL

----------------------------------------------------------------------------
\* Sizes.  Only the bounds need this much: the other parts do without.

Within ==
    /\ pc \in {"verify", "wait", "reap", "join", "done"} /\ Len(todo) <= 5
    /\ edits \in 0..MaxEdits /\ held \in BOOLEAN
    /\ prog \in Programs("check") \cup {NoProg}
    /\ \A s \in Streams : written[s] <= prog.size[s] /\ pipe[s] <= PipeSize /\ got[s] <= Chunk
    /\ result.kept \in Sizes

\* A size is a count that is within the largest output.
LEMMA SizesAre ==
    /\ Sizes \subseteq Counts
    /\ \A n \in Sizes, s \in Streams : n[s] <= MaxOutput[s]
    /\ \A n \in Counts : (\A s \in Streams : n[s] <= MaxOutput[s]) => n \in Sizes
<1>1. /\ MaxOutput.out \in Nat /\ MaxOutput.err \in Nat
      /\ MaxOutput["out"] = MaxOutput.out /\ MaxOutput["err"] = MaxOutput.err
  BY MaxOutputIsNat DEF Streams
<1>2. ASSUME NEW n \in Sizes
      PROVE  n \in Counts /\ \A s \in Streams : n[s] <= MaxOutput[s]
  <2>1. PICK i \in 0..MaxOutput.out, j \in 0..MaxOutput.err : n = [out |-> i, err |-> j]
    BY DEF Sizes
  <2>2. i \in Nat /\ j \in Nat /\ i <= MaxOutput.out /\ j <= MaxOutput.err
    BY <1>1, <2>1
  <2>3. QED
    BY <1>1, <2>1, <2>2 DEF Counts, Streams
<1>3. ASSUME NEW n \in Counts, \A s \in Streams : n[s] <= MaxOutput[s]
      PROVE  n \in Sizes
  <2>1. n = [out |-> n["out"], err |-> n["err"]]
    BY DEF Counts, Streams
  <2>2. n["out"] \in 0..MaxOutput.out /\ n["err"] \in 0..MaxOutput.err
    BY <1>1, <1>3 DEF Counts, Streams
  <2>3. QED
    BY <2>1, <2>2 DEF Sizes
<1>4. QED
  BY <1>2, <1>3

\* A read's child is one of those a check may have.
LEMMA AnyProgram ==
    ASSUME NEW k, NEW q \in Programs(k)
    PROVE  q \in Programs("check")
<1>1. Total(MaxOutput) \in Nat
  BY MaxOutputIsNat DEF Total, Streams
<1>2. (IF k = "check" THEN 0..(Total(MaxOutput) + 1) ELSE {0}) \subseteq 0..(Total(MaxOutput) + 1)
  BY <1>1
<1>3. QED
  BY <1>2 DEF Programs

\* A call starts within the bounds.
LEMMA WithinStart == Init => Within
<1> SUFFICES ASSUME Init PROVE Within
  OBVIOUS
<1>1. Len(todo) <= 5
  BY DEF Init, Kinds, Reads, FilesChecked
<1>2. Zero \in Sizes
  BY SizesAre, Constants DEF Counts
<1>3. /\ prog = NoProg /\ NoProg.size = Zero /\ written = Zero /\ pipe = Zero /\ got = Zero
      /\ result.kept = Zero /\ edits = 0 /\ held = FALSE /\ pc = "verify"
  BY DEF Init, NoProg, Nothing
<1>4. \A s \in Streams : written[s] <= prog.size[s] /\ pipe[s] <= PipeSize /\ got[s] <= Chunk
  BY <1>3, Constants, SizesPositive
<1>5. edits \in 0..MaxEdits
  BY <1>3, SizesPositive
<1>6. QED
  BY <1>1, <1>2, <1>3, <1>4, <1>5 DEF Within

\* The buffers hold no more than the child has written, which is within its size.
LEMMA BufWithin == ASSUME ChildInv, Within PROVE written \in Sizes /\ buf \in Sizes
<1>1. prog.size \in Sizes
  <2>1. NoProg.size \in Sizes
    BY SizesAre, Constants DEF NoProg, Counts
  <2>2. QED
    BY <2>1 DEF Within, Programs
<1>2. ASSUME NEW s \in Streams
      PROVE  written[s] <= MaxOutput[s] /\ buf[s] <= MaxOutput[s]
  <2>1. /\ written[s] \in Nat /\ buf[s] \in Nat /\ got[s] \in Nat /\ pipe[s] \in Nat
        /\ prog.size[s] \in Nat /\ MaxOutput[s] \in Nat
    BY <1>1, SizesAre, Constants DEF ChildInv, Types, Counts
  <2>2. written[s] <= prog.size[s] /\ prog.size[s] <= MaxOutput[s]
    BY <1>1, SizesAre DEF Within
  <2>3. buf[s] <= written[s]
    BY <2>1 DEF ChildInv, Conserved
  <2>4. QED
    BY <2>1, <2>2, <2>3
<1>3. QED
  BY <1>2, SizesAre DEF ChildInv, Types

\* A step that moves no output and starts no child.
LEMMA QuietStep ==
    ASSUME Within, UNCHANGED <<prog, written, pipe, got>>,
           pc' \in {"verify", "wait", "reap", "join", "done"}, Len(todo') <= 5,
           edits' \in 0..MaxEdits, held' \in BOOLEAN, result'.kept \in Sizes
    PROVE  Within'
BY DEF Within

\* An early end keeps nothing of the output.
LEMMA GiveKept ==
    ASSUME ChildInv, NEW st, Give(st)
    PROVE  pc' = "done" /\ result'.kept = result.kept
BY DEF Give, ChildInv, Types

\* A step of the calling thread, which alone starts a child and returns output.
LEMMA CallerWithin == ASSUME ChildInv, Within, Caller PROVE Within'
<1>0. /\ Len(todo) <= 5 /\ edits \in 0..MaxEdits /\ held \in BOOLEAN /\ result.kept \in Sizes
      /\ pc \in {"verify", "wait", "reap", "join", "done"}
  BY DEF Within
<1>1. CASE VerifyPin
  <2>1. Len(todo') <= 5
    BY <1>0, <1>1 DEF VerifyPin, ChildInv, Types
  <2>2. pc' \in {"verify", "done"} /\ result'.kept = result.kept
    BY <1>1, GiveKept DEF VerifyPin
  <2>3. UNCHANGED <<prog, written, pipe, got, edits, held>>
    BY <1>1 DEF VerifyPin, output, pumps
  <2>4. QED
    BY <1>0, <2>1, <2>2, <2>3, QuietStep
<1>2. CASE Spawn
  <2>1. prog' \in Programs("check") /\ prog'.size \in Counts /\ prog'.leaves \in BOOLEAN
    BY <1>2, AnyProgram, ProgramSizes DEF Spawn, Programs
  <2>2. written = Zero
    BY <1>2 DEF Spawn, ChildInv, Fresh, Early
  <2>3. \A s \in Streams : written[s] <= prog'.size[s]
    BY <2>1, <2>2, Constants DEF Counts
  <2>4. /\ pc' = "wait" /\ held' = prog'.leaves
        /\ UNCHANGED <<todo, edits, written, pipe, got, result>>
    BY <1>2 DEF Spawn, pins
  <2>5. QED
    BY <2>1, <2>3, <2>4 DEF Within
<1>3. CASE SpawnFails \/ CheckTimedOut \/ Judge
  <2>1. pc' = "done" /\ result'.kept = result.kept
    BY <1>3, GiveKept DEF SpawnFails, CheckTimedOut, Judge
  <2>2. UNCHANGED <<prog, written, pipe, got, edits, held, todo>>
    BY <1>3 DEF SpawnFails, CheckTimedOut, Judge, output, pumps, pins
  <2>3. QED
    BY <1>0, <2>1, <2>2, QuietStep
<1>4. CASE Waited \/ Reaped
  <2>1. pc' \in {"join", "done"} /\ result'.kept = result.kept
    BY <1>4, GiveKept DEF Waited, Reaped
  <2>2. UNCHANGED <<prog, written, pipe, got, edits, held, todo>>
    BY <1>4 DEF Waited, Reaped, output, pins
  <2>3. QED
    BY <1>0, <2>1, <2>2, QuietStep
<1>5. CASE Join
  <2>1. pc' = "done" /\ result'.kept = buf /\ buf \in Sizes
    BY <1>5, BufWithin DEF Join, ReadResult
  <2>2. UNCHANGED <<prog, written, pipe, got, edits, held, todo>>
    BY <1>5 DEF Join, output, pumps, pins
  <2>3. QED
    BY <1>0, <2>1, <2>2, QuietStep
<1>6. QED
  BY <1>1, <1>2, <1>3, <1>4, <1>5 DEF Caller

\* The child writes no more than it has and the pipe holds.
LEMMA ChildWithin == ASSUME ChildInv, Within, NEW s \in Streams, ChildWrite(s) PROVE Within'
<1>1. written[s] \in Nat /\ pipe[s] \in Nat /\ prog.size[s] \in Nat /\ PipeSize \in Nat
  BY SizesPositive DEF ChildInv, Types, Counts
<1>2. written[s] + 1 <= prog.size[s] /\ pipe[s] + 1 <= PipeSize
  BY <1>1 DEF ChildWrite
<1>3. /\ written' = [written EXCEPT ![s] = written[s] + 1]
      /\ pipe' = [pipe EXCEPT ![s] = pipe[s] + 1]
      /\ UNCHANGED <<pc, todo, edits, held, prog, got, result>>
  BY DEF ChildWrite, call, pins, pumps
<1>4. \A r \in Streams : written'[r] <= prog.size[r] /\ pipe'[r] <= PipeSize
  BY <1>2, <1>3 DEF ChildInv, Types, Counts, Within
<1>5. QED
  BY <1>3, <1>4 DEF Within

\* A reader asks for no more than a chunk.
LEMMA PumpWithin == ASSUME ChildInv, Within, NEW s \in Streams, Pump(s) PROVE Within'
<1>1. /\ UNCHANGED <<pc, todo, edits, held, prog, written, result>>
      /\ \A r \in Streams \ {s} : pipe'[r] = pipe[r] /\ got'[r] = got[r]
  BY DEF Pump, PumpStart, PumpFill, PumpKeep, Collect, call, pins, output, ChildInv, Types, Counts
<1>2. /\ pipe[s] \in Nat /\ got[s] \in Nat /\ Chunk \in Nat /\ PipeSize \in Nat
      /\ pipe[s] <= PipeSize /\ got[s] <= Chunk
  BY SizesPositive DEF ChildInv, Types, Counts, Within
<1>3. pipe'[s] <= PipeSize /\ got'[s] <= Chunk
  <2>1. CASE PumpStart(s)
    BY <1>2, <2>1 DEF PumpStart, output
  <2>2. CASE PumpFill(s)
    <3> DEFINE n == AtMost(pipe[s], Chunk - got[s])
    <3>1. n \in Nat /\ n <= Chunk - got[s]
      BY <1>2 DEF AtMost
    <3>2. got'[s] = got[s] + n /\ pipe'[s] = pipe[s] - n
      BY <2>2 DEF PumpFill, ChildInv, Types, Counts
    <3> HIDE DEF n
    <3>3. QED
      BY <1>2, <3>1, <3>2
  <2>3. CASE PumpKeep(s)
    BY <1>2, <2>3 DEF PumpKeep, output, ChildInv, Types, Counts
  <2>4. CASE Collect(s)
    <3> DEFINE n == AtMost(pipe[s], Chunk)
    <3>1. n \in Nat
      BY <1>2, AtMostFacts
    <3>2. got'[s] = got[s] /\ pipe'[s] = pipe[s] - n
      BY <2>4 DEF Collect, ChildInv, Types, Counts
    <3> HIDE DEF n
    <3>3. QED
      BY <1>2, <3>1, <3>2
  <2>5. QED
    BY <2>1, <2>2, <2>3, <2>4 DEF Pump
<1>4. QED
  BY <1>1, <1>3 DEF Within

\* Every step stays within the bounds.
LEMMA WithinStep == ASSUME ChildInv, Within, [Next]_vars PROVE Within'
<1>0. /\ Len(todo) <= 5 /\ edits \in 0..MaxEdits /\ held \in BOOLEAN /\ result.kept \in Sizes
      /\ pc \in {"verify", "wait", "reap", "join", "done"}
  BY DEF Within
<1>1. CASE TimedOut \/ ChildExit \/ ChildDies \/ Released \/ Done \/ UNCHANGED vars
  <2>1. /\ UNCHANGED <<prog, written, pipe, got, edits, todo, result>>
        /\ pc' \in {pc, "reap"} /\ held' \in {held, FALSE}
    BY <1>1 DEF TimedOut, ChildExit, ChildDies, Released, Done, vars, call, pins, output, pumps
  <2>2. QED
    BY <1>0, <2>1, QuietStep
<1>2. CASE \E f \in Files : Replace(f)
  <2>1. UNCHANGED <<prog, written, pipe, got, todo, result, pc, held>>
    BY <1>2 DEF Replace, call, output, pumps
  <2>2. edits' \in 0..MaxEdits
    BY <1>0, <1>2, SizesPositive DEF Replace
  <2>3. QED
    BY <1>0, <2>1, <2>2, QuietStep
<1>3. CASE Caller
  BY <1>3, CallerWithin
<1>4. CASE \E s \in Streams : ChildWrite(s)
  BY <1>4, ChildWithin
<1>5. CASE \E s \in Streams : Pump(s)
  BY <1>5, PumpWithin
<1>6. QED
  BY <1>1, <1>2, <1>3, <1>4, <1>5 DEF Next, Child

(***************************************************************************)
(* Type correctness for every cap, chunk and pipe size and every child: no   *)
(* pipe holds more than it can, no read() more than it asked for, and what   *)
(* is kept for the caller is part of what the child wrote.                   *)
(***************************************************************************)
THEOREM ChildTypes == Spec => []TypeOK
<1>1. ASSUME ChildInv, Within PROVE TypeOK
  <2>1. \A s \in Streams : pipe[s] \in 0..PipeSize /\ got[s] \in 0..Chunk
    BY <1>1, SizesPositive DEF ChildInv, Types, Counts, Within
  <2>2. result.status \in {"none", "PASS", "FAIL", "ERROR", "raised"}
    BY <1>1 DEF ChildInv, Types
  <2>3. QED
    BY <1>1, <2>1, <2>2, BufWithin DEF TypeOK, ChildInv, Types, Within
<1>2. ChildInv /\ Within => TypeOK
  BY <1>1
<1>3. ChildInv /\ Within /\ [Next]_vars => Within'
  BY WithinStep
<1>4. QED
  BY <1>2, <1>3, WithinStart, ChildInvariant, PTL DEF Spec
=============================================================================
