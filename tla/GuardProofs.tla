---------------------------- MODULE GuardProofs ----------------------------
(***************************************************************************)
(* Proofs about PrewriteGuard: type correctness for any number of processes, *)
(* and the manifest's lifecycle for as long as calls do not overlap.  The    *)
(* guard takes no lock, so that nobody overlaps is the caller's to ensure:   *)
(* it is a hypothesis of the theorems, and without it they are false.        *)
(*                                                                           *)
(* Calls that do not overlap may still die anywhere: the argument is that    *)
(* the manifest on disk is the last complete one or is torn, and that a call *)
(* which has passed its checks will publish what may follow that one.        *)
(***************************************************************************)
EXTENDS PrewriteGuard, TLAPS

\* No two processes are inside a call at once.
OneAtATime == \A p, q \in Procs : pc[p] # "idle" /\ pc[q] # "idle" => p = q

\* A manifest as it is captured.
Fresh(m) == m.state = "proposed" /\ m.intent = Unbound

\* A manifest that may be published next.
Follows(m) ==
    IF published = NoFile
    THEN Fresh(m)
    ELSE /\ m.pre = published.pre
         /\ \/ /\ published.state = "proposed" /\ m.state = "proposed"
               /\ m.intent # Unbound
            \/ /\ m.state \in VALID_TRANSITIONS[published.state]
               /\ m.intent = published.intent

\* A receipt of the write that the last complete manifest describes.
Attests(r) ==
    /\ published # NoFile
    /\ published.state \in {"applied", "verified"}
    /\ r.post = published.intent /\ r.post # published.pre

\* The manifest is the last complete one, unless it is torn.
Latest == manifest \in {Torn, published}

Attested == receipt \notin {NoFile, Torn} => Attests(receipt)

\* What a call that has passed its checks will write.
Progress(p) ==
    /\ pc[p] = "new" => Fresh(call[p].manifest)
    /\ pc[p] \in {"r_new", "r_truncate", "r_fill"} =>
          /\ call[p].receipt # NoFile /\ Attests(call[p].receipt)
    /\ pc[p] \in {"r_new", "r_truncate", "r_fill", "compare", "truncate", "fill"} =>
          Follows(call[p].manifest)

\* And there is something to write.
Loaded ==
    \A p \in Procs : pc[p] \notin {"idle", "load"} => call[p].manifest # NoFile

\* A process inside a call is in one of the four.
Purposeful == \A p \in Procs : pc[p] # "idle" => call[p].op # "none"

TypeInv == TypeOK /\ Purposeful

\* What holds of calls that do not overlap.
GuardInv == Attested /\ \A p \in Procs : Progress(p)


----------------------------------------------------------------------------
(* The steps.                                                                *)

\* A step of one process.
Steps(p) ==
    \/ Capture(p) \/ StartBind(p) \/ StartTransition(p) \/ StartReceipt(p)
    \/ Load(p) \/ CheckNew(p) \/ TruncateReceipt(p) \/ FillReceipt(p)
    \/ Compare(p) \/ Truncate(p) \/ Fill(p) \/ Abort(p)

\* A step is one of a process, or of nobody inside a call.
LEMMA Cases == [Next]_vars <=> Write \/ UNCHANGED vars \/ \E p \in Procs : Steps(p)
BY DEF Next, Steps

\* The calls, of the right type.
CallsOK ==
    /\ pc \in [Procs -> Labels] /\ call \in [Procs -> Call]
    /\ \A p \in Procs : pc[p] = "idle" <=> call[p] = NoCall
    /\ \A p \in Procs : call[p].op = "bind" <=> call[p].hash # Unbound
    /\ Purposeful

FilesOK ==
    /\ target \in Images
    /\ manifest \in Manifest \cup {NoFile, Torn} /\ published \in Manifest \cup {NoFile}
    /\ receipt \in Receipt \cup {NoFile, Torn}
    /\ edits \in 0..MaxEdits

\* The type invariant, in two parts.
LEMMA Parts == TypeInv <=> CallsOK /\ FilesOK
BY DEF TypeInv, TypeOK, CallsOK, FilesOK

\* A call that goes on: it is for what it was for, and brings the hash it brought.
Sound(c) == c \in Call /\ c.op # "none" /\ (c.op = "bind" <=> c.hash # Unbound)

\* A call that goes on, or ends, leaves the calls in order.
LEMMA Going ==
    ASSUME CallsOK, NEW p \in Procs, NEW label \in Labels, NEW c, Goto(p, label, c),
           \/ label # "idle" /\ Sound(c)
           \/ label = "idle" /\ c = NoCall
    PROVE  CallsOK' /\ pc'[p] = label /\ call'[p] = c
           /\ \A q \in Procs \ {p} : pc'[q] = pc[q] /\ call'[q] = call[q]
<1>1. NoCall \in Call /\ NoCall.op = "none" /\ NoCall.hash = Unbound
  BY DEF NoCall, Call
<1>2. c \in Call
  BY <1>1 DEF Sound
<1>3. /\ pc' \in [Procs -> Labels] /\ call' \in [Procs -> Call]
      /\ pc'[p] = label /\ call'[p] = c
      /\ \A q \in Procs \ {p} : pc'[q] = pc[q] /\ call'[q] = call[q]
  BY <1>2 DEF Goto, CallsOK
<1>4. label = "idle" <=> c = NoCall
  BY <1>1 DEF Sound
<1>5. c.op = "bind" <=> c.hash # Unbound
  BY <1>1 DEF Sound
<1>6. Purposeful'
  BY <1>3 DEF Sound, CallsOK, Purposeful
<1>7. QED
  BY <1>3, <1>4, <1>5, <1>6 DEF CallsOK

\* A process inside a call is in a sound one.
LEMMA InCall ==
    ASSUME CallsOK, NEW p \in Procs, pc[p] # "idle"
    PROVE  Sound(call[p])
BY DEF Sound, CallsOK, Purposeful

\* Nothing but these three writes a file.
LEMMA OnlyWriters ==
    ASSUME NEW p \in Procs, Steps(p)
    PROVE  TruncateReceipt(p) \/ FillReceipt(p) \/ Truncate(p) \/ Fill(p) \/ UNCHANGED files
BY DEF Steps, Capture, StartBind, StartTransition, StartReceipt, ReadBytes, Load, CheckNew, Compare,
       Abort

\* A process enters a call as one of these.
LEMMA Starting ==
    ASSUME FilesOK, NEW p \in Procs,
           Capture(p) \/ StartBind(p) \/ StartTransition(p) \/ StartReceipt(p)
    PROVE  \E c :
              /\ Sound(c)
              /\ \/ Goto(p, "new", c) /\ Fresh(c.manifest) /\ c.manifest \in Manifest
                 \/ Goto(p, "load", c)
<1> DEFINE m == [state |-> "proposed", pre |-> target, intent |-> Unbound]
           first == [NoCall EXCEPT !.op = "capture", !.manifest = m]
           Read(c) == [c EXCEPT !.before = manifest]
<1>1. CASE Capture(p)
  <2>1. m \in Manifest /\ Fresh(m)
    BY DEF Manifest, Fresh, LIFECYCLE_STATES, FilesOK
  <2>2. Sound(first) /\ first.manifest = m
    BY <2>1 DEF Sound, NoCall, Call
  <2>3. Goto(p, "new", first)
    BY <1>1 DEF Capture
  <2>4. QED
    BY <2>1, <2>2, <2>3
<1>2. CASE StartBind(p)
  <2>1. PICK h \in Contents : ReadBytes(p, [NoCall EXCEPT !.op = "bind", !.hash = h])
    BY <1>2 DEF StartBind
  <2> DEFINE c == Read([NoCall EXCEPT !.op = "bind", !.hash = h])
  <2>2. Sound(c)
    BY GuardConstants DEF Sound, NoCall, Call, FilesOK
  <2>3. Goto(p, "load", c)
    BY <2>1 DEF ReadBytes
  <2>4. QED
    BY <2>2, <2>3
<1>3. CASE StartTransition(p)
  <2>1. PICK s \in LIFECYCLE_STATES : ReadBytes(p, [NoCall EXCEPT !.op = "transition", !.to = s])
    BY <1>3 DEF StartTransition
  <2> DEFINE c == Read([NoCall EXCEPT !.op = "transition", !.to = s])
  <2>2. Sound(c)
    BY DEF Sound, NoCall, Call, FilesOK
  <2>3. Goto(p, "load", c)
    BY <2>1 DEF ReadBytes
  <2>4. QED
    BY <2>2, <2>3
<1>4. CASE StartReceipt(p)
  <2> DEFINE c == Read([NoCall EXCEPT !.op = "receipt"])
  <2>1. Sound(c)
    BY DEF Sound, NoCall, Call, FilesOK
  <2>2. Goto(p, "load", c)
    BY <1>4 DEF StartReceipt, ReadBytes
  <2>3. QED
    BY <2>1, <2>2
<1>5. QED
  BY <1>1, <1>2, <1>3, <1>4

\* What a call has read passes its checks, and it knows what to write.
LEMMA Loading ==
    ASSUME CallsOK, FilesOK, Latest, NEW p \in Procs, Load(p)
    PROVE  \E c :
              /\ Sound(c) /\ c.manifest \in Manifest /\ Follows(c.manifest)
              /\ \/ Goto(p, "compare", c)
                 \/ Goto(p, "r_new", c) /\ c.receipt \in Receipt /\ Attests(c.receipt)
<1> DEFINE c == call[p]
           bound == [c EXCEPT !.manifest = [manifest EXCEPT !.intent = c.hash]]
           moved == [c EXCEPT !.manifest = [manifest EXCEPT !.state = c.to]]
           attested == [c EXCEPT !.manifest = [manifest EXCEPT !.state = "verified"],
                                 !.receipt = [post |-> target]]
<1>1. Sound(c)
  BY InCall DEF Load
<1>2. manifest \notin {NoFile, Torn} =>
         /\ manifest \in Manifest /\ published = manifest /\ published # NoFile
  BY DEF FilesOK, Latest
<1>3. CASE c.op = "bind" /\ CanBind(manifest) /\ Goto(p, "compare", bound)
  <2>1. c.hash \in Contents /\ c.hash # Unbound
    BY <1>1, <1>3 DEF Sound, Call
  <2>2. manifest \in Manifest /\ published = manifest /\ published # NoFile
        /\ manifest.state = "proposed"
    BY <1>2, <1>3 DEF CanBind
  <2>3. bound.manifest \in Manifest /\ Follows(bound.manifest)
    BY <1>1, <2>1, <2>2 DEF Manifest, Follows, Sound, Call
  <2>4. Sound(bound)
    BY <1>1, <2>3 DEF Sound, Call
  <2>5. QED
    BY <1>3, <2>3, <2>4
<1>4. CASE c.op = "transition" /\ CanMove(manifest, c.to) /\ Goto(p, "compare", moved)
  <2>1. manifest \in Manifest /\ published = manifest /\ published # NoFile
    BY <1>2, <1>4 DEF CanMove, Valid
  <2>2. c.to \in VALID_TRANSITIONS[manifest.state] /\ c.to \in LIFECYCLE_STATES
    BY <1>4, <2>1 DEF CanMove, VALID_TRANSITIONS, Manifest, LIFECYCLE_STATES
  <2>3. moved.manifest \in Manifest /\ Follows(moved.manifest)
    BY <1>1, <2>1, <2>2 DEF Manifest, Follows, Sound, Call
  <2>4. Sound(moved)
    BY <1>1, <2>3 DEF Sound, Call
  <2>5. QED
    BY <1>4, <2>3, <2>4
<1>5. CASE c.op = "receipt" /\ CanReceipt(manifest) /\ Goto(p, "r_new", attested)
  <2>1. manifest \in Manifest /\ published = manifest /\ published # NoFile
        /\ manifest.state = "applied"
    BY <1>2, <1>5 DEF CanReceipt, Valid
  <2>2. attested.manifest = [manifest EXCEPT !.state = "verified"]
        /\ attested.receipt = [post |-> target]
    BY <1>1 DEF Sound, Call
  <2>3. attested.manifest \in Manifest /\ Follows(attested.manifest)
    BY <2>1, <2>2 DEF Manifest, Follows, VALID_TRANSITIONS, LIFECYCLE_STATES
  <2>4. attested.receipt \in Receipt /\ Attests(attested.receipt)
    BY <1>5, <2>1, <2>2 DEF Receipt, Attests, CanReceipt
  <2>5. Sound(attested)
    BY <1>1, <2>3, <2>4 DEF Sound, Call
  <2>6. QED
    BY <1>5, <2>3, <2>4, <2>5
<1>6. QED
  BY <1>3, <1>4, <1>5 DEF Load

\* What is left of a call that does not check the manifest: it goes on as it is, or ends.
LEMMA GoesOn ==
    ASSUME CallsOK, NEW p \in Procs,
           \/ CheckNew(p) \/ TruncateReceipt(p) \/ FillReceipt(p) \/ Compare(p) \/ Truncate(p)
    PROVE  /\ pc[p] # "idle"
           /\ \E label \in Labels \ {"idle", "new", "load", "r_new"} : Goto(p, label, call[p])
BY DEF CheckNew, TruncateReceipt, FillReceipt, Compare, Truncate, Proceed, Labels

\* The steps, by what becomes of the call.
LEMMA CallsStep ==
    ASSUME CallsOK, FilesOK, Latest, NEW p \in Procs, Steps(p)
    PROVE  CallsOK' /\ \A q \in Procs \ {p} : pc'[q] = pc[q] /\ call'[q] = call[q]
<1>1. CASE Capture(p) \/ StartBind(p) \/ StartTransition(p) \/ StartReceipt(p)
  <2>1. PICK c : Sound(c) /\ (Goto(p, "new", c) \/ Goto(p, "load", c))
    BY <1>1, Starting
  <2>2. QED
    BY <2>1, Going DEF Labels
<1>2. CASE Load(p)
  <2>1. PICK c : Sound(c) /\ (Goto(p, "compare", c) \/ Goto(p, "r_new", c))
    BY <1>2, Loading
  <2>2. QED
    BY <2>1, Going DEF Labels
<1>3. CASE CheckNew(p) \/ TruncateReceipt(p) \/ FillReceipt(p) \/ Compare(p) \/ Truncate(p)
  <2>1. Sound(call[p])
    BY <1>3, GoesOn, InCall
  <2>2. PICK label \in Labels \ {"idle"} : Goto(p, label, call[p])
    BY <1>3, GoesOn
  <2>3. QED
    BY <2>1, <2>2, Going
<1>4. CASE Fill(p) \/ Abort(p)
  BY <1>4, Going DEF Fill, Abort, Return, Labels
<1>5. QED
  BY <1>1, <1>2, <1>3, <1>4 DEF Steps

\* The files keep their types, and the manifest is the last complete one or torn.
LEMMA FilesStep ==
    ASSUME CallsOK, FilesOK, Latest, Loaded, NEW p \in Procs, Steps(p)
    PROVE  FilesOK' /\ Latest'
<1>1. call[p].manifest \in Manifest \cup {NoFile} /\ call[p].receipt \in Receipt \cup {NoFile}
  BY DEF CallsOK, Call
<1>2. CASE TruncateReceipt(p) \/ FillReceipt(p)
  BY <1>1, <1>2 DEF TruncateReceipt, FillReceipt, FilesOK, Latest
<1>3. CASE Truncate(p)
  BY <1>3 DEF Truncate, FilesOK, Latest
<1>4. CASE Fill(p)
  BY <1>1, <1>4 DEF Fill, FilesOK, Latest
<1>5. CASE UNCHANGED files
  BY <1>5 DEF files, FilesOK, Latest
<1>6. QED
  BY <1>2, <1>3, <1>4, <1>5, OnlyWriters

\* What a call will write is there once it has passed its checks.
LEMMA LoadedStep ==
    ASSUME CallsOK, FilesOK, Latest, Loaded, NEW p \in Procs, Steps(p)
    PROVE  Loaded'
<1>1. \A q \in Procs \ {p} : pc'[q] = pc[q] /\ call'[q] = call[q]
  BY CallsStep
<1>2. NoFile \notin Manifest
  BY FilesConstants
<1>3. pc'[p] \notin {"idle", "load"} => call'[p].manifest # NoFile
  <2>1. CASE Capture(p) \/ StartBind(p) \/ StartTransition(p) \/ StartReceipt(p)
    <3>1. PICK c : \/ Goto(p, "new", c) /\ c.manifest \in Manifest
                   \/ Goto(p, "load", c)
      BY <2>1, Starting
    <3>2. QED
      BY <1>2, <3>1 DEF Goto, CallsOK
  <2>2. CASE Load(p)
    <3>1. PICK c : c.manifest \in Manifest /\ (Goto(p, "compare", c) \/ Goto(p, "r_new", c))
      BY <2>2, Loading
    <3>2. QED
      BY <1>2, <3>1 DEF Goto, CallsOK
  <2>3. CASE CheckNew(p) \/ TruncateReceipt(p) \/ FillReceipt(p) \/ Compare(p) \/ Truncate(p)
    <3>1. pc[p] \notin {"idle", "load"}
      BY <2>3 DEF CheckNew, TruncateReceipt, FillReceipt, Compare, Truncate
    <3>2. call'[p] = call[p]
      BY <2>3, GoesOn DEF Goto, CallsOK
    <3>3. QED
      BY <3>1, <3>2 DEF Loaded
  <2>4. CASE Fill(p) \/ Abort(p)
    BY <2>4 DEF Fill, Abort, Return, Goto, CallsOK
  <2>5. QED
    BY <2>1, <2>2, <2>3, <2>4 DEF Steps
<1>4. QED
  BY <1>1, <1>3 DEF Loaded

TypesInv == TypeInv /\ Latest /\ Loaded

\* The type invariant is inductive, whatever overlaps.
LEMMA TypesStep == TypesInv /\ [Next]_vars => TypesInv'
<1> SUFFICES ASSUME TypesInv, [Next]_vars PROVE TypesInv'
  OBVIOUS
<1>1. CallsOK /\ FilesOK /\ Latest /\ Loaded
  BY Parts DEF TypesInv
<1>2. CASE Write \/ UNCHANGED vars
  <2>1. UNCHANGED <<manifest, receipt, published, pc, call>>
    BY <1>2 DEF Write, vars
  <2>2. target' \in Images /\ edits' \in 0..MaxEdits
    BY <1>1, <1>2, GuardConstants DEF Write, vars, FilesOK
  <2>3. CallsOK' /\ FilesOK' /\ Latest' /\ Loaded'
    BY <1>1, <2>1, <2>2 DEF CallsOK, FilesOK, Latest, Loaded, Purposeful
  <2>4. QED
    BY <2>3 DEF TypesInv, TypeInv, TypeOK, CallsOK, FilesOK
<1>3. CASE \E p \in Procs : Steps(p)
  <2>1. PICK p \in Procs : Steps(p)
    BY <1>3
  <2>2. CallsOK' /\ FilesOK' /\ Latest' /\ Loaded'
    BY <1>1, <2>1, CallsStep, FilesStep, LoadedStep
  <2>3. QED
    BY <2>2 DEF TypesInv, TypeInv, TypeOK, CallsOK, FilesOK
<1>4. QED
  BY <1>2, <1>3, Cases

\* It holds at first.
LEMMA TypesStart == Init => TypesInv
<1> SUFFICES ASSUME Init PROVE TypesInv
  OBVIOUS
<1>1. NoCall \in Call /\ NoCall.op = "none" /\ NoCall.hash = Unbound /\ "idle" \in Labels
  BY DEF NoCall, Call, Labels
<1>2. CallsOK
  BY <1>1 DEF Init, CallsOK, Purposeful
<1>3. FilesOK
  BY GuardConstants DEF Init, FilesOK
<1>4. Latest /\ Loaded
  BY DEF Init, Latest, Loaded
<1>5. QED
  BY <1>2, <1>3, <1>4, Parts DEF TypesInv

\* So it holds always.
LEMMA AlwaysTypes == Spec => []TypesInv
BY TypesStart, TypesStep, PTL DEF Spec

(***************************************************************************)
(* Type correctness for any number of processes, whose calls may overlap and *)
(* die anywhere: the manifest and the receipt are missing, torn or complete, *)
(* and only bind_intent brings a hash (guard.py 214-218).                    *)
(***************************************************************************)
THEOREM GuardTypes == Spec => []TypeOK
<1>1. TypesInv => TypeOK
  BY DEF TypesInv, TypeInv
<1>2. QED
  BY <1>1, AlwaysTypes, PTL

----------------------------------------------------------------------------
(* Calls that do not overlap.                                                *)

\* What may be published, and what a receipt attests, depends on what was published last.
LEMMA SamePublished ==
    ASSUME published' = published
    PROVE  \A m : (Follows(m)' <=> Follows(m)) /\ (Attests(m)' <=> Attests(m))
BY DEF Follows, Attests, Fresh

\* Only the end of a call publishes.
LEMMA OnlyFill ==
    ASSUME NEW p \in Procs, Steps(p)
    PROVE  Fill(p) \/ published' = published
BY OnlyWriters DEF TruncateReceipt, FillReceipt, Truncate, files

\* What the process itself will write may be published.
LEMMA OwnProgress ==
    ASSUME CallsOK, FilesOK, Latest, NEW p \in Procs, Progress(p), Steps(p)
    PROVE  Progress(p)'
<1>1. CASE Capture(p) \/ StartBind(p) \/ StartTransition(p) \/ StartReceipt(p)
  <2>1. PICK c : \/ Goto(p, "new", c) /\ Fresh(c.manifest)
                 \/ Goto(p, "load", c)
    BY <1>1, Starting
  <2>2. \/ pc'[p] = "new" /\ Fresh(call'[p].manifest)
        \/ pc'[p] = "load"
    BY <2>1 DEF Goto, CallsOK
  <2>3. QED
    BY <2>2 DEF Progress, Fresh
<1>2. CASE Load(p)
  <2>1. PICK c : /\ Follows(c.manifest) /\ c.manifest \in Manifest
                 /\ \/ Goto(p, "compare", c)
                    \/ Goto(p, "r_new", c) /\ c.receipt \in Receipt /\ Attests(c.receipt)
    BY <1>2, Loading
  <2>2. /\ Follows(call'[p].manifest)
        /\ \/ pc'[p] = "compare"
           \/ pc'[p] = "r_new" /\ call'[p].receipt \in Receipt /\ Attests(call'[p].receipt)
    BY <2>1 DEF Goto, CallsOK
  <2>3. published' = published
    BY <1>2 DEF Load, files
  <2>4. QED
    BY <2>2, <2>3, FilesConstants DEF Progress, Follows, Attests, Fresh
<1>3. CASE CheckNew(p) \/ TruncateReceipt(p) \/ FillReceipt(p) \/ Compare(p) \/ Truncate(p)
  <2>1. published' = published /\ call'[p] = call[p]
    BY <1>3, GoesOn, OnlyFill DEF Goto, CallsOK, CheckNew, TruncateReceipt, FillReceipt, Compare,
       Truncate, files
  <2>2. \/ pc[p] = "new" /\ manifest = NoFile /\ pc'[p] = "truncate"
        \/ /\ pc[p] \in {"r_new", "r_truncate"} /\ pc'[p] \in {"r_truncate", "r_fill"}
        \/ /\ pc[p] \in {"r_fill", "compare", "truncate"}
           /\ pc'[p] \in {"compare", "truncate", "fill"}
    BY <1>3 DEF CallsOK, CheckNew, TruncateReceipt, FillReceipt, Compare, Truncate, Proceed, Goto
  <2>3. pc[p] = "new" /\ manifest = NoFile => Follows(call[p].manifest)
    BY GuardConstants DEF Latest, Follows, Progress
  <2>4. QED
    BY <2>1, <2>2, <2>3 DEF Progress, Follows, Attests, Fresh
<1>4. CASE Fill(p) \/ Abort(p)
  BY <1>4 DEF Fill, Abort, Return, Goto, CallsOK, Progress
<1>5. QED
  BY <1>1, <1>2, <1>3, <1>4 DEF Steps

\* And what any other process will write is not overtaken.
LEMMA OtherProgress ==
    ASSUME CallsOK, FilesOK, Latest, OneAtATime, NEW p \in Procs, Steps(p),
           NEW q \in Procs \ {p}, Progress(q)
    PROVE  Progress(q)'
<1>1. pc'[q] = pc[q] /\ call'[q] = call[q]
  BY CallsStep
<1>2. CASE pc[q] = "idle"
  BY <1>1, <1>2 DEF Progress
<1>3. CASE pc[q] # "idle"
  <2>1. pc[p] = "idle"
    BY <1>3 DEF OneAtATime
  <2>2. published' = published
    BY <2>1, OnlyFill DEF Fill
  <2>3. QED
    BY <1>1, <2>2 DEF Progress, Follows, Attests, Fresh
<1>4. QED
  BY <1>2, <1>3

\* What follows a manifest that was applied keeps what its receipt attests.
LEMMA StillAttests ==
    ASSUME FilesOK, published # NoFile, NEW m \in Manifest, Follows(m), m # NoFile,
           NEW r, Attests(r), published' = m
    PROVE  Attests(r)'
<1>1. published \in Manifest
  BY DEF FilesOK
<1>2. published.state = "applied" /\ m.state = "verified" /\ m.intent = published.intent
      /\ m.pre = published.pre
  BY <1>1 DEF Attests, Follows, VALID_TRANSITIONS, LIFECYCLE_STATES
<1>3. QED
  BY <1>2 DEF Attests

\* The receipt on disk attests the write described by the last complete manifest.
LEMMA AttestedStep ==
    ASSUME CallsOK, FilesOK, Latest, Loaded, Attested, NEW p \in Procs, Progress(p), Steps(p)
    PROVE  Attested'
<1> SUFFICES ASSUME receipt' \notin {NoFile, Torn} PROVE Attests(receipt)'
  BY DEF Attested
<1>1. CASE FillReceipt(p)
  <2>1. receipt' = call[p].receipt /\ Attests(call[p].receipt) /\ published' = published
    BY <1>1 DEF FillReceipt, Progress
  <2>2. QED
    BY <2>1 DEF Attests
<1>2. CASE Fill(p)
  <2>1. receipt' = receipt /\ published' = call[p].manifest /\ Follows(call[p].manifest)
    BY <1>2 DEF Fill, Progress
  <2>2. call[p].manifest \in Manifest
    BY <1>2 DEF Fill, CallsOK, Call, Loaded
  <2>3. Attests(receipt) /\ published # NoFile
    BY <2>1 DEF Attested, Attests
  <2>4. call[p].manifest # NoFile
    BY <2>2, FilesConstants
  <2>5. QED
    BY <2>1, <2>2, <2>3, <2>4, StillAttests DEF Attests
<1>3. CASE ~FillReceipt(p) /\ ~Fill(p)
  <2>1. published' = published /\ (receipt' = receipt \/ receipt' = Torn)
    BY <1>3, OnlyWriters DEF TruncateReceipt, Truncate, files
  <2>2. QED
    BY <2>1 DEF Attested, Attests
<1>4. QED
  BY <1>1, <1>2, <1>3

\* The invariant is inductive while calls do not overlap.
LEMMA GuardStep == TypesInv /\ GuardInv /\ OneAtATime /\ [Next]_vars => GuardInv'
<1> SUFFICES ASSUME TypesInv, GuardInv, OneAtATime, [Next]_vars PROVE GuardInv'
  OBVIOUS
<1>1. CallsOK /\ FilesOK /\ Latest /\ Loaded
  BY Parts DEF TypesInv
<1>2. CASE Write \/ UNCHANGED vars
  <2>1. UNCHANGED <<receipt, published, pc, call>>
    BY <1>2 DEF Write, vars
  <2>2. QED
    BY <2>1 DEF GuardInv, Attested, Progress, Follows, Attests, Fresh
<1>3. CASE \E p \in Procs : Steps(p)
  <2>1. PICK p \in Procs : Steps(p)
    BY <1>3
  <2>2. \A q \in Procs : Progress(q)
    BY DEF GuardInv
  <2>3. Progress(p)'
    BY <1>1, <2>1, <2>2, OwnProgress
  <2>4. \A q \in Procs \ {p} : Progress(q)'
    BY <1>1, <2>1, <2>2, OtherProgress
  <2>5. Attested'
    BY <1>1, <2>1, <2>2, AttestedStep DEF GuardInv
  <2>6. QED
    BY <2>3, <2>4, <2>5 DEF GuardInv
<1>4. QED
  BY <1>2, <1>3, Cases

\* So it holds for as long as they do not.
LEMMA AlwaysGuard == Spec /\ []OneAtATime => []GuardInv
<1>1. Init => GuardInv
  BY DEF Init, GuardInv, Attested, Progress
<1>2. QED
  BY <1>1, GuardStep, AlwaysTypes, PTL DEF Spec

(***************************************************************************)
(* A complete receipt attests the write that was approved (guard.py          *)
(* 297-385), for any number of processes whose calls do not overlap: the     *)
(* postimage is the intent bound in the manifest, which has been applied,    *)
(* even if the process died between the receipt and the manifest.            *)
(***************************************************************************)
THEOREM Attestation == Spec /\ []OneAtATime => []ReceiptIntended
<1>1. GuardInv => ReceiptIntended
  BY DEF GuardInv, Attested, Attests, ReceiptIntended
<1>2. QED
  BY <1>1, AlwaysGuard, PTL

(***************************************************************************)
(* One complete manifest follows another only along the lifecycle (guard.py  *)
(* 3-4, 272), for any number of processes whose calls do not overlap: a      *)
(* torn manifest is never continued, the preimage never changes, and the     *)
(* intent stays as it was once approved.                                     *)
(***************************************************************************)
THEOREM ForwardOnly == Spec /\ []OneAtATime => LifecycleForward
<1>1. ASSUME TypesInv, GuardInv, [Next]_vars, published' # published
      PROVE  IF published = NoFile
             THEN published'.state = "proposed" /\ published'.intent = Unbound
             ELSE /\ published'.pre = published.pre
                  /\ \/ /\ published.state = "proposed" /\ published'.state = "proposed"
                        /\ published'.intent # Unbound
                     \/ /\ published'.state \in VALID_TRANSITIONS[published.state]
                        /\ published'.intent = published.intent
  <2>1. PICK p \in Procs : Steps(p)
    BY <1>1, Cases DEF Write, vars
  <2>2. Fill(p)
    BY <1>1, <2>1, OnlyFill
  <2>3. published' = call[p].manifest /\ Follows(call[p].manifest)
    BY <1>1, <2>2 DEF Fill, GuardInv, Progress
  <2>4. QED
    BY <2>3 DEF Follows, Fresh
<1>2. TypesInv /\ GuardInv /\ [Next]_vars =>
        [published' # published =>
          IF published = NoFile
          THEN published'.state = "proposed" /\ published'.intent = Unbound
          ELSE /\ published'.pre = published.pre
               /\ \/ /\ published.state = "proposed" /\ published'.state = "proposed"
                     /\ published'.intent # Unbound
                  \/ /\ published'.state \in VALID_TRANSITIONS[published.state]
                     /\ published'.intent = published.intent]_vars
  BY <1>1
<1>3. QED
  BY <1>2, AlwaysTypes, AlwaysGuard, PTL DEF LifecycleForward, Spec

=============================================================================
