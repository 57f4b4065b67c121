--------------------------- MODULE PrewriteGuard ---------------------------
(***************************************************************************)
(* The manifest lifecycle of PrewriteGuard (policy/guard.py): capture,       *)
(* bind_intent, transition and receipt on one manifest that guards one file. *)
(* No lock is taken: a rewrite compares the manifest with the bytes read     *)
(* first, then overwrites it in place.  A file being written is Torn until   *)
(* its last byte is there, and stays so if the process dies.                 *)
(*                                                                           *)
(* A hash stands for the content it is taken of.  verify() only reads.       *)
(***************************************************************************)
EXTENDS Integers

CONSTANTS
    Procs,      \* processes of the host
    Contents,
    Absent,     \* the guarded file is not there
    NoFile,     \* the manifest or the receipt is not there
    Torn,       \* the manifest or the receipt is there, incomplete
    Unbound,    \* no post-write hash is bound yet
    MaxEdits    \* bound: changes of the guarded file

ASSUME GuardConstants ==
    /\ {Absent, Unbound} \cap Contents = {} /\ NoFile # Torn
    /\ MaxEdits \in Nat

VARIABLES
    target,     \* the guarded file
    manifest, receipt,
    pc, call,
    published,  \* history: the last complete manifest
    edits

vars == <<target, manifest, receipt, pc, call, published, edits>>

LIFECYCLE_STATES == {"proposed", "approved", "applied", "verified"}
VALID_TRANSITIONS ==
    [s \in LIFECYCLE_STATES |->
        CASE s = "proposed" -> {"approved"}
          [] s = "approved" -> {"applied"}
          [] s = "applied"  -> {"verified"}
          [] s = "verified" -> {}]

Images   == Contents \cup {Absent}
Manifest == [state: LIFECYCLE_STATES, pre: Images, intent: Contents \cup {Unbound}]
Receipt  == [post: Contents]

\* No manifest and no receipt is taken for a missing or a torn file.
ASSUME FilesConstants == {NoFile, Torn} \cap (Manifest \cup Receipt) = {}

Labels   == {"idle", "new", "load", "r_new", "r_truncate", "r_fill", "compare", "truncate", "fill"}

\* What a call is for, what it has read and what it will write.
Call == [op: {"none", "capture", "bind", "transition", "receipt"},
         to: LIFECYCLE_STATES \cup {Unbound}, hash: Contents \cup {Unbound},
         before: Manifest \cup {NoFile, Torn}, manifest: Manifest \cup {NoFile},
         receipt: Receipt \cup {NoFile}]
NoCall == [op |-> "none", to |-> Unbound, hash |-> Unbound,
           before |-> NoFile, manifest |-> NoFile, receipt |-> NoFile]

Init ==
    /\ target \in Images
    /\ manifest = NoFile /\ receipt = NoFile /\ published = NoFile
    /\ pc = [p \in Procs |-> "idle"]
    /\ call = [p \in Procs |-> NoCall]
    /\ edits = 0

----------------------------------------------------------------------------
files == <<target, manifest, receipt, published, edits>>

Goto(p, label, c) ==
    /\ pc' = [pc EXCEPT ![p] = label]
    /\ call' = [call EXCEPT ![p] = c]

Return(p) == Goto(p, "idle", NoCall)

\* _read_json and _validate_entries.
Valid(m) ==
    /\ m \notin {NoFile, Torn}
    /\ m.state \in {"approved", "applied", "verified"} => m.intent # Unbound

\* capture: the preimage is taken before the manifest's path is looked at.
Capture(p) ==
    /\ pc[p] = "idle"
    /\ Goto(p, "new", [NoCall EXCEPT
          !.op = "capture",
          !.manifest = [state |-> "proposed", pre |-> target, intent |-> Unbound]])
    /\ UNCHANGED files

\* The other calls read the manifest's bytes, then parse the file once more.
ReadBytes(p, c) ==
    /\ pc[p] = "idle"
    /\ manifest # NoFile
    /\ Goto(p, "load", [c EXCEPT !.before = manifest])
    /\ UNCHANGED files

\* Faulty variant: the captured path may be left without a hash.
BindWithout(p) ==
    \E h \in Contents \cup {Unbound} : ReadBytes(p, [NoCall EXCEPT !.op = "bind", !.hash = h])

StartBind(p) == \E h \in Contents : ReadBytes(p, [NoCall EXCEPT !.op = "bind", !.hash = h])
StartTransition(p) ==
    \E s \in LIFECYCLE_STATES : ReadBytes(p, [NoCall EXCEPT !.op = "transition", !.to = s])
StartReceipt(p) == receipt = NoFile /\ ReadBytes(p, [NoCall EXCEPT !.op = "receipt"])

----------------------------------------------------------------------------
\* Faulty variant: the intent may be bound at any time.
BindAnyTime(m) == m \notin {NoFile, Torn}

CanBind(m) == m \notin {NoFile, Torn} /\ m.state = "proposed"

CanMove(m, to) ==
    /\ Valid(m)
    /\ to \in VALID_TRANSITIONS[m.state]
    /\ to = "applied" => m.intent # Unbound

\* Faulty variant: any change of the file will do.
ReceiptOfAnyWrite(m) ==
    /\ Valid(m)
    /\ m.state = "applied"
    /\ target \in Contents /\ target # m.pre

\* The receipt's checks: applied, present as intended, and changed.
CanReceipt(m) ==
    /\ Valid(m)
    /\ m.state = "applied"
    /\ target \in Contents /\ target = m.intent /\ target # m.pre

Load(p) ==
    LET c == call[p]
    IN  /\ pc[p] = "load"
        /\ \/ /\ c.op = "bind" /\ CanBind(manifest)
              /\ Goto(p, "compare", [c EXCEPT !.manifest = [manifest EXCEPT !.intent = c.hash]])
           \/ /\ c.op = "transition" /\ CanMove(manifest, c.to)
              /\ Goto(p, "compare", [c EXCEPT !.manifest = [manifest EXCEPT !.state = c.to]])
           \/ /\ c.op = "receipt" /\ CanReceipt(manifest)
              /\ Goto(p, "r_new", [c EXCEPT !.manifest = [manifest EXCEPT !.state = "verified"],
                                            !.receipt = [post |-> target]])
        /\ UNCHANGED files

----------------------------------------------------------------------------
\* _write_new_json and _rewrite_manifest.

Proceed(p, label) == Goto(p, label, call[p])

CheckNew(p) ==
    /\ \/ pc[p] = "new" /\ manifest = NoFile /\ Proceed(p, "truncate")
       \/ pc[p] = "r_new" /\ receipt = NoFile /\ Proceed(p, "r_truncate")
    /\ UNCHANGED files

TruncateReceipt(p) ==
    /\ pc[p] = "r_truncate"
    /\ receipt' = Torn
    /\ Proceed(p, "r_fill")
    /\ UNCHANGED <<target, manifest, published, edits>>

FillReceipt(p) ==
    /\ pc[p] = "r_fill"
    /\ receipt' = call[p].receipt
    /\ Proceed(p, "compare")
    /\ UNCHANGED <<target, manifest, published, edits>>

Compare(p) ==
    /\ pc[p] = "compare"
    /\ manifest = call[p].before
    /\ Proceed(p, "truncate")
    /\ UNCHANGED files

Truncate(p) ==
    /\ pc[p] = "truncate"
    /\ manifest' = Torn
    /\ Proceed(p, "fill")
    /\ UNCHANGED <<target, receipt, published, edits>>

Fill(p) ==
    /\ pc[p] = "fill"
    /\ manifest' = call[p].manifest
    /\ published' = call[p].manifest
    /\ Return(p)
    /\ UNCHANGED <<target, receipt, edits>>

\* A check fails, an I/O error is raised, or the process dies and another takes over.
Abort(p) ==
    /\ pc[p] # "idle"
    /\ Return(p)
    /\ UNCHANGED files

\* The guarded write itself, or any other change of the file.
Write ==
    /\ edits < MaxEdits
    /\ edits' = edits + 1
    /\ \E image \in Images : image # target /\ target' = image
    /\ UNCHANGED <<manifest, receipt, pc, call, published>>

Next ==
    \/ \E p \in Procs :
          \/ Capture(p) \/ StartBind(p) \/ StartTransition(p) \/ StartReceipt(p)
          \/ Load(p) \/ CheckNew(p) \/ TruncateReceipt(p) \/ FillReceipt(p)
          \/ Compare(p) \/ Truncate(p) \/ Fill(p) \/ Abort(p)
    \/ Write

Spec == Init /\ [][Next]_vars

----------------------------------------------------------------------------
\* Properties.

\* Every variable stays within its type, an idle process is in no call, and only
\* bind_intent brings a hash (never none: guard.py 214-218).
TypeOK ==
    /\ target \in Images
    /\ manifest \in Manifest \cup {NoFile, Torn} /\ published \in Manifest \cup {NoFile}
    /\ receipt \in Receipt \cup {NoFile, Torn}
    /\ pc \in [Procs -> Labels] /\ call \in [Procs -> Call]
    /\ \A p \in Procs : pc[p] = "idle" <=> call[p] = NoCall
    /\ \A p \in Procs : call[p].op = "bind" <=> call[p].hash # Unbound
    /\ edits \in 0..MaxEdits

(***************************************************************************)
(* guard.py 3-4 and 272: one complete manifest follows another only along    *)
(* proposed -> approved -> applied -> verified.  The preimage never changes  *)
(* and, once approved, neither does the intent, whatever dies on the way.    *)
(***************************************************************************)
LifecycleForward ==
    [][published' # published =>
          IF published = NoFile
          THEN published'.state = "proposed" /\ published'.intent = Unbound
          ELSE /\ published'.pre = published.pre
               /\ \/ /\ published.state = "proposed" /\ published'.state = "proposed"
                     /\ published'.intent # Unbound
                  \/ /\ published'.state \in VALID_TRANSITIONS[published.state]
                     /\ published'.intent = published.intent]_vars

(***************************************************************************)
(* A complete receipt attests the write that was approved: guard.py 297-385. *)
(* Its postimage is the intent bound in the manifest and not the preimage,   *)
(* and the manifest has been applied, even if the process died before the    *)
(* manifest said verified.                                                   *)
(***************************************************************************)
ReceiptIntended ==
    receipt \notin {NoFile, Torn} =>
        /\ published.state \in {"applied", "verified"}
        /\ receipt.post = published.intent /\ receipt.post # published.pre

=============================================================================
