----------------------------- MODULE Capability -----------------------------
(***************************************************************************)
(* Operator capabilities (policy/authority.py): a gated request creates a    *)
(* pending proposal; the operator signs its claims; a request that carries   *)
(* the token is authorised by validate_and_consume_capability, which records *)
(* the nonce by exclusive file creation before the action executes.  The     *)
(* operator key is provisioned to a file by generate_operator_key, replaced  *)
(* by rotate_operator_key, and held in memory by executors and operators.    *)
(*                                                                           *)
(* A proposal is known by its confirmation ID, which also stands for its     *)
(* nonce (both are random and never reused).  `subject` is what the claims   *)
(* bind: project, operation, target, payload hash and preimage hash.  HMAC   *)
(* is ideal: a token is the claims an operator signed and the key he used.   *)
(***************************************************************************)
EXTENDS Integers, FiniteSets

CONSTANTS
    Procs,            \* processes that share one trust store
    Subjects,         \* gated requests a caller can make
    None,             \* no value
    MaxProposals,     \* bound: proposals that can be created
    Ttl,              \* ttl_seconds, in ticks of the clock
    MaxTime,          \* bound: ticks of the clock
    MaxPowerLoss,     \* bound: power failures of the host
    MaxKeys,          \* bound: keys that can be generated
    DirectorySync     \* _sync_dir: TRUE if it always reports "synced"

ASSUME CapabilityConstants ==
    /\ None \notin Subjects
    /\ MaxProposals \in Nat /\ Ttl \in Nat /\ MaxTime \in Nat /\ MaxPowerLoss \in Nat
    /\ MaxKeys \in Nat
    /\ DirectorySync \in BOOLEAN

VARIABLES
    now,         \* int(time.time())
    nextCid,     \* next confirmation ID
    proposal,    \* what each pending/<cid>.json says, or said
    pending,     \* the proposals whose file is there
    signed,      \* tokens the operator has handed out
    consumed,    \* the nonces whose file consumed/<nonce_hash>.json is there
    durable,     \* those whose directory entry is certain to survive a power failure
    keyFile,     \* what the key file holds
    nextKey,     \* next random key
    secret,      \* operator_secret of every process
    pc, req,
    acted,       \* history: how often the action of a token was executed
    powerLoss

trust == <<nextCid, proposal, pending, signed, consumed, durable>>
keys  == <<keyFile, nextKey, secret>>
vars  == <<now, nextCid, proposal, pending, signed, consumed, durable, keyFile, nextKey, secret,
           pc, req, acted, powerLoss>>

Cids   == 1..MaxProposals
Keys   == 1..MaxKeys
NoKey  == 0
\* No key file; a complete one; one that p has created and not filled, which
\* nobody can load.
NoFile  == [by |-> None, key |-> NoKey]
Full(k) == [by |-> None, key |-> k]
Torn(p) == [by |-> p, key |-> NoKey]
Tokens == [cid: Cids, subject: Subjects, expires_at: 0..(MaxTime + Ttl), key: Keys]
KeySteps == {"g_create", "g_write", "k_replace"}
Labels == {"idle", "claim", "sync", "retire", "propose", "act"} \cup KeySteps
NoToken == [cid |-> 0, subject |-> None, expires_at |-> 0, key |-> NoKey]
NoProposal == [subject |-> None, expires_at |-> 0]
\* checked is the time the expiry was compared with.
Call == [subject: Subjects \cup {None}, cid: Cids \cup {0}, token: Tokens \cup {NoToken},
            checked: 0..MaxTime]
NoRequest == [subject |-> None, cid |-> 0, token |-> NoToken, checked |-> 0]

Init ==
    /\ now = 0
    /\ nextCid = 1
    /\ proposal = [c \in Cids |-> NoProposal]
    /\ pending = {} /\ signed = {} /\ consumed = {} /\ durable = {}
    /\ keyFile = NoFile /\ nextKey = 1 /\ secret = [p \in Procs |-> NoKey]
    /\ pc = [p \in Procs |-> "idle"]
    /\ req = [p \in Procs |-> NoRequest]
    /\ acted = [c \in Cids |-> 0]
    /\ powerLoss = 0

----------------------------------------------------------------------------
Goto(p, label) == pc' = [pc EXCEPT ![p] = label]
Continue(p, label) == Goto(p, label) /\ UNCHANGED req
Return(p) == Goto(p, "idle") /\ req' = [req EXCEPT ![p] = NoRequest]

\* Not authorised: the call goes on to propose, and has no use for the token.
Deny(p) == Goto(p, "propose") /\ req' = [req EXCEPT ![p] = [NoRequest EXCEPT !.subject = req[p].subject]]

\* Faulty variant: the claims are compared with the proposal only.
ClaimsMatchProposal(p, s, cid, token) ==
    /\ cid \in pending
    /\ token = [cid |-> cid, subject |-> proposal[cid].subject,
                expires_at |-> proposal[cid].expires_at, key |-> secret[p]]

\* The signature under the key of this executor, and the comparison of the
\* claims with the call and with the proposal.
ClaimsMatch(p, s, cid, token) ==
    /\ secret[p] # NoKey
    /\ cid \in pending
    /\ token = [cid |-> cid, subject |-> s, expires_at |-> proposal[cid].expires_at,
                key |-> secret[p]]
    /\ proposal[cid].subject = s

\* A gated call, with a confirmation ID and a token of its caller's choice, and
\* everything validate_and_consume_capability checks before it takes the nonce.
Request(p) ==
    /\ pc[p] = "idle"
    /\ \E s \in Subjects, cid \in Cids \cup {0}, token \in signed \cup {NoToken} :
          IF ClaimsMatch(p, s, cid, token) /\ ~(token.expires_at < now)
          THEN /\ Goto(p, "claim")
               /\ req' = [req EXCEPT ![p] = [subject |-> s, cid |-> cid, token |-> token, checked |-> now]]
          ELSE /\ Goto(p, "propose")
               /\ req' = [req EXCEPT ![p].subject = s]
    /\ UNCHANGED <<now, trust, keys, acted, powerLoss>>

\* Faulty variant: opened with "w".
ClaimShared(p) ==
    /\ pc[p] = "claim"
    /\ consumed' = consumed \cup {req[p].cid}
    /\ Continue(p, "sync")
    /\ UNCHANGED <<now, nextCid, proposal, pending, signed, durable, keys, acted, powerLoss>>

\* open(consumed_path, "x"): one process creates the file, the others fail.
ClaimNonce(p) ==
    /\ pc[p] = "claim"
    /\ IF req[p].cid \notin consumed
       THEN consumed' = consumed \cup {req[p].cid} /\ Continue(p, "sync")
       ELSE UNCHANGED consumed /\ Deny(p)
    /\ UNCHANGED <<now, nextCid, proposal, pending, signed, durable, keys, acted, powerLoss>>

\* Faulty variant: the record is removed and the action goes ahead.
SyncFailureIgnored(p) ==
    /\ pc[p] = "sync"
    /\ \/ Continue(p, "retire") /\ UNCHANGED consumed
       \/ consumed' = consumed \ {req[p].cid} /\ Continue(p, "retire")
    /\ UNCHANGED <<now, nextCid, proposal, pending, signed, durable, keys, acted, powerLoss>>

\* _sync_file; if it fails the record is removed, where possible, and the
\* authorisation denied.
SyncNonce(p) ==
    /\ pc[p] = "sync"
    /\ \/ Continue(p, "retire") /\ UNCHANGED consumed
       \/ consumed' \in {consumed, consumed \ {req[p].cid}} /\ Deny(p)
    /\ UNCHANGED <<now, nextCid, proposal, pending, signed, durable, keys, acted, powerLoss>>

\* _sync_dir (best effort), then the proposal is unlinked (best effort).
RetireProposal(p) ==
    /\ pc[p] = "retire"
    /\ durable' \in {durable \cup {req[p].cid}} \cup (IF DirectorySync THEN {} ELSE {durable})
    /\ pending' \in {pending, pending \ {req[p].cid}}
    /\ Continue(p, "act")
    /\ UNCHANGED <<now, nextCid, proposal, signed, consumed, keys, acted, powerLoss>>

\* The caller executes the privileged action.
Act(p) ==
    /\ pc[p] = "act"
    /\ acted' = [acted EXCEPT ![req[p].token.cid] = @ + 1]
    /\ Return(p)
    /\ UNCHANGED <<now, trust, keys, powerLoss>>

\* Faulty variant: the expiry is added to an expiry.
ProposeTwiceTtl(p) ==
    /\ pc[p] = "propose"
    /\ IF nextCid \in Cids
       THEN /\ proposal' = [proposal EXCEPT ![nextCid] =
                               [subject |-> req[p].subject, expires_at |-> now + 2 * Ttl]]
            /\ pending' = pending \cup {nextCid}
            /\ nextCid' = nextCid + 1
       ELSE UNCHANGED <<proposal, pending, nextCid>>
    /\ Return(p)
    /\ UNCHANGED <<now, signed, consumed, durable, keys, acted, powerLoss>>

\* Not authorised: create_confirmation_request for a held route.  For a
\* control-plane target the executor raises instead, which is Fail(p) here.
Propose(p) ==
    /\ pc[p] = "propose"
    /\ IF nextCid \in Cids
       THEN /\ proposal' = [proposal EXCEPT ![nextCid] =
                               [subject |-> req[p].subject, expires_at |-> now + Ttl]]
            /\ pending' = pending \cup {nextCid}
            /\ nextCid' = nextCid + 1
       ELSE UNCHANGED <<proposal, pending, nextCid>>
    /\ Return(p)
    /\ UNCHANGED <<now, signed, consumed, durable, keys, acted, powerLoss>>

----------------------------------------------------------------------------
\* The operator key.

\* A process that has generated or rotated the key goes on with it.
HaveKey(p) == secret' = [secret EXCEPT ![p] = nextKey] /\ nextKey' = nextKey + 1

\* generate_operator_key: the file must not exist.
StartGenerate(p) ==
    /\ pc[p] = "idle"
    /\ keyFile = NoFile /\ nextKey \in Keys
    /\ Continue(p, "g_create")
    /\ UNCHANGED <<now, trust, keys, acted, powerLoss>>

\* Faulty variant: opened without O_EXCL.
CreateShared(p) ==
    /\ pc[p] = "g_create"
    /\ keyFile' = Torn(p) /\ Continue(p, "g_write")
    /\ UNCHANGED <<now, trust, nextKey, secret, acted, powerLoss>>

\* O_CREAT with O_EXCL: an empty file, or a concurrent provisioner won.
CreateKey(p) ==
    /\ pc[p] = "g_create"
    /\ IF keyFile = NoFile
       THEN keyFile' = Torn(p) /\ Continue(p, "g_write")
       ELSE UNCHANGED keyFile /\ Return(p)
    /\ UNCHANGED <<now, trust, nextKey, secret, acted, powerLoss>>

\* The bytes go to the file that was created, wherever its name leads by now.
WriteKey(p) ==
    /\ pc[p] = "g_write"
    /\ nextKey \in Keys
    /\ keyFile' = IF keyFile = Torn(p) THEN Full(nextKey) ELSE keyFile
    /\ HaveKey(p)
    /\ Return(p)
    /\ UNCHANGED <<now, trust, acted, powerLoss>>

\* rotate_operator_key: any file will do, a torn one too.  The new key is
\* complete in a temporary file when it takes the name of the old one.
StartRotate(p) ==
    /\ pc[p] = "idle"
    /\ keyFile # NoFile /\ nextKey \in Keys
    /\ Continue(p, "k_replace")
    /\ UNCHANGED <<now, trust, keys, acted, powerLoss>>

ReplaceKey(p) ==
    /\ pc[p] = "k_replace"
    /\ nextKey \in Keys
    /\ keyFile' = Full(nextKey)
    /\ HaveKey(p)
    /\ Return(p)
    /\ UNCHANGED <<now, trust, acted, powerLoss>>

\* An executor is constructed with what the key file holds.
LoadKey(p) ==
    /\ pc[p] = "idle"
    /\ keyFile.key # NoKey
    /\ secret' = [secret EXCEPT ![p] = keyFile.key]
    /\ UNCHANGED <<now, trust, keyFile, nextKey, pc, req, acted, powerLoss>>

\* The operator signs the claims of a proposal that is under review, with the
\* key in the file or with one that a process still has in memory.
Sign ==
    /\ \E c \in pending, k \in Keys :
          /\ k = keyFile.key \/ \E p \in Procs : k = secret[p]
          /\ signed' = signed \cup {[cid |-> c, subject |-> proposal[c].subject,
                                     expires_at |-> proposal[c].expires_at, key |-> k]}
    /\ UNCHANGED <<now, nextCid, proposal, pending, consumed, durable, keys, pc, req, acted, powerLoss>>

Tick ==
    /\ now < MaxTime
    /\ now' = now + 1
    /\ UNCHANGED <<trust, keys, pc, req, acted, powerLoss>>

Fail(p) ==
    /\ pc[p] # "idle"
    /\ Return(p)
    /\ UNCHANGED <<now, trust, keys, acted, powerLoss>>

\* The host loses power: entries of the consumed directory that were not
\* synced may be gone, and unlinked proposals (never synced) may be back.
PowerLoss ==
    /\ powerLoss < MaxPowerLoss
    /\ powerLoss' = powerLoss + 1
    /\ \E lost \in SUBSET (consumed \ durable) : consumed' = consumed \ lost
    /\ \E back \in SUBSET {c \in Cids : proposal[c] # NoProposal} : pending' = pending \cup back
    /\ pc' = [p \in Procs |-> "idle"]
    /\ req' = [p \in Procs |-> NoRequest]
    /\ secret' = [p \in Procs |-> NoKey]
    /\ UNCHANGED <<now, nextCid, proposal, signed, durable, keyFile, nextKey, acted>>

Step(p) == \/ ClaimNonce(p) \/ SyncNonce(p) \/ RetireProposal(p)
           \/ Act(p) \/ Propose(p) \/ CreateKey(p) \/ WriteKey(p) \/ ReplaceKey(p)
Start(p) == Request(p) \/ StartGenerate(p) \/ StartRotate(p) \/ LoadKey(p)
Next == (\E p \in Procs : Start(p) \/ Step(p) \/ Fail(p)) \/ Sign \/ Tick \/ PowerLoss

Spec == Init /\ [][Next]_vars

----------------------------------------------------------------------------
\* Types of the store, the clock and the requests.
TypeOK ==
    /\ now \in 0..MaxTime /\ nextCid \in 1..(MaxProposals + 1)
    /\ proposal \in [Cids -> [subject: Subjects \cup {None}, expires_at: 0..(MaxTime + Ttl)]]
    /\ pending \subseteq Cids /\ consumed \subseteq Cids /\ durable \subseteq Cids
    /\ signed \subseteq Tokens
    /\ keyFile \in [by: Procs \cup {None}, key: Keys \cup {NoKey}]
    /\ nextKey \in 1..(MaxKeys + 1) /\ secret \in [Procs -> Keys \cup {NoKey}]
    /\ pc \in [Procs -> Labels] /\ req \in [Procs -> Call]
    /\ acted \in [Cids -> Nat] /\ powerLoss \in 0..MaxPowerLoss

(***************************************************************************)
(* Single use (docs/capabilities.md 45): however many processes present a    *)
(* token, whatever crashes or fsync failures befall them, its action is      *)
(* executed at most once.                                                    *)
(***************************************************************************)
SingleUse == \A c \in Cids : acted[c] <= 1

(***************************************************************************)
(* The nonce is on record before the action executes (authority.py 454-456), *)
(* and stays there.  Under concurrent consumers this needs that nobody       *)
(* removes a record that another one relies on when its own fsync fails.     *)
(***************************************************************************)
RecordedBeforeAction ==
    \A c \in Cids :
        acted[c] > 0 \/ (\E p \in Procs : pc[p] \in {"retire", "act"} /\ req[p].cid = c) => c \in consumed

(***************************************************************************)
(* A process about to act holds claims that an operator signed for exactly   *)
(* this request, about a proposal that says the same, and they had not       *)
(* expired when they were checked (authority.py 440-444).                    *)
(***************************************************************************)
ActsAsSigned ==
    \A p \in Procs : pc[p] = "act" =>
        /\ req[p].token \in signed
        /\ req[p].token.subject = req[p].subject
        /\ proposal[req[p].token.cid].subject = req[p].subject
        /\ req[p].token.key = secret[p]
        /\ req[p].checked <= req[p].token.expires_at

(***************************************************************************)
(* "Existing keys are never silently overwritten" and "an interrupted        *)
(* rotation leaves the previous key intact" (authority.py 105, 155): with    *)
(* concurrent provisioners and failures anywhere a complete key gives way    *)
(* only to the complete key of a rotation.                                   *)
(***************************************************************************)
KeyStands ==
    [][keyFile.key # NoKey /\ keyFile' # keyFile =>
          /\ keyFile'.key # NoKey
          /\ \E p \in Procs : pc[p] = "k_replace" /\ pc'[p] = "idle"]_vars

=============================================================================
