-------------------------- MODULE CapabilityProofs --------------------------
(***************************************************************************)
(* Theorems about Capability for any processes, requests, lifetimes and      *)
(* bounds, whatever calls fail, and for single use any number of power       *)
(* failures of a host whose directories are synced.                          *)
(***************************************************************************)
EXTENDS Capability, TLAPS

Presenting == {"claim", "sync", "retire", "act"}
Won        == {"sync", "retire", "act"}

\* A proposal that exists is a request's, has been issued, and is the only kind
\* that is pending or signed.
Proposals ==
    /\ \A c \in Cids : proposal[c] = NoProposal \/ (proposal[c].subject \in Subjects /\ c < nextCid)
    /\ \A c \in pending : proposal[c] # NoProposal
    /\ \A t \in signed : t.cid < nextCid /\ t.cid \in Cids

\* A call that is not yet decided is about a request.
Callers == \A p \in Procs : pc[p] \in Presenting \cup {"propose"} => req[p].subject \in Subjects

\* What has been checked when the nonce is claimed still holds until the action.
Presented(p) ==
    LET t == req[p].token IN
    /\ req[p].cid \in Cids /\ t \in signed
    /\ t.cid = req[p].cid /\ t.subject = req[p].subject /\ t.key = secret[p]
    /\ proposal[t.cid].subject = req[p].subject
    /\ req[p].checked <= t.expires_at
CallInv == /\ TypeOK /\ Proposals /\ Callers
           /\ \A p \in Procs : pc[p] \in Presenting => Presented(p)

\* The proposal and the token of a request are not touched by a step that
\* leaves the request and the key of the process alone.
LEMMA StillPresented ==
    ASSUME NEW p \in Procs, Presented(p), req'[p] = req[p], secret'[p] = secret[p],
           signed \subseteq signed',
           proposal'[req[p].cid].subject = proposal[req[p].cid].subject
    PROVE  Presented(p)'
BY DEF Presented

LEMMA InitCalls == Init => CallInv
<1> SUFFICES ASSUME Init PROVE CallInv
    OBVIOUS
<1> USE CapabilityConstants DEF Init, NoRequest, NoProposal, NoFile, NoToken, NoKey, Cids, Keys
<1>1. TypeOK
    BY DEF TypeOK, Labels, Call
<1>2. Proposals /\ Callers
    BY DEF Proposals, Callers, Presenting
<1>3. \A p \in Procs : pc[p] \in Presenting => Presented(p)
    BY DEF Presenting
<1>4. QED BY <1>1, <1>2, <1>3 DEF CallInv

\* A step of p that only moves its control and perhaps the nonces.
LEMMA MoveOn ==
    ASSUME CallInv, NEW p \in Procs, NEW l \in Labels,
           UNCHANGED <<now, nextCid, proposal, signed, keys, powerLoss, req>>,
           pc' = [pc EXCEPT ![p] = l],
           l \in Presenting => pc[p] \in Presenting, l # "propose",
           pending' \subseteq pending, consumed' \subseteq Cids, durable' \subseteq Cids,
           acted' \in [Cids -> Nat]
    PROVE  CallInv'
<1>1. TypeOK'
    BY DEF CallInv, TypeOK, keys
<1>2. Proposals'
    BY DEF CallInv, Proposals
<1>3. Callers'
    BY DEF CallInv, Callers, TypeOK
<1>4. ASSUME NEW q \in Procs, pc'[q] \in Presenting PROVE Presented(q)'
    <2>1. pc[q] \in Presenting
        BY <1>4 DEF CallInv, TypeOK
    <2>2. Presented(q)
        BY <2>1 DEF CallInv
    <2>3. QED BY <2>2 DEF Presented, keys
<1>5. QED BY <1>1, <1>2, <1>3, <1>4 DEF CallInv

\* A step of p that ends its call, or denies it, with the request r.
LEMMA GiveUp ==
    ASSUME CallInv, NEW p \in Procs, NEW l \in {"idle", "propose"}, NEW r \in Call,
           UNCHANGED <<now, nextCid, proposal, pending, signed, powerLoss>>,
           keyFile' \in [by: Procs \cup {None}, key: Keys \cup {NoKey}],
           nextKey' \in 1..(MaxKeys + 1), secret' \in [Procs -> Keys \cup {NoKey}],
           \A q \in Procs \ {p} : secret'[q] = secret[q],
           pc' = [pc EXCEPT ![p] = l], req' = [req EXCEPT ![p] = r],
           l = "propose" => r.subject \in Subjects,
           consumed' \subseteq Cids, durable' \subseteq Cids, acted' \in [Cids -> Nat]
    PROVE  CallInv'
<1>1. TypeOK'
    BY DEF CallInv, TypeOK, Labels
<1>2. Proposals'
    BY DEF CallInv, Proposals
<1>3. Callers'
    BY DEF CallInv, Callers, TypeOK, Presenting
<1>4. ASSUME NEW q \in Procs, pc'[q] \in Presenting PROVE Presented(q)'
    <2>1. q # p /\ pc[q] \in Presenting /\ req'[q] = req[q]
        BY <1>4 DEF CallInv, TypeOK, Presenting
    <2>2. Presented(q)
        BY <2>1 DEF CallInv
    <2>3. QED BY <2>1, <2>2, StillPresented DEF CallInv
<1>5. QED BY <1>1, <1>2, <1>3, <1>4 DEF CallInv

LEMMA RequestTypes ==
    /\ NoRequest \in Call
    /\ \A s \in Subjects : [NoRequest EXCEPT !.subject = s] \in Call
    /\ \A r \in Call, s \in Subjects : [r EXCEPT !.subject = s] \in Call
                                       /\ [r EXCEPT !.subject = s].subject = s
BY CapabilityConstants DEF NoRequest, NoToken, Call

LEMMA RequestInv == ASSUME CallInv, NEW p \in Procs, Request(p) PROVE CallInv'
<1>1. PICK s \in Subjects, cid \in Cids \cup {0}, token \in signed \cup {NoToken} :
          IF ClaimsMatch(p, s, cid, token) /\ ~(token.expires_at < now)
          THEN /\ Goto(p, "claim")
               /\ req' = [req EXCEPT ![p] = [subject |-> s, cid |-> cid, token |-> token, checked |-> now]]
          ELSE /\ Goto(p, "propose")
               /\ req' = [req EXCEPT ![p].subject = s]
    BY DEF Request
<1>2. CASE ClaimsMatch(p, s, cid, token) /\ ~(token.expires_at < now)
    <2> DEFINE r == [subject |-> s, cid |-> cid, token |-> token, checked |-> now]
    <2>1. /\ cid \in Cids /\ cid \in pending /\ token \in signed /\ token \in Tokens
          /\ token.cid = cid /\ token.subject = s /\ token.key = secret[p]
          /\ proposal[cid].subject = s
        BY <1>2 DEF ClaimsMatch, CallInv, TypeOK, NoToken, Cids
    <2>2. r \in Call
        BY <2>1 DEF Call, CallInv, TypeOK
    <2>3. now <= token.expires_at
        BY <1>2, <2>1, CapabilityConstants DEF CallInv, TypeOK, Tokens
    <2>4. req' = [req EXCEPT ![p] = r] /\ pc' = [pc EXCEPT ![p] = "claim"]
        BY <1>1, <1>2 DEF Goto
    <2>5. UNCHANGED <<now, trust, keys, acted, powerLoss>>
        BY DEF Request
    <2> HIDE DEF r
    <2>6. TypeOK'
        BY <2>2, <2>4, <2>5 DEF CallInv, TypeOK, trust, keys, Labels
    <2>7. Proposals'
        BY <2>5 DEF CallInv, Proposals, trust
    <2>8. r.subject = s /\ r.cid = cid /\ r.token = token /\ r.checked = now
        BY DEF r
    <2>9. Callers'
        BY <2>4, <2>8 DEF CallInv, Callers, TypeOK, Presenting
    <2>10. ASSUME NEW q \in Procs, pc'[q] \in Presenting PROVE Presented(q)'
        <3>1. CASE q = p
            <4>1. req'[p] = r
                BY <2>4 DEF CallInv, TypeOK
            <4>2. QED BY <3>1, <4>1, <2>1, <2>3, <2>5, <2>8 DEF Presented, trust, keys
        <3>2. CASE q # p
            <4>1. pc[q] \in Presenting /\ req'[q] = req[q]
                BY <3>2, <2>10, <2>4 DEF CallInv, TypeOK
            <4>2. QED BY <4>1, <2>5, StillPresented DEF CallInv, trust, keys
        <3>3. QED BY <3>1, <3>2
    <2>11. QED BY <2>6, <2>7, <2>9, <2>10 DEF CallInv
<1>3. CASE ~(ClaimsMatch(p, s, cid, token) /\ ~(token.expires_at < now))
    <2> DEFINE r == [req[p] EXCEPT !.subject = s]
    <2>1. r \in Call /\ r.subject \in Subjects
        BY RequestTypes DEF CallInv, TypeOK
    <2>2. req' = [req EXCEPT ![p] = r] /\ pc' = [pc EXCEPT ![p] = "propose"]
        BY <1>1, <1>3 DEF Goto
    <2> HIDE DEF r
    <2>3. QED BY <2>1, <2>2, GiveUp DEF Request, trust, keys, CallInv, TypeOK
<1>4. QED BY <1>2, <1>3

LEMMA ProposeInv == ASSUME CallInv, NEW p \in Procs, Propose(p) PROVE CallInv'
<1> DEFINE new == [subject |-> req[p].subject, expires_at |-> now + Ttl]
<1>1. req[p].subject \in Subjects /\ pc[p] = "propose"
    BY DEF Propose, CallInv, Callers
<1>2. /\ pc' = [pc EXCEPT ![p] = "idle"] /\ req' = [req EXCEPT ![p] = NoRequest]
      /\ UNCHANGED <<now, signed, consumed, durable, keys, acted, powerLoss>>
    BY DEF Propose, Return, Goto
<1>3. CASE nextCid \notin Cids
    <2>1. UNCHANGED <<pending, proposal, nextCid>>
        BY <1>3 DEF Propose
    <2>2. NoRequest \in Call /\ pc \in [Procs -> Labels] /\ req \in [Procs -> Call]
        BY RequestTypes DEF CallInv, TypeOK
    <2>3. /\ consumed' \subseteq Cids /\ durable' \subseteq Cids /\ acted' \in [Cids -> Nat]
          /\ keyFile' \in [by: Procs \cup {None}, key: Keys \cup {NoKey}]
          /\ nextKey' \in 1..(MaxKeys + 1) /\ secret' \in [Procs -> Keys \cup {NoKey}]
          /\ secret' = secret
        BY <1>2 DEF keys, CallInv, TypeOK
    <2>4. QED BY <1>2, <2>1, <2>2, <2>3, GiveUp
<1>4. CASE nextCid \in Cids
    <2>1. /\ proposal' = [proposal EXCEPT ![nextCid] = new]
          /\ pending' = pending \cup {nextCid} /\ nextCid' = nextCid + 1
        BY <1>4 DEF Propose
    <2>2. new \in [subject: Subjects \cup {None}, expires_at: 0..(MaxTime + Ttl)]
        BY <1>1, CapabilityConstants DEF CallInv, TypeOK
    <2>3. new.subject \in Subjects /\ new # NoProposal
        BY <1>1, CapabilityConstants DEF NoProposal
    <2> HIDE DEF new
    <2>4. TypeOK'
        <3>1. nextCid' \in 1..(MaxProposals + 1) /\ pending' \subseteq Cids
            BY <1>4, <2>1, CapabilityConstants DEF CallInv, TypeOK, Cids
        <3>2. proposal' \in [Cids -> [subject: Subjects \cup {None}, expires_at: 0..(MaxTime + Ttl)]]
            BY <1>4, <2>1, <2>2 DEF CallInv, TypeOK
        <3>3. pc' \in [Procs -> Labels] /\ req' \in [Procs -> Call]
            BY <1>2, RequestTypes DEF CallInv, TypeOK, Labels
        <3>4. QED BY <1>2, <3>1, <3>2, <3>3 DEF CallInv, TypeOK, keys
    <2>5. Proposals'
        BY <1>2, <1>4, <2>1, <2>3, CapabilityConstants DEF CallInv, TypeOK, Proposals, Cids
    <2>6. Callers'
        BY <1>2 DEF CallInv, Callers, TypeOK, Presenting
    <2>7. ASSUME NEW q \in Procs, pc'[q] \in Presenting PROVE Presented(q)'
        <3>1. q # p /\ pc[q] \in Presenting /\ req'[q] = req[q]
            BY <1>2, <2>7 DEF CallInv, TypeOK, Presenting
        <3>2. Presented(q)
            BY <3>1 DEF CallInv
        <3>3. req[q].cid # nextCid /\ req[q].cid \in Cids
            BY <3>2 DEF Presented, CallInv, Proposals, TypeOK, Cids
        <3>4. proposal'[req[q].cid] = proposal[req[q].cid]
            BY <2>1, <3>3 DEF CallInv, TypeOK
        <3>5. QED BY <1>2, <3>1, <3>2, <3>4, StillPresented DEF keys
    <2>8. QED BY <2>4, <2>5, <2>6, <2>7 DEF CallInv
<1>5. QED BY <1>3, <1>4

LEMMA DenyInv ==
    ASSUME CallInv, NEW p \in Procs, Deny(p), pc[p] \in Presenting, consumed' \subseteq Cids,
           UNCHANGED <<now, nextCid, proposal, pending, signed, durable, keys, acted, powerLoss>>
    PROVE  CallInv'
<1> DEFINE r == [NoRequest EXCEPT !.subject = req[p].subject]
<1>1. r \in Call /\ r.subject \in Subjects
    BY RequestTypes DEF CallInv, Callers
<1>2. pc' = [pc EXCEPT ![p] = "propose"] /\ req' = [req EXCEPT ![p] = r]
    BY DEF Deny, Goto
<1> HIDE DEF r
<1>3. QED BY <1>1, <1>2, GiveUp DEF keys, CallInv, TypeOK

LEMMA ClaimInv == ASSUME CallInv, NEW p \in Procs, ClaimNonce(p) PROVE CallInv'
<1>1. pc[p] = "claim" /\ req[p].cid \in Cids
    BY DEF ClaimNonce, CallInv, Presenting, Presented
<1>2. CASE req[p].cid \notin consumed
    BY <1>1, <1>2, MoveOn DEF ClaimNonce, Continue, Goto, CallInv, TypeOK, Labels, Presenting
<1>3. CASE req[p].cid \in consumed
    BY <1>1, <1>3, DenyInv DEF ClaimNonce, CallInv, TypeOK, Presenting
<1>4. QED BY <1>2, <1>3

LEMMA SyncInv == ASSUME CallInv, NEW p \in Procs, SyncNonce(p) PROVE CallInv'
<1>1. pc[p] = "sync"
    BY DEF SyncNonce
<1>2. CASE Continue(p, "retire") /\ UNCHANGED consumed
    BY <1>1, <1>2, MoveOn DEF SyncNonce, Continue, Goto, CallInv, TypeOK, Labels, Presenting
<1>3. CASE consumed' \in {consumed, consumed \ {req[p].cid}} /\ Deny(p)
    BY <1>1, <1>3, DenyInv DEF SyncNonce, CallInv, TypeOK, Presenting
<1>4. QED BY <1>2, <1>3 DEF SyncNonce

LEMMA RetireInv == ASSUME CallInv, NEW p \in Procs, RetireProposal(p) PROVE CallInv'
<1>1. pc[p] = "retire" /\ req[p].cid \in Cids
    BY DEF RetireProposal, CallInv, Presenting, Presented
<1>2. durable' \subseteq Cids /\ pending' \subseteq pending
    BY <1>1 DEF RetireProposal, CallInv, TypeOK
<1>3. QED
    BY <1>1, <1>2, MoveOn DEF RetireProposal, Continue, Goto, CallInv, TypeOK, Labels, Presenting

LEMMA ActInv == ASSUME CallInv, NEW p \in Procs, Act(p) PROVE CallInv'
<1>1. req[p].token.cid \in Cids
    BY DEF Act, CallInv, Presenting, Presented
<1>2. acted' \in [Cids -> Nat]
    BY <1>1 DEF Act, CallInv, TypeOK
<1>3. QED BY <1>2, GiveUp, RequestTypes DEF Act, Return, Goto, trust, keys, CallInv, TypeOK

LEMMA FailInv == ASSUME CallInv, NEW p \in Procs, Fail(p) PROVE CallInv'
BY GiveUp, RequestTypes DEF Fail, Return, Goto, trust, keys, CallInv, TypeOK

\* The operator key.
LEMMA KeyTypes ==
    ASSUME CallInv, NEW p \in Procs
    PROVE  /\ Torn(p) \in [by: Procs \cup {None}, key: Keys \cup {NoKey}]
           /\ nextKey \in Keys => Full(nextKey) \in [by: Procs \cup {None}, key: Keys \cup {NoKey}]
           /\ nextKey \in Keys => nextKey + 1 \in 1..(MaxKeys + 1)
BY CapabilityConstants DEF Torn, Full, Keys, CallInv, TypeOK

LEMMA StartKeyInv ==
    ASSUME CallInv, NEW p \in Procs, StartGenerate(p) \/ StartRotate(p)
    PROVE  CallInv'
BY MoveOn DEF StartGenerate, StartRotate, Continue, Goto, trust, CallInv, TypeOK, Labels,
              KeySteps, Presenting

\* Creating the file and moving on: a call with the key of nobody in it.
LEMMA CreateKeyInv == ASSUME CallInv, NEW p \in Procs, CreateKey(p) PROVE CallInv'
<1>1. CASE keyFile # NoFile
    BY <1>1, GiveUp, RequestTypes DEF CreateKey, Return, Goto, trust, CallInv, TypeOK
<1>2. CASE keyFile = NoFile
    <2>1. /\ pc' = [pc EXCEPT ![p] = "g_write"] /\ keyFile' = Torn(p)
          /\ UNCHANGED <<now, trust, nextKey, secret, req, acted, powerLoss>>
        BY <1>2 DEF CreateKey, Continue, Goto
    <2>2. TypeOK'
        BY <2>1, KeyTypes DEF CallInv, TypeOK, trust, Labels, KeySteps
    <2>3. Proposals' /\ Callers'
        BY <2>1 DEF CallInv, TypeOK, Proposals, Callers, trust, Presenting
    <2>4. ASSUME NEW q \in Procs, pc'[q] \in Presenting PROVE Presented(q)'
        <3>1. pc[q] \in Presenting
            BY <2>1, <2>4 DEF CallInv, TypeOK, Presenting
        <3>2. QED BY <2>1, <3>1 DEF CallInv, Presented, trust
    <2>5. QED BY <2>2, <2>3, <2>4 DEF CallInv
<1>3. QED BY <1>1, <1>2

LEMMA HaveKeyInv == ASSUME CallInv, NEW p \in Procs, WriteKey(p) \/ ReplaceKey(p) PROVE CallInv'
<1>1. nextKey \in Keys /\ HaveKey(p) /\ Return(p) /\ UNCHANGED <<now, trust, acted, powerLoss>>
    BY DEF WriteKey, ReplaceKey
<1>2. keyFile' \in [by: Procs \cup {None}, key: Keys \cup {NoKey}]
    BY <1>1, KeyTypes DEF WriteKey, ReplaceKey, CallInv, TypeOK
<1>3. /\ secret' \in [Procs -> Keys \cup {NoKey}] /\ \A q \in Procs \ {p} : secret'[q] = secret[q]
      /\ nextKey' \in 1..(MaxKeys + 1)
    BY <1>1, KeyTypes DEF HaveKey, CallInv, TypeOK
<1>4. QED BY <1>1, <1>2, <1>3, GiveUp, RequestTypes DEF Return, Goto, trust, CallInv, TypeOK

LEMMA LoadKeyInv == ASSUME CallInv, NEW p \in Procs, LoadKey(p) PROVE CallInv'
<1>1. TypeOK'
    BY DEF LoadKey, CallInv, TypeOK, trust
<1>2. Proposals' /\ Callers'
    BY DEF LoadKey, CallInv, Proposals, Callers, trust
<1>3. ASSUME NEW q \in Procs, pc'[q] \in Presenting PROVE Presented(q)'
    <2>1. q # p /\ pc[q] \in Presenting /\ secret'[q] = secret[q]
        BY <1>3 DEF LoadKey, CallInv, TypeOK, Presenting
    <2>2. QED BY <2>1, StillPresented DEF CallInv, LoadKey, trust
<1>4. QED BY <1>1, <1>2, <1>3 DEF CallInv

LEMMA SignInv == ASSUME CallInv, Sign PROVE CallInv'
<1>1. PICK c \in pending, k \in Keys :
          signed' = signed \cup {[cid |-> c, subject |-> proposal[c].subject,
                                  expires_at |-> proposal[c].expires_at, key |-> k]}
    BY DEF Sign
<1> DEFINE t == [cid |-> c, subject |-> proposal[c].subject,
                 expires_at |-> proposal[c].expires_at, key |-> k]
<1>2. t \in Tokens /\ t.cid \in Cids /\ t.cid < nextCid
    BY DEF CallInv, TypeOK, Proposals, Tokens
<1>3. signed' = signed \cup {t}
    BY <1>1
<1>4. UNCHANGED <<now, nextCid, proposal, pending, consumed, durable, keys, pc, req, acted, powerLoss>>
    BY DEF Sign
<1> HIDE DEF t
<1>5. TypeOK'
    BY <1>2, <1>3, <1>4 DEF CallInv, TypeOK, keys
<1>6. Proposals' /\ Callers'
    BY <1>2, <1>3, <1>4 DEF CallInv, Proposals, Callers
<1>7. \A q \in Procs : pc'[q] \in Presenting => Presented(q)'
    BY <1>3, <1>4, StillPresented DEF CallInv, keys
<1>8. QED BY <1>5, <1>6, <1>7 DEF CallInv

LEMMA PowerLossInv == ASSUME CallInv, PowerLoss PROVE CallInv'
<1>1. TypeOK'
    BY CapabilityConstants, RequestTypes DEF CallInv, PowerLoss, TypeOK, Labels, KeySteps
<1>2. Proposals' /\ Callers'
    BY DEF CallInv, PowerLoss, Proposals, Callers, Presenting
<1>3. \A q \in Procs : pc'[q] \notin Presenting
    BY DEF PowerLoss, Presenting
<1>4. QED BY <1>1, <1>2, <1>3 DEF CallInv

LEMMA TickInv == ASSUME CallInv, Tick PROVE CallInv'
<1>1. TypeOK'
    BY CapabilityConstants DEF CallInv, Tick, TypeOK, trust, keys
<1>2. Proposals' /\ Callers'
    BY DEF CallInv, Tick, Proposals, Callers, trust
<1>3. \A q \in Procs : pc'[q] \in Presenting => Presented(q)'
    BY StillPresented DEF CallInv, Tick, trust, keys
<1>4. QED BY <1>1, <1>2, <1>3 DEF CallInv

LEMMA StutterInv == ASSUME CallInv, UNCHANGED vars PROVE CallInv'
<1>1. TypeOK' /\ Proposals' /\ Callers'
    BY DEF CallInv, vars, TypeOK, Proposals, Callers
<1>2. \A q \in Procs : pc'[q] \in Presenting => Presented(q)'
    BY DEF CallInv, vars, Presented
<1>3. QED BY <1>1, <1>2 DEF CallInv

LEMMA NextCalls == ASSUME CallInv, [Next]_vars PROVE CallInv'
<1>1. ASSUME NEW p \in Procs, Start(p) PROVE CallInv'
    BY <1>1, RequestInv, StartKeyInv, LoadKeyInv DEF Start
<1>2. ASSUME NEW p \in Procs, Step(p) PROVE CallInv'
    BY <1>2, ClaimInv, SyncInv, RetireInv, ActInv, ProposeInv, CreateKeyInv, HaveKeyInv DEF Step
<1>3. QED BY <1>1, <1>2, FailInv, SignInv, TickInv, PowerLossInv, StutterInv DEF Next

\* The invariant of calls holds in every reachable state.
THEOREM CallInvariant == Spec => []CallInv
BY InitCalls, NextCalls, PTL DEF Spec

\* The variables of gated calls, nonces and keys keep their types, for every
\* value of the constants.
THEOREM CapabilityTypes == Spec => []TypeOK
BY CallInvariant, PTL DEF CallInv

(***************************************************************************)
(* What was checked before the nonce was claimed still holds at the action.  *)
(***************************************************************************)
LEMMA PresentedActs == CallInv => ActsAsSigned
BY DEF CallInv, Presenting, Presented, ActsAsSigned

(***************************************************************************)
(* Whoever is about to act still holds, for this request and under this key, *)
(* what an operator signed (authority.py 440-444).                           *)
(***************************************************************************)
THEOREM SignedActions == Spec => []ActsAsSigned
BY CallInvariant, PresentedActs, PTL

----------------------------------------------------------------------------
\* Single use.  One process at a time has won a nonce, and none after the action;
\* the record of a nonce that is synced stays, and the action comes after.
Winner(p) ==
    LET c == req[p].cid IN
    /\ c \in consumed /\ acted[c] = 0
    /\ pc[p] = "sync" => c \notin durable
    /\ pc[p] = "act"  => c \in durable
Winners     == \A p \in Procs : pc[p] \in Won => Winner(p)
OneWinner   == \A p, q \in Procs :
                  pc[p] \in Won /\ pc[q] \in Won /\ req[p].cid = req[q].cid => p = q
ActedOnce   == \A c \in Cids : acted[c] <= 1 /\ (acted[c] > 0 => c \in durable)
OnceInv == durable \subseteq consumed /\ Winners /\ OneWinner /\ ActedOnce

LEMMA InitOnce == Init => OnceInv
BY DEF Init, OnceInv, Winners, OneWinner, ActedOnce, Won

\* A step without nonces after which no process has won that had not before.
LEMMA NoNewWinner ==
    ASSUME OnceInv, UNCHANGED <<consumed, durable, acted>>,
           \A q \in Procs : pc'[q] \in Won => pc'[q] = pc[q] /\ req'[q] = req[q]
    PROVE  OnceInv'
<1>1. Winners' /\ OneWinner'
    BY DEF OnceInv, Winners, Winner, OneWinner
<1>2. QED BY <1>1 DEF OnceInv, ActedOnce

LEMMA DenyOnce ==
    ASSUME CallInv, OnceInv, NEW p \in Procs, Deny(p)
    PROVE  \A q \in Procs : pc'[q] \in Won => q # p /\ pc'[q] = pc[q] /\ req'[q] = req[q]
BY DEF Deny, Goto, CallInv, TypeOK, Won

\* open(consumed_path, "x") lets nobody in who has not found the record missing.
LEMMA ClaimOnce == ASSUME CallInv, OnceInv, NEW p \in Procs, ClaimNonce(p) PROVE OnceInv'
<1> DEFINE c == req[p].cid
<1>1. c \in Cids
    BY DEF ClaimNonce, CallInv, Presenting, Presented
<1>2. CASE c \in consumed
    BY <1>2, DenyOnce, NoNewWinner DEF ClaimNonce
<1>3. CASE c \notin consumed
    <2>1. /\ consumed' = consumed \cup {c} /\ pc' = [pc EXCEPT ![p] = "sync"]
          /\ UNCHANGED <<req, durable, acted>>
        BY <1>3 DEF ClaimNonce, Continue, Goto
    <2>2. c \notin durable /\ acted[c] = 0
        BY <1>1, <1>3 DEF OnceInv, ActedOnce, CallInv, TypeOK
    <2>3. \A q \in Procs : pc'[q] \in Won =>
              \/ q = p /\ pc'[q] = "sync"
              \/ q # p /\ pc'[q] = pc[q] /\ req[q].cid # c
        BY <1>3, <2>1 DEF OnceInv, Winners, Winner, CallInv, TypeOK
    <2>4. Winners'
        BY <2>1, <2>2, <2>3 DEF OnceInv, Winners, Winner
    <2>5. OneWinner'
        BY <2>1, <2>3 DEF OnceInv, OneWinner
    <2>6. QED BY <2>1, <2>4, <2>5 DEF OnceInv, ActedOnce
<1>4. QED BY <1>2, <1>3

\* A record is removed by its winner only, who then gives up.
LEMMA SyncOnce == ASSUME CallInv, OnceInv, NEW p \in Procs, SyncNonce(p) PROVE OnceInv'
<1> DEFINE c == req[p].cid
<1>1. pc[p] = "sync" /\ UNCHANGED <<durable, acted>> /\ c \notin durable
    BY DEF SyncNonce, OnceInv, Winners, Winner, Won
<1>2. CASE Continue(p, "retire") /\ UNCHANGED consumed
    <2>1. pc' = [pc EXCEPT ![p] = "retire"] /\ UNCHANGED <<req, consumed>>
        BY <1>2 DEF Continue, Goto
    <2>2. \A q \in Procs : pc'[q] \in Won => pc[q] \in Won /\ (pc'[q] = pc[q] \/ pc'[q] = "retire")
        BY <1>1, <2>1 DEF CallInv, TypeOK, Won
    <2>3. Winners' /\ OneWinner'
        BY <1>1, <2>1, <2>2 DEF OnceInv, Winners, Winner, OneWinner
    <2>4. QED BY <1>1, <2>1, <2>3 DEF OnceInv, ActedOnce
<1>3. CASE consumed' \in {consumed, consumed \ {c}} /\ Deny(p)
    <2>1. \A q \in Procs : pc'[q] \in Won =>
              pc'[q] = pc[q] /\ req'[q] = req[q] /\ req[q].cid # c
        BY <1>1, <1>3, DenyOnce DEF OnceInv, OneWinner, Won
    <2>2. Winners'
        BY <1>1, <1>3, <2>1 DEF OnceInv, Winners, Winner
    <2>3. OneWinner'
        BY <2>1 DEF OnceInv, OneWinner
    <2>4. QED BY <1>1, <1>3, <2>2, <2>3 DEF OnceInv, ActedOnce
<1>4. QED BY <1>2, <1>3 DEF SyncNonce

LEMMA RetireOnce ==
    ASSUME DirectorySync, CallInv, OnceInv, NEW p \in Procs, RetireProposal(p)
    PROVE  OnceInv'
<1> DEFINE c == req[p].cid
<1>1. /\ pc[p] = "retire" /\ pc' = [pc EXCEPT ![p] = "act"]
      /\ durable' = durable \cup {c} /\ UNCHANGED <<req, consumed, acted>>
    BY DEF RetireProposal, Continue, Goto
<1>2. \A q \in Procs : pc'[q] \in Won =>
          /\ pc[q] \in Won
          /\ \/ q = p /\ pc'[q] = "act"
             \/ q # p /\ pc'[q] = pc[q] /\ req[q].cid # c
    BY <1>1 DEF CallInv, TypeOK, Won, OnceInv, OneWinner
<1>3. durable' \subseteq consumed'
    BY <1>1 DEF OnceInv, Winners, Winner, Won
<1>4. Winners'
    BY <1>1, <1>2 DEF OnceInv, Winners, Winner
<1>5. OneWinner'
    BY <1>1, <1>2 DEF OnceInv, OneWinner
<1>6. QED BY <1>1, <1>3, <1>4, <1>5 DEF OnceInv, ActedOnce

LEMMA ActOnce == ASSUME CallInv, OnceInv, NEW p \in Procs, Act(p) PROVE OnceInv'
<1> DEFINE c == req[p].cid
<1>1. pc[p] = "act" /\ c \in Cids /\ req[p].token.cid = c
    BY DEF Act, CallInv, Presenting, Presented
<1>2. /\ acted' = [acted EXCEPT ![c] = @ + 1] /\ UNCHANGED <<consumed, durable>>
      /\ pc' = [pc EXCEPT ![p] = "idle"] /\ req' = [req EXCEPT ![p] = NoRequest]
    BY <1>1 DEF Act, Return, Goto, trust
<1>3. acted[c] = 0 /\ c \in durable
    BY <1>1 DEF OnceInv, Winners, Winner, Won
<1>4. \A q \in Procs : pc'[q] \in Won =>
          pc[q] \in Won /\ pc'[q] = pc[q] /\ req'[q] = req[q] /\ req[q].cid # c
    BY <1>1, <1>2 DEF CallInv, TypeOK, Won, OnceInv, OneWinner
<1>5. \A q \in Procs : pc[q] \in Won => req[q].cid \in Cids
    BY DEF CallInv, Presenting, Presented, Won
<1>6. Winners'
    BY <1>1, <1>2, <1>4, <1>5 DEF OnceInv, Winners, Winner, CallInv, TypeOK
<1>7. OneWinner'
    BY <1>4 DEF OnceInv, OneWinner
<1>8. ActedOnce'
    BY <1>1, <1>2, <1>3 DEF OnceInv, ActedOnce, CallInv, TypeOK
<1>9. QED BY <1>2, <1>6, <1>7, <1>8 DEF OnceInv

LEMMA PowerLossOnce == ASSUME OnceInv, PowerLoss PROVE OnceInv'
<1>1. durable' \subseteq consumed' /\ UNCHANGED <<durable, acted>>
    BY DEF PowerLoss, OnceInv
<1>2. \A q \in Procs : pc'[q] \notin Won
    BY DEF PowerLoss, Won
<1>3. QED BY <1>1, <1>2 DEF OnceInv, Winners, OneWinner, ActedOnce

\* Every other step leaves the winners alone.
LEMMA OtherOnce ==
    ASSUME CallInv, OnceInv, NEW p \in Procs,
           Start(p) \/ Propose(p) \/ CreateKey(p) \/ WriteKey(p) \/ ReplaceKey(p) \/ Fail(p)
    PROVE  OnceInv'
<1>1. UNCHANGED <<consumed, durable, acted>>
    BY DEF Start, Request, StartGenerate, StartRotate, LoadKey, Propose, CreateKey, WriteKey,
           ReplaceKey, Fail, trust
<1>2. /\ pc'[p] \notin Won
      /\ \A q \in Procs \ {p} : pc'[q] = pc[q] /\ req'[q] = req[q]
    <2>1. CASE Request(p)
        BY <2>1 DEF Request, Goto, CallInv, TypeOK, Won
    <2>2. CASE StartGenerate(p) \/ StartRotate(p) \/ LoadKey(p)
        BY <2>2 DEF StartGenerate, StartRotate, LoadKey, Continue, Goto, CallInv, TypeOK, Won
    <2>3. CASE Propose(p) \/ WriteKey(p) \/ ReplaceKey(p) \/ Fail(p)
        BY <2>3 DEF Propose, WriteKey, ReplaceKey, Fail, Return, Goto, CallInv, TypeOK, Won
    <2>4. CASE CreateKey(p)
        BY <2>4 DEF CreateKey, Continue, Return, Goto, CallInv, TypeOK, Won
    <2>5. QED BY <2>1, <2>2, <2>3, <2>4 DEF Start
<1>3. QED BY <1>1, <1>2, NoNewWinner

LEMMA NextOnce ==
    ASSUME DirectorySync, CallInv, OnceInv, [Next]_vars
    PROVE  OnceInv'
<1>1. ASSUME NEW p \in Procs, Start(p) \/ Fail(p) PROVE OnceInv'
    BY <1>1, OtherOnce
<1>2. ASSUME NEW p \in Procs, Step(p) PROVE OnceInv'
    BY <1>2, ClaimOnce, SyncOnce, RetireOnce, ActOnce, OtherOnce DEF Step
<1>3. CASE Sign \/ Tick \/ UNCHANGED vars
    <2>1. UNCHANGED <<consumed, durable, acted, pc, req>>
        BY <1>3 DEF Sign, Tick, vars, trust
    <2>2. QED BY <2>1, NoNewWinner
<1>4. QED BY <1>1, <1>2, <1>3, PowerLossOnce DEF Next

LEMMA OnceInvariant == ASSUME DirectorySync PROVE Spec => []OnceInv
<1>1. Init => OnceInv
    BY InitOnce
<1>2. CallInv /\ OnceInv /\ [Next]_vars => OnceInv'
    BY NextOnce
<1>3. QED BY <1>1, <1>2, CallInvariant, PTL DEF Spec

(***************************************************************************)
(* docs/capabilities.md 45: whatever crashes, and however often the power    *)
(* fails, the action of a token is executed at most once, on a host where    *)
(* _sync_dir reports "synced".                                               *)
(***************************************************************************)
THEOREM TokensSingleUse == ASSUME DirectorySync PROVE Spec => []SingleUse
<1>1. OnceInv => SingleUse
    BY DEF OnceInv, ActedOnce, SingleUse
<1>2. QED BY <1>1, OnceInvariant, PTL

\* authority.py 454-456: the record of the nonce precedes the action and stays.
THEOREM ActionsRecorded == ASSUME DirectorySync PROVE Spec => []RecordedBeforeAction
<1>1. OnceInv => RecordedBeforeAction
    BY DEF OnceInv, ActedOnce, Winners, Winner, Won, RecordedBeforeAction
<1>2. QED BY <1>1, OnceInvariant, PTL

\* Of the steps that write the key file only ReplaceKey finds a key in it.
LEMMA KeyStep ==
    ASSUME CallInv, [Next]_vars, keyFile.key # NoKey, keyFile' # keyFile
    PROVE  keyFile'.key # NoKey /\ \E p \in Procs : pc[p] = "k_replace" /\ pc'[p] = "idle"
<1>1. \A p \in Procs : ~CreateKey(p) /\ ~WriteKey(p)
    BY DEF CreateKey, WriteKey, NoFile, Torn
<1>2. PICK p \in Procs : ReplaceKey(p)
    BY <1>1 DEF Next, Start, Step, Request, StartGenerate, StartRotate, LoadKey, ClaimNonce,
                SyncNonce, RetireProposal, Act, Propose, Fail, Sign, Tick, PowerLoss, keys, vars
<1>3. keyFile'.key # NoKey
    BY <1>2, CapabilityConstants DEF ReplaceKey, Full, Keys, NoKey
<1>4. pc[p] = "k_replace" /\ pc'[p] = "idle"
    BY <1>2 DEF ReplaceKey, Return, Goto, CallInv, TypeOK
<1>5. QED BY <1>3, <1>4

(***************************************************************************)
(* A complete key gives way only to the complete key of a rotation, whoever  *)
(* provisions and whatever fails (authority.py 105, 155).                    *)
(***************************************************************************)
THEOREM KeysStand == Spec => KeyStands
<1>1. CallInv /\ [Next]_vars =>
        [keyFile.key # NoKey /\ keyFile' # keyFile =>
            /\ keyFile'.key # NoKey
            /\ \E p \in Procs : pc[p] = "k_replace" /\ pc'[p] = "idle"]_vars
    BY KeyStep
<1>2. QED BY <1>1, CallInvariant, PTL DEF Spec, KeyStands
=============================================================================
