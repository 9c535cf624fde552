------------------------------ MODULE M3Runtime ------------------------------
(***************************************************************************)
(* M3Runtime of the hosted service: pairing a device with an account,      *)
(* enrolling and revoking credentials, and forwarding decisions to the     *)
(* broker.  The runtime is one JavaScript thread; a handler runs without   *)
(* interruption up to an await and from there on, so a route that awaits   *)
(* is a Begin action and an End action, and anything may happen in         *)
(* between.  A route that throws before it changed anything is not         *)
(* written down.                                                           *)
(*                                                                         *)
(* Instants are abstracted: a pairing, a request or a session is live      *)
(* until a step says that its time has come.                               *)
(***************************************************************************)
EXTENDS Integers, Sequences, FiniteSets

CONSTANTS
  Accounts,         \* accounts that can sign in
  TenantOf,         \* the tenant of an account
  Devices, Pairings, Credentials, Requests,   \* public ids
  Calls,            \* requests to the runtime that may be in flight
  MaxCredentials,   \* enrolled credentials of a device that are not quarantined
  MaxOutbox,        \* bound: messages queued to the broker
  Nobody, None

Tenants == {TenantOf[a] : a \in Accounts}

VARIABLES
  sessions,      \* accounts with a session that has not expired
  pairings,
  devices,
  credentials,
  requests,
  relayOutbox,
  call,          \* the handler that awaits something, or None
  typed          \* who entered the right code for a pairing

vars == <<sessions, pairings, devices, credentials, requests, relayOutbox, call, typed>>

PairingRecords ==
  [device : Devices, claimedBy : Accounts \cup {Nobody}, rootConfirmed : BOOLEAN,
   webConfirmed : BOOLEAN, consumed : BOOLEAN, expired : BOOLEAN]
DeviceRecords == [tenant : Tenants, enrollmentState : {"active", "approval_locked"}]
CredentialRecords == [tenant : Tenants, device : Devices, quarantined : BOOLEAN]
RequestRecords ==
  [tenant : Tenants, device : Devices, expired : BOOLEAN,
   projection : {"pending", "approved", "denied", "terminal"}]
Messages ==
  [kind : {"decision_submission"}, request : Requests, credential : Credentials,
   decision : {"approve", "deny"}]
  \cup [kind : {"revocation_event"}, credential : Credentials]
CallRecords ==
  [route : {"confirm"}, account : Accounts, pairing : Pairings]
  \cup [route : {"decisions"}, account : Accounts, request : Requests]
  \cup [route : {"revocations"}, account : Accounts, credential : Credentials]

ASSUME RuntimeAssumption ==
  /\ MaxCredentials \in Nat /\ MaxOutbox \in Nat /\ DOMAIN TenantOf = Accounts
  /\ Nobody \notin Accounts
  /\ None \notin PairingRecords \cup DeviceRecords \cup CredentialRecords
                   \cup RequestRecords \cup CallRecords

\* The maps hold the records their interfaces describe.
TypeOK ==
  /\ sessions \subseteq Accounts
  /\ pairings \in [Pairings -> PairingRecords \cup {None}]
  /\ devices \in [Devices -> DeviceRecords \cup {None}]
  /\ credentials \in [Credentials -> CredentialRecords \cup {None}]
  /\ requests \in [Requests -> RequestRecords \cup {None}]
  /\ relayOutbox \in Seq(Messages)
  /\ call \in [Calls -> CallRecords \cup {None}]
  /\ typed \in [Pairings -> SUBSET Accounts]

Init ==
  /\ sessions = {}
  /\ pairings = [p \in Pairings |-> None]
  /\ devices = [d \in Devices |-> None]
  /\ credentials = [c \in Credentials |-> None]
  /\ requests = [q \in Requests |-> None]
  /\ relayOutbox = <<>>
  /\ call = [h \in Calls |-> None]
  /\ typed = [p \in Pairings |-> {}]

------------------------------------------------------------------------------
\* Time and sessions.

SignIn(a) ==
  /\ sessions' = sessions \cup {a}
  /\ UNCHANGED <<pairings, devices, credentials, requests, relayOutbox, call, typed>>

SessionExpires(a) ==
  /\ sessions' = sessions \ {a}
  /\ UNCHANGED <<pairings, devices, credentials, requests, relayOutbox, call, typed>>

PairingExpires(p) ==
  /\ pairings[p] # None
  /\ pairings' = [pairings EXCEPT ![p].expired = TRUE]
  /\ UNCHANGED <<sessions, devices, credentials, requests, relayOutbox, call, typed>>

RequestExpires(q) ==
  /\ requests[q] # None
  /\ requests' = [requests EXCEPT ![q].expired = TRUE]
  /\ UNCHANGED <<sessions, pairings, devices, credentials, relayOutbox, call, typed>>

------------------------------------------------------------------------------
\* Pairing.

livePairing(p) == pairings[p] # None /\ ~pairings[p].consumed /\ ~pairings[p].expired

preparePairing(p, d) ==
  /\ pairings[p] = None
  /\ pairings' = [pairings EXCEPT ![p] =
       [device |-> d, claimedBy |-> Nobody, rootConfirmed |-> FALSE,
        webConfirmed |-> FALSE, consumed |-> FALSE, expired |-> FALSE]]
  /\ UNCHANGED <<sessions, devices, credentials, requests, relayOutbox, call, typed>>

\* livePairing of an expired pairing consumes it on the way to its error.
TouchExpiredPairing(p) ==
  /\ pairings[p] # None /\ pairings[p].expired
  /\ pairings' = [pairings EXCEPT ![p].consumed = TRUE]
  /\ UNCHANGED <<sessions, devices, credentials, requests, relayOutbox, call, typed>>

\* Both sides confirmed a pairing that nothing consumed.
Complete(record) ==
  /\ record.rootConfirmed /\ record.webConfirmed
  /\ record.claimedBy # Nobody /\ ~record.consumed

\* tryActivate, after the confirmation that gives the record.
ConfirmedAndActivated(p, record) ==
  \/ /\ Complete(record)
     /\ pairings' = [pairings EXCEPT ![p] = [record EXCEPT !.consumed = TRUE]]
     /\ devices' = [devices EXCEPT ![record.device] =
                      [tenant |-> TenantOf[record.claimedBy], enrollmentState |-> "active"]]
  \/ /\ ~Complete(record)
     /\ pairings' = [pairings EXCEPT ![p] = record]
     /\ UNCHANGED devices

Consumed(p) ==
  /\ pairings' = [pairings EXCEPT ![p].consumed = TRUE]
  /\ UNCHANGED devices

\* confirmPairingFromBroker: nonce and key are those of the transcript, or not.
confirmPairingFromBroker(p, matches) ==
  /\ livePairing(p)
  /\ IF matches THEN ConfirmedAndActivated(p, [pairings[p] EXCEPT !.rootConfirmed = TRUE])
                ELSE Consumed(p)
  /\ UNCHANGED <<sessions, credentials, requests, relayOutbox, call, typed>>

\* Fault: a later claim takes the pairing over.
ClaimableByAnyone(a, p) == TRUE

ClaimableBy(a, p) == pairings[p].claimedBy \in {Nobody, a}

\* pairingRoute, claim.
claim(a, p) ==
  /\ a \in sessions /\ livePairing(p) /\ ClaimableBy(a, p)
  /\ pairings' = [pairings EXCEPT ![p].claimedBy = a]
  /\ UNCHANGED <<sessions, devices, credentials, requests, relayOutbox, call, typed>>

Begin(h, record) == call[h] = None /\ call' = [call EXCEPT ![h] = record]
Awaits(h, route) == call[h] # None /\ call[h].route = route
End(h) == call' = [call EXCEPT ![h] = None]

\* Nothing takes messages out: relayOutboxRoute shows all of them again.
queueOpaqueToBroker(message) ==
  /\ Len(relayOutbox) < MaxOutbox
  /\ relayOutbox' = Append(relayOutbox, message)

\* pairingRoute, confirm, up to the body of the request.
BeginConfirm(h, a, p) ==
  /\ a \in sessions /\ livePairing(p) /\ pairings[p].claimedBy = a
  /\ Begin(h, [route |-> "confirm", account |-> a, pairing |-> p])
  /\ UNCHANGED <<sessions, pairings, devices, credentials, requests, relayOutbox, typed>>

\* The comparison code is right or wrong; the pairing is not looked up again.
EndConfirm(h, right) ==
  LET p == call[h].pairing
  IN
  /\ Awaits(h, "confirm")
  /\ IF right THEN /\ ConfirmedAndActivated(p, [pairings[p] EXCEPT !.webConfirmed = TRUE])
                   /\ typed' = [typed EXCEPT ![p] = @ \cup {call[h].account}]
              ELSE Consumed(p) /\ UNCHANGED typed
  /\ End(h)
  /\ UNCHANGED <<sessions, credentials, requests, relayOutbox>>

------------------------------------------------------------------------------
\* Credentials.

Usable(d) ==
  {c \in Credentials : /\ credentials[c] # None
                       /\ credentials[c].device = d /\ ~credentials[c].quarantined}

\* Fault: a locked device accepts credentials.
AcceptsWhenLocked(d, t) == devices[d] # None /\ devices[d].tenant = t

AcceptsCredentials(d, t) ==
  devices[d] # None /\ devices[d].tenant = t /\ devices[d].enrollmentState = "active"

enrollCredential(c, t, d) ==
  /\ AcceptsCredentials(d, t)
  /\ Cardinality(Usable(d)) < MaxCredentials /\ credentials[c] = None
  /\ credentials' = [credentials EXCEPT ![c] =
                       [tenant |-> t, device |-> d, quarantined |-> FALSE]]
  /\ UNCHANGED <<sessions, pairings, devices, requests, relayOutbox, call, typed>>

\* revocationRoute, up to the proof.
BeginRevocation(h, a, c) ==
  /\ a \in sessions
  /\ credentials[c] # None /\ credentials[c].tenant = TenantOf[a]
  /\ Begin(h, [route |-> "revocations", account |-> a, credential |-> c])
  /\ UNCHANGED <<sessions, pairings, devices, credentials, requests, relayOutbox, typed>>

\* Fault: the credential being revoked counts as remaining.
LockIfNoneBefore(c) ==
  LET d == credentials[c].device
  IN devices' = IF Usable(d) = {} THEN [devices EXCEPT ![d].enrollmentState = "approval_locked"]
                                  ELSE devices

\* The device is locked when no other credential remains.
LockIfLast(c) ==
  LET d == credentials[c].device
  IN devices' = IF Usable(d) \subseteq {c}
                  THEN [devices EXCEPT ![d].enrollmentState = "approval_locked"]
                  ELSE devices

\* The proof is there: quarantine, lock, queue.
EndRevocation(h) ==
  LET c == call[h].credential
  IN
  /\ Awaits(h, "revocations")
  /\ credentials' = [credentials EXCEPT ![c].quarantined = TRUE]
  /\ LockIfLast(c)
  /\ queueOpaqueToBroker([kind |-> "revocation_event", credential |-> c])
  /\ End(h)
  /\ UNCHANGED <<sessions, pairings, requests, typed>>

------------------------------------------------------------------------------
\* Requests and decisions.

\* A repeated envelope with the same contents changes nothing.
ingestVerifiedRequest(q, t, d) ==
  /\ devices[d] # None /\ devices[d].tenant = t
  /\ requests[q] = None
  /\ requests' = [requests EXCEPT ![q] =
       [tenant |-> t, device |-> d, expired |-> FALSE, projection |-> "pending"]]
  /\ UNCHANGED <<sessions, pairings, devices, credentials, relayOutbox, call, typed>>

projectionOf(terminalState) == IF terminalState = "denied" THEN "denied" ELSE "terminal"

ingestVerifiedBrokerReceipt(q, terminalState) ==
  /\ requests[q] # None
  /\ requests' = [requests EXCEPT ![q].projection = projectionOf(terminalState)]
  /\ UNCHANGED <<sessions, pairings, devices, credentials, relayOutbox, call, typed>>

Undecided(q) == requests[q].projection = "pending" /\ ~requests[q].expired

\* requestRoute, decisions, up to the verifier.
BeginDecision(h, a, q) ==
  /\ a \in sessions
  /\ requests[q] # None /\ requests[q].tenant = TenantOf[a] /\ Undecided(q)
  /\ Begin(h, [route |-> "decisions", account |-> a, request |-> q])
  /\ UNCHANGED <<sessions, pairings, devices, credentials, requests, relayOutbox, typed>>

\* Fault: what was checked before the verifier yielded is not checked again.
StillUndecidedIgnored(q) == TRUE
StillUndecided(q) == Undecided(q)

\* Fault: a quarantined credential may still decide.
MayDecideThoughQuarantined(a, q, c) ==
  /\ credentials[c] # None /\ credentials[c].tenant = TenantOf[a]
  /\ credentials[c].device = requests[q].device

\* Fault: any credential of the device may decide, whoever enrolled it.
MayDecideAcrossTenants(a, q, c) ==
  /\ credentials[c] # None /\ credentials[c].device = requests[q].device
  /\ ~credentials[c].quarantined

\* The credential the ceremony used, as the map has it now.
MayDecide(a, q, c) ==
  /\ credentials[c] # None /\ credentials[c].tenant = TenantOf[a]
  /\ credentials[c].device = requests[q].device
  /\ ~credentials[c].quarantined

\* The verifier returned a ceremony: recheck, queue, update the projection.
EndDecision(h, c, decision) ==
  LET q == call[h].request
  IN
  /\ Awaits(h, "decisions")
  /\ StillUndecided(q) /\ MayDecide(call[h].account, q, c)
  /\ queueOpaqueToBroker([kind |-> "decision_submission", request |-> q,
                          credential |-> c, decision |-> decision])
  /\ requests' = [requests EXCEPT ![q].projection =
                    IF decision = "approve" THEN "approved" ELSE "denied"]
  /\ End(h)
  /\ UNCHANGED <<sessions, pairings, devices, credentials, typed>>

\* What was awaited fails, or the checks behind it do.
GiveUp(h) ==
  /\ call[h] # None
  /\ End(h)
  /\ UNCHANGED <<sessions, pairings, devices, credentials, requests, relayOutbox, typed>>

------------------------------------------------------------------------------
Next ==
  \/ \E a \in Accounts : SignIn(a) \/ SessionExpires(a)
  \/ \E q \in Requests : RequestExpires(q)
  \/ \E p \in Pairings :
       \/ PairingExpires(p) \/ TouchExpiredPairing(p)
       \/ \E d \in Devices : preparePairing(p, d)
       \/ \E matches \in BOOLEAN : confirmPairingFromBroker(p, matches)
       \/ \E a \in Accounts : claim(a, p)
  \/ \E t \in Tenants, d \in Devices :
       \/ \E c \in Credentials : enrollCredential(c, t, d)
       \/ \E q \in Requests : ingestVerifiedRequest(q, t, d)
  \/ \E q \in Requests, s \in {"succeeded", "failed", "denied"} :
       ingestVerifiedBrokerReceipt(q, s)
  \/ \E h \in Calls :
       \/ \E a \in Accounts :
            \/ \E p \in Pairings : BeginConfirm(h, a, p)
            \/ \E c \in Credentials : BeginRevocation(h, a, c)
            \/ \E q \in Requests : BeginDecision(h, a, q)
       \/ \E right \in BOOLEAN : EndConfirm(h, right)
       \/ EndRevocation(h)
       \/ \E c \in Credentials, decision \in {"approve", "deny"} : EndDecision(h, c, decision)
       \/ GiveUp(h)

Spec == Init /\ [][Next]_vars

------------------------------------------------------------------------------
\* Properties.

IsDecision(i) == relayOutbox[i].kind = "decision_submission"

\* At most one decision of a request is forwarded, however many ceremonies were
\* verified at the same time ("so concurrent approve/deny ceremonies cannot both
\* forward", requestRoute).
ForwardedOnce ==
  \A i, j \in 1 .. Len(relayOutbox) :
    IsDecision(i) /\ IsDecision(j) /\ relayOutbox[i].request = relayOutbox[j].request
      => i = j

\* Nothing a credential decided is forwarded behind its revocation, although the
\* ceremony may have begun before it (requestRoute, revocationRoute).
NoDecisionAfterRevocation ==
  \A i, j \in 1 .. Len(relayOutbox) :
    i < j /\ ~IsDecision(i) /\ IsDecision(j)
      => relayOutbox[i].credential # relayOutbox[j].credential

\* No decision crosses tenants or devices: what is queued was decided by a credential
\* of the tenant and the device of its request, although the ceremony was awaited and
\* the device, with its old credentials, may have been paired with another account
\* (requestRoute, tryActivate).
DecisionsStayInTenant ==
  \A i \in 1 .. Len(relayOutbox) :
    IsDecision(i) =>
      LET c == relayOutbox[i].credential
          q == relayOutbox[i].request
      IN /\ credentials[c] # None /\ requests[q] # None
         /\ credentials[c].tenant = requests[q].tenant
         /\ credentials[c].device = requests[q].device

\* A locked device has no credential left that could decide, whatever enrollments
\* and revocations overlapped (revocationRoute, enrollCredential).
LockedHasNoCredential ==
  \A d \in Devices :
    devices[d] # None /\ devices[d].enrollmentState = "approval_locked" => Usable(d) = {}

\* A device belongs to the tenant of an account that claimed its pairing, entered the
\* right code itself and was confirmed by the broker (pairingRoute, tryActivate).
ActivatedForItsClaimer ==
  \A d \in Devices :
    devices[d] # None =>
      \E p \in Pairings :
        /\ pairings[p] # None /\ pairings[p].device = d /\ pairings[p].rootConfirmed
        /\ pairings[p].claimedBy \in typed[p]
        /\ TenantOf[pairings[p].claimedBy] = devices[d].tenant

\* Once the last credential of a device that has any is quarantined, the device is
\* locked until it is paired again: no step leaves an active device behind a
\* revocation that emptied it (revocationRoute).
LastRevocationLocks ==
  [][\A d \in Devices :
       Usable(d) # {} /\ Usable(d)' = {} => devices'[d].enrollmentState = "approval_locked"]_vars
=============================================================================
