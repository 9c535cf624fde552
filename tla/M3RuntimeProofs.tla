--------------------------- MODULE M3RuntimeProofs ---------------------------
(***************************************************************************)
(* Theorems about M3Runtime for every set of accounts, devices, pairings,  *)
(* credentials and requests, and for any number of handlers in flight.     *)
(***************************************************************************)
EXTENDS M3Runtime, TLAPS

\* What a handler that awaits something still refers to when it goes on: no map
\* loses a record, and a claimed pairing stays with its claimer.
CallRefers(h) ==
  /\ call[h].route = "confirm" =>
       /\ pairings[call[h].pairing] # None
       /\ pairings[call[h].pairing].claimedBy = call[h].account
  /\ call[h].route = "revocations" => credentials[call[h].credential] # None
  /\ call[h].route = "decisions" => requests[call[h].request] # None

\* TypeOK is inductive only with these references.
TypeInv ==
  /\ TypeOK
  /\ \A h \in Calls : call[h] # None => CallRefers(h)
  /\ \A c \in Credentials : credentials[c] # None => devices[credentials[c].device] # None

\* What no step takes away from a record.
PairingGrows(p) ==
  pairings[p] # None =>
    /\ pairings'[p] # None /\ pairings'[p].device = pairings[p].device
    /\ pairings[p].rootConfirmed => pairings'[p].rootConfirmed
    /\ pairings[p].claimedBy # Nobody => pairings'[p].claimedBy = pairings[p].claimedBy

CredentialGrows(c) ==
  credentials[c] # None =>
    /\ credentials'[c] # None /\ credentials'[c].device = credentials[c].device
    /\ credentials[c].quarantined => credentials'[c].quarantined

RequestGrows(q) ==
  requests[q] # None =>
    /\ requests'[q] # None
    /\ requests[q].projection # "pending" => requests'[q].projection # "pending"

Grows ==
  /\ \A p \in Pairings : PairingGrows(p) /\ typed[p] \subseteq typed'[p]
  /\ \A d \in Devices : devices[d] # None => devices'[d] # None
  /\ \A c \in Credentials : CredentialGrows(c)
  /\ \A q \in Requests : RequestGrows(q)

------------------------------------------------------------------------------
(***************************************************************************)
(* Types.                                                                  *)
(***************************************************************************)

\* A handler in flight carries what its route needs.
LEMMA CallTyped ==
  ASSUME TypeOK, NEW h \in Calls, call[h] # None
  PROVE  /\ call[h] \in CallRecords /\ call[h].account \in Accounts
         /\ call[h].route = "confirm" => call[h].pairing \in Pairings
         /\ call[h].route = "revocations" => call[h].credential \in Credentials
         /\ call[h].route = "decisions" => call[h].request \in Requests
PROOF
  BY DEF TypeOK, CallRecords

\* A pairing record is replaced by one that keeps what must be kept.
LEMMA PairingReplaced ==
  ASSUME TypeOK, NEW p \in Pairings, NEW record \in PairingRecords,
         pairings' = [pairings EXCEPT ![p] = record],
         pairings[p] # None =>
           /\ record.device = pairings[p].device
           /\ pairings[p].rootConfirmed => record.rootConfirmed
           /\ pairings[p].claimedBy # Nobody => record.claimedBy = pairings[p].claimedBy
  PROVE  /\ pairings' \in [Pairings -> PairingRecords \cup {None}]
         /\ pairings'[p] = record /\ \A q \in Pairings \ {p} : pairings'[q] = pairings[q]
         /\ \A q \in Pairings : PairingGrows(q)
PROOF
  <1>1. /\ pairings' \in [Pairings -> PairingRecords \cup {None}]
        /\ pairings'[p] = record /\ \A q \in Pairings \ {p} : pairings'[q] = pairings[q]
    BY DEF TypeOK
  <1>2. record # None
    BY RuntimeAssumption
  <1> QED
    BY <1>1, <1>2 DEF PairingGrows

\* What one field of a pairing record becomes.
LEMMA PairingField ==
  ASSUME NEW record \in PairingRecords
  PROVE  /\ [record EXCEPT !.expired = TRUE] \in PairingRecords
         /\ [record EXCEPT !.consumed = TRUE] \in PairingRecords
         /\ [record EXCEPT !.rootConfirmed = TRUE] \in PairingRecords
         /\ [record EXCEPT !.webConfirmed = TRUE] \in PairingRecords
         /\ \A a \in Accounts : [record EXCEPT !.claimedBy = a] \in PairingRecords
PROOF
  BY DEF PairingRecords

\* The record behind a pairing id.
LEMMA PairingTyped ==
  ASSUME TypeOK, NEW p \in Pairings, pairings[p] # None
  PROVE  pairings[p] \in PairingRecords
PROOF
  BY DEF TypeOK

\* A device is what it was, or it was just activated for the claimer of a pairing
\* that both sides have confirmed.
ActivatedBy(p, d) ==
  /\ pairings'[p] # None /\ pairings'[p].device = d
  /\ pairings'[p].rootConfirmed /\ pairings'[p].webConfirmed
  /\ pairings'[p].claimedBy \in Accounts
  /\ devices'[d] = [tenant |-> TenantOf[pairings'[p].claimedBy],
                    enrollmentState |-> "active"]

\* The record of an activated device is well formed.
LEMMA ActiveRecord ==
  ASSUME NEW a \in Accounts
  PROVE  [tenant |-> TenantOf[a], enrollmentState |-> "active"] \in DeviceRecords
PROOF
  BY DEF DeviceRecords, Tenants

\* tryActivate behind a confirmation.
LEMMA ActivationShape ==
  ASSUME TypeOK, NEW p \in Pairings, pairings[p] # None, NEW record \in PairingRecords,
         record.device = pairings[p].device, record.claimedBy = pairings[p].claimedBy,
         pairings[p].rootConfirmed => record.rootConfirmed,
         ConfirmedAndActivated(p, record)
  PROVE  /\ pairings' \in [Pairings -> PairingRecords \cup {None}]
         /\ devices' \in [Devices -> DeviceRecords \cup {None}]
         /\ \A q \in Pairings : PairingGrows(q)
         /\ \A q \in Pairings \ {p} : pairings'[q] = pairings[q]
         /\ pairings'[p].claimedBy = record.claimedBy
         /\ \A d \in Devices : devices'[d] = devices[d] \/ ActivatedBy(p, d)
PROOF
  <1>1. CASE Complete(record)
    <2> DEFINE used == [record EXCEPT !.consumed = TRUE]
               d == record.device
               active == [tenant |-> TenantOf[record.claimedBy], enrollmentState |-> "active"]
    <2>1. pairings' = [pairings EXCEPT ![p] = used] /\ devices' = [devices EXCEPT ![d] = active]
      BY <1>1 DEF ConfirmedAndActivated
    <2>2. /\ record.claimedBy \in Accounts /\ d \in Devices
          /\ record.rootConfirmed /\ record.webConfirmed
      BY <1>1 DEF Complete, PairingRecords
    <2>3. /\ used \in PairingRecords /\ used.device = d /\ used.claimedBy = record.claimedBy
          /\ used.rootConfirmed = record.rootConfirmed
          /\ used.webConfirmed = record.webConfirmed
      BY DEF PairingRecords
    <2>4. active \in DeviceRecords
      BY <2>2, ActiveRecord
    <2> HIDE DEF used, active
    <2>5. /\ pairings' \in [Pairings -> PairingRecords \cup {None}] /\ pairings'[p] = used
          /\ \A q \in Pairings \ {p} : pairings'[q] = pairings[q]
          /\ \A q \in Pairings : PairingGrows(q)
      BY <2>1, <2>3, PairingReplaced
    <2>6. /\ devices' \in [Devices -> DeviceRecords \cup {None}] /\ devices'[d] = active
          /\ \A e \in Devices \ {d} : devices'[e] = devices[e]
      BY <2>1, <2>2, <2>4 DEF TypeOK
    <2>7. used # None
      BY <2>3, RuntimeAssumption
    <2>8. ActivatedBy(p, d)
      BY <2>2, <2>3, <2>5, <2>6, <2>7 DEF ActivatedBy, active
    <2> QED
      BY <2>3, <2>5, <2>6, <2>8
  <1>2. CASE ~Complete(record)
    <2>1. pairings' = [pairings EXCEPT ![p] = record] /\ devices' = devices
      BY <1>2 DEF ConfirmedAndActivated
    <2> QED
      BY <2>1, PairingReplaced DEF TypeOK
  <1> QED
    BY <1>1, <1>2

\* What a step may do to the pairing p, whoever takes it.
PairingWrite(p) ==
  /\ pairings' \in [Pairings -> PairingRecords \cup {None}]
  /\ devices' \in [Devices -> DeviceRecords \cup {None}]
  /\ \A q \in Pairings : PairingGrows(q)
  /\ \A q \in Pairings \ {p} : pairings'[q] = pairings[q]
  /\ \A d \in Devices : devices'[d] = devices[d] \/ ActivatedBy(p, d)

\* An expired or rejected pairing is consumed.
LEMMA ConsumeShape ==
  ASSUME TypeOK, NEW p \in Pairings, pairings[p] # None,
         \/ pairings' = [pairings EXCEPT ![p].consumed = TRUE]
         \/ pairings' = [pairings EXCEPT ![p].expired = TRUE],
         UNCHANGED devices
  PROVE  /\ PairingWrite(p) /\ pairings'[p].claimedBy = pairings[p].claimedBy
         /\ pairings'[p].webConfirmed = pairings[p].webConfirmed
PROOF
  <1>1. pairings[p] \in PairingRecords
    BY PairingTyped
  <1>2. PICK record \in PairingRecords :
          /\ pairings' = [pairings EXCEPT ![p] = record]
          /\ record.device = pairings[p].device /\ record.claimedBy = pairings[p].claimedBy
          /\ record.rootConfirmed = pairings[p].rootConfirmed
          /\ record.webConfirmed = pairings[p].webConfirmed
    <2>1. CASE pairings' = [pairings EXCEPT ![p].consumed = TRUE]
      <3>1. [pairings[p] EXCEPT !.consumed = TRUE] \in PairingRecords
        BY <1>1, PairingField
      <3> QED
        BY <1>1, <2>1, <3>1 DEF PairingRecords
    <2>2. CASE pairings' = [pairings EXCEPT ![p].expired = TRUE]
      <3>1. [pairings[p] EXCEPT !.expired = TRUE] \in PairingRecords
        BY <1>1, PairingField
      <3> QED
        BY <1>1, <2>2, <3>1 DEF PairingRecords
    <2> QED
      BY <2>1, <2>2
  <1> QED
    BY <1>2, PairingReplaced DEF PairingWrite, TypeOK

\* confirmPairingFromBroker.
LEMMA RootConfirmShape ==
  ASSUME TypeOK, NEW p \in Pairings, NEW matches \in BOOLEAN,
         confirmPairingFromBroker(p, matches)
  PROVE  /\ PairingWrite(p) /\ pairings'[p].claimedBy = pairings[p].claimedBy
         /\ pairings'[p].webConfirmed = pairings[p].webConfirmed
PROOF
  <1>0. pairings[p] # None /\ pairings[p] \in PairingRecords
    BY PairingTyped DEF confirmPairingFromBroker, livePairing
  <1>1. CASE matches
    <2> DEFINE record == [pairings[p] EXCEPT !.rootConfirmed = TRUE]
    <2>1. ConfirmedAndActivated(p, record)
      BY <1>1 DEF confirmPairingFromBroker
    <2>2. /\ record \in PairingRecords /\ record.device = pairings[p].device
          /\ record.claimedBy = pairings[p].claimedBy /\ record.rootConfirmed
          /\ record.webConfirmed = pairings[p].webConfirmed
      BY <1>0 DEF PairingRecords
    <2> HIDE DEF record
    <2>3. pairings'[p].webConfirmed = record.webConfirmed
      BY <1>0, <2>1, <2>2 DEF ConfirmedAndActivated, TypeOK, PairingRecords
    <2> QED
      BY <1>0, <2>1, <2>2, <2>3, ActivationShape DEF PairingWrite
  <1>2. CASE ~matches
    BY <1>0, <1>2, ConsumeShape DEF confirmPairingFromBroker, Consumed
  <1> QED
    BY <1>1, <1>2

\* The second half of the confirm route.
LEMMA WebConfirmShape ==
  ASSUME TypeInv, NEW h \in Calls, NEW right \in BOOLEAN, EndConfirm(h, right)
  PROVE  LET p == call[h].pairing IN
         /\ p \in Pairings /\ PairingWrite(p)
         /\ pairings[p] # None /\ pairings[p].claimedBy = call[h].account
         /\ call[h].account \in Accounts
         /\ pairings'[p].claimedBy = pairings[p].claimedBy
         /\ \/ typed' = [typed EXCEPT ![p] = @ \cup {call[h].account}]
            \/ typed' = typed /\ pairings'[p].webConfirmed = pairings[p].webConfirmed
PROOF
  <1> DEFINE p == call[h].pairing
  <1>0. TypeOK /\ call[h] # None /\ call[h].route = "confirm"
    BY DEF TypeInv, EndConfirm, Awaits
  <1>1. /\ p \in Pairings /\ call[h].account \in Accounts
        /\ pairings[p] # None /\ pairings[p].claimedBy = call[h].account
    BY <1>0, CallTyped DEF TypeInv, CallRefers
  <1>2. pairings[p] \in PairingRecords
    BY <1>0, <1>1, PairingTyped
  <1>3. CASE right
    <2> DEFINE record == [pairings[p] EXCEPT !.webConfirmed = TRUE]
    <2>1. /\ ConfirmedAndActivated(p, record)
          /\ typed' = [typed EXCEPT ![p] = @ \cup {call[h].account}]
      BY <1>3 DEF EndConfirm
    <2>2. /\ record \in PairingRecords /\ record.device = pairings[p].device
          /\ record.claimedBy = pairings[p].claimedBy
          /\ record.rootConfirmed = pairings[p].rootConfirmed
      BY <1>2 DEF PairingRecords
    <2> HIDE DEF record
    <2> QED
      BY <1>0, <1>1, <2>1, <2>2, ActivationShape DEF PairingWrite
  <1>4. CASE ~right
    BY <1>0, <1>1, <1>4, ConsumeShape DEF EndConfirm, Consumed
  <1> QED
    BY <1>3, <1>4

\* preparePairing and claim.
LEMMA ClaimShape ==
  ASSUME TypeOK, NEW p \in Pairings,
         \/ \E d \in Devices : preparePairing(p, d)
         \/ \E a \in Accounts : claim(a, p)
  PROVE  /\ PairingWrite(p)
         /\ pairings'[p].webConfirmed =>
              /\ pairings[p] # None /\ pairings[p].webConfirmed
              /\ pairings[p].claimedBy # Nobody =>
                   pairings'[p].claimedBy = pairings[p].claimedBy
PROOF
  <1>1. ASSUME NEW d \in Devices, preparePairing(p, d)
        PROVE  PairingWrite(p) /\ ~pairings'[p].webConfirmed
    <2> DEFINE record == [device |-> d, claimedBy |-> Nobody, rootConfirmed |-> FALSE,
                          webConfirmed |-> FALSE, consumed |-> FALSE, expired |-> FALSE]
    <2>1. pairings[p] = None /\ pairings' = [pairings EXCEPT ![p] = record] /\ devices' = devices
      BY <1>1 DEF preparePairing
    <2>2. record \in PairingRecords /\ ~record.webConfirmed
      BY DEF PairingRecords
    <2> HIDE DEF record
    <2> QED
      BY <2>1, <2>2, PairingReplaced DEF PairingWrite, TypeOK
  <1>2. ASSUME NEW a \in Accounts, claim(a, p)
        PROVE  /\ PairingWrite(p) /\ pairings[p] # None
               /\ pairings'[p].webConfirmed = pairings[p].webConfirmed
               /\ pairings[p].claimedBy # Nobody =>
                    pairings'[p].claimedBy = pairings[p].claimedBy
    <2> DEFINE record == [pairings[p] EXCEPT !.claimedBy = a]
    <2>1. /\ pairings[p] # None /\ pairings[p].claimedBy \in {Nobody, a}
          /\ pairings' = [pairings EXCEPT ![p] = record] /\ devices' = devices
      BY <1>2 DEF claim, livePairing, ClaimableBy
    <2>2. pairings[p] \in PairingRecords
      BY <2>1, PairingTyped
    <2>3. /\ record \in PairingRecords /\ record.device = pairings[p].device
          /\ record.rootConfirmed = pairings[p].rootConfirmed
          /\ record.webConfirmed = pairings[p].webConfirmed /\ record.claimedBy = a
      BY <2>2 DEF PairingRecords
    <2> HIDE DEF record
    <2> QED
      BY <2>1, <2>3, PairingReplaced DEF PairingWrite, TypeOK
  <1> QED
    BY <1>1, <1>2

------------------------------------------------------------------------------
(***************************************************************************)
(* What a step does, by the part of the state it writes.                   *)
(***************************************************************************)

\* A pairing the browser confirmed has a claimer, who entered the code.
PairInv ==
  \A p \in Pairings :
    pairings[p] # None /\ pairings[p].webConfirmed => pairings[p].claimedBy \in typed[p]

\* A step of the pairing ceremony, with what it keeps of PairInv.
PairingStep(p) ==
  /\ PairingWrite(p)
  /\ typed' \in [Pairings -> SUBSET Accounts]
  /\ \A q \in Pairings : typed[q] \subseteq typed'[q]
  /\ pairings'[p].webConfirmed => pairings'[p].claimedBy \in typed'[p]
  /\ UNCHANGED <<credentials, requests, relayOutbox>>

\* A request expires, arrives or ends.
RequestStep(q) ==
  /\ requests' \in [Requests -> RequestRecords \cup {None}]
  /\ \A r \in Requests : RequestGrows(r)
  /\ UNCHANGED <<pairings, devices, credentials, relayOutbox, typed>>

\* The step writes nothing but sessions and calls.
QuietStep == UNCHANGED <<pairings, devices, credentials, requests, relayOutbox, typed>>

\* The steps of the pairing ceremony are PairingSteps.
LEMMA PairingSteps ==
  ASSUME TypeInv, PairInv, NEW p \in Pairings,
         \/ PairingExpires(p) \/ TouchExpiredPairing(p)
         \/ \E d \in Devices : preparePairing(p, d)
         \/ \E matches \in BOOLEAN : confirmPairingFromBroker(p, matches)
         \/ \E a \in Accounts : claim(a, p)
  PROVE  PairingStep(p)
PROOF
  <1>0. TypeOK /\ typed \in [Pairings -> SUBSET Accounts]
    BY DEF TypeInv, TypeOK
  <1>1. UNCHANGED <<credentials, requests, relayOutbox, typed>>
    BY DEF PairingExpires, TouchExpiredPairing, preparePairing, confirmPairingFromBroker, claim
  <1>2. CASE PairingExpires(p) \/ TouchExpiredPairing(p)
    <2>1. /\ pairings[p] # None /\ PairingWrite(p)
          /\ pairings'[p].claimedBy = pairings[p].claimedBy
          /\ pairings'[p].webConfirmed = pairings[p].webConfirmed
      BY <1>0, <1>2, ConsumeShape DEF PairingExpires, TouchExpiredPairing
    <2> QED
      BY <1>0, <1>1, <2>1 DEF PairingStep, PairInv
  <1>3. ASSUME NEW matches \in BOOLEAN, confirmPairingFromBroker(p, matches)
        PROVE  PairingStep(p)
    <2>1. /\ PairingWrite(p) /\ pairings'[p].claimedBy = pairings[p].claimedBy
          /\ pairings'[p].webConfirmed = pairings[p].webConfirmed
      BY <1>0, <1>3, RootConfirmShape
    <2>2. pairings[p] # None
      BY <1>3 DEF confirmPairingFromBroker, livePairing
    <2> QED
      BY <1>0, <1>1, <2>1, <2>2 DEF PairingStep, PairInv
  <1>4. CASE \/ \E d \in Devices : preparePairing(p, d)
             \/ \E a \in Accounts : claim(a, p)
    <2>1. /\ PairingWrite(p)
          /\ pairings'[p].webConfirmed =>
               /\ pairings[p] # None /\ pairings[p].webConfirmed
               /\ pairings[p].claimedBy # Nobody =>
                    pairings'[p].claimedBy = pairings[p].claimedBy
      BY <1>0, <1>4, ClaimShape
    <2> QED
      BY <1>0, <1>1, <2>1, RuntimeAssumption DEF PairingStep, PairInv
  <1> QED
    BY <1>2, <1>3, <1>4

\* So is the second half of the confirm route: the claimer it checked before the
\* body arrived is the one the pairing still has.
LEMMA WebConfirmStep ==
  ASSUME TypeInv, PairInv, NEW h \in Calls, NEW right \in BOOLEAN, EndConfirm(h, right)
  PROVE  \E p \in Pairings : PairingStep(p)
PROOF
  <1> DEFINE p == call[h].pairing
  <1>1. /\ p \in Pairings /\ PairingWrite(p)
        /\ pairings[p] # None /\ pairings[p].claimedBy = call[h].account
        /\ call[h].account \in Accounts
        /\ pairings'[p].claimedBy = pairings[p].claimedBy
        /\ \/ typed' = [typed EXCEPT ![p] = @ \cup {call[h].account}]
           \/ typed' = typed /\ pairings'[p].webConfirmed = pairings[p].webConfirmed
    BY WebConfirmShape
  <1>2. UNCHANGED <<credentials, requests, relayOutbox>>
    BY DEF EndConfirm
  <1>3. typed \in [Pairings -> SUBSET Accounts]
    BY DEF TypeInv, TypeOK
  <1> HIDE DEF p
  <1>4. PairingStep(p)
    BY <1>1, <1>2, <1>3 DEF PairingStep, PairInv
  <1> QED
    BY <1>1, <1>4

\* Requests keep their type, and a decided one is never pending again.
LEMMA RequestSteps ==
  ASSUME TypeOK, NEW q \in Requests,
         \/ RequestExpires(q)
         \/ \E t \in Tenants, d \in Devices : ingestVerifiedRequest(q, t, d)
         \/ \E s \in {"succeeded", "failed", "denied"} : ingestVerifiedBrokerReceipt(q, s)
  PROVE  RequestStep(q)
PROOF
  <1>0. requests \in [Requests -> RequestRecords \cup {None}] /\ None \notin RequestRecords
    BY RuntimeAssumption DEF TypeOK
  <1>1. UNCHANGED <<pairings, devices, credentials, relayOutbox, typed>>
    BY DEF RequestExpires, ingestVerifiedRequest, ingestVerifiedBrokerReceipt
  <1>2. PICK record \in RequestRecords :
          /\ requests' = [requests EXCEPT ![q] = record]
          /\ requests[q] # None /\ requests[q].projection # "pending"
               => record.projection # "pending"
    <2>1. CASE RequestExpires(q)
      <3>1. requests[q] \in RequestRecords
        BY <1>0, <2>1 DEF RequestExpires
      <3>2. /\ [requests[q] EXCEPT !.expired = TRUE] \in RequestRecords
            /\ [requests[q] EXCEPT !.expired = TRUE].projection = requests[q].projection
        BY <3>1 DEF RequestRecords
      <3> QED
        BY <2>1, <3>2 DEF RequestExpires
    <2>2. ASSUME NEW t \in Tenants, NEW d \in Devices, ingestVerifiedRequest(q, t, d)
          PROVE  \E record \in RequestRecords :
                   requests' = [requests EXCEPT ![q] = record] /\ requests[q] = None
      <3>1. [tenant |-> t, device |-> d, expired |-> FALSE, projection |-> "pending"]
              \in RequestRecords
        BY DEF RequestRecords
      <3> QED
        BY <2>2, <3>1 DEF ingestVerifiedRequest
    <2>3. ASSUME NEW s \in {"succeeded", "failed", "denied"}, ingestVerifiedBrokerReceipt(q, s)
          PROVE  \E record \in RequestRecords :
                   /\ requests' = [requests EXCEPT ![q] = record]
                   /\ record.projection # "pending"
      <3>1. requests[q] \in RequestRecords
        BY <1>0, <2>3 DEF ingestVerifiedBrokerReceipt
      <3>2. projectionOf(s) \in {"denied", "terminal"}
        BY DEF projectionOf
      <3>3. /\ [requests[q] EXCEPT !.projection = projectionOf(s)] \in RequestRecords
            /\ [requests[q] EXCEPT !.projection = projectionOf(s)].projection # "pending"
        BY <3>1, <3>2 DEF RequestRecords
      <3> QED
        BY <2>3, <3>3 DEF ingestVerifiedBrokerReceipt
    <2> QED
      BY <2>1, <2>2, <2>3
  <1>3. requests' \in [Requests -> RequestRecords \cup {None}]
    BY <1>0, <1>2
  <1>4. ASSUME NEW r \in Requests
        PROVE  RequestGrows(r)
    BY <1>0, <1>2 DEF RequestGrows
  <1> QED
    BY <1>1, <1>3, <1>4 DEF RequestStep

\* The disjuncts of the next-state relation, by what they write.
LEMMA StepKinds ==
  ASSUME TypeInv, PairInv, [Next]_vars
  PROVE  \/ QuietStep
         \/ \E p \in Pairings : PairingStep(p)
         \/ \E q \in Requests : RequestStep(q)
         \/ \E c \in Credentials, t \in Tenants, d \in Devices : enrollCredential(c, t, d)
         \/ \E h \in Calls : EndRevocation(h)
         \/ \E h \in Calls, c \in Credentials, decision \in {"approve", "deny"} :
              EndDecision(h, c, decision)
PROOF
  <1>0. TypeOK
    BY DEF TypeInv
  <1>1. CASE \E a \in Accounts : SignIn(a) \/ SessionExpires(a)
    BY <1>1 DEF SignIn, SessionExpires, QuietStep
  <1>2. CASE \E q \in Requests : RequestExpires(q)
    BY <1>0, <1>2, RequestSteps
  <1>3. CASE \E p \in Pairings :
               \/ PairingExpires(p) \/ TouchExpiredPairing(p)
               \/ \E d \in Devices : preparePairing(p, d)
               \/ \E matches \in BOOLEAN : confirmPairingFromBroker(p, matches)
               \/ \E a \in Accounts : claim(a, p)
    BY <1>3, PairingSteps
  <1>4. CASE \E t \in Tenants, d \in Devices :
               \/ \E c \in Credentials : enrollCredential(c, t, d)
               \/ \E q \in Requests : ingestVerifiedRequest(q, t, d)
    BY <1>0, <1>4, RequestSteps
  <1>5. CASE \E q \in Requests, s \in {"succeeded", "failed", "denied"} :
               ingestVerifiedBrokerReceipt(q, s)
    BY <1>0, <1>5, RequestSteps
  <1>6. ASSUME NEW h \in Calls,
               \/ \E a \in Accounts :
                    \/ \E p \in Pairings : BeginConfirm(h, a, p)
                    \/ \E c \in Credentials : BeginRevocation(h, a, c)
                    \/ \E q \in Requests : BeginDecision(h, a, q)
               \/ GiveUp(h)
        PROVE  QuietStep
    BY <1>6 DEF BeginConfirm, BeginRevocation, BeginDecision, GiveUp, QuietStep
  <1>7. ASSUME NEW h \in Calls, \E right \in BOOLEAN : EndConfirm(h, right)
        PROVE  \E p \in Pairings : PairingStep(p)
    BY <1>7, WebConfirmStep
  <1>8. CASE UNCHANGED vars
    BY <1>8 DEF vars, QuietStep
  <1> QED
    BY <1>1, <1>2, <1>3, <1>4, <1>5, <1>6, <1>7, <1>8 DEF Next

\* enrollCredential adds a credential to an active device, and nothing else.
LEMMA EnrollShape ==
  ASSUME TypeInv, NEW c \in Credentials, NEW t \in Tenants, NEW d \in Devices,
         enrollCredential(c, t, d)
  PROVE  /\ credentials' \in [Credentials -> CredentialRecords \cup {None}]
         /\ credentials[c] = None /\ credentials'[c] # None
         /\ credentials'[c].device = d
         /\ devices[d] # None /\ devices[d].enrollmentState = "active"
         /\ \A e \in Credentials \ {c} : credentials'[e] = credentials[e]
         /\ UNCHANGED <<pairings, devices, requests, relayOutbox, typed>>
PROOF
  <1> DEFINE record == [tenant |-> t, device |-> d, quarantined |-> FALSE]
  <1>1. record \in CredentialRecords /\ record.device = d
    BY DEF CredentialRecords
  <1>2. /\ credentials' = [credentials EXCEPT ![c] = record] /\ credentials[c] = None
        /\ devices[d] # None /\ devices[d].enrollmentState = "active"
        /\ UNCHANGED <<pairings, devices, requests, relayOutbox, typed>>
    BY DEF enrollCredential, AcceptsCredentials
  <1>3. credentials \in [Credentials -> CredentialRecords \cup {None}]
    BY DEF TypeInv, TypeOK
  <1>4. record # None
    BY <1>1, RuntimeAssumption
  <1> HIDE DEF record
  <1> QED
    BY <1>1, <1>2, <1>3, <1>4

\* The second half of the revocation route: the credential is quarantined, its device
\* locked if it was the last one, the event queued.
LEMMA RevocationShape ==
  ASSUME TypeInv, NEW h \in Calls, EndRevocation(h)
  PROVE  LET c == call[h].credential
             d == credentials[c].device
         IN
         /\ c \in Credentials /\ credentials[c] \in CredentialRecords
         /\ credentials' \in [Credentials -> CredentialRecords \cup {None}]
         /\ credentials'[c] # None /\ credentials'[c].device = d /\ credentials'[c].quarantined
         /\ \A e \in Credentials \ {c} : credentials'[e] = credentials[e]
         /\ devices' \in [Devices -> DeviceRecords \cup {None}]
         /\ d \in Devices /\ devices[d] # None /\ devices'[d] # None
         /\ devices'[d].tenant = devices[d].tenant
         /\ Usable(d) \subseteq {c} => devices'[d].enrollmentState = "approval_locked"
         /\ ~(Usable(d) \subseteq {c}) => devices'[d] = devices[d]
         /\ \A e \in Devices \ {d} : devices'[e] = devices[e]
         /\ relayOutbox' = Append(relayOutbox, [kind |-> "revocation_event", credential |-> c])
         /\ UNCHANGED <<pairings, requests, typed>>
PROOF
  <1> DEFINE c == call[h].credential
             d == credentials[c].device
  <1>0. TypeOK /\ call[h] # None /\ call[h].route = "revocations"
    BY DEF TypeInv, EndRevocation, Awaits
  <1>1. c \in Credentials /\ credentials[c] # None
    BY <1>0, CallTyped DEF TypeInv, CallRefers
  <1>2. credentials[c] \in CredentialRecords /\ d \in Devices /\ devices[d] # None
    BY <1>0, <1>1 DEF TypeOK, TypeInv, CredentialRecords
  <1>3. devices[d] \in DeviceRecords
    BY <1>0, <1>2 DEF TypeOK
  <1>4. /\ credentials' = [credentials EXCEPT ![c].quarantined = TRUE]
        /\ devices' = IF Usable(d) \subseteq {c}
                        THEN [devices EXCEPT ![d].enrollmentState = "approval_locked"]
                        ELSE devices
        /\ relayOutbox' = Append(relayOutbox, [kind |-> "revocation_event", credential |-> c])
        /\ UNCHANGED <<pairings, requests, typed>>
    BY DEF EndRevocation, LockIfLast, queueOpaqueToBroker
  <1>5. PICK record \in CredentialRecords :
          /\ credentials' = [credentials EXCEPT ![c] = record]
          /\ record.device = d /\ record.quarantined
    <2>1. /\ [credentials[c] EXCEPT !.quarantined = TRUE] \in CredentialRecords
          /\ [credentials[c] EXCEPT !.quarantined = TRUE].device = d
          /\ [credentials[c] EXCEPT !.quarantined = TRUE].quarantined
      BY <1>2 DEF CredentialRecords
    <2> QED
      BY <1>4, <2>1
  <1>6. PICK locked \in DeviceRecords :
          /\ [devices EXCEPT ![d].enrollmentState = "approval_locked"]
               = [devices EXCEPT ![d] = locked]
          /\ locked.tenant = devices[d].tenant /\ locked.enrollmentState = "approval_locked"
    <2>1. /\ [devices[d] EXCEPT !.enrollmentState = "approval_locked"] \in DeviceRecords
          /\ [devices[d] EXCEPT !.enrollmentState = "approval_locked"].tenant = devices[d].tenant
          /\ [devices[d] EXCEPT !.enrollmentState = "approval_locked"].enrollmentState
               = "approval_locked"
      BY <1>3 DEF DeviceRecords
    <2> QED
      BY <2>1
  <1>7. record # None /\ locked # None
    BY <1>5, <1>6, RuntimeAssumption
  <1> HIDE DEF c, d
  <1>8. /\ credentials' \in [Credentials -> CredentialRecords \cup {None}]
        /\ credentials'[c] = record
        /\ \A e \in Credentials \ {c} : credentials'[e] = credentials[e]
    BY <1>0, <1>1, <1>5 DEF TypeOK
  <1>9. /\ devices' \in [Devices -> DeviceRecords \cup {None}]
        /\ Usable(d) \subseteq {c} => devices'[d] = locked
        /\ ~(Usable(d) \subseteq {c}) => devices'[d] = devices[d]
        /\ \A e \in Devices \ {d} : devices'[e] = devices[e]
    BY <1>0, <1>2, <1>4, <1>6 DEF TypeOK
  <1>10. /\ c \in Credentials /\ credentials[c] \in CredentialRecords
         /\ credentials' \in [Credentials -> CredentialRecords \cup {None}]
         /\ credentials'[c] # None /\ credentials'[c].device = d /\ credentials'[c].quarantined
         /\ \A e \in Credentials \ {c} : credentials'[e] = credentials[e]
    BY <1>1, <1>2, <1>5, <1>7, <1>8
  <1>11. /\ d \in Devices /\ devices[d] # None /\ devices'[d] # None
         /\ devices'[d].tenant = devices[d].tenant
         /\ Usable(d) \subseteq {c} => devices'[d].enrollmentState = "approval_locked"
    BY <1>2, <1>6, <1>7, <1>9
  <1> QED
    BY <1>4, <1>9, <1>10, <1>11 DEF c, d

\* The second half of the decision route: the request is decided by a credential that
\* is not quarantined, and the decision queued.
LEMMA DecisionShape ==
  ASSUME TypeInv, NEW h \in Calls, NEW c \in Credentials, NEW decision \in {"approve", "deny"},
         EndDecision(h, c, decision)
  PROVE  LET q == call[h].request IN
         /\ q \in Requests /\ requests[q] # None /\ requests[q].projection = "pending"
         /\ credentials[c] # None /\ ~credentials[c].quarantined
         /\ requests' \in [Requests -> RequestRecords \cup {None}]
         /\ requests'[q] # None /\ requests'[q].projection # "pending"
         /\ \A r \in Requests \ {q} : requests'[r] = requests[r]
         /\ relayOutbox' = Append(relayOutbox,
              [kind |-> "decision_submission", request |-> q,
               credential |-> c, decision |-> decision])
         /\ UNCHANGED <<pairings, devices, credentials, typed>>
PROOF
  <1> DEFINE q == call[h].request
             verdict == IF decision = "approve" THEN "approved" ELSE "denied"
  <1>0. TypeOK /\ call[h] # None /\ call[h].route = "decisions"
    BY DEF TypeInv, EndDecision, Awaits
  <1>1. q \in Requests /\ requests[q] # None
    BY <1>0, CallTyped DEF TypeInv, CallRefers
  <1>2. requests[q] \in RequestRecords
    BY <1>0, <1>1 DEF TypeOK
  <1>3. /\ requests[q].projection = "pending"
        /\ credentials[c] # None /\ ~credentials[c].quarantined
        /\ requests' = [requests EXCEPT ![q].projection = verdict]
        /\ relayOutbox' = Append(relayOutbox,
             [kind |-> "decision_submission", request |-> q,
              credential |-> c, decision |-> decision])
        /\ UNCHANGED <<pairings, devices, credentials, typed>>
    BY DEF EndDecision, StillUndecided, Undecided, MayDecide, queueOpaqueToBroker
  <1>4. PICK record \in RequestRecords :
          /\ requests' = [requests EXCEPT ![q] = record]
          /\ record.projection # "pending"
    <2>1. verdict \in {"approved", "denied"}
      OBVIOUS
    <2> HIDE DEF verdict
    <2>2. /\ [requests[q] EXCEPT !.projection = verdict] \in RequestRecords
          /\ [requests[q] EXCEPT !.projection = verdict].projection # "pending"
      BY <1>2, <2>1 DEF RequestRecords
    <2> QED
      BY <1>3, <2>2
  <1>5. record # None
    BY RuntimeAssumption
  <1>6. /\ requests' \in [Requests -> RequestRecords \cup {None}]
        /\ requests'[q] = record /\ \A r \in Requests \ {q} : requests'[r] = requests[r]
    BY <1>0, <1>1, <1>4 DEF TypeOK
  <1> HIDE DEF q
  <1> QED
    BY <1>1, <1>3, <1>4, <1>5, <1>6 DEF q

\* No step takes a record away, or takes back what was confirmed, claimed, quarantined
\* or decided.
LEMMA StepGrows ==
  ASSUME TypeInv, PairInv, [Next]_vars
  PROVE  Grows
PROOF
  <1>1. CASE QuietStep
    BY <1>1 DEF QuietStep, Grows, PairingGrows, CredentialGrows, RequestGrows
  <1>2. ASSUME NEW p \in Pairings, PairingStep(p)
        PROVE  Grows
    <2>1. \A d \in Devices : devices[d] # None => devices'[d] # None
      <3>1. ASSUME NEW d \in Devices, ActivatedBy(p, d)
            PROVE  devices'[d] # None
        BY <3>1, ActiveRecord, RuntimeAssumption DEF ActivatedBy
      <3> QED
        BY <1>2, <3>1 DEF PairingStep, PairingWrite
    <2> QED
      BY <1>2, <2>1 DEF PairingStep, PairingWrite, Grows, CredentialGrows, RequestGrows
  <1>3. ASSUME NEW q \in Requests, RequestStep(q)
        PROVE  Grows
    BY <1>3 DEF RequestStep, Grows, PairingGrows, CredentialGrows
  <1>4. ASSUME NEW c \in Credentials, NEW t \in Tenants, NEW d \in Devices,
               enrollCredential(c, t, d)
        PROVE  Grows
    BY <1>4, EnrollShape DEF Grows, PairingGrows, CredentialGrows, RequestGrows
  <1>5. ASSUME NEW h \in Calls, EndRevocation(h)
        PROVE  Grows
    <2>1. PICK c \in Credentials, d \in Devices :
            /\ credentials'[c] # None /\ credentials'[c].device = credentials[c].device
            /\ credentials'[c].quarantined
            /\ \A e \in Credentials \ {c} : credentials'[e] = credentials[e]
            /\ devices'[d] # None /\ \A e \in Devices \ {d} : devices'[e] = devices[e]
            /\ UNCHANGED <<pairings, requests, typed>>
      BY <1>5, RevocationShape
    <2> QED
      BY <2>1 DEF Grows, PairingGrows, CredentialGrows, RequestGrows
  <1>6. ASSUME NEW h \in Calls, NEW c \in Credentials, NEW decision \in {"approve", "deny"},
               EndDecision(h, c, decision)
        PROVE  Grows
    <2>1. PICK q \in Requests :
            /\ requests'[q] # None /\ requests'[q].projection # "pending"
            /\ \A r \in Requests \ {q} : requests'[r] = requests[r]
            /\ UNCHANGED <<pairings, devices, credentials, typed>>
      BY <1>6, DecisionShape
    <2> QED
      BY <2>1 DEF Grows, PairingGrows, CredentialGrows, RequestGrows
  <1> QED
    BY <1>1, <1>2, <1>3, <1>4, <1>5, <1>6, StepKinds

\* A call is what it was, has ended, or has begun with what it refers to in place.
BegunOrKept(h) ==
  \/ call'[h] = call[h]
  \/ call'[h] = None
  \/ /\ call'[h].route = "confirm" =>
          /\ pairings'[call'[h].pairing] # None
          /\ pairings'[call'[h].pairing].claimedBy = call'[h].account
     /\ call'[h].route = "revocations" => credentials'[call'[h].credential] # None
     /\ call'[h].route = "decisions" => requests'[call'[h].request] # None

\* The steps of the runtime that are not a handler's first half keep or end calls.
LEMMA CallsStep ==
  ASSUME TypeOK, [Next]_vars
  PROVE  /\ call' \in [Calls -> CallRecords \cup {None}]
         /\ \A h \in Calls : BegunOrKept(h)
PROOF
  <1>0. call \in [Calls -> CallRecords \cup {None}]
    BY DEF TypeOK
  <1>1. CASE UNCHANGED call
    BY <1>0, <1>1 DEF BegunOrKept
  <1>2. ASSUME NEW h \in Calls, End(h)
        PROVE  /\ call' \in [Calls -> CallRecords \cup {None}]
               /\ \A g \in Calls : BegunOrKept(g)
    BY <1>0, <1>2 DEF End, BegunOrKept
  <1>3. ASSUME NEW h \in Calls, NEW a \in Accounts, NEW p \in Pairings, BeginConfirm(h, a, p)
        PROVE  /\ call' \in [Calls -> CallRecords \cup {None}]
               /\ \A g \in Calls : BegunOrKept(g)
    <2> DEFINE record == [route |-> "confirm", account |-> a, pairing |-> p]
    <2>1. /\ call' = [call EXCEPT ![h] = record] /\ UNCHANGED pairings
          /\ pairings[p] # None /\ pairings[p].claimedBy = a
      BY <1>3 DEF BeginConfirm, Begin, livePairing
    <2>2. record \in CallRecords
      BY DEF CallRecords
    <2>3. record.route = "confirm" /\ record.pairing = p /\ record.account = a
      OBVIOUS
    <2> HIDE DEF record
    <2> QED
      BY <1>0, <2>1, <2>2, <2>3 DEF BegunOrKept
  <1>4. ASSUME NEW h \in Calls, NEW a \in Accounts, NEW c \in Credentials,
               BeginRevocation(h, a, c)
        PROVE  /\ call' \in [Calls -> CallRecords \cup {None}]
               /\ \A g \in Calls : BegunOrKept(g)
    <2> DEFINE record == [route |-> "revocations", account |-> a, credential |-> c]
    <2>1. call' = [call EXCEPT ![h] = record] /\ UNCHANGED credentials /\ credentials[c] # None
      BY <1>4 DEF BeginRevocation, Begin
    <2>2. record \in CallRecords
      BY DEF CallRecords
    <2>3. record.route = "revocations" /\ record.credential = c
      OBVIOUS
    <2> HIDE DEF record
    <2> QED
      BY <1>0, <2>1, <2>2, <2>3 DEF BegunOrKept
  <1>5. ASSUME NEW h \in Calls, NEW a \in Accounts, NEW q \in Requests, BeginDecision(h, a, q)
        PROVE  /\ call' \in [Calls -> CallRecords \cup {None}]
               /\ \A g \in Calls : BegunOrKept(g)
    <2> DEFINE record == [route |-> "decisions", account |-> a, request |-> q]
    <2>1. call' = [call EXCEPT ![h] = record] /\ UNCHANGED requests /\ requests[q] # None
      BY <1>5 DEF BeginDecision, Begin
    <2>2. record \in CallRecords
      BY DEF CallRecords
    <2>3. record.route = "decisions" /\ record.request = q
      OBVIOUS
    <2> HIDE DEF record
    <2> QED
      BY <1>0, <2>1, <2>2, <2>3 DEF BegunOrKept
  <1>6. CASE \E h \in Calls :
               \/ \E right \in BOOLEAN : EndConfirm(h, right)
               \/ EndRevocation(h)
               \/ \E c \in Credentials, decision \in {"approve", "deny"} :
                    EndDecision(h, c, decision)
               \/ GiveUp(h)
    BY <1>2, <1>6 DEF EndConfirm, EndRevocation, EndDecision, GiveUp
  <1>7. CASE \E h \in Calls, a \in Accounts :
               \/ \E p \in Pairings : BeginConfirm(h, a, p)
               \/ \E c \in Credentials : BeginRevocation(h, a, c)
               \/ \E q \in Requests : BeginDecision(h, a, q)
    BY <1>3, <1>4, <1>5, <1>7
  <1>8. CASE \/ \E a \in Accounts : SignIn(a) \/ SessionExpires(a)
             \/ \E q \in Requests : RequestExpires(q)
             \/ \E p \in Pairings :
                  \/ PairingExpires(p) \/ TouchExpiredPairing(p)
                  \/ \E d \in Devices : preparePairing(p, d)
                  \/ \E matches \in BOOLEAN : confirmPairingFromBroker(p, matches)
                  \/ \E a \in Accounts : claim(a, p)
             \/ \E t \in Tenants, d \in Devices :
                  \/ \E c \in Credentials : enrollCredential(c, t, d)
                  \/ \E q \in Requests : ingestVerifiedRequest(q, t, d)
             \/ \E q \in Requests, s \in {"succeeded", "failed", "denied"} :
                  ingestVerifiedBrokerReceipt(q, s)
             \/ UNCHANGED vars
    <2>1. UNCHANGED call
      BY <1>8 DEF SignIn, SessionExpires, RequestExpires, PairingExpires, TouchExpiredPairing,
                  preparePairing, confirmPairingFromBroker, claim, enrollCredential,
                  ingestVerifiedRequest, ingestVerifiedBrokerReceipt, vars
    <2> QED
      BY <1>1, <2>1
  <1> QED
    BY <1>6, <1>7, <1>8 DEF Next

\* The maps and the queue are typed, and a credential's device exists.
MapsTyped ==
  /\ pairings \in [Pairings -> PairingRecords \cup {None}]
  /\ devices \in [Devices -> DeviceRecords \cup {None}]
  /\ credentials \in [Credentials -> CredentialRecords \cup {None}]
  /\ requests \in [Requests -> RequestRecords \cup {None}]
  /\ relayOutbox \in Seq(Messages)
  /\ typed \in [Pairings -> SUBSET Accounts]
  /\ \A c \in Credentials : credentials[c] # None => devices[credentials[c].device] # None

\* Typing and references survive every step: what a handler looked up before it
\* awaited is still there when it goes on.
LEMMA StepTyped ==
  ASSUME TypeInv, PairInv, [Next]_vars
  PROVE  TypeInv'
PROOF
  <1>0. TypeOK /\ Grows
    BY StepGrows DEF TypeInv
  <1>1. sessions' \subseteq Accounts
    BY <1>0 DEF TypeOK, Next, vars, SignIn, SessionExpires, RequestExpires, PairingExpires,
                TouchExpiredPairing, preparePairing, confirmPairingFromBroker, claim,
                enrollCredential, ingestVerifiedRequest, ingestVerifiedBrokerReceipt,
                BeginConfirm, BeginRevocation, BeginDecision, EndConfirm, EndRevocation,
                EndDecision, GiveUp
  <1>2. MapsTyped'
    <2>0. \A c \in Credentials : credentials[c] # None =>
            credentials[c].device \in Devices /\ devices[credentials[c].device] # None
      BY <1>0 DEF TypeInv, TypeOK, CredentialRecords
    <2>1. CASE QuietStep
      BY <1>0, <2>0, <2>1 DEF QuietStep, TypeOK, MapsTyped
    <2>2. CASE \E p \in Pairings : PairingStep(p)
      BY <1>0, <2>0, <2>2 DEF PairingStep, PairingWrite, TypeOK, Grows, MapsTyped
    <2>3. CASE \E q \in Requests : RequestStep(q)
      BY <1>0, <2>0, <2>3 DEF RequestStep, TypeOK, MapsTyped
    <2>4. ASSUME NEW c \in Credentials, NEW t \in Tenants, NEW d \in Devices,
                 enrollCredential(c, t, d)
          PROVE  MapsTyped'
      BY <1>0, <2>0, <2>4, EnrollShape DEF TypeOK, MapsTyped
    <2>5. ASSUME NEW h \in Calls, EndRevocation(h)
          PROVE  MapsTyped'
      <3>1. PICK c \in Credentials :
              /\ credentials[c] \in CredentialRecords
              /\ credentials' \in [Credentials -> CredentialRecords \cup {None}]
              /\ credentials'[c].device = credentials[c].device
              /\ \A e \in Credentials \ {c} : credentials'[e] = credentials[e]
              /\ devices' \in [Devices -> DeviceRecords \cup {None}]
              /\ relayOutbox' = Append(relayOutbox,
                                       [kind |-> "revocation_event", credential |-> c])
              /\ UNCHANGED <<pairings, requests, typed>>
        BY <2>5, RevocationShape
      <3>2. [kind |-> "revocation_event", credential |-> c] \in Messages
        BY DEF Messages
      <3>3. relayOutbox' \in Seq(Messages)
        BY <1>0, <3>1, <3>2 DEF TypeOK
      <3>4. credentials[c] # None
        BY <3>1, RuntimeAssumption
      <3>5. \A e \in Credentials :
              credentials'[e] # None => devices'[credentials'[e].device] # None
        BY <1>0, <2>0, <3>1, <3>4 DEF Grows
      <3> QED
        BY <1>0, <3>1, <3>3, <3>5 DEF TypeOK, MapsTyped
    <2>6. ASSUME NEW h \in Calls, NEW c \in Credentials, NEW decision \in {"approve", "deny"},
                 EndDecision(h, c, decision)
          PROVE  MapsTyped'
      <3>1. PICK q \in Requests :
              /\ requests' \in [Requests -> RequestRecords \cup {None}]
              /\ relayOutbox' = Append(relayOutbox,
                   [kind |-> "decision_submission", request |-> q,
                    credential |-> c, decision |-> decision])
              /\ UNCHANGED <<pairings, devices, credentials, typed>>
        BY <2>6, DecisionShape
      <3>2. [kind |-> "decision_submission", request |-> q, credential |-> c,
             decision |-> decision] \in Messages
        BY DEF Messages
      <3>3. relayOutbox' \in Seq(Messages)
        BY <1>0, <3>1, <3>2 DEF TypeOK
      <3> QED
        BY <1>0, <2>0, <3>1, <3>3 DEF TypeOK, MapsTyped
    <2> QED
      BY <2>1, <2>2, <2>3, <2>4, <2>5, <2>6, StepKinds
  <1>3. call' \in [Calls -> CallRecords \cup {None}] /\ \A h \in Calls : BegunOrKept(h)
    BY <1>0, CallsStep
  <1>4. TypeOK'
    BY <1>1, <1>2, <1>3 DEF TypeOK, MapsTyped
  <1>5. ASSUME NEW h \in Calls, call'[h] # None, call'[h] = call[h]
        PROVE  CallRefers(h)'
    <2>1. CallRefers(h) /\ call[h].account \in Accounts
      BY <1>0, <1>5, CallTyped DEF TypeInv
    <2>2. /\ call[h].route = "confirm" => PairingGrows(call[h].pairing)
          /\ call[h].route = "revocations" => CredentialGrows(call[h].credential)
          /\ call[h].route = "decisions" => RequestGrows(call[h].request)
      BY <1>0, <1>5, CallTyped DEF Grows
    <2>3. call[h].account # Nobody
      BY <2>1, RuntimeAssumption
    <2> QED
      BY <1>5, <2>1, <2>2, <2>3 DEF CallRefers, PairingGrows, CredentialGrows, RequestGrows
  <1>6. \A h \in Calls : call'[h] # None => CallRefers(h)'
    BY <1>3, <1>5 DEF BegunOrKept, CallRefers
  <1> QED
    BY <1>2, <1>4, <1>6 DEF TypeInv, MapsTyped

\* PairInv is kept: only the confirm route sets webConfirmed, for its claimer.
LEMMA StepPairs ==
  ASSUME TypeInv, PairInv, [Next]_vars
  PROVE  PairInv'
PROOF
  <1>1. CASE UNCHANGED <<pairings, typed>>
    BY <1>1 DEF PairInv
  <1>2. CASE \E p \in Pairings : PairingStep(p)
    BY <1>2 DEF PairingStep, PairingWrite, PairInv
  <1>3. ASSUME NEW h \in Calls, EndRevocation(h)
        PROVE  UNCHANGED <<pairings, typed>>
    BY <1>3 DEF EndRevocation
  <1>4. ASSUME NEW h \in Calls, NEW c \in Credentials, NEW decision \in {"approve", "deny"},
               EndDecision(h, c, decision)
        PROVE  UNCHANGED <<pairings, typed>>
    BY <1>4 DEF EndDecision
  <1> QED
    BY <1>1, <1>2, <1>3, <1>4, StepKinds DEF QuietStep, RequestStep, enrollCredential

------------------------------------------------------------------------------
(***************************************************************************)
(* The invariant behind the theorems.                                      *)
(***************************************************************************)

\* What is queued was decided or quarantined, and stays so: it is why the check behind
\* an await suffices.
OutboxInv ==
  \A i \in 1 .. Len(relayOutbox) :
    /\ IsDecision(i) =>
         /\ relayOutbox[i].request \in Requests /\ requests[relayOutbox[i].request] # None
         /\ requests[relayOutbox[i].request].projection # "pending"
    /\ ~IsDecision(i) =>
         /\ relayOutbox[i].credential \in Credentials
         /\ credentials[relayOutbox[i].credential] # None
         /\ credentials[relayOutbox[i].credential].quarantined

RuntimeInv ==
  /\ TypeInv /\ PairInv /\ OutboxInv
  /\ ForwardedOnce /\ NoDecisionAfterRevocation
  /\ LockedHasNoCredential /\ ActivatedForItsClaimer

\* An unchanged queue keeps its three invariants when the maps only grow.
LEMMA QueueKept ==
  ASSUME OutboxInv, ForwardedOnce, NoDecisionAfterRevocation, Grows, UNCHANGED relayOutbox
  PROVE  OutboxInv' /\ ForwardedOnce' /\ NoDecisionAfterRevocation'
PROOF
  <1>1. OutboxInv'
    BY DEF OutboxInv, IsDecision, Grows, RequestGrows, CredentialGrows
  <1>2. ForwardedOnce' /\ NoDecisionAfterRevocation'
    BY DEF ForwardedOnce, NoDecisionAfterRevocation, IsDecision
  <1> QED
    BY <1>1, <1>2

\* A revocation event is queued behind what its credential decided.
LEMMA RevocationQueued ==
  ASSUME TypeOK, OutboxInv, ForwardedOnce, NoDecisionAfterRevocation, Grows,
         NEW c \in Credentials, credentials'[c] # None, credentials'[c].quarantined,
         relayOutbox' = Append(relayOutbox, [kind |-> "revocation_event", credential |-> c])
  PROVE  OutboxInv' /\ ForwardedOnce' /\ NoDecisionAfterRevocation'
PROOF
  <1> DEFINE n == Len(relayOutbox)
  <1>1. /\ n \in Nat /\ Len(relayOutbox') = n + 1
        /\ relayOutbox'[n + 1].kind = "revocation_event" /\ relayOutbox'[n + 1].credential = c
        /\ \A i \in 1 .. n : relayOutbox'[i] = relayOutbox[i]
    BY DEF TypeOK
  <1> HIDE DEF n
  <1>2. \A i \in 1 .. Len(relayOutbox') : i \in 1 .. n \/ i = n + 1
    BY <1>1
  <1>3. OutboxInv'
    BY <1>1, <1>2 DEF OutboxInv, IsDecision, Grows, RequestGrows, CredentialGrows, n
  <1>4. ForwardedOnce'
    BY <1>1, <1>2 DEF ForwardedOnce, IsDecision, n
  <1>5. NoDecisionAfterRevocation'
    BY <1>1, <1>2 DEF NoDecisionAfterRevocation, IsDecision, n
  <1> QED
    BY <1>3, <1>4, <1>5

\* A decision is queued for a request that had none, by a credential that no event
\* in the queue revokes.
LEMMA DecisionQueued ==
  ASSUME TypeOK, OutboxInv, ForwardedOnce, NoDecisionAfterRevocation, Grows,
         NEW q \in Requests, requests[q].projection = "pending",
         requests'[q] # None, requests'[q].projection # "pending",
         NEW c \in Credentials, ~credentials[c].quarantined, NEW decision,
         relayOutbox' = Append(relayOutbox,
           [kind |-> "decision_submission", request |-> q,
            credential |-> c, decision |-> decision])
  PROVE  OutboxInv' /\ ForwardedOnce' /\ NoDecisionAfterRevocation'
PROOF
  <1> DEFINE n == Len(relayOutbox)
  <1>1. /\ n \in Nat /\ Len(relayOutbox') = n + 1
        /\ relayOutbox'[n + 1].kind = "decision_submission"
        /\ relayOutbox'[n + 1].credential = c /\ relayOutbox'[n + 1].request = q
        /\ \A i \in 1 .. n : relayOutbox'[i] = relayOutbox[i]
    BY DEF TypeOK
  <1> HIDE DEF n
  <1>2. \A i \in 1 .. Len(relayOutbox') : i \in 1 .. n \/ i = n + 1
    BY <1>1
  <1>3. OutboxInv'
    BY <1>1, <1>2 DEF OutboxInv, IsDecision, Grows, RequestGrows, CredentialGrows, n
  <1>4. ForwardedOnce'
    <2>1. \A i \in 1 .. n : IsDecision(i) => relayOutbox[i].request # q
      BY DEF OutboxInv, n
    <2> QED
      BY <1>1, <1>2, <2>1 DEF ForwardedOnce, IsDecision, n
  <1>5. NoDecisionAfterRevocation'
    <2>1. \A i \in 1 .. n : ~IsDecision(i) => relayOutbox[i].credential # c
      BY DEF OutboxInv, n
    <2> QED
      BY <1>1, <1>2, <2>1 DEF NoDecisionAfterRevocation, IsDecision, n
  <1> QED
    BY <1>3, <1>4, <1>5

\* The queue's invariants survive every step.
LEMMA StepQueue ==
  ASSUME RuntimeInv, [Next]_vars
  PROVE  OutboxInv' /\ ForwardedOnce' /\ NoDecisionAfterRevocation'
PROOF
  <1>0. /\ TypeInv /\ TypeOK /\ PairInv /\ OutboxInv /\ ForwardedOnce
        /\ NoDecisionAfterRevocation /\ Grows
    BY StepGrows DEF RuntimeInv, TypeInv
  <1>1. CASE UNCHANGED relayOutbox
    BY <1>0, <1>1, QueueKept
  <1>2. ASSUME NEW h \in Calls, EndRevocation(h)
        PROVE  OutboxInv' /\ ForwardedOnce' /\ NoDecisionAfterRevocation'
    <2>1. PICK c \in Credentials :
            /\ credentials'[c] # None /\ credentials'[c].quarantined
            /\ relayOutbox' = Append(relayOutbox,
                                     [kind |-> "revocation_event", credential |-> c])
      BY <1>0, <1>2, RevocationShape
    <2> QED
      BY <1>0, <2>1, RevocationQueued
  <1>3. ASSUME NEW h \in Calls, NEW c \in Credentials, NEW decision \in {"approve", "deny"},
               EndDecision(h, c, decision)
        PROVE  OutboxInv' /\ ForwardedOnce' /\ NoDecisionAfterRevocation'
    <2>1. PICK q \in Requests :
            /\ requests[q].projection = "pending" /\ ~credentials[c].quarantined
            /\ requests'[q] # None /\ requests'[q].projection # "pending"
            /\ relayOutbox' = Append(relayOutbox,
                 [kind |-> "decision_submission", request |-> q,
                  credential |-> c, decision |-> decision])
      BY <1>0, <1>3, DecisionShape
    <2> QED
      BY <1>0, <2>1, DecisionQueued
  <1> QED
    BY <1>0, <1>1, <1>2, <1>3, StepKinds
       DEF QuietStep, PairingStep, RequestStep, enrollCredential

\* How the usable credentials of a device change: enrollment adds one to an active
\* device, a revocation takes one away, and nothing else touches them.
LEMMA RevocationUsable ==
  ASSUME TypeInv, NEW h \in Calls, EndRevocation(h), NEW d \in Devices
  PROVE  /\ call[h].credential \in Credentials
         /\ Usable(d)' = Usable(d) \ {call[h].credential}
         /\ call[h].credential \in Usable(d) => credentials[call[h].credential].device = d
PROOF
  <1>1. PICK c \in Credentials :
          /\ c = call[h].credential /\ credentials'[c] # None /\ credentials'[c].quarantined
          /\ \A e \in Credentials \ {c} : credentials'[e] = credentials[e]
    BY RevocationShape
  <1> QED
    BY <1>1 DEF Usable

\* A device that is locked stays without usable credentials until it is paired again.
LEMMA StepLocked ==
  ASSUME RuntimeInv, [Next]_vars
  PROVE  LockedHasNoCredential'
PROOF
  <1>0. TypeInv /\ PairInv /\ LockedHasNoCredential
    BY DEF RuntimeInv
  <1> SUFFICES ASSUME NEW d \in Devices, devices'[d] # None,
                      devices'[d].enrollmentState = "approval_locked"
               PROVE  Usable(d)' = {}
    BY DEF LockedHasNoCredential
  <1>1. CASE UNCHANGED <<devices, credentials>>
    <2>1. Usable(d)' = Usable(d)
      BY <1>1 DEF Usable
    <2> QED
      BY <1>0, <1>1, <2>1 DEF LockedHasNoCredential
  <1>2. ASSUME NEW p \in Pairings, PairingStep(p)
        PROVE  Usable(d)' = {}
    <2>1. devices'[d] = devices[d]
      BY <1>2 DEF PairingStep, PairingWrite, ActivatedBy
    <2>2. Usable(d)' = Usable(d)
      BY <1>2 DEF PairingStep, Usable
    <2> QED
      BY <1>0, <2>1, <2>2 DEF LockedHasNoCredential
  <1>3. ASSUME NEW c \in Credentials, NEW t \in Tenants, NEW e \in Devices,
               enrollCredential(c, t, e)
        PROVE  Usable(d)' = {}
    <2>1. /\ credentials'[c].device = e /\ devices[e].enrollmentState = "active"
          /\ \A b \in Credentials \ {c} : credentials'[b] = credentials[b]
          /\ UNCHANGED devices
      BY <1>0, <1>3, EnrollShape
    <2>2. d # e
      BY <2>1
    <2>3. Usable(d)' \subseteq Usable(d)
      BY <2>1, <2>2 DEF Usable
    <2> QED
      BY <1>0, <2>1, <2>3 DEF LockedHasNoCredential
  <1>4. ASSUME NEW h \in Calls, EndRevocation(h)
        PROVE  Usable(d)' = {}
    <2> DEFINE c == call[h].credential
               e == credentials[c].device
    <2>1. /\ c \in Credentials /\ e \in Devices
          /\ ~(Usable(e) \subseteq {c}) => devices'[e] = devices[e]
          /\ \A b \in Devices \ {e} : devices'[b] = devices[b]
      BY <1>0, <1>4, RevocationShape
    <2>2. Usable(d)' = Usable(d) \ {c}
      BY <1>0, <1>4, RevocationUsable
    <2> HIDE DEF c, e
    <2>3. CASE devices'[d] = devices[d]
      BY <1>0, <2>2, <2>3 DEF LockedHasNoCredential
    <2>4. CASE devices'[d] # devices[d]
      BY <2>1, <2>2, <2>4
    <2> QED
      BY <2>3, <2>4
  <1>5. ASSUME NEW h \in Calls, NEW c \in Credentials, NEW decision \in {"approve", "deny"},
               EndDecision(h, c, decision)
        PROVE  UNCHANGED <<devices, credentials>>
    BY <1>5 DEF EndDecision
  <1> QED
    BY <1>0, <1>1, <1>2, <1>3, <1>4, <1>5, StepKinds DEF QuietStep, RequestStep

\* A device that exists was activated for a claimer, and its tenant changes only with
\* another activation.
LEMMA StepActivated ==
  ASSUME RuntimeInv, [Next]_vars
  PROVE  ActivatedForItsClaimer'
PROOF
  <1>0. /\ TypeInv /\ PairInv /\ ActivatedForItsClaimer /\ Grows /\ PairInv'
        /\ typed \in [Pairings -> SUBSET Accounts]
    BY StepGrows, StepPairs DEF RuntimeInv, TypeInv, TypeOK
  <1> SUFFICES ASSUME NEW d \in Devices, devices'[d] # None
               PROVE  \E p \in Pairings :
                        /\ pairings'[p] # None /\ pairings'[p].device = d
                        /\ pairings'[p].rootConfirmed
                        /\ pairings'[p].claimedBy \in typed'[p]
                        /\ TenantOf[pairings'[p].claimedBy] = devices'[d].tenant
    BY DEF ActivatedForItsClaimer
  <1>1. CASE devices[d] # None /\ devices'[d].tenant = devices[d].tenant
    <2>1. PICK p \in Pairings :
            /\ pairings[p] # None /\ pairings[p].device = d /\ pairings[p].rootConfirmed
            /\ pairings[p].claimedBy \in typed[p]
            /\ TenantOf[pairings[p].claimedBy] = devices[d].tenant
      BY <1>0, <1>1 DEF ActivatedForItsClaimer
    <2>2. PairingGrows(p) /\ typed[p] \subseteq typed'[p]
      BY <1>0 DEF Grows
    <2>3. pairings[p].claimedBy # Nobody
      BY <1>0, <2>1, RuntimeAssumption
    <2> QED
      BY <1>1, <2>1, <2>2, <2>3 DEF PairingGrows
  <1>2. ASSUME NEW p \in Pairings, ActivatedBy(p, d)
        PROVE  \E q \in Pairings :
                 /\ pairings'[q] # None /\ pairings'[q].device = d
                 /\ pairings'[q].rootConfirmed
                 /\ pairings'[q].claimedBy \in typed'[q]
                 /\ TenantOf[pairings'[q].claimedBy] = devices'[d].tenant
    BY <1>0, <1>2 DEF ActivatedBy, PairInv
  <1>3. ASSUME NEW p \in Pairings, PairingStep(p)
        PROVE  \/ devices[d] # None /\ devices'[d].tenant = devices[d].tenant
               \/ \E q \in Pairings : ActivatedBy(q, d)
    BY <1>3 DEF PairingStep, PairingWrite
  <1>4. ASSUME NEW h \in Calls, EndRevocation(h)
        PROVE  devices[d] # None /\ devices'[d].tenant = devices[d].tenant
    <2>1. PICK e \in Devices :
            /\ devices[e] # None /\ devices'[e].tenant = devices[e].tenant
            /\ \A b \in Devices \ {e} : devices'[b] = devices[b]
      BY <1>0, <1>4, RevocationShape
    <2> QED
      BY <2>1
  <1>5. ASSUME NEW h \in Calls, NEW c \in Credentials, NEW decision \in {"approve", "deny"},
               EndDecision(h, c, decision)
        PROVE  UNCHANGED devices
    BY <1>5 DEF EndDecision
  <1> QED
    BY <1>0, <1>1, <1>2, <1>3, <1>4, <1>5, StepKinds
       DEF QuietStep, RequestStep, enrollCredential

------------------------------------------------------------------------------
(***************************************************************************)
(* Theorems.                                                               *)
(***************************************************************************)

\* RuntimeInv holds when the runtime starts with empty maps, and every route keeps it.
THEOREM RuntimeInvariant == Spec => []RuntimeInv
PROOF
  <1>1. Init => RuntimeInv
    <2> SUFFICES ASSUME Init
                 PROVE  RuntimeInv
      OBVIOUS
    <2>1. TypeInv
      BY DEF Init, TypeInv, TypeOK
    <2>2. PairInv /\ LockedHasNoCredential /\ ActivatedForItsClaimer
      BY DEF Init, PairInv, LockedHasNoCredential, ActivatedForItsClaimer
    <2>3. OutboxInv /\ ForwardedOnce /\ NoDecisionAfterRevocation
      BY DEF Init, OutboxInv, ForwardedOnce, NoDecisionAfterRevocation
    <2> QED
      BY <2>1, <2>2, <2>3 DEF RuntimeInv
  <1>2. RuntimeInv /\ [Next]_vars => RuntimeInv'
    <2> SUFFICES ASSUME RuntimeInv, [Next]_vars
                 PROVE  RuntimeInv'
      OBVIOUS
    <2>1. TypeInv' /\ PairInv'
      BY StepTyped, StepPairs DEF RuntimeInv
    <2> QED
      BY <2>1, StepQueue, StepLocked, StepActivated DEF RuntimeInv
  <1> QED
    BY <1>1, <1>2, PTL DEF Spec

\* At most one decision of a request is forwarded, however many ceremonies the
\* decisions route awaits at once.
THEOREM OneDecisionForwarded == Spec => []ForwardedOnce
PROOF
  BY RuntimeInvariant, PTL DEF RuntimeInv

\* No decision is queued behind the revocation of the credential that made it, even
\* when its ceremony began before (requestRoute looks the credential up again).
THEOREM RevocationIsFinal == Spec => []NoDecisionAfterRevocation
PROOF
  BY RuntimeInvariant, PTL DEF RuntimeInv

\* A locked device has no usable credential, whatever enrollments, revocations and
\* pairings overlap.
THEOREM LockIsComplete == Spec => []LockedHasNoCredential
PROOF
  BY RuntimeInvariant, PTL DEF RuntimeInv

\* A device belongs to the tenant of an account that claimed its pairing and entered
\* the right code, and only once the broker confirmed (tryActivate).
THEOREM ActivationIsClaimed == Spec => []ActivatedForItsClaimer
PROOF
  BY RuntimeInvariant, PTL DEF RuntimeInv

\* The step that takes the last usable credential of a device locks the device.
THEOREM LastOneLocks == Spec => LastRevocationLocks
PROOF
  <1>1. ASSUME RuntimeInv, [Next]_vars, NEW d \in Devices, Usable(d) # {}, Usable(d)' = {}
        PROVE  devices'[d].enrollmentState = "approval_locked"
    <2>0. TypeInv /\ PairInv
      BY <1>1 DEF RuntimeInv
    <2>1. CASE UNCHANGED credentials
      BY <1>1, <2>1 DEF Usable
    <2>2. ASSUME NEW c \in Credentials, NEW t \in Tenants, NEW e \in Devices,
                 enrollCredential(c, t, e)
          PROVE  FALSE
      <3>1. credentials[c] = None /\ \A b \in Credentials \ {c} : credentials'[b] = credentials[b]
        BY <2>0, <2>2, EnrollShape
      <3> QED
        BY <1>1, <3>1 DEF Usable
    <2>3. ASSUME NEW h \in Calls, EndRevocation(h)
          PROVE  devices'[d].enrollmentState = "approval_locked"
      <3> DEFINE c == call[h].credential
      <3>1. Usable(d)' = Usable(d) \ {c} /\ (c \in Usable(d) => credentials[c].device = d)
        BY <2>0, <2>3, RevocationUsable
      <3>2. /\ Usable(credentials[c].device) \subseteq {c} =>
                 devices'[credentials[c].device].enrollmentState = "approval_locked"
        BY <2>0, <2>3, RevocationShape
      <3>3. c \in Usable(d) /\ Usable(d) \subseteq {c}
        BY <1>1, <3>1
      <3> HIDE DEF c
      <3> QED
        BY <3>1, <3>2, <3>3
    <2>4. ASSUME NEW h \in Calls, NEW c \in Credentials, NEW decision \in {"approve", "deny"},
                 EndDecision(h, c, decision)
          PROVE  UNCHANGED credentials
      BY <2>4 DEF EndDecision
    <2> QED
      BY <1>1, <2>0, <2>1, <2>2, <2>3, <2>4, StepKinds DEF QuietStep, PairingStep, RequestStep
  <1>2. RuntimeInv /\ [Next]_vars =>
          [\A d \in Devices : Usable(d) # {} /\ Usable(d)' = {} =>
             devices'[d].enrollmentState = "approval_locked"]_vars
    BY <1>1
  <1> QED
    BY <1>2, RuntimeInvariant, PTL DEF Spec, LastRevocationLocks

------------------------------------------------------------------------------
(***************************************************************************)
(* Tenants.                                                                *)
(***************************************************************************)

\* A ceremony that is awaited belongs to the tenant of its request.
CeremoniesInTenant ==
  \A h \in Calls :
    call[h] # None /\ call[h].route = "decisions" =>
      /\ requests[call[h].request] # None
      /\ requests[call[h].request].tenant = TenantOf[call[h].account]

\* Two records of one owner.
SameOwner(old, new) == new # None /\ new.tenant = old.tenant /\ new.device = old.device

\* The records of credentials and requests never change hands: quarantine, expiry,
\* receipts and decisions leave tenant and device alone, and so does a second pairing
\* of the device.
OwnersKept ==
  /\ \A c \in Credentials : credentials[c] # None => SameOwner(credentials[c], credentials'[c])
  /\ \A q \in Requests : requests[q] # None => SameOwner(requests[q], requests'[q])

\* Replacing a record by one of the same owner, or writing a new one.
LEMMA OwnerWrite ==
  ASSUME NEW S, NEW R, None \notin R, NEW f \in [S -> R \cup {None}], NEW g, NEW x \in S,
         NEW record \in R, g = [f EXCEPT ![x] = record],
         f[x] # None => SameOwner(f[x], record)
  PROVE  \A y \in S : f[y] # None => SameOwner(f[y], g[y])
PROOF
  <1> SUFFICES ASSUME NEW y \in S, f[y] # None PROVE SameOwner(f[y], g[y])
    OBVIOUS
  <1>1. CASE y = x
    BY <1>1
  <1>2. CASE y # x
    BY <1>2 DEF SameOwner
  <1> QED
    BY <1>1, <1>2

\* No step changes the owner of a credential.
LEMMA CredentialOwners ==
  ASSUME TypeInv, PairInv, [Next]_vars
  PROVE  \A c \in Credentials :
           credentials[c] # None => SameOwner(credentials[c], credentials'[c])
PROOF
  <1>0. /\ credentials \in [Credentials -> CredentialRecords \cup {None}]
        /\ None \notin CredentialRecords
    BY RuntimeAssumption DEF TypeInv, TypeOK
  <1>1. CASE UNCHANGED credentials
    BY <1>1 DEF SameOwner
  <1>2. ASSUME NEW c \in Credentials, NEW t \in Tenants, NEW d \in Devices,
               enrollCredential(c, t, d), NEW e \in Credentials, credentials[e] # None
        PROVE  SameOwner(credentials[e], credentials'[e])
    <2>1. credentials[c] = None /\ \A b \in Credentials \ {c} : credentials'[b] = credentials[b]
      BY <1>2, EnrollShape
    <2> QED
      BY <1>2, <2>1 DEF SameOwner
  <1>3. ASSUME NEW h \in Calls, EndRevocation(h)
        PROVE  \A e \in Credentials :
                 credentials[e] # None => SameOwner(credentials[e], credentials'[e])
    <2> DEFINE c == call[h].credential
               record == [credentials[c] EXCEPT !.quarantined = TRUE]
    <2>1. c \in Credentials /\ credentials[c] \in CredentialRecords
      BY <1>3, RevocationShape
    <2>2. credentials' = [credentials EXCEPT ![c] = record]
      BY <1>3 DEF EndRevocation
    <2>3. /\ record \in CredentialRecords
          /\ record.tenant = credentials[c].tenant /\ record.device = credentials[c].device
      BY <2>1 DEF CredentialRecords
    <2> HIDE DEF record, c
    <2>4. SameOwner(credentials[c], record)
      BY <1>0, <2>3 DEF SameOwner
    <2> QED
      BY <1>0, <2>1, <2>2, <2>3, <2>4, OwnerWrite
  <1>4. ASSUME NEW h \in Calls, NEW c \in Credentials, NEW decision \in {"approve", "deny"},
               EndDecision(h, c, decision)
        PROVE  UNCHANGED credentials
    BY <1>4 DEF EndDecision
  <1> QED
    BY <1>1, <1>2, <1>3, <1>4, StepKinds DEF QuietStep, PairingStep, RequestStep

\* No step changes the owner of a request.
LEMMA RequestOwners ==
  ASSUME TypeInv, PairInv, [Next]_vars
  PROVE  \A q \in Requests : requests[q] # None => SameOwner(requests[q], requests'[q])
PROOF
  <1>0. /\ TypeOK /\ requests \in [Requests -> RequestRecords \cup {None}]
        /\ None \notin RequestRecords
    BY RuntimeAssumption DEF TypeInv, TypeOK
  <1> DEFINE Kept == \A r \in Requests : requests[r] # None => SameOwner(requests[r], requests'[r])
  <1>1. CASE UNCHANGED requests
    BY <1>1 DEF SameOwner
  <1>2. ASSUME NEW q \in Requests, requests[q] \in RequestRecords,
               \/ requests' = [requests EXCEPT ![q].expired = TRUE]
               \/ \E s \in {"approved", "denied", "terminal"} :
                    requests' = [requests EXCEPT ![q].projection = s]
        PROVE  Kept
    <2>1. PICK record \in RequestRecords :
            /\ requests' = [requests EXCEPT ![q] = record]
            /\ record.tenant = requests[q].tenant /\ record.device = requests[q].device
      <3>1. CASE requests' = [requests EXCEPT ![q].expired = TRUE]
        <4>1. /\ [requests[q] EXCEPT !.expired = TRUE] \in RequestRecords
              /\ [requests[q] EXCEPT !.expired = TRUE].tenant = requests[q].tenant
              /\ [requests[q] EXCEPT !.expired = TRUE].device = requests[q].device
          BY <1>2 DEF RequestRecords
        <4> QED
          BY <3>1, <4>1
      <3>2. ASSUME NEW s \in {"approved", "denied", "terminal"},
                   requests' = [requests EXCEPT ![q].projection = s]
            PROVE  \E record \in RequestRecords :
                     /\ requests' = [requests EXCEPT ![q] = record]
                     /\ record.tenant = requests[q].tenant
                     /\ record.device = requests[q].device
        <4>1. /\ [requests[q] EXCEPT !.projection = s] \in RequestRecords
              /\ [requests[q] EXCEPT !.projection = s].tenant = requests[q].tenant
              /\ [requests[q] EXCEPT !.projection = s].device = requests[q].device
          BY <1>2 DEF RequestRecords
        <4> QED
          BY <3>2, <4>1
      <3> QED
        BY <1>2, <3>1, <3>2
    <2>2. SameOwner(requests[q], record)
      BY <1>0, <2>1 DEF SameOwner
    <2> QED
      BY <1>0, <2>1, <2>2, OwnerWrite
  <1>3. ASSUME NEW q \in Requests, NEW t \in Tenants, NEW d \in Devices,
               ingestVerifiedRequest(q, t, d)
        PROVE  Kept
    BY <1>0, <1>3 DEF ingestVerifiedRequest, SameOwner
  <1>4. ASSUME NEW q \in Requests,
               \/ RequestExpires(q)
               \/ \E s \in {"succeeded", "failed", "denied"} : ingestVerifiedBrokerReceipt(q, s)
        PROVE  Kept
    <2>1. requests[q] \in RequestRecords
      BY <1>0, <1>4 DEF RequestExpires, ingestVerifiedBrokerReceipt
    <2>2. CASE RequestExpires(q)
      BY <1>2, <2>1, <2>2 DEF RequestExpires
    <2>3. ASSUME NEW s \in {"succeeded", "failed", "denied"}, ingestVerifiedBrokerReceipt(q, s)
          PROVE  Kept
      <3>1. projectionOf(s) \in {"approved", "denied", "terminal"}
        BY DEF projectionOf
      <3> QED
        BY <1>2, <2>1, <2>3, <3>1 DEF ingestVerifiedBrokerReceipt
    <2> QED
      BY <1>4, <2>2, <2>3
  <1>5. ASSUME NEW h \in Calls, NEW c \in Credentials, NEW decision \in {"approve", "deny"},
               EndDecision(h, c, decision)
        PROVE  Kept
    <2> DEFINE q == call[h].request
               s == IF decision = "approve" THEN "approved" ELSE "denied"
    <2>1. q \in Requests /\ requests[q] # None
      BY <1>5, DecisionShape
    <2>2. requests[q] \in RequestRecords /\ s \in {"approved", "denied", "terminal"}
      BY <1>0, <2>1
    <2>3. requests' = [requests EXCEPT ![q].projection = s]
      BY <1>5 DEF EndDecision
    <2> HIDE DEF q, s, Kept
    <2> QED
      BY <1>2, <2>1, <2>2, <2>3
  <1>6. ASSUME NEW h \in Calls,
               \/ \E a \in Accounts :
                    \/ \E p \in Pairings : BeginConfirm(h, a, p)
                    \/ \E c \in Credentials : BeginRevocation(h, a, c)
                    \/ \E q \in Requests : BeginDecision(h, a, q)
               \/ \E right \in BOOLEAN : EndConfirm(h, right)
               \/ EndRevocation(h) \/ GiveUp(h)
        PROVE  UNCHANGED requests
    BY <1>6 DEF BeginConfirm, BeginRevocation, BeginDecision, EndConfirm, EndRevocation, GiveUp
  <1>7. ASSUME \/ \E a \in Accounts : SignIn(a) \/ SessionExpires(a)
               \/ \E p \in Pairings :
                    \/ PairingExpires(p) \/ TouchExpiredPairing(p)
                    \/ \E d \in Devices : preparePairing(p, d)
                    \/ \E matches \in BOOLEAN : confirmPairingFromBroker(p, matches)
                    \/ \E a \in Accounts : claim(a, p)
               \/ \E t \in Tenants, d \in Devices, c \in Credentials : enrollCredential(c, t, d)
               \/ UNCHANGED vars
        PROVE  UNCHANGED requests
    BY <1>7 DEF SignIn, SessionExpires, PairingExpires, TouchExpiredPairing, preparePairing,
                confirmPairingFromBroker, claim, enrollCredential, vars
  <1> HIDE DEF Kept
  <1>8. Kept
    BY <1>1, <1>3, <1>4, <1>5, <1>6, <1>7 DEF Next, Kept
  <1> QED
    BY <1>8 DEF Kept

\* The decisions route begins with a request of the caller's tenant, which the
\* request keeps while the ceremony is awaited.
LEMMA CeremoniesKept ==
  ASSUME TypeInv, CeremoniesInTenant, OwnersKept, [Next]_vars
  PROVE  CeremoniesInTenant'
PROOF
  <1>0. TypeOK /\ call \in [Calls -> CallRecords \cup {None}]
    BY DEF TypeInv, TypeOK
  <1>1. ASSUME NEW h \in Calls, call'[h] = call[h], call[h] # None,
               call[h].route = "decisions"
        PROVE  /\ requests'[call'[h].request] # None
               /\ requests'[call'[h].request].tenant = TenantOf[call'[h].account]
    <2>1. call[h].request \in Requests
      BY <1>0, <1>1, CallTyped
    <2> QED
      BY <1>1, <2>1 DEF CeremoniesInTenant, OwnersKept, SameOwner
  <1>2. ASSUME NEW h \in Calls
        PROVE  \/ call'[h] = call[h] \/ call'[h] = None
               \/ call'[h].route \in {"confirm", "revocations"}
               \/ \E a \in Accounts, q \in Requests :
                    /\ call'[h] = [route |-> "decisions", account |-> a, request |-> q]
                    /\ UNCHANGED requests /\ requests[q] # None
                    /\ requests[q].tenant = TenantOf[a]
    <2>1. CASE UNCHANGED call
      BY <2>1
    <2>2. ASSUME NEW g \in Calls, End(g) PROVE call'[h] = call[h] \/ call'[h] = None
      BY <1>0, <2>2 DEF End
    <2>3. ASSUME NEW g \in Calls, NEW a \in Accounts, NEW q \in Requests, BeginDecision(g, a, q)
          PROVE  \/ call'[h] = call[h]
                 \/ /\ call'[h] = [route |-> "decisions", account |-> a, request |-> q]
                    /\ UNCHANGED requests /\ requests[q] # None
                    /\ requests[q].tenant = TenantOf[a]
      BY <1>0, <2>3 DEF BeginDecision, Begin
    <2>4. ASSUME NEW g \in Calls, NEW a \in Accounts,
                 \/ \E p \in Pairings : BeginConfirm(g, a, p)
                 \/ \E c \in Credentials : BeginRevocation(g, a, c)
          PROVE  call'[h] = call[h] \/ call'[h].route \in {"confirm", "revocations"}
      BY <1>0, <2>4 DEF BeginConfirm, BeginRevocation, Begin
    <2>5. ASSUME NEW g \in Calls,
                 \/ \E right \in BOOLEAN : EndConfirm(g, right)
                 \/ EndRevocation(g)
                 \/ \E c \in Credentials, decision \in {"approve", "deny"} :
                      EndDecision(g, c, decision)
                 \/ GiveUp(g)
          PROVE  call'[h] = call[h] \/ call'[h] = None
      BY <2>2, <2>5 DEF EndConfirm, EndRevocation, EndDecision, GiveUp
    <2>6. ASSUME \/ \E a \in Accounts : SignIn(a) \/ SessionExpires(a)
                 \/ \E q \in Requests : RequestExpires(q)
                 \/ \E p \in Pairings :
                      \/ PairingExpires(p) \/ TouchExpiredPairing(p)
                      \/ \E d \in Devices : preparePairing(p, d)
                      \/ \E matches \in BOOLEAN : confirmPairingFromBroker(p, matches)
                      \/ \E a \in Accounts : claim(a, p)
                 \/ \E t \in Tenants, d \in Devices :
                      \/ \E c \in Credentials : enrollCredential(c, t, d)
                      \/ \E q \in Requests : ingestVerifiedRequest(q, t, d)
                 \/ \E q \in Requests, s \in {"succeeded", "failed", "denied"} :
                      ingestVerifiedBrokerReceipt(q, s)
                 \/ UNCHANGED vars
          PROVE  UNCHANGED call
      BY <2>6 DEF SignIn, SessionExpires, RequestExpires, PairingExpires, TouchExpiredPairing,
                  preparePairing, confirmPairingFromBroker, claim, enrollCredential,
                  ingestVerifiedRequest, ingestVerifiedBrokerReceipt, vars
    <2> QED
      BY <2>1, <2>3, <2>4, <2>5, <2>6 DEF Next
  <1> QED
    <2> SUFFICES ASSUME NEW h \in Calls, call'[h] # None, call'[h].route = "decisions"
                 PROVE  /\ requests'[call'[h].request] # None
                        /\ requests'[call'[h].request].tenant = TenantOf[call'[h].account]
      BY DEF CeremoniesInTenant
    <2>1. CASE call'[h] = call[h]
      BY <1>1, <2>1
    <2>2. CASE call'[h] # call[h]
      <3>1. PICK a \in Accounts, q \in Requests :
              /\ call'[h] = [route |-> "decisions", account |-> a, request |-> q]
              /\ UNCHANGED requests /\ requests[q] # None /\ requests[q].tenant = TenantOf[a]
        BY <1>2, <2>2
      <3>2. call'[h].request = q /\ call'[h].account = a
        BY <3>1
      <3> QED
        BY <3>1, <3>2
    <2> QED
      BY <2>1, <2>2

\* What is queued stays within its tenant, and what is added is.
LEMMA TenantsKept ==
  ASSUME TypeInv, PairInv, CeremoniesInTenant, DecisionsStayInTenant, OwnersKept, [Next]_vars
  PROVE  DecisionsStayInTenant'
PROOF
  <1> DEFINE n == Len(relayOutbox)
             Within(i) == LET c == relayOutbox'[i].credential
                              q == relayOutbox'[i].request
                          IN /\ credentials'[c] # None /\ requests'[q] # None
                             /\ credentials'[c].tenant = requests'[q].tenant
                             /\ credentials'[c].device = requests'[q].device
  <1>0. TypeOK /\ relayOutbox \in Seq(Messages) /\ n \in Nat
    BY DEF TypeInv, TypeOK
  <1>1. ASSUME NEW i \in 1 .. n, relayOutbox'[i] = relayOutbox[i],
               relayOutbox'[i].kind = "decision_submission"
        PROVE  Within(i)
    <2>1. relayOutbox[i] \in Messages /\ IsDecision(i)
      BY <1>0, <1>1 DEF IsDecision
    <2>2. relayOutbox[i].request \in Requests /\ relayOutbox[i].credential \in Credentials
      BY <2>1 DEF Messages, IsDecision
    <2> QED
      BY <1>1, <2>1, <2>2 DEF DecisionsStayInTenant, OwnersKept, SameOwner
  <1>2. CASE UNCHANGED relayOutbox
    BY <1>1, <1>2 DEF DecisionsStayInTenant, IsDecision
  <1>3. ASSUME NEW h \in Calls, EndRevocation(h) PROVE DecisionsStayInTenant'
    <2>1. relayOutbox' = Append(relayOutbox,
            [kind |-> "revocation_event", credential |-> call[h].credential])
      BY <1>3 DEF EndRevocation, queueOpaqueToBroker
    <2>2. /\ Len(relayOutbox') = n + 1 /\ relayOutbox'[n + 1].kind = "revocation_event"
          /\ \A i \in 1 .. n : relayOutbox'[i] = relayOutbox[i]
      BY <1>0, <2>1
    <2>3. \A i \in 1 .. Len(relayOutbox') : i \in 1 .. n \/ i = n + 1
      BY <1>0, <2>2
    <2> HIDE DEF n
    <2> QED
      BY <1>1, <2>2, <2>3 DEF DecisionsStayInTenant, IsDecision
  <1>4. ASSUME NEW h \in Calls, NEW c \in Credentials, NEW decision \in {"approve", "deny"},
               EndDecision(h, c, decision)
        PROVE  DecisionsStayInTenant'
    <2> DEFINE q == call[h].request
    <2>1. /\ relayOutbox' = Append(relayOutbox,
               [kind |-> "decision_submission", request |-> q,
                credential |-> c, decision |-> decision])
          /\ call[h] # None /\ call[h].route = "decisions"
          /\ credentials[c] # None /\ credentials[c].tenant = TenantOf[call[h].account]
          /\ credentials[c].device = requests[q].device
      BY <1>4 DEF EndDecision, queueOpaqueToBroker, Awaits, MayDecide
    <2>2. q \in Requests /\ requests[q] # None /\ requests[q].tenant = TenantOf[call[h].account]
      BY <1>0, <2>1, CallTyped DEF CeremoniesInTenant
    <2>3. /\ credentials'[c] # None /\ requests'[q] # None
          /\ credentials'[c].tenant = requests'[q].tenant
          /\ credentials'[c].device = requests'[q].device
      BY <2>1, <2>2 DEF OwnersKept, SameOwner
    <2> HIDE DEF q
    <2>4. /\ Len(relayOutbox') = n + 1
          /\ relayOutbox'[n + 1].credential = c /\ relayOutbox'[n + 1].request = q
          /\ \A i \in 1 .. n : relayOutbox'[i] = relayOutbox[i]
      BY <1>0, <2>1
    <2>5. \A i \in 1 .. Len(relayOutbox') : i \in 1 .. n \/ i = n + 1
      BY <1>0, <2>4
    <2>6. Within(n + 1)
      BY <2>3, <2>4
    <2> HIDE DEF n
    <2> QED
      BY <1>1, <2>4, <2>5, <2>6 DEF DecisionsStayInTenant, IsDecision
  <1> QED
    BY <1>2, <1>3, <1>4, StepKinds DEF QuietStep, PairingStep, RequestStep, enrollCredential

\* No decision crosses tenants or devices: whatever is in the queue to the broker was
\* decided by a credential of the tenant and the device of its request, although the
\* ceremony was awaited in between and the device may have been paired again with
\* another account, which leaves its credentials and its requests where they were
\* (requestRoute, revocationRoute, tryActivate).
THEOREM NoDecisionAcrossTenants == Spec => []DecisionsStayInTenant
PROOF
  <1>1. Init => CeremoniesInTenant /\ DecisionsStayInTenant
    BY DEF Init, CeremoniesInTenant, DecisionsStayInTenant
  <1>2. RuntimeInv /\ CeremoniesInTenant /\ DecisionsStayInTenant /\ [Next]_vars
          => CeremoniesInTenant' /\ DecisionsStayInTenant'
    <2> SUFFICES ASSUME RuntimeInv, CeremoniesInTenant, DecisionsStayInTenant, [Next]_vars
                 PROVE  CeremoniesInTenant' /\ DecisionsStayInTenant'
      OBVIOUS
    <2>1. TypeInv /\ PairInv
      BY DEF RuntimeInv
    <2>2. OwnersKept
      BY <2>1, CredentialOwners, RequestOwners DEF OwnersKept
    <2> QED
      BY <2>1, <2>2, CeremoniesKept, TenantsKept
  <1> QED
    BY <1>1, <1>2, RuntimeInvariant, PTL DEF Spec
=============================================================================
