----------------------------- MODULE CoseSign1 -----------------------------
(***************************************************************************)
(* The signed envelopes of the protocol (crates/rp-protocol/src/cose.rs):  *)
(* CoseSign1::sign, encode, decode and verify, and the verification keys.  *)
(* The Ed25519 signature is symbolic: it names the key and the structure   *)
(* it was made over, and nobody makes one without that key.  The bytes of  *)
(* the envelope are its structure, since the CBOR under it has one         *)
(* encoding per value (module Cbor).  Payloads are within the CBOR limits. *)
(*                                                                         *)
(* Signers put envelopes on the wire; in transit any part of one may be    *)
(* replaced, also by parts of the others.                                  *)
(***************************************************************************)
EXTENDS Integers, Sequences, FiniteSets

CONSTANTS SigningKeys, Payloads, ContentTypes, Domains, KeyRoles,
          KidBytes,      \* the lengths of key ids; a key id is its length here
          MaxTime,       \* bound: UTC times are 0..MaxTime
          MaxIssued      \* bound: envelopes signed

ASSUME CoseAssumption == MaxTime \in Nat /\ MaxIssued \in Nat /\ KidBytes \subseteq Nat

VARIABLES issued,   \* what has been signed
          wire      \* the envelope that arrives, or NoEnvelope

CoseVars == <<issued, wire>>

\* The CBOR value under an envelope: its tag and the kinds of the array's items.
COSE_SIGN1_TAG == 18
Sign1Items == <<"bytes", "map", "bytes", "bytes">>

NoEnvelope == [tag |-> 0]
COSE_EDDSA == -8
MIN_KID_BYTES == 8
MAX_KID_BYTES == 32

validate_kid(kid) == kid \in MIN_KID_BYTES..MAX_KID_BYTES

\* protected_bytes: the map of algorithm, content type and key id, exactly.
protected_bytes(kid, content_type) ==
    [entries |-> 3, alg |-> COSE_EDDSA, content_type |-> content_type, kid |-> kid]

parse_protected(protected) ==
    /\ protected.entries = 3
    /\ protected.alg = COSE_EDDSA
    /\ validate_kid(protected.kid)

\* Injected fault: the domain label is left out of the external data.
structure_without_domain(protected, domain, payload) == <<"Signature1", protected, payload>>

signature_structure(protected, domain, payload) ==
    <<"Signature1", protected, domain, payload>>

\* CoseSign1::sign followed by encode.
sign(payload, kid, content_type, domain, key) ==
    LET protected == protected_bytes(kid, content_type)
    IN  [tag |-> COSE_SIGN1_TAG, items |-> Sign1Items, protected |-> protected,
         unprotected |-> {}, payload |-> payload,
         signature |-> [bytes |-> 64, key |-> key,
                        over |-> signature_structure(protected, domain, payload)]]

\* CoseSign1::decode
decodes(envelope) ==
    /\ envelope.tag = COSE_SIGN1_TAG
    /\ envelope.items = Sign1Items
    /\ envelope.unprotected = {}
    /\ envelope.signature.bytes = 64
    /\ parse_protected(envelope.protected)

\* The keys VerificationKey::new admits; not_after_utc is exclusive.
VerificationKeys ==
    {k \in [kid : KidBytes, public_key : SigningKeys, not_before_utc : 0..MaxTime,
            not_after_utc : 0..MaxTime, roles : SUBSET KeyRoles] :
        /\ validate_kid(k.kid)
        /\ k.not_after_utc > k.not_before_utc
        /\ k.roles # {}}

Policies == [content_type : ContentTypes, domain : Domains, required_role : KeyRoles,
             now_utc : 0..MaxTime]

permits(key, role, now) ==
    role \in key.roles /\ now >= key.not_before_utc /\ now < key.not_after_utc

\* CoseSign1::verify
verify(envelope, key, policy) ==
    /\ envelope.protected.content_type = policy.content_type
    /\ envelope.protected.kid = key.kid
    /\ permits(key, policy.required_role, policy.now_utc)
    /\ envelope.signature.key = key.public_key
    /\ envelope.signature.over =
          signature_structure(envelope.protected, policy.domain, envelope.payload)

-----------------------------------------------------------------------------

CoseInit == issued = {} /\ wire = NoEnvelope

Sign ==
    /\ Cardinality(issued) < MaxIssued
    /\ \E payload \in Payloads, kid \in KidBytes, content_type \in ContentTypes,
          domain \in Domains, key \in SigningKeys :
          /\ validate_kid(kid)
          /\ issued' = issued \cup {[payload |-> payload, kid |-> kid, domain |-> domain,
                                     content_type |-> content_type, key |-> key]}
          /\ wire' = sign(payload, kid, content_type, domain, key)

\* One part of the envelope is replaced on its way.  A malformed one is refused
\* whatever else happens to it.
AlterEnvelope ==
    /\ wire # NoEnvelope /\ decodes(wire)
    /\ \/ \E payload \in Payloads : wire' = [wire EXCEPT !.payload = payload]
       \/ \E kid \in KidBytes : wire' = [wire EXCEPT !.protected.kid = kid]
       \/ \E ct \in ContentTypes : wire' = [wire EXCEPT !.protected.content_type = ct]
       \/ wire' = [wire EXCEPT !.protected.alg = -7]
       \/ wire' = [wire EXCEPT !.protected.entries = 4]
       \/ wire' = [wire EXCEPT !.tag = 0]
       \/ \E items \in {Append(Sign1Items, "bytes"), Tail(Sign1Items)}
                       \cup {[Sign1Items EXCEPT ![i] = "text"] : i \in 1..4} :
             wire' = [wire EXCEPT !.items = items]
       \/ wire' = [wire EXCEPT !.unprotected = {"entry"}]
       \/ wire' = [wire EXCEPT !.signature.bytes = 63]
       \/ \E s \in issued :
             wire' = [wire EXCEPT !.signature =
                         sign(s.payload, s.kid, s.content_type, s.domain, s.key).signature]
    /\ UNCHANGED issued

CoseNext == Sign \/ AlterEnvelope

CoseSpec == CoseInit /\ [][CoseNext]_CoseVars

\* Hazard: an envelope accepted for a purpose it was not signed for, or a signed
\* one refused.  Under every key and policy, decode and verify take exactly the
\* envelopes that the holder of that key signed, under that key id, for that
\* content type and domain, while the key holds the role and is valid.
VerifiesExactlyTheSigned ==
    wire # NoEnvelope => \A key \in VerificationKeys, policy \in Policies :
        (decodes(wire) /\ verify(wire, key, policy)) <=>
            /\ policy.required_role \in key.roles
            /\ policy.now_utc \in key.not_before_utc..(key.not_after_utc - 1)
            /\ \E s \in issued :
                  /\ s.key = key.public_key /\ s.kid = key.kid
                  /\ s.content_type = policy.content_type /\ s.domain = policy.domain
                  /\ wire = sign(s.payload, s.kid, s.content_type, s.domain, s.key)
=============================================================================
