------------------------------- MODULE Schema -------------------------------
(***************************************************************************)
(* The typed protocol objects (crates/rp-protocol/src/schema.rs) and the   *)
(* messages of the broker's local RPC (crates/rp-broker-api/src/lib.rs):   *)
(* what each to_cbor writes, what each from_cbor admits, and the checks of *)
(* validate and decode around them.                                        *)
(*                                                                         *)
(* A CBOR value is [t, n, id]: its type, its number or its length, and     *)
(* which content of that length it is.  A nested map is opened no further  *)
(* than its class n: 1 is one OperationInput::from_cbor admits, 2 one      *)
(* ApprovalContext::from_cbor admits, 3 any other.  A message is the       *)
(* function from field numbers to values that fields() makes of the root   *)
(* map; the bytes under it, and duplicate keys, are module Cbor's.  An     *)
(* attribute of the Rust struct is a value without its CBOR type ("rust"), *)
(* except that a CborValue attribute keeps it.  Which SchemaError or       *)
(* RpcError a refusal carries is left out.                                 *)
(***************************************************************************)
EXTENDS Integers, Sequences, FiniteSets

CONSTANTS MaxI64, MaxU64,    \* the largest i64 and u64
          MaxPayload,        \* MAX_FRAME_PAYLOAD_BYTES
          MessageBytes,      \* the encoded sizes a message may have
          Alterations,       \* the values a field is given in transit
          MaxAltered         \* bound: alterations of one message

ASSUME WidthAssumption == MaxI64 \in Nat /\ MaxU64 \in Nat /\ MaxI64 < MaxU64

ASSUME FrameAssumption ==
    MaxPayload \in Nat /\ MaxAltered \in Nat /\ MessageBytes \subseteq Nat

\* The CBOR values, as far as the readers look: an integer's type is its sign and
\* an unsigned one is nothing but its number; a map is of one of the three classes.
CborTypes == {"uint", "nint", "bytes", "text", "array", "map", "tag", "bool", "null"}

Formed(v) ==
    /\ v.t = "uint" => v.n >= 0
    /\ v.t = "nint" => v.n < 0
    /\ v.t = "map" => v.n \in 1..3

ASSUME AlterationsAssumption ==
    /\ Alterations \subseteq [t : CborTypes, n : Int, id : Nat]
    /\ \A v \in Alterations : Formed(v) /\ (v.t = "uint" => v.id = 0)

VARIABLES kind,      \* the object the sender built
          message,   \* its fields as they arrive
          frame,     \* the packet around it: [bytes, received, declared]
          altered    \* alterations so far

SchemaVars == <<kind, message, frame, altered>>

VERSION == 1
FRAME_LENGTH_BYTES == 4
None == [t |-> "none", n |-> 0, id |-> 0]

-----------------------------------------------------------------------------
(* The field readers.  A rule is the field number, the CBOR types it        *)
(* matches, the range of number or length, whether the field may be absent, *)
(* whether the range is a bound checked only by the reader (the attribute's *)
(* Rust type is wider), and whether the attribute is a CborValue.           *)

Rule(field, types, lo, hi) ==
    [field |-> field, types |-> types, lo |-> lo, hi |-> hi,
     optional |-> FALSE, bounded |-> FALSE, value |-> FALSE]

required_unsigned(f) == Rule(f, {"uint"}, 0, MaxU64)
required_signed(f) == Rule(f, {"uint", "nint"}, -MaxI64 - 1, MaxI64)
required_bytes(f, length) == Rule(f, {"bytes"}, length, length)
digest_field(f) == required_bytes(f, 32)
required_bounded_bytes(f, lo, hi) == [Rule(f, {"bytes"}, lo, hi) EXCEPT !.bounded = TRUE]
required_text(f, max) == [Rule(f, {"text"}, 0, max) EXCEPT !.bounded = TRUE]
non_empty(rule) == [rule EXCEPT !.lo = 1]
required_array(f) == Rule(f, {"array"}, 0, 0)
required_map(f) == [Rule(f, {"map"}, 1, 3) EXCEPT !.value = TRUE]
nested(f, class) == Rule(f, {"map"}, class, class)
from_code(f, lo, hi) == Rule(f, {"uint"}, lo, hi)
optional(rule) == [rule EXCEPT !.optional = TRUE]

\* The match of a reader on the value it removed from the map.
Matches(rule, v) == v.t \in rule.types /\ v.n \in rule.lo..rule.hi

-----------------------------------------------------------------------------
(* The nine objects of schema.rs: the reader table of from_cbor and the     *)
(* writer table of to_cbor, by attribute.                                   *)

RequestReads ==
    [request_id |-> required_bytes(2, 16), device_id |-> required_bytes(3, 16),
     broker_epoch |-> required_unsigned(4), generation |-> required_unsigned(5),
     created_utc |-> required_signed(6), expires_utc |-> required_signed(7),
     boot_id |-> required_bytes(8, 16), deadline_mono_ns |-> required_unsigned(9),
     nonce |-> required_bytes(10, 32), requester_uid |-> required_unsigned(11),
     operation |-> from_code(12, 1, 1), operation_input |-> nested(13, 1),
     policy_id |-> required_bytes(14, 16), policy_digest |-> digest_field(15),
     plan_digest |-> digest_field(16), frozen_plan |-> required_map(17),
     agent_note |-> optional(required_text(18, 512))]

RequestWrites ==
    [request_id |-> <<2, "bytes">>, device_id |-> <<3, "bytes">>,
     broker_epoch |-> <<4, "uint">>, generation |-> <<5, "uint">>,
     created_utc |-> <<6, "signed">>, expires_utc |-> <<7, "signed">>,
     boot_id |-> <<8, "bytes">>, deadline_mono_ns |-> <<9, "uint">>,
     nonce |-> <<10, "bytes">>, requester_uid |-> <<11, "uint">>,
     operation |-> <<12, "uint">>, operation_input |-> <<13, "map">>,
     policy_id |-> <<14, "bytes">>, policy_digest |-> <<15, "bytes">>,
     plan_digest |-> <<16, "bytes">>, frozen_plan |-> <<17, "value">>,
     agent_note |-> <<18, "text">>]

ApprovalContextReads ==
    [request_id |-> required_bytes(2, 16), device_id |-> required_bytes(3, 16),
     broker_epoch |-> required_unsigned(4), request_digest |-> digest_field(5),
     generation |-> required_unsigned(6), nonce |-> required_bytes(7, 32),
     rp_id |-> non_empty(required_text(8, 253)), origin |-> non_empty(required_text(9, 255)),
     decision |-> from_code(10, 1, 2), expires_utc |-> required_signed(11)]

ApprovalContextWrites ==
    [request_id |-> <<2, "bytes">>, device_id |-> <<3, "bytes">>,
     broker_epoch |-> <<4, "uint">>, request_digest |-> <<5, "bytes">>,
     generation |-> <<6, "uint">>, nonce |-> <<7, "bytes">>,
     rp_id |-> <<8, "text">>, origin |-> <<9, "text">>,
     decision |-> <<10, "uint">>, expires_utc |-> <<11, "signed">>]

DecisionSubmissionReads ==
    [approval_context |-> nested(2, 2), credential_id |-> required_bounded_bytes(3, 1, 1024),
     authenticator_data |-> required_bounded_bytes(4, 1, 512),
     client_data_json |-> required_bounded_bytes(5, 1, 4096),
     signature |-> required_bounded_bytes(6, 1, 512),
     user_handle |-> optional(required_bounded_bytes(7, 0, 256))]

DecisionSubmissionWrites ==
    [approval_context |-> <<2, "map">>, credential_id |-> <<3, "bytes">>,
     authenticator_data |-> <<4, "bytes">>, client_data_json |-> <<5, "bytes">>,
     signature |-> <<6, "bytes">>, user_handle |-> <<7, "bytes">>]

PlanManifestReads ==
    [plan_digest |-> digest_field(2), inputs |-> required_array(3),
     action_graph |-> required_map(4), policy_digest |-> digest_field(5),
     created_utc |-> required_signed(6), toolchain |-> required_map(7),
     prestate_observation |-> required_map(8)]

PlanManifestWrites ==
    [plan_digest |-> <<2, "bytes">>, inputs |-> <<3, "array">>,
     action_graph |-> <<4, "value">>, policy_digest |-> <<5, "bytes">>,
     created_utc |-> <<6, "signed">>, toolchain |-> <<7, "value">>,
     prestate_observation |-> <<8, "value">>]

LifecycleEventReads ==
    [request_id |-> required_bytes(2, 16), sequence |-> required_unsigned(3),
     previous_event_digest |-> optional(digest_field(4)), request_digest |-> digest_field(5),
     broker_epoch |-> required_unsigned(6), transition |-> required_unsigned(7),
     occurred_utc |-> required_signed(8), detail_code |-> required_unsigned(9),
     detail_digest |-> optional(digest_field(10))]

LifecycleEventWrites ==
    [request_id |-> <<2, "bytes">>, sequence |-> <<3, "uint">>,
     previous_event_digest |-> <<4, "bytes">>, request_digest |-> <<5, "bytes">>,
     broker_epoch |-> <<6, "uint">>, transition |-> <<7, "uint">>,
     occurred_utc |-> <<8, "signed">>, detail_code |-> <<9, "uint">>,
     detail_digest |-> <<10, "bytes">>]

ReceiptReads ==
    [receipt_id |-> required_bytes(2, 16), request_id |-> required_bytes(3, 16),
     request_digest |-> digest_field(4), plan_digest |-> digest_field(5),
     terminal_state |-> required_unsigned(6), authorization_evidence |-> required_array(7),
     prestate_evidence |-> required_map(8), execution_evidence |-> required_map(9),
     created_utc |-> required_signed(10), completed_utc |-> required_signed(11),
     broker_epoch |-> required_unsigned(12)]

ReceiptWrites ==
    [receipt_id |-> <<2, "bytes">>, request_id |-> <<3, "bytes">>,
     request_digest |-> <<4, "bytes">>, plan_digest |-> <<5, "bytes">>,
     terminal_state |-> <<6, "uint">>, authorization_evidence |-> <<7, "array">>,
     prestate_evidence |-> <<8, "value">>, execution_evidence |-> <<9, "value">>,
     created_utc |-> <<10, "signed">>, completed_utc |-> <<11, "signed">>,
     broker_epoch |-> <<12, "uint">>]

EnrollmentStatementReads ==
    [tenant_subject_digest |-> digest_field(2), device_id |-> required_bytes(3, 16),
     broker_pubkey |-> digest_field(4), credential_set |-> required_array(5),
     pairing_nonce |-> digest_field(6), comparison_digest |-> digest_field(7),
     rp_id |-> non_empty(required_text(8, 253)), origin |-> non_empty(required_text(9, 255)),
     next_generation |-> required_unsigned(10), expires_utc |-> required_signed(11)]

EnrollmentStatementWrites ==
    [tenant_subject_digest |-> <<2, "bytes">>, device_id |-> <<3, "bytes">>,
     broker_pubkey |-> <<4, "bytes">>, credential_set |-> <<5, "array">>,
     pairing_nonce |-> <<6, "bytes">>, comparison_digest |-> <<7, "bytes">>,
     rp_id |-> <<8, "text">>, origin |-> <<9, "text">>,
     next_generation |-> <<10, "uint">>, expires_utc |-> <<11, "signed">>]

ServiceKeysetReads ==
    [keyset_version |-> required_unsigned(2), issued_utc |-> required_signed(3),
     keys |-> required_array(4), root_kid |-> required_bounded_bytes(5, 8, 32),
     expires_utc |-> required_signed(6)]

ServiceKeysetWrites ==
    [keyset_version |-> <<2, "uint">>, issued_utc |-> <<3, "signed">>,
     keys |-> <<4, "array">>, root_kid |-> <<5, "bytes">>, expires_utc |-> <<6, "signed">>]

RevocationEventReads ==
    [device_id |-> required_bytes(2, 16), credential_id |-> required_bounded_bytes(3, 1, 1024),
     cutoff_utc |-> required_signed(4), service_event_id |-> required_bytes(5, 16),
     generation_at_issue |-> required_unsigned(6), reason_code |-> required_unsigned(7)]

RevocationEventWrites ==
    [device_id |-> <<2, "bytes">>, credential_id |-> <<3, "bytes">>,
     cutoff_utc |-> <<4, "signed">>, service_event_id |-> <<5, "bytes">>,
     generation_at_issue |-> <<6, "uint">>, reason_code |-> <<7, "uint">>]

-----------------------------------------------------------------------------
(* The three messages of the local RPC.  Field 2 is the message kind, which *)
(* RpcMessage::from_cbor dispatches on; a method has five codes.            *)

MessageKind(f, code) == from_code(f, code, code)
Method(f) == from_code(f, 1, 5)

RpcRequestReads ==
    [kind |-> MessageKind(2, 1), correlation_id |-> required_bytes(3, 16),
     method |-> Method(4), body |-> required_map(5)]

\* Injected fault: a response does not look at the message kind.
RpcResponseAnyKind == [RpcRequestReads EXCEPT !.kind = from_code(2, 1, 3)]

RpcResponseReads == [RpcRequestReads EXCEPT !.kind = MessageKind(2, 2)]

\* The error text is one of the seventeen that ErrorCode::parse knows; their
\* lengths lie between 4 and 27, and id 0 stands for an unknown text.
RpcFailureReads ==
    [kind |-> MessageKind(2, 3), correlation_id |-> required_bytes(3, 16),
     method |-> Method(4), code |-> Rule(5, {"text"}, 4, 27),
     retryable |-> Rule(6, {"bool"}, 0, 1), details |-> optional(required_map(7))]

RpcRequestWrites ==
    [kind |-> <<2, "uint">>, correlation_id |-> <<3, "bytes">>,
     method |-> <<4, "uint">>, body |-> <<5, "value">>]

RpcResponseWrites == RpcRequestWrites

RpcFailureWrites ==
    [kind |-> <<2, "uint">>, correlation_id |-> <<3, "bytes">>, method |-> <<4, "uint">>,
     code |-> <<5, "text">>, retryable |-> <<6, "bool">>, details |-> <<7, "value">>]

-----------------------------------------------------------------------------

ReadsOf ==
    [Request |-> RequestReads, ApprovalContext |-> ApprovalContextReads,
     DecisionSubmission |-> DecisionSubmissionReads, PlanManifest |-> PlanManifestReads,
     LifecycleEvent |-> LifecycleEventReads, Receipt |-> ReceiptReads,
     EnrollmentStatement |-> EnrollmentStatementReads, ServiceKeyset |-> ServiceKeysetReads,
     RevocationEvent |-> RevocationEventReads, RpcRequest |-> RpcRequestReads,
     RpcResponse |-> RpcResponseReads, RpcFailure |-> RpcFailureReads]

WritesOf ==
    [Request |-> RequestWrites, ApprovalContext |-> ApprovalContextWrites,
     DecisionSubmission |-> DecisionSubmissionWrites, PlanManifest |-> PlanManifestWrites,
     LifecycleEvent |-> LifecycleEventWrites, Receipt |-> ReceiptWrites,
     EnrollmentStatement |-> EnrollmentStatementWrites, ServiceKeyset |-> ServiceKeysetWrites,
     RevocationEvent |-> RevocationEventWrites, RpcRequest |-> RpcRequestWrites,
     RpcResponse |-> RpcResponseWrites, RpcFailure |-> RpcFailureWrites]

Kinds == DOMAIN ReadsOf
RpcKinds == {"RpcRequest", "RpcResponse", "RpcFailure"}

\* The list of known fields each from_cbor gives reject_unknown.
known == [Request |-> 1..18, ApprovalContext |-> 1..11, DecisionSubmission |-> 1..7,
          PlanManifest |-> 1..8, LifecycleEvent |-> 1..10, Receipt |-> 1..12,
          EnrollmentStatement |-> 1..11, ServiceKeyset |-> 1..6, RevocationEvent |-> 1..7,
          RpcRequest |-> 1..5, RpcResponse |-> 1..5, RpcFailure |-> 1..7]

\* Injected fault: a field the schema does not know is ignored.
unknown_ignored(k, m) == TRUE

reject_unknown(k, m) == DOMAIN m \subseteq known[k]

version(m) == 1 \in DOMAIN m /\ m[1].t = "uint" /\ m[1].n = VERSION

signed(a) == [a EXCEPT !.t = IF a.n >= 0 THEN "uint" ELSE "nint"]

\* The CBOR value a writer makes of an attribute.
Written(form, a) ==
    CASE form = "signed" -> signed(a)
      [] form = "value" -> a
      [] OTHER -> [a EXCEPT !.t = form]

\* The map m with value v under f.
With(m, f, v) == [g \in DOMAIN m \cup {f} |-> IF g = f THEN v ELSE m[g]]

to_cbor(k, object) ==
    LET present == {a \in DOMAIN object : object[a] # None}
        at == [f \in {WritesOf[k][a][1] : a \in present} |->
                  CHOOSE a \in present : WritesOf[k][a][1] = f]
    IN  With([f \in DOMAIN at |-> Written(WritesOf[k][at[f]][2], object[at[f]])],
             1, [t |-> "uint", n |-> VERSION, id |-> 0])

\* The struct from_cbor builds of the fields it has checked.
FromCbor(k, m) ==
    [a \in DOMAIN ReadsOf[k] |->
        LET rule == ReadsOf[k][a]
        IN  IF rule.field \notin DOMAIN m THEN None
            ELSE IF rule.value THEN m[rule.field]
            ELSE [m[rule.field] EXCEPT !.t = "rust"]]

\* The check from_cbor itself makes after the fields: a request may not expire
\* before it is created; an RPC error code is a known one.
FromAlso(k, o) ==
    /\ k = "Request" => o.expires_utc.n >= o.created_utc.n
    /\ k = "RpcFailure" => o.code.id # 0

from_cbor(k, m) ==
    /\ reject_unknown(k, m)
    /\ version(m)
    /\ \A a \in DOMAIN ReadsOf[k] :
          LET rule == ReadsOf[k][a]
          IN  IF rule.field \in DOMAIN m THEN Matches(rule, m[rule.field]) ELSE rule.optional
    /\ FromAlso(k, FromCbor(k, m))

\* The checks that only validate makes.
Validates(k, o) ==
    /\ k = "LifecycleEvent" => (o.sequence.n = 0 <=> o.previous_event_digest = None)
    /\ k = "Receipt" => o.completed_utc.n >= o.created_utc.n
    /\ k = "ServiceKeyset" => o.expires_utc.n > o.issued_utc.n

\* validate, which every canonical_bytes and digest starts with; an RPC message
\* only validates its body.
validate(k, object) ==
    IF k \in RpcKinds
    THEN \A a \in DOMAIN object \cap {"body", "details"} :
            object[a] = None \/ object[a].t = "map"
    ELSE LET m == to_cbor(k, object)
         IN  from_cbor(k, m) /\ Validates(k, FromCbor(k, m))

\* Injected fault: decode trusts from_cbor alone.
decode_unvalidated(k, m) == from_cbor(k, m)

\* decode of a message; the objects whose from_cbor is not the whole check go
\* through validate again.
decode_as(k, m) ==
    /\ from_cbor(k, m)
    /\ k \in {"PlanManifest", "LifecycleEvent", "Receipt", "EnrollmentStatement", "ServiceKeyset"}
         => validate(k, FromCbor(k, m))

-----------------------------------------------------------------------------
(* Frames: a SOCK_SEQPACKET packet of `received` bytes whose prefix declares *)
(* `declared`, around a message of `bytes` bytes.                            *)

\* encode_frame
Framed(bytes) ==
    [bytes |-> bytes, received |-> FRAME_LENGTH_BYTES + bytes, declared |-> bytes]

\* receive: a packet longer than the buffer is refused, not cut.
receive(p) == p.received <= FRAME_LENGTH_BYTES + MaxPayload

\* read_frame and decode_frame up to the message; decode of a payload that is
\* longer or shorter than the message fails.
read_frame(p) ==
    /\ receive(p)
    /\ p.received >= FRAME_LENGTH_BYTES
    /\ p.declared <= MaxPayload
    /\ p.received = FRAME_LENGTH_BYTES + p.declared
    /\ p.declared = p.bytes

\* The receiver of a message of kind k takes it.
Takes(k, m, p) == decode_as(k, m) /\ (k \in RpcKinds => read_frame(p))

-----------------------------------------------------------------------------
(* A sender's message on its way.                                           *)

\* An object of a kind in the middle of its ranges, with every content distinct.
Sample(k) ==
    [a \in DOMAIN ReadsOf[k] |->
        LET rule == ReadsOf[k][a]
        IN  [t |-> IF rule.value THEN "map" ELSE "rust",
             n |-> IF rule.lo < 0 THEN (IF a \in {"expires_utc", "completed_utc"} THEN 1 ELSE 0)
                   ELSE IF rule.types = {"uint"} /\ rule.hi = MaxU64 THEN 1 ELSE rule.lo,
             id |-> rule.field]]

SchemaInit ==
    /\ kind \in Kinds
    /\ message = to_cbor(kind, Sample(kind))
    /\ frame \in {Framed(b) : b \in {x \in MessageBytes : x <= MaxPayload}}
    /\ kind \notin RpcKinds => \A b \in MessageBytes : frame.bytes <= b
    /\ altered = 0

\* A field is dropped, added or given another value.
AlterField ==
    /\ altered < MaxAltered
    /\ \E f \in 1..19 :
          \/ /\ f \in DOMAIN message
             /\ message' = [g \in DOMAIN message \ {f} |-> message[g]]
          \/ \E v \in Alterations : message' = With(message, f, v)
    /\ altered' = altered + 1
    /\ UNCHANGED <<kind, frame>>

\* The packet is cut, extended, or its prefix differs.
AlterFrame ==
    /\ altered < MaxAltered
    /\ kind \in RpcKinds
    /\ \E received \in 0..(FRAME_LENGTH_BYTES + MaxPayload + 1), declared \in 0..(MaxPayload + 1) :
          frame' = [frame EXCEPT !.received = received, !.declared = declared]
    /\ altered' = altered + 1
    /\ UNCHANGED <<kind, message>>

SchemaNext == AlterField \/ AlterFrame

SchemaSpec == SchemaInit /\ [][SchemaNext]_SchemaVars

-----------------------------------------------------------------------------

\* The message holds what the attributes' Rust types hold: wider than the
\* schema, where the schema bounds a length or wants a map.
HasRustTypes(k, m) ==
    /\ DOMAIN m \subseteq known[k]
    /\ version(m)
    /\ \A a \in DOMAIN ReadsOf[k] :
          LET rule == ReadsOf[k][a]
          IN  IF rule.field \notin DOMAIN m THEN rule.optional
              ELSE \/ rule.value
                   \/ rule.bounded /\ m[rule.field].t \in rule.types
                   \/ Matches(rule, m[rule.field])
    /\ k = "RpcFailure" => m[5].id # 0

\* Hazard: a message read as one object and hashed or forwarded as another.
\* Whatever a receiver takes, writing the object it read gives back the very
\* message and, for the RPC, the very packet: no field ignored, none defaulted,
\* none written under another number than it is read from.
ReadBackIsTheMessage ==
    \A k \in Kinds : Takes(k, message, frame) =>
        /\ to_cbor(k, FromCbor(k, message)) = message
        /\ k \in RpcKinds => frame = Framed(frame.bytes)

\* Hazard: one end refuses what the other end sends.  An object passes the
\* sender's validate exactly when the receiver's decode takes its message, for
\* every object the Rust types can hold.
EndsAgree ==
    \A k \in Kinds : HasRustTypes(k, message) =>
        (validate(k, FromCbor(k, message)) <=> decode_as(k, message))

\* Hazard: a message of one object taken for another whose signature or digest
\* was never meant for it.  No message is taken as two kinds.
OneKind == Cardinality({k \in Kinds : decode_as(k, message)}) <= 1
=============================================================================
