----------------------------- MODULE MCProtocol -----------------------------
(***************************************************************************)
(* The four layers a message passes, as one instance for TLC: its bytes    *)
(* (Cbor), its object (Schema), its signed envelope (CoseSign1) and the    *)
(* text an agent supplies (Intake).  The layers share no state; a          *)
(* behaviour exercises the one its initial state picks.                    *)
(***************************************************************************)
EXTENDS Cbor, Schema, CoseSign1, MCIntake

VARIABLE layer

\* Nesting, collections and strings reach their limits and one past them.
MCLimits == [message |-> 10, nesting |-> 2, map |-> 2, array |-> 2, bytes |-> 1, text |-> 4]

\* Integers on both sides of the one-byte form, a byte string, a two-byte text
\* and its character, arrays, maps, the tag, null and the indefinite marker.
MCAlphabet == {0, 23, 24, 25, 32, 65, 98, 195, 130, 161, 162, 210, 246, 255}

\* Besides the empty input, heads of four and eight bytes around their bounds, and
\* characters of three and four bytes at theirs, up to one byte over the limit.
MCStarts == {<<>>, <<26, 0, 0>>, <<26, 0, 1>>, <<27, 0, 0, 0, 0, 0>>, <<27, 0, 0, 0, 1, 0>>,
             <<59, 127, 0, 0, 0, 0, 0>>, <<59, 128, 0, 0, 0, 0, 0>>, <<217, 0>>,
             <<27, 128, 0, 0, 0, 0, 0>>, <<99, 224>>, <<99, 237>>,
             <<100, 240>>, <<100, 244>>, <<101>>}

Altered(t, ns, id) == {[t |-> t, n |-> n, id |-> id] : n \in ns}

\* Every CBOR type, with numbers and lengths at the bounds of the schemas.
MCAlterations ==
    Altered("uint", {0, 1, 2, MaxI64 + 1}, 0) \cup Altered("nint", {-1, -MaxI64 - 1}, 0)
    \cup Altered("bytes", {0, 16, 32, 33, 513, 1025}, 30) \cup Altered("text", {0, 16, 254, 513}, 0)
    \cup Altered("array", {0}, 0) \cup Altered("bool", {1}, 0) \cup Altered("map", 1..3, 30)
    \cup Altered("tag", {18}, 0) \cup Altered("null", {0}, 0)

\* Signers and payloads are only compared for equality.
SignersAndPayloads == Permutations(SigningKeys) \cup Permutations(Payloads)

Layers == {"bytes", "object", "envelope", "intake"}

Init ==
    /\ layer \in Layers
    /\ CborInit /\ (layer # "bytes" => input = <<>>)
    /\ SchemaInit /\ (layer # "object" => kind = "Request")
    /\ CoseInit
    /\ IntakeInit

BytesStep == layer = "bytes" /\ ReadByte /\ UNCHANGED <<SchemaVars, CoseVars, IntakeVars>>
ObjectStep ==
    layer = "object" /\ SchemaNext /\ UNCHANGED <<input, CoseVars, IntakeVars>>
EnvelopeStep ==
    layer = "envelope" /\ CoseNext /\ UNCHANGED <<input, SchemaVars, IntakeVars>>
IntakeStep == layer = "intake" /\ IntakeNext /\ UNCHANGED <<input, SchemaVars, CoseVars>>

Next == (BytesStep \/ ObjectStep \/ EnvelopeStep \/ IntakeStep) /\ UNCHANGED layer

Spec == Init /\ [][Next]_<<layer, input, SchemaVars, CoseVars, IntakeVars>>
=============================================================================
