--------------------------- MODULE ProtocolProofs ---------------------------
(***************************************************************************)
(* The protocol layers: what a signed envelope verifies as, what a message *)
(* is read as, what the client's grammar admits, and how bytes are read.   *)
(***************************************************************************)
EXTENDS CborScalar, Schema, CoseSign1, Intake, SequenceTheorems, FiniteSetTheorems,
        WellFoundedInduction, TLAPS

-----------------------------------------------------------------------------
(* The signed envelope.                                                     *)

\* The bytes of a signature are those of one that was made, cut or not.
SignatureOf(s, bytes) ==
  [bytes |-> bytes, key |-> s.key,
   over |-> signature_structure(protected_bytes(s.kid, s.content_type), s.domain, s.payload)]

\* An envelope keeps the shape of one, whatever was replaced in it, and carries
\* the signature of a statement that was signed.
Enveloped ==
  /\ wire = [tag |-> wire.tag, items |-> wire.items, protected |-> wire.protected,
             unprotected |-> wire.unprotected, payload |-> wire.payload, signature |-> wire.signature]
  /\ wire.protected = [entries |-> wire.protected.entries, alg |-> wire.protected.alg,
                       content_type |-> wire.protected.content_type,
                       kid |-> wire.protected.kid]
  /\ \E s \in issued, bytes \in {63, 64} : wire.signature = SignatureOf(s, bytes)

CoseInv == wire = NoEnvelope \/ Enveloped

LEMMA SignIsEnveloped ==
  ASSUME NEW s
  PROVE  LET e == sign(s.payload, s.kid, s.content_type, s.domain, s.key) IN
         /\ e = [tag |-> COSE_SIGN1_TAG, items |-> Sign1Items, protected |-> protected_bytes(s.kid, s.content_type),
                 unprotected |-> {}, payload |-> s.payload, signature |-> SignatureOf(s, 64)]
         /\ e.signature = SignatureOf(s, 64)
BY DEF sign, SignatureOf

LEMMA CoseStep == CoseInv /\ [CoseNext]_CoseVars => CoseInv'
<1> SUFFICES ASSUME CoseInv, [CoseNext]_CoseVars PROVE CoseInv'
  OBVIOUS
<1>1. CASE Sign
  <2>1. PICK payload \in Payloads, kid \in KidBytes, content_type \in ContentTypes,
             domain \in Domains, key \in SigningKeys :
          /\ issued' = issued \cup {[payload |-> payload, kid |-> kid, domain |-> domain,
                                     content_type |-> content_type, key |-> key]}
          /\ wire' = sign(payload, kid, content_type, domain, key)
    BY <1>1 DEF Sign
  <2> DEFINE s == [payload |-> payload, kid |-> kid, domain |-> domain,
                   content_type |-> content_type, key |-> key]
  <2>2. s \in issued' /\ wire'.signature = SignatureOf(s, 64)
    BY <2>1 DEF sign, SignatureOf
  <2>3. /\ wire' = [tag |-> wire'.tag, items |-> wire'.items, protected |-> wire'.protected,
                    unprotected |-> wire'.unprotected, payload |-> wire'.payload,
                    signature |-> wire'.signature]
        /\ wire'.protected = [entries |-> wire'.protected.entries, alg |-> wire'.protected.alg,
                              content_type |-> wire'.protected.content_type,
                              kid |-> wire'.protected.kid]
    BY <2>1 DEF sign, protected_bytes
  <2> HIDE DEF s
  <2> QED
    BY <2>2, <2>3 DEF CoseInv, Enveloped
<1>2. CASE AlterEnvelope
  <2>1. Enveloped /\ issued' = issued
    BY <1>2 DEF AlterEnvelope, CoseInv
  <2> DEFINE Env(g, m, n, a, c, k, u, p, z) ==
        [tag |-> g, items |-> m,
         protected |-> [entries |-> n, alg |-> a, content_type |-> c, kid |-> k],
         unprotected |-> u, payload |-> p, signature |-> z]
  <2>2. PICK g, m, n, a, c, k, u, p, z : wire = Env(g, m, n, a, c, k, u, p, z)
    BY <2>1 DEF Enveloped
  <2>3. PICK s \in issued, bytes \in {63, 64} : z = SignatureOf(s, bytes)
    BY <2>1, <2>2 DEF Enveloped
  <2>4. ASSUME NEW gg, NEW mm, NEW nn, NEW aa, NEW cc, NEW kk, NEW uu, NEW pp, NEW t \in issued,
               NEW b \in {63, 64}, wire' = Env(gg, mm, nn, aa, cc, kk, uu, pp, SignatureOf(t, b))
        PROVE  CoseInv'
    BY <2>1, <2>4 DEF CoseInv, Enveloped
  <2>5. CASE \E x \in Payloads : wire' = [wire EXCEPT !.payload = x]
    <3>1. PICK x \in Payloads : wire' = [wire EXCEPT !.payload = x]
      BY <2>5
    <3>2. wire' = Env(g, m, n, a, c, k, u, x, z)
      BY <2>2, <3>1
    <3> HIDE DEF Env
    <3> QED BY <2>3, <2>4, <3>2
  <2>6. CASE \E x \in KidBytes : wire' = [wire EXCEPT !.protected.kid = x]
    <3>1. PICK x \in KidBytes : wire' = [wire EXCEPT !.protected.kid = x]
      BY <2>6
    <3>2. wire' = Env(g, m, n, a, c, x, u, p, z)
      BY <2>2, <3>1
    <3> HIDE DEF Env
    <3> QED BY <2>3, <2>4, <3>2
  <2>7. CASE \E x \in ContentTypes : wire' = [wire EXCEPT !.protected.content_type = x]
    <3>1. PICK x \in ContentTypes : wire' = [wire EXCEPT !.protected.content_type = x]
      BY <2>7
    <3>2. wire' = Env(g, m, n, a, x, k, u, p, z)
      BY <2>2, <3>1
    <3> HIDE DEF Env
    <3> QED BY <2>3, <2>4, <3>2
  <2>8. CASE wire' = [wire EXCEPT !.protected.alg = -7]
    <3>1. wire' = Env(g, m, n, -7, c, k, u, p, z)
      BY <2>2, <2>8
    <3> HIDE DEF Env
    <3> QED BY <2>3, <2>4, <3>1
  <2>9. CASE wire' = [wire EXCEPT !.protected.entries = 4]
    <3>1. wire' = Env(g, m, 4, a, c, k, u, p, z)
      BY <2>2, <2>9
    <3> HIDE DEF Env
    <3> QED BY <2>3, <2>4, <3>1
  <2>10. CASE wire' = [wire EXCEPT !.unprotected = {"entry"}]
    <3>1. wire' = Env(g, m, n, a, c, k, {"entry"}, p, z)
      BY <2>2, <2>10
    <3> HIDE DEF Env
    <3> QED BY <2>3, <2>4, <3>1
  <2>11. CASE wire' = [wire EXCEPT !.signature.bytes = 63]
    <3>1. wire' = Env(g, m, n, a, c, k, u, p, [z EXCEPT !.bytes = 63])
      BY <2>2, <2>11
    <3>2. [z EXCEPT !.bytes = 63] = SignatureOf(s, 63)
      BY <2>3 DEF SignatureOf
    <3> HIDE DEF Env
    <3> QED BY <2>4, <3>1, <3>2
  <2>12. CASE \E t \in issued : wire' = [wire EXCEPT !.signature =
                         sign(t.payload, t.kid, t.content_type, t.domain, t.key).signature]
    <3>1. PICK t \in issued : wire' = [wire EXCEPT !.signature =
                         sign(t.payload, t.kid, t.content_type, t.domain, t.key).signature]
      BY <2>12
    <3>2. sign(t.payload, t.kid, t.content_type, t.domain, t.key).signature = SignatureOf(t, 64)
      BY SignIsEnveloped
    <3>3. wire' = Env(g, m, n, a, c, k, u, p, SignatureOf(t, 64))
      BY <2>2, <3>1, <3>2
    <3> HIDE DEF Env
    <3> QED BY <2>4, <3>3
  <2>13. CASE wire' = [wire EXCEPT !.tag = 0]
    <3>1. wire' = Env(0, m, n, a, c, k, u, p, z)
      BY <2>2, <2>13
    <3> HIDE DEF Env
    <3> QED BY <2>3, <2>4, <3>1
  <2>14. CASE \E x : wire' = [wire EXCEPT !.items = x]
    <3>1. PICK x : wire' = [wire EXCEPT !.items = x]
      BY <2>14
    <3>2. wire' = Env(g, x, n, a, c, k, u, p, z)
      BY <2>2, <3>1
    <3> HIDE DEF Env
    <3> QED BY <2>3, <2>4, <3>2
  <2> QED
    BY <1>2, <2>5, <2>6, <2>7, <2>8, <2>9, <2>10, <2>11, <2>12, <2>13, <2>14
    DEF AlterEnvelope
<1>3. CASE UNCHANGED CoseVars
  BY <1>3 DEF CoseVars, CoseInv, Enveloped
<1> QED
  BY <1>1, <1>2, <1>3 DEF CoseNext

LEMMA SignedOnly ==
  ASSUME CoseInv, wire # NoEnvelope, NEW key \in VerificationKeys, NEW policy \in Policies
  PROVE  (decodes(wire) /\ verify(wire, key, policy)) <=>
            /\ policy.required_role \in key.roles
            /\ policy.now_utc \in key.not_before_utc..(key.not_after_utc - 1)
            /\ \E s \in issued :
                  /\ s.key = key.public_key /\ s.kid = key.kid
                  /\ s.content_type = policy.content_type /\ s.domain = policy.domain
                  /\ wire = sign(s.payload, s.kid, s.content_type, s.domain, s.key)
<1>0. Enveloped
  BY DEF CoseInv
<1>3. permits(key, policy.required_role, policy.now_utc)
        <=> /\ policy.required_role \in key.roles
            /\ policy.now_utc \in key.not_before_utc..(key.not_after_utc - 1)
  <2>1. key.not_before_utc \in Int /\ key.not_after_utc \in Int /\ policy.now_utc \in Int
    BY CoseAssumption DEF VerificationKeys, Policies
  <2> QED
    BY <2>1 DEF permits
<1>1. ASSUME decodes(wire), verify(wire, key, policy)
      PROVE  /\ policy.required_role \in key.roles
             /\ policy.now_utc \in key.not_before_utc..(key.not_after_utc - 1)
             /\ \E s \in issued :
                  /\ s.key = key.public_key /\ s.kid = key.kid
                  /\ s.content_type = policy.content_type /\ s.domain = policy.domain
                  /\ wire = sign(s.payload, s.kid, s.content_type, s.domain, s.key)
  <2>1. PICK s \in issued, bytes \in {63, 64} : wire.signature = SignatureOf(s, bytes)
    BY <1>0 DEF Enveloped
  <2>2. bytes = 64
    BY <1>1, <2>1 DEF decodes, SignatureOf
  <2>3. /\ s.key = key.public_key
        /\ signature_structure(protected_bytes(s.kid, s.content_type), s.domain, s.payload)
             = signature_structure(wire.protected, policy.domain, wire.payload)
    BY <1>1, <2>1 DEF verify, SignatureOf
  <2>4. /\ wire.protected = protected_bytes(s.kid, s.content_type)
        /\ s.domain = policy.domain /\ s.payload = wire.payload
    BY <2>3 DEF signature_structure
  <2>5. s.kid = key.kid /\ s.content_type = policy.content_type
    BY <1>1, <2>4 DEF verify, protected_bytes
  <2>6. wire = sign(s.payload, s.kid, s.content_type, s.domain, s.key)
    BY <1>0, <1>1, <2>1, <2>2, <2>4, SignIsEnveloped DEF Enveloped, decodes
  <2> QED
    BY <1>1, <1>3, <2>3, <2>4, <2>5, <2>6 DEF verify
<1>2. ASSUME policy.required_role \in key.roles,
             policy.now_utc \in key.not_before_utc..(key.not_after_utc - 1),
             NEW s \in issued, s.key = key.public_key, s.kid = key.kid,
             s.content_type = policy.content_type, s.domain = policy.domain,
             wire = sign(s.payload, s.kid, s.content_type, s.domain, s.key)
      PROVE  decodes(wire) /\ verify(wire, key, policy)
  <2>1. validate_kid(s.kid)
    BY <1>2 DEF VerificationKeys
  <2>2. decodes(wire)
    BY <1>2, <2>1 DEF decodes, sign, parse_protected, protected_bytes
  <2>3. verify(wire, key, policy)
    BY <1>2, <1>3 DEF verify, sign, protected_bytes
  <2> QED
    BY <2>2, <2>3
<1> QED
  BY <1>1, <1>2

\* A signature is for one purpose: under every key and policy, decode and verify
\* take exactly the envelopes the holder of that key signed under that key id, for
\* that content type and domain, while the key holds the role and is valid.  No
\* splice of parts of signed envelopes passes, and no signed one is refused.
THEOREM SignedForOnePurpose == CoseSpec => []VerifiesExactlyTheSigned
<1>1. CoseInit => CoseInv
  BY DEF CoseInit, CoseInv
<1>2. CoseInv => VerifiesExactlyTheSigned
  BY SignedOnly DEF VerifiesExactlyTheSigned
<1> QED
  BY <1>1, <1>2, CoseStep, PTL DEF CoseSpec

-----------------------------------------------------------------------------
(* The client's grammar and the broker's.                                   *)

LEMMA LeastOfEleven ==
  ASSUME NEW S \in SUBSET (1..11), S # {}
  PROVE  Min(S) \in S
<1> DEFINE Least(n) == n \in S /\ \A m \in S : n <= m
<1>1. \E x \in S : \A y \in S : x <= y
  <2>1. 1 \in S => Least(1) OBVIOUS
  <2>2. 1 \notin S /\ 2 \in S => Least(2) OBVIOUS
  <2>3. (\A i \in 1..2 : i \notin S) /\ 3 \in S => Least(3) OBVIOUS
  <2>4. (\A i \in 1..3 : i \notin S) /\ 4 \in S => Least(4) OBVIOUS
  <2>5. (\A i \in 1..4 : i \notin S) /\ 5 \in S => Least(5) OBVIOUS
  <2>6. (\A i \in 1..5 : i \notin S) /\ 6 \in S => Least(6) OBVIOUS
  <2>7. (\A i \in 1..6 : i \notin S) /\ 7 \in S => Least(7) OBVIOUS
  <2>8. (\A i \in 1..7 : i \notin S) /\ 8 \in S => Least(8) OBVIOUS
  <2>9. (\A i \in 1..8 : i \notin S) /\ 9 \in S => Least(9) OBVIOUS
  <2>10. (\A i \in 1..9 : i \notin S) /\ 10 \in S => Least(10) OBVIOUS
  <2>11. (\A i \in 1..10 : i \notin S) /\ 11 \in S => Least(11) OBVIOUS
  <2>12. \E i \in 1..11 : i \in S OBVIOUS
  <2> QED
    BY <2>1, <2>2, <2>3, <2>4, <2>5, <2>6, <2>7, <2>8, <2>9, <2>10, <2>11, <2>12
<1> QED
  BY <1>1 DEF Min

\* The client sends the request of these arguments.
Admitted(args) == parse_package_install(args) = ""

\* What the client takes for a command has a name and a key of its grammar.
LEMMA ParseAdmits ==
  ASSUME NEW args \in Seq(Texts), Admitted(args)
  PROVE  Len(args) >= 5 /\ is_binary_package_name(args[3]) /\ is_operation_key(args[5])
<1> DEFINE n == Len(args)
           Arg(i) == IF i <= n THEN args[i]
                     ELSE [word |-> "", first |-> "other", rest |-> {}, len |-> 0]
           c1 == Arg(1).word # "package" \/ Arg(2).word # "install"
           c2 == n < 3
           c3 == ~is_binary_package_name(Arg(3))
           c4 == n < 4
           c5 == Arg(4).word # "--operation-key"
           c6 == n < 5
           c7 == ~is_operation_key(Arg(5))
           c8 == n > 5 /\ Arg(6).word # "--note"
           c9 == n = 6
           c10 == n > 6 /\ ~is_safe_note(Arg(7))
           c11 == n > 7
           Refusals ==
             << <<c1, "InvalidCommand">>, <<c2, "MissingValue">>, <<c3, "InvalidPackageName">>,
                <<c4, "MissingValue">>, <<c5, "UnexpectedArgument">>, <<c6, "MissingValue">>,
                <<c7, "InvalidOperationKey">>, <<c8, "UnexpectedArgument">>,
                <<c9, "MissingValue">>, <<c10, "InvalidNote">>, <<c11, "UnexpectedArgument">> >>
           failed == {i \in DOMAIN Refusals : Refusals[i][1]}
<1>1. parse_package_install(args) = IF failed = {} THEN "" ELSE Refusals[Min(failed)][2]
  BY DEF parse_package_install
<1>2. n \in Nat
  BY LenProperties
<1> HIDE DEF n, c1, c2, c3, c4, c5, c6, c7, c8, c9, c10, c11
<1>3. DOMAIN Refusals = 1..11
  OBVIOUS
<1>4. \A i \in 1..11 : Refusals[i][2] # ""
  <2> DEFINE Errors == {"InvalidCommand", "MissingValue", "InvalidPackageName",
                        "UnexpectedArgument", "InvalidOperationKey", "InvalidNote"}
  <2>1. \A i \in 1..11 : Refusals[i][2] \in Errors
    OBVIOUS
  <2>2. "" \notin Errors
    BY Zenon
  <2> HIDE DEF Errors, Refusals
  <2> QED BY <2>1, <2>2, Zenon
<1>5. Refusals[3][1] = c3 /\ Refusals[6][1] = c6 /\ Refusals[7][1] = c7
  OBVIOUS
<1> HIDE DEF Refusals
<1>6. failed \in SUBSET (1..11)
  BY <1>3
<1>7. failed = {}
  <2> HIDE DEF failed
  <2> QED BY <1>1, <1>4, <1>6, LeastOfEleven, Zenon DEF Admitted
<1>8. ~Refusals[3][1] /\ ~Refusals[6][1] /\ ~Refusals[7][1]
  <2>1. 3 \in 1..11 /\ 6 \in 1..11 /\ 7 \in 1..11
    OBVIOUS
  <2> QED BY <1>3, <1>7, <2>1
<1>9. ~c3 /\ ~c6 /\ ~c7
  BY <1>5, <1>8
<1>10. n >= 5
  BY <1>2, <1>9 DEF c6
<1>11. 3 <= n /\ 5 <= n
  BY <1>2, <1>10
<1>12. Arg(3) = args[3] /\ Arg(5) = args[5]
  BY <1>11, Zenon
<1> HIDE DEF Arg
<1> QED
  BY <1>9, <1>10, <1>12 DEF n, c3, c7

IntakeInv == argv \in Seq(Texts) /\ ClientAgreesWithBroker

\* The client and the broker check one grammar apart (parse_package_install of the
\* client, PackageName::parse and OperationKey::parse of the broker): what the
\* client admits the broker never refuses as invalid input, whatever was typed.
THEOREM GrammarsAgree == IntakeSpec => []ClientAgreesWithBroker
<1>1. IntakeInit => IntakeInv
  BY DEF IntakeInit, IntakeInv, ClientAgreesWithBroker
<1>2. IntakeInv /\ [IntakeNext]_IntakeVars => IntakeInv'
  <2> SUFFICES ASSUME IntakeInv, [IntakeNext]_IntakeVars PROVE IntakeInv'
    OBVIOUS
  <2>1. CASE Type
    <3>1. PICK t \in Texts : argv' = Append(argv, t)
      BY <2>1 DEF Type
    <3>2. argv' \in Seq(Texts)
      BY <3>1, AppendProperties DEF IntakeInv
    <3> QED
      BY <2>1, <3>2 DEF Type, IntakeInv, ClientAgreesWithBroker
  <2>2. CASE SubmitTyped
    <3>1. is_binary_package_name(argv[3]) /\ is_operation_key(argv[5])
      BY <2>2, ParseAdmits DEF SubmitTyped, IntakeInv, Admitted
    <3>2. PackageName(argv[3]) /\ OperationKey(argv[5])
      BY <3>1 DEF is_binary_package_name, is_operation_key, PackageName, OperationKey, Classes
    <3> QED
      BY <2>2, <3>2 DEF SubmitTyped, IntakeInv, ClientAgreesWithBroker
  <2>3. CASE Prepare
    BY <2>3 DEF Prepare, IntakeInv, ClientAgreesWithBroker
  <2>4. CASE UNCHANGED IntakeVars
    BY <2>4 DEF IntakeVars, IntakeInv, ClientAgreesWithBroker
  <2> QED
    BY <2>1, <2>2, <2>3, <2>4 DEF IntakeNext
<1>3. IntakeInv => ClientAgreesWithBroker
  BY DEF IntakeInv
<1> QED
  BY <1>1, <1>2, <1>3, PTL DEF IntakeSpec

-----------------------------------------------------------------------------
(* The objects.  First what the reader and the writer tables say: the       *)
(* readers one by one, then the two tables of each kind side by side.       *)

IsRule(r, f, types, lo, hi, opt, bnd, val) ==
  /\ r.field = f /\ r.types = types /\ r.lo = lo /\ r.hi = hi
  /\ r.optional = opt /\ r.bounded = bnd /\ r.value = val

LEMMA ReaderRules ==
  /\ \A f : IsRule(required_unsigned(f), f, {"uint"}, 0, MaxU64, FALSE, FALSE, FALSE)
  /\ \A f : IsRule(required_signed(f), f, {"uint", "nint"}, -MaxI64 - 1, MaxI64, FALSE, FALSE, FALSE)
  /\ \A f, lo : IsRule(required_bytes(f, lo), f, {"bytes"}, lo, lo, FALSE, FALSE, FALSE)
  /\ \A f : IsRule(required_array(f), f, {"array"}, 0, 0, FALSE, FALSE, FALSE)
  /\ \A f, lo : IsRule(nested(f, lo), f, {"map"}, lo, lo, FALSE, FALSE, FALSE)
  /\ \A f, lo, hi : IsRule(from_code(f, lo, hi), f, {"uint"}, lo, hi, FALSE, FALSE, FALSE)
  /\ \A f, types, lo, hi : IsRule(Rule(f, types, lo, hi), f, types, lo, hi, FALSE, FALSE, FALSE)
  /\ \A f : IsRule(required_map(f), f, {"map"}, 1, 3, FALSE, FALSE, TRUE)
  /\ \A f, hi : IsRule(required_text(f, hi), f, {"text"}, 0, hi, FALSE, TRUE, FALSE)
  /\ \A f, lo, hi : IsRule(required_bounded_bytes(f, lo, hi), f, {"bytes"}, lo, hi, FALSE, TRUE, FALSE)
  /\ \A f, hi : IsRule(non_empty(required_text(f, hi)), f, {"text"}, 1, hi, FALSE, TRUE, FALSE)
  /\ \A f, hi : IsRule(optional(required_text(f, hi)), f, {"text"}, 0, hi, TRUE, TRUE, FALSE)
  /\ \A f, lo, hi :
        IsRule(optional(required_bounded_bytes(f, lo, hi)), f, {"bytes"}, lo, hi, TRUE, TRUE, FALSE)
  /\ \A f, lo : IsRule(optional(required_bytes(f, lo)), f, {"bytes"}, lo, lo, TRUE, FALSE, FALSE)
  /\ \A f : IsRule(optional(required_map(f)), f, {"map"}, 1, 3, TRUE, FALSE, TRUE)
<1>1. \A f : IsRule(required_unsigned(f), f, {"uint"}, 0, MaxU64, FALSE, FALSE, FALSE)
  BY Zenon DEF Rule, required_unsigned, IsRule
<1>2. \A f : IsRule(required_signed(f), f, {"uint", "nint"}, -MaxI64 - 1, MaxI64, FALSE, FALSE, FALSE)
  BY Zenon DEF Rule, required_signed, IsRule
<1>3. \A f, lo : IsRule(required_bytes(f, lo), f, {"bytes"}, lo, lo, FALSE, FALSE, FALSE)
  BY Zenon DEF Rule, required_bytes, IsRule
<1>4. \A f : IsRule(required_array(f), f, {"array"}, 0, 0, FALSE, FALSE, FALSE)
  BY Zenon DEF Rule, required_array, IsRule
<1>5. \A f, lo : IsRule(nested(f, lo), f, {"map"}, lo, lo, FALSE, FALSE, FALSE)
  BY Zenon DEF Rule, nested, IsRule
<1>6. \A f, lo, hi : IsRule(from_code(f, lo, hi), f, {"uint"}, lo, hi, FALSE, FALSE, FALSE)
  BY Zenon DEF Rule, from_code, IsRule
<1>7. \A f, types, lo, hi : IsRule(Rule(f, types, lo, hi), f, types, lo, hi, FALSE, FALSE, FALSE)
  BY Zenon DEF Rule, IsRule
<1>8. \A f : IsRule(required_map(f), f, {"map"}, 1, 3, FALSE, FALSE, TRUE)
  BY Zenon DEF Rule, required_map, IsRule
<1>9. \A f, hi : IsRule(required_text(f, hi), f, {"text"}, 0, hi, FALSE, TRUE, FALSE)
  BY Zenon DEF Rule, required_text, IsRule
<1>10. \A f, lo, hi : IsRule(required_bounded_bytes(f, lo, hi), f, {"bytes"}, lo, hi, FALSE, TRUE, FALSE)
  BY Zenon DEF Rule, required_bounded_bytes, IsRule
<1>11. \A f, hi : IsRule(non_empty(required_text(f, hi)), f, {"text"}, 1, hi, FALSE, TRUE, FALSE)
  BY Zenon DEF Rule, non_empty, required_text, IsRule
<1>12. \A f, hi : IsRule(optional(required_text(f, hi)), f, {"text"}, 0, hi, TRUE, TRUE, FALSE)
  BY Zenon DEF Rule, optional, required_text, IsRule
<1>13. \A f, lo, hi : IsRule(optional(required_bounded_bytes(f, lo, hi)), f, {"bytes"}, lo, hi, TRUE, TRUE, FALSE)
  BY Zenon DEF Rule, optional, required_bounded_bytes, IsRule
<1>14. \A f, lo : IsRule(optional(required_bytes(f, lo)), f, {"bytes"}, lo, lo, TRUE, FALSE, FALSE)
  BY Zenon DEF Rule, optional, required_bytes, IsRule
<1>15. \A f : IsRule(optional(required_map(f)), f, {"map"}, 1, 3, TRUE, FALSE, TRUE)
  BY Zenon DEF Rule, optional, required_map, IsRule
<1> QED
  BY <1>1, <1>2, <1>3, <1>4, <1>5, <1>6, <1>7, <1>8,
     <1>9, <1>10, <1>11, <1>12, <1>13, <1>14, <1>15, Zenon

\* Every attribute is written under the number it is read from, no two under one
\* number, and the numbers are the known ones besides the version's.
SameFields(R, W, K) ==
  /\ DOMAIN W = DOMAIN R
  /\ \A a \in DOMAIN R : W[a][1] = R[a].field
  /\ \A a \in DOMAIN R : R[a].field \in K \ {1}
  /\ \A f \in K \ {1} : \E a \in DOMAIN R : R[a].field = f
  /\ \A a, b \in DOMAIN R : R[a].field = R[b].field => a = b

\* Every attribute is written in the CBOR type its reader matches.
SameForms(R, W) ==
  \A a \in DOMAIN R :
     \/ R[a].value = TRUE /\ W[a][2] = "value" /\ R[a].types = {"map"} /\ R[a].lo \in 1..3
     \/ R[a].value = FALSE /\ W[a][2] = "signed" /\ R[a].types = {"uint", "nint"} /\ R[a].lo < 0
     \/ /\ R[a].value = FALSE /\ W[a][2] \in CborTypes \ {"nint"} /\ R[a].types = {W[a][2]}
        /\ R[a].lo \in Nat
        /\ W[a][2] = "map" => R[a].lo \in 1..3

Tables(k) ==
  /\ SameFields(ReadsOf[k], WritesOf[k], known[k])
  /\ SameForms(ReadsOf[k], WritesOf[k])
  /\ known[k] \subseteq Nat

LEMMA RequestTables == Tables("Request")
<1>1. SameFields(RequestReads, RequestWrites, 1..18)
  <2>1. /\ DOMAIN RequestWrites = DOMAIN RequestReads
        /\ \A a \in DOMAIN RequestReads : RequestWrites[a][1] = RequestReads[a].field
        /\ \A a \in DOMAIN RequestReads : RequestReads[a].field \in (1..18) \ {1}
    BY ReaderRules DEF RequestReads, RequestWrites, IsRule, digest_field
  <2>2. \A f \in (1..18) \ {1} : \E a \in DOMAIN RequestReads : RequestReads[a].field = f
    BY ReaderRules DEF RequestReads, IsRule, digest_field
  <2>3. \A a, b \in DOMAIN RequestReads : RequestReads[a].field = RequestReads[b].field => a = b
    BY ReaderRules, SMTT(30) DEF RequestReads, IsRule, digest_field
  <2> QED
    BY <2>1, <2>2, <2>3 DEF SameFields
<1>2. SameForms(RequestReads, RequestWrites)
  BY ReaderRules, WidthAssumption
  DEF SameForms, RequestReads, RequestWrites, IsRule, digest_field, CborTypes
<1> QED
  BY <1>1, <1>2 DEF Tables, ReadsOf, WritesOf, known

LEMMA ApprovalContextTables == Tables("ApprovalContext")
<1>1. SameFields(ApprovalContextReads, ApprovalContextWrites, 1..11)
  BY ReaderRules DEF SameFields, ApprovalContextReads, ApprovalContextWrites, IsRule, digest_field
<1>2. SameForms(ApprovalContextReads, ApprovalContextWrites)
  BY ReaderRules, WidthAssumption
  DEF SameForms, ApprovalContextReads, ApprovalContextWrites, IsRule, digest_field, CborTypes
<1> QED
  BY <1>1, <1>2 DEF Tables, ReadsOf, WritesOf, known

LEMMA DecisionSubmissionTables == Tables("DecisionSubmission")
<1>1. SameFields(DecisionSubmissionReads, DecisionSubmissionWrites, 1..7)
  BY ReaderRules DEF SameFields, DecisionSubmissionReads, DecisionSubmissionWrites, IsRule, digest_field
<1>2. SameForms(DecisionSubmissionReads, DecisionSubmissionWrites)
  BY ReaderRules, WidthAssumption
  DEF SameForms, DecisionSubmissionReads, DecisionSubmissionWrites, IsRule, digest_field, CborTypes
<1> QED
  BY <1>1, <1>2 DEF Tables, ReadsOf, WritesOf, known

LEMMA PlanManifestTables == Tables("PlanManifest")
<1>1. SameFields(PlanManifestReads, PlanManifestWrites, 1..8)
  BY ReaderRules DEF SameFields, PlanManifestReads, PlanManifestWrites, IsRule, digest_field
<1>2. SameForms(PlanManifestReads, PlanManifestWrites)
  BY ReaderRules, WidthAssumption
  DEF SameForms, PlanManifestReads, PlanManifestWrites, IsRule, digest_field, CborTypes
<1> QED
  BY <1>1, <1>2 DEF Tables, ReadsOf, WritesOf, known

LEMMA LifecycleEventTables == Tables("LifecycleEvent")
<1>1. SameFields(LifecycleEventReads, LifecycleEventWrites, 1..10)
  BY ReaderRules DEF SameFields, LifecycleEventReads, LifecycleEventWrites, IsRule, digest_field
<1>2. SameForms(LifecycleEventReads, LifecycleEventWrites)
  BY ReaderRules, WidthAssumption
  DEF SameForms, LifecycleEventReads, LifecycleEventWrites, IsRule, digest_field, CborTypes
<1> QED
  BY <1>1, <1>2 DEF Tables, ReadsOf, WritesOf, known

LEMMA ReceiptTables == Tables("Receipt")
<1>1. SameFields(ReceiptReads, ReceiptWrites, 1..12)
  BY ReaderRules DEF SameFields, ReceiptReads, ReceiptWrites, IsRule, digest_field
<1>2. SameForms(ReceiptReads, ReceiptWrites)
  BY ReaderRules, WidthAssumption
  DEF SameForms, ReceiptReads, ReceiptWrites, IsRule, digest_field, CborTypes
<1> QED
  BY <1>1, <1>2 DEF Tables, ReadsOf, WritesOf, known

LEMMA EnrollmentStatementTables == Tables("EnrollmentStatement")
<1>1. SameFields(EnrollmentStatementReads, EnrollmentStatementWrites, 1..11)
  BY ReaderRules DEF SameFields, EnrollmentStatementReads, EnrollmentStatementWrites, IsRule, digest_field
<1>2. SameForms(EnrollmentStatementReads, EnrollmentStatementWrites)
  BY ReaderRules, WidthAssumption
  DEF SameForms, EnrollmentStatementReads, EnrollmentStatementWrites, IsRule, digest_field, CborTypes
<1> QED
  BY <1>1, <1>2 DEF Tables, ReadsOf, WritesOf, known

LEMMA ServiceKeysetTables == Tables("ServiceKeyset")
<1>1. SameFields(ServiceKeysetReads, ServiceKeysetWrites, 1..6)
  BY ReaderRules DEF SameFields, ServiceKeysetReads, ServiceKeysetWrites, IsRule, digest_field
<1>2. SameForms(ServiceKeysetReads, ServiceKeysetWrites)
  BY ReaderRules, WidthAssumption
  DEF SameForms, ServiceKeysetReads, ServiceKeysetWrites, IsRule, digest_field, CborTypes
<1> QED
  BY <1>1, <1>2 DEF Tables, ReadsOf, WritesOf, known

LEMMA RevocationEventTables == Tables("RevocationEvent")
<1>1. SameFields(RevocationEventReads, RevocationEventWrites, 1..7)
  BY ReaderRules DEF SameFields, RevocationEventReads, RevocationEventWrites, IsRule, digest_field
<1>2. SameForms(RevocationEventReads, RevocationEventWrites)
  BY ReaderRules, WidthAssumption
  DEF SameForms, RevocationEventReads, RevocationEventWrites, IsRule, digest_field, CborTypes
<1> QED
  BY <1>1, <1>2 DEF Tables, ReadsOf, WritesOf, known

LEMMA RpcRequestTables == Tables("RpcRequest")
<1>1. SameFields(RpcRequestReads, RpcRequestWrites, 1..5)
  BY ReaderRules DEF SameFields, RpcRequestReads, RpcRequestWrites, IsRule, digest_field, MessageKind, Method
<1>2. SameForms(RpcRequestReads, RpcRequestWrites)
  BY ReaderRules, WidthAssumption
  DEF SameForms, RpcRequestReads, RpcRequestWrites, IsRule, digest_field, CborTypes, MessageKind, Method
<1> QED
  BY <1>1, <1>2 DEF Tables, ReadsOf, WritesOf, known

LEMMA RpcResponseTables == Tables("RpcResponse")
<1>1. SameFields(RpcResponseReads, RpcResponseWrites, 1..5)
  BY ReaderRules DEF SameFields, RpcResponseReads, RpcResponseWrites, IsRule, digest_field, RpcRequestReads, RpcRequestWrites, MessageKind, Method
<1>2. SameForms(RpcResponseReads, RpcResponseWrites)
  BY ReaderRules, WidthAssumption
  DEF SameForms, RpcResponseReads, RpcResponseWrites, IsRule, digest_field, CborTypes, RpcRequestReads, RpcRequestWrites, MessageKind, Method
<1> QED
  BY <1>1, <1>2 DEF Tables, ReadsOf, WritesOf, known

LEMMA RpcFailureTables == Tables("RpcFailure")
<1>1. SameFields(RpcFailureReads, RpcFailureWrites, 1..7)
  BY ReaderRules DEF SameFields, RpcFailureReads, RpcFailureWrites, IsRule, digest_field, MessageKind, Method
<1>2. SameForms(RpcFailureReads, RpcFailureWrites)
  BY ReaderRules, WidthAssumption
  DEF SameForms, RpcFailureReads, RpcFailureWrites, IsRule, digest_field, CborTypes, MessageKind, Method
<1> QED
  BY <1>1, <1>2 DEF Tables, ReadsOf, WritesOf, known

LEMMA TablesAgree == ASSUME NEW k \in Kinds PROVE Tables(k)
BY RequestTables, ApprovalContextTables, DecisionSubmissionTables,
   PlanManifestTables, LifecycleEventTables, ReceiptTables,
   EnrollmentStatementTables, ServiceKeysetTables, RevocationEventTables,
   RpcRequestTables, RpcResponseTables, RpcFailureTables
DEF Kinds, ReadsOf

-----------------------------------------------------------------------------
(* What to_cbor writes, and that it writes back what was read.              *)

CborValues == [t : CborTypes, n : Int, id : Nat]

LEMMA ToCbor ==
  ASSUME NEW k \in Kinds, NEW object, DOMAIN object = DOMAIN ReadsOf[k]
  PROVE  LET m == to_cbor(k, object)
             present == {a \in DOMAIN object : object[a] # None}
         IN  /\ DOMAIN m = {1} \cup {ReadsOf[k][a].field : a \in present}
             /\ m = [f \in DOMAIN m |-> m[f]]
             /\ m[1] = [t |-> "uint", n |-> VERSION, id |-> 0]
             /\ \A a \in present :
                   m[ReadsOf[k][a].field] = Written(WritesOf[k][a][2], object[a])
<1> DEFINE present == {a \in DOMAIN object : object[a] # None}
           at == [f \in {WritesOf[k][a][1] : a \in present} |->
                     CHOOSE a \in present : WritesOf[k][a][1] = f]
           body == [f \in DOMAIN at |-> Written(WritesOf[k][at[f]][2], object[at[f]])]
           one == [t |-> "uint", n |-> VERSION, id |-> 0]
           m == to_cbor(k, object)
<1>1. m = With(body, 1, one)
  BY DEF to_cbor
<1>2. SameFields(ReadsOf[k], WritesOf[k], known[k])
  BY TablesAgree DEF Tables
<1>3. \A a \in present : /\ WritesOf[k][a][1] = ReadsOf[k][a].field
                         /\ ReadsOf[k][a].field # 1
                         /\ \A b \in present : WritesOf[k][a][1] = WritesOf[k][b][1] => a = b
  BY <1>2 DEF SameFields
<1> HIDE DEF m
<1>4. DOMAIN at = {ReadsOf[k][a].field : a \in present}
  BY <1>3
<1>5. \A a \in present : at[ReadsOf[k][a].field] = a
  <2> SUFFICES ASSUME NEW a \in present PROVE at[ReadsOf[k][a].field] = a
    OBVIOUS
  <2>1. at[ReadsOf[k][a].field] = CHOOSE b \in present : WritesOf[k][b][1] = ReadsOf[k][a].field
    BY <1>3
  <2> HIDE DEF at, present
  <2>2. \E b \in present : WritesOf[k][b][1] = ReadsOf[k][a].field
    BY <1>3
  <2> QED
    BY <1>3, <2>1, <2>2
<1> HIDE DEF at, present
<1>6. /\ DOMAIN body = {ReadsOf[k][a].field : a \in present}
      /\ \A a \in present : body[ReadsOf[k][a].field] = Written(WritesOf[k][a][2], object[a])
  BY <1>4, <1>5
<1> HIDE DEF body, one
<1>7. /\ DOMAIN m = DOMAIN body \cup {1}
      /\ m[1] = one
      /\ \A g \in DOMAIN body : g # 1 => m[g] = body[g]
      /\ m = [g \in DOMAIN m |-> m[g]]
  BY <1>1 DEF With
<1>8. \A a \in present : m[ReadsOf[k][a].field] = Written(WritesOf[k][a][2], object[a])
  BY <1>3, <1>6, <1>7
<1>9. DOMAIN m = {1} \cup {ReadsOf[k][a].field : a \in present}
  BY <1>6, <1>7
<1> QED
  BY <1>7, <1>8, <1>9, Zenon DEF m, present, one

\* A message is a map of CBOR values; an integer version is nothing but its number.
IsMessage(m) ==
  /\ m = [f \in DOMAIN m |-> m[f]]
  /\ \A f \in DOMAIN m : m[f] \in CborValues /\ Formed(m[f])
  /\ (1 \in DOMAIN m /\ m[1].t = "uint") => m[1].id = 0

\* Its fields are known and of the types that k's readers match; a CborValue
\* attribute is of any type.
ReadableAs(k, m) ==
  /\ DOMAIN m \subseteq known[k]
  /\ version(m)
  /\ \A a \in DOMAIN ReadsOf[k] : ReadsOf[k][a].field \in DOMAIN m =>
        \/ ReadsOf[k][a].value = TRUE
        \/ m[ReadsOf[k][a].field].t \in ReadsOf[k][a].types

\* One attribute, read and written again.
LEMMA AttributeReadBack ==
  ASSUME NEW k \in Kinds, NEW m, IsMessage(m), ReadableAs(k, m),
         NEW a \in DOMAIN ReadsOf[k], ReadsOf[k][a].field \in DOMAIN m
  PROVE  /\ FromCbor(k, m)[a] # None
         /\ Written(WritesOf[k][a][2], FromCbor(k, m)[a]) = m[ReadsOf[k][a].field]
<1> DEFINE rule == ReadsOf[k][a]
           form == WritesOf[k][a][2]
           v == m[rule.field]
<1>1. FromCbor(k, m)[a] = IF rule.value THEN v ELSE [v EXCEPT !.t = "rust"]
  BY DEF FromCbor
<1>2. \/ rule.value = TRUE /\ form = "value"
      \/ rule.value = FALSE /\ form = "signed" /\ rule.types = {"uint", "nint"}
      \/ rule.value = FALSE /\ form \in CborTypes /\ rule.types = {form}
  BY TablesAgree DEF Tables, SameForms
<1>3. v \in CborValues /\ Formed(v)
  BY DEF IsMessage
<1>4. rule.value = TRUE \/ v.t \in rule.types
  BY DEF ReadableAs
<1> HIDE DEF rule, form, v
<1>5. CASE rule.value = TRUE /\ form = "value"
  BY <1>1, <1>3, <1>5 DEF rule, form, v, Written, CborValues, CborTypes, None
<1>6. CASE rule.value = FALSE /\ form = "signed" /\ rule.types = {"uint", "nint"}
  <2>1. FromCbor(k, m)[a] = [v EXCEPT !.t = "rust"]
    BY <1>1, <1>6
  <2>2. v.t \in {"uint", "nint"}
    BY <1>4, <1>6
  <2>3. signed([v EXCEPT !.t = "rust"]) = v
    <3> DEFINE r == [v EXCEPT !.t = "rust"]
    <3>1. r = [t |-> "rust", n |-> v.n, id |-> v.id]
      BY <1>3 DEF CborValues
    <3>2. v = [t |-> v.t, n |-> v.n, id |-> v.id]
      BY <1>3 DEF CborValues
    <3>3. v.t = IF v.n >= 0 THEN "uint" ELSE "nint"
      BY <1>3, <2>2 DEF Formed, CborValues
    <3> HIDE DEF r
    <3>4. signed(r) = [r EXCEPT !.t = v.t]
      BY <3>1, <3>3 DEF signed
    <3>5. signed(r) = v
      BY <3>1, <3>2, <3>4
    <3> QED BY <3>5 DEF r
  <2>4. [v EXCEPT !.t = "rust"] # None
    BY <1>3 DEF CborValues, None
  <2>5. Written("signed", [v EXCEPT !.t = "rust"]) = v
    BY <2>3 DEF Written
  <2> QED
    BY <1>6, <2>1, <2>4, <2>5 DEF rule, form, v
<1>7. CASE rule.value = FALSE /\ form \in CborTypes /\ rule.types = {form}
  <2>1. FromCbor(k, m)[a] = [v EXCEPT !.t = "rust"]
    BY <1>1, <1>7
  <2>2. v.t = form /\ form # "signed" /\ form # "value"
    BY <1>4, <1>7 DEF CborTypes
  <2>3. Written(form, [v EXCEPT !.t = "rust"]) = v
    BY <1>3, <2>2 DEF Written, CborValues
  <2>4. [v EXCEPT !.t = "rust"] # None
    BY <1>3 DEF CborValues, None
  <2> QED
    BY <2>1, <2>3, <2>4 DEF rule, form, v
<1> QED
  BY <1>2, <1>5, <1>6, <1>7

LEMMA RoundTrip ==
  ASSUME NEW k \in Kinds, NEW m, IsMessage(m), ReadableAs(k, m)
  PROVE  to_cbor(k, FromCbor(k, m)) = m
<1> DEFINE o == FromCbor(k, m)
           w == to_cbor(k, o)
           present == {a \in DOMAIN o : o[a] # None}
<1>1. DOMAIN o = DOMAIN ReadsOf[k]
  BY DEF FromCbor
<1>2. \A a \in DOMAIN ReadsOf[k] : ReadsOf[k][a].field \notin DOMAIN m => o[a] = None
  BY DEF FromCbor
<1>3. \A a \in DOMAIN ReadsOf[k] : ReadsOf[k][a].field \in DOMAIN m =>
         o[a] # None /\ Written(WritesOf[k][a][2], o[a]) = m[ReadsOf[k][a].field]
  BY AttributeReadBack
<1> HIDE DEF o
<1>4. /\ DOMAIN w = {1} \cup {ReadsOf[k][a].field : a \in present}
      /\ w = [f \in DOMAIN w |-> w[f]]
      /\ w[1] = [t |-> "uint", n |-> VERSION, id |-> 0]
      /\ \A a \in present : w[ReadsOf[k][a].field] = Written(WritesOf[k][a][2], o[a])
  BY <1>1, ToCbor, Zenon
<1> HIDE DEF w
<1>5. present = {a \in DOMAIN ReadsOf[k] : ReadsOf[k][a].field \in DOMAIN m}
  BY <1>1, <1>2, <1>3
<1>6. 1 \in DOMAIN m /\ m[1] = [t |-> "uint", n |-> VERSION, id |-> 0]
  BY DEF ReadableAs, version, IsMessage, CborValues
<1>7. SameFields(ReadsOf[k], WritesOf[k], known[k]) /\ DOMAIN m \subseteq known[k]
  BY TablesAgree DEF Tables, ReadableAs
<1> HIDE DEF present
<1>8. DOMAIN w = DOMAIN m
  <2>1. DOMAIN w \subseteq DOMAIN m
    BY <1>4, <1>5, <1>6
  <2>2. ASSUME NEW f \in DOMAIN m, f # 1 PROVE f \in DOMAIN w
    <3>1. PICK a \in DOMAIN ReadsOf[k] : ReadsOf[k][a].field = f
      BY <1>7, <2>2 DEF SameFields
    <3> QED BY <1>4, <1>5, <3>1
  <2> QED BY <1>4, <2>1, <2>2
<1>9. \A f \in DOMAIN m : w[f] = m[f]
  <2> SUFFICES ASSUME NEW f \in DOMAIN m, f # 1 PROVE w[f] = m[f]
    BY <1>4, <1>6
  <2>1. PICK a \in DOMAIN ReadsOf[k] : ReadsOf[k][a].field = f
    BY <1>7 DEF SameFields
  <2>2. a \in present
    BY <1>5, <2>1
  <2> QED
    BY <1>3, <1>4, <2>1, <2>2
<1>10. m = [f \in DOMAIN m |-> m[f]]
  BY DEF IsMessage
<1>11. w = m
  BY <1>4, <1>8, <1>9, <1>10
<1> QED
  BY <1>11 DEF w, o

-----------------------------------------------------------------------------
(* What arrives is a message, however it was altered.                       *)

\* A sampled attribute is written as a CBOR value.
LEMMA SampleAttribute ==
  ASSUME NEW k \in Kinds, NEW a \in DOMAIN ReadsOf[k]
  PROVE  /\ Sample(k)[a] # None
         /\ Written(WritesOf[k][a][2], Sample(k)[a]) \in CborValues
         /\ Formed(Written(WritesOf[k][a][2], Sample(k)[a]))
<1> DEFINE rule == ReadsOf[k][a]
           form == WritesOf[k][a][2]
           num == IF rule.lo < 0 THEN (IF a \in {"expires_utc", "completed_utc"} THEN 1 ELSE 0)
                  ELSE IF rule.types = {"uint"} /\ rule.hi = MaxU64 THEN 1 ELSE rule.lo
<1>1. Sample(k)[a] = [t |-> IF rule.value THEN "map" ELSE "rust", n |-> num, id |-> rule.field]
  BY DEF Sample
<1>2. \/ rule.value = TRUE /\ form = "value" /\ rule.types = {"map"} /\ rule.lo \in 1..3
      \/ rule.value = FALSE /\ form = "signed" /\ rule.types = {"uint", "nint"} /\ rule.lo < 0
      \/ /\ rule.value = FALSE /\ form \in CborTypes \ {"nint"} /\ rule.types = {form}
         /\ rule.lo \in Nat
         /\ form = "map" => rule.lo \in 1..3
  BY TablesAgree DEF Tables, SameForms
<1>3. rule.field \in Nat
  BY TablesAgree DEF Tables, SameFields
<1> HIDE DEF rule, form
<1>4. CASE rule.value = TRUE /\ form = "value" /\ rule.types = {"map"} /\ rule.lo \in 1..3
  <2>1. num \in 1..3
    BY <1>4
  <2> HIDE DEF num
  <2>2. Sample(k)[a] = [t |-> "map", n |-> num, id |-> rule.field]
    BY <1>1, <1>4
  <2>3. Written(form, Sample(k)[a]) = [t |-> "map", n |-> num, id |-> rule.field]
    BY <1>4, <2>2 DEF Written
  <2> QED
    BY <1>3, <2>1, <2>2, <2>3 DEF form, None, CborValues, CborTypes, Formed
<1>5. CASE rule.value = FALSE /\ form = "signed" /\ rule.types = {"uint", "nint"} /\ rule.lo < 0
  <2>1. num \in Nat
    BY <1>5
  <2> HIDE DEF num
  <2>2. Sample(k)[a] = [t |-> "rust", n |-> num, id |-> rule.field]
    BY <1>1, <1>5
  <2>3. signed(Sample(k)[a]) = [t |-> "uint", n |-> num, id |-> rule.field]
    BY <2>1, <2>2 DEF signed
  <2>4. Written(form, Sample(k)[a]) = [t |-> "uint", n |-> num, id |-> rule.field]
    BY <1>5, <2>3 DEF Written
  <2> QED
    BY <1>3, <2>1, <2>2, <2>4 DEF form, None, CborValues, CborTypes, Formed
<1>6. CASE /\ rule.value = FALSE /\ form \in CborTypes \ {"nint"} /\ rule.types = {form}
           /\ rule.lo \in Nat
           /\ form = "map" => rule.lo \in 1..3
  <2>1. num \in Nat /\ (form = "map" => num \in 1..3)
    BY <1>6
  <2> HIDE DEF num
  <2>2. Sample(k)[a] = [t |-> "rust", n |-> num, id |-> rule.field]
    BY <1>1, <1>6
  <2>3. form # "signed" /\ form # "value"
    BY <1>6 DEF CborTypes
  <2>4. Written(form, Sample(k)[a]) = [t |-> form, n |-> num, id |-> rule.field]
    BY <2>2, <2>3 DEF Written
  <2> QED
    BY <1>3, <1>6, <2>1, <2>2, <2>4 DEF form, None, CborValues, Formed
<1> QED
  BY <1>2, <1>4, <1>5, <1>6

LEMMA SampleMessage ==
  ASSUME NEW k \in Kinds
  PROVE  IsMessage(to_cbor(k, Sample(k)))
<1> DEFINE o == Sample(k)
           m == to_cbor(k, o)
           present == {a \in DOMAIN o : o[a] # None}
<1>1. DOMAIN o = DOMAIN ReadsOf[k]
  BY DEF Sample
<1>2. /\ DOMAIN m = {1} \cup {ReadsOf[k][a].field : a \in present}
      /\ m = [f \in DOMAIN m |-> m[f]]
      /\ m[1] = [t |-> "uint", n |-> VERSION, id |-> 0]
      /\ \A a \in present : m[ReadsOf[k][a].field] = Written(WritesOf[k][a][2], o[a])
  BY <1>1, ToCbor, Zenon
<1>3. \A a \in DOMAIN ReadsOf[k] : /\ Written(WritesOf[k][a][2], o[a]) \in CborValues
                                   /\ Formed(Written(WritesOf[k][a][2], o[a]))
  BY SampleAttribute
<1> HIDE DEF o, m
<1>4. m[1] \in CborValues /\ Formed(m[1]) /\ m[1].id = 0
  BY <1>2 DEF CborValues, CborTypes, Formed, VERSION
<1>5. \A f \in DOMAIN m : m[f] \in CborValues /\ Formed(m[f])
  <2> SUFFICES ASSUME NEW f \in DOMAIN m, f # 1 PROVE m[f] \in CborValues /\ Formed(m[f])
    BY <1>4
  <2>1. PICK a \in present : f = ReadsOf[k][a].field
    BY <1>2
  <2> QED
    BY <1>1, <1>2, <1>3, <2>1
<1>6. IsMessage(m)
  BY <1>2, <1>4, <1>5 DEF IsMessage
<1> QED
  BY <1>6 DEF m, o

Frames == [bytes : Nat, received : Nat, declared : Nat]

SchemaInv == IsMessage(message) /\ frame \in Frames

LEMMA SchemaStart == SchemaInit => SchemaInv
<1> SUFFICES ASSUME SchemaInit PROVE SchemaInv
  OBVIOUS
<1>1. IsMessage(message)
  BY SampleMessage DEF SchemaInit
<1>2. frame \in Frames
  <2>1. PICK b \in MessageBytes : frame = Framed(b)
    BY DEF SchemaInit
  <2>2. b \in Nat
    BY FrameAssumption
  <2> QED
    BY <2>1, <2>2 DEF Framed, Frames, FRAME_LENGTH_BYTES
<1> QED
  BY <1>1, <1>2 DEF SchemaInv

LEMMA SchemaStep == SchemaInv /\ [SchemaNext]_SchemaVars => SchemaInv'
<1> SUFFICES ASSUME SchemaInv, [SchemaNext]_SchemaVars PROVE SchemaInv'
  OBVIOUS
<1>1. CASE AlterField
  <2>1. PICK f \in 1..19 :
          \/ message' = [g \in DOMAIN message \ {f} |-> message[g]]
          \/ \E v \in Alterations : message' = With(message, f, v)
    BY <1>1 DEF AlterField
  <2>2. CASE message' = [g \in DOMAIN message \ {f} |-> message[g]]
    <3>1. IsMessage(message')
      BY <2>2 DEF SchemaInv, IsMessage
    <3> QED
      BY <1>1, <3>1 DEF AlterField, SchemaInv
  <2>3. CASE \E v \in Alterations : message' = With(message, f, v)
    <3>1. PICK v \in Alterations : message' = With(message, f, v)
      BY <2>3
    <3>2. v \in CborValues /\ Formed(v) /\ (v.t = "uint" => v.id = 0)
      BY AlterationsAssumption DEF CborValues
    <3>3. /\ DOMAIN message' = DOMAIN message \cup {f}
          /\ message'[f] = v
          /\ \A g \in DOMAIN message : g # f => message'[g] = message[g]
          /\ message' = [g \in DOMAIN message' |-> message'[g]]
      BY <3>1 DEF With
    <3>4. \A g \in DOMAIN message' : message'[g] \in CborValues /\ Formed(message'[g])
      BY <3>2, <3>3 DEF SchemaInv, IsMessage
    <3>5. (1 \in DOMAIN message' /\ message'[1].t = "uint") => message'[1].id = 0
      BY <3>2, <3>3 DEF SchemaInv, IsMessage
    <3>6. IsMessage(message')
      BY <3>3, <3>4, <3>5 DEF IsMessage
    <3> QED
      BY <1>1, <3>6 DEF AlterField, SchemaInv
  <2> QED
    BY <2>1, <2>2, <2>3
<1>2. CASE AlterFrame
  <2>1. frame' \in Frames
    <3>1. PICK received \in 0..(FRAME_LENGTH_BYTES + MaxPayload + 1),
               declared \in 0..(MaxPayload + 1) :
            frame' = [frame EXCEPT !.received = received, !.declared = declared]
      BY <1>2 DEF AlterFrame
    <3>2. received \in Nat /\ declared \in Nat
      BY FrameAssumption DEF FRAME_LENGTH_BYTES
    <3> QED
      BY <3>1, <3>2 DEF SchemaInv, Frames
  <2> QED
    BY <1>2, <2>1 DEF AlterFrame, SchemaInv
<1>3. CASE UNCHANGED SchemaVars
  BY <1>3 DEF SchemaVars, SchemaInv
<1> QED
  BY <1>1, <1>2, <1>3 DEF SchemaNext

\* What from_cbor admits is readable, so it is written back as it came.
LEMMA AdmittedIsReadable ==
  ASSUME NEW k \in Kinds, NEW m, from_cbor(k, m)
  PROVE  ReadableAs(k, m)
BY DEF from_cbor, reject_unknown, ReadableAs, Matches

\* Whatever a receiver takes of what arrives, writing the object it read gives
\* back the very message and packet: from_cbor ignores no field, defaults none, and
\* to_cbor writes none under another number, for every kind and any alterations.
THEOREM MessagesReadBack == SchemaSpec => []ReadBackIsTheMessage
<1>1. SchemaInv => ReadBackIsTheMessage
  <2> SUFFICES ASSUME SchemaInv, NEW k \in Kinds, Takes(k, message, frame)
               PROVE  /\ to_cbor(k, FromCbor(k, message)) = message
                      /\ k \in RpcKinds => frame = Framed(frame.bytes)
    BY DEF ReadBackIsTheMessage
  <2>1. to_cbor(k, FromCbor(k, message)) = message
    BY AdmittedIsReadable, RoundTrip DEF Takes, decode_as, SchemaInv
  <2>2. ASSUME k \in RpcKinds PROVE frame = Framed(frame.bytes)
    BY <2>2 DEF Takes, read_frame, SchemaInv, Frames, Framed
  <2> QED
    BY <2>1, <2>2
<1> QED
  BY <1>1, SchemaStart, SchemaStep, PTL DEF SchemaSpec

-----------------------------------------------------------------------------
(* The sender's validate and the receiver's decode.                         *)

\* The RPC tables: only the body and the details are CborValues, and no attribute
\* is of a wider Rust type than its schema.
RpcRules(R) ==
  \A a \in DOMAIN R :
     /\ R[a].bounded = FALSE
     /\ R[a].value = TRUE <=> a \in {"body", "details"}
     /\ a \in {"body", "details"} => R[a].types = {"map"} /\ R[a].lo = 1 /\ R[a].hi = 3

LEMMA RpcTables == ASSUME NEW k \in RpcKinds PROVE RpcRules(ReadsOf[k])
<1>1. RpcRules(RpcRequestReads)
  BY ReaderRules DEF RpcRules, RpcRequestReads, MessageKind, Method, IsRule
<1>2. RpcRules(RpcResponseReads)
  BY ReaderRules DEF RpcRules, RpcResponseReads, RpcRequestReads, MessageKind, Method, IsRule
<1>3. RpcRules(RpcFailureReads)
  BY ReaderRules DEF RpcRules, RpcFailureReads, MessageKind, Method, IsRule
<1> QED
  BY <1>1, <1>2, <1>3 DEF RpcKinds, ReadsOf

LEMMA RustTypesAreReadable ==
  ASSUME NEW k \in Kinds, NEW m, HasRustTypes(k, m)
  PROVE  ReadableAs(k, m)
<1>1. \A a \in DOMAIN ReadsOf[k] : ReadsOf[k][a].value \in BOOLEAN
  BY TablesAgree DEF Tables, SameForms
<1> QED
  BY <1>1 DEF HasRustTypes, ReadableAs, Matches

\* The readers' verdict, without the check that follows them.
Read(k, m) ==
  \A a \in DOMAIN ReadsOf[k] :
     IF ReadsOf[k][a].field \in DOMAIN m THEN Matches(ReadsOf[k][a], m[ReadsOf[k][a].field])
     ELSE ReadsOf[k][a].optional

LEMMA RpcEndsAgree ==
  ASSUME NEW k \in RpcKinds, NEW m, IsMessage(m), HasRustTypes(k, m)
  PROVE  validate(k, FromCbor(k, m)) <=> decode_as(k, m)
<1> DEFINE o == FromCbor(k, m)
           R == ReadsOf[k]
<1>0. k \in Kinds
  BY DEF RpcKinds, Kinds, ReadsOf
<1>1. RpcRules(R)
  BY RpcTables
<1>2. \A a \in DOMAIN R : IF R[a].field \notin DOMAIN m THEN R[a].optional
                          ELSE \/ R[a].value
                               \/ R[a].bounded /\ m[R[a].field].t \in R[a].types
                               \/ Matches(R[a], m[R[a].field])
  BY DEF HasRustTypes
<1>3. /\ DOMAIN o = DOMAIN R
      /\ \A a \in DOMAIN R :
            o[a] = IF R[a].field \notin DOMAIN m THEN None
                   ELSE IF R[a].value THEN m[R[a].field]
                   ELSE [m[R[a].field] EXCEPT !.t = "rust"]
  BY DEF FromCbor
<1>4. \A f \in DOMAIN m : m[f] \in CborValues /\ Formed(m[f])
  BY DEF IsMessage
<1>5. decode_as(k, m) <=> Read(k, m) /\ FromAlso(k, o)
  BY DEF decode_as, from_cbor, Read, RpcKinds, HasRustTypes, reject_unknown
<1>6. validate(k, o) <=> \A a \in DOMAIN o \cap {"body", "details"} :
                            o[a] = None \/ o[a].t = "map"
  BY DEF validate
<1>7. FromAlso(k, o)
  <2>1. CASE k = "RpcFailure"
    <3>1. "code" \in DOMAIN R /\ R["code"].field = 5 /\ R["code"].optional = FALSE
          /\ R["code"].value = FALSE
      BY <2>1, ReaderRules DEF ReadsOf, RpcFailureReads, IsRule
    <3>2. 5 \in DOMAIN m
      BY <1>2, <3>1
    <3>3. o["code"] = [m[5] EXCEPT !.t = "rust"]
      BY <1>3, <3>1, <3>2
    <3>4. o["code"].id = m[5].id
      BY <1>4, <3>2, <3>3 DEF CborValues
    <3>5. m[5].id # 0
      BY <2>1 DEF HasRustTypes
    <3> QED
      BY <2>1, <3>4, <3>5 DEF FromAlso
  <2>2. CASE k # "RpcFailure"
    BY <2>2 DEF FromAlso, RpcKinds
  <2> QED BY <2>1, <2>2
<1> HIDE DEF o, R
<1>8. ASSUME Read(k, m) PROVE validate(k, o)
  <2> SUFFICES ASSUME NEW a \in DOMAIN R, a \in {"body", "details"}
               PROVE  o[a] = None \/ o[a].t = "map"
    BY <1>3, <1>6
  <2>1. R[a].value = TRUE /\ R[a].types = {"map"}
    BY <1>1 DEF RpcRules
  <2>2. R[a].field \in DOMAIN m => m[R[a].field].t = "map"
    BY <1>8, <2>1 DEF Read, R, Matches
  <2> QED
    BY <1>3, <2>1, <2>2
<1>9. ASSUME validate(k, o) PROVE Read(k, m)
  <2> SUFFICES ASSUME NEW a \in DOMAIN R
               PROVE  IF R[a].field \in DOMAIN m THEN Matches(R[a], m[R[a].field])
                      ELSE R[a].optional
    BY DEF Read, R
  <2>1. CASE R[a].field \notin DOMAIN m
    BY <1>2, <2>1
  <2>2. CASE R[a].field \in DOMAIN m /\ a \in {"body", "details"}
    <3>1. /\ R[a].value = TRUE /\ R[a].types = {"map"} /\ R[a].lo = 1 /\ R[a].hi = 3
      BY <1>1, <2>2 DEF RpcRules
    <3>2. o[a] = m[R[a].field]
      BY <1>3, <2>2, <3>1
    <3>3. m[R[a].field] \in CborValues /\ Formed(m[R[a].field])
      BY <1>4, <2>2
    <3>4. m[R[a].field].t = "map"
      BY <1>3, <1>6, <1>9, <2>2, <3>2, <3>3 DEF None, CborValues, CborTypes
    <3> QED
      BY <2>2, <3>1, <3>3, <3>4 DEF Matches, Formed
  <2>3. CASE R[a].field \in DOMAIN m /\ a \notin {"body", "details"}
    <3>1. R[a].bounded = FALSE /\ R[a].value # TRUE
      BY <1>1, <2>3 DEF RpcRules
    <3>2. R[a].value \in BOOLEAN
      BY <1>0, TablesAgree DEF Tables, SameForms, R
    <3> QED
      BY <1>2, <2>3, <3>1, <3>2
  <2> QED
    BY <2>1, <2>2, <2>3
<1> QED
  BY <1>5, <1>7, <1>8, <1>9 DEF o

\* Neither end refuses what the other takes: an object passes the sender's validate
\* exactly when the receiver's decode takes its message, for every object that the
\* attributes' Rust types can hold, of the nine schemas and the RPC messages.
THEOREM SenderAndReceiverAgree == SchemaSpec => []EndsAgree
<1>1. SchemaInv => EndsAgree
  <2> SUFFICES ASSUME SchemaInv, NEW k \in Kinds, HasRustTypes(k, message)
               PROVE  validate(k, FromCbor(k, message)) <=> decode_as(k, message)
    BY DEF EndsAgree
  <2>1. CASE k \in RpcKinds
    BY <2>1, RpcEndsAgree DEF SchemaInv
  <2>2. CASE k \notin RpcKinds
    <3>1. to_cbor(k, FromCbor(k, message)) = message
      BY RustTypesAreReadable, RoundTrip DEF SchemaInv
    <3>2. validate(k, FromCbor(k, message)) <=>
             from_cbor(k, message) /\ Validates(k, FromCbor(k, message))
      BY <2>2, <3>1 DEF validate
    <3>3. CASE k \in {"PlanManifest", "LifecycleEvent", "Receipt", "EnrollmentStatement",
                      "ServiceKeyset"}
      BY <3>2, <3>3 DEF decode_as
    <3>4. CASE k \notin {"PlanManifest", "LifecycleEvent", "Receipt", "EnrollmentStatement",
                         "ServiceKeyset"}
      BY <3>2, <3>4 DEF decode_as, Validates
    <3> QED
      BY <3>3, <3>4
  <2> QED
    BY <2>1, <2>2
<1> QED
  BY <1>1, SchemaStart, SchemaStep, PTL DEF SchemaSpec

-----------------------------------------------------------------------------
(* No message is of two kinds.  Most kinds differ in how many fields they   *)
(* require and know; the others in the type or the code of one field.       *)

LastRequired ==
  [Request |-> 17, ApprovalContext |-> 11, DecisionSubmission |-> 6, PlanManifest |-> 8,
   LifecycleEvent |-> 9, Receipt |-> 12, EnrollmentStatement |-> 11, ServiceKeyset |-> 6,
   RevocationEvent |-> 7, RpcRequest |-> 5, RpcResponse |-> 5, RpcFailure |-> 6]

LastKnown ==
  [Request |-> 18, ApprovalContext |-> 11, DecisionSubmission |-> 7, PlanManifest |-> 8,
   LifecycleEvent |-> 10, Receipt |-> 12, EnrollmentStatement |-> 11, ServiceKeyset |-> 6,
   RevocationEvent |-> 7, RpcRequest |-> 5, RpcResponse |-> 5, RpcFailure |-> 7]

Requires(R, f) == \E a \in DOMAIN R : R[a].field = f /\ R[a].optional = FALSE

LEMMA LastFields ==
  ASSUME NEW k \in Kinds
  PROVE  Requires(ReadsOf[k], LastRequired[k]) /\ known[k] = 1..LastKnown[k]
<1>1. Requires(ReadsOf["Request"], LastRequired["Request"])
  <2>1. "frozen_plan" \in DOMAIN RequestReads
    BY DEF RequestReads
  <2>2. LET r == RequestReads["frozen_plan"] IN r.field = 17 /\ r.optional = FALSE
    BY ReaderRules DEF RequestReads, IsRule, digest_field
  <2> QED BY <2>1, <2>2 DEF Requires, ReadsOf, LastRequired
<1>2. Requires(ReadsOf["ApprovalContext"], LastRequired["ApprovalContext"])
  <2>1. "expires_utc" \in DOMAIN ApprovalContextReads
    BY DEF ApprovalContextReads
  <2>2. LET r == ApprovalContextReads["expires_utc"] IN r.field = 11 /\ r.optional = FALSE
    BY ReaderRules DEF ApprovalContextReads, IsRule, digest_field
  <2> QED BY <2>1, <2>2 DEF Requires, ReadsOf, LastRequired
<1>3. Requires(ReadsOf["DecisionSubmission"], LastRequired["DecisionSubmission"])
  <2>1. "signature" \in DOMAIN DecisionSubmissionReads
    BY DEF DecisionSubmissionReads
  <2>2. LET r == DecisionSubmissionReads["signature"] IN r.field = 6 /\ r.optional = FALSE
    BY ReaderRules DEF DecisionSubmissionReads, IsRule, digest_field
  <2> QED BY <2>1, <2>2 DEF Requires, ReadsOf, LastRequired
<1>4. Requires(ReadsOf["PlanManifest"], LastRequired["PlanManifest"])
  <2>1. "prestate_observation" \in DOMAIN PlanManifestReads
    BY DEF PlanManifestReads
  <2>2. LET r == PlanManifestReads["prestate_observation"] IN r.field = 8 /\ r.optional = FALSE
    BY ReaderRules DEF PlanManifestReads, IsRule, digest_field
  <2> QED BY <2>1, <2>2 DEF Requires, ReadsOf, LastRequired
<1>5. Requires(ReadsOf["LifecycleEvent"], LastRequired["LifecycleEvent"])
  <2>1. "detail_code" \in DOMAIN LifecycleEventReads
    BY DEF LifecycleEventReads
  <2>2. LET r == LifecycleEventReads["detail_code"] IN r.field = 9 /\ r.optional = FALSE
    BY ReaderRules DEF LifecycleEventReads, IsRule, digest_field
  <2> QED BY <2>1, <2>2 DEF Requires, ReadsOf, LastRequired
<1>6. Requires(ReadsOf["Receipt"], LastRequired["Receipt"])
  <2>1. "broker_epoch" \in DOMAIN ReceiptReads
    BY DEF ReceiptReads
  <2>2. LET r == ReceiptReads["broker_epoch"] IN r.field = 12 /\ r.optional = FALSE
    BY ReaderRules DEF ReceiptReads, IsRule, digest_field
  <2> QED BY <2>1, <2>2 DEF Requires, ReadsOf, LastRequired
<1>7. Requires(ReadsOf["EnrollmentStatement"], LastRequired["EnrollmentStatement"])
  <2>1. "expires_utc" \in DOMAIN EnrollmentStatementReads
    BY DEF EnrollmentStatementReads
  <2>2. LET r == EnrollmentStatementReads["expires_utc"] IN r.field = 11 /\ r.optional = FALSE
    BY ReaderRules DEF EnrollmentStatementReads, IsRule, digest_field
  <2> QED BY <2>1, <2>2 DEF Requires, ReadsOf, LastRequired
<1>8. Requires(ReadsOf["ServiceKeyset"], LastRequired["ServiceKeyset"])
  <2>1. "expires_utc" \in DOMAIN ServiceKeysetReads
    BY DEF ServiceKeysetReads
  <2>2. LET r == ServiceKeysetReads["expires_utc"] IN r.field = 6 /\ r.optional = FALSE
    BY ReaderRules DEF ServiceKeysetReads, IsRule, digest_field
  <2> QED BY <2>1, <2>2 DEF Requires, ReadsOf, LastRequired
<1>9. Requires(ReadsOf["RevocationEvent"], LastRequired["RevocationEvent"])
  <2>1. "reason_code" \in DOMAIN RevocationEventReads
    BY DEF RevocationEventReads
  <2>2. LET r == RevocationEventReads["reason_code"] IN r.field = 7 /\ r.optional = FALSE
    BY ReaderRules DEF RevocationEventReads, IsRule, digest_field
  <2> QED BY <2>1, <2>2 DEF Requires, ReadsOf, LastRequired
<1>10. Requires(ReadsOf["RpcRequest"], LastRequired["RpcRequest"])
  <2>1. "body" \in DOMAIN RpcRequestReads
    BY DEF RpcRequestReads
  <2>2. LET r == RpcRequestReads["body"] IN r.field = 5 /\ r.optional = FALSE
    BY ReaderRules DEF RpcRequestReads, IsRule, digest_field
  <2> QED BY <2>1, <2>2 DEF Requires, ReadsOf, LastRequired
<1>11. Requires(ReadsOf["RpcResponse"], LastRequired["RpcResponse"])
  <2>1. "body" \in DOMAIN RpcResponseReads
    BY DEF RpcResponseReads, RpcRequestReads
  <2>2. LET r == RpcResponseReads["body"] IN r.field = 5 /\ r.optional = FALSE
    BY ReaderRules DEF RpcResponseReads, IsRule, digest_field, RpcRequestReads
  <2> QED BY <2>1, <2>2 DEF Requires, ReadsOf, LastRequired
<1>12. Requires(ReadsOf["RpcFailure"], LastRequired["RpcFailure"])
  <2>1. "retryable" \in DOMAIN RpcFailureReads
    BY DEF RpcFailureReads
  <2>2. LET r == RpcFailureReads["retryable"] IN r.field = 6 /\ r.optional = FALSE
    BY ReaderRules DEF RpcFailureReads, IsRule, digest_field
  <2> QED BY <2>1, <2>2 DEF Requires, ReadsOf, LastRequired
<1>13. Requires(ReadsOf[k], LastRequired[k])
  BY <1>1, <1>2, <1>3, <1>4, <1>5, <1>6, <1>7, <1>8, <1>9, <1>10, <1>11, <1>12
  DEF Kinds, ReadsOf
<1>14. known[k] = 1..LastKnown[k]
  <2>1. known["Request"] = 1..LastKnown["Request"] BY DEF known, LastKnown
  <2>2. known["ApprovalContext"] = 1..LastKnown["ApprovalContext"] BY DEF known, LastKnown
  <2>3. known["DecisionSubmission"] = 1..LastKnown["DecisionSubmission"] BY DEF known, LastKnown
  <2>4. known["PlanManifest"] = 1..LastKnown["PlanManifest"] BY DEF known, LastKnown
  <2>5. known["LifecycleEvent"] = 1..LastKnown["LifecycleEvent"] BY DEF known, LastKnown
  <2>6. known["Receipt"] = 1..LastKnown["Receipt"] BY DEF known, LastKnown
  <2>7. known["EnrollmentStatement"] = 1..LastKnown["EnrollmentStatement"] BY DEF known, LastKnown
  <2>8. known["ServiceKeyset"] = 1..LastKnown["ServiceKeyset"] BY DEF known, LastKnown
  <2>9. known["RevocationEvent"] = 1..LastKnown["RevocationEvent"] BY DEF known, LastKnown
  <2>10. known["RpcRequest"] = 1..LastKnown["RpcRequest"] BY DEF known, LastKnown
  <2>11. known["RpcResponse"] = 1..LastKnown["RpcResponse"] BY DEF known, LastKnown
  <2>12. known["RpcFailure"] = 1..LastKnown["RpcFailure"] BY DEF known, LastKnown
  <2> QED
    BY <2>1, <2>2, <2>3, <2>4, <2>5, <2>6, <2>7, <2>8, <2>9, <2>10, <2>11, <2>12
    DEF Kinds, ReadsOf
<1> QED
  BY <1>13, <1>14

LEMMA Extent ==
  ASSUME NEW k \in Kinds, NEW m, from_cbor(k, m)
  PROVE  LastRequired[k] \in DOMAIN m /\ DOMAIN m \subseteq 1..LastKnown[k]
<1>1. PICK a \in DOMAIN ReadsOf[k] :
        ReadsOf[k][a].field = LastRequired[k] /\ ReadsOf[k][a].optional = FALSE
  BY LastFields DEF Requires
<1>2. LastRequired[k] \in DOMAIN m
  BY <1>1 DEF from_cbor
<1>3. DOMAIN m \subseteq 1..LastKnown[k]
  BY LastFields DEF from_cbor, reject_unknown
<1> QED
  BY <1>2, <1>3

Near == {{"ApprovalContext", "EnrollmentStatement"}, {"RpcRequest", "RpcResponse"},
         {"DecisionSubmission", "RevocationEvent", "ServiceKeyset", "RpcFailure"}}

\* Only kinds of about the same size can share a message.
LEMMA NearKinds ==
  ASSUME NEW j \in Kinds, NEW k \in Kinds, j # k,
         LastRequired[j] <= LastKnown[k], LastRequired[k] <= LastKnown[j]
  PROVE  \E N \in Near : j \in N /\ k \in N
BY DEF Kinds, ReadsOf, LastRequired, LastKnown, Near

LEMMA RequiredField ==
  ASSUME NEW k \in Kinds, NEW m, from_cbor(k, m), NEW a \in DOMAIN ReadsOf[k],
         ReadsOf[k][a].optional = FALSE
  PROVE  Matches(ReadsOf[k][a], m[ReadsOf[k][a].field])
BY DEF from_cbor

\* The field that tells each kind from those of its size.
LEMMA TellingFields ==
  ASSUME NEW m
  PROVE  /\ from_cbor("ApprovalContext", m) => m[4].t = "uint"
         /\ from_cbor("EnrollmentStatement", m) => m[4].t = "bytes"
         /\ from_cbor("DecisionSubmission", m) => m[2].t = "map"
         /\ from_cbor("RevocationEvent", m) => m[2].t = "bytes"
         /\ from_cbor("ServiceKeyset", m) => m[2].t = "uint" /\ m[3].t \in {"uint", "nint"}
         /\ from_cbor("RpcFailure", m) => m[2].t = "uint" /\ m[3].t = "bytes"
         /\ from_cbor("RpcRequest", m) => m[2].n = 1
         /\ from_cbor("RpcResponse", m) => m[2].n = 2
<1>1. ASSUME from_cbor("ApprovalContext", m) PROVE m[4].t \in {"uint"}
  <2>1. LET r == ReadsOf["ApprovalContext"]["broker_epoch"] IN
        r.field = 4 /\ r.types = {"uint"} /\ r.optional = FALSE
    BY ReaderRules DEF ReadsOf, ApprovalContextReads, IsRule, digest_field
  <2>2. "ApprovalContext" \in Kinds /\ "broker_epoch" \in DOMAIN ReadsOf["ApprovalContext"]
    BY DEF Kinds, ReadsOf, ApprovalContextReads
  <2> QED BY <1>1, <2>1, <2>2, RequiredField DEF Matches
<1>2. ASSUME from_cbor("EnrollmentStatement", m) PROVE m[4].t \in {"bytes"}
  <2>1. LET r == ReadsOf["EnrollmentStatement"]["broker_pubkey"] IN
        r.field = 4 /\ r.types = {"bytes"} /\ r.optional = FALSE
    BY ReaderRules DEF ReadsOf, EnrollmentStatementReads, IsRule, digest_field
  <2>2. "EnrollmentStatement" \in Kinds /\ "broker_pubkey" \in DOMAIN ReadsOf["EnrollmentStatement"]
    BY DEF Kinds, ReadsOf, EnrollmentStatementReads
  <2> QED BY <1>2, <2>1, <2>2, RequiredField DEF Matches
<1>3. ASSUME from_cbor("DecisionSubmission", m) PROVE m[2].t \in {"map"}
  <2>1. LET r == ReadsOf["DecisionSubmission"]["approval_context"] IN
        r.field = 2 /\ r.types = {"map"} /\ r.optional = FALSE
    BY ReaderRules DEF ReadsOf, DecisionSubmissionReads, IsRule, digest_field
  <2>2. "DecisionSubmission" \in Kinds /\ "approval_context" \in DOMAIN ReadsOf["DecisionSubmission"]
    BY DEF Kinds, ReadsOf, DecisionSubmissionReads
  <2> QED BY <1>3, <2>1, <2>2, RequiredField DEF Matches
<1>4. ASSUME from_cbor("RevocationEvent", m) PROVE m[2].t \in {"bytes"}
  <2>1. LET r == ReadsOf["RevocationEvent"]["device_id"] IN
        r.field = 2 /\ r.types = {"bytes"} /\ r.optional = FALSE
    BY ReaderRules DEF ReadsOf, RevocationEventReads, IsRule, digest_field
  <2>2. "RevocationEvent" \in Kinds /\ "device_id" \in DOMAIN ReadsOf["RevocationEvent"]
    BY DEF Kinds, ReadsOf, RevocationEventReads
  <2> QED BY <1>4, <2>1, <2>2, RequiredField DEF Matches
<1>5. ASSUME from_cbor("ServiceKeyset", m) PROVE m[2].t \in {"uint"}
  <2>1. LET r == ReadsOf["ServiceKeyset"]["keyset_version"] IN
        r.field = 2 /\ r.types = {"uint"} /\ r.optional = FALSE
    BY ReaderRules DEF ReadsOf, ServiceKeysetReads, IsRule, digest_field
  <2>2. "ServiceKeyset" \in Kinds /\ "keyset_version" \in DOMAIN ReadsOf["ServiceKeyset"]
    BY DEF Kinds, ReadsOf, ServiceKeysetReads
  <2> QED BY <1>5, <2>1, <2>2, RequiredField DEF Matches
<1>6. ASSUME from_cbor("ServiceKeyset", m) PROVE m[3].t \in {"uint", "nint"}
  <2>1. LET r == ReadsOf["ServiceKeyset"]["issued_utc"] IN
        r.field = 3 /\ r.types = {"uint", "nint"} /\ r.optional = FALSE
    BY ReaderRules DEF ReadsOf, ServiceKeysetReads, IsRule, digest_field
  <2>2. "ServiceKeyset" \in Kinds /\ "issued_utc" \in DOMAIN ReadsOf["ServiceKeyset"]
    BY DEF Kinds, ReadsOf, ServiceKeysetReads
  <2> QED BY <1>6, <2>1, <2>2, RequiredField DEF Matches
<1>7. ASSUME from_cbor("RpcFailure", m) PROVE m[2].t \in {"uint"}
  <2>1. LET r == ReadsOf["RpcFailure"]["kind"] IN
        r.field = 2 /\ r.types = {"uint"} /\ r.optional = FALSE
    BY ReaderRules DEF ReadsOf, RpcFailureReads, IsRule, digest_field, MessageKind, Method
  <2>2. "RpcFailure" \in Kinds /\ "kind" \in DOMAIN ReadsOf["RpcFailure"]
    BY DEF Kinds, ReadsOf, RpcFailureReads
  <2> QED BY <1>7, <2>1, <2>2, RequiredField DEF Matches
<1>8. ASSUME from_cbor("RpcFailure", m) PROVE m[3].t \in {"bytes"}
  <2>1. LET r == ReadsOf["RpcFailure"]["correlation_id"] IN
        r.field = 3 /\ r.types = {"bytes"} /\ r.optional = FALSE
    BY ReaderRules DEF ReadsOf, RpcFailureReads, IsRule, digest_field, MessageKind, Method
  <2>2. "RpcFailure" \in Kinds /\ "correlation_id" \in DOMAIN ReadsOf["RpcFailure"]
    BY DEF Kinds, ReadsOf, RpcFailureReads
  <2> QED BY <1>8, <2>1, <2>2, RequiredField DEF Matches
<1>9. ASSUME from_cbor("RpcRequest", m) PROVE m[2].n = 1
  <2>1. LET r == ReadsOf["RpcRequest"]["kind"] IN
        r.field = 2 /\ r.types = {"uint"} /\ r.optional = FALSE /\ r.lo = 1 /\ r.hi = 1
    BY ReaderRules DEF ReadsOf, RpcRequestReads, IsRule, digest_field, MessageKind, Method
  <2>2. "RpcRequest" \in Kinds /\ "kind" \in DOMAIN ReadsOf["RpcRequest"]
    BY DEF Kinds, ReadsOf, RpcRequestReads
  <2>3. Matches(ReadsOf["RpcRequest"]["kind"], m[2])
    BY <1>9, <2>1, <2>2, RequiredField
  <2>4. m[2].n \in 1..1
    BY <2>1, <2>3 DEF Matches
  <2> QED BY <2>4
<1>10. ASSUME from_cbor("RpcResponse", m) PROVE m[2].n = 2
  <2>1. LET r == ReadsOf["RpcResponse"]["kind"] IN
        r.field = 2 /\ r.types = {"uint"} /\ r.optional = FALSE /\ r.lo = 2 /\ r.hi = 2
    BY ReaderRules DEF ReadsOf, RpcResponseReads, IsRule, digest_field, RpcRequestReads, MessageKind, Method
  <2>2. "RpcResponse" \in Kinds /\ "kind" \in DOMAIN ReadsOf["RpcResponse"]
    BY DEF Kinds, ReadsOf, RpcResponseReads, RpcRequestReads
  <2>3. Matches(ReadsOf["RpcResponse"]["kind"], m[2])
    BY <1>10, <2>1, <2>2, RequiredField
  <2>4. m[2].n \in 2..2
    BY <2>1, <2>3 DEF Matches
  <2> QED BY <2>4
<1> QED
  BY <1>1, <1>2, <1>3, <1>4, <1>5, <1>6, <1>7, <1>8, <1>9, <1>10

LEMMA OneKindReads ==
  ASSUME NEW j \in Kinds, NEW k \in Kinds, NEW m, from_cbor(j, m), from_cbor(k, m)
  PROVE  j = k
<1> SUFFICES ASSUME j # k PROVE FALSE
  OBVIOUS
<1>1. /\ LastRequired[j] \in 1..LastKnown[k]
      /\ LastRequired[k] \in 1..LastKnown[j]
  BY Extent
<1>2. LastRequired[j] <= LastKnown[k] /\ LastRequired[k] <= LastKnown[j]
  BY <1>1
<1>3. PICK N \in Near : j \in N /\ k \in N
  BY <1>2, NearKinds
<1>4. CASE N = {"ApprovalContext", "EnrollmentStatement"}
  BY <1>3, <1>4, TellingFields
<1>5. CASE N = {"RpcRequest", "RpcResponse"}
  BY <1>3, <1>5, TellingFields
<1>6. CASE N = {"DecisionSubmission", "RevocationEvent", "ServiceKeyset", "RpcFailure"}
  BY <1>3, <1>6, TellingFields
<1> QED
  BY <1>4, <1>5, <1>6 DEF Near

\* A message is of one kind: whatever the fields, at most one of the twelve decoders
\* takes it, so nothing signed or hashed as one object passes for another.
THEOREM OneKindOnly == SchemaSpec => []OneKind
<1>1. OneKind
  <2> DEFINE T == {k \in Kinds : decode_as(k, message)}
  <2>1. \A j, k \in T : j = k
    BY OneKindReads DEF decode_as
  <2>2. CASE T = {}
    <3>1. Cardinality(T) = 0
      BY <2>2, FS_EmptySet
    <3> QED BY <3>1 DEF OneKind
  <2>3. CASE T # {}
    <3>1. PICK k \in T : T = {k}
      BY <2>1, <2>3
    <3> HIDE DEF T
    <3>2. Cardinality(T) = 1
      BY <3>1, FS_Singleton
    <3> QED BY <3>2 DEF OneKind, T
  <2> QED BY <2>2, <2>3
<1> QED
  BY <1>1, PTL

-----------------------------------------------------------------------------
(* Bytes: heads, scalars and the order of map keys.                         *)

LEMMA NumberIsSeq ==
  ASSUME NEW n \in Numbers
  PROVE  n \in Seq(Bytes) /\ Len(n) = 8 /\ \A i \in 1..8 : n[i] \in Bytes
<1>1. n \in [1..8 -> Bytes]
  BY DEF Numbers
<1>2. n \in Seq(Bytes)
  <2>1. 8 \in Nat
    OBVIOUS
  <2>2. n \in UNION {[1..k -> Bytes] : k \in Nat}
    BY <1>1, <2>1, Zenon
  <2> QED
    BY <2>2, SeqDef, Zenon
<1> QED
  BY <1>1, <1>2

LEMMA BytesAreNat == \A x \in Bytes : x \in Nat /\ x <= 255
BY DEF Bytes

LEMMA HeadWidths ==
  ASSUME NEW n \in Numbers
  PROVE  /\ HeadWidth(n) \in {0, 1, 2, 4, 8}
         /\ HeadWidth(n) = 0 => High(n, 7) /\ n[8] <= 23
         /\ HeadWidth(n) # 0 => High(n, 8 - HeadWidth(n)) /\ Minimal(n, HeadWidth(n))
<1>1. n[8] \in Int
  BY DEF Numbers, Bytes
<1>2. High(n, 0)
  BY DEF High
<1> DEFINE a == High(n, 7)
           b == High(n, 6)
           c == High(n, 4)
<1>3. HeadWidth(n) = IF a THEN IF n[8] <= 23 THEN 0 ELSE 1 ELSE IF b THEN 2 ELSE IF c THEN 4 ELSE 8
  BY DEF HeadWidth
<1>4. CASE a
  BY <1>1, <1>3, <1>4 DEF Minimal
<1>5. CASE ~a /\ b
  BY <1>3, <1>5 DEF Minimal
<1>6. CASE ~a /\ ~b /\ c
  BY <1>3, <1>6 DEF Minimal
<1>7. CASE ~a /\ ~b /\ ~c
  BY <1>2, <1>3, <1>7 DEF Minimal
<1> QED
  BY <1>4, <1>5, <1>6, <1>7

\* A number has one width at which it is minimal.
LEMMA OneWidth ==
  ASSUME NEW n \in Numbers, NEW w \in {1, 2, 4, 8}, High(n, 8 - w), Minimal(n, w)
  PROVE  HeadWidth(n) = w
<1>1. n[8] \in Int
  BY DEF Numbers, Bytes
<1>2. \A j, k \in 0..8 : j <= k /\ High(n, k) => High(n, j)
  BY DEF High
<1>3. CASE w = 1
  BY <1>1, <1>3 DEF HeadWidth, Minimal
<1>4. CASE w = 2
  BY <1>4 DEF HeadWidth, Minimal
<1>5. CASE w = 4
  BY <1>2, <1>5 DEF HeadWidth, Minimal
<1>6. CASE w = 8
  BY <1>2, <1>6 DEF HeadWidth, Minimal
<1> QED
  BY <1>3, <1>4, <1>5, <1>6

LEMMA HeadBytes ==
  ASSUME NEW n \in Numbers, NEW major \in 0..7
  PROVE  LET h == write_head(major, n)
             w == HeadWidth(n)
         IN  /\ h \in Seq(Bytes) /\ Len(h) = w + 1
             /\ h[1] = 32 * major + (IF w = 0 THEN n[8] ELSE Announces(w))
             /\ \A i \in 2..(w + 1) : h[i] = n[7 - w + i]
<1> DEFINE w == HeadWidth(n)
           first == 32 * major + Announces(w)
           tail == SubSeq(n, 9 - w, 8)
<1>1. n \in Seq(Bytes) /\ Len(n) = 8 /\ \A i \in 1..8 : n[i] \in Bytes
  BY NumberIsSeq
<1>2. CASE w = 0
  <2>1. n[8] <= 23
    BY HeadWidths, <1>2
  <2>2. n[8] \in 0..23
    <3>1. n[8] \in 0..255
      BY <1>1 DEF Bytes
    <3> QED
      BY <2>1, <3>1
  <2>3. 32 * major + n[8] \in Bytes
    BY <2>2 DEF Bytes
  <2> QED
    BY <1>2, <2>3 DEF write_head
<1>3. CASE w # 0
  <2>1. w \in {1, 2, 4, 8}
    BY HeadWidths, <1>3
  <2>2. first \in Bytes
    BY <2>1 DEF Announces, Bytes
  <2>3. tail \in Seq(Bytes) /\ Len(tail) = w /\ \A i \in 1..w : tail[i] = n[8 - w + i]
    BY <1>1, <2>1
  <2>4. write_head(major, n) = <<first>> \o tail
    BY <1>3 DEF write_head
  <2>5. <<first>> \in Seq(Bytes) /\ Len(<<first>>) = 1
    BY <2>2
  <2> HIDE DEF first, tail, w
  <2>6. /\ <<first>> \o tail \in Seq(Bytes) /\ Len(<<first>> \o tail) = w + 1
        /\ (<<first>> \o tail)[1] = first
        /\ \A i \in 2..(w + 1) : (<<first>> \o tail)[i] = tail[i - 1]
    BY <2>1, <2>3, <2>5
  <2>7. \A i \in 2..(w + 1) : tail[i - 1] = n[7 - w + i]
    BY <2>1, <2>3
  <2> QED
    BY <1>3, <2>4, <2>6, <2>7 DEF first, w
<1> QED
  BY <1>2, <1>3

LEMMA WidenedBytes ==
  ASSUME NEW s \in Seq(Bytes), NEW w \in {1, 2, 4, 8}, Len(s) = w
  PROVE  /\ Widened(s) \in Numbers
         /\ High(Widened(s), 8 - w)
         /\ \A i \in 1..w : Widened(s)[8 - w + i] = s[i]
<1>1. \A i \in 1..w : s[i] \in Bytes
  OBVIOUS
<1>2. \A i \in 1..8 : i <= 8 - w \/ i - 8 + w \in 1..w
  OBVIOUS
<1>3. 0 \in Bytes
  BY DEF Bytes
<1>4. Widened(s) = [i \in 1..8 |-> IF i <= 8 - w THEN 0 ELSE s[i - 8 + w]]
  BY DEF Widened
<1>5. Widened(s) \in Numbers
  BY <1>1, <1>2, <1>3, <1>4 DEF Numbers
<1>6. High(Widened(s), 8 - w)
  BY <1>4 DEF High
<1>7. ASSUME NEW i \in 1..w PROVE Widened(s)[8 - w + i] = s[i]
  <2>1. 8 - w + i \in 1..8 /\ ~(8 - w + i <= 8 - w) /\ (8 - w + i) - 8 + w = i
    OBVIOUS
  <2> QED
    BY <1>4, <2>1
<1> QED
  BY <1>5, <1>6, <1>7

\* The bytes of a number give the number back.
LEMMA WidenedTail ==
  ASSUME NEW n \in Numbers, NEW w \in {1, 2, 4, 8}, High(n, 8 - w),
         NEW s \in Seq(Bytes), Len(s) = w, \A i \in 1..w : s[i] = n[8 - w + i]
  PROVE  Widened(s) = n
<1>1. Widened(s) = [i \in 1..8 |-> IF i <= 8 - w THEN 0 ELSE s[i - 8 + w]]
  BY DEF Widened
<1>2. n = [i \in 1..8 |-> n[i]]
  BY DEF Numbers
<1>3. ASSUME NEW i \in 1..8 PROVE n[i] = IF i <= 8 - w THEN 0 ELSE s[i - 8 + w]
  <2>1. CASE i <= 8 - w
    BY <2>1 DEF High
  <2>2. CASE ~(i <= 8 - w)
    <3>1. i - 8 + w \in 1..w /\ 8 - w + (i - 8 + w) = i
      BY <2>2
    <3> QED
      BY <2>2, <3>1
  <2> QED
    BY <2>1, <2>2
<1> QED
  BY <1>1, <1>2, <1>3

LEMMA InfinityIs == Infinity = 256 * 256 * 256
BY DEF Infinity

LEMMA InfinityIsInt == Infinity \in Int
BY DEF Infinity

LEMMA BelowInfinity == \A k \in Nat : k <= 255 => k \in 0..(Infinity - 1)
<1>1. Infinity \in Int /\ Infinity > 255
  BY DEF Infinity
<1> QED
  BY <1>1

LEMMA SmallNumbers ==
  ASSUME NEW k \in 0..(Infinity - 1)
  PROVE  /\ U64(k) \in Numbers /\ High(U64(k), 5) /\ AsLength(U64(k)) = k
         /\ k <= 23 => HeadWidth(U64(k)) = 0 /\ U64(k)[8] = k
<1> DEFINE s == <<(k \div 256) \div 256, (k \div 256) % 256, k % 256>>
           n == [i \in 1..8 |-> IF i <= 5 THEN 0 ELSE s[i - 5]]
<1>1. /\ (k \div 256) \div 256 \in 0..255 /\ (k \div 256) % 256 \in 0..255 /\ k % 256 \in 0..255
      /\ 256 * (256 * ((k \div 256) \div 256) + ((k \div 256) % 256)) + (k % 256) = k
      /\ k <= 23 => (k \div 256) \div 256 = 0 /\ (k \div 256) % 256 = 0 /\ k % 256 = k
  <2>1. \A q \in Nat : /\ q \div 256 \in Nat /\ q % 256 \in 0..255
                       /\ q = 256 * (q \div 256) + (q % 256)
    OBVIOUS
  <2>2. k \in Nat /\ k < 256 * 256 * 256
    <3>1. k \in Nat /\ k < Infinity
      BY InfinityIsInt
    <3> QED
      BY <3>1, InfinityIs, Zenon
  <2>3. (k \div 256) \div 256 \in 0..255
    BY <2>1, <2>2
  <2>4. k <= 23 => k \div 256 = 0
    BY <2>2
  <2>5. k <= 23 => (k \div 256) \div 256 = 0 /\ (k \div 256) % 256 = 0 /\ k % 256 = k
    BY <2>1, <2>2, <2>4
  <2> QED
    BY <2>1, <2>2, <2>3, <2>5
<1>2. Len(s) = 3 /\ s[1] = (k \div 256) \div 256 /\ s[2] = (k \div 256) % 256 /\ s[3] = k % 256
  OBVIOUS
<1>3. U64(k) = n
  <2>1. \A i \in 1..8 : i - 8 + Len(s) = i - 5 /\ (i <= 8 - Len(s) <=> i <= 5)
    BY <1>2
  <2> HIDE DEF s
  <2>2. U64(k) = [i \in 1..8 |-> IF i <= 8 - Len(s) THEN 0 ELSE s[i - 8 + Len(s)]]
    BY DEF U64, Widened, s
  <2> QED
    BY <2>1, <2>2
<1> HIDE DEF s
<1>4. /\ n[6] = (k \div 256) \div 256 /\ n[7] = (k \div 256) % 256 /\ n[8] = k % 256
      /\ \A i \in 1..5 : n[i] = 0
  BY <1>2
<1>5. n \in Numbers
  <2>1. \A i \in 1..8 : n[i] \in Bytes
    <3>1. \A i \in 1..8 : i \in 1..5 \/ i = 6 \/ i = 7 \/ i = 8
      OBVIOUS
    <3> QED
      BY <1>1, <1>4, <3>1 DEF Bytes
  <2> QED
    BY <2>1 DEF Numbers
<1> HIDE DEF n
<1>6. High(n, 5) /\ AsLength(n) = k
  BY <1>1, <1>4 DEF High, AsLength
<1>7. ASSUME k <= 23 PROVE HeadWidth(n) = 0 /\ n[8] = k
  <2>1. n[6] = 0 /\ n[7] = 0 /\ n[8] = k
    BY <1>1, <1>4, <1>7
  <2>2. High(n, 7)
    <3>1. \A i \in 1..7 : i \in 1..5 \/ i = 6 \/ i = 7
      OBVIOUS
    <3> QED
      BY <1>4, <2>1, <3>1 DEF High
  <2> QED
    BY <1>7, <2>1, <2>2 DEF HeadWidth
<1> QED
  BY <1>3, <1>5, <1>6, <1>7

LEMMA LengthsAreNumbers ==
  ASSUME NEW n \in Numbers, High(n, 5)
  PROVE  AsLength(n) \in 0..(Infinity - 1) /\ U64(AsLength(n)) = n
<1> DEFINE k == AsLength(n)
           s == <<(k \div 256) \div 256, (k \div 256) % 256, k % 256>>
<1>1. n[6] \in Bytes /\ n[7] \in Bytes /\ n[8] \in Bytes
  BY DEF Numbers
<1> DEFINE Byte(x) == x \in Nat /\ x <= 255
<1>0. Byte(n[6]) /\ Byte(n[7]) /\ Byte(n[8])
  BY <1>1 DEF Bytes
<1>2. k = 256 * (256 * n[6] + n[7]) + n[8]
  BY DEF AsLength
<1>3. k \in 0..(Infinity - 1)
  <2>1. k \in Nat /\ k < 256 * 256 * 256
    BY <1>0, <1>2
  <2>2. Infinity \in Int /\ k < Infinity
    BY <2>1, InfinityIs
  <2> QED
    BY <2>1, <2>2
<1>4. (k \div 256) \div 256 = n[6] /\ (k \div 256) % 256 = n[7] /\ k % 256 = n[8]
  <2>1. \A x, y \in Nat : y <= 255 => (256 * x + y) \div 256 = x /\ (256 * x + y) % 256 = y
    OBVIOUS
  <2>2. k \div 256 = 256 * n[6] + n[7] /\ k % 256 = n[8]
    <3>1. 256 * n[6] + n[7] \in Nat
      BY <1>0
    <3> QED
      BY <1>0, <1>2, <2>1, <3>1
  <2> QED
    BY <1>0, <2>1, <2>2
<1>5. Len(s) = 3 /\ s[1] = n[6] /\ s[2] = n[7] /\ s[3] = n[8]
  BY <1>4
<1> HIDE DEF s, k
<1>6. U64(k) = [i \in 1..8 |-> IF i <= 5 THEN 0 ELSE s[i - 5]]
  <2>1. \A i \in 1..8 : i - 8 + Len(s) = i - 5 /\ (i <= 8 - Len(s) <=> i <= 5)
    BY <1>5
  <2>2. U64(k) = [i \in 1..8 |-> IF i <= 8 - Len(s) THEN 0 ELSE s[i - 8 + Len(s)]]
    BY DEF U64, Widened, s
  <2> QED
    BY <2>1, <2>2
<1>7. ASSUME NEW i \in 1..8 PROVE n[i] = IF i <= 5 THEN 0 ELSE s[i - 5]
  <2>1. i \in 1..5 \/ i = 6 \/ i = 7 \/ i = 8
    OBVIOUS
  <2>2. CASE i \in 1..5
    BY <2>2 DEF High
  <2>3. CASE i \in {6, 7, 8}
    BY <1>5, <2>3
  <2> QED
    BY <2>1, <2>2, <2>3
<1>8. n = [i \in 1..8 |-> n[i]]
  BY DEF Numbers
<1> QED
  BY <1>3, <1>6, <1>7, <1>8 DEF k

LEMMA Readings ==
  ASSUME NEW v, NEW at
  PROVE  /\ Reads(v, at).err = "ok" /\ Reads(v, at).v = v /\ Reads(v, at).at = at
         /\ \A e : Fails(e).err = e
         /\ \A x, to : Reads(v, at) = Reads(x, to) <=> v = x /\ at = to
BY DEF Reads, Fails

\* What follows an initial byte that announces bytes of a number.
LEMMA ArgumentFollows ==
  ASSUME NEW b \in Seq(Bytes), NEW p \in Nat, NEW w \in {1, 2, 4, 8}
  PROVE  LET s == SubSeq(b, p, p + w - 1)
             r == argument(b, p, Announces(w))
         IN  IF p + w - 1 <= Len(b) /\ Minimal(Widened(s), w)
               THEN r = Reads(Widened(s), p + w) ELSE r.err # "ok"
<1> DEFINE s == SubSeq(b, p, p + w - 1)
           a == Announces(w)
           t == take(b, p, w)
<1>1. a \in {24, 25, 26, 27} /\ ArgumentWidth(a) = w
  BY DEF Announces, ArgumentWidth
<1>2. argument(b, p, a) = IF t.err # "ok" THEN t
                          ELSE IF Minimal(Widened(t.v), w) THEN Reads(Widened(t.v), t.at)
                          ELSE Fails("NonCanonicalInteger")
  BY <1>1 DEF argument, Canonical
<1>3. t = IF p + w - 1 > Len(b) THEN Fails("UnexpectedEof") ELSE Reads(s, p + w)
  BY DEF take
<1> HIDE DEF s, a, t
<1>4. Fails("UnexpectedEof").err = "UnexpectedEof"
      /\ Fails("NonCanonicalInteger").err = "NonCanonicalInteger"
  BY Readings
<1>5. Len(b) \in Nat /\ p + w - 1 \in Int
  OBVIOUS
<1>6. CASE p + w - 1 > Len(b)
  <2>1. t.err # "ok"
    BY <1>3, <1>4, <1>6
  <2> QED
    BY <1>2, <1>5, <1>6, <2>1 DEF s, a
<1>7. CASE ~(p + w - 1 > Len(b))
  <2>1. t.err = "ok" /\ t.v = s /\ t.at = p + w
    BY <1>3, <1>7, Readings
  <2> QED
    BY <1>2, <1>4, <1>5, <1>7, <2>1 DEF s, a
<1> QED
  BY <1>6, <1>7

LEMMA ArgumentShort ==
  ASSUME NEW b, NEW p, NEW a \in 0..31
  PROVE  /\ a <= 23 => argument(b, p, a) = Reads(U64(a), p)
         /\ a > 27 => argument(b, p, a).err # "ok"
BY DEF argument, Canonical, Fails

\* A byte is its major type and its additional information.
LEMMA InitialByte ==
  ASSUME NEW x \in Bytes
  PROVE  /\ x \div 32 \in 0..7 /\ x % 32 \in 0..31 /\ x = 32 * (x \div 32) + (x % 32)
         /\ \A m \in 0..7, a \in 0..31 : x = 32 * m + a => m = x \div 32 /\ a = x % 32
<1>1. x \in Nat /\ x <= 255
  BY DEF Bytes
<1>2. \A y \in Nat : /\ y \div 32 \in Nat /\ y % 32 \in Nat /\ y % 32 <= 31
                      /\ y = 32 * (y \div 32) + (y % 32)
  OBVIOUS
<1>3. /\ x \div 32 \in Nat /\ x % 32 \in 0..31
      /\ x = 32 * (x \div 32) + (x % 32)
  BY <1>1, <1>2
<1>4. x \div 32 \in 0..7
  BY <1>1, <1>3
<1> QED
  BY <1>1, <1>3, <1>4

LEMMA SubSeqBytes ==
  ASSUME NEW b \in Seq(Bytes), NEW i \in Int, NEW j \in Int,
         1 <= i, i <= j + 1, j <= Len(b)
  PROVE  /\ SubSeq(b, i, j) \in Seq(Bytes) /\ Len(SubSeq(b, i, j)) = j - i + 1
         /\ \A k \in 1..(j - i + 1) : SubSeq(b, i, j)[k] = b[i + k - 1]
<1>1. \A k \in i..j : b[k] \in Bytes
  OBVIOUS
<1>2. /\ SubSeq(b, i, j) \in Seq(Bytes)
      /\ Len(SubSeq(b, i, j)) = IF i <= j THEN j - i + 1 ELSE 0
      /\ \A k \in 1 .. j - i + 1 : SubSeq(b, i, j)[k] = b[i + k - 1]
  BY <1>1, SubSeqProperties
<1> QED
  BY <1>2

\* What argument takes is what write_head writes.
LEMMA ReadHeadIsWritten ==
  ASSUME NEW b \in Seq(Bytes), NEW at \in 1..Len(b), NEW r,
         r = argument(b, at + 1, b[at] % 32), r.err = "ok"
  PROVE  /\ r.v \in Numbers /\ r.at \in (at + 1)..(Len(b) + 1) /\ r = Reads(r.v, r.at)
         /\ SubSeq(b, at, r.at - 1) = write_head(b[at] \div 32, r.v)
<1> DEFINE major == b[at] \div 32
           a == b[at] % 32
<1>1. b[at] \in Bytes
  OBVIOUS
<1>2. major \in 0..7 /\ a \in 0..31 /\ b[at] = 32 * major + a
  BY <1>1, InitialByte
<1> HIDE DEF major, a
<1>3. r = argument(b, at + 1, a) /\ at + 1 \in Nat /\ Len(b) \in Nat
  BY DEF a
<1>4. CASE a <= 23
  <2>1. r = Reads(U64(a), at + 1)
    BY <1>2, <1>3, <1>4, ArgumentShort
  <2>2. a \in 0..(Infinity - 1)
    <3>1. a \in Nat /\ a <= 255
      BY <1>2, <1>4
    <3> QED
      BY <3>1, BelowInfinity
  <2>3. r.v = U64(a) /\ r.at = at + 1 /\ r.v \in Numbers /\ HeadWidth(r.v) = 0 /\ r.v[8] = a
    BY <1>4, <2>1, <2>2, Readings, SmallNumbers
  <2>4. write_head(major, r.v) = <<b[at]>>
    BY <1>2, <2>3 DEF write_head
  <2>5. SubSeq(b, at, at) = <<b[at]>>
    <3>1. at - at + 1 = 1 /\ at + 1 - 1 = at /\ at \in Int /\ at <= at + 1 /\ at <= Len(b)
      OBVIOUS
    <3>2. /\ SubSeq(b, at, at) \in Seq(Bytes) /\ Len(SubSeq(b, at, at)) = 1
          /\ SubSeq(b, at, at)[1] = b[at]
      BY <3>1, SubSeqBytes
    <3>3. <<b[at]>> \in Seq(Bytes) /\ Len(<<b[at]>>) = 1 /\ <<b[at]>>[1] = b[at]
      BY <1>1
    <3>4. \A i \in 1..1 : SubSeq(b, at, at)[i] = <<b[at]>>[i]
      BY <3>2, <3>3
    <3> QED
      BY <3>2, <3>3, <3>4, SeqEqual
  <2>6. r.at - 1 = at /\ r.at \in (at + 1)..(Len(b) + 1)
    BY <1>3, <2>3
  <2>7. r = Reads(r.v, r.at)
    BY <2>1, <2>3, Zenon
  <2> QED
    BY <2>3, <2>4, <2>5, <2>6, <2>7 DEF major
<1>5. CASE ~(a <= 23)
  <2>1. a \in {24, 25, 26, 27}
    <3>1. ~(a > 27)
      BY <1>2, <1>3, ArgumentShort
    <3> QED
      BY <1>2, <1>5, <3>1
  <2>2. PICK w \in {1, 2, 4, 8} : a = Announces(w)
    BY <2>1 DEF Announces
  <2> DEFINE s == SubSeq(b, at + 1, at + w)
             n == Widened(s)
  <2>3. at + 1 + w - 1 = at + w
    OBVIOUS
  <2>4. at + w <= Len(b) /\ Minimal(n, w) /\ r = Reads(n, at + 1 + w)
    BY <1>3, <2>2, <2>3, ArgumentFollows
  <2>5. s \in Seq(Bytes) /\ Len(s) = w /\ \A i \in 1..w : s[i] = b[at + i]
    <3>1. at + 1 \in 1..Len(b) /\ at + w \in Int /\ at + w - (at + 1) + 1 = w
      BY <2>4
    <3>2. \A i \in 1..w : at + 1 + i - 1 = at + i
      OBVIOUS
    <3> QED
      BY <2>4, <3>1, <3>2, SubSeqBytes
  <2>6. n \in Numbers /\ High(n, 8 - w) /\ \A i \in 1..w : n[8 - w + i] = s[i]
    BY <2>5, WidenedBytes
  <2> HIDE DEF s, n
  <2>7. HeadWidth(n) = w
    BY <2>4, <2>6, OneWidth
  <2> DEFINE h == write_head(major, n)
  <2>8. /\ h \in Seq(Bytes) /\ Len(h) = w + 1 /\ h[1] = 32 * major + Announces(w)
        /\ \A i \in 2..(w + 1) : h[i] = n[7 - w + i]
    <3>1. w # 0
      OBVIOUS
    <3>2. /\ h \in Seq(Bytes) /\ Len(h) = HeadWidth(n) + 1
          /\ h[1] = 32 * major + (IF HeadWidth(n) = 0 THEN n[8] ELSE Announces(HeadWidth(n)))
          /\ \A i \in 2..(HeadWidth(n) + 1) : h[i] = n[7 - HeadWidth(n) + i]
      BY <1>2, <2>6, HeadBytes
    <3> HIDE DEF h
    <3> QED
      BY <2>7, <3>1, <3>2
  <2> HIDE DEF h
  <2> DEFINE t == SubSeq(b, at, at + w)
  <2>9. t \in Seq(Bytes) /\ Len(t) = w + 1 /\ \A i \in 1..(w + 1) : t[i] = b[at + i - 1]
    <3>1. at + w \in Int /\ at + w - at + 1 = w + 1 /\ at <= at + w + 1
      OBVIOUS
    <3> QED
      BY <2>4, <3>1, SubSeqBytes
  <2> HIDE DEF t
  <2>10. ASSUME NEW i \in 1..(w + 1) PROVE t[i] = h[i]
    <3>1. CASE i = 1
      BY <1>2, <2>2, <2>8, <2>9, <3>1
    <3>2. CASE i # 1
      <4>1. i - 1 \in 1..w /\ i \in 2..(w + 1) /\ 8 - w + (i - 1) = 7 - w + i
            /\ at + (i - 1) = at + i - 1
        BY <3>2
      <4>2. n[7 - w + i] = s[i - 1] /\ s[i - 1] = b[at + i - 1]
        BY <2>5, <2>6, <4>1
      <4> QED
        BY <2>8, <2>9, <4>1, <4>2
    <3> QED
      BY <3>1, <3>2
  <2>11. t = h
    BY <2>8, <2>9, <2>10, SeqEqual
  <2>12. r.v = n /\ r.at = at + 1 + w
    BY <2>4, Readings
  <2>13. r.at - 1 = at + w /\ r.at \in (at + 1)..(Len(b) + 1)
    BY <1>3, <2>4, <2>12
  <2> QED
    BY <2>4, <2>6, <2>11, <2>12, <2>13 DEF t, h, major
<1> QED
  BY <1>4, <1>5

\* What write_head wrote, wherever it stands, is what argument takes.
LEMMA WrittenHeadIsRead ==
  ASSUME NEW b \in Seq(Bytes), NEW at \in 1..Len(b), NEW n \in Numbers, NEW major \in 0..7,
         NEW to \in (at + 1)..(Len(b) + 1), SubSeq(b, at, to - 1) = write_head(major, n)
  PROVE  b[at] \div 32 = major /\ argument(b, at + 1, b[at] % 32) = Reads(n, to)
<1> DEFINE w == HeadWidth(n)
           h == write_head(major, n)
           a == IF w = 0 THEN n[8] ELSE Announces(w)
<1>1. /\ h \in Seq(Bytes) /\ Len(h) = w + 1 /\ h[1] = 32 * major + a
      /\ \A i \in 2..(w + 1) : h[i] = n[7 - w + i]
  BY HeadBytes
<1>2. /\ w \in {0, 1, 2, 4, 8}
      /\ w = 0 => High(n, 7) /\ n[8] <= 23
      /\ w # 0 => High(n, 8 - w) /\ Minimal(n, w)
  BY HeadWidths
<1> HIDE DEF w, h
<1>3. Len(b) \in Nat /\ to - 1 \in Int /\ at <= to /\ to - 1 <= Len(b)
  OBVIOUS
<1>4. Len(h) = to - at /\ \A i \in 1..(to - at) : h[i] = b[at + i - 1]
  <2>1. (to - 1) - at + 1 = to - at
    OBVIOUS
  <2> QED
    <3>1. /\ Len(SubSeq(b, at, to - 1)) = (to - 1) - at + 1
          /\ \A k \in 1..((to - 1) - at + 1) : SubSeq(b, at, to - 1)[k] = b[at + k - 1]
      <4>1. at <= (to - 1) + 1
        OBVIOUS
      <4> QED
        BY <1>3, <4>1, SubSeqBytes
    <3>2. SubSeq(b, at, to - 1) = h
      BY DEF h
    <3> QED
      BY <2>1, <3>1, <3>2
<1>5. to = at + w + 1
  BY <1>1, <1>2, <1>4
<1>6. \A i \in 1..(w + 1) : h[i] = b[at + i - 1]
  BY <1>1, <1>4
<1>7. n[8] \in Nat /\ b[at] \in Bytes
  <2>1. n[8] \in Bytes
    BY NumberIsSeq
  <2>2. n[8] \in Nat
    BY <2>1, BytesAreNat
  <2>3. b[at] \in Bytes
    OBVIOUS
  <2> QED
    BY <2>2, <2>3
<1>8. a \in 0..31
  <2>1. CASE w = 0
    <3>1. a = n[8] /\ a <= 23
      BY <1>2, <2>1
    <3>2. \A x \in Nat : x <= 23 => x \in 0..31
      OBVIOUS
    <3> QED
      BY <1>7, <3>1, <3>2, Zenon
  <2>2. CASE w \in {1, 2, 4, 8}
    BY <2>2 DEF Announces
  <2> QED
    BY <1>2, <2>1, <2>2
<1> HIDE DEF a
<1>9. b[at] \div 32 = major /\ b[at] % 32 = a
  <2>1. b[at] = 32 * major + a
    BY <1>1, <1>2, <1>6
  <2> QED
    <3>1. \A m \in 0..7, x \in 0..31 :
            b[at] = 32 * m + x => m = b[at] \div 32 /\ x = b[at] % 32
      BY <1>7, InitialByte
    <3> QED
      BY <1>8, <2>1, <3>1, Zenon
<1>10. CASE w = 0
  <2>1. a = n[8] /\ a <= 23
    BY <1>2, <1>10 DEF a
  <2>2. argument(b, at + 1, a) = Reads(U64(a), at + 1)
    BY <1>8, <2>1, ArgumentShort
  <2>3. High(n, 5) /\ n[6] = 0 /\ n[7] = 0
    BY <1>2, <1>10 DEF High
  <2>4. AsLength(n) = a
    BY <1>7, <2>1, <2>3 DEF AsLength
  <2>5. U64(a) = n
    BY <2>3, <2>4, LengthsAreNumbers
  <2> QED
    BY <1>5, <1>9, <1>10, <2>2, <2>5
<1>11. CASE w # 0
  <2>1. w \in {1, 2, 4, 8} /\ a = Announces(w) /\ at + 1 \in Nat
    BY <1>2, <1>11 DEF a
  <2> DEFINE s == SubSeq(b, at + 1, at + 1 + w - 1)
  <2>2. at + 1 + w - 1 = at + w /\ at + w <= Len(b) /\ at + 1 \in 1..Len(b)
    BY <1>3, <1>5, <2>1
  <2>3. s \in Seq(Bytes) /\ Len(s) = w /\ \A i \in 1..w : s[i] = b[at + i]
    <3>1. at + w \in Int /\ at + w - (at + 1) + 1 = w
      BY <2>1
    <3>2. \A i \in 1..w : at + 1 + i - 1 = at + i
      BY <2>1
    <3> QED
      BY <2>1, <2>2, <3>1, <3>2, SubSeqBytes
  <2> HIDE DEF s
  <2>4. ASSUME NEW i \in 1..w PROVE s[i] = n[8 - w + i]
    <3>1. i + 1 \in 2..(w + 1) /\ i + 1 \in 1..(w + 1) /\ 7 - w + (i + 1) = 8 - w + i
          /\ at + (i + 1) - 1 = at + i
      BY <2>1
    <3>2. h[i + 1] = n[8 - w + i] /\ h[i + 1] = b[at + i]
      BY <1>1, <1>6, <3>1
    <3> QED
      BY <2>3, <3>2
  <2>5. Widened(s) = n
    BY <1>2, <1>11, <2>1, <2>3, <2>4, WidenedTail
  <2>6. argument(b, at + 1, a) = Reads(Widened(s), at + 1 + w)
    BY <1>2, <1>11, <2>1, <2>2, <2>5, ArgumentFollows DEF s
  <2> QED
    BY <1>5, <1>9, <2>1, <2>5, <2>6
<1> QED
  BY <1>10, <1>11

\* Hazard: integers and lengths at the bounds of their head forms.  A number has
\* one head: the parser takes a byte string at a position for the head of a number
\* exactly when write_head writes these bytes for it, for all 64-bit numbers, all
\* major types and whatever surrounds them (argument, write_head).
THEOREM OneHead ==
  ASSUME NEW b \in Seq(Bytes), NEW at \in 1..Len(b), NEW n \in Numbers, NEW to \in Nat
  PROVE  argument(b, at + 1, b[at] % 32) = Reads(n, to)
           <=> /\ to \in (at + 1)..(Len(b) + 1)
               /\ SubSeq(b, at, to - 1) = write_head(b[at] \div 32, n)
<1>1. ASSUME argument(b, at + 1, b[at] % 32) = Reads(n, to)
      PROVE  to \in (at + 1)..(Len(b) + 1) /\ SubSeq(b, at, to - 1) = write_head(b[at] \div 32, n)
  BY <1>1, Readings, ReadHeadIsWritten
<1>2. b[at] \div 32 \in 0..7
  BY InitialByte
<1> QED
  BY <1>1, <1>2, WrittenHeadIsRead

-----------------------------------------------------------------------------
(* The order of map keys.                                                   *)

LEMMA LeastIndex ==
  ASSUME NEW T \in SUBSET Nat, T # {}
  PROVE  \E i \in T : \A j \in T : i <= j
<1>1. IsWellFoundedOn(OpToRel(<, Nat), Nat)
  BY NatLessThanWellFounded
<1>2. PICK i \in T : \A j \in T : ~(<<j, i>> \in OpToRel(<, Nat))
  BY <1>1, WFMin
<1>3. \A j \in T : ~(j < i)
  BY <1>2 DEF OpToRel
<1> QED
  BY <1>3

LEMMA KeyLessIrreflexive ==
  ASSUME NEW a \in Seq(Bytes)
  PROVE  ~KeyLess(a, a)
<1>1. \A i \in 1..Len(a) : a[i] \in Nat
  BY BytesAreNat
<1> QED
  BY <1>1 DEF KeyLess

LEMMA KeyLessTransitive ==
  ASSUME NEW a \in Seq(Bytes), NEW b \in Seq(Bytes), NEW c \in Seq(Bytes),
         KeyLess(a, b), KeyLess(b, c)
  PROVE  KeyLess(a, c)
<1>1. /\ Len(a) \in Nat /\ Len(b) \in Nat /\ Len(c) \in Nat
      /\ \A i \in 1..Len(a) : a[i] \in Nat
      /\ \A i \in 1..Len(b) : b[i] \in Nat
      /\ \A i \in 1..Len(c) : c[i] \in Nat
  BY BytesAreNat
<1>2. Len(a) <= Len(b) /\ Len(b) <= Len(c)
  BY <1>1 DEF KeyLess
<1>3. CASE Len(a) < Len(c)
  BY <1>3 DEF KeyLess
<1>4. CASE ~(Len(a) < Len(c))
  <2>1. Len(a) = Len(b) /\ Len(b) = Len(c)
    BY <1>1, <1>2, <1>4
  <2>2. PICK i \in 1..Len(a) : a[i] < b[i] /\ \A k \in 1..(i - 1) : a[k] = b[k]
    BY <1>1, <2>1 DEF KeyLess
  <2>3. PICK j \in 1..Len(a) : b[j] < c[j] /\ \A k \in 1..(j - 1) : b[k] = c[k]
    BY <1>1, <2>1 DEF KeyLess
  <2>4. \E m \in 1..Len(a) : a[m] < c[m] /\ \A k \in 1..(m - 1) : a[k] = c[k]
    <3>1. CASE i < j
      <4>1. b[i] = c[i]
        BY <2>3, <3>1
      <4>2. \A k \in 1..(i - 1) : a[k] = c[k]
        BY <2>2, <2>3, <3>1
      <4> QED
        BY <2>2, <4>1, <4>2
    <3>2. CASE j < i
      <4>1. a[j] = b[j]
        BY <2>2, <3>2
      <4>2. \A k \in 1..(j - 1) : a[k] = c[k]
        BY <2>2, <2>3, <3>2
      <4> QED
        BY <2>3, <4>1, <4>2
    <3>3. CASE i = j
      <4>1. a[i] < c[i]
        BY <1>1, <2>1, <2>2, <2>3, <3>3
      <4>2. \A k \in 1..(i - 1) : a[k] = c[k]
        BY <2>2, <2>3, <3>3
      <4> QED
        BY <4>1, <4>2
    <3> QED
      BY <3>1, <3>2, <3>3
  <2> QED
    BY <2>1, <2>4 DEF KeyLess
<1> QED
  BY <1>3, <1>4

LEMMA KeyLessTotal ==
  ASSUME NEW a \in Seq(Bytes), NEW b \in Seq(Bytes), a # b
  PROVE  KeyLess(a, b) \/ KeyLess(b, a)
<1>1. /\ Len(a) \in Nat /\ Len(b) \in Nat
      /\ \A i \in 1..Len(a) : a[i] \in Nat
      /\ \A i \in 1..Len(b) : b[i] \in Nat
  BY BytesAreNat
<1>2. CASE Len(a) # Len(b)
  BY <1>1, <1>2 DEF KeyLess
<1>3. CASE Len(a) = Len(b)
  <2> DEFINE T == {i \in 1..Len(a) : a[i] # b[i]}
  <2>1. T # {}
    BY <1>3, SeqEqual
  <2>2. PICK i \in T : \A j \in T : i <= j
    <3>1. T \in SUBSET Nat
      BY <1>1
    <3> HIDE DEF T
    <3> QED
      BY <2>1, <3>1, LeastIndex
  <2>3. \A k \in 1..(i - 1) : a[k] = b[k]
    BY <1>1, <2>2
  <2>4. a[i] < b[i] \/ b[i] < a[i]
    BY <1>1, <1>3, <2>2
  <2> QED
    BY <1>3, <2>2, <2>3, <2>4 DEF KeyLess
<1> QED
  BY <1>2, <1>3

\* Hazard: map keys given in another order than that of their encodings, or twice.
\* The order of encoded keys is a strict total order on byte strings of any length:
\* whatever order a caller gives the entries in there is one sorted order, and
\* neighbours that do not rise are a repeated key (encode_into's sort_by and
\* windows(2), the parser's previous_key).
THEOREM KeyOrderIsStrictAndTotal ==
  /\ \A a \in Seq(Bytes) : ~KeyLess(a, a)
  /\ \A a, b, c \in Seq(Bytes) : KeyLess(a, b) /\ KeyLess(b, c) => KeyLess(a, c)
  /\ \A a, b \in Seq(Bytes) : a = b \/ KeyLess(a, b) \/ KeyLess(b, a)
BY KeyLessIrreflexive, KeyLessTransitive, KeyLessTotal

-----------------------------------------------------------------------------
(* Scalars.                                                                 *)

\* The values of the profile that contain no other.
Scalars ==
    UNION {{Unsigned(n) : n \in Numbers},
           {Negative(n) : n \in {m \in Numbers : m[1] < 128}},
           {BytesOf(s) : s \in {t \in Seq(Bytes) : Len(t) <= Limits.bytes}},
           {TextOf(s) : s \in {t \in Seq(Bytes) : Len(t) <= Limits.text /\ Utf8(t)}},
           {Simple(x) : x \in {"false", "true", "null"}}}

LEMMA ReadLength ==
  ASSUME NEW b \in Seq(Bytes), NEW at \in 1..Len(b), NEW max \in Int, max < Infinity,
         NEW r, r = length(b, at + 1, b[at] % 32, max), r.err = "ok"
  PROVE  /\ r.v \in 0..(Infinity - 1) /\ r.v <= max /\ r.at \in (at + 1)..(Len(b) + 1)
         /\ SubSeq(b, at, r.at - 1) = write_head(b[at] \div 32, U64(r.v))
<1> DEFINE arg == argument(b, at + 1, b[at] % 32)
<1>1. r = IF arg.err # "ok" THEN arg
          ELSE IF AsLength(arg.v) > max THEN Fails("CollectionTooLarge")
          ELSE Reads(AsLength(arg.v), arg.at)
  BY DEF length, Within
<1>2. /\ arg.v \in Numbers /\ arg.at \in (at + 1)..(Len(b) + 1)
      /\ SubSeq(b, at, arg.at - 1) = write_head(b[at] \div 32, arg.v)
  <2>1. arg.err = "ok"
    BY <1>1
  <2> QED
    BY <2>1, ReadHeadIsWritten
<1> HIDE DEF arg
<1>3. Fails("CollectionTooLarge").err = "CollectionTooLarge"
  BY Readings
<1>4. r = Reads(AsLength(arg.v), arg.at) /\ ~(AsLength(arg.v) > max)
  BY <1>1, <1>3
<1>5. High(arg.v, 5)
  <2>1. ASSUME ~High(arg.v, 5) PROVE FALSE
    <3>1. AsLength(arg.v) = Infinity
      BY <2>1 DEF AsLength
    <3> QED
      BY <1>4, <3>1, InfinityIsInt
  <2> QED
    BY <2>1
<1>6. AsLength(arg.v) \in 0..(Infinity - 1) /\ U64(AsLength(arg.v)) = arg.v
  BY <1>2, <1>5, LengthsAreNumbers
<1>7. r.v = AsLength(arg.v) /\ r.at = arg.at
  BY <1>4, Readings
<1> QED
  BY <1>2, <1>4, <1>6, <1>7, InfinityIsInt

LEMMA WrittenLength ==
  ASSUME NEW b \in Seq(Bytes), NEW at \in 1..Len(b), NEW major \in 0..7,
         NEW max \in Int, max < Infinity, NEW k \in 0..(Infinity - 1), k <= max,
         NEW to \in (at + 1)..(Len(b) + 1), SubSeq(b, at, to - 1) = write_head(major, U64(k))
  PROVE  b[at] \div 32 = major /\ length(b, at + 1, b[at] % 32, max) = Reads(k, to)
<1>1. U64(k) \in Numbers /\ AsLength(U64(k)) = k
  BY SmallNumbers
<1>2. b[at] \div 32 = major /\ argument(b, at + 1, b[at] % 32) = Reads(U64(k), to)
  BY <1>1, WrittenHeadIsRead
<1>3. Reads(U64(k), to).err = "ok" /\ Reads(U64(k), to).v = U64(k) /\ Reads(U64(k), to).at = to
  BY Readings
<1>4. ~(k > max)
  BY InfinityIsInt
<1> QED
  BY <1>1, <1>2, <1>3, <1>4 DEF length, Within

LEMMA ReadString ==
  ASSUME NEW b \in Seq(Bytes), NEW at \in 1..Len(b), NEW max \in Int, max < Infinity,
         NEW r, r = string(b, at, max), r.err = "ok"
  PROVE  /\ r.v \in Seq(Bytes) /\ Len(r.v) <= max /\ r.at \in (at + 1)..(Len(b) + 1)
         /\ r = Reads(r.v, r.at)
         /\ SubSeq(b, at, r.at - 1) = write_head(b[at] \div 32, U64(Len(r.v))) \o r.v
<1> DEFINE len == length(b, at + 1, b[at] % 32, max)
           k == len.v
           p == len.at
           s == SubSeq(b, p, p + k - 1)
<1>1. r = IF len.err # "ok" THEN len ELSE take(b, p, k)
  BY DEF string, Contents
<1>2. len.err = "ok"
  BY <1>1
<1>3. /\ k \in Nat /\ k <= max /\ p \in (at + 1)..(Len(b) + 1)
      /\ SubSeq(b, at, p - 1) = write_head(b[at] \div 32, U64(k))
  <2>1. /\ k \in 0..(Infinity - 1) /\ k <= max /\ p \in (at + 1)..(Len(b) + 1)
        /\ SubSeq(b, at, p - 1) = write_head(b[at] \div 32, U64(k))
    BY <1>2, ReadLength
  <2> HIDE DEF k, p
  <2> QED
    BY <2>1, InfinityIsInt
<1>4. take(b, p, k) = IF p + k - 1 > Len(b) THEN Fails("UnexpectedEof") ELSE Reads(s, p + k)
  BY DEF take
<1> HIDE DEF len, k, p, s
<1>5. Fails("UnexpectedEof").err = "UnexpectedEof"
  BY Readings
<1>6. r = Reads(s, p + k) /\ ~(p + k - 1 > Len(b))
  BY <1>1, <1>2, <1>4, <1>5
<1>7. Len(b) \in Nat /\ p \in Nat /\ 1 <= p /\ p + k - 1 <= Len(b) /\ p + k - 1 \in Int
      /\ p <= (p + k - 1) + 1 /\ (p + k - 1) - p + 1 = k
  BY <1>3, <1>6
<1>8. s \in Seq(Bytes) /\ Len(s) = k
  BY <1>7, SubSeqBytes DEF s
<1>9. SubSeq(b, at, p - 1) \o s = SubSeq(b, at, p + k - 1)
  <2>1. at \in 1..(Len(b) + 1) /\ p - 1 \in (at - 1)..Len(b) /\ p + k - 1 \in (p - 1)..Len(b)
        /\ (p - 1) + 1 = p
    BY <1>3, <1>7
  <2>2. SubSeq(b, at, p - 1) \o SubSeq(b, (p - 1) + 1, p + k - 1) = SubSeq(b, at, p + k - 1)
    BY <2>1, ConcatAdjacentSubSeq
  <2> QED
    BY <2>1, <2>2 DEF s
<1>10. r.v = s /\ r.at = p + k
  BY <1>6, Readings
<1>11. r.at \in (at + 1)..(Len(b) + 1) /\ r.at - 1 = p + k - 1
  BY <1>3, <1>7, <1>10
<1>12. r = Reads(r.v, r.at)
  BY <1>6, <1>10, Zenon
<1> QED
  BY <1>3, <1>8, <1>9, <1>10, <1>11, <1>12

LEMMA WrittenString ==
  ASSUME NEW b \in Seq(Bytes), NEW at \in 1..Len(b), NEW major \in 0..7,
         NEW max \in Int, max < Infinity, NEW s \in Seq(Bytes), Len(s) <= max,
         NEW to \in (at + 1)..(Len(b) + 1),
         SubSeq(b, at, to - 1) = write_head(major, U64(Len(s))) \o s
  PROVE  b[at] \div 32 = major /\ string(b, at, max) = Reads(s, to)
<1> DEFINE k == Len(s)
           h == write_head(major, U64(k))
           p == at + Len(h)
<1>1. k \in 0..(Infinity - 1) /\ k \in Nat
  BY InfinityIsInt
<1>2. U64(k) \in Numbers
  BY <1>1, SmallNumbers
<1>3. h \in Seq(Bytes) /\ Len(h) \in Nat /\ Len(h) >= 1
  <2>1. h \in Seq(Bytes) /\ Len(h) = HeadWidth(U64(k)) + 1
    BY <1>2, HeadBytes
  <2>2. HeadWidth(U64(k)) \in {0, 1, 2, 4, 8}
    BY <1>2, HeadWidths
  <2> HIDE DEF h
  <2> QED
    BY <2>1, <2>2
<1> HIDE DEF h
<1>4. /\ Len(h \o s) = Len(h) + k
      /\ \A i \in 1..Len(h) : (h \o s)[i] = h[i]
      /\ \A i \in 1..k : (h \o s)[Len(h) + i] = s[i]
  BY <1>3
<1>5. /\ Len(b) \in Nat /\ to - 1 \in Int /\ to - 1 <= Len(b) /\ at <= (to - 1) + 1
      /\ (to - 1) - at + 1 = to - at
  OBVIOUS
<1>6. /\ Len(SubSeq(b, at, to - 1)) = to - at
      /\ \A i \in 1..(to - at) : SubSeq(b, at, to - 1)[i] = b[at + i - 1]
  BY <1>5, SubSeqBytes
<1>7. SubSeq(b, at, to - 1) = h \o s
  BY DEF h
<1>8. to - at = Len(h) + k
  BY <1>4, <1>6, <1>7
<1>9. p + k = to /\ p \in (at + 1)..(Len(b) + 1) /\ p - 1 \in Int /\ p - 1 <= Len(b)
      /\ (p - 1) - at + 1 = Len(h) /\ at <= (p - 1) + 1
  BY <1>1, <1>3, <1>5, <1>8
<1> HIDE DEF k
<1>10. SubSeq(b, at, p - 1) = h
  <2>1. /\ SubSeq(b, at, p - 1) \in Seq(Bytes) /\ Len(SubSeq(b, at, p - 1)) = Len(h)
        /\ \A i \in 1..Len(h) : SubSeq(b, at, p - 1)[i] = b[at + i - 1]
    BY <1>9, SubSeqBytes
  <2>2. ASSUME NEW i \in 1..Len(h) PROVE b[at + i - 1] = h[i]
    <3>1. i \in 1..(to - at)
      BY <1>1, <1>3, <1>8
    <3>2. SubSeq(b, at, to - 1)[i] = b[at + i - 1] /\ (h \o s)[i] = h[i]
      BY <1>4, <1>6, <3>1
    <3> QED
      BY <1>7, <3>2
  <2> QED
    BY <1>3, <2>1, <2>2, SeqEqual
<1>11. SubSeq(b, p, p + k - 1) = s
  <2>1. p \in Int /\ p + k - 1 \in Int /\ 1 <= p /\ p <= (p + k - 1) + 1 /\ p + k - 1 <= Len(b)
        /\ (p + k - 1) - p + 1 = k
    BY <1>1, <1>5, <1>9
  <2>2. /\ SubSeq(b, p, p + k - 1) \in Seq(Bytes) /\ Len(SubSeq(b, p, p + k - 1)) = k
        /\ \A i \in 1..k : SubSeq(b, p, p + k - 1)[i] = b[p + i - 1]
    <3> DEFINE q == p + k - 1
    <3> HIDE DEF p, q
    <3>1. q \in Int /\ p \in Int /\ 1 <= p /\ p <= q + 1 /\ q <= Len(b) /\ q - p + 1 = k
      BY <2>1 DEF q
    <3>2. /\ SubSeq(b, p, q) \in Seq(Bytes) /\ Len(SubSeq(b, p, q)) = k
          /\ \A i \in 1..k : SubSeq(b, p, q)[i] = b[p + i - 1]
      BY <3>1, SubSeqBytes
    <3> QED
      BY <3>2 DEF q
  <2>3. ASSUME NEW i \in 1..k PROVE b[p + i - 1] = s[i]
    <3>1. Len(h) + i \in 1..(to - at) /\ at + (Len(h) + i) - 1 = p + i - 1
      BY <1>1, <1>3, <1>8
    <3> QED
      BY <1>4, <1>6, <1>7, <3>1
  <2> QED
    BY <2>2, <2>3, SeqEqual DEF k
<1>12. b[at] \div 32 = major /\ length(b, at + 1, b[at] % 32, max) = Reads(k, p)
  BY <1>1, <1>9, <1>10, WrittenLength DEF h, k
<1> HIDE DEF p
<1>13. /\ Reads(k, p).err = "ok" /\ Reads(k, p).v = k /\ Reads(k, p).at = p
  BY Readings
<1>14. take(b, p, k) = Reads(s, to)
  <2>1. ~(p + k - 1 > Len(b))
    BY <1>1, <1>5, <1>9
  <2> QED
    BY <1>9, <1>11, <2>1 DEF take
<1> QED
  BY <1>12, <1>13, <1>14 DEF string, Contents

LEMMA LimitsBelowInfinity ==
  Limits.bytes \in Int /\ Limits.bytes < Infinity /\ Limits.text \in Int /\ Limits.text < Infinity
<1>1. Limits.bytes \in 0..(Infinity - 1) /\ Limits.text \in 0..(Infinity - 1)
  BY LimitsAssumption
<1>2. Infinity \in Int /\ 2 < Infinity
  BY DEF Infinity
<1> QED
  BY <1>1, <1>2

\* The arms of value, by major type.
LEMMA ScalarArms ==
  ASSUME NEW b, NEW at, NEW major \in 0..7, b[at] \div 32 = major, b[at] \in Bytes
  PROVE  LET arg == argument(b, at + 1, b[at] % 32)
             octets == string(b, at, Limits.bytes)
             text == string(b, at, Limits.text)
         IN  /\ major = 0 => scalar(b, at) =
                  IF arg.err # "ok" THEN arg ELSE Reads(Unsigned(arg.v), arg.at)
             /\ major = 1 => scalar(b, at) =
                  IF arg.err # "ok" THEN arg
                  ELSE IF arg.v[1] >= 128 THEN Fails("IntegerOutOfRange")
                  ELSE Reads(Negative(arg.v), arg.at)
             /\ major = 2 => scalar(b, at) =
                  IF octets.err # "ok" THEN octets ELSE Reads(BytesOf(octets.v), octets.at)
             /\ major = 3 => scalar(b, at) =
                  IF text.err # "ok" THEN text
                  ELSE IF Utf8(text.v) THEN Reads(TextOf(text.v), text.at)
                  ELSE Fails("InvalidUtf8")
             /\ b[at] = 244 => scalar(b, at) = Reads(Simple("false"), at + 1)
             /\ b[at] = 245 => scalar(b, at) = Reads(Simple("true"), at + 1)
             /\ b[at] = 246 => scalar(b, at) = Reads(Simple("null"), at + 1)
             /\ major \in 4..7 /\ b[at] \notin {244, 245, 246} =>
                  scalar(b, at) = Fails("UnsupportedType")
<1> DEFINE x == b[at]
           arg == argument(b, at + 1, x % 32)
           str == string(b, at, IF major = 2 THEN Limits.bytes ELSE Limits.text)
<1>1. x \in {244, 245, 246} => major = 7
  BY InitialByte
<1>2. scalar(b, at) =
        CASE major \in {0, 1} /\ arg.err # "ok" -> arg
          [] major \in {2, 3} /\ str.err # "ok" -> str
          [] major = 0 /\ arg.err = "ok" -> Reads(Unsigned(arg.v), arg.at)
          [] major = 1 /\ arg.err = "ok" ->
               IF arg.v[1] >= 128 THEN Fails("IntegerOutOfRange")
                                  ELSE Reads(Negative(arg.v), arg.at)
          [] major = 2 /\ str.err = "ok" -> Reads(BytesOf(str.v), str.at)
          [] major = 3 /\ str.err = "ok" ->
               IF Utf8(str.v) THEN Reads(TextOf(str.v), str.at) ELSE Fails("InvalidUtf8")
          [] x = 244 -> Reads(Simple("false"), at + 1)
          [] x = 245 -> Reads(Simple("true"), at + 1)
          [] x = 246 -> Reads(Simple("null"), at + 1)
          [] OTHER -> Fails("UnsupportedType")
  BY DEF scalar, ScalarFrom
<1>3. /\ major = 2 => str = string(b, at, Limits.bytes)
      /\ major = 3 => str = string(b, at, Limits.text)
  OBVIOUS
<1> HIDE DEF arg, str, x
<1>4. CASE major = 0
  BY <1>1, <1>2, <1>4 DEF arg, x
<1>5. CASE major = 1
  BY <1>1, <1>2, <1>5 DEF arg, x
<1>6. CASE major = 2
  BY <1>1, <1>2, <1>3, <1>6 DEF x
<1>7. CASE major = 3
  BY <1>1, <1>2, <1>3, <1>7 DEF x
<1>8. CASE major \in 4..7
  BY <1>1, <1>2, <1>8 DEF x
<1> QED
  BY <1>4, <1>5, <1>6, <1>7, <1>8

LEMMA ScalarForms ==
  /\ \A n \in Numbers : Unsigned(n) \in Scalars /\ encode_scalar(Unsigned(n)) = write_head(0, n)
  /\ \A n \in Numbers : n[1] < 128 =>
       Negative(n) \in Scalars /\ encode_scalar(Negative(n)) = write_head(1, n)
  /\ \A s \in Seq(Bytes) : Len(s) <= Limits.bytes =>
       BytesOf(s) \in Scalars /\ encode_scalar(BytesOf(s)) = write_head(2, U64(Len(s))) \o s
  /\ \A s \in Seq(Bytes) : Len(s) <= Limits.text /\ Utf8(s) =>
       TextOf(s) \in Scalars /\ encode_scalar(TextOf(s)) = write_head(3, U64(Len(s))) \o s
  /\ Simple("false") \in Scalars /\ encode_scalar(Simple("false")) = <<244>>
  /\ Simple("true") \in Scalars /\ encode_scalar(Simple("true")) = <<245>>
  /\ Simple("null") \in Scalars /\ encode_scalar(Simple("null")) = <<246>>
<1>1. \A n \in Numbers : Unsigned(n) \in Scalars /\ encode_scalar(Unsigned(n)) = write_head(0, n)
  BY DEF Scalars, Unsigned, encode_scalar
<1>2. \A n \in Numbers : n[1] < 128 =>
        Negative(n) \in Scalars /\ encode_scalar(Negative(n)) = write_head(1, n)
  BY DEF Scalars, Negative, encode_scalar
<1>3. \A s \in Seq(Bytes) : Len(s) <= Limits.bytes =>
        BytesOf(s) \in Scalars /\ encode_scalar(BytesOf(s)) = write_head(2, U64(Len(s))) \o s
  BY DEF Scalars, BytesOf, encode_scalar
<1>4. \A s \in Seq(Bytes) : Len(s) <= Limits.text /\ Utf8(s) =>
        TextOf(s) \in Scalars /\ encode_scalar(TextOf(s)) = write_head(3, U64(Len(s))) \o s
  BY DEF Scalars, TextOf, encode_scalar
<1>5. /\ Simple("false") \in Scalars /\ encode_scalar(Simple("false")) = <<244>>
      /\ Simple("true") \in Scalars /\ encode_scalar(Simple("true")) = <<245>>
      /\ Simple("null") \in Scalars /\ encode_scalar(Simple("null")) = <<246>>
  BY DEF Scalars, Simple, encode_scalar
<1> QED
  BY <1>1, <1>2, <1>3, <1>4, <1>5

\* A position that holds one byte.
LEMMA OneByte ==
  ASSUME NEW b \in Seq(Bytes), NEW at \in 1..Len(b), NEW x \in Bytes
  PROVE  /\ b[at] = x => SubSeq(b, at, at) = <<x>>
         /\ \A to \in (at + 1)..(Len(b) + 1) :
              SubSeq(b, at, to - 1) = <<x>> => to = at + 1 /\ b[at] = x
<1>1. at - at + 1 = 1 /\ at + 1 - 1 = at /\ at \in Int /\ 1 <= at /\ at <= at + 1
      /\ at <= Len(b) /\ Len(b) \in Nat
  OBVIOUS
<1>2. <<x>> \in Seq(Bytes) /\ Len(<<x>>) = 1 /\ <<x>>[1] = x
  OBVIOUS
<1>3. ASSUME b[at] = x PROVE SubSeq(b, at, at) = <<x>>
  <2>1. /\ SubSeq(b, at, at) \in Seq(Bytes) /\ Len(SubSeq(b, at, at)) = 1
        /\ SubSeq(b, at, at)[1] = b[at]
    BY <1>1, SubSeqBytes
  <2>2. \A i \in 1..1 : SubSeq(b, at, at)[i] = <<x>>[i]
    BY <1>2, <1>3, <2>1
  <2> QED
    BY <1>2, <2>1, <2>2, SeqEqual
<1>4. ASSUME NEW to \in (at + 1)..(Len(b) + 1), SubSeq(b, at, to - 1) = <<x>>
      PROVE  to = at + 1 /\ b[at] = x
  <2>1. to - 1 \in Int /\ to - 1 <= Len(b) /\ at <= (to - 1) + 1 /\ (to - 1) - at + 1 = to - at
        /\ to - at >= 1
    BY <1>1
  <2>2. /\ Len(SubSeq(b, at, to - 1)) = to - at
        /\ \A i \in 1..(to - at) : SubSeq(b, at, to - 1)[i] = b[at + i - 1]
    BY <1>1, <2>1, SubSeqBytes
  <2>3. to - at = 1
    BY <1>2, <1>4, <2>2
  <2>4. SubSeq(b, at, to - 1)[1] = b[at]
    <3>1. 1 \in 1..(to - at) /\ at + 1 - 1 = at
      BY <2>1
    <3> QED
      BY <2>2, <3>1
  <2> QED
    <3>1. to = at + 1
      BY <1>1, <2>3
    <3>2. b[at] = x
      BY <1>2, <1>4, <2>4
    <3> QED
      BY <3>1, <3>2
<1> QED
  BY <1>3, <1>4

LEMMA ReadScalar ==
  ASSUME NEW b \in Seq(Bytes), NEW at \in 1..Len(b), NEW r, r = scalar(b, at), r.err = "ok"
  PROVE  /\ r.v \in Scalars /\ r.at \in (at + 1)..(Len(b) + 1) /\ r = Reads(r.v, r.at)
         /\ SubSeq(b, at, r.at - 1) = encode_scalar(r.v)
<1> DEFINE major == b[at] \div 32
           arg == argument(b, at + 1, b[at] % 32)
           octets == string(b, at, Limits.bytes)
           text == string(b, at, Limits.text)
<1>1. b[at] \in Bytes /\ major \in 0..7 /\ Len(b) \in Nat
  BY InitialByte
<1>2. arg.err = "ok" => /\ arg.v \in Numbers /\ arg.at \in (at + 1)..(Len(b) + 1)
                        /\ SubSeq(b, at, arg.at - 1) = write_head(major, arg.v)
  BY ReadHeadIsWritten
<1>3. octets.err = "ok" =>
        /\ octets.v \in Seq(Bytes) /\ Len(octets.v) <= Limits.bytes
        /\ octets.at \in (at + 1)..(Len(b) + 1)
        /\ SubSeq(b, at, octets.at - 1) = write_head(major, U64(Len(octets.v))) \o octets.v
  BY LimitsBelowInfinity, ReadString
<1>4. text.err = "ok" =>
        /\ text.v \in Seq(Bytes) /\ Len(text.v) <= Limits.text
        /\ text.at \in (at + 1)..(Len(b) + 1)
        /\ SubSeq(b, at, text.at - 1) = write_head(major, U64(Len(text.v))) \o text.v
  BY LimitsBelowInfinity, ReadString
<1>5. /\ major = 0 => r = IF arg.err # "ok" THEN arg ELSE Reads(Unsigned(arg.v), arg.at)
      /\ major = 1 => r = IF arg.err # "ok" THEN arg
                          ELSE IF arg.v[1] >= 128 THEN Fails("IntegerOutOfRange")
                          ELSE Reads(Negative(arg.v), arg.at)
      /\ major = 2 => r = IF octets.err # "ok" THEN octets
                          ELSE Reads(BytesOf(octets.v), octets.at)
      /\ major = 3 => r = IF text.err # "ok" THEN text
                          ELSE IF Utf8(text.v) THEN Reads(TextOf(text.v), text.at)
                          ELSE Fails("InvalidUtf8")
      /\ b[at] = 244 => r = Reads(Simple("false"), at + 1)
      /\ b[at] = 245 => r = Reads(Simple("true"), at + 1)
      /\ b[at] = 246 => r = Reads(Simple("null"), at + 1)
      /\ major \in 4..7 /\ b[at] \notin {244, 245, 246} => r = Fails("UnsupportedType")
  BY <1>1, ScalarArms
<1> HIDE DEF major, arg, octets, text
<1> DEFINE Good(v, to) == /\ v \in Scalars /\ to \in (at + 1)..(Len(b) + 1)
                          /\ SubSeq(b, at, to - 1) = encode_scalar(v)
<1>6. \A e \in {"IntegerOutOfRange", "InvalidUtf8", "UnsupportedType"} : r # Fails(e)
  BY Readings
<1>7. CASE major = 0
  <2>1. arg.err = "ok" /\ r = Reads(Unsigned(arg.v), arg.at)
    BY <1>5, <1>7
  <2>2. Good(Unsigned(arg.v), arg.at)
    BY <1>2, <1>7, <2>1, ScalarForms
  <2> QED
    BY <2>1, <2>2, Readings
<1>8. CASE major = 1
  <2>1. arg.err = "ok" /\ ~(arg.v[1] >= 128) /\ r = Reads(Negative(arg.v), arg.at)
    BY <1>5, <1>6, <1>8
  <2>2. arg.v[1] \in Nat
    <3>1. arg.v[1] \in Bytes
      BY <1>2, <2>1 DEF Numbers
    <3> QED
      BY <3>1, BytesAreNat
  <2>3. Good(Negative(arg.v), arg.at)
    BY <1>2, <1>8, <2>1, <2>2, ScalarForms
  <2> QED
    BY <2>1, <2>3, Readings
<1>9. CASE major = 2
  <2>1. octets.err = "ok" /\ r = Reads(BytesOf(octets.v), octets.at)
    BY <1>5, <1>9
  <2>2. Good(BytesOf(octets.v), octets.at)
    BY <1>3, <1>9, <2>1, ScalarForms
  <2> QED
    BY <2>1, <2>2, Readings
<1>10. CASE major = 3
  <2>1. text.err = "ok" /\ Utf8(text.v) /\ r = Reads(TextOf(text.v), text.at)
    BY <1>5, <1>6, <1>10
  <2>2. Good(TextOf(text.v), text.at)
    BY <1>4, <1>10, <2>1, ScalarForms
  <2> QED
    BY <2>1, <2>2, Readings
<1>11. CASE major \in 4..7
  <2>1. PICK to \in (at + 1)..(Len(b) + 1) : to = at + 1 /\ to - 1 = at
    BY <1>1
  <2>2. CASE b[at] = 244
    <3>1. r = Reads(Simple("false"), to)
      BY <1>5, <2>1, <2>2
    <3>2. SubSeq(b, at, at) = <<244>>
      BY <1>1, <2>2, OneByte
    <3>3. Good(Simple("false"), to)
      BY <2>1, <3>2, ScalarForms
    <3> QED
      BY <3>1, <3>3, Readings
  <2>3. CASE b[at] = 245
    <3>1. r = Reads(Simple("true"), to)
      BY <1>5, <2>1, <2>3
    <3>2. SubSeq(b, at, at) = <<245>>
      BY <1>1, <2>3, OneByte
    <3>3. Good(Simple("true"), to)
      BY <2>1, <3>2, ScalarForms
    <3> QED
      BY <3>1, <3>3, Readings
  <2>4. CASE b[at] = 246
    <3>1. r = Reads(Simple("null"), to)
      BY <1>5, <2>1, <2>4
    <3>2. SubSeq(b, at, at) = <<246>>
      BY <1>1, <2>4, OneByte
    <3>3. Good(Simple("null"), to)
      BY <2>1, <3>2, ScalarForms
    <3> QED
      BY <3>1, <3>3, Readings
  <2> QED
    BY <1>5, <1>6, <1>11, <2>2, <2>3, <2>4
<1> QED
  BY <1>1, <1>7, <1>8, <1>9, <1>10, <1>11

LEMMA WrittenScalar ==
  ASSUME NEW b \in Seq(Bytes), NEW at \in 1..Len(b), NEW item \in Scalars,
         NEW to \in (at + 1)..(Len(b) + 1), SubSeq(b, at, to - 1) = encode_scalar(item)
  PROVE  scalar(b, at) = Reads(item, to)
<1> DEFINE x == b[at]
           major == x \div 32
           arg == argument(b, at + 1, x % 32)
           octets == string(b, at, Limits.bytes)
           text == string(b, at, Limits.text)
<1>1. x \in Bytes /\ major \in 0..7
  BY InitialByte
<1>2. /\ major = 0 => scalar(b, at) =
           IF arg.err # "ok" THEN arg ELSE Reads(Unsigned(arg.v), arg.at)
      /\ major = 1 => scalar(b, at) =
           IF arg.err # "ok" THEN arg
           ELSE IF arg.v[1] >= 128 THEN Fails("IntegerOutOfRange")
           ELSE Reads(Negative(arg.v), arg.at)
      /\ major = 2 => scalar(b, at) =
           IF octets.err # "ok" THEN octets ELSE Reads(BytesOf(octets.v), octets.at)
      /\ major = 3 => scalar(b, at) =
           IF text.err # "ok" THEN text
           ELSE IF Utf8(text.v) THEN Reads(TextOf(text.v), text.at)
           ELSE Fails("InvalidUtf8")
      /\ x = 244 => scalar(b, at) = Reads(Simple("false"), at + 1)
      /\ x = 245 => scalar(b, at) = Reads(Simple("true"), at + 1)
      /\ x = 246 => scalar(b, at) = Reads(Simple("null"), at + 1)
  BY <1>1, ScalarArms
<1>3. ASSUME NEW n \in Numbers, NEW m \in 0..7, SubSeq(b, at, to - 1) = write_head(m, n)
      PROVE  major = m /\ arg = Reads(n, to)
  BY <1>3, WrittenHeadIsRead
<1>4. ASSUME NEW s \in Seq(Bytes), Len(s) <= Limits.bytes,
             SubSeq(b, at, to - 1) = write_head(2, U64(Len(s))) \o s
      PROVE  major = 2 /\ octets = Reads(s, to)
  <2>1. 2 \in 0..7 /\ Limits.bytes \in Int /\ Limits.bytes < Infinity
    BY LimitsBelowInfinity
  <2>2. b[at] \div 32 = 2 /\ string(b, at, Limits.bytes) = Reads(s, to)
    BY <1>4, <2>1, WrittenString, ZenonT(60)
  <2> QED
    BY <2>2
<1>5. ASSUME NEW s \in Seq(Bytes), Len(s) <= Limits.text,
             SubSeq(b, at, to - 1) = write_head(3, U64(Len(s))) \o s
      PROVE  major = 3 /\ text = Reads(s, to)
  <2>1. 3 \in 0..7 /\ Limits.text \in Int /\ Limits.text < Infinity
    BY LimitsBelowInfinity
  <2>2. b[at] \div 32 = 3 /\ string(b, at, Limits.text) = Reads(s, to)
    BY <1>5, <2>1, WrittenString, ZenonT(60)
  <2> QED
    BY <2>2
<1>6. \A y \in Bytes : SubSeq(b, at, to - 1) = <<y>> => to = at + 1 /\ x = y
  BY OneByte
<1> HIDE DEF x, major, arg, octets, text
<1>7. CASE item \in {Unsigned(n) : n \in Numbers}
  <2>1. PICK n \in Numbers : item = Unsigned(n)
    BY <1>7
  <2>2. major = 0 /\ arg = Reads(n, to)
    BY <1>3, <2>1, ScalarForms
  <2>3. arg.err = "ok" /\ arg.v = n /\ arg.at = to
    BY <2>2, Readings
  <2> QED
    BY <1>2, <2>1, <2>2, <2>3
<1>8. CASE item \in {Negative(n) : n \in {m \in Numbers : m[1] < 128}}
  <2>1. PICK n \in Numbers : n[1] < 128 /\ item = Negative(n)
    BY <1>8
  <2>2. major = 1 /\ arg = Reads(n, to)
    BY <1>3, <2>1, ScalarForms
  <2>3. arg.err = "ok" /\ arg.v = n /\ arg.at = to
    BY <2>2, Readings
  <2>4. ~(n[1] >= 128)
    <3>1. n[1] \in Bytes
      BY DEF Numbers
    <3> QED
      BY <2>1, <3>1, BytesAreNat
  <2> QED
    BY <1>2, <2>1, <2>2, <2>3, <2>4
<1>9. CASE item \in {BytesOf(s) : s \in {t \in Seq(Bytes) : Len(t) <= Limits.bytes}}
  <2>1. PICK s \in Seq(Bytes) : Len(s) <= Limits.bytes /\ item = BytesOf(s)
    BY <1>9
  <2>2. major = 2 /\ octets = Reads(s, to)
    BY <1>4, <2>1, ScalarForms
  <2>3. octets.err = "ok" /\ octets.v = s /\ octets.at = to
    BY <2>2, Readings
  <2> QED
    BY <1>2, <2>1, <2>2, <2>3
<1>10. CASE item \in {TextOf(s) : s \in {t \in Seq(Bytes) : Len(t) <= Limits.text /\ Utf8(t)}}
  <2>1. PICK s \in Seq(Bytes) : Len(s) <= Limits.text /\ Utf8(s) /\ item = TextOf(s)
    BY <1>10
  <2>2. major = 3 /\ text = Reads(s, to)
    BY <1>5, <2>1, ScalarForms
  <2>3. text.err = "ok" /\ text.v = s /\ text.at = to
    BY <2>2, Readings
  <2> QED
    BY <1>2, <2>1, <2>2, <2>3
<1>11. CASE item \in {Simple(y) : y \in {"false", "true", "null"}}
  <2>1. {244, 245, 246} \subseteq Bytes
    BY DEF Bytes
  <2>2. CASE item = Simple("false")
    <3>1. to = at + 1 /\ x = 244
      BY <1>6, <2>1, <2>2, ScalarForms
    <3> QED
      BY <1>2, <2>2, <3>1
  <2>3. CASE item = Simple("true")
    <3>1. to = at + 1 /\ x = 245
      BY <1>6, <2>1, <2>3, ScalarForms
    <3> QED
      BY <1>2, <2>3, <3>1
  <2>4. CASE item = Simple("null")
    <3>1. to = at + 1 /\ x = 246
      BY <1>6, <2>1, <2>4, ScalarForms
    <3> QED
      BY <1>2, <2>4, <3>1
  <2> QED
    BY <1>11, <2>2, <2>3, <2>4
<1> QED
  BY <1>7, <1>8, <1>9, <1>10, <1>11 DEF Scalars

\* Hazard: one value with two encodings, or one byte string read as another value.
\* For the values that contain no other, integers over the whole 64-bit range,
\* strings up to the limits and the simple values, the parser reads a value at a
\* position exactly when the bytes there are the ones the encoder writes for it, and
\* it reads nothing else (value, encode_into; whatever the limits and the message).
THEOREM OneScalarEncoding ==
  ASSUME NEW b \in Seq(Bytes), NEW at \in 1..Len(b)
  PROVE  /\ scalar(b, at).err = "ok" =>
              \E item \in Scalars, to \in Nat : scalar(b, at) = Reads(item, to)
         /\ \A item \in Scalars, to \in Nat :
              scalar(b, at) = Reads(item, to)
                <=> /\ to \in (at + 1)..(Len(b) + 1)
                    /\ SubSeq(b, at, to - 1) = encode_scalar(item)
<1>1. ASSUME scalar(b, at).err = "ok"
      PROVE  \E item \in Scalars, to \in Nat : scalar(b, at) = Reads(item, to)
  <2> DEFINE r == scalar(b, at)
  <2>1. r.v \in Scalars /\ r.at \in (at + 1)..(Len(b) + 1) /\ r = Reads(r.v, r.at)
    BY <1>1, ReadScalar
  <2>2. r.at \in Nat
    BY <2>1
  <2> QED
    BY <2>1, <2>2, Zenon
<1>2. ASSUME NEW item \in Scalars, NEW to \in Nat, scalar(b, at) = Reads(item, to)
      PROVE  to \in (at + 1)..(Len(b) + 1) /\ SubSeq(b, at, to - 1) = encode_scalar(item)
  BY <1>2, Readings, ReadScalar
<1> QED
  BY <1>1, <1>2, WrittenScalar

=============================================================================
