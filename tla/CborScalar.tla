----------------------------- MODULE CborScalar -----------------------------
(***************************************************************************)
(* The part of the deterministic CBOR profile that does not nest           *)
(* (crates/rp-protocol/src/cbor.rs): heads, lengths, integers, strings,    *)
(* simple values and the order of encoded map keys, at the level of bytes. *)
(* An unsigned 64-bit number is its eight big-endian bytes (to_be_bytes),  *)
(* so that the boundaries at 2^8, 2^16, 2^32 and 2^63 are the code's own   *)
(* and nothing is scaled.  A Negative(i) is kept as the eight bytes of     *)
(* -1 - i, whose first bit is set exactly when i is not negative.          *)
(*                                                                         *)
(* A read or encode result is [err, ...] with err = "ok" for Ok.           *)
(***************************************************************************)
EXTENDS Integers, Sequences

CONSTANT Limits      \* CborLimits

\* A length that takes more than three bytes exceeds every limit.
Infinity == 256 * 256 * 256

ASSUME LimitsAssumption ==
    Limits \in [message : Nat, nesting : Nat, map : 0..(Infinity - 1),
                array : 0..(Infinity - 1), bytes : 0..(Infinity - 1),
                text : 0..(Infinity - 1)]

Bytes == 0..255
Numbers == [1..8 -> Bytes]

Unsigned(n) == [type |-> "unsigned", n |-> n]
Negative(n) == [type |-> "negative", n |-> n]
BytesOf(b)  == [type |-> "bytes", b |-> b]
TextOf(b)   == [type |-> "text", b |-> b]
Simple(x)   == [type |-> x]

\* The first k bytes of a number are zero.
High(n, k) == \A i \in 1..k : n[i] = 0

\* u64::from of at most eight big-endian bytes.
Widened(b) == [i \in 1..8 |-> IF i <= 8 - Len(b) THEN 0 ELSE b[i - 8 + Len(b)]]

\* A number as an integer, or Infinity when it exceeds three bytes.
AsLength(n) == IF High(n, 5) THEN 256 * (256 * n[6] + n[7]) + n[8] ELSE Infinity

U64(k) == Widened(<<(k \div 256) \div 256, (k \div 256) % 256, k % 256>>)

\* How many bytes of the number follow the initial byte.
HeadWidth(n) ==
    IF High(n, 7) THEN IF n[8] <= 23 THEN 0 ELSE 1
    ELSE IF High(n, 6) THEN 2 ELSE IF High(n, 4) THEN 4 ELSE 8

\* The additional information that announces as many bytes.
Announces(width) ==
    CASE width = 1 -> 24 [] width = 2 -> 25 [] width = 4 -> 26 [] width = 8 -> 27

write_head(major, n) ==
    IF HeadWidth(n) = 0 THEN <<32 * major + n[8]>>
    ELSE <<32 * major + Announces(HeadWidth(n))>> \o SubSeq(n, 9 - HeadWidth(n), 8)

\* The order of encoded map keys: the shorter first, then byte by byte.
KeyLess(a, b) ==
    \/ Len(a) < Len(b)
    \/ /\ Len(a) = Len(b)
       /\ \E i \in 1..Len(a) : a[i] < b[i] /\ \A j \in 1..(i - 1) : a[j] = b[j]

\* The bytes that continue a character, and how many a character has by its
\* first byte: none has 0.
Continues == 128..191
CharacterWidth(lead) ==
    CASE lead \in 0..127 -> 1 [] lead \in 194..223 -> 2 [] lead \in 224..239 -> 3
      [] lead \in 240..244 -> 4 [] OTHER -> 0

\* What may come second: no overlong form, no surrogate, nothing above 10FFFF.
MayFollow(lead) ==
    CASE lead = 224 -> 160..191 [] lead = 237 -> 128..159 [] lead = 240 -> 144..191
      [] lead = 244 -> 128..143 [] OTHER -> Continues

\* A character of the string starts at i.
CharacterAt(b, i) ==
    LET end == i + CharacterWidth(b[i]) - 1
    IN  /\ end \in i..Len(b)
        /\ end > i => b[i + 1] \in MayFollow(b[i])
        /\ \A j \in (i + 2)..end : b[j] \in Continues

\* core::str::from_utf8: every byte starts a character or is in one.
Utf8(b) ==
    \A i \in 1..Len(b) :
        IF b[i] \in Continues
        THEN \E k \in 1..3 : k < i /\ CharacterWidth(b[i - k]) > k
        ELSE CharacterAt(b, i)

-----------------------------------------------------------------------------
(* Parser.  A position is the index of the next byte; every reader returns  *)
(* the value and the position after it, or the DecodeError.                 *)

Fails(e) == [err |-> e]
Reads(v, at) == [err |-> "ok", v |-> v, at |-> at]

take(b, at, n) ==
    IF at + n - 1 > Len(b) THEN Fails("UnexpectedEof")
    ELSE Reads(SubSeq(b, at, at + n - 1), at + n)

\* Injected fault: a two-byte argument is taken for minimal from 255 on.
MinimalOffByOne(n, width) ==
    CASE width = 1 -> n[8] >= 24
      [] width = 2 -> ~High(n, 7) \/ n[8] = 255
      [] width = 4 -> ~High(n, 6)
      [] width = 8 -> ~High(n, 4)

\* The canonical form test of argument().
Minimal(n, width) ==
    CASE width = 1 -> n[8] >= 24
      [] width = 2 -> ~High(n, 7)
      [] width = 4 -> ~High(n, 6)
      [] width = 8 -> ~High(n, 4)

\* The bytes that additional information announces.
ArgumentWidth(additional) ==
    CASE additional = 24 -> 1 [] additional = 25 -> 2 [] additional = 26 -> 4
      [] additional = 27 -> 8

\* The argument in the bytes that were taken for it.
Canonical(taken, width) ==
    IF taken.err # "ok" THEN taken
    ELSE IF Minimal(Widened(taken.v), width) THEN Reads(Widened(taken.v), taken.at)
    ELSE Fails("NonCanonicalInteger")

argument(b, at, additional) ==
    IF additional <= 23 THEN Reads(U64(additional), at)
    ELSE IF additional > 27 THEN Fails("IndefiniteLength")
    ELSE Canonical(take(b, at, ArgumentWidth(additional)), ArgumentWidth(additional))

\* An argument as a length within a limit.
Within(arg, max) ==
    IF arg.err # "ok" THEN arg
    ELSE IF AsLength(arg.v) > max THEN Fails("CollectionTooLarge")
    ELSE Reads(AsLength(arg.v), arg.at)

length(b, at, additional, max) == Within(argument(b, at, additional), max)

\* A string: its length and its bytes.
Contents(b, len) == IF len.err # "ok" THEN len ELSE take(b, len.at, len.v)
string(b, at, max) == Contents(b, length(b, at + 1, b[at] % 32, max))

\* The arms of value() that read no further item, from the initial byte, the
\* argument and the string behind it.
ScalarFrom(initial, at, arg, str) ==
    LET major == initial \div 32
    IN  CASE major \in {0, 1} /\ arg.err # "ok" -> arg
          [] major \in {2, 3} /\ str.err # "ok" -> str
          [] major = 0 /\ arg.err = "ok" -> Reads(Unsigned(arg.v), arg.at)
          [] major = 1 /\ arg.err = "ok" ->
               IF arg.v[1] >= 128 THEN Fails("IntegerOutOfRange")
                                  ELSE Reads(Negative(arg.v), arg.at)
          [] major = 2 /\ str.err = "ok" -> Reads(BytesOf(str.v), str.at)
          [] major = 3 /\ str.err = "ok" ->
               IF Utf8(str.v) THEN Reads(TextOf(str.v), str.at) ELSE Fails("InvalidUtf8")
          [] initial = 244 -> Reads(Simple("false"), at + 1)
          [] initial = 245 -> Reads(Simple("true"), at + 1)
          [] initial = 246 -> Reads(Simple("null"), at + 1)
          [] OTHER -> Fails("UnsupportedType")

scalar(b, at) ==
    ScalarFrom(b[at], at, argument(b, at + 1, b[at] % 32),
               string(b, at, IF b[at] \div 32 = 2 THEN Limits.bytes ELSE Limits.text))

\* The arms of encode_into() that write no further item.
encode_scalar(item) ==
    CASE item.type = "unsigned" -> write_head(0, item.n)
      [] item.type = "negative" -> write_head(1, item.n)
      [] item.type = "bytes" -> write_head(2, U64(Len(item.b))) \o item.b
      [] item.type = "text" -> write_head(3, U64(Len(item.b))) \o item.b
      [] item.type = "false" -> <<244>>
      [] item.type = "true" -> <<245>>
      [] item.type = "null" -> <<246>>
=============================================================================
