------------------------------- MODULE Cbor -------------------------------
(***************************************************************************)
(* The deterministic CBOR profile every protocol object is hashed and      *)
(* signed in (crates/rp-protocol/src/cbor.rs): the items that nest, on top *)
(* of CborScalar.                                                          *)
(*                                                                         *)
(* The state is one inbound message, read byte by byte from Alphabet.      *)
(***************************************************************************)
EXTENDS CborScalar, SequencesExt, TLC

CONSTANTS Alphabet,    \* the bytes an input is made of
          Starts,      \* the bytes an input may start with
          MaxMore      \* bound: bytes read after such a start

ASSUME AlphabetAssumption ==
    /\ Alphabet \subseteq Bytes
    /\ \A s \in Starts : \A i \in DOMAIN s : s[i] \in Bytes
    /\ MaxMore \in Nat

VARIABLE input

ArrayOf(s)  == [type |-> "array", s |-> s]
MapOf(p)    == [type |-> "map", p |-> p]
TagOf(n, v) == [type |-> "tag", n |-> n, v |-> v]

TAG_SIGN1 == U64(18)

-----------------------------------------------------------------------------
(* Parser.                                                                  *)

\* Applies the reading of a payload to a read that may have failed.
Then(r, F(_, _)) == IF r.err # "ok" THEN r ELSE F(r.v, r.at)

RECURSIVE value(_, _, _), Values(_, _, _, _, _), Entries(_, _, _, _, _)

value(b, at, depth) ==
    IF depth > Limits.nesting THEN Fails("NestingTooDeep")
    ELSE IF at > Len(b) THEN Fails("UnexpectedEof")
    ELSE LET major == b[at] \div 32
             additional == b[at] % 32
             Sized(max) == length(b, at + 1, additional, max)
         IN  CASE additional = 31 -> Fails("IndefiniteLength")
               [] major = 4 /\ additional # 31 ->
                    Then(Sized(Limits.array),
                         LAMBDA n, to : Values(b, to, depth + 1, n, <<>>))
               [] major = 5 /\ additional # 31 ->
                    Then(Sized(Limits.map),
                         LAMBDA n, to : Entries(b, to, depth + 1, n, <<>>))
               [] major = 6 /\ additional # 31 ->
                    Then(argument(b, at + 1, additional),
                         LAMBDA n, to : IF n # TAG_SIGN1 THEN Fails("UnsupportedTag")
                                        ELSE Then(value(b, to, depth + 1),
                                            LAMBDA v, end : Reads(TagOf(n, v), end)))
               [] OTHER -> scalar(b, at)

\* The element loop of an array.
Values(b, at, depth, n, read) ==
    IF n = 0 THEN Reads(ArrayOf(read), at)
    ELSE Then(value(b, at, depth),
              LAMBDA v, to : Values(b, to, depth, n - 1, Append(read, v)))

\* The entry loop of a map; an entry keeps its key's bytes for the order check.
Entries(b, at, depth, n, read) ==
    IF n = 0 THEN Reads(MapOf([i \in 1..Len(read) |-> <<read[i][1], read[i][2]>>]), at)
    ELSE Then(value(b, at, depth), LAMBDA key, to :
           LET bytes == SubSeq(b, at, to - 1)
           IN  IF read # <<>> /\ ~KeyLess(read[Len(read)][3], bytes)
               THEN Fails("NonCanonicalMapOrder")
               ELSE Then(value(b, to, depth), LAMBDA v, end :
                      Entries(b, end, depth, n - 1, Append(read, <<key, v, bytes>>))))

\* decode_with_limits
decode(b) ==
    IF Len(b) > Limits.message THEN Fails("MessageTooLarge")
    ELSE Then(value(b, 1, 0),
              LAMBDA v, to : IF to # Len(b) + 1 THEN Fails("TrailingBytes")
                             ELSE Reads(v, to))

-----------------------------------------------------------------------------
(* Encoder.  The result is [err, v] with the bytes in v.                    *)

Wrote(b) == [err |-> "ok", v |-> b]
ThenWrite(r, F(_)) == IF r.err # "ok" THEN r ELSE F(r.v)

RECURSIVE encode_into(_), encode_all(_, _)

\* encode: the output has to pass the decoder's own profile.
encode(item) ==
    ThenWrite(encode_into(item),
              LAMBDA b : IF decode(b).err # "ok" THEN Fails("Profile") ELSE Wrote(b))

\* The values one after another, with the first error on the way.
encode_all(values, written) ==
    IF values = <<>> THEN Wrote(written)
    ELSE ThenWrite(encode_into(Head(values)),
                   LAMBDA b : encode_all(Tail(values), written \o b))

\* Injected fault: the encoder relies on the caller's entry order.
AsGiven(entries) == entries

\* The entries, with their encoded keys, in the order of those keys.
SortedEntries(entries) == SortSeq(entries, LAMBDA a, b : KeyLess(a[3].v, b[3].v))

encode_into(item) ==
    CASE item.type = "array" -> encode_all(item.s, write_head(4, U64(Len(item.s))))
      [] item.type = "map" ->
           LET keyed == [i \in DOMAIN item.p |->
                            <<item.p[i][1], item.p[i][2], encode(item.p[i][1])>>]
               sorted == SortedEntries(keyed)
               flat == [i \in 1..(2 * Len(sorted)) |-> sorted[(i + 1) \div 2][2 - (i % 2)]]
           IN  IF \E i \in DOMAIN keyed : keyed[i][3].err # "ok" THEN Fails("Profile")
               ELSE IF \E i \in 1..(Len(sorted) - 1) : sorted[i][3] = sorted[i + 1][3]
               THEN Fails("DuplicateMapKey")
               ELSE encode_all(flat, write_head(5, U64(Len(sorted))))
      [] item.type = "tag" ->
           IF item.n # TAG_SIGN1 THEN Fails("Profile")
           ELSE encode_all(<<item.v>>, write_head(6, item.n))
      [] item.type = "negative" /\ item.n[1] >= 128 -> Fails("IntegerOutOfRange")
      [] OTHER -> Wrote(encode_scalar(item))

-----------------------------------------------------------------------------
(* One inbound message.  A decoder reads left to right, so only a message  *)
(* it wants more of, or has just accepted, is worth another byte.           *)

CborInit == input \in Starts

ReadByte ==
    /\ \E s \in Starts : IsPrefix(s, input) /\ Len(input) < Len(s) + MaxMore
    /\ decode(input).err \in {"ok", "UnexpectedEof"}
    /\ \E byte \in Alphabet : input' = Append(input, byte)

-----------------------------------------------------------------------------
(* What the values of the profile are, without the bytes.                   *)

RECURSIVE Fits(_, _)
Fits(item, depth) ==
    /\ depth <= Limits.nesting
    /\ CASE item.type \in {"unsigned", "false", "true", "null"} -> TRUE
         [] item.type = "negative" -> item.n[1] < 128
         [] item.type = "bytes" -> Len(item.b) <= Limits.bytes
         [] item.type = "text" -> Len(item.b) <= Limits.text
         [] item.type = "array" -> /\ Len(item.s) <= Limits.array
                                    /\ \A i \in DOMAIN item.s : Fits(item.s[i], depth + 1)
         [] item.type = "map" ->
              /\ Len(item.p) <= Limits.map
              /\ \A i \in DOMAIN item.p : \A c \in 1..2 : Fits(item.p[i][c], depth + 1)
              /\ \A i, j \in DOMAIN item.p : item.p[i][1] = item.p[j][1] => i = j
         [] item.type = "tag" -> Fits(item.v, depth + 1)

\* A value, and the signed integer of the same eight bytes, which may be out of range.
Variants(v) == {v} \cup {Negative(x.n) : x \in {y \in {v} : y.type = "unsigned"}}

\* The values built around a value: as an element, a key, an entry, a tagged item.
Around(v) ==
    LET null == Simple("null")
    IN  {ArrayOf(<<v>>), ArrayOf(<<null, v>>), TagOf(TAG_SIGN1, v), MapOf(<< <<v, null>> >>),
         MapOf(<< <<null, v>> >>), MapOf(<< <<v, null>>, <<null, v>> >>),
         MapOf(<< <<null, v>>, <<v, null>> >>)}

\* The decoder reads the value, with the entries of its map in some order.
SameValue(decoded, v) ==
    \/ decoded = v
    \/ v.type = "map" /\ decoded = MapOf(<<v.p[2], v.p[1]>>)

\* Hazard: one object with two encodings, or one byte string read as another
\* object.  Every message the decoder accepts is the one the encoder writes for
\* the value it read, whatever order a caller gives the map's entries in; so
\* equal digests are equal objects.
OneEncoding ==
    LET d == decode(input)
    IN  d.err = "ok" =>
          /\ encode(d.v) = Wrote(input)
          /\ d.v.type = "map" /\ Len(d.v.p) = 2 =>
               encode(MapOf(<<d.v.p[2], d.v.p[1]>>)) = Wrote(input)

\* Hazard: an in-memory value of the profile that cannot be sent, or one outside
\* it that can.  The encoder takes exactly the values within the limits and
\* without a repeated key, at every nesting, and the decoder gives them back.
EncodesTheProfile ==
    LET d == decode(input)
    IN  d.err = "ok" => \A v \in UNION {Around(x) : x \in Variants(d.v)} :
          LET e == encode(v)
              within == /\ Fits(v, 0)
                        /\ encode_into(v).err = "ok" => Len(encode_into(v).v) <= Limits.message
          IN  /\ (e.err = "ok") <=> within
              /\ e.err = "ok" => SameValue(decode(e.v).v, v)
=============================================================================
