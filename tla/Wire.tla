-------------------------------- MODULE Wire --------------------------------
(***************************************************************************)
(* The format: bytes, codecs and schemas, and what one call of a codec     *)
(* without parts writes and reads.  Module Encoding has what encode writes *)
(* of lists and instances.                                                 *)
(*                                                                         *)
(* An operator that may raise returns a set: empty if it raises, otherwise *)
(* with one element.  A value that may be None is a set too.  An instance  *)
(* is a record of its class and the values of its fields in schema order.  *)
(* A datetime is the text of its isoformat(), a float a whole number of    *)
(* the smallest float.                                                     *)
(***************************************************************************)
EXTENDS Integers, SequencesExt, FiniteSetsExt

CONSTANTS
  ByteBase,  \* values of a byte (256)
  MaxVar,    \* the largest VarUInt (2**64 - 1)
  TextOf(_, _),   \* bytes.decode(encoding): the text of bytes, if they are one
  BytesOf(_, _),  \* str.encode(encoding): the bytes of a text, if it has any
  NotEncodings,   \* codecs of Python's registry that are not for text
  Iso,       \* for the texts datetime.fromisoformat takes, the isoformat() of
             \* what it makes of them
  Codecs,    \* the codecs of all classes, with those they call
  Models     \* the schema of every class: constructor, order, header, fields
             \* and refuses, the arguments its __validate__ raises for

Byte == 0..(ByteBase - 1)

The(S) == CHOOSE x \in S : TRUE

FieldsOf(m) == Models[m].fields

\* UINT_CODEC_MAPPING: what a prefix or a header element may be encoded with.
IsUInt(codec) ==
  \/ codec.kind = "varint" /\ ~codec.signed
  \/ /\ codec.kind = "int" /\ ~codec.signed
     /\ codec.width \in Nat \ {0} /\ codec.length = codec.width

UInts == {c \in Codecs : IsUInt(c)}

\* What the constructors of the codecs make sure of.
IsCodec(codec) ==
  CASE codec.kind = "int" ->
         codec.width \in Nat /\ codec.length \in Nat /\ codec.signed \in BOOLEAN
    [] codec.kind = "float" ->
         /\ codec.width \in Nat /\ codec.length = codec.width /\ codec.signed
         /\ codec.step \in Nat \ {0}
    [] codec.kind = "varint" -> codec.signed \in BOOLEAN
    [] codec.kind = "bool" -> TRUE
    [] codec.kind \in {"fixed", "uuid"} -> codec.length \in Nat
    [] codec.kind \in {"bytes", "str", "datetime"} -> codec.prefix \in UInts
    [] codec.kind = "list" -> codec.prefix \in UInts /\ codec.item \in Codecs
    [] codec.kind = "enum" ->
         codec.value \in Codecs /\ codec.value.kind \notin {"enum", "list", "model"}
    [] codec.kind = "model" -> codec.model \in DOMAIN Models
    [] OTHER -> FALSE

\* A ModelSchema after __init_subclass__.
IsSchema(schema) ==
  /\ schema.header \in Seq([kind: {"Constructor", "PayloadLength", "Flags"}, codec: UInts])
  /\ schema.fields \in Seq([codec: Codecs, flag: SUBSET (0..63)])

ASSUME WireAssumption ==
  /\ ByteBase \in Nat /\ ByteBase > 2 /\ ByteBase % 2 = 0
  /\ MaxVar \in Nat
  /\ \A c \in Codecs : IsCodec(c)
  /\ \A m \in DOMAIN Models : IsSchema(Models[m])

-----------------------------------------------------------------------------
(* Integers.                                                               *)

Power[k \in Nat] == IF k = 0 THEN 1 ELSE ByteBase * Power[k - 1]

\* struct.pack and struct.unpack_from of an unsigned number of some width.
Ordered(bytes, order) == IF order = "big" THEN bytes ELSE Reverse(bytes)
Pack(n, width, order) ==
  Ordered([i \in 1..width |-> (n \div Power[width - i]) % ByteBase], order)
Unpacked(bytes, order) ==
  {n \in 0..(Power[Len(bytes)] - 1) : Pack(n, Len(bytes), order) = bytes}

\* Two's complement.
Wrapped(n, width) == IF n < 0 THEN n + Power[width] ELSE n
Unwrapped(n, width, signed) ==
  IF signed /\ 2 * n >= Power[width] THEN n - Power[width] ELSE n

Fits(n, width, signed) ==
  IF signed THEN -Power[width] <= 2 * n /\ 2 * n < Power[width]
  ELSE 0 <= n /\ n < Power[width]

\* The multiple of step next to x, the even one of two: what a narrower float
\* makes of a Python float.
Nearest(x, step) ==
  LET q == x \div step
      r == 2 * (x % step)
  IN IF r > step \/ (r = step /\ q % 2 = 1) THEN q + 1 ELSE q

\* The varint of a number; module VarUInt has the two loops.
Varint[n \in 0..MaxVar] ==
  LET group == ByteBase \div 2
  IN IF n < group THEN <<n>>
     ELSE <<(n % group) + group>> \o Varint[n \div group]

ZigZag(n) == IF n >= 0 THEN 2 * n ELSE 2 * (-n) - 1
UnZigZag(u) == IF u % 2 = 0 THEN u \div 2 ELSE -(u \div 2) - 1

-----------------------------------------------------------------------------
(* Encoding a value without parts.  One operator for each codec's encode.  *)

\* struct.pack refuses what does not fit.
IntegerBytes(codec, n, order) ==
  IF Fits(n, codec.width, codec.signed)
  THEN {Pack(Wrapped(n, codec.width), codec.width, order)} ELSE {}

VarUIntBytes(n) == IF n \in 0..MaxVar THEN {Varint[n]} ELSE {}
VarIntBytes(n) == VarUIntBytes(ZigZag(n))

NumberBytes(codec, n, order) ==
  IF codec.kind = "int" THEN IntegerBytes(codec, n, order)
  ELSE IF codec.signed THEN VarIntBytes(n)
  ELSE VarUIntBytes(n)

BoolBytes(value) == {IF value THEN <<1>> ELSE <<0>>}

FixedBytes(codec, value) == IF Len(value) = codec.length THEN {value} ELSE {}

\* The content behind its length.
Prefixed(prefix, content, order) ==
  {p \o content : p \in NumberBytes(prefix, Len(content), order)}

\* Mutant: the prefix counts characters.
StrBytes_Characters(codec, text, order) ==
  {p \o content : p \in NumberBytes(codec.prefix, Len(text), order),
                  content \in BytesOf(codec.encoding, text)}

\* The prefix counts what the encoding made, a byte order mark included.
StrBytes(codec, text, order) ==
  UNION {Prefixed(codec.prefix, content, order) :
           content \in BytesOf(codec.encoding, text)}

\* struct.pack rounds, and refuses what is then too large.
FloatBytes(codec, x, order) == IntegerBytes(codec, Nearest(x, codec.step), order)

UUIDBytes(codec, value) == FixedBytes(codec, value)
DatetimeBytes(codec, value, order) == StrBytes(codec, value, order)

PlainBytes(codec, value, order) ==
  CASE codec.kind \in {"int", "varint"} -> NumberBytes(codec, value, order)
    [] codec.kind = "bool" -> BoolBytes(value)
    [] codec.kind = "fixed" -> FixedBytes(codec, value)
    [] codec.kind = "bytes" -> Prefixed(codec.prefix, value, order)
    [] codec.kind = "str" -> StrBytes(codec, value, order)
    [] codec.kind = "float" -> FloatBytes(codec, value, order)
    [] codec.kind = "uuid" -> UUIDBytes(codec, value)
    [] codec.kind = "datetime" -> DatetimeBytes(codec, value, order)

EnumBytes(codec, member, order) == PlainBytes(codec.value, member, order)

LeafBytes(codec, value, order) ==
  IF codec.kind = "enum" THEN EnumBytes(codec, value, order)
  ELSE PlainBytes(codec, value, order)

-----------------------------------------------------------------------------
(* Decoding a value without parts: a pair of it and the offset after it.   *)

\* Mutant: the last byte of the buffer is not available.
Available_Strict(buffer, offset, size) == offset + size < Len(buffer)

\* check_available.
Available(buffer, offset, size) == offset + size <= Len(buffer)

Slice(buffer, offset, end) == SubSeq(buffer, offset + 1, end)

\* Where the content is that a length prefix just read announces.
PrefixedSpan(prefixes, buffer) ==
  {<<p[2], p[2] + p[1]>> :
     p \in {q \in prefixes : Available(buffer, q[2], q[1])}}

\* One operator for each codec's decode.
IntegerRead(codec, buffer, order, offset) ==
  IF Available(buffer, offset, codec.width)
  THEN {<<Unwrapped(n, codec.width, codec.signed), offset + codec.length>> :
          n \in Unpacked(Slice(buffer, offset, offset + codec.width), order)}
  ELSE {}

VarUIntRead(buffer, offset) ==
  {<<n, offset + Len(Varint[n])>> :
     n \in {m \in 0..MaxVar :
              /\ Available(buffer, offset, Len(Varint[m]))
              /\ Slice(buffer, offset, offset + Len(Varint[m])) = Varint[m]}}
VarIntRead(buffer, offset) ==
  {<<UnZigZag(r[1]), r[2]>> : r \in VarUIntRead(buffer, offset)}

NumberRead(codec, buffer, order, offset) ==
  IF codec.kind = "int" THEN IntegerRead(codec, buffer, order, offset)
  ELSE IF codec.signed THEN VarIntRead(buffer, offset)
  ELSE VarUIntRead(buffer, offset)

BoolRead(buffer, offset) ==
  IF Available(buffer, offset, 1) /\ buffer[offset + 1] \in {0, 1}
  THEN {<<buffer[offset + 1] = 1, offset + 1>>} ELSE {}

FixedRead(codec, buffer, offset) ==
  IF Available(buffer, offset, codec.length)
  THEN {<<Slice(buffer, offset, offset + codec.length), offset + codec.length>>}
  ELSE {}

BytesRead(codec, buffer, order, offset) ==
  {<<Slice(buffer, s[1], s[2]), s[2]>> :
     s \in PrefixedSpan(NumberRead(codec.prefix, buffer, order, offset), buffer)}

StrRead(codec, buffer, order, offset) ==
  UNION {{<<text, r[2]>> : text \in TextOf(codec.encoding, r[1])} :
           r \in BytesRead(codec, buffer, order, offset)}

FloatRead(codec, buffer, order, offset) ==
  {<<codec.step * r[1], r[2]>> : r \in IntegerRead(codec, buffer, order, offset)}

UUIDRead(codec, buffer, offset) == FixedRead(codec, buffer, offset)

DatetimeRead(codec, buffer, order, offset) ==
  {<<Iso[r[1]], r[2]>> :
     r \in {t \in StrRead(codec, buffer, order, offset) : t[1] \in DOMAIN Iso}}

PlainRead(codec, buffer, order, offset) ==
  CASE codec.kind \in {"int", "varint"} -> NumberRead(codec, buffer, order, offset)
    [] codec.kind = "bool" -> BoolRead(buffer, offset)
    [] codec.kind = "fixed" -> FixedRead(codec, buffer, offset)
    [] codec.kind = "bytes" -> BytesRead(codec, buffer, order, offset)
    [] codec.kind = "str" -> StrRead(codec, buffer, order, offset)
    [] codec.kind = "float" -> FloatRead(codec, buffer, order, offset)
    [] codec.kind = "uuid" -> UUIDRead(codec, buffer, offset)
    [] codec.kind = "datetime" -> DatetimeRead(codec, buffer, order, offset)

EnumRead(codec, buffer, order, offset) ==
  {r \in PlainRead(codec.value, buffer, order, offset) : r[1] \in codec.members}

Leaf(codec, buffer, order, offset) ==
  IF codec.kind = "enum" THEN EnumRead(codec, buffer, order, offset)
  ELSE PlainRead(codec, buffer, order, offset)

\* codecs.lookup found the encoding, but bytes.decode then refuses to use it:
\* LookupError, unless there is nothing to decode.
NoEncoding(codec, buffer, order, offset) ==
  LET text == IF codec.kind = "enum" THEN codec.value ELSE codec
  IN /\ text.kind \in {"str", "datetime"} /\ text.encoding \in NotEncodings
     /\ \E r \in BytesRead(text, buffer, order, offset) : r[1] # << >>

\* Codecs and the classes they name are built one from another.
Built(depth) ==
  /\ depth \in [Codecs -> Nat]
  /\ \A c \in Codecs :
       /\ c.kind = "enum" => depth[c.value] < depth[c]
       /\ c.kind = "list" => depth[c.item] < depth[c]
       /\ c.kind = "model" => \A i \in DOMAIN FieldsOf(c.model) :
                                depth[FieldsOf(c.model)[i].codec] < depth[c]

\* ICodec's contract, which IntegerCodec leaves to whoever passes struct_format
\* and length.
Lawful[codec \in Codecs] ==
  /\ codec.kind = "int" => codec.width = codec.length
  /\ codec.kind = "enum" => Lawful[codec.value]
  /\ codec.kind = "list" => Lawful[codec.item]
  /\ codec.kind = "model" =>
       \A i \in DOMAIN FieldsOf(codec.model) : Lawful[FieldsOf(codec.model)[i].codec]

LawfulClass(m) == \A i \in DOMAIN FieldsOf(m) : Lawful[FieldsOf(m)[i].codec]

\* ICodec's note on the items of a list: the codecs that advance by at least one
\* byte, whatever they read.
Advances[codec \in Codecs] ==
  /\ codec.kind \in {"int", "float", "fixed", "uuid"} => codec.length > 0
  /\ codec.kind = "enum" => Advances[codec.value]
  /\ codec.kind = "model" =>
       \/ \E i \in DOMAIN Models[codec.model].header :
            Models[codec.model].header[i].kind # "Constructor"
       \/ \E i \in DOMAIN FieldsOf(codec.model) :
            FieldsOf(codec.model)[i].flag = {} /\ Advances[FieldsOf(codec.model)[i].codec]

\* The bits of a number that Flags read; bit f of n is 0 unless f < n.
BitsOf(n) == {f \in 0..63 : f < n /\ (n \div 2^f) % 2 = 1}
=============================================================================
