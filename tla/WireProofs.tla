----------------------------- MODULE WireProofs -----------------------------
(***************************************************************************)
(* For every base, width, prefix and byte order: where a codec without     *)
(* parts stops reading, and that it reads what it wrote.                   *)
(***************************************************************************)
EXTENDS Wire, Recursion, SequenceTheorems, TLAPS

-----------------------------------------------------------------------------
(* What one call of a codec reads.                                         *)

LEMMA Rest ==
  ASSUME NEW g \in Nat, NEW n \in Nat, g > 1, n >= g
  PROVE  n \div g \in Nat /\ n \div g < n
<1>1. n % g \in 0..(g - 1) /\ n = g * (n \div g) + (n % g)
  OBVIOUS
<1>2. n \div g \in Int /\ n \div g >= 0
  OBVIOUS
<1>3. PICK q \in Nat : q = n \div g
  BY <1>2
<1>4. PICK r \in 0..(g - 1) : r = n % g
  BY <1>1
<1>5. n = g * q + r
  BY <1>1, <1>3, <1>4
<1>6. PICK e \in Nat : g = e + 2
  <2>1. g - 2 \in Nat /\ g = (g - 2) + 2
    OBVIOUS
  <2>2. QED BY <2>1
<1>7. g * q = (e * q + q) + q /\ e * q \in Nat
  BY <1>6
<1>8. q < n
  <2>1. CASE q = 0
    BY <2>1
  <2>2. CASE q > 0
    BY <2>2, <1>5, <1>7
  <2>3. QED BY <2>1, <2>2
<1>9. QED BY <1>3, <1>8

\* What Varint says of a number, given the codes of smaller ones.
Coded(f, n) ==
  IF n < ByteBase \div 2 THEN <<n>>
  ELSE <<(n % (ByteBase \div 2)) + ByteBase \div 2>> \o f[n \div (ByteBase \div 2)]

LEMMA VarintDefined ==
  \A n \in 0..MaxVar : Varint[n] = Coded(Varint, n) /\ Varint[n] \in Seq(Int) \ {<< >>}
<1>1. PICK S : S = 0..MaxVar
  OBVIOUS
<1>2. PICK V : V = Seq(Int) \ {<< >>}
  OBVIOUS
<1>3. PICK E : E = [p \in S \X [S -> V] |-> Coded(p[2], p[1])]
  OBVIOUS
<1>4. \A n \in S : \A f \in [S -> V] : E[<<n, f>>] = Coded(f, n)
  BY <1>3
<1>5. PICK depth : depth = [n \in S |-> n]
  OBVIOUS
<1>6. depth \in [S -> Nat] /\ \A n \in S : depth[n] = n
  BY <1>1, <1>5, WireAssumption
<1>7. PICK group \in Nat : group = ByteBase \div 2 /\ group > 1
  BY WireAssumption
<1>8. \A n \in S : ~(n < group) => n \div group \in S /\ depth[n \div group] < depth[n]
  <2> TAKE n \in S
  <2> HAVE ~(n < group)
  <2>1. n \in Nat /\ MaxVar \in Nat /\ n <= MaxVar
    BY <1>1, WireAssumption
  <2>2. n \div group \in Nat /\ n \div group < n
    BY <2>1, <1>7, Rest
  <2>3. PICK q \in Nat : q = n \div group
    BY <2>2
  <2>4. q \in S /\ q < n
    BY <1>1, <2>1, <2>2, <2>3
  <2>5. QED BY <1>6, <2>3, <2>4
<1>9. ASSUME NEW n \in S, NEW f, ~(n < group) => f[n \div group] \in V
      PROVE  Coded(f, n) \in V
  <2>1. n \in Nat
    BY <1>1, WireAssumption
  <2>2. CASE n < group
    BY <2>1, <2>2, <1>2, <1>7 DEF Coded
  <2>3. CASE ~(n < group)
    <3>1. PICK t \in Seq(Int) : t = f[n \div group]
      BY <1>2, <1>9, <2>3
    <3>2. PICK d \in Int : d = (n % group) + group
      <4>1. (n % group) + group \in Int
        BY <1>7, <2>1
      <4>2. QED BY <4>1
    <3>3. Coded(f, n) = <<d>> \o t
      BY <1>7, <2>3, <3>1, <3>2 DEF Coded
    <3>4. <<d>> \o t \in Seq(Int) /\ Len(<<d>> \o t) = Len(t) + 1 /\ Len(t) \in Nat
      BY <3>1, <3>2
    <3>5. QED BY <1>2, <3>3, <3>4
  <2>4. QED BY <2>2, <2>3
<1>10. \E f : f = [n \in S |-> Coded(f, n)]
  <2>1. E \in [S \X [S -> V] -> V]
    <3>1. \A n \in S : \A f \in [S -> V] : Coded(f, n) \in V
      BY <1>8, <1>9
    <3>2. QED BY <1>3, <3>1
  <2>2. ASSUME NEW n \in S, NEW f \in [S -> V], NEW g \in [S -> V],
               \A m \in S : depth[m] < depth[n] => f[m] = g[m]
        PROVE  E[<<n, f>>] = E[<<n, g>>]
    <3>1. ~(n < group) => f[n \div group] = g[n \div group]
      BY <1>8, <2>2
    <3>2. Coded(f, n) = Coded(g, n)
      BY <3>1, <1>7 DEF Coded
    <3>3. QED BY <1>4, <3>2
  <2>3. <<0>> \in V
    BY <1>2
  <2>4. Descends(E, S, V, depth)
    BY <1>6, <2>1, <2>2, <2>3 DEF Descends
  <2>5. PICK f \in [S -> V] : \A n \in S : f[n] = E[<<n, f>>]
    BY <2>4, Recursive
  <2>6. f = [n \in S |-> Coded(f, n)]
    BY <1>4, <2>5
  <2>7. QED BY <2>6
<1>11. Varint = [n \in S |-> Coded(Varint, n)]
  <2>1. Varint = CHOOSE f : f = [n \in 0..MaxVar |-> Coded(f, n)]
    BY Zenon DEF Varint, Coded
  <2>2. QED BY <1>1, <1>10, <2>1
<1>12. \A n \in S : Varint[n] = Coded(Varint, n)
  BY <1>11
<1>13. S \subseteq {n \in S : Varint[n] \in V}
  <2> DEFINE P == {n \in S : Varint[n] \in V}
  <2>1. \A n \in S : (\A m \in S : depth[m] < depth[n] => m \in P) => n \in P
    BY <1>8, <1>9, <1>12
  <2> HIDE DEF P
  <2>2. S \subseteq P
    BY <1>6, <2>1, Induction
  <2>3. QED BY <2>2 DEF P
<1>14. QED BY <1>1, <1>2, <1>12, <1>13

LEMMA VarintLength ==
  \A n \in 0..MaxVar : Len(Varint[n]) \in Nat \ {0}
<1>1. \A v \in Seq(Int) \ {<< >>} : Len(v) \in Nat \ {0}
  OBVIOUS
<1>2. QED BY <1>1, VarintDefined

LEMMA IntegerReads ==
  ASSUME NEW codec, codec.width \in Nat, codec.length \in Nat,
         NEW buffer_ \in Seq(Byte), NEW order, NEW from \in Nat,
         NEW r \in IntegerRead(codec, buffer_, order, from)
  PROVE  /\ r[2] = from + codec.length
         /\ from + codec.width <= Len(buffer_)
         /\ ~codec.signed => r[1] \in Nat
<1>1. PICK n \in Unpacked(Slice(buffer_, from, from + codec.width), order) :
        r = <<Unwrapped(n, codec.width, codec.signed), from + codec.length>>
  BY DEF IntegerRead
<1>2. n \in Nat
  BY DEF Unpacked
<1>3. from + codec.width <= Len(buffer_)
  BY DEF IntegerRead, Available
<1>4. QED BY <1>1, <1>2, <1>3 DEF Unwrapped

LEMMA VarUIntReads ==
  ASSUME NEW buffer_ \in Seq(Byte), NEW from \in Nat, NEW r \in VarUIntRead(buffer_, from)
  PROVE  r[1] \in Nat /\ r[2] \in Nat /\ r[2] > from /\ r[2] <= Len(buffer_)
<1>1. PICK n \in 0..MaxVar : /\ r = <<n, from + Len(Varint[n])>>
                            /\ from + Len(Varint[n]) <= Len(buffer_)
  BY DEF VarUIntRead, Available
<1>2. n \in Nat /\ Len(Varint[n]) \in Nat \ {0}
  BY VarintLength, WireAssumption
<1>3. QED BY <1>1, <1>2

LEMMA UIntReads ==
  ASSUME NEW codec \in UInts, NEW buffer_ \in Seq(Byte), NEW order, NEW from \in Nat,
         NEW r \in NumberRead(codec, buffer_, order, from)
  PROVE  r[1] \in Nat /\ r[2] \in Nat /\ r[2] > from /\ r[2] <= Len(buffer_)
<1>1. CASE codec.kind = "varint" /\ ~codec.signed
  BY <1>1, VarUIntReads DEF NumberRead
<1>2. CASE /\ codec.kind = "int" /\ ~codec.signed
           /\ codec.width \in Nat \ {0} /\ codec.length = codec.width
  <2>1. /\ r[2] = from + codec.length /\ from + codec.width <= Len(buffer_)
        /\ r[1] \in Nat
    BY <1>2, IntegerReads DEF NumberRead
  <2>2. QED BY <1>2, <2>1
<1>3. QED BY <1>1, <1>2 DEF UInts, IsUInt

\* The content behind a length prefix.
LEMMA SpanInside ==
  ASSUME NEW codec \in UInts, NEW buffer_ \in Seq(Byte), NEW order, NEW from \in Nat,
         NEW s \in PrefixedSpan(NumberRead(codec, buffer_, order, from), buffer_)
  PROVE  s[1] \in Nat /\ s[2] \in Nat /\ from < s[1] /\ s[1] <= s[2] /\ s[2] <= Len(buffer_)
<1>1. PICK p \in NumberRead(codec, buffer_, order, from) :
        s = <<p[2], p[2] + p[1]>> /\ p[2] + p[1] <= Len(buffer_)
  BY DEF PrefixedSpan, Available
<1>2. p[1] \in Nat /\ p[2] \in Nat /\ p[2] > from
  BY UIntReads
<1>3. QED BY <1>1, <1>2

LEMMA BytesReads ==
  ASSUME NEW codec, codec.prefix \in UInts,
         NEW buffer_ \in Seq(Byte), NEW order, NEW from \in Nat,
         NEW r \in BytesRead(codec, buffer_, order, from)
  PROVE  r[2] \in Nat /\ from <= r[2] /\ r[2] <= Len(buffer_)
<1>1. PICK s \in PrefixedSpan(NumberRead(codec.prefix, buffer_, order, from), buffer_) :
        r[2] = s[2]
  BY DEF BytesRead
<1>2. QED BY <1>1, SpanInside

\* What a codec of the library returns: an offset, inside the buffer if the
\* codec is lawful.
PlainKinds == {"int", "varint", "bool", "fixed", "bytes", "str", "float", "uuid", "datetime"}

LEMMA PlainReads ==
  ASSUME NEW codec \in Codecs, codec.kind \in PlainKinds,
         NEW buffer_ \in Seq(Byte), NEW order, NEW from \in Nat,
         NEW r \in PlainRead(codec, buffer_, order, from)
  PROVE  /\ r[2] \in Nat
         /\ (codec.kind = "int" => codec.width = codec.length) =>
              from <= r[2] /\ r[2] <= Len(buffer_)
<1>0. IsCodec(codec)
  BY WireAssumption
<1>1. CASE codec.kind = "int"
  <2>1. codec.width \in Nat /\ codec.length \in Nat
    BY <1>0, <1>1 DEF IsCodec
  <2>2. r[2] = from + codec.length /\ from + codec.width <= Len(buffer_)
    BY <1>1, <2>1, IntegerReads DEF PlainRead, NumberRead
  <2>3. QED BY <1>1, <2>1, <2>2
<1>2. CASE codec.kind = "varint"
  <2>1. CASE codec.signed
    <3>1. r \in VarIntRead(buffer_, from)
      BY <1>2, <2>1 DEF PlainRead, NumberRead
    <3>2. PICK p \in VarUIntRead(buffer_, from) : r[2] = p[2]
      BY <3>1 DEF VarIntRead
    <3>3. QED BY <3>2, VarUIntReads
  <2>2. CASE ~codec.signed
    <3>1. r \in VarUIntRead(buffer_, from)
      BY <1>2, <2>2 DEF PlainRead, NumberRead
    <3>2. QED BY <3>1, VarUIntReads
  <2>3. QED BY <2>1, <2>2
<1>3. CASE codec.kind = "bool"
  <2>1. r \in BoolRead(buffer_, from)
    BY <1>3 DEF PlainRead
  <2>2. r[2] = from + 1 /\ from + 1 <= Len(buffer_)
    BY <2>1 DEF BoolRead, Available
  <2>3. QED BY <1>3, <2>2
<1>4. CASE codec.kind \in {"fixed", "uuid"}
  <2>1. codec.length \in Nat
    BY <1>0, <1>4 DEF IsCodec
  <2>2. r \in FixedRead(codec, buffer_, from)
    BY <1>4 DEF PlainRead, UUIDRead
  <2>3. QED BY <2>1, <2>2 DEF FixedRead, Available
<1>5. CASE codec.kind \in {"bytes", "str", "datetime"}
  <2>1. codec.prefix \in UInts
    BY <1>0, <1>5 DEF IsCodec
  <2>2. CASE codec.kind = "bytes"
    BY <2>1, <2>2, BytesReads DEF PlainRead
  <2>3. CASE codec.kind = "str"
    <3>1. r \in StrRead(codec, buffer_, order, from)
      BY <2>3 DEF PlainRead
    <3>2. PICK t \in BytesRead(codec, buffer_, order, from) : r[2] = t[2]
      BY <3>1 DEF StrRead
    <3>3. QED BY <2>1, <3>2, BytesReads
  <2>4. CASE codec.kind = "datetime"
    <3>1. r \in DatetimeRead(codec, buffer_, order, from)
      BY <2>4 DEF PlainRead
    <3>2. PICK t \in BytesRead(codec, buffer_, order, from) : r[2] = t[2]
      BY <3>1 DEF DatetimeRead, StrRead
    <3>3. QED BY <2>1, <3>2, BytesReads
  <2>5. QED BY <1>5, <2>2, <2>3, <2>4
<1>6. CASE codec.kind = "float"
  <2>1. codec.width \in Nat /\ codec.length = codec.width
    BY <1>0, <1>6 DEF IsCodec
  <2>2. r \in FloatRead(codec, buffer_, order, from)
    BY <1>6 DEF PlainRead
  <2>3. PICK p \in IntegerRead(codec, buffer_, order, from) : r[2] = p[2]
    BY <2>2 DEF FloatRead
  <2>4. p[2] = from + codec.length /\ from + codec.width <= Len(buffer_)
    BY <2>1, IntegerReads
  <2>5. QED BY <2>1, <2>3, <2>4
<1>7. QED BY <1>1, <1>2, <1>3, <1>4, <1>5, <1>6 DEF PlainKinds

-----------------------------------------------------------------------------
(* ICodec's contract.                                                      *)

\* A codec is made from others that are there, and a class after the classes its
\* fields name: nothing contains itself.
CodecsBuilt == \E depth : Built(depth)

LawfulBy(f, codec) ==
  /\ codec.kind = "int" => codec.width = codec.length
  /\ codec.kind = "enum" => f[codec.value]
  /\ codec.kind = "list" => f[codec.item]
  /\ codec.kind = "model" =>
       \A i \in DOMAIN FieldsOf(codec.model) : f[FieldsOf(codec.model)[i].codec]

LEMMA CodecParts ==
  ASSUME NEW codec \in Codecs
  PROVE  /\ codec.kind = "enum" => codec.value \in Codecs /\ codec.value.kind \in PlainKinds
         /\ codec.kind = "list" => codec.item \in Codecs /\ codec.prefix \in UInts
         /\ codec.kind = "model" =>
              /\ codec.model \in DOMAIN Models
              /\ \A i \in DOMAIN FieldsOf(codec.model) :
                   FieldsOf(codec.model)[i].codec \in Codecs
         /\ codec.kind \in PlainKinds \cup {"enum", "list", "model"}
<1>1. IsCodec(codec)
  BY WireAssumption
<1>2. codec.kind \in PlainKinds \cup {"enum", "list", "model"}
  BY <1>1 DEF IsCodec, PlainKinds
<1>3. codec.kind = "enum" => codec.value \in Codecs /\ codec.value.kind \in PlainKinds
  <2> HAVE codec.kind = "enum"
  <2>1. codec.value \in Codecs /\ codec.value.kind \notin {"enum", "list", "model"}
    BY <1>1 DEF IsCodec
  <2>2. IsCodec(codec.value)
    BY <2>1, WireAssumption
  <2>3. codec.value.kind \in PlainKinds
    BY <2>1, <2>2 DEF IsCodec, PlainKinds
  <2>4. QED BY <2>1, <2>3
<1>4. codec.kind = "list" => codec.item \in Codecs /\ codec.prefix \in UInts
  BY <1>1 DEF IsCodec
<1>5. codec.kind = "model" =>
        /\ codec.model \in DOMAIN Models
        /\ \A i \in DOMAIN FieldsOf(codec.model) : FieldsOf(codec.model)[i].codec \in Codecs
  <2> HAVE codec.kind = "model"
  <2>1. codec.model \in DOMAIN Models
    BY <1>1 DEF IsCodec
  <2>2. Models[codec.model].fields \in Seq([codec: Codecs, flag: SUBSET (0..63)])
    BY <2>1, WireAssumption DEF IsSchema
  <2>3. \A i \in DOMAIN FieldsOf(codec.model) :
          FieldsOf(codec.model)[i] \in [codec: Codecs, flag: SUBSET (0..63)]
    <3>1. PICK T : T = [codec: Codecs, flag: SUBSET (0..63)]
      OBVIOUS
    <3>2. PICK t \in Seq(T) : t = FieldsOf(codec.model)
      BY <2>2, <3>1 DEF FieldsOf
    <3>3. \A i \in DOMAIN t : t[i] \in T
      BY <3>2
    <3>4. QED BY <3>1, <3>2, <3>3
  <2>4. QED BY <2>1, <2>3
<1>6. QED BY <1>2, <1>3, <1>4, <1>5

LEMMA LawfulDefined ==
  ASSUME CodecsBuilt
  PROVE  \A c \in Codecs : Lawful[c] = LawfulBy(Lawful, c)
<1>1. PICK depth : Built(depth)
  BY DEF CodecsBuilt
<1>2. PICK S : S = Codecs
  OBVIOUS
<1>3. PICK E : E = [p \in S \X [S -> BOOLEAN] |-> LawfulBy(p[2], p[1])]
  OBVIOUS
<1>4. \A c \in S : \A f \in [S -> BOOLEAN] : E[<<c, f>>] = LawfulBy(f, c)
  BY <1>3
<1>5. \A c \in S : \A f \in [S -> BOOLEAN] : LawfulBy(f, c) \in BOOLEAN
  <2> TAKE c \in S
  <2> TAKE f \in [S -> BOOLEAN]
  <2>1. c.kind = "enum" => f[c.value] \in BOOLEAN
    BY <1>2, CodecParts
  <2>2. c.kind = "list" => f[c.item] \in BOOLEAN
    BY <1>2, CodecParts
  <2>3. (c.width = c.length) \in BOOLEAN
    OBVIOUS
  <2>4. (\A i \in DOMAIN FieldsOf(c.model) : f[FieldsOf(c.model)[i].codec]) \in BOOLEAN
    OBVIOUS
  <2>5. QED BY <2>1, <2>2, <2>3, <2>4 DEF LawfulBy
<1>6. ASSUME NEW c \in S, NEW f \in [S -> BOOLEAN], NEW g \in [S -> BOOLEAN],
             \A d \in S : depth[d] < depth[c] => f[d] = g[d]
      PROVE  E[<<c, f>>] = E[<<c, g>>]
  <2>1. c.kind = "enum" => f[c.value] = g[c.value]
    BY <1>1, <1>2, <1>6, CodecParts DEF Built
  <2>2. c.kind = "list" => f[c.item] = g[c.item]
    BY <1>1, <1>2, <1>6, CodecParts DEF Built
  <2>3. c.kind = "model" => \A i \in DOMAIN FieldsOf(c.model) :
          f[FieldsOf(c.model)[i].codec] = g[FieldsOf(c.model)[i].codec]
    BY <1>1, <1>2, <1>6, CodecParts DEF Built
  <2>4. LawfulBy(f, c) = LawfulBy(g, c)
    BY <2>1, <2>2, <2>3 DEF LawfulBy
  <2>5. QED BY <1>4, <2>4
<1>7. \E f : f = [c \in S |-> LawfulBy(f, c)]
  <2>1. E \in [S \X [S -> BOOLEAN] -> BOOLEAN]
    BY <1>3, <1>5
  <2>2. depth \in [S -> Nat] /\ TRUE \in BOOLEAN
    BY <1>1, <1>2 DEF Built
  <2>3. Descends(E, S, BOOLEAN, depth)
    BY <1>6, <2>1, <2>2 DEF Descends
  <2>4. PICK f \in [S -> BOOLEAN] : \A c \in S : f[c] = E[<<c, f>>]
    BY <2>3, Recursive
  <2>5. f = [c \in S |-> LawfulBy(f, c)]
    BY <1>4, <2>4
  <2>6. QED BY <2>5
<1>8. Lawful = CHOOSE f : f = [c \in S |-> LawfulBy(f, c)]
  BY <1>2, Zenon DEF Lawful, LawfulBy
<1>9. QED BY <1>2, <1>7, <1>8

\* What a lawful codec is made of is lawful.
LEMMA LawfulParts ==
  ASSUME CodecsBuilt, NEW codec \in Codecs, Lawful[codec]
  PROVE  /\ codec.kind = "int" => codec.width = codec.length
         /\ codec.kind = "enum" => Lawful[codec.value]
         /\ codec.kind = "list" => Lawful[codec.item]
         /\ codec.kind = "model" => LawfulClass(codec.model)
<1>1. LawfulBy(Lawful, codec)
  BY LawfulDefined
<1>2. QED BY <1>1 DEF LawfulBy, LawfulClass

-----------------------------------------------------------------------------
(* Codecs that advance.                                                    *)

AdvancesBy(f, codec) ==
  /\ codec.kind \in {"int", "float", "fixed", "uuid"} => codec.length > 0
  /\ codec.kind = "enum" => f[codec.value]
  /\ codec.kind = "model" =>
       \/ \E i \in DOMAIN Models[codec.model].header :
            Models[codec.model].header[i].kind # "Constructor"
       \/ \E i \in DOMAIN FieldsOf(codec.model) :
            FieldsOf(codec.model)[i].flag = {} /\ f[FieldsOf(codec.model)[i].codec]

LEMMA AdvancesDefined ==
  ASSUME CodecsBuilt
  PROVE  \A c \in Codecs : Advances[c] = AdvancesBy(Advances, c)
<1>1. PICK depth : Built(depth)
  BY DEF CodecsBuilt
<1>2. PICK S : S = Codecs
  OBVIOUS
<1>3. PICK E : E = [p \in S \X [S -> BOOLEAN] |-> AdvancesBy(p[2], p[1])]
  OBVIOUS
<1>4. \A c \in S : \A f \in [S -> BOOLEAN] : E[<<c, f>>] = AdvancesBy(f, c)
  BY <1>3
<1>5. \A c \in S : \A f \in [S -> BOOLEAN] : AdvancesBy(f, c) \in BOOLEAN
  BY DEF AdvancesBy
<1>6. ASSUME NEW c \in S, NEW f \in [S -> BOOLEAN], NEW g \in [S -> BOOLEAN],
             \A d \in S : depth[d] < depth[c] => f[d] = g[d]
      PROVE  E[<<c, f>>] = E[<<c, g>>]
  <2>1. c.kind = "enum" => f[c.value] = g[c.value]
    BY <1>1, <1>2, <1>6, CodecParts DEF Built
  <2>2. c.kind = "model" => \A i \in DOMAIN FieldsOf(c.model) :
          f[FieldsOf(c.model)[i].codec] = g[FieldsOf(c.model)[i].codec]
    BY <1>1, <1>2, <1>6, CodecParts DEF Built
  <2>3. AdvancesBy(f, c) = AdvancesBy(g, c)
    BY <2>1, <2>2 DEF AdvancesBy
  <2>4. QED BY <1>4, <2>3
<1>7. \E f : f = [c \in S |-> AdvancesBy(f, c)]
  <2>1. E \in [S \X [S -> BOOLEAN] -> BOOLEAN]
    BY <1>3, <1>5
  <2>2. depth \in [S -> Nat] /\ TRUE \in BOOLEAN
    BY <1>1, <1>2 DEF Built
  <2>3. Descends(E, S, BOOLEAN, depth)
    BY <1>6, <2>1, <2>2 DEF Descends
  <2>4. PICK f \in [S -> BOOLEAN] : \A c \in S : f[c] = E[<<c, f>>]
    BY <2>3, Recursive
  <2>5. f = [c \in S |-> AdvancesBy(f, c)]
    BY <1>4, <2>4
  <2>6. QED BY <2>5
<1>8. Advances = CHOOSE f : f = [c \in S |-> AdvancesBy(f, c)]
  BY <1>2, Zenon DEF Advances, AdvancesBy
<1>9. QED BY <1>2, <1>7, <1>8

\* What advances in a codec that does.
LEMMA AdvancesParts ==
  ASSUME CodecsBuilt, NEW codec \in Codecs, Advances[codec]
  PROVE  AdvancesBy(Advances, codec)
BY AdvancesDefined

\* A codec of the library never goes back, and goes on if it advances.
LEMMA PlainAdvances ==
  ASSUME NEW codec \in Codecs, codec.kind \in PlainKinds,
         NEW buffer_ \in Seq(Byte), NEW order, NEW from \in Nat,
         NEW r \in PlainRead(codec, buffer_, order, from)
  PROVE  /\ r[2] \in Nat /\ from <= r[2]
         /\ (codec.kind \in {"int", "float", "fixed", "uuid"} => codec.length > 0) =>
              from < r[2]
<1>0. IsCodec(codec)
  BY WireAssumption
<1>1. CASE codec.kind = "int"
  <2>1. codec.width \in Nat /\ codec.length \in Nat
    BY <1>0, <1>1 DEF IsCodec
  <2>2. r[2] = from + codec.length
    BY <1>1, <2>1, IntegerReads DEF PlainRead, NumberRead
  <2>3. QED BY <1>1, <2>1, <2>2
<1>2. CASE codec.kind = "varint"
  <2>1. CASE codec.signed
    <3>1. r \in VarIntRead(buffer_, from)
      BY <1>2, <2>1 DEF PlainRead, NumberRead
    <3>2. PICK p \in VarUIntRead(buffer_, from) : r[2] = p[2]
      BY <3>1 DEF VarIntRead
    <3>3. QED BY <3>2, VarUIntReads
  <2>2. CASE ~codec.signed
    <3>1. r \in VarUIntRead(buffer_, from)
      BY <1>2, <2>2 DEF PlainRead, NumberRead
    <3>2. QED BY <3>1, VarUIntReads
  <2>3. QED BY <2>1, <2>2
<1>3. CASE codec.kind = "bool"
  <2>1. r \in BoolRead(buffer_, from)
    BY <1>3 DEF PlainRead
  <2>2. r[2] = from + 1
    BY <2>1 DEF BoolRead
  <2>3. QED BY <2>2
<1>4. CASE codec.kind \in {"fixed", "uuid"}
  <2>1. codec.length \in Nat
    BY <1>0, <1>4 DEF IsCodec
  <2>2. r \in FixedRead(codec, buffer_, from)
    BY <1>4 DEF PlainRead, UUIDRead
  <2>3. r[2] = from + codec.length
    BY <2>2 DEF FixedRead
  <2>4. QED BY <1>4, <2>1, <2>3
<1>5. CASE codec.kind \in {"bytes", "str", "datetime"}
  <2>1. codec.prefix \in UInts
    BY <1>0, <1>5 DEF IsCodec
  <2>2. PICK t \in BytesRead(codec, buffer_, order, from) : r[2] = t[2]
    BY <1>5 DEF PlainRead, StrRead, DatetimeRead
  <2>3. PICK s \in PrefixedSpan(NumberRead(codec.prefix, buffer_, order, from), buffer_) :
          t[2] = s[2]
    BY DEF BytesRead
  <2>4. s[1] \in Nat /\ s[2] \in Nat /\ from < s[1] /\ s[1] <= s[2]
    BY <2>1, SpanInside
  <2>5. QED BY <2>2, <2>3, <2>4
<1>6. CASE codec.kind = "float"
  <2>1. codec.width \in Nat /\ codec.length = codec.width
    BY <1>0, <1>6 DEF IsCodec
  <2>2. r \in FloatRead(codec, buffer_, order, from)
    BY <1>6 DEF PlainRead
  <2>3. PICK p \in IntegerRead(codec, buffer_, order, from) : r[2] = p[2]
    BY <2>2 DEF FloatRead
  <2>4. p[2] = from + codec.length
    BY <2>1, IntegerReads
  <2>5. QED BY <1>6, <2>1, <2>3, <2>4
<1>7. QED BY <1>1, <1>2, <1>3, <1>4, <1>5, <1>6 DEF PlainKinds

-----------------------------------------------------------------------------
(* Numbers in a fixed number of bytes.                                     *)

LEMMA PowerDefined ==
  /\ Power[0] = 1
  /\ \A k \in Nat : Power[k] \in Nat \ {0} /\ Power[k + 1] = ByteBase * Power[k]
<1> DEFINE Step(f, k) == IF k = 0 THEN 1 ELSE ByteBase * f[k - 1]
<1>1. PICK V : V = Nat \ {0}
  OBVIOUS
<1>2. PICK E : E = [p \in Nat \X [Nat -> V] |-> Step(p[2], p[1])]
  OBVIOUS
<1>3. PICK depth : depth = [k \in Nat |-> k]
  OBVIOUS
<1>4. depth \in [Nat -> Nat] /\ \A k \in Nat : depth[k] = k
  BY <1>3
<1>5. ByteBase \in V
  BY <1>1, WireAssumption
<1>6. \A a, b \in V : a * b \in V
  BY <1>1
<1>7. \A k \in Nat : k = 0 \/ k - 1 \in Nat
  OBVIOUS
<1>8. \A k \in Nat : \A f \in [Nat -> V] : Step(f, k) \in V
  BY <1>1, <1>5, <1>6, <1>7
<1>9. \A k \in Nat : \A f \in [Nat -> V] : E[<<k, f>>] = Step(f, k)
  BY <1>2
<1>10. E \in [Nat \X [Nat -> V] -> V]
  <2> HIDE DEF Step
  <2>1. QED BY <1>2, <1>8
<1>11. ASSUME NEW k \in Nat, NEW f \in [Nat -> V], NEW g \in [Nat -> V],
             \A j \in Nat : depth[j] < depth[k] => f[j] = g[j]
       PROVE  E[<<k, f>>] = E[<<k, g>>]
  <2>1. k = 0 \/ (k - 1 \in Nat /\ k - 1 < k)
    OBVIOUS
  <2>2. k = 0 \/ f[k - 1] = g[k - 1]
    BY <1>4, <1>11, <2>1
  <2>3. Step(f, k) = Step(g, k)
    BY <2>2
  <2> HIDE DEF Step
  <2>4. QED BY <1>9, <2>3
<1>12. Descends(E, Nat, V, depth)
  BY <1>4, <1>5, <1>10, <1>11 DEF Descends
<1>13. PICK f \in [Nat -> V] : \A k \in Nat : f[k] = E[<<k, f>>]
  BY <1>12, Recursive
<1>14. f = [k \in Nat |-> Step(f, k)]
  <2> HIDE DEF Step
  <2>1. QED BY <1>9, <1>13
<1>15. Power = CHOOSE g : g = [k \in Nat |-> Step(g, k)]
  BY Zenon DEF Power
<1>16. Power = [k \in Nat |-> Step(Power, k)]
  <2> HIDE DEF Step
  <2>1. QED BY <1>14, <1>15
<1>17. \A k \in Nat : Power[k] = IF k = 0 THEN 1 ELSE ByteBase * Power[k - 1]
  BY <1>16
<1>18. ASSUME NEW k \in Nat PROVE Power[k + 1] = ByteBase * Power[k]
  <2>1. k + 1 \in Nat /\ k + 1 # 0 /\ (k + 1) - 1 = k
    OBVIOUS
  <2>2. QED BY <1>17, <2>1
<1>19. \A k \in Nat : Power[k] \in V
  <2> DEFINE P == {k \in Nat : Power[k] \in V}
  <2>1. 0 \in P
    BY <1>1, <1>17
  <2>2. \A k \in Nat : k \in P => k + 1 \in P
    BY <1>5, <1>6, <1>18
  <2> HIDE DEF P
  <2>3. Nat \subseteq P
    BY <2>1, <2>2, Counting
  <2>4. QED BY <2>3 DEF P
<1>20. QED BY <1>1, <1>17, <1>18, <1>19

LEMMA Divide ==
  ASSUME NEW n \in Nat, NEW g \in Nat \ {0}
  PROVE  /\ n = g * (n \div g) + (n % g)
         /\ n % g \in 0..(g - 1) /\ n \div g \in Nat
<1>1. n % g \in 0..(g - 1) /\ n = g * (n \div g) + (n % g)
  OBVIOUS
<1>2. n \div g \in Int /\ n \div g >= 0
  OBVIOUS
<1>3. QED BY <1>1, <1>2

LEMMA DivideTwice ==
  ASSUME NEW n \in Nat, NEW p \in Nat \ {0}, NEW g \in Nat \ {0}
  PROVE  (n \div p) \div g = n \div (g * p)
<1>1. (n \div p) \div g = n \div (p * g)
  OBVIOUS
<1>2. p * g = g * p
  OBVIOUS
<1>3. QED BY <1>1, <1>2

Digit(n, k) == (n \div Power[k]) % ByteBase

\* A number is known by its digits.
LEMMA SameDigits ==
  ASSUME NEW n \in Nat, NEW m \in Nat, NEW w \in Nat, n < Power[w], m < Power[w],
         \A k \in Nat : k < w => Digit(n, k) = Digit(m, k)
  PROVE  n = m
<1> DEFINE Above(k) == k <= w => n \div Power[w - k] = m \div Power[w - k]
           P == {k \in Nat : Above(k)}
<1>1. \A k \in Nat : Power[k] \in Nat \ {0} /\ Power[k + 1] = ByteBase * Power[k]
  BY PowerDefined
<1>2. 0 \in P
  <2>1. PICK p \in Nat \ {0} : p = Power[w] /\ n < p /\ m < p
    BY <1>1
  <2>2. n \div p = 0 /\ m \div p = 0
    BY <2>1
  <2>3. w - 0 = w
    OBVIOUS
  <2>4. QED BY <2>1, <2>2, <2>3
<1>3. ASSUME NEW k \in Nat, k \in P PROVE k + 1 \in P
  <2>1. SUFFICES ASSUME k + 1 <= w
                 PROVE  n \div Power[w - (k + 1)] = m \div Power[w - (k + 1)]
    OBVIOUS
  <2>2. PICK j \in Nat : j = w - (k + 1) /\ j + 1 = w - k /\ j < w /\ k <= w
    <3>1. w - (k + 1) \in Nat /\ (w - (k + 1)) + 1 = w - k /\ w - (k + 1) < w /\ k <= w
      BY <2>1
    <3>2. QED BY <3>1
  <2>3. n \div Power[j + 1] = m \div Power[j + 1]
    BY <1>3, <2>2
  <2>4. PICK p \in Nat \ {0} : p = Power[j] /\ Power[j + 1] = ByteBase * p
    BY <1>1
  <2>5. PICK g \in Nat \ {0} : g = ByteBase
    BY WireAssumption
  <2>6. PICK a \in Nat, b \in Nat : a = n \div p /\ b = m \div p
    BY Divide
  <2>7. a \div g = b \div g
    BY <2>3, <2>4, <2>5, <2>6, DivideTwice
  <2>8. a % g = b % g
    BY <2>2, <2>4, <2>5, <2>6 DEF Digit
  <2>9. a = b
    <3>1. a = g * (a \div g) + (a % g) /\ b = g * (b \div g) + (b % g)
      BY Divide
    <3>2. QED BY <2>7, <2>8, <3>1
  <2>10. QED BY <2>2, <2>4, <2>6, <2>9
<1> HIDE DEF P
<1>4. Nat \subseteq P
  BY <1>2, <1>3, Counting
<1>5. n \div Power[w - w] = m \div Power[w - w]
  BY <1>4 DEF P
<1>6. w - w = 0 /\ n \div 1 = n /\ m \div 1 = m
  OBVIOUS
<1>7. QED BY <1>5, <1>6, PowerDefined

LEMMA PackIs ==
  ASSUME NEW n \in Nat, NEW w \in Nat, NEW order
  PROVE  /\ Pack(n, w, order) \in Seq(Byte) /\ Len(Pack(n, w, order)) = w
         /\ \A k \in Nat : k < w =>
              Digit(n, k) = Pack(n, w, order)[IF order = "big" THEN w - k ELSE k + 1]
<1>1. PICK d : d = [i \in 1..w |-> Digit(n, w - i)]
  OBVIOUS
<1>2. \A i \in 1..w : Digit(n, w - i) \in Byte
  <2> TAKE i \in 1..w
  <2>1. w - i \in Nat
    OBVIOUS
  <2>2. PICK p \in Nat \ {0} : p = Power[w - i]
    BY <2>1, PowerDefined
  <2>3. n \div p \in Nat
    BY Divide
  <2>4. PICK g \in Nat \ {0} : g = ByteBase
    BY WireAssumption
  <2>5. (n \div p) % g \in 0..(g - 1)
    BY <2>3, Divide
  <2>6. QED BY <2>2, <2>4, <2>5 DEF Digit, Byte
<1>3. d \in [1..w -> Byte]
  BY <1>1, <1>2
<1>4. d \in Seq(Byte) /\ Len(d) = w
  BY <1>3
<1>5. Pack(n, w, order) = IF order = "big" THEN d ELSE Reverse(d)
  BY <1>1 DEF Pack, Ordered, Digit
<1>6. Reverse(d) = [i \in 1..w |-> d[(w - i) + 1]]
  BY <1>4 DEF Reverse
<1>7. Reverse(d) \in [1..w -> Byte]
  <2>1. \A i \in 1..w : (w - i) + 1 \in 1..w
    OBVIOUS
  <2>2. QED BY <1>3, <1>6, <2>1
<1>8. Reverse(d) \in Seq(Byte) /\ Len(Reverse(d)) = w
  BY <1>7
<1>9. ASSUME NEW k \in Nat, k < w
      PROVE  Digit(n, k) = (IF order = "big" THEN d ELSE Reverse(d))[IF order = "big" THEN w - k ELSE k + 1]
  <2>1. w - k \in 1..w /\ w - (w - k) = k /\ k + 1 \in 1..w /\ (w - (k + 1)) + 1 = w - k
    BY <1>9
  <2>2. d[w - k] = Digit(n, k)
    BY <1>1, <2>1
  <2>3. Reverse(d)[k + 1] = d[w - k]
    BY <1>6, <2>1
  <2>4. QED BY <2>2, <2>3
<1>10. QED BY <1>4, <1>5, <1>8, <1>9

LEMMA Unpacks ==
  ASSUME NEW n \in Nat, NEW w \in Nat, n < Power[w], NEW order
  PROVE  Unpacked(Pack(n, w, order), order) = {n}
<1>1. PICK bytes : bytes = Pack(n, w, order)
  OBVIOUS
<1>2. Len(bytes) = w
  BY <1>1, PackIs
<1>3. PICK p \in Nat \ {0} : p = Power[w]
  BY PowerDefined
<1>4. n \in 0..(p - 1)
  BY <1>3
<1>5. ASSUME NEW m \in 0..(p - 1), Pack(m, w, order) = bytes PROVE m = n
  <2>1. m \in Nat /\ m < Power[w]
    BY <1>3
  <2>2. \A k \in Nat : k < w => Digit(n, k) = bytes[IF order = "big" THEN w - k ELSE k + 1]
    BY <1>1, PackIs
  <2>3. \A k \in Nat : k < w => Digit(m, k) = bytes[IF order = "big" THEN w - k ELSE k + 1]
    BY <1>5, <2>1, PackIs
  <2>4. \A k \in Nat : k < w => Digit(n, k) = Digit(m, k)
    BY <2>2, <2>3
  <2>5. QED BY <2>1, <2>4, SameDigits
<1>6. Unpacked(bytes, order) = {m \in 0..(p - 1) : Pack(m, w, order) = bytes}
  BY <1>2, <1>3 DEF Unpacked
<1>7. QED BY <1>1, <1>4, <1>5, <1>6

\* Two's complement.
LEMMA WrapUndone ==
  ASSUME NEW n \in Int, NEW w \in Nat, NEW signed \in BOOLEAN, Fits(n, w, signed)
  PROVE  /\ Wrapped(n, w) \in Nat /\ Wrapped(n, w) < Power[w]
         /\ Unwrapped(Wrapped(n, w), w, signed) = n
<1>1. PICK p \in Nat \ {0} : p = Power[w]
  BY PowerDefined
<1>2. IF signed THEN -p <= 2 * n /\ 2 * n < p ELSE 0 <= n /\ n < p
  BY <1>1 DEF Fits
<1>3. PICK u : u = IF n < 0 THEN n + p ELSE n
  OBVIOUS
<1>4. u \in Nat /\ u < p
  BY <1>2, <1>3
<1>5. (IF signed /\ 2 * u >= p THEN u - p ELSE u) = n
  BY <1>2, <1>3
<1>6. QED BY <1>1, <1>3, <1>4, <1>5 DEF Wrapped, Unwrapped

-----------------------------------------------------------------------------
(* What was written is read back.                                          *)

\* The bytes are in the buffer, from some offset on.
Stands(bytes, buffer_, from) ==
  /\ Available(buffer_, from, Len(bytes))
  /\ Slice(buffer_, from, from + Len(bytes)) = bytes

LEMMA StandsAt ==
  ASSUME NEW bytes \in Seq(Int), NEW buffer_ \in Seq(Byte), NEW from \in Nat
  PROVE  Stands(bytes, buffer_, from) <=>
           /\ from + Len(bytes) <= Len(buffer_)
           /\ \A i \in 1..Len(bytes) : buffer_[from + i] = bytes[i]
<1>1. PICK n \in Nat, l \in Nat : n = Len(bytes) /\ l = Len(buffer_)
  OBVIOUS
<1>2. CASE ~(from + n <= l)
  BY <1>1, <1>2 DEF Stands, Available
<1>3. CASE from + n <= l
  <2>1. PICK s : s = SubSeq(buffer_, from + 1, from + n)
    OBVIOUS
  <2>2. s = [i \in 1..n |-> buffer_[from + i]]
    <3>1. SubSeq(buffer_, from + 1, from + n) =
            [i \in 1..((from + n) - (from + 1) + 1) |-> buffer_[i + (from + 1) - 1]]
      BY <1>1, <1>3, SubSeqProperties
    <3>2. (from + n) - (from + 1) + 1 = n /\ \A i \in 1..n : i + (from + 1) - 1 = from + i
      OBVIOUS
    <3>3. QED BY <2>1, <3>1, <3>2
  <2>3. bytes = [i \in 1..n |-> bytes[i]]
    BY <1>1
  <2>4. s = bytes <=> \A i \in 1..n : buffer_[from + i] = bytes[i]
    BY <2>2, <2>3
  <2>5. Stands(bytes, buffer_, from) <=> s = bytes
    BY <1>1, <1>3, <2>1 DEF Stands, Available, Slice
  <2>6. QED BY <1>1, <1>3, <2>4, <2>5
<1>4. QED BY <1>2, <1>3

\* Two parts stand one behind the other.
LEMMA StandsBoth ==
  ASSUME NEW p \in Seq(Int), NEW q \in Seq(Int), NEW buffer_ \in Seq(Byte), NEW from \in Nat,
         Stands(p \o q, buffer_, from)
  PROVE  /\ Len(p) \in Nat /\ Len(p \o q) = Len(p) + Len(q)
         /\ Stands(p, buffer_, from) /\ Stands(q, buffer_, from + Len(p))
<1>1. PICK m \in Nat, n \in Nat, l \in Nat : m = Len(p) /\ n = Len(q) /\ l = Len(buffer_)
  OBVIOUS
<1>2. PICK b : b = p \o q
  OBVIOUS
<1>11. b \in Seq(Int)
  BY <1>2
<1>3. /\ Len(b) = m + n /\ \A i \in 1..m : b[i] = p[i]
      /\ \A i \in 1..n : b[m + i] = q[i]
  BY <1>1, <1>2
<1>4. /\ from + (m + n) <= l
      /\ \A i \in 1..(m + n) : buffer_[from + i] = b[i]
  <2>1. Stands(b, buffer_, from)
    BY <1>2
  <2>2. /\ from + Len(b) <= Len(buffer_)
        /\ \A i \in 1..Len(b) : buffer_[from + i] = b[i]
    BY <1>11, <2>1, StandsAt, Zenon
  <2>3. QED BY <1>1, <1>3, <2>2
<1>5. from + m <= l /\ (from + m) + n <= l /\ from + m \in Nat
  BY <1>4
<1>6. \A i \in 1..m : buffer_[from + i] = p[i]
  <2>1. \A i \in 1..m : i \in 1..(m + n)
    OBVIOUS
  <2>2. QED BY <1>3, <1>4, <2>1
<1>7. \A i \in 1..n : buffer_[(from + m) + i] = q[i]
  <2>1. \A i \in 1..n : m + i \in 1..(m + n) /\ from + (m + i) = (from + m) + i
    OBVIOUS
  <2>2. QED BY <1>3, <1>4, <2>1
<1>8. Stands(p, buffer_, from)
  BY <1>1, <1>5, <1>6, StandsAt
<1>9. Stands(q, buffer_, from + m)
  BY <1>1, <1>5, <1>7, StandsAt
<1>10. QED BY <1>1, <1>2, <1>3, <1>8, <1>9

LEMMA IntegerUndone ==
  ASSUME NEW codec, codec.width \in Nat, codec.length = codec.width, codec.signed \in BOOLEAN,
         NEW n \in Int, NEW order, NEW bytes \in IntegerBytes(codec, n, order)
  PROVE  /\ bytes \in Seq(Byte)
         /\ \A buffer_ \in Seq(Byte), from \in Nat : Stands(bytes, buffer_, from) =>
              IntegerRead(codec, buffer_, order, from) = {<<n, from + Len(bytes)>>}
<1>1. PICK w \in Nat, signed \in BOOLEAN : w = codec.width /\ signed = codec.signed
  OBVIOUS
<1>2. Fits(n, w, signed) /\ bytes = Pack(Wrapped(n, w), w, order)
  BY <1>1 DEF IntegerBytes
<1>3. PICK u \in Nat : u = Wrapped(n, w) /\ u < Power[w] /\ Unwrapped(u, w, signed) = n
  BY <1>2, WrapUndone
<1>4. bytes \in Seq(Byte) /\ Len(bytes) = w
  BY <1>2, <1>3, PackIs
<1>5. Unpacked(bytes, order) = {u}
  BY <1>2, <1>3, Unpacks
<1>6. ASSUME NEW buffer_ \in Seq(Byte), NEW from \in Nat, Stands(bytes, buffer_, from)
      PROVE  IntegerRead(codec, buffer_, order, from) = {<<n, from + Len(bytes)>>}
  <2>1. Available(buffer_, from, w) /\ Slice(buffer_, from, from + w) = bytes
    BY <1>4, <1>6 DEF Stands
  <2>2. IntegerRead(codec, buffer_, order, from) =
          {<<Unwrapped(k, w, signed), from + w>> : k \in Unpacked(bytes, order)}
    BY <1>1, <2>1 DEF IntegerRead
  <2>3. IntegerRead(codec, buffer_, order, from) = {<<n, from + w>>}
    BY <1>3, <1>5, <2>2
  <2>4. QED BY <1>4, <2>3
<1>7. QED BY <1>4, <1>6

\* At one place stands one varint.
LEMMA VarintBytes ==
  ASSUME NEW n \in 0..MaxVar
  PROVE  /\ Varint[n] \in Seq(Byte) /\ Len(Varint[n]) \in Nat \ {0}
<1> DEFINE P == {k \in 0..MaxVar : Varint[k] \in Seq(Byte)}
<1>1. PICK S : S = 0..MaxVar
  OBVIOUS
<1>2. PICK depth : depth = [k \in S |-> k]
  OBVIOUS
<1>3. depth \in [S -> Nat] /\ \A k \in S : depth[k] = k
  BY <1>1, <1>2, WireAssumption
<1>4. PICK group \in Nat : group = ByteBase \div 2 /\ group > 1 /\ ByteBase = 2 * group
  BY WireAssumption
<1>5. ASSUME NEW k \in S, \A j \in S : depth[j] < depth[k] => j \in P PROVE k \in P
  <2>1. k \in Nat /\ k \in 0..MaxVar /\ MaxVar \in Nat
    BY <1>1, WireAssumption
  <2>2. CASE k < group
    <3>1. Varint[k] = <<k>>
      BY <1>4, <2>1, <2>2, VarintDefined DEF Coded
    <3>2. k \in Byte
      BY <1>4, <2>1, <2>2 DEF Byte
    <3>3. Varint[k] \in Seq(Byte)
      BY <3>1, <3>2
    <3>4. QED BY <2>1, <3>3
  <2>3. CASE ~(k < group)
    <3>1. PICK q \in Nat : q = k \div group /\ q < k
      BY <1>4, <2>1, <2>3, Rest
    <3>2. q \in S /\ depth[q] < depth[k]
      BY <1>1, <1>3, <2>1, <3>1
    <3>3. Varint[q] \in Seq(Byte)
      BY <1>5, <3>2
    <3>4. k % group \in 0..(group - 1)
      BY <1>4, <2>1, Divide
    <3>5. PICK d \in Byte : d = (k % group) + group
      BY <1>4, <3>4 DEF Byte
    <3>6. Varint[k] = <<d>> \o Varint[q]
      BY <1>4, <2>1, <2>3, <3>1, <3>5, VarintDefined DEF Coded
    <3>7. PICK t \in Seq(Byte) : t = Varint[q]
      BY <3>3
    <3>8. <<d>> \o t \in Seq(Byte)
      OBVIOUS
    <3>9. Varint[k] \in Seq(Byte)
      BY <3>6, <3>7, <3>8
    <3>10. QED BY <2>1, <3>9
  <2>4. QED BY <2>2, <2>3
<1> HIDE DEF P
<1>6. S \subseteq P
  BY <1>3, <1>5, Induction
<1>7. QED BY <1>1, <1>6, VarintLength DEF P

Finds(s, from, bytes) == \A i \in 1..Len(bytes) : s[from + i] = bytes[i]

LEMMA FindsMore ==
  ASSUME NEW d, NEW t \in Seq(Int), d \in Int, NEW s, NEW from \in Nat
  PROVE  Finds(s, from, <<d>> \o t) => s[from + 1] = d /\ Finds(s, from + 1, t)
<1>1. PICK n \in Nat : n = Len(t)
  OBVIOUS
<1>2. PICK b : b = <<d>> \o t
  OBVIOUS
<1>3. Len(b) = n + 1 /\ b[1] = d /\ \A i \in 1..n : b[i + 1] = t[i]
  BY <1>1, <1>2
<1>4. 1 \in 1..(n + 1) /\ \A i \in 1..n : i + 1 \in 1..(n + 1) /\ (from + 1) + i = from + (i + 1)
  OBVIOUS
<1>5. ASSUME Finds(s, from, b) PROVE s[from + 1] = d /\ Finds(s, from + 1, t)
  BY <1>1, <1>3, <1>4, <1>5 DEF Finds
<1>6. QED BY <1>2, <1>5

\* The first byte, and what it says of the rest.
LEMMA FindsVarint ==
  ASSUME NEW n \in 0..MaxVar, NEW s, NEW from \in Nat, Finds(s, from, Varint[n]),
         NEW group, group = ByteBase \div 2
  PROVE  /\ n \in Nat /\ group \in Nat \ {0}
         /\ n < group <=> s[from + 1] < group
         /\ n < group => s[from + 1] = n
         /\ ~(n < group) =>
              /\ n \div group \in 0..MaxVar /\ n \div group < n
              /\ n % group = s[from + 1] - group
              /\ Finds(s, from + 1, Varint[n \div group])
<1>1. n \in Nat /\ MaxVar \in Nat /\ group \in Nat /\ group > 1
  BY WireAssumption
<1>2. CASE n < group
  <2>1. Varint[n] = <<n>>
    BY <1>2, VarintDefined DEF Coded
  <2>2. Len(<<n>>) = 1 /\ 1 \in 1..1 /\ <<n>>[1] = n
    OBVIOUS
  <2>3. s[from + 1] = n
    BY <2>1, <2>2 DEF Finds
  <2>4. QED BY <1>1, <1>2, <2>3
<1>3. CASE ~(n < group)
  <2>1. PICK q \in Nat : q = n \div group /\ q < n
    BY <1>1, <1>3, Rest
  <2>2. q \in 0..MaxVar
    BY <1>1, <2>1
  <2>9. \A g \in Nat \ {0} : n % g \in 0..(g - 1)
    BY <1>1, Divide
  <2>10. group \in Nat \ {0}
    BY <1>1
  <2>3. PICK r \in 0..(group - 1) : r = n % group
    BY <2>9, <2>10
  <2>4. Varint[n] = <<r + group>> \o Varint[q]
    BY <1>3, <2>1, <2>3, VarintDefined DEF Coded
  <2>5. r + group \in Int /\ Varint[q] \in Seq(Int)
    BY <1>1, <2>2, <2>3, VarintDefined
  <2>6. s[from + 1] = r + group /\ Finds(s, from + 1, Varint[q])
    BY <2>4, <2>5, FindsMore
  <2>7. ~(r + group < group) /\ (r + group) - group = r
    BY <1>1, <2>3
  <2>8. QED BY <1>1, <1>3, <2>1, <2>2, <2>3, <2>6, <2>7
<1>4. QED BY <1>2, <1>3

LEMMA OneVarint ==
  ASSUME NEW m \in 0..MaxVar, NEW n \in 0..MaxVar, NEW s, NEW from \in Nat,
         Finds(s, from, Varint[m]), Finds(s, from, Varint[n])
  PROVE  m = n
<1>1. PICK S : S = 0..MaxVar
  OBVIOUS
<1> DEFINE P == {j \in S : \A k \in S, o \in Nat :
                   Finds(s, o, Varint[j]) /\ Finds(s, o, Varint[k]) => j = k}
<1>2. PICK depth : depth = [k \in S |-> k]
  OBVIOUS
<1>3. depth \in [S -> Nat] /\ \A k \in S : depth[k] = k
  BY <1>1, <1>2, WireAssumption
<1>4. PICK group : group = ByteBase \div 2
  OBVIOUS
<1>8. ASSUME NEW k \in S, NEW o \in Nat, Finds(s, o, Varint[k])
      PROVE  /\ k \in Nat /\ group \in Nat \ {0}
             /\ k < group <=> s[o + 1] < group
             /\ k < group => s[o + 1] = k
             /\ ~(k < group) =>
                  /\ k \div group \in S /\ k \div group < k
                  /\ k % group = s[o + 1] - group
                  /\ Finds(s, o + 1, Varint[k \div group])
  <2>1. k \in 0..MaxVar
    BY <1>1
  <2>2. /\ k \in Nat /\ group \in Nat \ {0}
        /\ k < group <=> s[o + 1] < group
        /\ k < group => s[o + 1] = k
    BY <1>4, <1>8, <2>1, FindsVarint
  <2>3. ASSUME ~(k < group)
        PROVE  /\ k \div group \in 0..MaxVar /\ k \div group < k
               /\ k % group = s[o + 1] - group
               /\ Finds(s, o + 1, Varint[k \div group])
    BY <1>4, <1>8, <2>1, <2>3, FindsVarint
  <2>4. QED BY <1>1, <2>2, <2>3
<1>5. ASSUME NEW j \in S, \A i \in S : depth[i] < depth[j] => i \in P PROVE j \in P
  <2>1. SUFFICES ASSUME NEW k \in S, NEW o \in Nat,
                        Finds(s, o, Varint[j]), Finds(s, o, Varint[k])
                 PROVE  j = k
    OBVIOUS
  <2>2. /\ j \in Nat /\ group \in Nat \ {0} /\ (j < group <=> s[o + 1] < group)
        /\ j < group => s[o + 1] = j
        /\ ~(j < group) => /\ j \div group \in S /\ j \div group < j
                           /\ j % group = s[o + 1] - group
                           /\ Finds(s, o + 1, Varint[j \div group])
    BY <1>8, <2>1, Zenon
  <2>3. /\ k \in Nat /\ (k < group <=> s[o + 1] < group)
        /\ k < group => s[o + 1] = k
        /\ ~(k < group) => /\ k \div group \in S
                           /\ k % group = s[o + 1] - group
                           /\ Finds(s, o + 1, Varint[k \div group])
    BY <1>8, <2>1, Zenon
  <2>4. CASE j < group
    BY <2>2, <2>3, <2>4
  <2>5. CASE ~(j < group)
    <3>1. PICK q \in S, r \in S : q = j \div group /\ r = k \div group /\ q < j
      BY <2>2, <2>3, <2>5
    <3>2. q \in P
      BY <1>3, <1>5, <3>1
    <3>3. Finds(s, o + 1, Varint[q]) /\ Finds(s, o + 1, Varint[r]) /\ o + 1 \in Nat
      BY <2>2, <2>3, <2>5, <3>1
    <3>4. q = r
      BY <3>2, <3>3
    <3>5. j % group = k % group
      BY <2>2, <2>3, <2>5
    <3>6. j = group * (j \div group) + (j % group) /\ k = group * (k \div group) + (k % group)
      BY <2>2, <2>3, Divide
    <3>7. QED BY <3>1, <3>4, <3>5, <3>6
  <2>6. QED BY <2>4, <2>5
<1> HIDE DEF P
<1>6. S \subseteq P
  BY <1>3, <1>5, Induction
<1>7. QED BY <1>1, <1>6 DEF P

LEMMA VarUIntUndone ==
  ASSUME NEW n \in 0..MaxVar, NEW buffer_ \in Seq(Byte), NEW from \in Nat,
         Stands(Varint[n], buffer_, from)
  PROVE  VarUIntRead(buffer_, from) = {<<n, from + Len(Varint[n])>>}
<1>1. \A m \in 0..MaxVar : Varint[m] \in Seq(Int)
  BY VarintDefined
<1>2. ASSUME NEW m \in 0..MaxVar, Stands(Varint[m], buffer_, from) PROVE m = n
  <2>1. Finds(buffer_, from, Varint[m]) /\ Finds(buffer_, from, Varint[n])
    BY <1>1, <1>2, StandsAt DEF Finds
  <2>2. QED BY <2>1, OneVarint
<1>3. {m \in 0..MaxVar : Stands(Varint[m], buffer_, from)} = {n}
  BY <1>2
<1>4. VarUIntRead(buffer_, from) =
        {<<m, from + Len(Varint[m])>> : m \in {k \in 0..MaxVar : Stands(Varint[k], buffer_, from)}}
  BY DEF VarUIntRead, Stands
<1>5. QED BY <1>3, <1>4

LEMMA ZigZagUndone ==
  ASSUME NEW n \in Int
  PROVE  ZigZag(n) \in Nat /\ UnZigZag(ZigZag(n)) = n
<1>1. CASE n >= 0
  <2>1. ZigZag(n) = 2 * n /\ 2 * n \in Nat
    BY <1>1 DEF ZigZag
  <2>2. (2 * n) % 2 = 0 /\ (2 * n) \div 2 = n
    BY <1>1
  <2>3. QED BY <2>1, <2>2 DEF UnZigZag
<1>2. CASE ~(n >= 0)
  <2>1. PICK k \in Nat : k = -n - 1
    <3>1. -n - 1 \in Nat
      BY <1>2
    <3>2. QED BY <3>1
  <2>2. ZigZag(n) = 2 * k + 1 /\ 2 * k + 1 \in Nat
    BY <1>2, <2>1 DEF ZigZag
  <2>3. (2 * k + 1) % 2 = 1 /\ (2 * k + 1) \div 2 = k /\ -k - 1 = n
    BY <2>1
  <2>4. QED BY <2>2, <2>3 DEF UnZigZag
<1>3. QED BY <1>1, <1>2

\* The bytes of a number are read as the number, wherever they stand.
LEMMA NumberUndone ==
  ASSUME NEW codec \in Codecs, codec.kind \in {"int", "varint"},
         codec.kind = "int" => codec.width = codec.length,
         NEW n \in Int, NEW order, NEW bytes \in NumberBytes(codec, n, order)
  PROVE  /\ bytes \in Seq(Byte)
         /\ \A buffer_ \in Seq(Byte), from \in Nat : Stands(bytes, buffer_, from) =>
              NumberRead(codec, buffer_, order, from) = {<<n, from + Len(bytes)>>}
<1>1. IsCodec(codec)
  BY WireAssumption
<1>2. CASE codec.kind = "int"
  <2>1. codec.width \in Nat /\ codec.length = codec.width /\ codec.signed \in BOOLEAN
    BY <1>1, <1>2 DEF IsCodec
  <2>2. bytes \in IntegerBytes(codec, n, order)
    BY <1>2 DEF NumberBytes
  <2>3. /\ bytes \in Seq(Byte)
        /\ \A buffer_ \in Seq(Byte), from \in Nat : Stands(bytes, buffer_, from) =>
             IntegerRead(codec, buffer_, order, from) = {<<n, from + Len(bytes)>>}
    BY <2>1, <2>2, IntegerUndone
  <2>4. QED BY <1>2, <2>3 DEF NumberRead
<1>3. CASE codec.kind = "varint" /\ ~codec.signed
  <2>1. n \in 0..MaxVar /\ bytes = Varint[n]
    BY <1>3 DEF NumberBytes, VarUIntBytes
  <2>2. bytes \in Seq(Byte)
    BY <2>1, VarintBytes
  <2>3. \A buffer_, from : NumberRead(codec, buffer_, order, from) = VarUIntRead(buffer_, from)
    BY <1>3 DEF NumberRead
  <2>4. QED BY <2>1, <2>2, <2>3, VarUIntUndone
<1>4. CASE codec.kind = "varint" /\ codec.signed
  <2>1. PICK u : u = ZigZag(n)
    OBVIOUS
  <2>2. u \in 0..MaxVar /\ bytes = Varint[u]
    BY <1>4, <2>1 DEF NumberBytes, VarUIntBytes, VarIntBytes
  <2>3. UnZigZag(u) = n
    BY <2>1, ZigZagUndone
  <2>4. bytes \in Seq(Byte)
    BY <2>2, VarintBytes
  <2>5. ASSUME NEW buffer_ \in Seq(Byte), NEW from \in Nat, Stands(bytes, buffer_, from)
        PROVE  NumberRead(codec, buffer_, order, from) = {<<n, from + Len(bytes)>>}
    <3>1. VarUIntRead(buffer_, from) = {<<u, from + Len(bytes)>>}
      BY <2>2, <2>5, VarUIntUndone
    <3>2. NumberRead(codec, buffer_, order, from) =
            {<<UnZigZag(r[1]), r[2]>> : r \in {<<u, from + Len(bytes)>>}}
      BY <1>4, <3>1 DEF NumberRead, VarIntRead
    <3>3. QED BY <2>3, <3>2
  <2>6. QED BY <2>4, <2>5
<1>5. QED BY <1>2, <1>3, <1>4

\* So is content behind its length.
LEMMA PrefixedUndone ==
  ASSUME NEW codec, codec.prefix \in UInts, NEW content \in Seq(Byte), NEW order,
         NEW bytes \in Prefixed(codec.prefix, content, order)
  PROVE  /\ bytes \in Seq(Byte)
         /\ \A buffer_ \in Seq(Byte), from \in Nat : Stands(bytes, buffer_, from) =>
              BytesRead(codec, buffer_, order, from) = {<<content, from + Len(bytes)>>}
<1>1. PICK prefix \in Codecs : prefix = codec.prefix /\ IsUInt(prefix)
  BY DEF UInts
<1>2. PICK l \in Nat : l = Len(content)
  OBVIOUS
<1>3. PICK p \in NumberBytes(prefix, l, order) : bytes = p \o content
  BY <1>1, <1>2 DEF Prefixed
<1>4. prefix.kind \in {"int", "varint"} /\ (prefix.kind = "int" => prefix.width = prefix.length)
  BY <1>1 DEF IsUInt
<1>5. /\ p \in Seq(Byte)
      /\ \A buffer_ \in Seq(Byte), from \in Nat : Stands(p, buffer_, from) =>
           NumberRead(prefix, buffer_, order, from) = {<<l, from + Len(p)>>}
  BY <1>2, <1>4, NumberUndone
<1>6. p \in Seq(Int) /\ content \in Seq(Int) /\ bytes \in Seq(Byte)
  BY <1>3, <1>5, WireAssumption DEF Byte
<1>7. ASSUME NEW buffer_ \in Seq(Byte), NEW from \in Nat, Stands(bytes, buffer_, from)
      PROVE  BytesRead(codec, buffer_, order, from) = {<<content, from + Len(bytes)>>}
  <2>1. /\ Len(p) \in Nat /\ Len(bytes) = Len(p) + Len(content)
        /\ Stands(p, buffer_, from) /\ Stands(content, buffer_, from + Len(p))
    BY <1>3, <1>6, <1>7, StandsBoth
  <2>2. PICK at \in Nat : at = from + Len(p) /\ from + Len(bytes) = at + l
    BY <1>2, <2>1
  <2>3. NumberRead(prefix, buffer_, order, from) = {<<l, at>>}
    BY <1>5, <2>1, <2>2
  <2>4. Available(buffer_, at, l) /\ Slice(buffer_, at, at + l) = content
    BY <1>2, <2>1, <2>2 DEF Stands
  <2>5. PrefixedSpan({<<l, at>>}, buffer_) = {<<at, at + l>>}
    <3>1. PICK q : q = <<l, at>>
      OBVIOUS
    <3>2. q[1] = l /\ q[2] = at
      BY <3>1
    <3>3. {r \in {q} : Available(buffer_, r[2], r[1])} = {q}
      BY <2>4, <3>2
    <3>4. QED BY <3>1, <3>2, <3>3 DEF PrefixedSpan
  <2>6. BytesRead(codec, buffer_, order, from) =
          {<<Slice(buffer_, s[1], s[2]), s[2]>> : s \in {<<at, at + l>>}}
    BY <1>1, <2>3, <2>5 DEF BytesRead
  <2>7. QED BY <2>2, <2>4, <2>6
<1>8. QED BY <1>6, <1>7

LEMMA NearestIs ==
  ASSUME NEW x \in Int, NEW step \in Nat \ {0}
  PROVE  Nearest(x, step) \in Int
BY DEF Nearest

-----------------------------------------------------------------------------
(* Every codec without parts.                                              *)

\* Not every text: Python's shift_jis writes a yen sign as a backslash.
GivenBack(encoding, text) ==
  \A content \in BytesOf(encoding, text) :
    content \in Seq(Byte) /\ TextOf(encoding, content) = {text}

\* The values an application may give a field: Python's own types, of the texts
\* those that their encoding gives back.  A datetime is the isoformat() of one.
PlainValue(codec, value) ==
  CASE codec.kind \in {"int", "varint", "float"} -> value \in Int
    [] codec.kind = "bool" -> value \in BOOLEAN
    [] codec.kind \in {"fixed", "uuid", "bytes"} -> value \in Seq(Byte)
    [] codec.kind = "str" -> GivenBack(codec.encoding, value)
    [] codec.kind = "datetime" ->
         /\ GivenBack(codec.encoding, value)
         /\ value \in DOMAIN Iso /\ Iso[value] = value

\* What becomes of it: a float loses what does not fit its width.
PlainKept(codec, value) ==
  IF codec.kind = "float" THEN codec.step * Nearest(value, codec.step) ELSE value

Plain(codec) == codec.kind \notin {"enum", "list", "model"}

LEMMA PlainUndone ==
  ASSUME NEW codec \in Codecs, Plain(codec),
         codec.kind = "int" => codec.width = codec.length,
         NEW value, PlainValue(codec, value), NEW order,
         NEW bytes \in PlainBytes(codec, value, order)
  PROVE  /\ bytes \in Seq(Byte)
         /\ \A buffer_ \in Seq(Byte), from \in Nat : Stands(bytes, buffer_, from) =>
              PlainRead(codec, buffer_, order, from) =
                {<<PlainKept(codec, value), from + Len(bytes)>>}
<1>1. IsCodec(codec)
  BY WireAssumption
<1>2. CASE codec.kind \in {"int", "varint"}
  <2>1. value \in Int /\ bytes \in NumberBytes(codec, value, order)
    BY <1>2 DEF PlainValue, PlainBytes
  <2>2. /\ bytes \in Seq(Byte)
        /\ \A buffer_ \in Seq(Byte), from \in Nat : Stands(bytes, buffer_, from) =>
             NumberRead(codec, buffer_, order, from) = {<<value, from + Len(bytes)>>}
    BY <1>2, <2>1, NumberUndone
  <2>3. QED BY <1>2, <2>2 DEF PlainRead, PlainKept
<1>3. CASE codec.kind = "bool"
  <2>1. value \in BOOLEAN /\ bytes = IF value THEN <<1>> ELSE <<0>>
    BY <1>3 DEF PlainValue, PlainBytes, BoolBytes
  <2>2. PICK b \in {0, 1} : bytes = <<b>> /\ (b = 1 <=> value)
    BY <2>1
  <2>3. b \in Byte /\ b \in Int
    BY WireAssumption DEF Byte
  <2>4. bytes \in Seq(Byte) /\ bytes \in Seq(Int) /\ Len(bytes) = 1 /\ bytes[1] = b
    BY <2>2, <2>3
  <2>5. ASSUME NEW buffer_ \in Seq(Byte), NEW from \in Nat, Stands(bytes, buffer_, from)
        PROVE  PlainRead(codec, buffer_, order, from) =
                 {<<PlainKept(codec, value), from + Len(bytes)>>}
    <3>1. Available(buffer_, from, 1)
      BY <2>4, <2>5 DEF Stands
    <3>2. \A i \in 1..Len(bytes) : buffer_[from + i] = bytes[i]
      BY <2>4, <2>5, StandsAt
    <3>3. buffer_[from + 1] = b
      BY <2>4, <3>2
    <3>4. PlainRead(codec, buffer_, order, from) = BoolRead(buffer_, from)
      BY <1>3 DEF PlainRead
    <3>5. BoolRead(buffer_, from) = {<<b = 1, from + 1>>}
      BY <3>1, <3>3 DEF BoolRead
    <3>6. (b = 1) = value
      BY <2>1, <2>2
    <3>7. QED BY <1>3, <2>4, <3>4, <3>5, <3>6 DEF PlainKept
  <2>6. QED BY <2>4, <2>5
<1>4. CASE codec.kind \in {"fixed", "uuid"}
  <2>1. value \in Seq(Byte) /\ bytes = value /\ Len(value) = codec.length
    BY <1>4 DEF PlainValue, PlainBytes, FixedBytes, UUIDBytes
  <2>2. ASSUME NEW buffer_ \in Seq(Byte), NEW from \in Nat, Stands(bytes, buffer_, from)
        PROVE  FixedRead(codec, buffer_, from) = {<<value, from + Len(bytes)>>}
    BY <2>1, <2>2 DEF Stands, FixedRead
  <2>3. QED BY <1>4, <2>1, <2>2 DEF PlainRead, UUIDRead, PlainKept
<1>5. CASE codec.kind \in {"bytes", "str", "datetime"}
  <2>1. codec.prefix \in UInts
    BY <1>1, <1>5 DEF IsCodec
  <2>2. PICK content \in Seq(Byte) :
          /\ bytes \in Prefixed(codec.prefix, content, order)
          /\ codec.kind = "bytes" => content = value
          /\ codec.kind \in {"str", "datetime"} => TextOf(codec.encoding, content) = {value}
    <3>1. CASE codec.kind = "bytes"
      BY <3>1 DEF PlainValue, PlainBytes
    <3>2. CASE codec.kind \in {"str", "datetime"}
      <4>1. bytes \in StrBytes(codec, value, order) /\ GivenBack(codec.encoding, value)
        BY <3>2 DEF PlainValue, PlainBytes, DatetimeBytes
      <4>2. PICK content \in BytesOf(codec.encoding, value) :
              bytes \in Prefixed(codec.prefix, content, order)
        BY <4>1 DEF StrBytes
      <4>3. content \in Seq(Byte) /\ TextOf(codec.encoding, content) = {value}
        BY <4>1, <4>2 DEF GivenBack
      <4>4. QED BY <3>2, <4>2, <4>3
    <3>3. QED BY <1>5, <3>1, <3>2
  <2>3. codec.kind = "datetime" => value \in DOMAIN Iso /\ Iso[value] = value
    BY DEF PlainValue
  <2>4. bytes \in Seq(Byte)
    BY <2>1, <2>2, PrefixedUndone
  <2>5. ASSUME NEW buffer_ \in Seq(Byte), NEW from \in Nat, Stands(bytes, buffer_, from)
        PROVE  PlainRead(codec, buffer_, order, from) = {<<value, from + Len(bytes)>>}
    <3>1. BytesRead(codec, buffer_, order, from) = {<<content, from + Len(bytes)>>}
      BY <2>1, <2>2, <2>5, PrefixedUndone
    <3>2. PICK next : next = from + Len(bytes)
      OBVIOUS
    <3>3. PICK r : r = <<content, next>>
      OBVIOUS
    <3>4. /\ BytesRead(codec, buffer_, order, from) = {r}
          /\ r[1] = content /\ r[2] = next
      BY <3>1, <3>2, <3>3
    <3>5. CASE codec.kind = "bytes"
      BY <2>2, <3>1, <3>5 DEF PlainRead
    <3>6. ASSUME codec.kind \in {"str", "datetime"}
          PROVE  StrRead(codec, buffer_, order, from) = {<<value, next>>}
      <4>1. TextOf(codec.encoding, r[1]) = {value}
        BY <2>2, <3>4, <3>6
      <4>2. StrRead(codec, buffer_, order, from) =
              {<<text, r[2]>> : text \in TextOf(codec.encoding, r[1])}
        BY <3>4 DEF StrRead
      <4>3. QED BY <3>4, <4>1, <4>2
    <3>7. CASE codec.kind = "str"
      BY <3>2, <3>6, <3>7 DEF PlainRead
    <3>8. CASE codec.kind = "datetime"
      <4>1. PICK t : t = <<value, next>>
        OBVIOUS
      <4>2. StrRead(codec, buffer_, order, from) = {t} /\ t[1] = value /\ t[2] = next
        BY <3>6, <3>8, <4>1
      <4>3. t[1] \in DOMAIN Iso
        BY <2>3, <3>8, <4>2
      <4>4. DatetimeRead(codec, buffer_, order, from) = {<<Iso[t[1]], t[2]>>}
        BY <4>2, <4>3 DEF DatetimeRead
      <4>5. <<Iso[t[1]], t[2]>> = t
        BY <2>3, <3>8, <4>1, <4>2
      <4>6. QED BY <3>2, <3>8, <4>1, <4>4, <4>5 DEF PlainRead
    <3>9. QED BY <1>5, <3>5, <3>7, <3>8
  <2>6. QED BY <1>5, <2>4, <2>5 DEF PlainKept
<1>6. CASE codec.kind = "float"
  <2>1. /\ codec.width \in Nat /\ codec.length = codec.width /\ codec.signed
        /\ codec.step \in Nat \ {0} /\ value \in Int
    BY <1>1, <1>6 DEF IsCodec, PlainValue
  <2>2. PICK k \in Int : k = Nearest(value, codec.step)
    BY <2>1, NearestIs
  <2>3. bytes \in IntegerBytes(codec, k, order)
    BY <1>6, <2>2 DEF PlainBytes, FloatBytes
  <2>4. codec.signed \in BOOLEAN
    BY <1>1, <1>6 DEF IsCodec
  <2>5. /\ bytes \in Seq(Byte)
        /\ \A buffer_ \in Seq(Byte), from \in Nat : Stands(bytes, buffer_, from) =>
             IntegerRead(codec, buffer_, order, from) = {<<k, from + Len(bytes)>>}
    <3>1. codec.width \in Nat /\ codec.length = codec.width
      BY <2>1
    <3>2. QED BY <2>2, <2>3, <2>4, <3>1, IntegerUndone
  <2>6. ASSUME NEW buffer_ \in Seq(Byte), NEW from \in Nat, Stands(bytes, buffer_, from)
        PROVE  PlainRead(codec, buffer_, order, from) =
                 {<<codec.step * k, from + Len(bytes)>>}
    <3>1. IntegerRead(codec, buffer_, order, from) = {<<k, from + Len(bytes)>>}
      BY <2>5, <2>6
    <3>2. PlainRead(codec, buffer_, order, from) =
            {<<codec.step * r[1], r[2]>> : r \in {<<k, from + Len(bytes)>>}}
      BY <1>6, <3>1 DEF PlainRead, FloatRead
    <3>3. QED BY <3>2
  <2>7. QED BY <1>6, <2>2, <2>5, <2>6 DEF PlainKept
<1>7. QED BY <1>1, <1>2, <1>3, <1>4, <1>5, <1>6 DEF IsCodec, Plain

\* The values of a codec without parts; an enum's are its members, and only
\* those that its codec has as they are come back.
LeafValue(codec, value) ==
  IF codec.kind = "enum"
  THEN PlainValue(codec.value, value) /\ PlainKept(codec.value, value) \in codec.members
  ELSE PlainValue(codec, value)

LeafKept(codec, value) ==
  IF codec.kind = "enum" THEN PlainKept(codec.value, value) ELSE PlainKept(codec, value)

\* Whatever the bytes before and behind: what the encode of a codec without
\* parts writes of a value, its decode reads back as that value (a float as
\* the nearest the codec has), and it ends where the bytes end.  For every
\* width and byte order, every prefix, and every bound of varints.
THEOREM LeafUndone ==
  ASSUME NEW codec \in Codecs, codec.kind \notin {"list", "model"}, Lawful[codec],
         NEW value, LeafValue(codec, value), NEW order,
         NEW bytes \in LeafBytes(codec, value, order),
         NEW buffer_ \in Seq(Byte), NEW from \in Nat, Stands(bytes, buffer_, from),
         CodecsBuilt
  PROVE  Leaf(codec, buffer_, order, from) =
           {<<LeafKept(codec, value), from + Len(bytes)>>}
<1>1. IsCodec(codec)
  BY WireAssumption
<1>2. CASE codec.kind = "enum"
  <2>1. PICK inner : inner = codec.value
    OBVIOUS
  <2>2. inner \in Codecs /\ Plain(inner)
    BY <1>1, <1>2, <2>1 DEF IsCodec, Plain
  <2>3. Lawful[inner]
    BY <1>2, <2>1, LawfulParts
  <2>4. inner.kind = "int" => inner.width = inner.length
    BY <2>2, <2>3, LawfulParts
  <2>5. /\ PlainValue(inner, value) /\ PlainKept(inner, value) \in codec.members
        /\ bytes \in PlainBytes(inner, value, order)
    BY <1>2, <2>1 DEF LeafValue, LeafBytes, EnumBytes
  <2>6. PlainRead(inner, buffer_, order, from) = {<<PlainKept(inner, value), from + Len(bytes)>>}
    BY <2>2, <2>4, <2>5, PlainUndone
  <2>7. PICK kept : kept = PlainKept(inner, value) /\ kept \in codec.members
    BY <2>5
  <2>8. EnumRead(codec, buffer_, order, from) = {<<kept, from + Len(bytes)>>}
    BY <2>1, <2>6, <2>7 DEF EnumRead
  <2>9. QED BY <1>2, <2>1, <2>7, <2>8 DEF Leaf, LeafKept
<1>3. CASE codec.kind # "enum"
  <2>1. Plain(codec) /\ PlainValue(codec, value) /\ bytes \in PlainBytes(codec, value, order)
    BY <1>3 DEF Plain, LeafValue, LeafBytes
  <2>2. codec.kind = "int" => codec.width = codec.length
    BY LawfulParts
  <2>3. PlainRead(codec, buffer_, order, from) = {<<PlainKept(codec, value), from + Len(bytes)>>}
    BY <2>1, <2>2, PlainUndone
  <2>4. QED BY <1>3, <2>3 DEF Leaf, LeafKept
<1>4. QED BY <1>2, <1>3

============================================================================
