---------------------------- MODULE DecoderProofs ----------------------------
(***************************************************************************)
(* For every schema, codec, stream and buffer: the calls of decode_from    *)
(* and of the codecs below it stay inside what their callers may read      *)
(* (Decoder!Confined), the outermost of them keeps the promises of         *)
(* DecodeFrom (Decoder!Implements), and they come to an end: each step has *)
(* less left to do (Decoder!GetsOn) and they are nested no deeper than the *)
(* schema.                                                                 *)
(***************************************************************************)
EXTENDS Decoder, WireProofs

-----------------------------------------------------------------------------
(* What a codec without parts reads.                                       *)

LEMMA LeafReads ==
  ASSUME CodecsBuilt, NEW codec \in Codecs, IsLeaf(codec),
         NEW buffer_ \in Seq(Byte), NEW order, NEW from \in Nat,
         NEW r \in Leaf(codec, buffer_, order, from)
  PROVE  /\ r[2] \in Nat
         /\ Lawful[codec] => from <= r[2] /\ r[2] <= Len(buffer_)
<1>1. CASE codec.kind = "enum"
  <2>1. r \in PlainRead(codec.value, buffer_, order, from)
    BY <1>1 DEF Leaf, EnumRead
  <2>2. codec.value \in Codecs /\ codec.value.kind \in PlainKinds
    BY <1>1, CodecParts
  <2>3. Lawful[codec] => (codec.value.kind = "int" => codec.value.width = codec.value.length)
    BY <1>1, <2>2, LawfulParts
  <2>4. QED BY <2>1, <2>2, <2>3, PlainReads
<1>2. CASE codec.kind # "enum"
  <2>1. r \in PlainRead(codec, buffer_, order, from)
    BY <1>2 DEF Leaf
  <2>2. codec.kind \in PlainKinds
    BY <1>2, CodecParts DEF IsLeaf
  <2>3. Lawful[codec] => (codec.kind = "int" => codec.width = codec.length)
    BY LawfulParts
  <2>4. QED BY <2>1, <2>2, <2>3, PlainReads
<1>3. QED BY <1>1, <1>2

\* A codec without parts never goes back, and goes on if it advances.
LEMMA LeafAdvances ==
  ASSUME CodecsBuilt, NEW codec \in Codecs, IsLeaf(codec),
         NEW buffer_ \in Seq(Byte), NEW order, NEW from \in Nat,
         NEW r \in Leaf(codec, buffer_, order, from)
  PROVE  r[2] \in Nat /\ from <= r[2] /\ (Advances[codec] => from < r[2])
<1>1. CASE codec.kind = "enum"
  <2>1. r \in PlainRead(codec.value, buffer_, order, from)
    BY <1>1 DEF Leaf, EnumRead
  <2>2. codec.value \in Codecs /\ codec.value.kind \in PlainKinds
    BY <1>1, CodecParts
  <2>3. r[2] \in Nat /\ from <= r[2]
    BY <2>1, <2>2, PlainAdvances
  <2>4. Advances[codec] => from < r[2]
    <3> HAVE Advances[codec]
    <3>1. Advances[codec.value]
      BY <1>1, AdvancesParts DEF AdvancesBy
    <3>2. codec.value.kind \in {"int", "float", "fixed", "uuid"} => codec.value.length > 0
      BY <2>2, <3>1, AdvancesParts DEF AdvancesBy
    <3>3. QED BY <2>1, <2>2, <3>2, PlainAdvances
  <2>5. QED BY <2>3, <2>4
<1>2. CASE codec.kind # "enum"
  <2>1. r \in PlainRead(codec, buffer_, order, from)
    BY <1>2 DEF Leaf
  <2>2. codec.kind \in PlainKinds
    BY <1>2, CodecParts DEF IsLeaf
  <2>3. r[2] \in Nat /\ from <= r[2]
    BY <2>1, <2>2, PlainAdvances
  <2>4. Advances[codec] => from < r[2]
    <3> HAVE Advances[codec]
    <3>1. codec.kind \in {"int", "float", "fixed", "uuid"} => codec.length > 0
      BY AdvancesParts DEF AdvancesBy
    <3>2. QED BY <2>1, <2>2, <3>1, PlainAdvances
  <2>5. QED BY <2>3, <2>4
<1>3. QED BY <1>1, <1>2

-----------------------------------------------------------------------------
(* Stacks and other sequences of anything.                                 *)

IsSeq(s) == s \in Seq(Range(s))

LEMMA SeqIs ==
  ASSUME NEW S, NEW s \in Seq(S)
  PROVE  IsSeq(s) /\ DOMAIN s = 1..Len(s) /\ Len(s) \in Nat
<1>1. DOMAIN s = 1..Len(s) /\ Len(s) \in Nat /\ \A i \in 1..Len(s) : s[i] \in S
  OBVIOUS
<1>2. s = [i \in 1..Len(s) |-> s[i]]
  OBVIOUS
<1>3. \A i \in 1..Len(s) : s[i] \in Range(s)
  BY <1>1 DEF Range
<1>4. s \in Seq(Range(s))
  BY <1>1, <1>2, <1>3
<1>5. QED BY <1>1, <1>4 DEF IsSeq

LEMMA Appended ==
  ASSUME NEW s, IsSeq(s), NEW x
  PROVE  /\ IsSeq(Append(s, x)) /\ Len(s) \in Nat /\ Len(Append(s, x)) = Len(s) + 1
         /\ \A i \in 1..(Len(s) + 1) : Append(s, x)[i] = IF i = Len(s) + 1 THEN x ELSE s[i]
<1>1. PICK S : S = Range(s) \cup {x}
  OBVIOUS
<1>2. s \in Seq(Range(s)) /\ x \in S /\ Range(s) \subseteq S
  BY <1>1 DEF IsSeq
<1>3. s \in Seq(S)
  BY <1>2
<1>4. PICK t : t = Append(s, x)
  OBVIOUS
<1>5. /\ t \in Seq(S) /\ Len(s) \in Nat /\ Len(t) = Len(s) + 1
      /\ \A i \in 1..(Len(s) + 1) : t[i] = IF i = Len(s) + 1 THEN x ELSE s[i]
  BY <1>2, <1>3, <1>4
<1>6. QED BY <1>4, <1>5, SeqIs

WithLast(s, x) == [s EXCEPT ![Len(s)] = x]

LEMMA Replaced ==
  ASSUME NEW s, IsSeq(s), Len(s) > 0, NEW x, NEW t, t = WithLast(s, x)
  PROVE  /\ IsSeq(t) /\ Len(s) \in Nat /\ Len(t) = Len(s)
         /\ \A i \in 1..Len(s) : t[i] = IF i = Len(s) THEN x ELSE s[i]
<1>1. PICK S : S = Range(s) \cup {x}
  OBVIOUS
<1>2. s \in Seq(Range(s)) /\ x \in S /\ Range(s) \subseteq S
  BY <1>1 DEF IsSeq
<1>3. s \in Seq(S) /\ Len(s) \in 1..Len(s)
  BY <1>2
<1>4. /\ t \in Seq(S) /\ Len(t) = Len(s)
      /\ \A i \in 1..Len(s) : t[i] = IF i = Len(s) THEN x ELSE s[i]
  BY <1>2, <1>3 DEF WithLast
<1>5. QED BY <1>3, <1>4, SeqIs

LEMMA Popped ==
  ASSUME NEW s, IsSeq(s), Len(s) > 1, NEW x
  PROVE  /\ IsSeq(Append(SubSeq(s, 1, Len(s) - 2), x))
         /\ Len(s) \in Nat /\ Len(Append(SubSeq(s, 1, Len(s) - 2), x)) = Len(s) - 1
         /\ \A i \in 1..(Len(s) - 1) : Append(SubSeq(s, 1, Len(s) - 2), x)[i] =
                                        IF i = Len(s) - 1 THEN x ELSE s[i]
<1>1. s \in Seq(Range(s)) /\ Len(s) \in Nat
  BY DEF IsSeq
<1>2. PICK n \in Nat : n = Len(s) - 2
  <2>1. Len(s) - 2 \in Nat
    BY <1>1
  <2>2. QED BY <2>1
<1>3. n <= Len(s)
  BY <1>1, <1>2
<1>4. PICK t : t = SubSeq(s, 1, n)
  OBVIOUS
<1>5. t \in Seq(Range(s)) /\ Len(t) = n /\ \A i \in 1..n : t[i] = s[i]
  BY <1>1, <1>3, <1>4
<1>6. IsSeq(t)
  BY <1>5, SeqIs
<1>7. /\ IsSeq(Append(t, x)) /\ Len(Append(t, x)) = n + 1
      /\ \A i \in 1..(n + 1) : Append(t, x)[i] = IF i = n + 1 THEN x ELSE t[i]
  BY <1>5, <1>6, Appended
<1>8. n + 1 = Len(s) - 1
  BY <1>1, <1>2
<1>9. \A i \in 1..(n + 1) : i # n + 1 => i \in 1..n
  OBVIOUS
<1>10. QED BY <1>1, <1>2, <1>4, <1>5, <1>7, <1>8, <1>9

LEMMA Single ==
  ASSUME NEW x
  PROVE  IsSeq(<<x>>) /\ Len(<<x>>) = 1 /\ <<x>>[1] = x
<1>1. <<x>> \in Seq({x})
  OBVIOUS
<1>2. QED BY <1>1, SeqIs

LEMMA FirstBytes ==
  ASSUME NEW b \in Seq(Byte), NEW n \in Nat, n <= Len(b)
  PROVE  /\ SubSeq(b, 1, n) \in Seq(Byte) /\ Len(SubSeq(b, 1, n)) = n
         /\ \A i \in 1..n : SubSeq(b, 1, n)[i] = b[i]
OBVIOUS

LEMMA SliceIs ==
  ASSUME NEW b \in Seq(Byte), NEW m \in Nat, NEW n \in Nat, m <= n, n <= Len(b)
  PROVE  Slice(b, m, n) \in Seq(Byte) /\ Len(Slice(b, m, n)) = n - m
<1>1. m + 1 \in 1..(Len(b) + 1)
  OBVIOUS
<1>2. QED BY <1>1 DEF Slice

LEMMA PrefixMeans ==
  ASSUME NEW a \in Seq(Byte), NEW b \in Seq(Byte)
  PROVE  IsPrefix(a, b) <=> (Len(a) <= Len(b) /\ \A i \in 1..Len(a) : a[i] = b[i])
<1>1. PICK n \in Nat : n = Len(a)
  OBVIOUS
<1>2. PICK x : x = SubSeq(a, 1, n)
  OBVIOUS
<1>3. x \in Seq(Byte) /\ Len(x) = n /\ \A i \in 1..n : x[i] = a[i]
  BY <1>1, <1>2, FirstBytes
<1>4. CASE n <= Len(b)
  <2>1. PICK y : y = SubSeq(b, 1, n)
    OBVIOUS
  <2>2. y \in Seq(Byte) /\ Len(y) = n /\ \A i \in 1..n : y[i] = b[i]
    BY <1>4, <2>1, FirstBytes
  <2>3. (x = y) <=> \A i \in 1..n : a[i] = b[i]
    <3>1. ASSUME \A i \in 1..n : a[i] = b[i] PROVE x = y
      <4>1. \A i \in 1..n : x[i] = y[i]
        BY <1>3, <2>2, <3>1
      <4>2. QED BY <1>3, <2>2, <4>1
    <3>2. ASSUME x = y PROVE \A i \in 1..n : a[i] = b[i]
      BY <1>3, <2>2, <3>2
    <3>3. QED BY <3>1, <3>2
  <2>4. QED BY <1>1, <1>2, <1>4, <2>1, <2>3 DEF IsPrefix
<1>5. CASE ~(n <= Len(b))
  BY <1>1, <1>5 DEF IsPrefix
<1>6. QED BY <1>4, <1>5

-----------------------------------------------------------------------------
(* Frames.                                                                 *)

Phases == {"idle", "header", "fields", "returned"}

ModelFrames(A) ==
  [kind: {"model"}, model: DOMAIN Models, expect: BOOLEAN, buffer: Seq(Byte),
   start: Nat, offset: Nat, phase: Phases, at: Nat \ {0}, length: SUBSET Nat,
   flags: SUBSET (0..63), body: Nat, end: SUBSET Nat, args: Seq(A)]

ListFrames(A, O) ==
  [kind: {"list"}, item: Codecs, order: O, buffer: Seq(Byte), offset: Nat,
   items: Seq(A), end: Nat]

IsModelFrame(f) == f \in ModelFrames(Range(f.args))
IsListFrame(f) == f \in ListFrames(Range(f.items), {f.order})

\* A frame by itself: in the fields it has an argument for each so far, and a
\* declared payload ends where its buffer does.
FrameInv(f) ==
  IF f.kind = "list" THEN IsListFrame(f)
  ELSE
     /\ IsModelFrame(f)
     /\ AtMostOne(f.length)
     /\ IF f.phase \in {"idle", "header"}
        THEN f.args = << >> /\ f.end = {}
        ELSE /\ Len(f.args) = f.at - 1
             /\ f.at <= Len(FieldsOf(f.model)) + 1
             /\ f.end = {f.body + n : n \in f.length}
             /\ \A e \in f.end : Len(f.buffer) = e /\ f.offset <= e

\* What a frame of lawful codecs has in addition.
LawfulFrame(f) ==
  /\ f.offset <= Len(f.buffer)
  /\ IF f.kind = "list" THEN Lawful[f.item]
     ELSE LawfulClass(f.model) /\ f.start <= f.offset

\* A call and the one that called it.
Nested(f, below) ==
  IF f.kind = "list"
  THEN /\ below.offset + Len(f.buffer) <= f.end
       /\ f.end <= Len(below.buffer)
       /\ f.buffer = Slice(below.buffer, f.end - Len(f.buffer), f.end)
  ELSE /\ f.phase \in {"header", "fields"}
       /\ f.start = below.offset
       /\ IsPrefix(f.buffer, below.buffer)

\* A frame that waits for a codec.
Busy(f) ==
  f.kind = "model" =>
    /\ f.phase = "fields" /\ f.at <= Len(FieldsOf(f.model))
    /\ \A b \in FieldsOf(f.model)[f.at].flag : b \in f.flags

\* The application's own call.
Lowest(f, m, bytes) ==
  /\ f.kind = "model" /\ f.model = m /\ f.expect = TRUE
  /\ f.phase \in {"idle", "header"} => f.buffer = bytes
  /\ Len(f.buffer) <= Len(bytes)
  /\ f.end = {} => Len(f.buffer) = Len(bytes)

IInv ==
  /\ reader \in DOMAIN Models
  /\ buffer \in Seq(Byte) /\ coming \in Seq(Byte)
  /\ error \in {"none", "DecodeError", "SchemaError", "ValueError"}
  /\ IsSeq(stack) /\ Len(stack) > 0
  /\ \A i \in 1..Len(stack) : FrameInv(stack[i])
  /\ \A i \in 2..Len(stack) : Nested(stack[i], stack[i - 1]) /\ Busy(stack[i - 1])
  /\ Lowest(stack[1], reader, buffer)
  /\ LawfulClass(reader) => \A i \in 1..Len(stack) : LawfulFrame(stack[i])

LEMMA ModelFrameIs ==
  ASSUME NEW A, NEW f \in ModelFrames(A)
  PROVE  IsModelFrame(f)
<1>1. IsSeq(f.args)
  <2>1. f.args \in Seq(A)
    BY DEF ModelFrames
  <2>2. QED BY <2>1, SeqIs
<1>2. QED BY <1>1 DEF IsModelFrame, ModelFrames, IsSeq

LEMMA ListFrameIs ==
  ASSUME NEW A, NEW O, NEW f \in ListFrames(A, O)
  PROVE  IsListFrame(f)
<1>1. IsSeq(f.items)
  <2>1. f.items \in Seq(A)
    BY DEF ListFrames
  <2>2. QED BY <2>1, SeqIs
<1>2. QED BY <1>1 DEF IsListFrame, ListFrames, IsSeq

LEMMA ModelFrameTypes ==
  ASSUME NEW f, IsModelFrame(f)
  PROVE  /\ f.kind = "model" /\ f.model \in DOMAIN Models /\ f.expect \in BOOLEAN
         /\ f.buffer \in Seq(Byte) /\ f.start \in Nat /\ f.offset \in Nat
         /\ f.phase \in Phases /\ f.at \in Nat \ {0} /\ f.length \in SUBSET Nat
         /\ f.flags \in SUBSET (0..63) /\ f.body \in Nat /\ f.end \in SUBSET Nat
         /\ IsSeq(f.args)
BY DEF IsModelFrame, ModelFrames, IsSeq

LEMMA ListFrameTypes ==
  ASSUME NEW f, IsListFrame(f)
  PROVE  /\ f.kind = "list" /\ f.item \in Codecs /\ f.buffer \in Seq(Byte)
         /\ f.offset \in Nat /\ f.end \in Nat /\ IsSeq(f.items)
BY DEF IsListFrame, ListFrames, IsSeq

LEMMA FrameKinds ==
  ASSUME NEW f, FrameInv(f)
  PROVE  /\ f.kind \in {"model", "list"}
         /\ f.kind = "model" => IsModelFrame(f)
         /\ f.kind = "list" => IsListFrame(f)
         /\ f.buffer \in Seq(Byte) /\ f.offset \in Nat
BY ModelFrameTypes, ListFrameTypes DEF FrameInv

\* What the actions make of the frame on top.
WithNextElement(f) == [f EXCEPT !.at = @ + 1]
WithElement(f, from, length, flags) ==
  [f EXCEPT !.offset = from, !.length = length, !.flags = flags, !.at = @ + 1]
WithPayload(f, seen) ==
  [f EXCEPT !.phase = "fields", !.at = 1, !.body = f.offset,
            !.end = {f.offset + n : n \in f.length}, !.buffer = seen]
WithArg(f, x, from) == [f EXCEPT !.args = Append(@, x), !.at = @ + 1, !.offset = from]
WithNone(f) == [f EXCEPT !.args = Append(@, {}), !.at = @ + 1]
WithReturn(f, from) == [f EXCEPT !.phase = "returned", !.offset = from]
WithItem(f, x, from) == [f EXCEPT !.items = Append(@, x), !.offset = from]

\* A new call of a model or a list.
LEMMA NewModelFrame ==
  ASSUME NEW m \in DOMAIN Models, NEW expect \in BOOLEAN, NEW seen \in Seq(Byte),
         NEW from \in Nat, NEW phase \in {"idle", "header"},
         NEW f, f = ModelFrame(m, expect, seen, from, phase)
  PROVE  /\ FrameInv(f) /\ f.kind = "model" /\ f.model = m /\ f.expect = expect
         /\ f.buffer = seen /\ f.start = from /\ f.offset = from /\ f.phase = phase
         /\ f.at = 1 /\ f.length = {} /\ f.flags = {} /\ f.body = from
         /\ f.end = {} /\ f.args = << >>
<1>1. /\ f.kind = "model" /\ f.model = m /\ f.expect = expect
      /\ f.buffer = seen /\ f.start = from /\ f.offset = from /\ f.phase = phase
      /\ f.at = 1 /\ f.length = {} /\ f.flags = {} /\ f.body = from
      /\ f.end = {} /\ f.args = << >>
  BY DEF ModelFrame
<1>2. f \in ModelFrames({})
  BY DEF ModelFrame, ModelFrames, Phases
<1>3. FrameInv(f)
  BY <1>1, <1>2, ModelFrameIs DEF FrameInv, AtMostOne
<1>4. QED BY <1>1, <1>3

LEMMA NewListFrame ==
  ASSUME NEW codec \in Codecs, codec.kind = "list", NEW order, NEW values \in Seq(Byte),
         NEW end \in Nat, NEW f, f = ListFrame(codec, order, values, end)
  PROVE  /\ FrameInv(f) /\ f.kind = "list" /\ f.item = codec.item /\ f.buffer = values
         /\ f.offset = 0 /\ f.end = end
<1>1. /\ f.kind = "list" /\ f.item = codec.item /\ f.buffer = values
      /\ f.offset = 0 /\ f.end = end
  BY DEF ListFrame
<1>2. f \in ListFrames({}, {order})
  BY CodecParts DEF ListFrame, ListFrames
<1>3. FrameInv(f)
  BY <1>1, <1>2, ListFrameIs DEF FrameInv
<1>4. QED BY <1>1, <1>3

\* A header element or the start of the payload.
LEMMA InHeaderFrame ==
  ASSUME NEW f, FrameInv(f), f.kind = "model", f.phase = "header",
         NEW from \in Nat, NEW length \in SUBSET Nat, AtMostOne(length),
         NEW flags \in SUBSET (0..63), NEW g, g = WithElement(f, from, length, flags)
  PROVE  /\ FrameInv(g) /\ g.kind = "model" /\ g.model = f.model /\ g.expect = f.expect
         /\ g.buffer = f.buffer /\ g.start = f.start /\ g.offset = from
         /\ g.phase = "header" /\ g.at = f.at + 1 /\ g.length = length /\ g.flags = flags
         /\ g.body = f.body /\ g.end = f.end /\ g.args = f.args
<1>1. f \in ModelFrames(Range(f.args))
  BY FrameKinds DEF IsModelFrame
<1>2. /\ g.kind = "model" /\ g.model = f.model /\ g.expect = f.expect
      /\ g.buffer = f.buffer /\ g.start = f.start /\ g.offset = from
      /\ g.phase = "header" /\ g.at = f.at + 1 /\ g.length = length /\ g.flags = flags
      /\ g.body = f.body /\ g.end = f.end /\ g.args = f.args
  BY <1>1 DEF ModelFrames, WithElement
<1>3. g \in ModelFrames(Range(f.args))
  <2>1. f.at + 1 \in Nat \ {0}
    BY <1>1 DEF ModelFrames
  <2>2. QED BY <1>1, <2>1 DEF ModelFrames, WithElement
<1>4. FrameInv(g)
  BY <1>2, <1>3, ModelFrameIs DEF FrameInv
<1>5. QED BY <1>2, <1>4

LEMMA SkippedElementFrame ==
  ASSUME NEW f, FrameInv(f), f.kind = "model", f.phase = "header",
         NEW g, g = WithNextElement(f)
  PROVE  /\ FrameInv(g) /\ g.kind = "model" /\ g.model = f.model /\ g.expect = f.expect
         /\ g.buffer = f.buffer /\ g.start = f.start /\ g.offset = f.offset
         /\ g.phase = "header" /\ g.at = f.at + 1 /\ g.length = f.length
         /\ g.flags = f.flags /\ g.body = f.body /\ g.end = f.end /\ g.args = f.args
<1>1. f \in ModelFrames(Range(f.args))
  BY FrameKinds DEF IsModelFrame
<1>2. /\ g.kind = "model" /\ g.model = f.model /\ g.expect = f.expect
      /\ g.buffer = f.buffer /\ g.start = f.start /\ g.offset = f.offset
      /\ g.phase = "header" /\ g.at = f.at + 1 /\ g.length = f.length
      /\ g.flags = f.flags /\ g.body = f.body /\ g.end = f.end /\ g.args = f.args
  BY <1>1 DEF ModelFrames, WithNextElement
<1>3. g \in ModelFrames(Range(f.args))
  <2>1. f.at + 1 \in Nat \ {0}
    BY <1>1 DEF ModelFrames
  <2>2. QED BY <1>1, <2>1 DEF ModelFrames, WithNextElement
<1>4. FrameInv(g)
  BY <1>2, <1>3, ModelFrameIs DEF FrameInv
<1>5. QED BY <1>2, <1>4

LEMMA PayloadFrame ==
  ASSUME NEW f, FrameInv(f), f.kind = "model", f.phase = "header",
         NEW seen \in Seq(Byte), NEW g,
         \A n \in f.length : Len(seen) = f.offset + n,
         g = WithPayload(f, seen)
  PROVE  /\ FrameInv(g) /\ g.kind = "model" /\ g.model = f.model /\ g.expect = f.expect
         /\ g.buffer = seen /\ g.start = f.start /\ g.offset = f.offset
         /\ g.phase = "fields" /\ g.at = 1 /\ g.length = f.length
         /\ g.flags = f.flags /\ g.body = f.offset
         /\ g.end = {f.offset + n : n \in f.length} /\ g.args = << >>
<1>1. f \in ModelFrames(Range(f.args)) /\ f.args = << >> /\ AtMostOne(f.length)
  BY FrameKinds DEF IsModelFrame, FrameInv
<1>2. f.offset \in Nat /\ f.length \in SUBSET Nat /\ f.model \in DOMAIN Models
  BY <1>1 DEF ModelFrames
<1>3. /\ g.kind = "model" /\ g.model = f.model /\ g.expect = f.expect
      /\ g.buffer = seen /\ g.start = f.start /\ g.offset = f.offset
      /\ g.phase = "fields" /\ g.at = 1 /\ g.length = f.length
      /\ g.flags = f.flags /\ g.body = f.offset
      /\ g.end = {f.offset + n : n \in f.length} /\ g.args = f.args
  BY <1>1 DEF ModelFrames, WithPayload
<1>4. g \in ModelFrames(Range(f.args))
  <2>1. {f.offset + n : n \in f.length} \in SUBSET Nat
    BY <1>2
  <2>2. 1 \in Nat \ {0} /\ "fields" \in Phases
    BY DEF Phases
  <2>3. QED BY <1>1, <1>2, <2>1, <2>2 DEF ModelFrames, WithPayload
<1>5. Len(FieldsOf(f.model)) \in Nat
  BY <1>2, WireAssumption DEF IsSchema, FieldsOf
<1>6. \A e \in g.end : Len(seen) = e /\ f.offset <= e
  BY <1>2, <1>3
<1>7. IsModelFrame(g)
  BY <1>4, ModelFrameIs
<1>8. FrameInv(g)
  BY <1>1, <1>2, <1>3, <1>5, <1>6, <1>7 DEF FrameInv
<1>9. QED BY <1>1, <1>3, <1>8

\* A field has got its argument.
LEMMA ArgFrame ==
  ASSUME NEW f, FrameInv(f), f.kind = "model", f.phase = "fields",
         f.at <= Len(FieldsOf(f.model)), NEW x, NEW from \in Nat,
         \A e \in f.end : from <= e,
         NEW g, g = WithArg(f, x, from)
  PROVE  /\ FrameInv(g) /\ g.kind = "model" /\ g.model = f.model /\ g.expect = f.expect
         /\ g.buffer = f.buffer /\ g.start = f.start /\ g.offset = from
         /\ g.phase = "fields" /\ g.at = f.at + 1 /\ g.length = f.length
         /\ g.flags = f.flags /\ g.body = f.body /\ g.end = f.end
         /\ g.args = Append(f.args, x)
<1>1. f \in ModelFrames(Range(f.args)) /\ IsSeq(f.args) /\ f.at \in Nat \ {0}
  BY FrameKinds, ModelFrameTypes DEF IsModelFrame
<1>2. PICK new : new = Append(f.args, x)
  OBVIOUS
<1>3. IsSeq(new) /\ Len(new) = Len(f.args) + 1 /\ Len(f.args) \in Nat
  BY <1>1, <1>2, Appended
<1>4. /\ g.kind = "model" /\ g.model = f.model /\ g.expect = f.expect
      /\ g.buffer = f.buffer /\ g.start = f.start /\ g.offset = from
      /\ g.phase = "fields" /\ g.at = f.at + 1 /\ g.length = f.length
      /\ g.flags = f.flags /\ g.body = f.body /\ g.end = f.end
      /\ g.args = new
  BY <1>1, <1>2 DEF ModelFrames, WithArg
<1>5. g \in ModelFrames(Range(new))
  <2>1. f.at + 1 \in Nat \ {0} /\ new \in Seq(Range(new))
    BY <1>1, <1>3 DEF IsSeq
  <2>2. QED BY <1>1, <1>2, <2>1 DEF ModelFrames, WithArg
<1>6. IsModelFrame(g)
  BY <1>5, ModelFrameIs
<1>7. Len(FieldsOf(f.model)) \in Nat
  <2>1. f.model \in DOMAIN Models
    BY <1>1 DEF ModelFrames
  <2>2. QED BY <2>1, WireAssumption DEF IsSchema, FieldsOf
<1>8. /\ AtMostOne(f.length) /\ Len(f.args) = f.at - 1
      /\ f.end = {f.body + n : n \in f.length}
      /\ \A e \in f.end : Len(f.buffer) = e
  BY DEF FrameInv
<1>9. Len(g.args) = g.at - 1 /\ g.at <= Len(FieldsOf(g.model)) + 1
  BY <1>1, <1>3, <1>4, <1>7, <1>8
<1>10. FrameInv(g)
  BY <1>4, <1>6, <1>8, <1>9 DEF FrameInv
<1>11. QED BY <1>2, <1>4, <1>10

\* An absent one.
LEMMA NoneFrame ==
  ASSUME NEW f, FrameInv(f), f.kind = "model", f.phase = "fields",
         f.at <= Len(FieldsOf(f.model)),
         NEW g, g = WithNone(f)
  PROVE  /\ FrameInv(g) /\ g.kind = "model" /\ g.model = f.model /\ g.expect = f.expect
         /\ g.buffer = f.buffer /\ g.start = f.start /\ g.offset = f.offset
         /\ g.phase = "fields" /\ g.at = f.at + 1 /\ g.length = f.length
         /\ g.flags = f.flags /\ g.body = f.body /\ g.end = f.end
         /\ g.args = Append(f.args, {})
<1>1. f \in ModelFrames(Range(f.args)) /\ f.offset \in Nat
  BY FrameKinds DEF IsModelFrame
<1>2. g = WithArg(f, {}, f.offset)
  BY <1>1 DEF ModelFrames, WithNone, WithArg
<1>3. \A e \in f.end : f.offset <= e
  BY DEF FrameInv
<1>4. PICK from \in Nat : from = f.offset
  BY <1>1
<1>5. g = WithArg(f, {}, from)
  BY <1>2, <1>4
<1>6. \A e \in f.end : from <= e
  BY <1>3, <1>4
<1>7. /\ FrameInv(g) /\ g.kind = "model" /\ g.model = f.model /\ g.expect = f.expect
      /\ g.buffer = f.buffer /\ g.start = f.start /\ g.offset = from
      /\ g.phase = "fields" /\ g.at = f.at + 1 /\ g.length = f.length
      /\ g.flags = f.flags /\ g.body = f.body /\ g.end = f.end
      /\ g.args = Append(f.args, {})
  BY <1>5, <1>6, ArgFrame
<1>8. QED BY <1>4, <1>7

\* The message is complete.
LEMMA ReturnedFrame ==
  ASSUME NEW f, FrameInv(f), f.kind = "model", f.phase = "fields",
         NEW from \in Nat, \A e \in f.end : from <= e,
         NEW g, g = WithReturn(f, from)
  PROVE  /\ FrameInv(g) /\ g.kind = "model" /\ g.model = f.model /\ g.expect = f.expect
         /\ g.buffer = f.buffer /\ g.start = f.start /\ g.offset = from
         /\ g.phase = "returned" /\ g.at = f.at /\ g.length = f.length
         /\ g.flags = f.flags /\ g.body = f.body /\ g.end = f.end
         /\ g.args = f.args
<1>1. f \in ModelFrames(Range(f.args))
  BY FrameKinds DEF IsModelFrame
<1>2. /\ g.kind = "model" /\ g.model = f.model /\ g.expect = f.expect
      /\ g.buffer = f.buffer /\ g.start = f.start /\ g.offset = from
      /\ g.phase = "returned" /\ g.at = f.at /\ g.length = f.length
      /\ g.flags = f.flags /\ g.body = f.body /\ g.end = f.end
      /\ g.args = f.args
  BY <1>1 DEF ModelFrames, WithReturn
<1>3. g \in ModelFrames(Range(f.args))
  <2>1. "returned" \in Phases
    BY DEF Phases
  <2>2. QED BY <1>1, <2>1 DEF ModelFrames, WithReturn
<1>4. IsModelFrame(g)
  BY <1>3, ModelFrameIs
<1>5. FrameInv(g)
  BY <1>2, <1>4 DEF FrameInv
<1>6. QED BY <1>2, <1>5

LEMMA ItemFrame ==
  ASSUME NEW f, FrameInv(f), f.kind = "list", NEW x, NEW from \in Nat,
         NEW g, g = WithItem(f, x, from)
  PROVE  /\ FrameInv(g) /\ g.kind = "list" /\ g.item = f.item
         /\ g.buffer = f.buffer /\ g.offset = from /\ g.end = f.end
<1>1. f \in ListFrames(Range(f.items), {f.order}) /\ IsSeq(f.items)
  BY FrameKinds, ListFrameTypes DEF IsListFrame
<1>2. PICK new : new = Append(f.items, x)
  OBVIOUS
<1>3. IsSeq(new)
  BY <1>1, <1>2, Appended
<1>4. /\ g.kind = "list" /\ g.item = f.item
      /\ g.buffer = f.buffer /\ g.offset = from /\ g.end = f.end
  BY <1>1 DEF ListFrames, WithItem
<1>5. g \in ListFrames(Range(new), {f.order})
  BY <1>1, <1>2, <1>3 DEF ListFrames, IsSeq, WithItem
<1>6. IsListFrame(g)
  BY <1>5, ListFrameIs
<1>7. QED BY <1>4, <1>6 DEF FrameInv

-----------------------------------------------------------------------------
(* The invariant.                                                          *)

\* ICodec.encode, for whatever it is given: it returns bytes or raises, and then
\* Encoded is empty.
EncodesBytes == \A v : Encoded(v) \subseteq Seq(Byte)

LEMMA AboveOne ==
  ASSUME NEW n \in Nat \ {0}, n # 1
  PROVE  n > 1
OBVIOUS

LEMMA TopIs ==
  ASSUME IInv
  PROVE  /\ Len(stack) \in Nat \ {0} /\ Len(stack) \in 1..Len(stack) /\ 1 \in 1..Len(stack)
         /\ top = stack[Len(stack)] /\ FrameInv(top) /\ base = stack[1]
         /\ Outermost <=> (Len(stack) = 1)
<1>1. Len(stack) \in Nat \ {0}
  BY DEF IInv, IsSeq
<1>2. QED BY <1>1 DEF IInv, top, base, Outermost

\* A new frame in the place of one of the stack, and none above it.
LEMMA PlaceStep ==
  ASSUME IInv, NEW n \in 1..Len(stack), NEW g,
         reader' = reader, buffer' = buffer, coming' = coming, error' = error,
         IsSeq(stack'), Len(stack') = n,
         \A i \in 1..n : stack'[i] = IF i = n THEN g ELSE stack[i],
         FrameInv(g),
         n > 1 => Nested(g, stack[n - 1]),
         n = 1 => Lowest(g, reader, buffer),
         LawfulClass(reader) => LawfulFrame(g)
  PROVE  IInv'
<1>0. Len(stack) \in Nat /\ n \in Nat /\ n > 0 /\ n <= Len(stack)
  BY TopIs
<1>1. reader' \in DOMAIN Models /\ buffer' \in Seq(Byte) /\ coming' \in Seq(Byte)
  BY DEF IInv
<1>2. error' \in {"none", "DecodeError", "SchemaError", "ValueError"}
  BY DEF IInv
<1>3. IsSeq(stack') /\ Len(stack') > 0
  BY <1>0
<1>4. \A i \in 1..Len(stack') : FrameInv(stack'[i])
  BY <1>0 DEF IInv
<1>5. ASSUME NEW i \in 2..Len(stack')
      PROVE  Nested(stack'[i], stack'[i - 1]) /\ Busy(stack'[i - 1])
  <2>1. i \in 2..Len(stack) /\ i - 1 \in 1..n /\ i \in 1..n /\ stack'[i - 1] = stack[i - 1]
    BY <1>0
  <2>2. Nested(stack[i], stack[i - 1]) /\ Busy(stack[i - 1])
    BY <2>1 DEF IInv
  <2>3. CASE i = n
    BY <1>0, <2>1, <2>2, <2>3
  <2>4. CASE i # n
    BY <2>1, <2>2, <2>4
  <2>5. QED BY <2>3, <2>4
<1>6. Lowest(stack'[1], reader', buffer')
  BY <1>0 DEF IInv
<1>7. LawfulClass(reader') => \A i \in 1..Len(stack') : LawfulFrame(stack'[i])
  BY <1>0 DEF IInv
<1>8. QED BY <1>1, <1>2, <1>3, <1>4, <1>5, <1>6, <1>7 DEF IInv

\* A call of a model that goes on.
LEMMA ModelStep ==
  ASSUME IInv, NEW n \in 1..Len(stack), NEW g,
         reader' = reader, buffer' = buffer, coming' = coming, error' = error,
         IsSeq(stack'), Len(stack') = n,
         \A i \in 1..n : stack'[i] = IF i = n THEN g ELSE stack[i],
         FrameInv(g), stack[n].kind = "model", g.kind = "model",
         g.model = stack[n].model, g.expect = stack[n].expect,
         g.buffer = stack[n].buffer, g.start = stack[n].start,
         g.phase = stack[n].phase, g.end = stack[n].end,
         LawfulClass(reader) => stack[n].offset <= g.offset /\ g.offset <= Len(g.buffer)
  PROVE  IInv'
<1>0. Len(stack) \in Nat /\ n \in Nat /\ n > 0 /\ n <= Len(stack)
  BY TopIs
<1>1. n > 1 => Nested(g, stack[n - 1])
  <2> HAVE n > 1
  <2>1. n \in 2..Len(stack)
    BY <1>0
  <2>2. Nested(stack[n], stack[n - 1])
    BY <2>1 DEF IInv
  <2>3. QED BY <2>2 DEF Nested
<1>2. n = 1 => Lowest(g, reader, buffer)
  BY DEF IInv, Lowest
<1>3. LawfulClass(reader) => LawfulFrame(g)
  <2> HAVE LawfulClass(reader)
  <2>1. LawfulFrame(stack[n]) /\ FrameInv(stack[n])
    BY DEF IInv
  <2>2. IsModelFrame(stack[n]) /\ IsModelFrame(g)
    BY <2>1, FrameKinds
  <2>3. stack[n].start \in Nat /\ stack[n].offset \in Nat /\ g.offset \in Nat
    BY <2>2, ModelFrameTypes
  <2>4. QED BY <2>1, <2>3 DEF LawfulFrame
<1>4. QED BY <1>1, <1>2, <1>3, PlaceStep

LEMMA ListStep ==
  ASSUME IInv, NEW n \in 1..Len(stack), NEW g,
         reader' = reader, buffer' = buffer, coming' = coming, error' = error,
         IsSeq(stack'), Len(stack') = n,
         \A i \in 1..n : stack'[i] = IF i = n THEN g ELSE stack[i],
         FrameInv(g), stack[n].kind = "list", g.kind = "list",
         g.item = stack[n].item, g.buffer = stack[n].buffer, g.end = stack[n].end,
         LawfulClass(reader) => g.offset <= Len(g.buffer)
  PROVE  IInv'
<1>0. Len(stack) \in Nat /\ n \in Nat /\ n > 0 /\ n <= Len(stack)
  BY TopIs
<1>1. n > 1
  <2>1. stack[1].kind = "model"
    BY DEF IInv, Lowest
  <2>2. QED BY <1>0, <2>1
<1>2. Nested(g, stack[n - 1])
  <2>1. n \in 2..Len(stack)
    BY <1>0, <1>1
  <2>2. Nested(stack[n], stack[n - 1])
    BY <2>1 DEF IInv
  <2>3. QED BY <2>2 DEF Nested
<1>3. LawfulClass(reader) => LawfulFrame(g)
  BY DEF IInv, LawfulFrame
<1>4. QED BY <1>0, <1>1, <1>2, <1>3, PlaceStep

\* A frame goes on with what its codec has returned.
LEMMA GivenStep ==
  ASSUME IInv, NEW n \in 1..Len(stack), NEW f, f = stack[n], NEW value, NEW next \in Nat,
         Busy(f), ~PastEnd(f, next),
         LawfulClass(reader) => f.offset <= next /\ next <= Len(f.buffer),
         reader' = reader, buffer' = buffer, coming' = coming, error' = error,
         IsSeq(stack'), Len(stack') = n,
         \A i \in 1..n : stack'[i] = IF i = n THEN Given(f, value, next) ELSE stack[i]
  PROVE  IInv'
<1>1. PICK g : g = Given(f, value, next)
  OBVIOUS
<1>2. FrameInv(f) /\ f.kind \in {"model", "list"}
  BY FrameKinds DEF IInv
<1>3. CASE f.kind = "model"
  <2>1. f.phase = "fields" /\ f.at <= Len(FieldsOf(f.model))
    BY <1>3 DEF Busy
  <2>2. g = WithArg(f, {value}, next)
    BY <1>1, <1>3 DEF Given, WithArg
  <2>3. \A e \in f.end : next <= e
    <3>1. \A e \in f.end : e \in Nat /\ ~(next > e)
      BY <1>2, <1>3, FrameKinds, ModelFrameTypes DEF PastEnd
    <3>2. QED BY <3>1
  <2>4. /\ FrameInv(g) /\ g.kind = "model" /\ g.model = f.model /\ g.expect = f.expect
        /\ g.buffer = f.buffer /\ g.start = f.start /\ g.offset = next
        /\ g.phase = "fields" /\ g.end = f.end
    BY <1>2, <1>3, <2>1, <2>2, <2>3, ArgFrame
  <2>5. QED BY <1>1, <1>3, <2>1, <2>4, ModelStep
<1>4. CASE f.kind = "list"
  <2>1. g = WithItem(f, value, next)
    BY <1>1, <1>4 DEF Given, WithItem
  <2>2. /\ FrameInv(g) /\ g.kind = "list" /\ g.item = f.item
        /\ g.buffer = f.buffer /\ g.offset = next /\ g.end = f.end
    BY <1>2, <1>4, <2>1, ItemFrame
  <2>3. QED BY <1>1, <1>4, <2>2, ListStep
<1>5. QED BY <1>2, <1>3, <1>4

\* A codec with parts is called.
LEMMA PushStep ==
  ASSUME IInv, NEW g, Push(g), FrameInv(g), Nested(g, top), Busy(top),
         LawfulClass(reader) => LawfulFrame(g)
  PROVE  IInv'
<1>0. Len(stack) \in Nat \ {0} /\ top = stack[Len(stack)] /\ IsSeq(stack)
  BY TopIs DEF IInv
<1>1. /\ IsSeq(stack') /\ Len(stack') = Len(stack) + 1
      /\ \A i \in 1..(Len(stack) + 1) :
           stack'[i] = IF i = Len(stack) + 1 THEN g ELSE stack[i]
  BY <1>0, Appended DEF Push
<1>2. PICK n \in Nat \ {0} : n = Len(stack)
  BY <1>0
<1>3. /\ reader' = reader /\ buffer' = buffer /\ coming' = coming /\ error' = error
  BY DEF Push
<1>4. \A i \in 1..Len(stack') : FrameInv(stack'[i])
  BY <1>1, <1>2 DEF IInv
<1>5. ASSUME NEW i \in 2..Len(stack')
      PROVE  Nested(stack'[i], stack'[i - 1]) /\ Busy(stack'[i - 1])
  <2>1. i \in 2..(n + 1) /\ i - 1 \in 1..n /\ stack'[i - 1] = stack[i - 1]
    BY <1>1, <1>2
  <2>2. CASE i = n + 1
    BY <1>0, <1>1, <1>2, <2>1, <2>2
  <2>3. CASE i # n + 1
    <3>1. i \in 2..n /\ stack'[i] = stack[i]
      BY <1>1, <1>2, <2>1, <2>3
    <3>2. QED BY <1>2, <2>1, <3>1 DEF IInv
  <2>4. QED BY <2>2, <2>3
<1>6. Lowest(stack'[1], reader', buffer')
  BY <1>1, <1>2, <1>3 DEF IInv
<1>7. LawfulClass(reader') => \A i \in 1..Len(stack') : LawfulFrame(stack'[i])
  BY <1>1, <1>2, <1>3 DEF IInv
<1>8. IsSeq(stack') /\ Len(stack') > 0
  BY <1>0, <1>1
<1>9. /\ reader' \in DOMAIN Models /\ buffer' \in Seq(Byte) /\ coming' \in Seq(Byte)
      /\ error' \in {"none", "DecodeError", "SchemaError", "ValueError"}
  BY <1>3 DEF IInv
<1>10. QED BY <1>4, <1>5, <1>6, <1>7, <1>8, <1>9 DEF IInv

\* The application calls decode_from, or is about to.
LEMMA AloneStep ==
  ASSUME NEW m \in DOMAIN Models, NEW bytes \in Seq(Byte), NEW rest \in Seq(Byte),
         NEW from \in Nat, NEW phase \in {"idle", "header"},
         LawfulClass(m) => from <= Len(bytes),
         reader' = m, buffer' = bytes, coming' = rest,
         error' \in {"none", "DecodeError", "SchemaError", "ValueError"},
         stack' = <<ModelFrame(m, TRUE, bytes, from, phase)>>
  PROVE  IInv'
<1>1. PICK g : g = ModelFrame(m, TRUE, bytes, from, phase)
  OBVIOUS
<1>2. /\ FrameInv(g) /\ g.kind = "model" /\ g.model = m /\ g.expect = TRUE
      /\ g.buffer = bytes /\ g.start = from /\ g.offset = from /\ g.phase = phase
      /\ g.end = {}
  <2>1. PICK yes \in BOOLEAN : yes = TRUE
    OBVIOUS
  <2>2. g = ModelFrame(m, yes, bytes, from, phase)
    BY <1>1, <2>1
  <2>3. /\ FrameInv(g) /\ g.kind = "model" /\ g.model = m /\ g.expect = yes
        /\ g.buffer = bytes /\ g.start = from /\ g.offset = from /\ g.phase = phase
        /\ g.end = {}
    BY <2>2, NewModelFrame
  <2>4. QED BY <2>1, <2>3
<1>3. IsSeq(stack') /\ Len(stack') = 1 /\ stack'[1] = g
  BY <1>1, Single
<1>4. Lowest(g, m, bytes)
  BY <1>2 DEF Lowest
<1>5. LawfulClass(m) => LawfulFrame(g)
  BY <1>2 DEF LawfulFrame
<1>6. \A i \in 1..Len(stack') : stack'[i] = g
  <2> TAKE i \in 1..Len(stack')
  <2>1. i \in 1..1
    BY <1>3
  <2>2. i = 1
    BY <2>1
  <2>3. QED BY <1>3, <2>2
<1>7. \A i \in 2..Len(stack') : FALSE
  BY <1>3
<1>8. Len(stack') > 0
  BY <1>3
<1>9. \A i \in 1..Len(stack') : FrameInv(stack'[i])
  BY <1>2, <1>6
<1>10. LawfulClass(reader') => \A i \in 1..Len(stack') : LawfulFrame(stack'[i])
  BY <1>5, <1>6
<1>11. Lowest(stack'[1], reader', buffer')
  BY <1>3, <1>4
<1>12. QED BY <1>3, <1>7, <1>8, <1>9, <1>10, <1>11 DEF IInv

LEMMA Continued ==
  ASSUME IInv, NEW g, Continue(g)
  PROVE  /\ reader' = reader /\ buffer' = buffer /\ coming' = coming /\ error' = error
         /\ out' = out /\ sent' = sent
         /\ IsSeq(stack') /\ Len(stack') = Len(stack)
         /\ \A i \in 1..Len(stack) : stack'[i] = IF i = Len(stack) THEN g ELSE stack[i]
<1>1. PICK t : t = WithLast(stack, g)
  OBVIOUS
<1>2. IsSeq(stack) /\ Len(stack) > 0
  BY DEF IInv
<1>3. /\ IsSeq(t) /\ Len(t) = Len(stack)
      /\ \A i \in 1..Len(stack) : t[i] = IF i = Len(stack) THEN g ELSE stack[i]
  BY <1>1, <1>2, Replaced
<1>4. stack' = t
  BY <1>1 DEF Continue, WithTop, WithLast
<1>5. QED BY <1>3, <1>4 DEF Continue

LEMMA RaiseStep ==
  ASSUME IInv, NEW what \in {"DecodeError", "SchemaError", "ValueError"}, Raise(what)
  PROVE  IInv'
BY DEF Raise, IInv

\* The frame on top when it wants the value of a codec.
LEMMA WantedIs ==
  ASSUME CodecsBuilt, IInv, Wanting
  PROVE  /\ Busy(top) /\ Wanted \in Codecs /\ error = "none"
         /\ top.buffer \in Seq(Byte) /\ top.offset \in Nat
         /\ LawfulClass(reader) => Lawful[Wanted] /\ top.offset <= Len(top.buffer)
<1>1. FrameInv(top) /\ (LawfulClass(reader) => LawfulFrame(top))
  BY TopIs DEF IInv
<1>2. top.buffer \in Seq(Byte) /\ top.offset \in Nat
  BY <1>1, FrameKinds
<1>3. LawfulClass(reader) => top.offset <= Len(top.buffer)
  BY <1>1 DEF LawfulFrame
<1>4. CASE InList
  <2>1. top.kind = "list" /\ error = "none"
    BY <1>4 DEF InList
  <2>2. top.item \in Codecs /\ Wanted = top.item
    BY <1>1, <2>1, FrameKinds, ListFrameTypes DEF Wanted
  <2>3. LawfulClass(reader) => Lawful[Wanted]
    BY <1>1, <2>1, <2>2 DEF LawfulFrame
  <2>4. Busy(top)
    BY <2>1 DEF Busy
  <2>5. QED BY <1>2, <1>3, <2>1, <2>2, <2>3, <2>4
<1>5. CASE InFields /\ ~Absent
  <2>1. /\ error = "none" /\ top.kind = "model" /\ top.phase = "fields"
        /\ top.at <= Len(FieldsOf(top.model))
        /\ \A f \in FieldsOf(top.model)[top.at].flag : f \in top.flags
    BY <1>5 DEF InFields, InModel, Absent
  <2>2. top.model \in DOMAIN Models /\ top.at \in Nat \ {0}
    BY <1>1, <2>1, FrameKinds, ModelFrameTypes
  <2>3. FieldsOf(top.model) \in Seq([codec: Codecs, flag: SUBSET (0..63)])
    BY <2>2, WireAssumption DEF IsSchema, FieldsOf
  <2>4. PICK T : T = [codec: Codecs, flag: SUBSET (0..63)]
    OBVIOUS
  <2>5. PICK t \in Seq(T) : t = FieldsOf(top.model)
    BY <2>3, <2>4
  <2>6. top.at \in DOMAIN t /\ t[top.at] \in T
    BY <2>1, <2>2, <2>5
  <2>7. FieldsOf(top.model)[top.at].codec \in Codecs /\ top.at \in DOMAIN FieldsOf(top.model)
    BY <2>4, <2>5, <2>6
  <2>8. Wanted = FieldsOf(top.model)[top.at].codec
    BY <2>1 DEF Wanted
  <2>9. LawfulClass(reader) => Lawful[Wanted]
    BY <1>1, <2>1, <2>7, <2>8 DEF LawfulFrame, LawfulClass
  <2>10. Busy(top)
    BY <2>1 DEF Busy
  <2>11. QED BY <1>2, <1>3, <2>1, <2>7, <2>8, <2>9, <2>10
<1>6. QED BY <1>4, <1>5 DEF Wanting

LEMMA ElementIs ==
  ASSUME IInv, InHeader
  PROVE  /\ error = "none" /\ top.kind = "model" /\ top.phase = "header"
         /\ top.model \in DOMAIN Models /\ top.at \in 1..Len(Header)
         /\ Element.codec \in UInts
         /\ Element.kind \in {"Constructor", "PayloadLength", "Flags"}
         /\ top.buffer \in Seq(Byte) /\ top.offset \in Nat
<1>1. error = "none" /\ top.kind = "model" /\ top.phase = "header" /\ top.at <= Len(Header)
  BY DEF InHeader, InModel
<1>2. /\ top.model \in DOMAIN Models /\ top.at \in Nat \ {0}
      /\ top.buffer \in Seq(Byte) /\ top.offset \in Nat
  BY <1>1, TopIs, FrameKinds, ModelFrameTypes
<1>3. PICK T : T = [kind: {"Constructor", "PayloadLength", "Flags"}, codec: UInts]
  OBVIOUS
<1>4. PICK t \in Seq(T) : t = Header
  BY <1>2, <1>3, WireAssumption DEF IsSchema, Header
<1>5. top.at \in 1..Len(t) /\ t[top.at] \in T
  BY <1>1, <1>2, <1>4
<1>6. QED BY <1>1, <1>2, <1>3, <1>4, <1>5 DEF Element

LEMMA ReadElementIs ==
  ASSUME IInv, ReadElement
  PROVE  \E n \in Nat, from \in Nat :
           /\ from > top.offset /\ from <= Len(top.buffer)
           /\ Continue(WithElement(top, from,
                IF Element.kind = "PayloadLength" THEN {n} ELSE top.length,
                IF Element.kind = "Flags" THEN BitsOf(n) ELSE top.flags))
<1>1. PICK r \in ElementRead :
        Continue([top EXCEPT
         !.offset = r[2],
         !.length = IF Element.kind = "PayloadLength" THEN {r[1]} ELSE @,
         !.flags = IF Element.kind = "Flags" THEN BitsOf(r[1]) ELSE @,
         !.at = @ + 1])
  BY DEF ReadElement
<1>2. InHeader
  BY DEF ReadElement
<1>3. r \in NumberRead(Element.codec, top.buffer, Models[top.model].order, top.offset)
  BY DEF ElementRead
<1>4. r[1] \in Nat /\ r[2] \in Nat /\ r[2] > top.offset /\ r[2] <= Len(top.buffer)
  BY <1>2, <1>3, ElementIs, UIntReads
<1>5. Continue(WithElement(top, r[2],
        IF Element.kind = "PayloadLength" THEN {r[1]} ELSE top.length,
        IF Element.kind = "Flags" THEN BitsOf(r[1]) ELSE top.flags))
  BY <1>1, Zenon DEF WithElement
<1>6. QED BY <1>4, <1>5

LEMMA HeaderSteps ==
  ASSUME IInv, SkipElement \/ ReadElement
  PROVE  IInv'
<1>0. /\ Len(stack) \in 1..Len(stack) /\ top = stack[Len(stack)] /\ FrameInv(top)
  BY TopIs
<1>1. InHeader
  BY DEF SkipElement, ReadElement
<1>2. /\ top.kind = "model" /\ top.phase = "header"
      /\ top.buffer \in Seq(Byte) /\ top.offset \in Nat
  BY <1>1, ElementIs
<1>3. LawfulClass(reader) => top.offset <= Len(top.buffer)
  BY <1>0 DEF IInv, LawfulFrame
<1>4. CASE SkipElement
  <2>1. PICK g : g = WithNextElement(top)
    OBVIOUS
  <2>2. Continue(g)
    BY <1>4, <2>1 DEF SkipElement, WithNextElement
  <2>3. /\ FrameInv(g) /\ g.kind = "model" /\ g.model = top.model /\ g.expect = top.expect
        /\ g.buffer = top.buffer /\ g.start = top.start /\ g.offset = top.offset
        /\ g.phase = "header" /\ g.end = top.end
    BY <1>0, <1>2, <2>1, SkippedElementFrame
  <2>4. QED BY <1>0, <1>2, <1>3, <2>2, <2>3, Continued, ModelStep
<1>5. CASE ReadElement
  <2>1. PICK n \in Nat, from \in Nat :
           /\ from > top.offset /\ from <= Len(top.buffer)
           /\ Continue(WithElement(top, from,
                IF Element.kind = "PayloadLength" THEN {n} ELSE top.length,
                IF Element.kind = "Flags" THEN BitsOf(n) ELSE top.flags))
    BY <1>5, ReadElementIs
  <2>2. /\ top.length \in SUBSET Nat /\ AtMostOne(top.length)
        /\ top.flags \in SUBSET (0..63)
    BY <1>0, <1>2, FrameKinds, ModelFrameTypes DEF FrameInv
  <2>3. PICK length : length = IF Element.kind = "PayloadLength" THEN {n} ELSE top.length
    OBVIOUS
  <2>4. PICK flags : flags = IF Element.kind = "Flags" THEN BitsOf(n) ELSE top.flags
    OBVIOUS
  <2>5. length \in SUBSET Nat /\ AtMostOne(length) /\ flags \in SUBSET (0..63)
    BY <2>2, <2>3, <2>4 DEF AtMostOne, BitsOf
  <2>6. PICK g : g = WithElement(top, from, length, flags)
    OBVIOUS
  <2>7. Continue(g)
    BY <2>1, <2>3, <2>4, <2>6
  <2>8. /\ FrameInv(g) /\ g.kind = "model" /\ g.model = top.model /\ g.expect = top.expect
        /\ g.buffer = top.buffer /\ g.start = top.start /\ g.offset = from
        /\ g.phase = "header" /\ g.end = top.end
    BY <1>0, <1>2, <2>5, <2>6, InHeaderFrame
  <2>9. top.offset <= g.offset /\ g.offset <= Len(g.buffer)
    BY <1>2, <2>1, <2>8
  <2>10. QED BY <1>0, <1>2, <2>7, <2>8, <2>9, Continued, ModelStep
<1>6. QED BY <1>4, <1>5

\* buffer[:payload_end] is in the buffer, and its first part.
LEMMA PayloadIs ==
  ASSUME IInv, EnterPayload
  PROVE  \E seen \in Seq(Byte) :
           /\ Continue(WithPayload(top, seen))
           /\ \A n \in top.length : Len(seen) = top.offset + n
           /\ top.length = {} => seen = top.buffer
           /\ IsPrefix(seen, top.buffer) /\ Len(seen) <= Len(top.buffer)
           /\ top.offset <= Len(top.buffer) => top.offset <= Len(seen)
<1>1. /\ top.kind = "model" /\ top.phase = "header"
  BY DEF EnterPayload, HeaderRead, InModel
<1>2. /\ top.buffer \in Seq(Byte) /\ top.offset \in Nat /\ top.length \in SUBSET Nat
      /\ AtMostOne(top.length)
  BY <1>1, TopIs, FrameKinds, ModelFrameTypes DEF FrameInv
<1>3. Continue(WithPayload(top, PayloadBuffer))
  BY Zenon DEF EnterPayload, WithPayload
<1>4. CASE top.length = {}
  <2>1. PayloadBuffer = top.buffer
    BY <1>4 DEF PayloadBuffer
  <2>2. IsPrefix(top.buffer, top.buffer)
    BY <1>2, PrefixMeans
  <2>3. QED BY <1>2, <1>3, <1>4, <2>1, <2>2
<1>5. CASE top.length # {}
  <2>1. PICK n \in Nat : top.length = {n}
    BY <1>2, <1>5 DEF AtMostOne
  <2>2. top.offset + n <= Len(top.buffer)
    BY <2>1 DEF EnterPayload, PayloadThere, Available
  <2>3. PICK e \in Nat : e = top.offset + n
    BY <1>2
  <2>4. The(top.length) = n
    BY <2>1 DEF The
  <2>5. PICK seen : seen = SubSeq(top.buffer, 1, e)
    OBVIOUS
  <2>6. seen = PayloadBuffer
    BY <1>5, <2>3, <2>4, <2>5 DEF PayloadBuffer
  <2>7. /\ seen \in Seq(Byte) /\ Len(seen) = e /\ \A i \in 1..e : seen[i] = top.buffer[i]
    BY <1>2, <2>2, <2>3, <2>5, FirstBytes
  <2>8. IsPrefix(seen, top.buffer)
    BY <1>2, <2>2, <2>3, <2>7, PrefixMeans
  <2>9. QED BY <1>2, <1>3, <1>5, <2>1, <2>2, <2>3, <2>6, <2>7, <2>8
<1>6. QED BY <1>4, <1>5

LEMMA PrefixOfPrefix ==
  ASSUME NEW a \in Seq(Byte), NEW b \in Seq(Byte), NEW c \in Seq(Byte),
         IsPrefix(a, b), IsPrefix(b, c)
  PROVE  IsPrefix(a, c)
BY PrefixMeans

LEMMA PayloadStep ==
  ASSUME IInv, EnterPayload
  PROVE  IInv'
<1>0. /\ Len(stack) \in 1..Len(stack) /\ top = stack[Len(stack)] /\ FrameInv(top)
      /\ Len(stack) \in Nat \ {0}
  BY TopIs
<1>1. PICK seen \in Seq(Byte) :
        /\ Continue(WithPayload(top, seen))
        /\ \A n \in top.length : Len(seen) = top.offset + n
        /\ top.length = {} => seen = top.buffer
        /\ IsPrefix(seen, top.buffer) /\ Len(seen) <= Len(top.buffer)
        /\ top.offset <= Len(top.buffer) => top.offset <= Len(seen)
  BY PayloadIs
<1>2. top.kind = "model" /\ top.phase = "header"
  BY DEF EnterPayload, HeaderRead, InModel
<1>3. PICK g : g = WithPayload(top, seen)
  OBVIOUS
<1>4. /\ FrameInv(g) /\ g.kind = "model" /\ g.model = top.model /\ g.expect = top.expect
      /\ g.buffer = seen /\ g.start = top.start /\ g.offset = top.offset
      /\ g.phase = "fields" /\ g.end = {top.offset + n : n \in top.length}
  BY <1>0, <1>1, <1>2, <1>3, PayloadFrame
<1>5. Len(stack) > 1 => Nested(g, stack[Len(stack) - 1])
  <2> HAVE Len(stack) > 1
  <2>1. PICK below : below = stack[Len(stack) - 1]
    OBVIOUS
  <2>2. Nested(top, below) /\ FrameInv(below)
    <3>1. Len(stack) \in 2..Len(stack) /\ Len(stack) - 1 \in 1..Len(stack)
      BY <1>0
    <3>2. QED BY <1>0, <2>1, <3>1 DEF IInv
  <2>3. top.buffer \in Seq(Byte) /\ below.buffer \in Seq(Byte)
    BY <1>0, <2>2, FrameKinds
  <2>4. top.start = below.offset /\ IsPrefix(top.buffer, below.buffer)
    BY <1>2, <2>2 DEF Nested
  <2>5. IsPrefix(seen, below.buffer)
    BY <1>1, <2>3, <2>4, PrefixOfPrefix
  <2>6. Nested(g, below)
    BY <1>4, <2>4, <2>5 DEF Nested
  <2>7. QED BY <2>1, <2>6
<1>6. Len(stack) = 1 => Lowest(g, reader, buffer)
  <2> HAVE Len(stack) = 1
  <2>1. Lowest(top, reader, buffer)
    BY <1>0 DEF IInv
  <2>2. /\ top.model = reader /\ top.expect = TRUE /\ top.buffer = buffer
    BY <1>2, <2>1 DEF Lowest
  <2>3. g.end = {} => top.length = {}
    BY <1>4
  <2>4. g.end = {} => Len(g.buffer) = Len(buffer)
    BY <1>1, <1>4, <2>2, <2>3
  <2>5. Len(g.buffer) <= Len(buffer)
    BY <1>1, <1>4, <2>2
  <2>6. QED BY <1>4, <2>2, <2>4, <2>5 DEF Lowest
<1>7. LawfulClass(reader) => LawfulFrame(g)
  BY <1>0, <1>1, <1>2, <1>4 DEF IInv, LawfulFrame
<1>8. QED BY <1>0, <1>1, <1>3, <1>4, <1>5, <1>6, <1>7, Continued, PlaceStep

LEMMA SkipFieldStep ==
  ASSUME IInv, SkipField
  PROVE  IInv'
<1>0. /\ Len(stack) \in 1..Len(stack) /\ top = stack[Len(stack)] /\ FrameInv(top)
  BY TopIs
<1>1. /\ top.kind = "model" /\ top.phase = "fields" /\ top.at <= Len(FieldsOf(top.model))
  BY DEF SkipField, InFields, InModel
<1>2. PICK g : g = WithNone(top)
  OBVIOUS
<1>3. Continue(g)
  BY <1>2 DEF SkipField, WithNone
<1>4. /\ FrameInv(g) /\ g.kind = "model" /\ g.model = top.model /\ g.expect = top.expect
      /\ g.buffer = top.buffer /\ g.start = top.start /\ g.offset = top.offset
      /\ g.phase = "fields" /\ g.end = top.end
  BY <1>0, <1>1, <1>2, NoneFrame
<1>5. LawfulClass(reader) => top.offset <= g.offset /\ g.offset <= Len(g.buffer)
  <2>1. top.offset \in Nat
    BY <1>0, FrameKinds
  <2>2. QED BY <1>0, <1>4, <2>1 DEF IInv, LawfulFrame
<1>6. QED BY <1>0, <1>1, <1>3, <1>4, <1>5, Continued, ModelStep

LEMMA ReadLeafStep ==
  ASSUME CodecsBuilt, IInv, ReadLeaf
  PROVE  IInv'
<1>0. /\ Len(stack) \in 1..Len(stack) /\ top = stack[Len(stack)]
  BY TopIs
<1>1. Wanting /\ IsLeaf(Wanted)
  BY DEF ReadLeaf
<1>2. PICK r \in LeafRead : ~PastEnd(top, r[2]) /\ Continue(Given(top, r[1], r[2]))
  BY DEF ReadLeaf
<1>3. /\ Busy(top) /\ Wanted \in Codecs /\ top.buffer \in Seq(Byte) /\ top.offset \in Nat
      /\ LawfulClass(reader) => Lawful[Wanted]
  BY <1>1, WantedIs
<1>4. /\ r[2] \in Nat
      /\ Lawful[Wanted] => top.offset <= r[2] /\ r[2] <= Len(top.buffer)
  BY <1>1, <1>2, <1>3, LeafReads DEF LeafRead
<1>5. PICK next \in Nat : next = r[2]
  BY <1>4
<1>6. PICK g : g = Given(top, r[1], next)
  OBVIOUS
<1>7. Continue(g)
  BY <1>2, <1>5, <1>6
<1>8. /\ reader' = reader /\ buffer' = buffer /\ coming' = coming /\ error' = error
      /\ IsSeq(stack') /\ Len(stack') = Len(stack)
      /\ \A i \in 1..Len(stack) : stack'[i] = IF i = Len(stack) THEN g ELSE stack[i]
  BY <1>7, Continued
<1>9. QED BY <1>0, <1>2, <1>3, <1>4, <1>5, <1>6, <1>8, GivenStep

\* The application's own call is always one of a model.
LEMMA BaseIs ==
  ASSUME IInv
  PROVE  /\ FrameInv(stack[1]) /\ stack[1].kind = "model" /\ stack[1].model = reader
         /\ stack[1].offset \in Nat /\ stack[1].start \in Nat /\ stack[1].end \in SUBSET Nat
         /\ stack[1].buffer \in Seq(Byte) /\ Len(stack[1].buffer) <= Len(buffer)
<1>1. FrameInv(stack[1]) /\ Lowest(stack[1], reader, buffer)
  BY TopIs DEF IInv
<1>2. QED BY <1>1, FrameKinds, ModelFrameTypes DEF Lowest

LEMMA CallStep ==
  ASSUME IInv, Call
  PROVE  IInv'
<1>0. /\ Len(stack) = 1 /\ 1 \in 1..Len(stack) /\ top = stack[1]
  BY TopIs DEF Call
<1>1. PICK g : g = ModelFrame(reader, TRUE, buffer, top.offset, "header")
  OBVIOUS
<1>2. Continue(g)
  BY <1>1 DEF Call
<1>3. PICK from \in Nat : from = top.offset
  BY <1>0, BaseIs
<1>4. /\ FrameInv(g) /\ g.kind = "model" /\ g.model = reader /\ g.expect = TRUE
      /\ g.buffer = buffer /\ g.start = from /\ g.offset = from /\ g.phase = "header"
      /\ g.end = {}
  <2>1. PICK yes \in BOOLEAN : yes = TRUE
    OBVIOUS
  <2>2. g = ModelFrame(reader, yes, buffer, from, "header")
    BY <1>1, <1>3, <2>1
  <2>3. /\ FrameInv(g) /\ g.kind = "model" /\ g.model = reader /\ g.expect = yes
        /\ g.buffer = buffer /\ g.start = from /\ g.offset = from /\ g.phase = "header"
        /\ g.end = {}
    BY <2>2, NewModelFrame DEF IInv
  <2>4. QED BY <2>1, <2>3
<1>5. Lowest(g, reader, buffer)
  BY <1>4 DEF Lowest, IInv
<1>6. LawfulClass(reader) => LawfulFrame(g)
  <2> HAVE LawfulClass(reader)
  <2>1. LawfulFrame(stack[1])
    BY <1>0 DEF IInv
  <2>2. from <= Len(stack[1].buffer)
    BY <1>0, <1>3, <2>1 DEF LawfulFrame
  <2>3. Len(stack[1].buffer) <= Len(buffer) /\ stack[1].buffer \in Seq(Byte)
        /\ buffer \in Seq(Byte)
    BY BaseIs DEF IInv
  <2>4. Len(stack[1].buffer) \in Nat /\ Len(buffer) \in Nat
    BY <2>3
  <2>5. from <= Len(buffer)
    BY <2>2, <2>3, <2>4
  <2>6. QED BY <1>4, <2>5 DEF LawfulFrame
<1>7. /\ reader' = reader /\ buffer' = buffer /\ coming' = coming /\ error' = error
      /\ IsSeq(stack') /\ Len(stack') = 1
      /\ \A i \in 1..1 : stack'[i] = IF i = 1 THEN g ELSE stack[i]
  BY <1>0, <1>2, Continued
<1>8. PICK n \in 1..Len(stack) : n = 1
  BY <1>0
<1>9. /\ Len(stack') = n
      /\ \A i \in 1..n : stack'[i] = IF i = n THEN g ELSE stack[i]
  BY <1>7, <1>8
<1>10. n > 1 => Nested(g, stack[n - 1])
  BY <1>8
<1>11. QED BY <1>4, <1>5, <1>6, <1>7, <1>9, <1>10, PlaceStep

LEMMA EncodeAgainStep ==
  ASSUME EncodesBytes, IInv, EncodeAgain
  PROVE  IInv'
<1>1. PICK bytes \in Encoded(out[1]) :
        buffer' = bytes /\ stack' = <<ModelFrame(reader, TRUE, bytes, 0, "idle")>>
  BY DEF EncodeAgain
<1>2. bytes \in Seq(Byte)
  BY <1>1 DEF EncodesBytes
<1>3. reader' = reader /\ coming' = coming /\ error' = error
  BY DEF EncodeAgain
<1>4. PICK from \in Nat : from = 0
  OBVIOUS
<1>5. stack' = <<ModelFrame(reader, TRUE, bytes, from, "idle")>>
  BY <1>1, <1>4
<1>6. from <= Len(bytes)
  BY <1>2, <1>4
<1>7. QED BY <1>1, <1>2, <1>3, <1>5, <1>6, AloneStep DEF IInv

\* What has arrived and what has not.
LEMMA Arrived ==
  ASSUME NEW b \in Seq(Byte), NEW c \in Seq(Byte), NEW n \in DOMAIN c
  PROVE  b \o SubSeq(c, 1, n) \in Seq(Byte) /\ SubSeq(c, n + 1, Len(c)) \in Seq(Byte)
         /\ Len(b \o SubSeq(c, 1, n)) = Len(b) + n /\ n \in Nat \ {0}
<1>1. n \in 1..Len(c) /\ Len(c) \in Nat
  OBVIOUS
<1>2. PICK x : x = SubSeq(c, 1, n)
  OBVIOUS
<1>3. x \in Seq(Byte) /\ Len(x) = n
  BY <1>1, <1>2, FirstBytes
<1>4. b \o x \in Seq(Byte) /\ Len(b \o x) = Len(b) + n
  BY <1>3
<1>5. SubSeq(c, n + 1, Len(c)) \in Seq(Byte)
  BY <1>1
<1>6. QED BY <1>1, <1>2, <1>4, <1>5

LEMMA ReceiveIs ==
  ASSUME IInv, Receive
  PROVE  \E n \in DOMAIN coming, again \in Nat, more \in Seq(Byte), rest \in Seq(Byte) :
           /\ again = IF error = "none" THEN stack[1].offset ELSE stack[1].start
           /\ more = buffer \o SubSeq(coming, 1, n)
           /\ again <= Len(more)
           /\ Len(more) = Len(buffer) + n
           /\ n \in Nat \ {0}
           /\ buffer' = more /\ coming' = rest
           /\ stack' = <<ModelFrame(reader, TRUE, more, again, "idle")>>
<1>0. buffer \in Seq(Byte) /\ coming \in Seq(Byte)
  BY DEF IInv
<1>1. PICK again : again = IF error = "none" THEN top.offset ELSE stack[1].start
  OBVIOUS
<1>2. PICK n \in DOMAIN coming :
          /\ again <= Len(buffer \o SubSeq(coming, 1, n))
          /\ buffer' = buffer \o SubSeq(coming, 1, n)
          /\ coming' = SubSeq(coming, n + 1, Len(coming))
          /\ stack' = <<ModelFrame(reader, TRUE, buffer \o SubSeq(coming, 1, n), again, "idle")>>
  BY <1>1 DEF Receive
<1>3. error = "none" => top = stack[1]
  BY TopIs DEF Receive
<1>4. again = IF error = "none" THEN stack[1].offset ELSE stack[1].start
  BY <1>1, <1>3
<1>5. again \in Nat
  BY <1>4, BaseIs
<1>6. PICK more \in Seq(Byte) : more = buffer \o SubSeq(coming, 1, n)
  BY <1>0, Arrived
<1>7. PICK rest \in Seq(Byte) : rest = SubSeq(coming, n + 1, Len(coming))
  BY <1>0, Arrived
<1>8. Len(more) = Len(buffer) + n /\ n \in Nat \ {0}
  BY <1>0, <1>6, Arrived
<1>9. /\ again <= Len(more) /\ buffer' = more /\ coming' = rest
      /\ stack' = <<ModelFrame(reader, TRUE, more, again, "idle")>>
  BY <1>2, <1>6, <1>7
<1>10. QED BY <1>4, <1>5, <1>6, <1>8, <1>9

LEMMA ReceiveStep ==
  ASSUME IInv, Receive
  PROVE  IInv'
<1>1. PICK again \in Nat, more \in Seq(Byte), rest \in Seq(Byte) :
        /\ again <= Len(more) /\ buffer' = more /\ coming' = rest
        /\ stack' = <<ModelFrame(reader, TRUE, more, again, "idle")>>
  BY ReceiveIs
<1>2. reader' = reader /\ error' = "none"
  BY DEF Receive
<1>3. QED BY <1>1, <1>2, AloneStep DEF IInv

LEMMA OpenModelStep ==
  ASSUME CodecsBuilt, IInv, OpenModel
  PROVE  IInv'
<1>1. Wanting /\ Wanted.kind = "model"
  BY DEF OpenModel
<1>2. /\ Busy(top) /\ Wanted \in Codecs /\ top.buffer \in Seq(Byte) /\ top.offset \in Nat
      /\ LawfulClass(reader) => Lawful[Wanted] /\ top.offset <= Len(top.buffer)
  BY <1>1, WantedIs
<1>3. PICK m \in DOMAIN Models : m = Wanted.model
  BY <1>1, <1>2, CodecParts
<1>4. LawfulClass(reader) => LawfulClass(m)
  BY <1>1, <1>2, <1>3, LawfulParts
<1>5. PICK no \in BOOLEAN : no = FALSE
  OBVIOUS
<1>6. PICK g : g = ModelFrame(m, no, top.buffer, top.offset, "header")
  OBVIOUS
<1>7. Push(g)
  BY <1>3, <1>5, <1>6 DEF OpenModel
<1>8. /\ FrameInv(g) /\ g.kind = "model" /\ g.model = m
      /\ g.buffer = top.buffer /\ g.start = top.offset /\ g.offset = top.offset
      /\ g.phase = "header"
  <2>1. PICK seen \in Seq(Byte), from \in Nat : seen = top.buffer /\ from = top.offset
    BY <1>2
  <2>2. g = ModelFrame(m, no, seen, from, "header")
    BY <1>6, <2>1
  <2>3. /\ FrameInv(g) /\ g.kind = "model" /\ g.model = m
        /\ g.buffer = seen /\ g.start = from /\ g.offset = from /\ g.phase = "header"
    BY <2>2, NewModelFrame
  <2>4. QED BY <2>1, <2>3
<1>9. IsPrefix(top.buffer, top.buffer)
  BY <1>2, PrefixMeans
<1>10. Nested(g, top)
  BY <1>8, <1>9 DEF Nested
<1>11. LawfulClass(reader) => LawfulFrame(g)
  BY <1>2, <1>4, <1>8 DEF LawfulFrame
<1>12. QED BY <1>2, <1>7, <1>8, <1>10, <1>11, PushStep

LEMMA OpenListStep ==
  ASSUME CodecsBuilt, IInv, OpenList
  PROVE  IInv'
<1>1. Wanting /\ Wanted.kind = "list"
  BY DEF OpenList
<1>2. /\ Busy(top) /\ Wanted \in Codecs /\ top.buffer \in Seq(Byte) /\ top.offset \in Nat
      /\ LawfulClass(reader) => Lawful[Wanted] /\ top.offset <= Len(top.buffer)
  BY <1>1, WantedIs
<1>3. PICK s \in ListSpan :
        Push(ListFrame(Wanted, Order, Slice(top.buffer, s[1], s[2]), s[2]))
  BY DEF OpenList
<1>4. Wanted.prefix \in UInts
  BY <1>1, <1>2, CodecParts
<1>5. /\ s[1] \in Nat /\ s[2] \in Nat /\ top.offset < s[1] /\ s[1] <= s[2]
      /\ s[2] <= Len(top.buffer)
  BY <1>2, <1>3, <1>4, SpanInside DEF ListSpan
<1>6. PICK first \in Nat, last \in Nat : first = s[1] /\ last = s[2]
  BY <1>5
<1>7. PICK values : values = Slice(top.buffer, first, last)
  OBVIOUS
<1>8. values \in Seq(Byte) /\ Len(values) = last - first
  BY <1>2, <1>5, <1>6, <1>7, SliceIs
<1>9. PICK g : g = ListFrame(Wanted, Order, values, last)
  OBVIOUS
<1>10. Push(g)
  BY <1>3, <1>6, <1>7, <1>9
<1>11. /\ FrameInv(g) /\ g.kind = "list" /\ g.item = Wanted.item /\ g.buffer = values
       /\ g.offset = 0 /\ g.end = last
  BY <1>1, <1>2, <1>8, <1>9, NewListFrame
<1>12. last - Len(values) = first /\ Len(values) \in Nat
  BY <1>5, <1>6, <1>8
<1>13. Nested(g, top)
  <2>1. top.offset + Len(g.buffer) <= g.end
    BY <1>2, <1>5, <1>6, <1>8, <1>11
  <2>2. g.end <= Len(top.buffer)
    BY <1>5, <1>6, <1>11
  <2>3. g.buffer = Slice(top.buffer, g.end - Len(g.buffer), g.end)
    BY <1>7, <1>11, <1>12
  <2>4. QED BY <1>11, <2>1, <2>2, <2>3 DEF Nested
<1>14. LawfulClass(reader) => LawfulFrame(g)
  BY <1>1, <1>2, <1>11, <1>12, LawfulParts DEF LawfulFrame
<1>15. QED BY <1>2, <1>10, <1>11, <1>13, <1>14, PushStep

\* Where a message ends.
LEMMA EndIs ==
  ASSUME NEW f, FrameInv(f), f.kind = "model", f.phase = "fields"
  PROVE  /\ EndOf(f) \in Nat /\ f.offset <= EndOf(f)
         /\ \A e \in f.end : EndOf(f) = e
         /\ f.offset <= Len(f.buffer) => EndOf(f) <= Len(f.buffer)
<1>1. /\ f.end \in SUBSET Nat /\ f.offset \in Nat /\ f.buffer \in Seq(Byte)
      /\ AtMostOne(f.length) /\ f.body \in Nat /\ f.length \in SUBSET Nat
      /\ f.end = {f.body + n : n \in f.length}
      /\ \A e \in f.end : Len(f.buffer) = e /\ f.offset <= e
  BY FrameKinds, ModelFrameTypes DEF FrameInv
<1>2. CASE f.end = {}
  <2>1. EndOf(f) = f.offset
    BY <1>2 DEF EndOf
  <2>2. PICK n \in Nat : n = f.offset
    BY <1>1
  <2>3. EndOf(f) = n /\ n <= n
    BY <2>1, <2>2
  <2>4. \A e \in f.end : EndOf(f) = e
    BY <1>2
  <2>5. QED BY <2>2, <2>3, <2>4
<1>3. CASE f.end # {}
  <2>1. PICK e \in Nat : e \in f.end
    BY <1>1, <1>3
  <2>2. f.end = {e}
    BY <1>1, <2>1
  <2>3. EndOf(f) = e
    BY <1>3, <2>2 DEF EndOf, The
  <2>4. Len(f.buffer) = e /\ f.offset <= e
    BY <1>1, <2>1
  <2>5. \A x \in f.end : x = e
    BY <2>2
  <2>6. QED BY <2>1, <2>3, <2>4, <2>5
<1>4. QED BY <1>2, <1>3

LEMMA ReturnStep ==
  ASSUME IInv, Return
  PROVE  IInv'
<1>0. /\ Len(stack) = 1 /\ 1 \in 1..Len(stack) /\ top = stack[1] /\ FrameInv(top)
  BY TopIs DEF Return
<1>1. top.kind = "model" /\ top.phase = "fields"
  BY DEF Return, FieldsRead, InModel
<1>2. PICK from \in Nat : from = EndOf(top)
  BY <1>0, <1>1, EndIs
<1>3. /\ top.offset <= from /\ \A e \in top.end : from = e
      /\ top.offset <= Len(top.buffer) => from <= Len(top.buffer)
  BY <1>0, <1>1, <1>2, EndIs
<1>4. PICK g : g = WithReturn(top, from)
  OBVIOUS
<1>5. stack' = WithTop(g)
  BY <1>2, <1>4 DEF Return, WithReturn
<1>6. \A e \in top.end : from <= e
  BY <1>2, <1>3
<1>7. /\ FrameInv(g) /\ g.kind = "model" /\ g.model = top.model /\ g.expect = top.expect
      /\ g.buffer = top.buffer /\ g.start = top.start /\ g.offset = from
      /\ g.phase = "returned" /\ g.end = top.end
  BY <1>0, <1>1, <1>4, <1>6, ReturnedFrame
<1>8. reader' = reader /\ buffer' = buffer /\ coming' = coming /\ error' = error
  BY DEF Return
<1>9. PICK n \in 1..Len(stack) : n = 1
  BY <1>0
<1>10. /\ IsSeq(stack') /\ Len(stack') = n
       /\ \A i \in 1..n : stack'[i] = IF i = n THEN g ELSE stack[i]
  <2>1. stack' = WithLast(stack, g)
    BY <1>5 DEF WithTop, WithLast
  <2>2. IsSeq(stack) /\ Len(stack) > 0
    BY DEF IInv
  <2>3. /\ IsSeq(stack') /\ Len(stack') = Len(stack)
        /\ \A i \in 1..Len(stack) : stack'[i] = IF i = Len(stack) THEN g ELSE stack[i]
    BY <2>1, <2>2, Replaced
  <2>4. QED BY <1>0, <1>9, <2>3
<1>11. Lowest(g, reader, buffer)
  <2>1. Lowest(top, reader, buffer)
    BY <1>0 DEF IInv
  <2>2. QED BY <1>7, <2>1 DEF Lowest
<1>12. LawfulClass(reader) => LawfulFrame(g)
  <2> HAVE LawfulClass(reader)
  <2>1. LawfulFrame(top)
    BY <1>0 DEF IInv
  <2>2. top.start \in Nat /\ top.offset \in Nat
    BY <1>0, <1>1, FrameKinds, ModelFrameTypes
  <2>3. QED BY <1>1, <1>3, <1>7, <2>1, <2>2 DEF LawfulFrame
<1>13. n > 1 => Nested(g, stack[n - 1])
  BY <1>9
<1>14. QED BY <1>7, <1>8, <1>9, <1>10, <1>11, <1>12, <1>13, PlaceStep

\* A codec that calls others returns.
LEMMA DeliverStep ==
  ASSUME IInv, Len(stack) > 1, NEW value, NEW next \in Nat,
         NEW below, below = stack[Len(stack) - 1],
         LawfulClass(reader) => below.offset <= next /\ next <= Len(below.buffer),
         Deliver(value, next)
  PROVE  IInv'
<1>0. Len(stack) \in Nat /\ IsSeq(stack)
  BY TopIs DEF IInv
<1>1. CASE PastEnd(below, next)
  <2>1. Raise("DecodeError")
    BY <1>1 DEF Deliver
  <2>2. QED BY <2>1, RaiseStep
<1>2. CASE ~PastEnd(below, next)
  <2>1. PICK n \in 1..Len(stack) : n = Len(stack) - 1
    <3>1. Len(stack) - 1 \in 1..Len(stack)
      BY <1>0
    <3>2. QED BY <3>1
  <2>2. PICK g : g = Given(below, value, next)
    OBVIOUS
  <2>3. /\ stack' = Append(SubSeq(stack, 1, Len(stack) - 2), g)
        /\ reader' = reader /\ buffer' = buffer /\ coming' = coming /\ error' = error
    BY <1>2, <2>2 DEF Deliver
  <2>4. /\ IsSeq(stack') /\ Len(stack') = Len(stack) - 1
        /\ \A i \in 1..(Len(stack) - 1) :
             stack'[i] = IF i = Len(stack) - 1 THEN g ELSE stack[i]
    BY <1>0, <2>3, Popped
  <2>5. /\ Len(stack') = n
        /\ \A i \in 1..n : stack'[i] = IF i = n THEN Given(below, value, next) ELSE stack[i]
    BY <2>1, <2>2, <2>4
  <2>6. Busy(below)
    <3>1. Len(stack) \in 2..Len(stack)
      BY <1>0
    <3>2. QED BY <3>1 DEF IInv
  <2>7. below = stack[n]
    BY <2>1
  <2>8. IsSeq(stack')
    BY <2>4
  <2>9. ~PastEnd(below, next)
    BY <1>2
  <2>10. reader' = reader /\ buffer' = buffer /\ coming' = coming /\ error' = error
    BY <2>3
  <2>11. QED BY <2>5, <2>6, <2>7, <2>8, <2>9, <2>10, GivenStep
<1>3. QED BY <1>1, <1>2

\* The call on top and the one that waits for it.
LEMMA BelowIs ==
  ASSUME IInv, Len(stack) > 1, NEW below, below = stack[Len(stack) - 1]
  PROVE  /\ Nested(top, below) /\ Busy(below) /\ FrameInv(below)
         /\ below.offset \in Nat /\ below.buffer \in Seq(Byte)
         /\ LawfulClass(reader) => LawfulFrame(below)
<1>0. Len(stack) \in Nat /\ top = stack[Len(stack)]
  BY TopIs
<1>1. Len(stack) \in 2..Len(stack) /\ Len(stack) - 1 \in 1..Len(stack)
  BY <1>0
<1>2. Nested(top, below) /\ Busy(below) /\ FrameInv(below)
      /\ (LawfulClass(reader) => LawfulFrame(below))
  BY <1>0, <1>1 DEF IInv
<1>3. QED BY <1>2, FrameKinds

LEMMA ReturnModelIs ==
  ASSUME IInv, ReturnModel
  PROVE  /\ Len(stack) > 1 /\ error = "none"
         /\ \E value : \E next \in Nat :
              /\ Deliver(value, next)
              /\ LawfulClass(reader) => /\ stack[Len(stack) - 1].offset <= next
                                       /\ next <= Len(stack[Len(stack) - 1].buffer)
<1>0. /\ Len(stack) \in Nat \ {0} /\ FrameInv(top) /\ Len(stack) \in 1..Len(stack)
      /\ top = stack[Len(stack)]
  BY TopIs
<1>1. top.kind = "model" /\ top.phase = "fields" /\ Len(stack) # 1
  BY DEF ReturnModel, FieldsRead, InModel, Outermost
<1>2. Len(stack) > 1
  BY <1>0, <1>1, AboveOne
<1>3. PICK below : below = stack[Len(stack) - 1]
  OBVIOUS
<1>4. PICK next \in Nat : next = EndOf(top)
  BY <1>0, <1>1, EndIs
<1>5. Deliver(Instance(top), next)
  BY <1>4 DEF ReturnModel
<1>6. /\ Nested(top, below) /\ below.offset \in Nat /\ below.buffer \in Seq(Byte)
  BY <1>2, <1>3, BelowIs
<1>7. top.start = below.offset /\ IsPrefix(top.buffer, below.buffer)
  BY <1>1, <1>6 DEF Nested
<1>8. top.buffer \in Seq(Byte) /\ top.start \in Nat /\ top.offset \in Nat
  BY <1>0, <1>1, FrameKinds, ModelFrameTypes
<1>9. Len(top.buffer) <= Len(below.buffer)
  BY <1>6, <1>7, <1>8, PrefixMeans
<1>10. LawfulClass(reader) => below.offset <= next /\ next <= Len(below.buffer)
  <2> HAVE LawfulClass(reader)
  <2>1. top.offset <= Len(top.buffer) /\ top.start <= top.offset
    BY <1>0, <1>1 DEF IInv, LawfulFrame
  <2>2. top.offset <= next /\ next <= Len(top.buffer)
    BY <1>0, <1>1, <1>4, <2>1, EndIs
  <2>3. Len(top.buffer) \in Nat /\ Len(below.buffer) \in Nat
    BY <1>6, <1>8
  <2>4. below.offset <= next
    BY <1>7, <1>8, <2>1, <2>2
  <2>5. next <= Len(below.buffer)
    BY <1>9, <2>2, <2>3
  <2>6. QED BY <2>4, <2>5
<1>11. error = "none"
  BY DEF ReturnModel, FieldsRead, InModel
<1>12. PICK value : value = Instance(top)
  OBVIOUS
<1>13. Deliver(value, next)
  BY <1>5, <1>12
<1>14. LawfulClass(reader) => /\ stack[Len(stack) - 1].offset <= next
                             /\ next <= Len(stack[Len(stack) - 1].buffer)
  BY <1>3, <1>10
<1>15. QED BY <1>2, <1>11, <1>13, <1>14

LEMMA ReturnListIs ==
  ASSUME IInv, ReturnList
  PROVE  /\ Len(stack) > 1 /\ error = "none"
         /\ \E value : \E next \in Nat :
              /\ Deliver(value, next)
              /\ LawfulClass(reader) => /\ stack[Len(stack) - 1].offset <= next
                                       /\ next <= Len(stack[Len(stack) - 1].buffer)
<1>0. /\ Len(stack) \in Nat \ {0} /\ FrameInv(top) /\ top = stack[Len(stack)]
  BY TopIs
<1>1. top.kind = "list"
  BY DEF ReturnList, InList
<1>2. Len(stack) > 1
  <2>1. Len(stack) # 1
    BY <1>0, <1>1, BaseIs
  <2>2. QED BY <1>0, <2>1, AboveOne
<1>3. PICK below : below = stack[Len(stack) - 1]
  OBVIOUS
<1>4. PICK next \in Nat : next = top.end
  BY <1>0, <1>1, FrameKinds, ListFrameTypes
<1>5. Deliver(top.items, next)
  BY <1>4 DEF ReturnList
<1>6. /\ Nested(top, below) /\ below.offset \in Nat /\ below.buffer \in Seq(Byte)
  BY <1>2, <1>3, BelowIs
<1>7. top.buffer \in Seq(Byte)
  BY <1>0, FrameKinds
<1>8. below.offset + Len(top.buffer) <= next /\ next <= Len(below.buffer)
  BY <1>1, <1>4, <1>6 DEF Nested
<1>9. below.offset <= next
  BY <1>6, <1>7, <1>8
<1>10. error = "none"
  BY DEF ReturnList, InList
<1>11. PICK value : value = top.items
  OBVIOUS
<1>12. Deliver(value, next)
  BY <1>5, <1>11
<1>13. LawfulClass(reader) => /\ stack[Len(stack) - 1].offset <= next
                             /\ next <= Len(stack[Len(stack) - 1].buffer)
  BY <1>3, <1>8, <1>9
<1>14. QED BY <1>2, <1>10, <1>12, <1>13

LEMMA ReturnPartStep ==
  ASSUME IInv, ReturnModel \/ ReturnList
  PROVE  IInv'
<1>1. /\ Len(stack) > 1
      /\ \E value : \E next \in Nat :
           /\ Deliver(value, next)
           /\ LawfulClass(reader) => /\ stack[Len(stack) - 1].offset <= next
                                    /\ next <= Len(stack[Len(stack) - 1].buffer)
  BY ReturnModelIs, ReturnListIs
<1>2. QED BY <1>1, DeliverStep

\* Nothing a stutter leaves alone can break the invariant.
LEMMA StutterStep ==
  ASSUME IInv, UNCHANGED vars
  PROVE  IInv'
<1>1. reader' \in DOMAIN Models /\ buffer' \in Seq(Byte) /\ coming' \in Seq(Byte)
      /\ error' \in {"none", "DecodeError", "SchemaError", "ValueError"}
  BY DEF vars, IInv
<1>2. IsSeq(stack') /\ Len(stack') > 0
  BY DEF vars, IInv
<1>3. \A i \in 1..Len(stack') : FrameInv(stack'[i])
  BY DEF vars, IInv
<1>4. \A i \in 2..Len(stack') : Nested(stack'[i], stack'[i - 1]) /\ Busy(stack'[i - 1])
  BY DEF vars, IInv
<1>5. Lowest(stack'[1], reader', buffer')
  BY DEF vars, IInv
<1>6. LawfulClass(reader') => \A i \in 1..Len(stack') : LawfulFrame(stack'[i])
  BY DEF vars, IInv
<1>7. QED BY <1>1, <1>2, <1>3, <1>4, <1>5, <1>6 DEF IInv

LEMMA Preserved ==
  ASSUME CodecsBuilt, EncodesBytes, IInv, [Next]_vars
  PROVE  IInv'
<1>1. CASE Call \/ EncodeAgain \/ Receive
  BY <1>1, CallStep, EncodeAgainStep, ReceiveStep
<1>2. CASE SkipElement \/ ReadElement
  BY <1>2, HeaderSteps
<1>3. CASE ElementRaises \/ PayloadMissing \/ EncodingRaises \/ LeafRaises \/ ListRaises \/ ValidatorRaises
  <2>1. \E what \in {"DecodeError", "SchemaError", "ValueError"} : Raise(what)
    BY <1>3 DEF ElementRaises, PayloadMissing, EncodingRaises, LeafRaises, ListRaises, ValidatorRaises
  <2>2. QED BY <2>1, RaiseStep
<1>4. CASE EnterPayload
  BY <1>4, PayloadStep
<1>5. CASE SkipField \/ ReadLeaf
  BY <1>5, SkipFieldStep, ReadLeafStep
<1>6. CASE OpenModel \/ OpenList
  BY <1>6, OpenModelStep, OpenListStep
<1>7. CASE Return \/ ReturnModel \/ ReturnList
  BY <1>7, ReturnStep, ReturnPartStep
<1>8. CASE UNCHANGED vars
  BY <1>8, StutterStep
<1>9. QED BY <1>1, <1>2, <1>3, <1>4, <1>5, <1>6, <1>7, <1>8 DEF Next

LEMMA Starts ==
  ASSUME Init
  PROVE  IInv
<1>1. reader \in DOMAIN Models /\ buffer \in Seq(Byte) /\ coming \in Seq(Byte)
  <2>1. CASE \E f \in Foreign : reader = f.reader /\ buffer = f.buffer /\ coming = << >>
    BY <2>1, StreamAssumption
  <2>2. CASE \E s \in Streams :
               /\ reader = s.reader
               /\ \E cut \in 1..Len(s.bytes) :
                    /\ buffer = SubSeq(s.bytes, 1, cut)
                    /\ coming = SubSeq(s.bytes, cut + 1, Len(s.bytes))
    <3>0. PICK s \in Streams :
            /\ reader = s.reader
            /\ \E cut \in 1..Len(s.bytes) :
                 /\ buffer = SubSeq(s.bytes, 1, cut)
                 /\ coming = SubSeq(s.bytes, cut + 1, Len(s.bytes))
      BY <2>2
    <3>1. PICK cut \in 1..Len(s.bytes) :
            /\ buffer = SubSeq(s.bytes, 1, cut)
            /\ coming = SubSeq(s.bytes, cut + 1, Len(s.bytes))
      BY <3>0
    <3>2. PICK b \in Seq(Byte) : b = s.bytes
      BY StreamAssumption
    <3>3. cut \in Nat /\ cut <= Len(b) /\ cut \in DOMAIN b
      BY <3>2
    <3>4. SubSeq(b, 1, cut) \in Seq(Byte) /\ SubSeq(b, cut + 1, Len(b)) \in Seq(Byte)
      BY <3>3, FirstBytes, Arrived
    <3>5. QED BY <3>0, <3>1, <3>2, <3>4, StreamAssumption
  <2>3. QED BY <2>1, <2>2 DEF Init
<1>2. error = "none" /\ stack = <<ModelFrame(reader, TRUE, buffer, 0, "idle")>>
  BY DEF Init
<1>3. PICK g : g = ModelFrame(reader, TRUE, buffer, 0, "idle")
  OBVIOUS
<1>4. /\ FrameInv(g) /\ g.kind = "model" /\ g.model = reader /\ g.expect = TRUE
      /\ g.buffer = buffer /\ g.start = 0 /\ g.offset = 0 /\ g.phase = "idle"
      /\ g.end = {}
  <2>1. PICK yes \in BOOLEAN, from \in Nat : yes = TRUE /\ from = 0
    OBVIOUS
  <2>2. g = ModelFrame(reader, yes, buffer, from, "idle")
    BY <1>3, <2>1
  <2>3. /\ FrameInv(g) /\ g.kind = "model" /\ g.model = reader /\ g.expect = yes
        /\ g.buffer = buffer /\ g.start = from /\ g.offset = from /\ g.phase = "idle"
        /\ g.end = {}
    BY <1>1, <2>2, NewModelFrame
  <2>4. QED BY <2>1, <2>3
<1>5. IsSeq(stack) /\ Len(stack) = 1 /\ stack[1] = g
  BY <1>2, <1>3, Single
<1>6. Lowest(g, reader, buffer)
  BY <1>4 DEF Lowest
<1>7. LawfulFrame(g) \/ ~LawfulClass(reader)
  BY <1>1, <1>4 DEF LawfulFrame
<1>8. \A i \in 1..Len(stack) : FrameInv(stack[i]) /\ (LawfulClass(reader) => LawfulFrame(stack[i]))
  <2> TAKE i \in 1..Len(stack)
  <2>1. i \in 1..1
    BY <1>5
  <2>2. i = 1
    BY <2>1
  <2>3. QED BY <1>4, <1>5, <1>7, <2>2
<1>9. \A i \in 2..Len(stack) : FALSE
  BY <1>5
<1>10. Len(stack) > 0 /\ Lowest(stack[1], reader, buffer)
       /\ error \in {"none", "DecodeError", "SchemaError", "ValueError"}
  <2>1. error \in {"none", "DecodeError", "SchemaError", "ValueError"}
    BY <1>2
  <2>2. Len(stack) > 0
    BY <1>5
  <2>3. Lowest(stack[1], reader, buffer)
    BY <1>5, <1>6
  <2>4. QED BY <2>1, <2>2, <2>3
<1>11. QED BY <1>1, <1>5, <1>8, <1>9, <1>10 DEF IInv

-----------------------------------------------------------------------------
(* The theorems.                                                           *)

\* A frame has the types of its locals.
LEMMA FrameTypes ==
  ASSUME NEW f, FrameInv(f)
  PROVE  /\ f.buffer \in Seq(Byte) /\ f.offset \in Nat
         /\ f.kind = "list" => f.end \in Nat
         /\ f.kind # "list" =>
              /\ f.kind = "model"
              /\ f.phase \in {"idle", "header", "fields", "returned"}
              /\ f.at \in Nat \ {0}
              /\ AtMostOne(f.length) /\ AtMostOne(f.end)
              /\ f.flags \subseteq 0..63
              /\ Len(f.args) <= Len(FieldsOf(f.model))
<1>1. f.buffer \in Seq(Byte) /\ f.offset \in Nat /\ f.kind \in {"model", "list"}
  BY FrameKinds
<1>2. CASE f.kind = "list"
  BY <1>1, <1>2, FrameKinds, ListFrameTypes
<1>3. CASE f.kind = "model"
  <2>1. /\ f.model \in DOMAIN Models /\ f.phase \in Phases /\ f.at \in Nat \ {0}
        /\ f.flags \in SUBSET (0..63) /\ IsSeq(f.args)
        /\ f.body \in Nat /\ f.length \in SUBSET Nat
    BY <1>3, FrameKinds, ModelFrameTypes
  <2>2. AtMostOne(f.length)
    BY <1>3 DEF FrameInv
  <2>3. PICK fields : fields = FieldsOf(f.model)
    OBVIOUS
  <2>4. Len(fields) \in Nat
    BY <2>1, <2>3, WireAssumption DEF IsSchema, FieldsOf
  <2>5. CASE f.phase \in {"idle", "header"}
    <3>1. f.args = << >> /\ f.end = {}
      BY <1>3, <2>5 DEF FrameInv
    <3>2. Len(f.args) <= Len(fields)
      BY <2>4, <3>1
    <3>3. AtMostOne(f.end)
      BY <3>1 DEF AtMostOne
    <3>4. QED BY <1>1, <1>3, <2>1, <2>2, <2>3, <3>2, <3>3 DEF Phases
  <2>6. CASE f.phase \notin {"idle", "header"}
    <3>1. Len(f.args) = f.at - 1 /\ f.at <= Len(fields) + 1
          /\ f.end = {f.body + n : n \in f.length}
      BY <1>3, <2>3, <2>6 DEF FrameInv
    <3>2. Len(f.args) <= Len(fields)
      BY <2>1, <2>4, <3>1
    <3>3. AtMostOne(f.end)
      BY <2>2, <3>1 DEF AtMostOne
    <3>4. QED BY <1>1, <1>3, <2>1, <2>2, <2>3, <3>2, <3>3 DEF Phases
  <2>7. QED BY <2>5, <2>6
<1>4. QED BY <1>1, <1>2, <1>3

LEMMA TypesFollow ==
  ASSUME IInv
  PROVE  TypeOK
<1>1. IsSeq(stack) /\ Len(stack) \in Nat \ {0}
  BY TopIs DEF IInv
<1>2. DOMAIN stack = 1..Len(stack)
  BY <1>1, SeqIs DEF IsSeq
<1>3. ASSUME NEW i \in DOMAIN stack
      PROVE  /\ stack[i].buffer \in Seq(Byte) /\ stack[i].offset \in Nat
             /\ IF stack[i].kind = "list" THEN stack[i].end \in Nat /\ i > 1
                ELSE /\ stack[i].phase \in {"idle", "header", "fields", "returned"}
                     /\ stack[i].at \in Nat \ {0}
                     /\ AtMostOne(stack[i].length) /\ AtMostOne(stack[i].end)
                     /\ stack[i].flags \subseteq 0..63
                     /\ Len(stack[i].args) <= Len(FieldsOf(stack[i].model))
  <2>1. FrameInv(stack[i])
    BY <1>2 DEF IInv
  <2>2. i \in Nat \ {0}
    BY <1>1, <1>2
  <2>3. stack[i].kind = "list" => i # 1
    BY BaseIs
  <2>4. stack[i].kind = "list" => i > 1
    BY <2>2, <2>3, AboveOne
  <2>5. QED BY <2>1, <2>4, FrameTypes
<1>4. QED BY <1>1, <1>3 DEF TypeOK, IInv

LEMMA BoundsFollow ==
  ASSUME IInv
  PROVE  Confined
<1> SUFFICES ASSUME LawfulClass(reader) PROVE Confined
  BY DEF Confined
<1>1. IsSeq(stack) /\ Len(stack) \in Nat \ {0}
  BY TopIs DEF IInv
<1>2. DOMAIN stack = 1..Len(stack)
  BY <1>1, SeqIs DEF IsSeq
<1>3. ASSUME NEW i \in DOMAIN stack
      PROVE  /\ stack[i].offset <= Len(stack[i].buffer)
             /\ stack[i].kind = "model" =>
                  \A e \in stack[i].end : Len(stack[i].buffer) = e
  <2>1. FrameInv(stack[i]) /\ LawfulFrame(stack[i])
    BY <1>2 DEF IInv
  <2>2. ASSUME stack[i].kind = "model"
        PROVE  \A e \in stack[i].end : Len(stack[i].buffer) = e
    BY <2>1, <2>2 DEF FrameInv
  <2>3. QED BY <2>1, <2>2 DEF LawfulFrame
<1>4. ASSUME NEW i \in 2..Len(stack)
      PROVE  IF stack[i].kind = "model"
             THEN IsPrefix(stack[i].buffer, stack[i - 1].buffer)
             ELSE /\ stack[i].end <= Len(stack[i - 1].buffer)
                  /\ stack[i].buffer = Slice(stack[i - 1].buffer,
                                             stack[i].end - Len(stack[i].buffer),
                                             stack[i].end)
  <2>1. Nested(stack[i], stack[i - 1])
    BY DEF IInv
  <2>2. stack[i].kind \in {"model", "list"}
    <3>1. i \in 1..Len(stack)
      BY <1>1
    <3>2. FrameInv(stack[i])
      BY <3>1 DEF IInv
    <3>3. QED BY <3>2, FrameKinds
  <2>3. QED BY <2>1, <2>2 DEF Nested
<1>5. QED BY <1>3, <1>4 DEF Confined

\* decode_from, ModelCodec.decode and ListCodec.decode, however deep: the calls
\* in progress keep the types of their locals on every input.
THEOREM TypeCorrect ==
  ASSUME CodecsBuilt, EncodesBytes
  PROVE  Spec => []TypeOK
<1>1. Init => IInv
  BY Starts
<1>2. IInv /\ [Next]_vars => IInv'
  BY Preserved
<1>3. IInv => TypeOK
  BY TypesFollow
<1>4. QED BY <1>1, <1>2, <1>3, PTL DEF Spec

\* docs/wire-format.rst, for every schema, stream and depth: fields, nested
\* models and items are read inside their payload, their parent's payload and
\* their list's bytes.
THEOREM ConfinedCorrect ==
  ASSUME CodecsBuilt, EncodesBytes
  PROVE  Spec => []Confined
<1>1. Init => IInv
  BY Starts
<1>2. IInv /\ [Next]_vars => IInv'
  BY Preserved
<1>3. IInv => Confined
  BY BoundsFollow
<1>4. QED BY <1>1, <1>2, <1>3, PTL DEF Spec

-----------------------------------------------------------------------------
(* The outermost call implements DecodeFrom.                               *)

LEMMA FlagsAreNumbers ==
  \A x \in SUBSET (0..63) : x \in SUBSET Nat
OBVIOUS

LEMMA InputIs ==
  ASSUME NEW m \in DOMAIN Models, NEW size \in Nat, NEW inp, inp = InputOf(m, size)
  PROVE  /\ inp \in AnyInput
         /\ inp.size = size /\ inp.expect = TRUE /\ inp.lawful = LawfulClass(m)
         /\ Len(inp.header) = Len(Models[m].header)
         /\ \A i \in 1..Len(Models[m].header) : inp.header[i] = Models[m].header[i].kind
         /\ Len(inp.fields) = Len(FieldsOf(m))
         /\ \A i \in 1..Len(FieldsOf(m)) : inp.fields[i] = FieldsOf(m)[i].flag
<1>1. PICK H : H = [kind: {"Constructor", "PayloadLength", "Flags"}, codec: UInts]
  OBVIOUS
<1>2. PICK F : F = [codec: Codecs, flag: SUBSET (0..63)]
  OBVIOUS
<1>3. PICK h \in Seq(H) : h = Models[m].header
  BY <1>1, WireAssumption DEF IsSchema
<1>4. PICK f \in Seq(F) : f = FieldsOf(m)
  BY <1>2, WireAssumption DEF IsSchema, FieldsOf
<1>5. PICK header : header = [i \in DOMAIN h |-> h[i].kind]
  OBVIOUS
<1>6. PICK fields : fields = [i \in DOMAIN f |-> f[i].flag]
  OBVIOUS
<1>7. /\ header \in Seq({"Constructor", "PayloadLength", "Flags"})
      /\ Len(header) = Len(h) /\ \A i \in 1..Len(h) : header[i] = h[i].kind
  <2>1. DOMAIN h = 1..Len(h) /\ Len(h) \in Nat /\ \A i \in 1..Len(h) : h[i] \in H
    BY <1>3
  <2>2. \A i \in 1..Len(h) : h[i].kind \in {"Constructor", "PayloadLength", "Flags"}
    BY <1>1, <2>1
  <2>3. header = [i \in 1..Len(h) |-> h[i].kind]
    BY <1>5, <2>1
  <2>4. header \in [1..Len(h) -> {"Constructor", "PayloadLength", "Flags"}]
    BY <2>2, <2>3
  <2>5. header \in Seq({"Constructor", "PayloadLength", "Flags"})
    BY <2>1, <2>4
  <2>6. Len(header) = Len(h)
    BY <2>1, <2>3
  <2>7. QED BY <2>3, <2>5, <2>6
<1>8. /\ fields \in Seq(SUBSET Nat)
      /\ Len(fields) = Len(f) /\ \A i \in 1..Len(f) : fields[i] = f[i].flag
  <2>1. DOMAIN f = 1..Len(f) /\ Len(f) \in Nat /\ \A i \in 1..Len(f) : f[i] \in F
    BY <1>4
  <2>2. \A i \in 1..Len(f) : f[i].flag \in SUBSET Nat
    <3> TAKE i \in 1..Len(f)
    <3>1. f[i].flag \in SUBSET (0..63)
      BY <1>2, <2>1
    <3>2. QED BY <3>1, FlagsAreNumbers
  <2>3. fields = [i \in 1..Len(f) |-> f[i].flag]
    BY <1>6, <2>1
  <2>4. fields \in [1..Len(f) -> SUBSET Nat]
    BY <2>2, <2>3
  <2>5. fields \in Seq(SUBSET Nat)
    BY <2>1, <2>4
  <2>6. Len(fields) = Len(f)
    BY <2>1, <2>3
  <2>7. QED BY <2>3, <2>5, <2>6
<1>9. PICK lawful \in BOOLEAN : lawful = LawfulClass(m)
  BY DEF LawfulClass
<1>10. inp = [size |-> size, expect |-> TRUE, lawful |-> lawful,
              header |-> header, fields |-> fields]
  BY <1>3, <1>4, <1>5, <1>6, <1>9 DEF InputOf
<1>11. inp \in AnyInput
  BY <1>7, <1>8, <1>10 DEF AnyInput
<1>12. QED BY <1>3, <1>4, <1>7, <1>8, <1>9, <1>10, <1>11

LEMMA InputTyped ==
  ASSUME NEW m \in DOMAIN Models, NEW size \in Nat
  PROVE  InputOf(m, size) \in AnyInput
<1>1. PICK inp : inp = InputOf(m, size)
  OBVIOUS
<1>2. inp \in AnyInput
  BY ZenonT(60), <1>1, InputIs
<1>3. QED BY <1>1, <1>2

LEMMA InputScalars ==
  ASSUME NEW m \in DOMAIN Models, NEW size \in Nat
  PROVE  /\ InputOf(m, size).size = size
         /\ InputOf(m, size).expect = TRUE
         /\ InputOf(m, size).lawful = LawfulClass(m)
<1>1. PICK inp : inp = InputOf(m, size)
  OBVIOUS
<1>2. inp.size = size /\ inp.expect = TRUE /\ inp.lawful = LawfulClass(m)
  BY ZenonT(60), <1>1, InputIs
<1>3. QED BY Zenon, <1>1, <1>2

LEMMA InputFields ==
  ASSUME NEW m \in DOMAIN Models, NEW size \in Nat
  PROVE  Len(InputOf(m, size).fields) = Len(FieldsOf(m))
<1>1. PICK inp : inp = InputOf(m, size)
  OBVIOUS
<1>2. Len(inp.fields) = Len(FieldsOf(m))
  BY ZenonT(60), <1>1, InputIs
<1>3. QED BY <1>1, <1>2

LEMMA InputElement ==
  ASSUME NEW m \in DOMAIN Models, NEW size \in Nat,
         NEW i \in 1..Len(Models[m].header)
  PROVE  InputOf(m, size).header[i] = Models[m].header[i].kind
<1>1. PICK h \in Seq([kind: {"Constructor", "PayloadLength", "Flags"}, codec: UInts]) :
        h = Models[m].header
  BY WireAssumption DEF IsSchema
<1>2. i \in DOMAIN h
  BY <1>1
<1>3. QED BY <1>1, <1>2 DEF InputOf

LEMMA InputField ==
  ASSUME NEW m \in DOMAIN Models, NEW size \in Nat,
         NEW i \in 1..Len(FieldsOf(m))
  PROVE  InputOf(m, size).fields[i] = FieldsOf(m)[i].flag
<1>1. PICK f \in Seq([codec: Codecs, flag: SUBSET (0..63)]) : f = FieldsOf(m)
  BY WireAssumption DEF IsSchema, FieldsOf
<1>2. i \in DOMAIN f
  BY <1>1
<1>3. QED BY <1>1, <1>2 DEF InputOf

LEMMA ArgsAppend ==
  ASSUME NEW a, IsSeq(a), NEW x
  PROVE  ArgsOf(Append(a, x)) = Append(ArgsOf(a), IF x = {} THEN "None" ELSE "value")
<1>1. PICK S : S = Range(a) \cup {x}
  OBVIOUS
<1>2. a \in Seq(Range(a)) /\ x \in S /\ Range(a) \subseteq S
  BY <1>1 DEF IsSeq
<1>3. a \in Seq(S)
  BY <1>2
<1>4. PICK y \in {"None", "value"} : y = IF x = {} THEN "None" ELSE "value"
  OBVIOUS
<1>5. PICK b : b = [i \in DOMAIN a |-> IF a[i] = {} THEN "None" ELSE "value"]
  OBVIOUS
<1>6. b \in Seq({"None", "value"}) /\ Len(b) = Len(a)
      /\ \A i \in 1..Len(a) : b[i] = IF a[i] = {} THEN "None" ELSE "value"
  BY <1>3, <1>5
<1>7. PICK t \in Seq(S) : t = Append(a, x)
  <2>1. Append(a, x) \in Seq(S)
    BY <1>2, <1>3
  <2>2. QED BY <2>1
<1>8. /\ Len(t) = Len(a) + 1
      /\ \A i \in 1..(Len(a) + 1) : t[i] = IF i = Len(a) + 1 THEN x ELSE a[i]
  BY <1>2, <1>3, <1>7
<1>9. PICK c : c = [i \in DOMAIN t |-> IF t[i] = {} THEN "None" ELSE "value"]
  OBVIOUS
<1>10. c \in Seq({"None", "value"}) /\ Len(c) = Len(a) + 1
      /\ \A i \in 1..(Len(a) + 1) : c[i] = IF t[i] = {} THEN "None" ELSE "value"
  BY <1>3, <1>7, <1>8, <1>9
<1>11. PICK d \in Seq({"None", "value"}) : d = Append(b, y)
  <2>1. Append(b, y) \in Seq({"None", "value"})
    BY <1>6
  <2>2. QED BY <2>1
<1>12. /\ Len(d) = Len(a) + 1
       /\ \A i \in 1..(Len(a) + 1) : d[i] = IF i = Len(a) + 1 THEN y ELSE b[i]
  BY <1>6, <1>11
<1>13. \A i \in 1..(Len(a) + 1) : c[i] = d[i]
  <2> TAKE i \in 1..(Len(a) + 1)
  <2>1. CASE i = Len(a) + 1
    BY <1>4, <1>8, <1>10, <1>12, <2>1
  <2>2. CASE i # Len(a) + 1
    <3>1. i \in 1..Len(a)
      BY <1>3, <2>2
    <3>2. QED BY <1>6, <1>8, <1>10, <1>12, <2>2, <3>1
  <2>3. QED BY <2>1, <2>2
<1>14. c = d
  BY <1>3, <1>10, <1>12, <1>13
<1>15. QED BY <1>4, <1>5, <1>7, <1>9, <1>11, <1>14 DEF ArgsOf

\* The abstract state is that of the outermost frame.
LEMMA SameBase ==
  ASSUME reader' = reader, Len(buffer)' = Len(buffer), error' = error,
         stack'[1] = stack[1]
  PROVE  UNCHANGED DF!vars
<1>1. InputOf(reader, Len(buffer))' = InputOf(reader, Len(buffer))
  BY DEF InputOf
<1>2. PhaseOf' = PhaseOf /\ base' = base
  BY DEF PhaseOf, base
<1>3. QED BY <1>1, <1>2 DEF DF!vars

LEMMA InputSame ==
  ASSUME reader' = reader, Len(buffer)' = Len(buffer)
  PROVE  InputOf(reader, Len(buffer))' = InputOf(reader, Len(buffer))
BY DEF InputOf

LEMMA NoArgs == ArgsOf(<< >>) = << >>
BY DEF ArgsOf

\* The abstract state when nothing was raised.
LEMMA InputNow ==
  ASSUME IInv, NEW inp, inp = InputOf(reader, Len(buffer)), error = "none"
  PROVE  /\ inp \in AnyInput /\ inp.size = Len(buffer) /\ inp.expect = TRUE
         /\ inp.lawful = LawfulClass(reader)
         /\ Len(inp.header) = Len(Models[reader].header)
         /\ Len(inp.fields) = Len(FieldsOf(reader))
         /\ PhaseOf = base.phase /\ base = stack[1]
<1>1. PICK size \in Nat : size = Len(buffer)
  <2>1. Len(buffer) \in Nat
    BY DEF IInv
  <2>2. QED BY <2>1
<1>2. PICK m \in DOMAIN Models : m = reader
  BY DEF IInv
<1>3. inp = InputOf(m, size)
  BY <1>1, <1>2
<1>4. PhaseOf = base.phase /\ base = stack[1]
  BY DEF PhaseOf, base
<1>5. inp \in AnyInput
  BY <1>3, InputTyped
<1>6. inp.size = size /\ inp.expect = TRUE /\ inp.lawful = LawfulClass(m)
  BY Zenon, <1>3, InputScalars
<1>7. Len(inp.header) = Len(Models[m].header)
  <2>1. PICK h \in Seq([kind: {"Constructor", "PayloadLength", "Flags"}, codec: UInts]) :
          h = Models[m].header
    BY WireAssumption DEF IsSchema
  <2>2. inp.header = [i \in DOMAIN h |-> h[i].kind]
    BY <1>3, <2>1 DEF InputOf
  <2>3. Len([i \in DOMAIN h |-> h[i].kind]) = Len(h)
    BY <2>1
  <2>4. QED BY <2>1, <2>2, <2>3
<1>8. Len(inp.fields) = Len(FieldsOf(m))
  BY <1>3, InputFields
<1>9. QED BY <1>1, <1>2, <1>4, <1>5, <1>6, <1>7, <1>8

\* The element and the field the loops are at.
LEMMA ElementNow ==
  ASSUME IInv, NEW i \in 1..Len(Models[reader].header)
  PROVE  InputOf(reader, Len(buffer)).header[i] = Models[reader].header[i].kind
<1>1. Len(buffer) \in Nat /\ reader \in DOMAIN Models
  BY DEF IInv
<1>2. QED BY <1>1, InputElement

LEMMA FieldNow ==
  ASSUME IInv, NEW i \in 1..Len(FieldsOf(reader))
  PROVE  InputOf(reader, Len(buffer)).fields[i] = FieldsOf(reader)[i].flag
<1>1. Len(buffer) \in Nat /\ reader \in DOMAIN Models
  BY DEF IInv
<1>2. QED BY <1>1, InputField

LEMMA Resized ==
  ASSUME NEW inp \in AnyInput, NEW inp2 \in AnyInput,
         inp2.expect = inp.expect, inp2.lawful = inp.lawful,
         inp2.header = inp.header, inp2.fields = inp.fields
  PROVE  inp2 = [inp EXCEPT !.size = inp2.size]
BY DEF AnyInput

LEMMA RaiseMaps ==
  ASSUME NEW what \in {"DecodeError", "SchemaError", "ValueError"}, Raise(what)
  PROVE  DF!Raise
<1>1. /\ reader' = reader /\ buffer' = buffer /\ stack' = stack /\ error' # "none"
  BY DEF Raise
<1>2. InputOf(reader, Len(buffer))' = InputOf(reader, Len(buffer))
  BY <1>1, InputSame
<1>3. base' = base /\ PhaseOf' = "raised"
  BY <1>1 DEF base, PhaseOf
<1>4. QED BY <1>2, <1>3 DEF DF!Raise

LEMMA CallMaps ==
  ASSUME IInv, Call
  PROVE  DF!Call
<1>0. /\ Len(stack) = 1 /\ 1 \in 1..Len(stack) /\ top = stack[1] /\ error = "none"
      /\ top.phase = "idle" \/ (top.phase = "returned" /\ top.offset < Len(buffer))
  BY TopIs DEF Call
<1>1. PICK inp : inp = InputOf(reader, Len(buffer))
  OBVIOUS
<1>2. inp.size = Len(buffer) /\ PhaseOf = base.phase /\ base = stack[1]
  BY <1>0, <1>1, InputNow
<1>3. PICK g : g = ModelFrame(reader, TRUE, buffer, top.offset, "header")
  OBVIOUS
<1>4. /\ reader' = reader /\ buffer' = buffer /\ error' = error
      /\ stack'[1] = g
  <2>1. Continue(g)
    BY <1>3 DEF Call
  <2>2. QED BY <1>0, <2>1, Continued
<1>5. /\ g.start = top.offset /\ g.offset = top.offset /\ g.phase = "header"
      /\ g.at = 1 /\ g.length = {} /\ g.flags = {} /\ g.body = top.offset
      /\ g.end = {} /\ g.args = << >>
  BY <1>3 DEF ModelFrame
<1>6. base' = g /\ PhaseOf' = "header"
  BY <1>0, <1>4, <1>5 DEF base, PhaseOf
<1>7. InputOf(reader, Len(buffer))' = inp
  BY <1>1, <1>4, InputSame
<1>8. ArgsOf(base.args)' = << >>
  BY <1>5, <1>6, NoArgs
<1>9. base.offset = top.offset
  BY <1>0, <1>2
<1>10. QED BY <1>0, <1>1, <1>2, <1>5, <1>6, <1>7, <1>8, <1>9 DEF DF!Call

LEMMA EncodeAgainMaps ==
  ASSUME EncodesBytes, IInv, EncodeAgain
  PROVE  DF!NewBuffer
<1>0. /\ top = stack[1] /\ error = "none" /\ top.phase = "returned" /\ reader' = reader
      /\ error' = error
  BY TopIs DEF EncodeAgain
<1>1. PhaseOf = "returned"
  BY <1>0 DEF PhaseOf, base
<1>2. PICK bytes \in Encoded(out[1]) :
        buffer' = bytes /\ stack' = <<ModelFrame(reader, TRUE, bytes, 0, "idle")>>
  BY DEF EncodeAgain
<1>3. PICK g : g = ModelFrame(reader, TRUE, bytes, 0, "idle")
  OBVIOUS
<1>4. stack'[1] = g
  BY <1>2, <1>3, Single
<1>5. /\ g.start = 0 /\ g.offset = 0 /\ g.phase = "idle"
      /\ g.at = 1 /\ g.length = {} /\ g.flags = {} /\ g.body = 0
      /\ g.end = {} /\ g.args = << >>
  BY <1>3 DEF ModelFrame
<1>6. base' = g /\ PhaseOf' = "idle"
  BY <1>0, <1>4, <1>5 DEF base, PhaseOf
<1>7. ArgsOf(base.args)' = << >>
  BY <1>5, <1>6, NoArgs
<1>8. InputOf(reader, Len(buffer))' \in AnyInput
  <2>1. PICK size \in Nat : size = Len(bytes)
    <3>1. bytes \in Seq(Byte)
      BY <1>2 DEF EncodesBytes
    <3>2. Len(bytes) \in Nat
      BY <3>1
    <3>3. QED BY <3>2
  <2>2. reader \in DOMAIN Models
    BY DEF IInv
  <2>3. InputOf(reader, size) \in AnyInput
    BY <2>2, InputTyped
  <2>4. InputOf(reader, Len(buffer))' = InputOf(reader, size)
    BY <1>0, <1>2, <2>1
  <2>5. QED BY <2>3, <2>4
<1>9. QED BY <1>1, <1>5, <1>6, <1>7, <1>8 DEF DF!NewBuffer

LEMMA ReceiveMaps ==
  ASSUME IInv, Receive
  PROVE  DF!MoreBytes
<1>1. PICK n \in DOMAIN coming, again \in Nat, more \in Seq(Byte), rest \in Seq(Byte) :
           /\ again = IF error = "none" THEN stack[1].offset ELSE stack[1].start
           /\ again <= Len(more)
           /\ Len(more) = Len(buffer) + n
           /\ n \in Nat \ {0}
           /\ buffer' = more
           /\ stack' = <<ModelFrame(reader, TRUE, more, again, "idle")>>
  BY ReceiveIs
<1>2. /\ reader' = reader /\ error' = "none"
      /\ error = "none" => top = stack[1] /\ top.phase = "returned"
      /\ error \in {"none", "DecodeError"}
  BY TopIs DEF Receive
<1>3. PhaseOf = IF error = "none" THEN "returned" ELSE "raised"
  BY <1>2 DEF PhaseOf, base
<1>4. PICK g : g = ModelFrame(reader, TRUE, more, again, "idle")
  OBVIOUS
<1>5. stack'[1] = g
  BY <1>1, <1>4, Single
<1>6. /\ g.start = again /\ g.offset = again /\ g.phase = "idle"
      /\ g.at = 1 /\ g.length = {} /\ g.flags = {} /\ g.body = again
      /\ g.end = {} /\ g.args = << >>
  BY <1>4 DEF ModelFrame
<1>7. base' = g /\ PhaseOf' = "idle"
  BY <1>2, <1>5, <1>6 DEF base, PhaseOf
<1>8. ArgsOf(base.args)' = << >>
  BY <1>6, <1>7, NoArgs
<1>9. PICK old \in Nat, new \in Nat : old = Len(buffer) /\ new = Len(more)
  <2>1. Len(buffer) \in Nat /\ Len(more) \in Nat
    BY DEF IInv
  <2>2. QED BY <2>1
<1>10. PICK inp : inp = InputOf(reader, old)
  OBVIOUS
<1>11. PICK inp2 : inp2 = InputOf(reader, new)
  OBVIOUS
<1>12. inp2 \in AnyInput /\ inp2.size = new /\ inp.size = old
  <2>1. reader \in DOMAIN Models
    BY DEF IInv
  <2>2. inp2 \in AnyInput /\ inp2.size = new
    BY <1>11, <2>1, InputTyped, InputScalars
  <2>3. inp.size = old
    BY <1>10, <2>1, InputScalars
  <2>4. QED BY <2>2, <2>3
<1>13. inp2 = [inp EXCEPT !.size = new]
  <2>1. inp.expect = inp2.expect /\ inp.lawful = inp2.lawful
        /\ inp.header = inp2.header /\ inp.fields = inp2.fields
    BY <1>10, <1>11 DEF InputOf
  <2>2. inp \in AnyInput
    <3>1. reader \in DOMAIN Models
      BY DEF IInv
    <3>2. QED BY <1>10, <3>1, InputTyped
  <2>3. QED BY <1>12, <2>1, <2>2, Resized
<1>14. InputOf(reader, Len(buffer)) = inp /\ InputOf(reader, Len(buffer))' = inp2
  BY <1>1, <1>2, <1>9, <1>10, <1>11
<1>15. new > old /\ again <= new
  BY <1>1, <1>9
<1>16. again = IF PhaseOf = "raised" THEN base.start ELSE base.offset
  BY <1>1, <1>3 DEF base
<1>17. QED
  BY <1>3, <1>6, <1>7, <1>8, <1>12, <1>13, <1>14, <1>15, <1>16 DEF DF!MoreBytes
\* A step of a call above the outermost one, or a new call there.
LEMMA AboveMaps ==
  ASSUME IInv, NEW g, (Continue(g) /\ Len(stack) > 1) \/ Push(g)
  PROVE  UNCHANGED DF!vars
<1>1. Len(stack) \in Nat /\ IsSeq(stack) /\ 1 \in 1..Len(stack)
  BY TopIs DEF IInv
<1>2. CASE Continue(g) /\ Len(stack) > 1
  <2>1. reader' = reader /\ buffer' = buffer /\ error' = error /\ stack'[1] = stack[1]
    BY <1>1, <1>2, Continued
  <2>2. QED BY <2>1, SameBase
<1>3. CASE Push(g)
  <2>1. reader' = reader /\ buffer' = buffer /\ error' = error /\ stack' = Append(stack, g)
    BY <1>3 DEF Push
  <2>2. 1 \in 1..(Len(stack) + 1) /\ 1 # Len(stack) + 1
    BY <1>1
  <2>3. stack'[1] = stack[1]
    BY <1>1, <2>1, <2>2, Appended
  <2>4. QED BY <2>1, <2>3, SameBase
<1>4. QED BY <1>2, <1>3

\* The outermost call waits for a codec.
LEMMA WaitingMaps ==
  ASSUME IInv, error = "none", Busy(stack[1])
  PROVE  DF!InFields /\ ~DF!Absent
<1>1. PICK inp : inp = InputOf(reader, Len(buffer))
  OBVIOUS
<1>2. /\ Len(inp.fields) = Len(FieldsOf(reader)) /\ PhaseOf = base.phase
      /\ base = stack[1]
  BY <1>1, InputNow
<1>3. /\ base.phase = "fields" /\ base.at <= Len(FieldsOf(reader))
      /\ \A b \in FieldsOf(reader)[base.at].flag : b \in base.flags
  BY <1>2, BaseIs DEF Busy
<1>4. base.at \in 1..Len(FieldsOf(reader))
  <2>1. base.at \in Nat \ {0}
    BY <1>2, BaseIs, FrameKinds, ModelFrameTypes
  <2>2. reader \in DOMAIN Models
    BY DEF IInv
  <2>3. Len(FieldsOf(reader)) \in Nat
    BY <2>2, WireAssumption DEF IsSchema, FieldsOf
  <2>4. QED BY <1>3, <2>1, <2>3
<1>5. inp.fields[base.at] = FieldsOf(reader)[base.at].flag
  BY <1>1, <1>4, FieldNow
<1>6. DF!InFields
  BY <1>1, <1>2, <1>3 DEF DF!InFields
<1>7. ~DF!Absent
  BY <1>1, <1>3, <1>5 DEF DF!Absent
<1>8. QED BY <1>6, <1>7

\* Whatever raises above the outermost call, its field's codec raises.
LEMMA AboveRaises ==
  ASSUME IInv, error = "none", Len(stack) > 1,
         NEW what \in {"DecodeError", "SchemaError", "ValueError"}, Raise(what)
  PROVE  DF!FieldRaises
<1>1. 2 \in 2..Len(stack)
  BY TopIs
<1>2. Busy(stack[2 - 1])
  BY <1>1 DEF IInv
<1>3. Busy(stack[1])
  BY <1>2
<1>4. QED BY <1>3, WaitingMaps, RaiseMaps DEF DF!FieldRaises

LEMMA GivenMaps ==
  ASSUME Offsets = Nat, IInv, error = "none", Busy(stack[1]), NEW value, NEW next \in Nat,
         ~PastEnd(stack[1], next),
         LawfulClass(reader) => stack[1].offset <= next /\ next <= Len(stack[1].buffer),
         reader' = reader, buffer' = buffer, error' = error,
         stack'[1] = Given(stack[1], value, next)
  PROVE  DF!DecodeField
<1>1. PICK inp : inp = InputOf(reader, Len(buffer))
  OBVIOUS
<1>2. /\ inp.size = Len(buffer) /\ inp.lawful = LawfulClass(reader)
      /\ PhaseOf = base.phase /\ base = stack[1]
  BY <1>1, InputNow
<1>3. /\ FrameInv(base) /\ base.kind = "model" /\ base.phase = "fields"
      /\ base.at <= Len(FieldsOf(base.model))
  BY <1>2, BaseIs DEF Busy
<1>4. PICK g : g = Given(base, value, next)
  OBVIOUS
<1>5. g = WithArg(base, {value}, next)
  BY <1>3, <1>4 DEF Given, WithArg
<1>6. base.end \in SUBSET Nat /\ IsSeq(base.args) /\ AtMostOne(base.end)
      /\ base.offset \in Nat /\ base.buffer \in Seq(Byte)
  BY <1>3, FrameKinds, ModelFrameTypes, FrameTypes
<1>7. \A e \in base.end : ~(next > e) /\ next <= e
  BY <1>2, <1>3, <1>6 DEF PastEnd
<1>8. /\ g.start = base.start /\ g.offset = next /\ g.phase = "fields"
      /\ g.at = base.at + 1 /\ g.length = base.length /\ g.flags = base.flags
      /\ g.body = base.body /\ g.end = base.end
      /\ g.args = Append(base.args, {value})
  BY <1>3, <1>5, <1>7, ArgFrame
<1>9. base' = g /\ PhaseOf' = "fields"
  BY <1>2, <1>4, <1>8 DEF base, PhaseOf
<1>10. InputOf(reader, Len(buffer))' = inp
  BY <1>1, InputSame
<1>11. ArgsOf(base.args)' = Append(ArgsOf(base.args), "value")
  <2>1. PICK v : v = {value}
    OBVIOUS
  <2>2. ArgsOf(Append(base.args, v)) =
          Append(ArgsOf(base.args), IF v = {} THEN "None" ELSE "value")
    BY <1>6, ArgsAppend
  <2>3. v # {}
    BY <2>1
  <2>4. ArgsOf(base.args)' = ArgsOf(g.args)
    BY <1>9
  <2>5. QED BY <1>8, <2>1, <2>2, <2>3, <2>4
<1>12. DF!InFields /\ ~DF!Absent
  BY WaitingMaps
<1>13. DF!View = IF base.end = {} THEN Len(buffer) ELSE Len(base.buffer)
  <2>1. CASE base.end = {}
    BY <1>1, <1>2, <2>1 DEF DF!View
  <2>2. CASE base.end # {}
    <3>1. PICK e : e \in base.end
      BY <2>2
    <3>2. base.end = {e}
      BY <1>6, <3>1 DEF AtMostOne
    <3>3. Len(base.buffer) = e
      BY <1>3, <3>1 DEF FrameInv
    <3>4. DF!View = e
      BY <3>2 DEF DF!View
    <3>5. QED BY <2>2, <3>3, <3>4
  <2>3. QED BY <2>1, <2>2
<1>14. base.end = {} => Len(base.buffer) = Len(buffer)
  <2>1. Lowest(stack[1], reader, buffer)
    BY TopIs DEF IInv
  <2>2. QED BY <1>2, <2>1 DEF Lowest
<1>15. inp.lawful => next >= base.offset /\ next <= DF!View
  BY <1>2, <1>6, <1>13, <1>14
<1>16. DF!Contract(next)
  BY <1>1, <1>15 DEF DF!Contract
<1>17. ~DF!PastEnd(next)
  BY <1>7 DEF DF!PastEnd
<1>18. (base.offset)' = next
  BY <1>8, <1>9
<1>19. PhaseOf' = PhaseOf
  BY <1>2, <1>3, <1>9
<1>20. /\ (base.at)' = base.at + 1 /\ (base.start)' = base.start
       /\ (base.length)' = base.length /\ (base.flags)' = base.flags
       /\ (base.body)' = base.body /\ (base.end)' = base.end
  BY <1>8, <1>9
<1>21. QED
  BY <1>1, <1>10, <1>11, <1>12, <1>16, <1>17, <1>18, <1>19, <1>20 DEF DF!DecodeField

\* The outermost call is at a header element.
LEMMA HeaderMaps ==
  ASSUME IInv, Outermost, InHeader
  PROVE  /\ DF!InHeader /\ ~DF!Skipped /\ ~Skipped
         /\ DF!Element = Element.kind /\ PhaseOf = "header" /\ base = stack[1]
         /\ top = stack[1] /\ top.buffer = buffer /\ error = "none"
<1>1. PICK inp : inp = InputOf(reader, Len(buffer))
  OBVIOUS
<1>2. /\ top = stack[1] /\ error = "none" /\ top.phase = "header" /\ top.at \in 1..Len(Header)
      /\ top.kind = "model"
  BY TopIs, ElementIs
<1>3. /\ inp.expect = TRUE /\ Len(inp.header) = Len(Models[reader].header)
      /\ PhaseOf = base.phase /\ base = stack[1]
  BY <1>1, <1>2, InputNow
<1>4. Lowest(stack[1], reader, buffer)
  BY TopIs DEF IInv
<1>5. top.model = reader /\ top.expect = TRUE /\ top.buffer = buffer
  BY <1>2, <1>4 DEF Lowest
<1>6. PICK i \in 1..Len(Models[reader].header) : i = top.at
  BY <1>2, <1>5 DEF Header
<1>7. inp.header[i] = Models[reader].header[i].kind
  BY <1>1, ElementNow
<1>8. DF!InHeader
  <2>1. i <= Len(inp.header)
    BY <1>3, <1>6
  <2>2. QED BY <1>1, <1>2, <1>3, <1>6, <2>1 DEF DF!InHeader
<1>9. DF!Element = Element.kind
  BY <1>1, <1>2, <1>3, <1>5, <1>6, <1>7 DEF DF!Element, Element, Header
<1>10. ~DF!Skipped
  BY <1>1, <1>3 DEF DF!Skipped
<1>11. ~Skipped
  BY <1>5 DEF Skipped
<1>12. QED BY <1>2, <1>3, <1>5, <1>8, <1>9, <1>10, <1>11

LEMMA SkipElementMaps ==
  ASSUME IInv, SkipElement
  PROVE  UNCHANGED DF!vars
<1>1. InHeader /\ Skipped /\ \E g : Continue(g)
  BY DEF SkipElement
<1>2. ~Outermost
  BY <1>1, HeaderMaps
<1>3. Len(stack) > 1
  BY <1>2, TopIs, AboveOne
<1>4. QED BY <1>1, <1>3, AboveMaps

LEMMA ReadElementMaps ==
  ASSUME Offsets = Nat, IInv, ReadElement, Outermost
  PROVE  DF!ReadElement
<1>1. PICK inp : inp = InputOf(reader, Len(buffer))
  OBVIOUS
<1>2. InHeader
  BY DEF ReadElement
<1>3. /\ DF!InHeader /\ ~DF!Skipped
      /\ DF!Element = Element.kind /\ PhaseOf = "header" /\ base = stack[1]
      /\ top = stack[1] /\ top.buffer = buffer /\ error = "none"
  BY <1>2, HeaderMaps
<1>4. inp.size = Len(buffer)
  BY <1>1, <1>3, InputNow
<1>5. PICK n \in Nat, from \in Nat :
           /\ from > top.offset /\ from <= Len(top.buffer)
           /\ Continue(WithElement(top, from,
                IF Element.kind = "PayloadLength" THEN {n} ELSE top.length,
                IF Element.kind = "Flags" THEN BitsOf(n) ELSE top.flags))
  BY ReadElementIs
<1>6. PICK length : length = IF Element.kind = "PayloadLength" THEN {n} ELSE top.length
  OBVIOUS
<1>7. PICK flags : flags = IF Element.kind = "Flags" THEN BitsOf(n) ELSE top.flags
  OBVIOUS
<1>8. /\ FrameInv(top) /\ top.kind = "model" /\ top.phase = "header"
      /\ top.length \in SUBSET Nat /\ AtMostOne(top.length)
      /\ top.flags \in SUBSET (0..63) /\ top.offset \in Nat
  BY <1>2, TopIs, ElementIs, FrameKinds, ModelFrameTypes DEF FrameInv
<1>9. length \in SUBSET Nat /\ AtMostOne(length) /\ flags \in SUBSET (0..63)
  BY <1>6, <1>7, <1>8 DEF AtMostOne, BitsOf
<1>10. PICK g : g = WithElement(top, from, length, flags)
  OBVIOUS
<1>11. Continue(g)
  BY <1>5, <1>6, <1>7, <1>10
<1>12. /\ g.start = top.start /\ g.offset = from
       /\ g.phase = "header" /\ g.at = top.at + 1 /\ g.length = length /\ g.flags = flags
       /\ g.body = top.body /\ g.end = top.end /\ g.args = top.args
  BY <1>8, <1>9, <1>10, InHeaderFrame
<1>13. reader' = reader /\ buffer' = buffer /\ error' = error /\ stack'[1] = g
  BY <1>11, Continued, TopIs
<1>14. base' = g /\ PhaseOf' = PhaseOf
  BY <1>3, <1>12, <1>13 DEF base, PhaseOf
<1>15. InputOf(reader, Len(buffer))' = InputOf(reader, Len(buffer))
  BY <1>13, InputSame
<1>16. (base.offset)' \in (base.offset + 1)..InputOf(reader, Len(buffer)).size
  <2>1. Len(buffer) \in Nat
    BY DEF IInv
  <2>2. from \in (top.offset + 1)..Len(buffer)
    BY <1>3, <1>5, <1>8, <2>1
  <2>3. QED BY <1>1, <1>3, <1>4, <1>12, <1>14, <2>2
<1>17. IF DF!Element = "PayloadLength" THEN \E k \in Offsets : (base.length)' = {k}
       ELSE (base.length)' = base.length
  BY <1>3, <1>6, <1>12, <1>14
<1>18. IF DF!Element = "Flags" THEN (base.flags)' \in SUBSET (0..63)
       ELSE (base.flags)' = base.flags
  BY <1>3, <1>7, <1>9, <1>12, <1>14
<1>19. /\ (base.at)' = base.at + 1 /\ (base.start)' = base.start
       /\ (base.body)' = base.body /\ (base.end)' = base.end
       /\ ArgsOf(base.args)' = ArgsOf(base.args)
  BY <1>3, <1>12, <1>14
<1>20. base.offset >= 0
  BY <1>3, <1>8
<1>21. QED
  BY <1>3, <1>14, <1>15, <1>16, <1>17, <1>18, <1>19, <1>20 DEF DF!ReadElement

\* The outermost call has read its header.
LEMMA PayloadMaps ==
  ASSUME IInv, Outermost, HeaderRead
  PROVE  /\ PhaseOf = "header" /\ base = stack[1] /\ top = stack[1] /\ error = "none"
         /\ base.at > Len(InputOf(reader, Len(buffer)).header)
         /\ InputOf(reader, Len(buffer)).size = Len(top.buffer)
         /\ FrameInv(top) /\ top.kind = "model" /\ top.phase = "header"
<1>1. PICK inp : inp = InputOf(reader, Len(buffer))
  OBVIOUS
<1>2. /\ top = stack[1] /\ error = "none" /\ top.phase = "header" /\ top.at > Len(Header)
      /\ top.kind = "model" /\ FrameInv(top)
  BY TopIs DEF HeaderRead, InModel
<1>3. /\ inp.size = Len(buffer) /\ Len(inp.header) = Len(Models[reader].header)
      /\ PhaseOf = base.phase /\ base = stack[1]
  BY <1>1, <1>2, InputNow
<1>4. Lowest(stack[1], reader, buffer)
  BY TopIs DEF IInv
<1>5. top.model = reader /\ top.buffer = buffer
  BY <1>2, <1>4 DEF Lowest
<1>6. Len(Header) = Len(inp.header)
  BY <1>3, <1>5 DEF Header
<1>7. QED BY <1>1, <1>2, <1>3, <1>5, <1>6

LEMMA EnterPayloadMaps ==
  ASSUME IInv, EnterPayload, Outermost
  PROVE  DF!EnterPayload
<1>1. HeaderRead /\ PayloadThere
  BY DEF EnterPayload
<1>2. /\ PhaseOf = "header" /\ base = stack[1] /\ top = stack[1] /\ error = "none"
      /\ base.at > Len(InputOf(reader, Len(buffer)).header)
      /\ InputOf(reader, Len(buffer)).size = Len(top.buffer)
      /\ FrameInv(top) /\ top.kind = "model" /\ top.phase = "header"
  BY <1>1, PayloadMaps
<1>3. PICK seen \in Seq(Byte) :
        /\ Continue(WithPayload(top, seen))
        /\ \A n \in top.length : Len(seen) = top.offset + n
  BY PayloadIs
<1>4. PICK g : g = WithPayload(top, seen)
  OBVIOUS
<1>5. /\ g.start = top.start /\ g.offset = top.offset
      /\ g.phase = "fields" /\ g.at = 1 /\ g.length = top.length
      /\ g.flags = top.flags /\ g.body = top.offset
      /\ g.end = {top.offset + n : n \in top.length} /\ g.args = << >>
  BY <1>2, <1>3, <1>4, PayloadFrame
<1>6. top.args = << >>
  BY <1>2 DEF FrameInv
<1>7. reader' = reader /\ buffer' = buffer /\ error' = error /\ stack'[1] = g
  BY <1>3, <1>4, Continued, TopIs
<1>8. base' = g /\ PhaseOf' = "fields"
  BY <1>2, <1>5, <1>7 DEF base, PhaseOf
<1>9. InputOf(reader, Len(buffer))' = InputOf(reader, Len(buffer))
  BY <1>7, InputSame
<1>10. \A n \in base.length : base.offset + n <= InputOf(reader, Len(buffer)).size
  BY <1>1, <1>2 DEF PayloadThere, Available
<1>11. /\ (base.at)' = 1 /\ (base.start)' = base.start /\ (base.offset)' = base.offset
       /\ (base.length)' = base.length /\ (base.flags)' = base.flags
       /\ (base.body)' = base.offset
       /\ (base.end)' = {base.offset + n : n \in base.length}
       /\ ArgsOf(base.args)' = ArgsOf(base.args)
  BY <1>2, <1>5, <1>6, <1>8
<1>12. QED BY <1>2, <1>8, <1>9, <1>10, <1>11 DEF DF!EnterPayload

LEMMA HeaderRaisesMaps ==
  ASSUME IInv, Outermost, ElementRaises \/ PayloadMissing
  PROVE  DF!ElementRaises \/ DF!PayloadMissing
<1>1. CASE ElementRaises
  <2>1. InHeader /\ Raise("DecodeError")
    BY <1>1 DEF ElementRaises
  <2>2. QED BY <2>1, HeaderMaps, RaiseMaps DEF DF!ElementRaises
<1>2. CASE PayloadMissing
  <2>1. HeaderRead /\ ~PayloadThere /\ Raise("DecodeError")
    BY <1>2 DEF PayloadMissing
  <2>2. /\ PhaseOf = "header" /\ base = top
        /\ base.at > Len(InputOf(reader, Len(buffer)).header)
        /\ InputOf(reader, Len(buffer)).size = Len(top.buffer)
        /\ FrameInv(top) /\ top.kind = "model"
    BY <2>1, PayloadMaps
  <2>3. top.length \in SUBSET Nat /\ top.offset \in Nat /\ Len(top.buffer) \in Nat
    <3>1. top.length \in SUBSET Nat /\ top.offset \in Nat /\ top.buffer \in Seq(Byte)
      BY <2>2, FrameKinds, ModelFrameTypes
    <3>2. QED BY <3>1
  <2>4. PICK n \in top.length : ~(top.offset + n <= Len(top.buffer))
    BY <2>1 DEF PayloadThere, Available
  <2>5. top.offset + n > Len(top.buffer)
    BY <2>3, <2>4
  <2>6. \E k \in base.length : base.offset + k > InputOf(reader, Len(buffer)).size
    BY <2>2, <2>4, <2>5
  <2>7. DF!Raise
    BY <2>1, RaiseMaps
  <2>8. QED BY <2>2, <2>6, <2>7 DEF DF!PayloadMissing
<1>3. QED BY <1>1, <1>2

LEMMA SkipFieldMaps ==
  ASSUME IInv, SkipField, Outermost
  PROVE  DF!SkipField
<1>1. PICK inp : inp = InputOf(reader, Len(buffer))
  OBVIOUS
<1>2. /\ top = stack[1] /\ error = "none" /\ top.kind = "model" /\ top.phase = "fields"
      /\ top.at <= Len(FieldsOf(top.model)) /\ FrameInv(top)
      /\ \E b \in FieldsOf(top.model)[top.at].flag : b \notin top.flags
  BY TopIs DEF SkipField, InFields, InModel, Absent
<1>3. /\ Len(inp.fields) = Len(FieldsOf(reader)) /\ PhaseOf = base.phase
      /\ base = stack[1] /\ top.model = reader
  BY <1>1, <1>2, InputNow, BaseIs
<1>4. top.at \in 1..Len(FieldsOf(reader)) /\ top.at \in Nat \ {0} /\ IsSeq(top.args)
  <2>1. top.at \in Nat \ {0} /\ IsSeq(top.args)
    BY <1>2, FrameKinds, ModelFrameTypes
  <2>2. reader \in DOMAIN Models
    BY DEF IInv
  <2>3. Len(FieldsOf(reader)) \in Nat
    BY <2>2, WireAssumption DEF IsSchema, FieldsOf
  <2>4. QED BY <1>2, <1>3, <2>1, <2>3
<1>5. inp.fields[top.at] = FieldsOf(reader)[top.at].flag
  BY <1>1, <1>4, FieldNow
<1>6. PICK g : g = WithNone(top)
  OBVIOUS
<1>7. Continue(g)
  BY <1>6 DEF SkipField, WithNone
<1>8. /\ g.start = top.start /\ g.offset = top.offset
      /\ g.phase = "fields" /\ g.at = top.at + 1 /\ g.length = top.length
      /\ g.flags = top.flags /\ g.body = top.body /\ g.end = top.end
      /\ g.args = Append(top.args, {})
  BY <1>2, <1>6, NoneFrame
<1>9. reader' = reader /\ buffer' = buffer /\ error' = error /\ stack'[1] = g
  BY <1>7, Continued, TopIs
<1>10. base' = g /\ PhaseOf' = "fields" /\ PhaseOf = "fields"
  BY <1>2, <1>3, <1>8, <1>9 DEF base, PhaseOf
<1>11. InputOf(reader, Len(buffer))' = InputOf(reader, Len(buffer))
  BY <1>9, InputSame
<1>12. ArgsOf(base.args)' = Append(ArgsOf(base.args), "None")
  <2>1. PICK v : v = {}
    OBVIOUS
  <2>2. ArgsOf(Append(top.args, v)) =
          Append(ArgsOf(top.args), IF v = {} THEN "None" ELSE "value")
    BY <1>4, ArgsAppend
  <2>3. ArgsOf(base.args)' = ArgsOf(g.args)
    BY <1>10
  <2>4. QED BY <1>2, <1>3, <1>8, <2>1, <2>2, <2>3
<1>13. DF!InFields /\ DF!Absent
  <2>1. DF!InFields
    BY <1>1, <1>2, <1>3 DEF DF!InFields
  <2>2. DF!Absent
    BY <1>1, <1>2, <1>3, <1>5 DEF DF!Absent
  <2>3. QED BY <2>1, <2>2
<1>14. /\ (base.at)' = base.at + 1 /\ (base.start)' = base.start
       /\ (base.offset)' = base.offset /\ (base.length)' = base.length
       /\ (base.flags)' = base.flags /\ (base.body)' = base.body
       /\ (base.end)' = base.end
  BY <1>2, <1>3, <1>8, <1>10
<1>15. QED
  BY <1>10, <1>11, <1>12, <1>13, <1>14 DEF DF!SkipField

LEMMA ReadLeafMaps ==
  ASSUME CodecsBuilt, Offsets = Nat, IInv, ReadLeaf, Outermost
  PROVE  DF!DecodeField
<1>1. Wanting /\ IsLeaf(Wanted)
  BY DEF ReadLeaf
<1>2. PICK r \in LeafRead : ~PastEnd(top, r[2]) /\ Continue(Given(top, r[1], r[2]))
  BY DEF ReadLeaf
<1>3. /\ Busy(top) /\ Wanted \in Codecs /\ top.buffer \in Seq(Byte) /\ top.offset \in Nat
      /\ error = "none" /\ top = stack[1]
      /\ LawfulClass(reader) => Lawful[Wanted]
  BY <1>1, WantedIs, TopIs
<1>4. /\ r[2] \in Nat
      /\ Lawful[Wanted] => top.offset <= r[2] /\ r[2] <= Len(top.buffer)
  BY <1>1, <1>2, <1>3, LeafReads DEF LeafRead
<1>5. PICK next \in Nat : next = r[2]
  BY <1>4
<1>6. PICK g : g = Given(top, r[1], next)
  OBVIOUS
<1>7. Continue(g)
  BY <1>2, <1>5, <1>6
<1>8. reader' = reader /\ buffer' = buffer /\ error' = error /\ stack'[1] = g
  BY <1>7, Continued, TopIs
<1>9. ~PastEnd(stack[1], next) /\ stack'[1] = Given(stack[1], r[1], next)
  BY <1>2, <1>3, <1>5, <1>6, <1>8
<1>10. LawfulClass(reader) => stack[1].offset <= next /\ next <= Len(stack[1].buffer)
  BY <1>3, <1>4, <1>5
<1>11. Busy(stack[1])
  BY <1>3
<1>12. QED BY <1>3, <1>8, <1>9, <1>10, <1>11, GivenMaps

\* A field of the outermost call raises: its own codec or one of its parts.
LEMMA FieldRaisesMaps ==
  ASSUME CodecsBuilt, IInv, EncodingRaises \/ LeafRaises \/ ListRaises
  PROVE  DF!FieldRaises
<1>1. PICK what \in {"DecodeError", "SchemaError", "ValueError"} : Wanting /\ Raise(what)
  BY DEF EncodingRaises, LeafRaises, ListRaises
<1>2. Busy(top) /\ error = "none"
  BY <1>1, WantedIs
<1>3. CASE Outermost
  <2>1. Busy(stack[1])
    BY <1>2, <1>3, TopIs
  <2>2. QED BY <1>1, <1>2, <2>1, WaitingMaps, RaiseMaps DEF DF!FieldRaises
<1>4. CASE ~Outermost
  <2>1. Len(stack) > 1
    BY <1>4, TopIs, AboveOne
  <2>2. QED BY <1>1, <1>2, <2>1, AboveRaises
<1>5. QED BY <1>3, <1>4

\* The outermost call has read its fields.
LEMMA FieldsMaps ==
  ASSUME IInv, Outermost, FieldsRead
  PROVE  /\ PhaseOf = "fields" /\ base = stack[1] /\ top = stack[1] /\ error = "none"
         /\ base.at > Len(InputOf(reader, Len(buffer)).fields)
         /\ FrameInv(top) /\ top.kind = "model" /\ top.phase = "fields"
<1>1. PICK inp : inp = InputOf(reader, Len(buffer))
  OBVIOUS
<1>2. /\ top = stack[1] /\ error = "none" /\ top.phase = "fields"
      /\ top.at > Len(FieldsOf(top.model)) /\ top.kind = "model" /\ FrameInv(top)
  BY TopIs DEF FieldsRead, InModel
<1>3. /\ Len(inp.fields) = Len(FieldsOf(reader)) /\ PhaseOf = base.phase
      /\ base = stack[1] /\ top.model = reader
  BY <1>1, <1>2, InputNow, BaseIs
<1>4. QED BY <1>1, <1>2, <1>3

LEMMA ReturnMaps ==
  ASSUME IInv, Return
  PROVE  DF!Return
<1>1. Outermost /\ FieldsRead
  BY DEF Return
<1>2. /\ PhaseOf = "fields" /\ base = stack[1] /\ top = stack[1] /\ error = "none"
      /\ base.at > Len(InputOf(reader, Len(buffer)).fields)
      /\ FrameInv(top) /\ top.kind = "model" /\ top.phase = "fields"
  BY <1>1, FieldsMaps
<1>3. PICK from \in Nat : from = EndOf(top)
  BY <1>2, EndIs
<1>4. \A e \in top.end : from <= e /\ ~(top.offset > e)
  <2>1. \A e \in top.end : EndOf(top) = e
    BY <1>2, EndIs
  <2>2. \A e \in top.end : top.offset <= e
    BY <1>2 DEF FrameInv
  <2>3. top.offset \in Nat /\ top.end \in SUBSET Nat
    BY <1>2, FrameKinds, ModelFrameTypes
  <2>4. QED BY <1>3, <2>1, <2>2, <2>3
<1>5. PICK g : g = WithReturn(top, from)
  OBVIOUS
<1>6. stack' = WithLast(stack, g)
  BY <1>3, <1>5 DEF Return, WithReturn, WithTop, WithLast
<1>7. /\ g.start = top.start /\ g.offset = from
      /\ g.phase = "returned" /\ g.at = top.at /\ g.length = top.length
      /\ g.flags = top.flags /\ g.body = top.body /\ g.end = top.end
      /\ g.args = top.args
  BY <1>2, <1>4, <1>5, ReturnedFrame
<1>8. reader' = reader /\ buffer' = buffer /\ error' = error
  BY DEF Return
<1>9. stack'[1] = g
  <2>1. IsSeq(stack) /\ Len(stack) = 1 /\ Len(stack) > 0
    BY <1>1, TopIs DEF IInv
  <2>2. \A i \in 1..Len(stack) : stack'[i] = IF i = Len(stack) THEN g ELSE stack[i]
    BY <1>6, <2>1, Replaced
  <2>3. 1 \in 1..Len(stack)
    BY TopIs
  <2>4. QED BY <2>1, <2>2, <2>3
<1>10. base' = g /\ PhaseOf' = "returned"
  BY <1>2, <1>7, <1>8, <1>9 DEF base, PhaseOf
<1>11. InputOf(reader, Len(buffer))' = InputOf(reader, Len(buffer))
  BY <1>8, InputSame
<1>12. ~DF!PastEnd(base.offset)
  BY <1>2, <1>4 DEF DF!PastEnd
<1>13. from = IF base.end = {} THEN base.offset ELSE DF!View
  BY <1>2, <1>3 DEF EndOf, The, DF!View
<1>14. /\ (base.at)' = base.at /\ (base.start)' = base.start /\ (base.offset)' = from
       /\ (base.length)' = base.length /\ (base.flags)' = base.flags
       /\ (base.body)' = base.body /\ (base.end)' = base.end
       /\ ArgsOf(base.args)' = ArgsOf(base.args)
  BY <1>2, <1>7, <1>10
<1>15. QED BY <1>2, <1>10, <1>11, <1>12, <1>13, <1>14 DEF DF!Return

LEMMA ValidatorMaps ==
  ASSUME IInv, ValidatorRaises
  PROVE  DF!ValidatorRaises \/ DF!FieldRaises
<1>1. FieldsRead /\ Raise("ValueError")
  BY DEF ValidatorRaises
<1>2. CASE Outermost
  BY <1>1, <1>2, FieldsMaps, RaiseMaps DEF DF!ValidatorRaises
<1>3. CASE ~Outermost
  <2>1. Len(stack) > 1 /\ error = "none"
    BY <1>1, <1>3, TopIs, AboveOne DEF FieldsRead, InModel
  <2>2. QED BY <1>1, <2>1, AboveRaises
<1>4. QED BY <1>2, <1>3

\* A codec with parts returns, perhaps to the outermost call.
LEMMA DeliverMaps ==
  ASSUME Offsets = Nat, IInv, error = "none", Len(stack) > 1, NEW value, NEW next \in Nat,
         NEW below, below = stack[Len(stack) - 1],
         LawfulClass(reader) => below.offset <= next /\ next <= Len(below.buffer),
         Deliver(value, next)
  PROVE  DF!FieldRaises \/ DF!DecodeField \/ UNCHANGED DF!vars
<1>0. Len(stack) \in Nat /\ IsSeq(stack)
  BY TopIs DEF IInv
<1>1. CASE PastEnd(below, next)
  <2>1. Raise("DecodeError")
    BY <1>1 DEF Deliver
  <2>2. QED BY <2>1, AboveRaises
<1>2. CASE ~PastEnd(below, next)
  <2>1. PICK g : g = Given(below, value, next)
    OBVIOUS
  <2>2. /\ stack' = Append(SubSeq(stack, 1, Len(stack) - 2), g)
        /\ reader' = reader /\ buffer' = buffer /\ error' = error
    BY <1>2, <2>1 DEF Deliver
  <2>3. \A i \in 1..(Len(stack) - 1) :
          stack'[i] = IF i = Len(stack) - 1 THEN g ELSE stack[i]
    BY <1>0, <2>2, Popped
  <2>4. 1 \in 1..(Len(stack) - 1)
    BY <1>0
  <2>5. CASE Len(stack) = 2
    <3>1. Len(stack) - 1 = 1
      BY <2>5
    <3>2. below = stack[1] /\ stack'[1] = g
      BY <2>3, <2>4, <3>1
    <3>3. Busy(stack[1])
      BY <3>2, BelowIs
    <3>4. stack'[1] = Given(stack[1], value, next) /\ ~PastEnd(stack[1], next)
      BY <1>2, <2>1, <3>2
    <3>5. LawfulClass(reader) => stack[1].offset <= next /\ next <= Len(stack[1].buffer)
      BY <3>2
    <3>6. DF!DecodeField
      BY <2>2, <3>3, <3>4, <3>5, GivenMaps
    <3>7. QED BY <3>6
  <2>6. CASE Len(stack) # 2
    <3>1. 1 # Len(stack) - 1
      BY <1>0, <2>6
    <3>2. stack'[1] = stack[1]
      BY <2>3, <2>4, <3>1
    <3>3. QED BY <2>2, <3>2, SameBase
  <2>7. QED BY <2>5, <2>6
<1>3. QED BY <1>1, <1>2


LEMMA ReturnPartMaps ==
  ASSUME Offsets = Nat, IInv, ReturnModel \/ ReturnList
  PROVE  DF!FieldRaises \/ DF!DecodeField \/ UNCHANGED DF!vars
<1>1. /\ Len(stack) > 1 /\ error = "none"
      /\ \E value : \E next \in Nat :
           /\ Deliver(value, next)
           /\ LawfulClass(reader) => /\ stack[Len(stack) - 1].offset <= next
                                    /\ next <= Len(stack[Len(stack) - 1].buffer)
  BY ReturnModelIs, ReturnListIs
<1>2. QED BY <1>1, DeliverMaps

LEMMA StepMaps ==
  ASSUME CodecsBuilt, EncodesBytes, Offsets = Nat, IInv, [Next]_vars
  PROVE  [DF!Next]_(DF!vars)
<1>1. CASE Call \/ EncodeAgain \/ Receive
  BY <1>1, CallMaps, EncodeAgainMaps, ReceiveMaps DEF DF!Next
<1>2. CASE SkipElement
  BY <1>2, SkipElementMaps
<1>3. CASE ReadElement \/ EnterPayload \/ SkipField \/ ReadLeaf
  <2>1. CASE Outermost
    BY <1>3, <2>1, ReadElementMaps, EnterPayloadMaps, SkipFieldMaps, ReadLeafMaps DEF DF!Next
  <2>2. CASE ~Outermost
    <3>1. Len(stack) > 1
      BY <2>2, TopIs, AboveOne
    <3>2. \E g : Continue(g)
      BY <1>3 DEF ReadElement, EnterPayload, SkipField, ReadLeaf
    <3>3. QED BY <3>1, <3>2, AboveMaps
  <2>3. QED BY <2>1, <2>2
<1>4. CASE ElementRaises \/ PayloadMissing
  <2>1. CASE Outermost
    BY <1>4, <2>1, HeaderRaisesMaps DEF DF!Next
  <2>2. CASE ~Outermost
    <3>1. Len(stack) > 1
      BY <2>2, TopIs, AboveOne
    <3>2. Raise("DecodeError") /\ error = "none"
      BY <1>4 DEF ElementRaises, PayloadMissing, InHeader, HeaderRead, InModel
    <3>3. QED BY <3>1, <3>2, AboveRaises DEF DF!Next
  <2>3. QED BY <2>1, <2>2
<1>5. CASE EncodingRaises \/ LeafRaises \/ ListRaises
  BY <1>5, FieldRaisesMaps DEF DF!Next
<1>6. CASE OpenModel \/ OpenList
  <2>1. \E g : Push(g)
    BY <1>6 DEF OpenModel, OpenList
  <2>2. QED BY <2>1, AboveMaps
<1>7. CASE ValidatorRaises
  BY <1>7, ValidatorMaps DEF DF!Next
<1>8. CASE Return
  BY <1>8, ReturnMaps DEF DF!Next
<1>9. CASE ReturnModel \/ ReturnList
  BY <1>9, ReturnPartMaps DEF DF!Next
<1>10. CASE UNCHANGED vars
  BY <1>10, SameBase DEF vars
<1>11. QED
  BY <1>1, <1>2, <1>3, <1>4, <1>5, <1>6, <1>7, <1>8, <1>9, <1>10 DEF Next

LEMMA StartMaps ==
  ASSUME Init
  PROVE  DF!Init
<1>1. IInv
  BY Starts
<1>2. error = "none" /\ stack = <<ModelFrame(reader, TRUE, buffer, 0, "idle")>>
  BY DEF Init
<1>3. PICK g : g = ModelFrame(reader, TRUE, buffer, 0, "idle")
  OBVIOUS
<1>4. /\ g.start = 0 /\ g.offset = 0 /\ g.phase = "idle"
      /\ g.at = 1 /\ g.length = {} /\ g.flags = {} /\ g.body = 0
      /\ g.end = {} /\ g.args = << >>
  BY <1>3 DEF ModelFrame
<1>5. base = g
  BY <1>2, <1>3, Single DEF base
<1>6. PhaseOf = "idle"
  BY <1>2, <1>4, <1>5 DEF PhaseOf
<1>7. InputOf(reader, Len(buffer)) \in AnyInput
  BY <1>1, <1>2, InputNow
<1>8. ArgsOf(base.args) = << >>
  BY <1>4, <1>5, NoArgs
<1>9. QED BY <1>4, <1>5, <1>6, <1>7, <1>8 DEF DF!Init

\* decode_from keeps the promises of DecodeFrom on every buffer, with lists and
\* models of any depth as its fields: the calls above the outermost one are a
\* single step of a field's codec that returns an offset or raises.
THEOREM ImplementsCorrect ==
  ASSUME CodecsBuilt, EncodesBytes, Offsets = Nat
  PROVE  Spec => Implements
<1>1. Init => IInv
  BY Starts
<1>2. IInv /\ [Next]_vars => IInv'
  BY Preserved
<1>3. Init => DF!Init
  BY StartMaps
<1>4. IInv /\ [Next]_vars => [DF!Next]_(DF!vars)
  BY StepMaps
<1>5. QED BY <1>1, <1>2, <1>3, <1>4, PTL DEF Spec, Implements, DF!Spec

-----------------------------------------------------------------------------
(* Every step gets on.                                                     *)

\* A message has got past something that takes a byte.
Past(f) ==
  LET header == Models[f.model].header
  IN IF f.phase = "header"
     THEN \E i \in 1..(f.at - 1) : header[i].kind # "Constructor"
     ELSE \/ \E i \in DOMAIN header : header[i].kind # "Constructor"
          \/ \E i \in 1..(f.at - 1) : /\ FieldsOf(f.model)[i].flag = {}
                                      /\ Advances[FieldsOf(f.model)[i].codec]

Moved(f) ==
  f.kind = "model" /\ f.phase \in {"header", "fields"} =>
    /\ f.start <= f.offset /\ (Past(f) => f.start < f.offset)
    /\ f.phase = "header" => f.at <= Len(Models[f.model].header) + 1

WantedBy(f) == IF f.kind = "list" THEN f.item ELSE FieldsOf(f.model)[f.at].codec

\* What the call above brings the one below it.
GotOn(f, below) ==
  IF f.kind = "list"
  THEN /\ below.offset < f.end
       /\ WantedBy(below).kind = "list" /\ WantedBy(below).item = f.item
  ELSE WantedBy(below).kind = "model" /\ WantedBy(below).model = f.model

\* A list with items left.
Waits(f) == f.kind = "list" => f.offset < Len(f.buffer)

AInv ==
  /\ \A i \in 1..Len(stack) : Moved(stack[i])
  /\ \A i \in 2..Len(stack) : GotOn(stack[i], stack[i - 1]) /\ Waits(stack[i - 1])

\* A frame of the stack goes on, without those above it.
LEMMA PlaceMoves ==
  ASSUME IInv, AInv, NEW n \in 1..Len(stack), NEW g,
         IsSeq(stack'), Len(stack') = n,
         \A i \in 1..n : stack'[i] = IF i = n THEN g ELSE stack[i],
         Moved(g), g.kind = stack[n].kind,
         g.kind = "list" => g.end = stack[n].end /\ g.item = stack[n].item,
         g.kind # "list" => g.model = stack[n].model
  PROVE  AInv'
<1>0. Len(stack) \in Nat /\ n \in Nat /\ n > 0 /\ n <= Len(stack)
  BY TopIs
<1>1. \A i \in 1..Len(stack') : Moved(stack'[i])
  BY <1>0 DEF AInv
<1>2. ASSUME NEW i \in 2..Len(stack') PROVE GotOn(stack'[i], stack'[i - 1]) /\ Waits(stack'[i - 1])
  <2>1. i \in 2..Len(stack) /\ i - 1 \in 1..n /\ i \in 1..n /\ stack'[i - 1] = stack[i - 1]
    BY <1>0
  <2>2. GotOn(stack[i], stack[i - 1]) /\ Waits(stack[i - 1])
    BY <2>1 DEF AInv
  <2>3. CASE i = n
    <3>1. stack'[i] = g
      BY <1>0, <2>1, <2>3
    <3>2. GotOn(g, stack[i - 1])
      BY <2>2, <2>3 DEF GotOn
    <3>3. QED BY <2>1, <2>2, <3>1, <3>2
  <2>4. CASE i # n
    BY <2>1, <2>2, <2>4
  <2>5. QED BY <2>3, <2>4
<1>3. QED BY <1>1, <1>2 DEF AInv

\* It has less left to do.
LEMMA PlaceGets ==
  ASSUME IInv, NEW n \in 1..Len(stack), NEW g,
         IsSeq(stack'), Len(stack') = n,
         \A i \in 1..n : stack'[i] = IF i = n THEN g ELSE stack[i],
         Left(g) \in Nat,
         (stack[n].kind = "list" => Advances[stack[n].item]) => Left(g) < Left(stack[n])
  PROVE  n \in DOMAIN stack /\ GetsTo(n)
<1>0. Len(stack) \in Nat /\ n \in Nat /\ n > 0 /\ n <= Len(stack)
  BY TopIs
<1>1. stack'[n] = g /\ \A j \in 1..(n - 1) : stack'[j] = stack[j]
  BY <1>0
<1>2. n \in DOMAIN stack
  <2>1. IsSeq(stack)
    BY DEF IInv
  <2>2. DOMAIN stack = 1..Len(stack)
    BY <2>1, SeqIs DEF IsSeq
  <2>3. QED BY <2>2
<1>3. GetsTo(n)
  BY <1>1 DEF GetsTo
<1>4. QED BY <1>2, <1>3

\* A message.
LEMMA ModelLeft ==
  ASSUME NEW f, IsModelFrame(f)
  PROVE  /\ Len(FieldsOf(f.model)) \in Nat /\ Len(Models[f.model].header) \in Nat
         /\ DOMAIN Models[f.model].header = 1..Len(Models[f.model].header)
         /\ f.phase = "header" =>
              Left(f) = (Len(Models[f.model].header) + 1 - f.at) + (Len(FieldsOf(f.model)) + 2)
         /\ f.phase = "fields" => Left(f) = Len(FieldsOf(f.model)) + 2 - f.at
         /\ f.phase \notin {"header", "fields"} => Left(f) = 0
<1>1. f.kind = "model" /\ f.model \in DOMAIN Models
  BY ModelFrameTypes
<1>2. IsSchema(Models[f.model])
  BY <1>1, WireAssumption
<1>3. PICK T, U : Models[f.model].header \in Seq(T) /\ FieldsOf(f.model) \in Seq(U)
  BY <1>2 DEF IsSchema, FieldsOf
<1>4. /\ Len(FieldsOf(f.model)) \in Nat /\ Len(Models[f.model].header) \in Nat
      /\ DOMAIN Models[f.model].header = 1..Len(Models[f.model].header)
  BY <1>3
<1>5. QED BY <1>1, <1>4 DEF Left

\* A frame goes on with what its codec has returned.
LEMMA GivenGets ==
  ASSUME IInv, AInv, NEW n \in 1..Len(stack), NEW f, f = stack[n],
         NEW value, NEW next \in Nat, Busy(f), Waits(f), ~PastEnd(f, next),
         f.offset <= next, Advances[WantedBy(f)] => f.offset < next,
         IsSeq(stack'), Len(stack') = n,
         \A i \in 1..n : stack'[i] = IF i = n THEN Given(f, value, next) ELSE stack[i]
  PROVE  AInv' /\ n \in DOMAIN stack /\ GetsTo(n)
<1>1. PICK g : g = Given(f, value, next)
  OBVIOUS
<1>2. FrameInv(f) /\ f.kind \in {"model", "list"}
  BY FrameKinds DEF IInv
<1>3. CASE f.kind = "model"
  <2>1. f.phase = "fields" /\ f.at <= Len(FieldsOf(f.model))
    BY <1>3 DEF Busy
  <2>2. g = WithArg(f, {value}, next)
    BY <1>1, <1>3 DEF Given, WithArg
  <2>3. /\ f.start \in Nat /\ f.offset \in Nat /\ f.at \in Nat \ {0} /\ IsModelFrame(f)
        /\ f.end \in SUBSET Nat
    BY <1>2, <1>3, FrameKinds, ModelFrameTypes
  <2>4. \A e \in f.end : next <= e
    <3>1. \A e \in f.end : e \in Nat /\ ~(next > e)
      BY <1>3, <2>3 DEF PastEnd
    <3>2. QED BY <3>1
  <2>5. /\ FrameInv(g) /\ g.kind = "model" /\ g.model = f.model /\ g.start = f.start
        /\ g.offset = next /\ g.phase = "fields" /\ g.at = f.at + 1
    BY <1>2, <1>3, <2>1, <2>2, <2>4, ArgFrame
  <2>6. f.start <= f.offset /\ (Past(f) => f.start < f.offset)
    BY <1>3, <2>1 DEF AInv, Moved
  <2>7. Past(g) => f.start < next
    <3> HAVE Past(g)
    <3>1. CASE Past(f)
      BY <2>3, <2>6, <3>1
    <3>2. CASE ~Past(f)
      <4>1. PICK i \in 1..(g.at - 1) : /\ FieldsOf(f.model)[i].flag = {}
                                       /\ Advances[FieldsOf(f.model)[i].codec]
        BY <2>1, <2>5, <3>2 DEF Past
      <4>2. i \notin 1..(f.at - 1)
        BY <2>1, <3>2, <4>1 DEF Past
      <4>3. i = f.at
        BY <2>3, <2>5, <4>2
      <4>4. Advances[WantedBy(f)]
        BY <1>3, <4>1, <4>3 DEF WantedBy
      <4>5. QED BY <2>3, <2>6, <4>4
    <3>3. QED BY <3>1, <3>2
  <2>8. Moved(g)
    BY <2>3, <2>5, <2>6, <2>7 DEF Moved
  <2>9. AInv'
    BY <1>1, <1>3, <2>5, <2>8, PlaceMoves
  <2>10. IsModelFrame(g)
    BY <2>5, FrameKinds
  <2>11. Left(f) = Len(FieldsOf(f.model)) + 2 - f.at /\ Len(FieldsOf(f.model)) \in Nat
    BY <2>1, <2>3, ModelLeft
  <2>12. Left(g) = Len(FieldsOf(f.model)) + 2 - (f.at + 1)
    BY <2>5, <2>10, ModelLeft
  <2>13. Left(g) \in Nat /\ Left(g) < Left(f)
    BY <2>1, <2>3, <2>11, <2>12
  <2>14. n \in DOMAIN stack /\ GetsTo(n)
    BY <1>1, <2>13, PlaceGets
  <2>15. QED BY <2>9, <2>14
<1>4. CASE f.kind = "list"
  <2>1. g = WithItem(f, value, next)
    BY <1>1, <1>4 DEF Given, WithItem
  <2>2. /\ FrameInv(g) /\ g.kind = "list" /\ g.item = f.item
        /\ g.buffer = f.buffer /\ g.offset = next /\ g.end = f.end
    BY <1>2, <1>4, <2>1, ItemFrame
  <2>3. Moved(g)
    BY <2>2 DEF Moved
  <2>4. AInv'
    BY <1>1, <1>4, <2>2, <2>3, PlaceMoves
  <2>5. f.offset \in Nat /\ Len(f.buffer) \in Nat /\ f.offset < Len(f.buffer)
    <3>1. f.offset \in Nat /\ f.buffer \in Seq(Byte)
      BY <1>2, FrameKinds
    <3>2. QED BY <1>4, <3>1 DEF Waits
  <2>6. Left(f) = Len(f.buffer) - f.offset
    BY <1>4, <2>5 DEF Left
  <2>7. Left(g) = IF next < Len(f.buffer) THEN Len(f.buffer) - next ELSE 0
    BY <2>2 DEF Left
  <2>8. Left(g) \in Nat
    BY <2>5, <2>7
  <2>9. Advances[f.item] => Left(g) < Left(f)
    <3> HAVE Advances[f.item]
    <3>1. f.offset < next
      BY <1>4 DEF WantedBy
    <3>2. QED BY <2>5, <2>6, <2>7, <3>1
  <2>10. n \in DOMAIN stack /\ GetsTo(n)
    BY <1>1, <1>4, <2>8, <2>9, PlaceGets
  <2>11. QED BY <2>4, <2>10
<1>5. QED BY <1>2, <1>3, <1>4

\* What the frame on top wants.
LEMMA WantingIs ==
  ASSUME Wanting
  PROVE  Wanted = WantedBy(top) /\ Waits(top)
BY DEF Wanting, Wanted, WantedBy, Waits, InFields, InModel

LEMMA ReadLeafGets ==
  ASSUME CodecsBuilt, IInv, AInv, ReadLeaf
  PROVE  AInv' /\ \E i \in DOMAIN stack : GetsTo(i)
<1>0. /\ Len(stack) \in 1..Len(stack) /\ top = stack[Len(stack)]
  BY TopIs
<1>1. Wanting /\ IsLeaf(Wanted)
  BY DEF ReadLeaf
<1>2. PICK r \in LeafRead : ~PastEnd(top, r[2]) /\ Continue(Given(top, r[1], r[2]))
  BY DEF ReadLeaf
<1>3. Busy(top) /\ Wanted \in Codecs /\ top.buffer \in Seq(Byte) /\ top.offset \in Nat
  BY <1>1, WantedIs
<1>4. Wanted = WantedBy(top) /\ Waits(top)
  BY <1>1, WantingIs
<1>5. r[2] \in Nat /\ top.offset <= r[2] /\ (Advances[Wanted] => top.offset < r[2])
  BY <1>1, <1>2, <1>3, LeafAdvances DEF LeafRead
<1>6. PICK next \in Nat : next = r[2]
  BY <1>5
<1>7. PICK g : g = Given(top, r[1], next)
  OBVIOUS
<1>8. Continue(g)
  BY <1>2, <1>6, <1>7
<1>9. /\ IsSeq(stack') /\ Len(stack') = Len(stack)
      /\ \A i \in 1..Len(stack) : stack'[i] = IF i = Len(stack) THEN g ELSE stack[i]
  BY <1>8, Continued
<1>10. /\ ~PastEnd(top, next) /\ top.offset <= next
       /\ Advances[WantedBy(top)] => top.offset < next
  BY <1>2, <1>4, <1>5, <1>6
<1>11. PICK n \in 1..Len(stack) : n = Len(stack)
  BY <1>0
<1>12. /\ top = stack[n] /\ Len(stack') = n
       /\ \A i \in 1..n : stack'[i] = IF i = n THEN Given(top, r[1], next) ELSE stack[i]
  BY <1>0, <1>7, <1>9, <1>11
<1>13. AInv' /\ n \in DOMAIN stack /\ GetsTo(n)
  BY <1>3, <1>4, <1>9, <1>10, <1>12, GivenGets
<1>14. QED BY <1>13

\* A codec that calls others returns.
LEMMA DeliverGets ==
  ASSUME IInv, AInv, Len(stack) > 1, NEW value, NEW next \in Nat,
         NEW below, below = stack[Len(stack) - 1],
         below.offset <= next, Advances[WantedBy(below)] => below.offset < next,
         Deliver(value, next), error' = "none"
  PROVE  AInv' /\ \E i \in DOMAIN stack : GetsTo(i)
<1>0. Len(stack) \in Nat /\ IsSeq(stack)
  BY TopIs DEF IInv
<1>1. ~PastEnd(below, next)
  BY DEF Deliver, Raise
<1>2. PICK n \in 1..Len(stack) : n = Len(stack) - 1
  <2>1. Len(stack) - 1 \in 1..Len(stack)
    BY <1>0
  <2>2. QED BY <2>1
<1>3. PICK g : g = Given(below, value, next)
  OBVIOUS
<1>4. stack' = Append(SubSeq(stack, 1, Len(stack) - 2), g)
  BY <1>1, <1>3 DEF Deliver
<1>5. /\ IsSeq(stack') /\ Len(stack') = Len(stack) - 1
      /\ \A i \in 1..(Len(stack) - 1) :
           stack'[i] = IF i = Len(stack) - 1 THEN g ELSE stack[i]
  BY <1>0, <1>4, Popped
<1>6. /\ Len(stack') = n
      /\ \A i \in 1..n : stack'[i] = IF i = n THEN Given(below, value, next) ELSE stack[i]
  BY <1>2, <1>3, <1>5
<1>7. Len(stack) \in 2..Len(stack)
  BY <1>0
<1>8. Busy(below) /\ Waits(below) /\ below = stack[n]
  BY <1>2, <1>7 DEF IInv, AInv
<1>9. AInv' /\ n \in DOMAIN stack /\ GetsTo(n)
  BY <1>1, <1>5, <1>6, <1>8, GivenGets
<1>10. QED BY <1>9

\* The message on top goes on.
LEMMA TopGets ==
  ASSUME IInv, AInv, NEW g, Continue(g), top.kind = "model",
         g.kind = "model", g.model = top.model, Moved(g),
         Left(g) \in Nat, Left(g) < Left(top)
  PROVE  AInv' /\ \E i \in DOMAIN stack : GetsTo(i)
<1>0. /\ Len(stack) \in 1..Len(stack) /\ top = stack[Len(stack)]
  BY TopIs
<1>1. PICK n \in 1..Len(stack) : n = Len(stack)
  BY <1>0
<1>2. top = stack[n]
  BY <1>0, <1>1
<1>3. /\ IsSeq(stack') /\ Len(stack') = n
      /\ \A i \in 1..n : stack'[i] = IF i = n THEN g ELSE stack[i]
  BY <1>1, Continued
<1>4. AInv'
  BY <1>2, <1>3, PlaceMoves
<1>5. n \in DOMAIN stack /\ GetsTo(n)
  BY <1>2, <1>3, PlaceGets
<1>6. QED BY <1>4, <1>5

\* A header element.
LEMMA ElementGets ==
  ASSUME IInv, AInv, InHeader, NEW g, Continue(g), FrameInv(g),
         g.kind = "model", g.model = top.model, g.start = top.start,
         g.phase = "header", g.at = top.at + 1, top.offset <= g.offset,
         Element.kind # "Constructor" => top.offset < g.offset
  PROVE  AInv' /\ \E i \in DOMAIN stack : GetsTo(i)
<1>0. /\ Len(stack) \in 1..Len(stack) /\ top = stack[Len(stack)] /\ FrameInv(top)
  BY TopIs
<1>1. top.kind = "model" /\ top.phase = "header" /\ top.at \in 1..Len(Header)
  BY ElementIs
<1>2. IsModelFrame(top) /\ IsModelFrame(g)
  BY <1>0, <1>1, FrameKinds
<1>3. top.start \in Nat /\ top.offset \in Nat /\ g.offset \in Nat /\ top.at \in Nat \ {0}
  BY <1>2, ModelFrameTypes
<1>4. top.start <= top.offset /\ (Past(top) => top.start < top.offset)
  BY <1>0, <1>1 DEF AInv, Moved
<1>5. Past(g) => g.start < g.offset
  <2> HAVE Past(g)
  <2>1. CASE Past(top)
    BY <1>3, <1>4, <2>1
  <2>2. CASE ~Past(top)
    <3>1. PICK i \in 1..(g.at - 1) : Header[i].kind # "Constructor"
      BY DEF Past, Header
    <3>2. i \notin 1..(top.at - 1)
      BY <1>1, <2>2, <3>1 DEF Past, Header
    <3>3. i = top.at
      BY <1>3, <3>2
    <3>4. Element.kind # "Constructor"
      BY <3>1, <3>3 DEF Element
    <3>5. QED BY <1>3, <1>4, <3>4
  <2>3. QED BY <2>1, <2>2
<1>6. /\ Len(FieldsOf(top.model)) \in Nat /\ Len(Header) \in Nat
      /\ Left(top) = (Len(Header) + 1 - top.at) + (Len(FieldsOf(top.model)) + 2)
  BY <1>1, <1>2, ModelLeft DEF Header
<1>7. Left(g) = (Len(Header) + 1 - (top.at + 1)) + (Len(FieldsOf(top.model)) + 2)
  BY <1>2, ModelLeft DEF Header
<1>8. top.at <= Len(Header) /\ g.at <= Len(Models[g.model].header) + 1
  BY <1>1, <1>3, <1>6 DEF Header
<1>9. Moved(g)
  BY <1>3, <1>4, <1>5, <1>8 DEF Moved
<1>10. Left(g) \in Nat /\ Left(g) < Left(top)
  BY <1>3, <1>6, <1>7, <1>8
<1>11. QED BY <1>1, <1>9, <1>10, TopGets

LEMMA HeaderGets ==
  ASSUME IInv, AInv, SkipElement \/ ReadElement
  PROVE  AInv' /\ \E i \in DOMAIN stack : GetsTo(i)
<1>0. FrameInv(top)
  BY TopIs
<1>1. InHeader
  BY DEF SkipElement, ReadElement
<1>2. top.kind = "model" /\ top.phase = "header" /\ top.offset \in Nat
  BY <1>1, ElementIs
<1>3. CASE SkipElement
  <2>1. PICK g : g = WithNextElement(top)
    OBVIOUS
  <2>2. Continue(g)
    BY <1>3, <2>1 DEF SkipElement, WithNextElement
  <2>3. /\ FrameInv(g) /\ g.kind = "model" /\ g.model = top.model
        /\ g.start = top.start /\ g.offset = top.offset
        /\ g.phase = "header" /\ g.at = top.at + 1
    BY <1>0, <1>2, <2>1, SkippedElementFrame
  <2>4. Element.kind = "Constructor"
    BY <1>3 DEF SkipElement, Skipped
  <2>5. top.offset <= g.offset
    BY <1>2, <2>3
  <2>6. QED BY <1>1, <2>2, <2>3, <2>4, <2>5, ElementGets
<1>4. CASE ReadElement
  <2>1. PICK n \in Nat, from \in Nat :
           /\ from > top.offset /\ from <= Len(top.buffer)
           /\ Continue(WithElement(top, from,
                IF Element.kind = "PayloadLength" THEN {n} ELSE top.length,
                IF Element.kind = "Flags" THEN BitsOf(n) ELSE top.flags))
    BY <1>4, ReadElementIs
  <2>2. /\ top.length \in SUBSET Nat /\ AtMostOne(top.length)
        /\ top.flags \in SUBSET (0..63)
    BY <1>0, <1>2, FrameKinds, ModelFrameTypes DEF FrameInv
  <2>3. PICK length : length = IF Element.kind = "PayloadLength" THEN {n} ELSE top.length
    OBVIOUS
  <2>4. PICK flags : flags = IF Element.kind = "Flags" THEN BitsOf(n) ELSE top.flags
    OBVIOUS
  <2>5. length \in SUBSET Nat /\ AtMostOne(length) /\ flags \in SUBSET (0..63)
    BY <2>2, <2>3, <2>4 DEF AtMostOne, BitsOf
  <2>6. PICK g : g = WithElement(top, from, length, flags)
    OBVIOUS
  <2>7. Continue(g)
    BY <2>1, <2>3, <2>4, <2>6
  <2>8. /\ FrameInv(g) /\ g.kind = "model" /\ g.model = top.model
        /\ g.start = top.start /\ g.offset = from
        /\ g.phase = "header" /\ g.at = top.at + 1
    BY <1>0, <1>2, <2>5, <2>6, InHeaderFrame
  <2>9. top.offset <= g.offset /\ top.offset < g.offset
    BY <1>2, <2>1, <2>8
  <2>10. QED BY <1>1, <2>7, <2>8, <2>9, ElementGets
<1>5. QED BY <1>3, <1>4

LEMMA PayloadGets ==
  ASSUME IInv, AInv, EnterPayload
  PROVE  AInv' /\ \E i \in DOMAIN stack : GetsTo(i)
<1>0. /\ Len(stack) \in 1..Len(stack) /\ top = stack[Len(stack)] /\ FrameInv(top)
  BY TopIs
<1>1. PICK seen \in Seq(Byte) :
        /\ Continue(WithPayload(top, seen))
        /\ \A n \in top.length : Len(seen) = top.offset + n
  BY PayloadIs
<1>2. top.kind = "model" /\ top.phase = "header" /\ top.at > Len(Header)
  BY DEF EnterPayload, HeaderRead, InModel
<1>3. PICK g : g = WithPayload(top, seen)
  OBVIOUS
<1>4. /\ FrameInv(g) /\ g.kind = "model" /\ g.model = top.model
      /\ g.start = top.start /\ g.offset = top.offset
      /\ g.phase = "fields" /\ g.at = 1
  BY <1>0, <1>1, <1>2, <1>3, PayloadFrame
<1>5. IsModelFrame(top) /\ IsModelFrame(g)
  BY <1>0, <1>2, <1>4, FrameKinds
<1>6. top.at \in Nat \ {0}
  BY <1>5, ModelFrameTypes
<1>7. /\ Len(FieldsOf(top.model)) \in Nat /\ Len(Header) \in Nat
      /\ DOMAIN Header = 1..Len(Header)
      /\ Left(top) = (Len(Header) + 1 - top.at) + (Len(FieldsOf(top.model)) + 2)
  BY <1>2, <1>5, ModelLeft DEF Header
<1>8. Left(g) = Len(FieldsOf(top.model)) + 2 - 1
  BY <1>4, <1>5, ModelLeft
<1>9. /\ top.start <= top.offset /\ (Past(top) => top.start < top.offset)
      /\ top.at <= Len(Header) + 1
  BY <1>0, <1>2 DEF AInv, Moved, Header
<1>10. Past(g) => Past(top)
  <2> HAVE Past(g)
  <2>1. PICK i \in DOMAIN Header : Header[i].kind # "Constructor"
    <3>1. \A i \in 1..(g.at - 1) : FALSE
      BY <1>4
    <3>2. QED BY <1>4, <3>1 DEF Past, Header
  <2>2. i \in 1..(top.at - 1)
    BY <1>2, <1>6, <1>7
  <2>3. QED BY <1>2, <2>1, <2>2 DEF Past, Header
<1>11. Moved(g)
  BY <1>4, <1>9, <1>10 DEF Moved
<1>12. Left(g) \in Nat /\ Left(g) < Left(top)
  BY <1>2, <1>6, <1>7, <1>8, <1>9
<1>13. QED BY <1>1, <1>2, <1>3, <1>4, <1>11, <1>12, TopGets

LEMMA SkipFieldGets ==
  ASSUME IInv, AInv, SkipField
  PROVE  AInv' /\ \E i \in DOMAIN stack : GetsTo(i)
<1>0. /\ Len(stack) \in 1..Len(stack) /\ top = stack[Len(stack)] /\ FrameInv(top)
  BY TopIs
<1>1. /\ top.kind = "model" /\ top.phase = "fields" /\ top.at <= Len(FieldsOf(top.model))
      /\ FieldsOf(top.model)[top.at].flag # {}
  BY DEF SkipField, InFields, InModel, Absent
<1>2. PICK g : g = WithNone(top)
  OBVIOUS
<1>3. Continue(g)
  BY <1>2 DEF SkipField, WithNone
<1>4. /\ FrameInv(g) /\ g.kind = "model" /\ g.model = top.model
      /\ g.start = top.start /\ g.offset = top.offset
      /\ g.phase = "fields" /\ g.at = top.at + 1
  BY <1>0, <1>1, <1>2, NoneFrame
<1>5. IsModelFrame(top) /\ IsModelFrame(g)
  BY <1>0, <1>1, <1>4, FrameKinds
<1>6. top.at \in Nat \ {0}
  BY <1>5, ModelFrameTypes
<1>7. top.start <= top.offset /\ (Past(top) => top.start < top.offset)
  BY <1>0, <1>1 DEF AInv, Moved
<1>8. Past(g) => Past(top)
  <2> SUFFICES ASSUME Past(g), ~Past(top) PROVE FALSE
    OBVIOUS
  <2>1. PICK i \in 1..(g.at - 1) : /\ FieldsOf(top.model)[i].flag = {}
                                   /\ Advances[FieldsOf(top.model)[i].codec]
    BY <1>1, <1>4 DEF Past
  <2>2. i # top.at
    BY <1>1, <2>1
  <2>3. i \in 1..(top.at - 1)
    BY <1>4, <1>6, <2>1, <2>2
  <2>4. QED BY <1>1, <2>1, <2>3 DEF Past
<1>9. Moved(g)
  BY <1>4, <1>7, <1>8 DEF Moved
<1>10. Left(top) = Len(FieldsOf(top.model)) + 2 - top.at /\ Len(FieldsOf(top.model)) \in Nat
  BY <1>1, <1>5, ModelLeft
<1>11. Left(g) = Len(FieldsOf(top.model)) + 2 - (top.at + 1)
  BY <1>4, <1>5, ModelLeft
<1>12. Left(g) \in Nat /\ Left(g) < Left(top)
  BY <1>1, <1>6, <1>10, <1>11
<1>13. QED BY <1>1, <1>3, <1>4, <1>9, <1>12, TopGets

\* The outermost call returns.
LEMMA ReturnGets ==
  ASSUME IInv, AInv, Return
  PROVE  AInv' /\ \E i \in DOMAIN stack : GetsTo(i)
<1>0. /\ Len(stack) \in 1..Len(stack) /\ top = stack[Len(stack)] /\ FrameInv(top)
  BY TopIs
<1>1. top.kind = "model" /\ top.phase = "fields" /\ top.at > Len(FieldsOf(top.model))
  BY DEF Return, FieldsRead, InModel
<1>2. PICK from \in Nat : from = EndOf(top)
  BY <1>0, <1>1, EndIs
<1>3. PICK g : g = WithReturn(top, from)
  OBVIOUS
<1>4. stack' = WithLast(stack, g)
  BY <1>2, <1>3 DEF Return, WithReturn, WithTop, WithLast
<1>5. \A e \in top.end : from <= e
  BY <1>0, <1>1, <1>2, EndIs
<1>6. FrameInv(g) /\ g.kind = "model" /\ g.model = top.model /\ g.phase = "returned"
  BY <1>0, <1>1, <1>3, <1>5, ReturnedFrame
<1>7. PICK n \in 1..Len(stack) : n = Len(stack)
  BY <1>0
<1>8. /\ IsSeq(stack') /\ Len(stack') = n
      /\ \A i \in 1..n : stack'[i] = IF i = n THEN g ELSE stack[i]
  <2>1. IsSeq(stack) /\ Len(stack) > 0
    BY DEF IInv
  <2>2. QED BY <1>4, <1>7, <2>1, Replaced
<1>9. Moved(g)
  BY <1>6 DEF Moved
<1>10. top = stack[n]
  BY <1>0, <1>7
<1>11. AInv'
  BY <1>1, <1>6, <1>8, <1>9, <1>10, PlaceMoves
<1>12. IsModelFrame(top) /\ IsModelFrame(g)
  BY <1>0, <1>1, <1>6, FrameKinds
<1>13. /\ Len(FieldsOf(top.model)) \in Nat /\ top.at \in Nat
       /\ top.at <= Len(FieldsOf(top.model)) + 1
  BY <1>0, <1>1, <1>12, ModelLeft, ModelFrameTypes DEF FrameInv
<1>14. Left(top) = Len(FieldsOf(top.model)) + 2 - top.at /\ Left(g) = 0
  BY <1>1, <1>6, <1>12, ModelLeft
<1>15. Left(g) \in Nat /\ Left(g) < Left(top)
  BY <1>13, <1>14
<1>16. n \in DOMAIN stack /\ GetsTo(n)
  BY <1>8, <1>10, <1>15, PlaceGets
<1>17. QED BY <1>11, <1>16

\* A codec with parts is called.
LEMMA PushGets ==
  ASSUME IInv, AInv, NEW g, Push(g), Wanting, Moved(g), GotOn(g, top),
         IF g.kind = "list" THEN Wanted.kind = "list" /\ g.item = Wanted.item
         ELSE Wanted.kind = "model" /\ g.model = Wanted.model
  PROVE  AInv' /\ Opens
<1>0. Len(stack) \in Nat \ {0} /\ top = stack[Len(stack)] /\ IsSeq(stack)
  BY TopIs DEF IInv
<1>1. /\ IsSeq(stack') /\ Len(stack') = Len(stack) + 1
      /\ \A i \in 1..(Len(stack) + 1) :
           stack'[i] = IF i = Len(stack) + 1 THEN g ELSE stack[i]
  BY <1>0, Appended DEF Push
<1>2. PICK n \in Nat \ {0} : n = Len(stack)
  BY <1>0
<1>3. \A i \in 1..Len(stack') : Moved(stack'[i])
  BY <1>1, <1>2 DEF AInv
<1>4. ASSUME NEW i \in 2..Len(stack')
      PROVE  GotOn(stack'[i], stack'[i - 1]) /\ Waits(stack'[i - 1])
  <2>1. i \in 2..(n + 1) /\ i - 1 \in 1..n /\ stack'[i - 1] = stack[i - 1]
    BY <1>1, <1>2
  <2>2. CASE i = n + 1
    <3>1. stack'[i] = g /\ stack'[i - 1] = top
      BY <1>0, <1>1, <1>2, <2>1, <2>2
    <3>2. QED BY <3>1, WantingIs
  <2>3. CASE i # n + 1
    <3>1. i \in 2..n /\ stack'[i] = stack[i]
      BY <1>1, <1>2, <2>1, <2>3
    <3>2. QED BY <1>2, <2>1, <3>1 DEF AInv
  <2>4. QED BY <2>2, <2>3
<1>5. AInv'
  BY <1>3, <1>4 DEF AInv
<1>6. DOMAIN stack = 1..n
  BY <1>0, <1>2, SeqIs DEF IsSeq
<1>7. /\ \A i \in DOMAIN stack : stack'[i] = stack[i]
      /\ stack'[Len(stack')] = g
  BY <1>1, <1>2, <1>6
<1>8. Opens
  BY <1>1, <1>7 DEF Opens
<1>9. QED BY <1>5, <1>8

\* A call that has just begun.
LEMMA NewMoves ==
  ASSUME NEW m \in DOMAIN Models, NEW expect \in BOOLEAN, NEW seen \in Seq(Byte),
         NEW from \in Nat, NEW phase \in {"idle", "header"},
         NEW g, g = ModelFrame(m, expect, seen, from, phase)
  PROVE  Moved(g) /\ g.kind = "model" /\ g.model = m
<1>1. /\ FrameInv(g) /\ g.kind = "model" /\ g.model = m /\ g.start = from /\ g.offset = from
      /\ g.phase = phase /\ g.at = 1
  BY NewModelFrame
<1>2. g.phase = "header" => ~Past(g)
  BY <1>1 DEF Past
<1>3. IsModelFrame(g)
  BY <1>1, FrameKinds
<1>4. Len(Models[g.model].header) \in Nat
  BY <1>3, ModelLeft
<1>5. g.at <= Len(Models[g.model].header) + 1 /\ g.start <= g.offset
  BY <1>1, <1>4
<1>6. g.phase \in {"header", "fields"} => g.phase = "header"
  BY <1>1
<1>7. QED BY <1>1, <1>2, <1>5, <1>6 DEF Moved

LEMMA OpenModelGets ==
  ASSUME CodecsBuilt, IInv, AInv, OpenModel
  PROVE  AInv' /\ Opens
<1>1. Wanting /\ Wanted.kind = "model"
  BY DEF OpenModel
<1>2. Wanted \in Codecs /\ top.buffer \in Seq(Byte) /\ top.offset \in Nat
  BY <1>1, WantedIs
<1>3. PICK m \in DOMAIN Models : m = Wanted.model
  BY <1>1, <1>2, CodecParts
<1>4. PICK no \in BOOLEAN, seen \in Seq(Byte), from \in Nat :
        no = FALSE /\ seen = top.buffer /\ from = top.offset
  BY <1>2
<1>5. PICK g : g = ModelFrame(m, no, seen, from, "header")
  OBVIOUS
<1>6. Push(g)
  BY <1>3, <1>4, <1>5 DEF OpenModel
<1>7. Moved(g) /\ g.kind = "model" /\ g.model = m
  BY <1>5, NewMoves
<1>8. WantedBy(top) = Wanted
  BY <1>1, WantingIs
<1>9. GotOn(g, top)
  BY <1>1, <1>3, <1>7, <1>8 DEF GotOn
<1>10. QED BY <1>1, <1>3, <1>6, <1>7, <1>9, PushGets

LEMMA OpenListGets ==
  ASSUME CodecsBuilt, IInv, AInv, OpenList
  PROVE  AInv' /\ Opens
<1>1. Wanting /\ Wanted.kind = "list"
  BY DEF OpenList
<1>2. Wanted \in Codecs /\ top.buffer \in Seq(Byte) /\ top.offset \in Nat
  BY <1>1, WantedIs
<1>3. PICK s \in ListSpan :
        Push(ListFrame(Wanted, Order, Slice(top.buffer, s[1], s[2]), s[2]))
  BY DEF OpenList
<1>4. Wanted.prefix \in UInts
  BY <1>1, <1>2, CodecParts
<1>5. s[1] \in Nat /\ s[2] \in Nat /\ top.offset < s[1] /\ s[1] <= s[2]
  BY <1>2, <1>3, <1>4, SpanInside DEF ListSpan
<1>6. PICK g : g = ListFrame(Wanted, Order, Slice(top.buffer, s[1], s[2]), s[2])
  OBVIOUS
<1>7. g.kind = "list" /\ g.item = Wanted.item /\ g.end = s[2]
  BY <1>6 DEF ListFrame
<1>8. Push(g)
  BY <1>3, <1>6
<1>9. Moved(g)
  BY <1>7 DEF Moved
<1>10. WantedBy(top) = Wanted
  BY <1>1, WantingIs
<1>11. GotOn(g, top)
  BY <1>1, <1>2, <1>5, <1>7, <1>10 DEF GotOn
<1>12. QED BY <1>1, <1>7, <1>8, <1>9, <1>11, PushGets

\* The codec a waiting frame has called.
LEMMA WaitedFor ==
  ASSUME NEW f, FrameInv(f), Busy(f)
  PROVE  WantedBy(f) \in Codecs
<1>1. CASE f.kind = "list"
  BY <1>1, FrameKinds, ListFrameTypes DEF WantedBy
<1>2. CASE f.kind # "list"
  <2>1. /\ f.kind = "model" /\ f.phase = "fields" /\ f.at <= Len(FieldsOf(f.model))
    BY <1>2, FrameKinds DEF Busy
  <2>2. f.model \in DOMAIN Models /\ f.at \in Nat \ {0}
    BY <2>1, FrameKinds, ModelFrameTypes
  <2>3. PICK T : T = [codec: Codecs, flag: SUBSET (0..63)]
    OBVIOUS
  <2>4. PICK t \in Seq(T) : t = FieldsOf(f.model)
    BY <2>2, <2>3, WireAssumption DEF IsSchema, FieldsOf
  <2>5. t[f.at] \in T
    BY <2>1, <2>2, <2>4
  <2>6. QED BY <1>2, <2>3, <2>4, <2>5 DEF WantedBy
<1>3. QED BY <1>1, <1>2

LEMMA ReturnModelGets ==
  ASSUME CodecsBuilt, IInv, AInv, ReturnModel, error' = "none"
  PROVE  AInv' /\ \E i \in DOMAIN stack : GetsTo(i)
<1>0. /\ Len(stack) \in Nat \ {0} /\ FrameInv(top) /\ Len(stack) \in 1..Len(stack)
      /\ top = stack[Len(stack)]
  BY TopIs
<1>1. top.kind = "model" /\ top.phase = "fields" /\ top.at > Len(FieldsOf(top.model))
  BY DEF ReturnModel, FieldsRead, InModel
<1>2. Len(stack) > 1
  BY ReturnModelIs
<1>3. PICK below : below = stack[Len(stack) - 1]
  OBVIOUS
<1>4. PICK next \in Nat : next = EndOf(top)
  BY <1>0, <1>1, EndIs
<1>5. PICK value : value = Instance(top)
  OBVIOUS
<1>6. Deliver(value, next)
  BY <1>4, <1>5 DEF ReturnModel
<1>7. Nested(top, below) /\ Busy(below) /\ FrameInv(below) /\ below.offset \in Nat
  BY <1>2, <1>3, BelowIs
<1>8. GotOn(top, below)
  <2>1. Len(stack) \in 2..Len(stack)
    BY <1>0, <1>2
  <2>2. QED BY <1>0, <1>3, <2>1 DEF AInv
<1>9. top.start = below.offset
  BY <1>1, <1>7 DEF Nested
<1>10. IsModelFrame(top) /\ top.offset \in Nat /\ top.at \in Nat \ {0}
  BY <1>0, <1>1, FrameKinds, ModelFrameTypes
<1>11. top.start <= top.offset /\ (Past(top) => top.start < top.offset)
  BY <1>0, <1>1 DEF AInv, Moved
<1>12. top.offset <= next
  BY <1>0, <1>1, <1>4, EndIs
<1>13. below.offset <= next
  BY <1>7, <1>9, <1>10, <1>11, <1>12
<1>14. ASSUME Advances[WantedBy(below)] PROVE below.offset < next
  <2>1. WantedBy(below) \in Codecs
    BY <1>7, WaitedFor
  <2>2. WantedBy(below).kind = "model" /\ WantedBy(below).model = top.model
    BY <1>1, <1>8 DEF GotOn
  <2>3. AdvancesBy(Advances, WantedBy(below))
    BY <1>14, <2>1, AdvancesParts
  <2>4. \/ \E i \in DOMAIN Models[top.model].header :
             Models[top.model].header[i].kind # "Constructor"
        \/ \E i \in DOMAIN FieldsOf(top.model) :
             FieldsOf(top.model)[i].flag = {} /\ Advances[FieldsOf(top.model)[i].codec]
    BY <2>2, <2>3 DEF AdvancesBy
  <2>5. DOMAIN FieldsOf(top.model) \subseteq 1..(top.at - 1)
    <3>1. top.model \in DOMAIN Models
      BY <1>10, ModelFrameTypes
    <3>2. PICK T : FieldsOf(top.model) \in Seq(T)
      BY <3>1, WireAssumption DEF IsSchema, FieldsOf
    <3>3. QED BY <1>1, <1>10, <3>2
  <2>6. Past(top)
    BY <1>1, <2>4, <2>5 DEF Past
  <2>7. QED BY <1>7, <1>9, <1>10, <1>11, <1>12, <2>6
<1>15. QED BY <1>2, <1>3, <1>6, <1>13, <1>14, DeliverGets

LEMMA ReturnListGets ==
  ASSUME IInv, AInv, ReturnList, error' = "none"
  PROVE  AInv' /\ \E i \in DOMAIN stack : GetsTo(i)
<1>0. /\ Len(stack) \in Nat \ {0} /\ FrameInv(top) /\ top = stack[Len(stack)]
  BY TopIs
<1>1. top.kind = "list"
  BY DEF ReturnList, InList
<1>2. Len(stack) > 1
  BY ReturnListIs
<1>3. PICK below : below = stack[Len(stack) - 1]
  OBVIOUS
<1>4. PICK next \in Nat : next = top.end
  BY <1>0, <1>1, FrameKinds, ListFrameTypes
<1>5. PICK value : value = top.items
  OBVIOUS
<1>6. Deliver(value, next)
  BY <1>4, <1>5 DEF ReturnList
<1>7. below.offset \in Nat
  BY <1>2, <1>3, BelowIs
<1>8. GotOn(top, below)
  <2>1. Len(stack) \in 2..Len(stack)
    BY <1>0, <1>2
  <2>2. QED BY <1>0, <1>3, <2>1 DEF AInv
<1>9. below.offset < next
  BY <1>1, <1>4, <1>8 DEF GotOn
<1>10. below.offset <= next
  BY <1>7, <1>9
<1>11. QED BY <1>2, <1>3, <1>6, <1>9, <1>10, DeliverGets

\* The application's own call, alone.
LEMMA AloneGets ==
  ASSUME Len(stack') = 1, Moved(stack'[1])
  PROVE  AInv'
<1>1. \A i \in 1..Len(stack') : Moved(stack'[i])
  <2> TAKE i \in 1..Len(stack')
  <2>1. i \in 1..1
    OBVIOUS
  <2>2. i = 1
    BY <2>1
  <2>3. QED BY <2>2
<1>2. \A i \in 2..Len(stack') : FALSE
  OBVIOUS
<1>3. QED BY <1>1, <1>2 DEF AInv

LEMMA ApplicationGets ==
  ASSUME EncodesBytes, IInv, Call \/ EncodeAgain \/ Receive
  PROVE  AInv' /\ ~Decoding /\ Len(stack') = 1
<1>0. reader \in DOMAIN Models /\ buffer \in Seq(Byte)
  BY DEF IInv
<1>1. Len(stack) = 1 => top.kind = "model" /\ top = stack[1]
  BY TopIs, BaseIs
<1>2. Outermost <=> Len(stack) = 1
  BY TopIs
<1>3. PICK yes \in BOOLEAN : yes = TRUE
  OBVIOUS
<1>4. CASE Call
  <2>1. Len(stack) = 1 /\ top.phase \in {"idle", "returned"}
    BY <1>2, <1>4 DEF Call
  <2>2. PICK from \in Nat : from = top.offset
    BY <1>1, <2>1, BaseIs
  <2>3. PICK g : g = ModelFrame(reader, yes, buffer, from, "header")
    OBVIOUS
  <2>4. Continue(g)
    BY <1>3, <1>4, <2>2, <2>3 DEF Call
  <2>5. Moved(g)
    BY <1>0, <2>3, NewMoves
  <2>6. Len(stack') = 1 /\ stack'[1] = g
    BY <2>1, <2>4, Continued
  <2>7. AInv'
    BY <2>5, <2>6, AloneGets
  <2>8. QED BY <1>1, <2>1, <2>6, <2>7 DEF Decoding
<1>5. CASE EncodeAgain \/ Receive
  <2>1. PICK bytes \in Seq(Byte), from \in Nat :
          stack' = <<ModelFrame(reader, TRUE, bytes, from, "idle")>>
    <3>1. CASE EncodeAgain
      <4>1. PICK bytes \in Encoded(out[1]) :
              stack' = <<ModelFrame(reader, TRUE, bytes, 0, "idle")>>
        BY <3>1 DEF EncodeAgain
      <4>2. bytes \in Seq(Byte) /\ 0 \in Nat
        BY DEF EncodesBytes
      <4>3. QED BY <4>1, <4>2
    <3>2. CASE Receive
      BY <3>2, ReceiveIs
    <3>3. QED BY <1>5, <3>1, <3>2
  <2>2. PICK g : g = ModelFrame(reader, yes, bytes, from, "idle")
    OBVIOUS
  <2>3. stack' = <<g>>
    BY <1>3, <2>1, <2>2
  <2>4. Moved(g)
    BY <1>0, <2>2, NewMoves
  <2>5. Len(stack') = 1 /\ stack'[1] = g
    BY <2>3, Single
  <2>6. AInv'
    BY <2>4, <2>5, AloneGets
  <2>7. error # "none" \/ (Len(stack) = 1 /\ top.phase = "returned")
    BY <1>2, <1>5 DEF EncodeAgain, Receive
  <2>8. QED BY <1>1, <2>5, <2>6, <2>7 DEF Decoding
<1>6. QED BY <1>4, <1>5

\* The stack stays as it is.
LEMMA SameGets ==
  ASSUME AInv, stack' = stack
  PROVE  AInv'
BY DEF AInv

LEMMA ReturnPartGets ==
  ASSUME CodecsBuilt, IInv, AInv, ReturnModel \/ ReturnList
  PROVE  /\ AInv'
         /\ \/ \E i \in DOMAIN stack : GetsTo(i)
            \/ error' # "none" /\ stack' = stack
<1>1. CASE error' = "none"
  BY <1>1, ReturnModelGets, ReturnListGets
<1>2. CASE error' # "none"
  <2>1. error = "none" /\ \E value, next : Deliver(value, next)
    BY DEF ReturnModel, ReturnList, FieldsRead, InModel, InList
  <2>2. stack' = stack
    BY <1>2, <2>1 DEF Deliver, Raise
  <2>3. QED BY <1>2, <2>2, SameGets
<1>3. QED BY <1>1, <1>2

\* What becomes of the calls in progress.
LEMMA StepShape ==
  ASSUME CodecsBuilt, EncodesBytes, IInv, AInv, [Next]_vars
  PROVE  /\ AInv'
         /\ \/ Opens
            \/ \E i \in DOMAIN stack : GetsTo(i)
            \/ ~Decoding /\ Len(stack') = 1
            \/ error' # "none" /\ stack' = stack
            \/ UNCHANGED vars
<1>1. CASE Call \/ EncodeAgain \/ Receive
  BY <1>1, ApplicationGets
<1>2. CASE SkipElement \/ ReadElement
  BY <1>2, HeaderGets
<1>3. CASE ElementRaises \/ PayloadMissing \/ EncodingRaises \/ LeafRaises \/ ListRaises \/ ValidatorRaises
  <2>1. stack' = stack /\ error' # "none"
    BY <1>3 DEF ElementRaises, PayloadMissing, EncodingRaises, LeafRaises, ListRaises, ValidatorRaises, Raise
  <2>2. QED BY <2>1, SameGets
<1>4. CASE EnterPayload
  BY <1>4, PayloadGets
<1>5. CASE SkipField \/ ReadLeaf
  BY <1>5, SkipFieldGets, ReadLeafGets
<1>6. CASE OpenModel \/ OpenList
  BY <1>6, OpenModelGets, OpenListGets
<1>7. CASE Return \/ ReturnModel \/ ReturnList
  BY <1>7, ReturnGets, ReturnPartGets
<1>8. CASE UNCHANGED vars
  BY <1>8, SameGets DEF vars
<1>9. QED BY <1>1, <1>2, <1>3, <1>4, <1>5, <1>6, <1>7, <1>8 DEF Next

LEMMA StartsOn ==
  ASSUME Init
  PROVE  AInv
<1>1. reader \in DOMAIN Models /\ buffer \in Seq(Byte)
  BY Starts DEF IInv
<1>2. PICK yes \in BOOLEAN, from \in Nat : yes = TRUE /\ from = 0
  OBVIOUS
<1>3. PICK g : g = ModelFrame(reader, yes, buffer, from, "idle")
  OBVIOUS
<1>4. stack = <<g>>
  BY <1>2, <1>3 DEF Init
<1>5. Moved(g)
  BY <1>1, <1>3, NewMoves
<1>6. Len(stack) = 1 /\ stack[1] = g
  BY <1>4, Single
<1>7. \A i \in 1..Len(stack) : Moved(stack[i])
  <2> TAKE i \in 1..Len(stack)
  <2>1. i \in 1..1
    BY <1>6
  <2>2. i = 1
    BY <2>1
  <2>3. QED BY <1>5, <1>6, <2>2
<1>8. \A i \in 2..Len(stack) : FALSE
  BY <1>6
<1>9. QED BY <1>7, <1>8 DEF AInv

\* ICodec's note on list items, for every schema, stream and depth: a call of
\* decode_from raises, calls a codec that is part of its own, or leaves the
\* calls that go on with less to do, unless a list's items need not advance.
THEOREM GetsOnCorrect ==
  ASSUME CodecsBuilt, EncodesBytes
  PROVE  Spec => GetsOn
<1>1. Init => IInv /\ AInv
  BY Starts, StartsOn
<1>2. IInv /\ AInv /\ [Next]_vars => IInv' /\ AInv'
  BY Preserved, StepShape
<1>3. IInv /\ AInv /\ [Next]_vars =>
        [Decoding /\ error' = "none" =>
           Opens \/ \E i \in DOMAIN stack : GetsTo(i)]_vars
  BY StepShape
<1>4. QED BY <1>1, <1>2, <1>3, PTL DEF Spec, GetsOn

-----------------------------------------------------------------------------
(* Calls are nested no deeper than the schema.                             *)

\* A called codec's codecs are smaller.
LEMMA Shrinks ==
  ASSUME NEW depth, Built(depth), NEW f, FrameInv(f), Busy(f),
         NEW below, FrameInv(below), Busy(below), GotOn(f, below)
  PROVE  /\ depth[WantedBy(f)] \in Nat /\ depth[WantedBy(below)] \in Nat
         /\ depth[WantedBy(f)] < depth[WantedBy(below)]
<1>1. WantedBy(f) \in Codecs /\ WantedBy(below) \in Codecs
  BY WaitedFor
<1>2. depth[WantedBy(f)] \in Nat /\ depth[WantedBy(below)] \in Nat
  BY <1>1 DEF Built
<1>3. CASE f.kind = "list"
  BY <1>1, <1>3 DEF GotOn, WantedBy, Built
<1>4. CASE f.kind # "list"
  <2>1. WantedBy(below).kind = "model" /\ WantedBy(below).model = f.model
    BY <1>4 DEF GotOn
  <2>2. \A i \in DOMAIN FieldsOf(f.model) :
          depth[FieldsOf(f.model)[i].codec] < depth[WantedBy(below)]
    BY <1>1, <2>1 DEF Built
  <2>3. f.kind = "model" /\ f.at <= Len(FieldsOf(f.model)) /\ f.at \in Nat \ {0}
        /\ f.model \in DOMAIN Models
    BY <1>4, FrameKinds, ModelFrameTypes DEF Busy
  <2>4. PICK T : FieldsOf(f.model) \in Seq(T)
    BY <2>3, WireAssumption DEF IsSchema, FieldsOf
  <2>5. f.at \in DOMAIN FieldsOf(f.model)
    BY <2>3, <2>4
  <2>6. WantedBy(f) = FieldsOf(f.model)[f.at].codec
    BY <1>4 DEF WantedBy
  <2>7. QED BY <1>2, <2>2, <2>5, <2>6
<1>5. QED BY <1>3, <1>4

\* Each call in progress has left one level of the schema behind.
Nesting(depth) ==
  \A i \in 1..(Len(stack) - 1) :
    depth[WantedBy(stack[i])] + i <= depth[WantedBy(stack[1])] + 1

LEMMA NestingStep ==
  ASSUME NEW depth, Built(depth), IInv, AInv, IInv', AInv', Nesting(depth),
         Opens \/ (\E i \in DOMAIN stack : GetsTo(i)) \/ Len(stack') = 1 \/ stack' = stack
  PROVE  Nesting(depth)'
<1>0. PICK n \in Nat \ {0} : n = Len(stack)
  BY TopIs
<1>1. DOMAIN stack = 1..n
  <2>1. IsSeq(stack)
    BY DEF IInv
  <2>2. QED BY <1>0, <2>1, SeqIs DEF IsSeq
<1>2. CASE Opens
  <2>1. Len(stack') = n + 1 /\ \A i \in 1..n : stack'[i] = stack[i]
    BY <1>0, <1>1, <1>2 DEF Opens
  <2>2. ASSUME NEW i \in 1..n
        PROVE  depth[WantedBy(stack[i])] + i <= depth[WantedBy(stack[1])] + 1
    <3>1. CASE i # n
      <4>1. i \in 1..(n - 1)
        BY <3>1
      <4>2. QED BY <1>0, <4>1 DEF Nesting
    <3>2. CASE i = n /\ n = 1
      <4>1. FrameInv(stack[1]) /\ Busy(stack[1])
        <5>1. 2 \in 2..Len(stack') /\ 1 \in 1..Len(stack) /\ stack'[1] = stack[1]
          BY <1>0, <2>1, <3>2
        <5>2. Busy(stack'[2 - 1])
          BY <5>1 DEF IInv
        <5>3. QED BY <5>1, <5>2 DEF IInv
      <4>2. depth[WantedBy(stack[1])] \in Nat
        BY <4>1, WaitedFor DEF Built
      <4>3. QED BY <3>2, <4>2
    <3>3. CASE i = n /\ n # 1
      <4>1. /\ n \in 2..Len(stack) /\ n \in 1..Len(stack) /\ n - 1 \in 1..Len(stack)
            /\ n - 1 \in 1..(Len(stack) - 1) /\ n + 1 \in 2..Len(stack')
            /\ stack'[(n + 1) - 1] = stack[n] /\ 1 \in 1..Len(stack) /\ 2 \in 2..Len(stack)
        BY <1>0, <2>1, <3>3
      <4>2. /\ FrameInv(stack[n]) /\ FrameInv(stack[n - 1])
            /\ Busy(stack[n - 1]) /\ GotOn(stack[n], stack[n - 1])
        BY <4>1 DEF IInv, AInv
      <4>3. Busy(stack[n])
        <5>1. Busy(stack'[(n + 1) - 1])
          BY <4>1 DEF IInv
        <5>2. QED BY <4>1, <5>1
      <4>4. PICK a, b : a = depth[WantedBy(stack[n])] /\ b = depth[WantedBy(stack[n - 1])]
        OBVIOUS
      <4>5. a \in Nat /\ b \in Nat /\ a < b
        BY <4>2, <4>3, <4>4, Shrinks
      <4>6. PICK c : c = depth[WantedBy(stack[1])]
        OBVIOUS
      <4>7. c \in Nat
        <5>1. FrameInv(stack[1]) /\ Busy(stack[2 - 1])
          BY <4>1 DEF IInv
        <5>2. QED BY <4>6, <5>1, WaitedFor DEF Built
      <4>8. b + (n - 1) <= c + 1
        BY <4>1, <4>4, <4>6 DEF Nesting
      <4>9. a + n <= c + 1
        BY <4>5, <4>7, <4>8
      <4>10. QED BY <3>3, <4>4, <4>6, <4>9
    <3>4. QED BY <3>1, <3>2, <3>3
  <2>3. QED BY <2>1, <2>2 DEF Nesting
<1>3. ASSUME NEW k \in DOMAIN stack, GetsTo(k) PROVE Nesting(depth)'
  <2>1. k \in 1..n /\ Len(stack') = k /\ \A j \in 1..(k - 1) : stack'[j] = stack[j]
    BY <1>1, <1>3 DEF GetsTo
  <2>2. ASSUME NEW i \in 1..(Len(stack') - 1)
        PROVE  depth[WantedBy(stack'[i])] + i <= depth[WantedBy(stack'[1])] + 1
    <3>1. i \in 1..(k - 1) /\ 1 \in 1..(k - 1) /\ i \in 1..(Len(stack) - 1)
      BY <1>0, <2>1
    <3>2. stack'[i] = stack[i] /\ stack'[1] = stack[1]
      BY <2>1, <3>1
    <3>3. QED BY <3>1, <3>2 DEF Nesting
  <2>3. QED BY <2>2 DEF Nesting
<1>4. CASE Len(stack') = 1
  BY <1>4 DEF Nesting
<1>5. CASE stack' = stack
  BY <1>5 DEF Nesting
<1>6. QED BY <1>2, <1>3, <1>4, <1>5

\* ModelCodec and ListCodec call decode of the codecs they are made of: whatever
\* the bytes, the calls are nested no deeper than the schema.
THEOREM NestingBounded ==
  ASSUME NEW depth, Built(depth), EncodesBytes
  PROVE  Spec => [](Len(stack) > 1 => Len(stack) <= depth[WantedBy(base)] + 2)
<1>0. CodecsBuilt
  BY DEF CodecsBuilt
<1>1. Init => IInv /\ AInv /\ Nesting(depth)
  <2> SUFFICES ASSUME Init PROVE Nesting(depth)
    BY Starts, StartsOn
  <2>1. Len(stack) = 1
    BY Single DEF Init
  <2>2. QED BY <2>1 DEF Nesting
<1>2. IInv /\ AInv /\ Nesting(depth) /\ [Next]_vars => IInv' /\ AInv' /\ Nesting(depth)'
  <2> SUFFICES ASSUME IInv, AInv, Nesting(depth), [Next]_vars
               PROVE  IInv' /\ AInv' /\ Nesting(depth)'
    OBVIOUS
  <2>1. IInv'
    BY <1>0, Preserved
  <2>2. /\ AInv'
        /\ Opens \/ (\E i \in DOMAIN stack : GetsTo(i)) \/ Len(stack') = 1 \/ stack' = stack
    BY <1>0, StepShape DEF vars
  <2>3. QED BY <2>1, <2>2, NestingStep
<1>3. IInv /\ Nesting(depth) =>
        (Len(stack) > 1 => Len(stack) <= depth[WantedBy(base)] + 2)
  <2> SUFFICES ASSUME IInv, Nesting(depth), Len(stack) > 1
               PROVE  Len(stack) <= depth[WantedBy(base)] + 2
    OBVIOUS
  <2>1. PICK n \in Nat \ {0} : n = Len(stack)
    BY TopIs
  <2>2. base = stack[1]
    BY TopIs
  <2>3. n - 1 \in 1..(Len(stack) - 1) /\ n - 1 \in 1..Len(stack) /\ n \in 2..Len(stack)
        /\ 1 \in 1..Len(stack) /\ 2 \in 2..Len(stack)
    BY <2>1
  <2>4. PICK a, c : a = depth[WantedBy(stack[n - 1])] /\ c = depth[WantedBy(stack[1])]
    OBVIOUS
  <2>5. a \in Nat
    <3>1. FrameInv(stack[n - 1]) /\ Busy(stack[n - 1])
      BY <2>3 DEF IInv
    <3>2. QED BY <2>4, <3>1, WaitedFor DEF Built
  <2>6. c \in Nat
    <3>1. FrameInv(stack[1]) /\ Busy(stack[2 - 1])
      BY <2>3 DEF IInv
    <3>2. QED BY <2>4, <3>1, WaitedFor DEF Built
  <2>7. a + (n - 1) <= c + 1
    BY <2>3, <2>4 DEF Nesting
  <2>8. n <= c + 2
    BY <2>5, <2>6, <2>7
  <2>9. QED BY <2>1, <2>2, <2>4, <2>8
<1>4. QED BY <1>1, <1>2, <1>3, PTL DEF Spec

=============================================================================
