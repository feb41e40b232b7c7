------------------------------ MODULE Decoder ------------------------------
(***************************************************************************)
(* Reading a buffer of messages: ProtoModel.decode_from (core.py) and the  *)
(* two codecs that call others, ModelCodec and ListCodec.  The calls in    *)
(* progress are a stack of frames; the lowest is the application's own     *)
(* decode_from, which it calls again with the offset it got back.          *)
(*                                                                         *)
(* The buffer holds what a writer encoded, cut off anywhere, or bytes of   *)
(* unknown origin; the latter are encoded again once a message was read.   *)
(***************************************************************************)
EXTENDS Wire

CONSTANTS
  Encoded(_),  \* the bytes encode writes for an instance, see Encoding
  Streams,     \* a reading class, the instances it is sent and their bytes
  Foreign,     \* pairs of a reading class and a buffer
  Offsets      \* the offsets and lengths in them

ASSUME StreamAssumption ==
  /\ \A s \in Streams : s.reader \in DOMAIN Models /\ s.bytes \in Seq(Byte)
  /\ \A f \in Foreign : f.reader \in DOMAIN Models /\ f.buffer \in Seq(Byte)

VARIABLES
  reader,  \* the class decode_from is called on
  sent,    \* the instances in the buffer, << >> if their origin is unknown
  coming,  \* what has not arrived yet of the bytes sent
  buffer,
  stack,   \* the calls in progress, the outermost first
  out,     \* the instances returned
  error    \* what was raised, or "none"

vars == <<reader, sent, coming, buffer, stack, out, error>>

ModelFrame(model, expect, seen, offset, phase) ==
  [kind |-> "model", model |-> model, expect |-> expect, buffer |-> seen,
   start |-> offset, offset |-> offset, phase |-> phase, at |-> 1,
   length |-> {}, flags |-> {}, body |-> offset, end |-> {}, args |-> << >>]

ListFrame(codec, order, values, end) ==
  [kind |-> "list", item |-> codec.item, order |-> order, buffer |-> values,
   offset |-> 0, items |-> << >>, end |-> end]

Init ==
  /\ \/ \E s \in Streams :
          /\ reader = s.reader /\ sent = s.instances
          /\ \E cut \in 1..Len(s.bytes) :
               /\ buffer = SubSeq(s.bytes, 1, cut)
               /\ coming = SubSeq(s.bytes, cut + 1, Len(s.bytes))
     \/ \E f \in Foreign :
          reader = f.reader /\ sent = << >> /\ buffer = f.buffer /\ coming = << >>
  /\ stack = <<ModelFrame(reader, TRUE, buffer, 0, "idle")>>
  /\ out = << >> /\ error = "none"

-----------------------------------------------------------------------------
top == stack[Len(stack)]
WithTop(frame) == [stack EXCEPT ![Len(stack)] = frame]
Outermost == Len(stack) = 1
Own == sent # << >>

Continue(frame) ==
  /\ stack' = WithTop(frame)
  /\ UNCHANGED <<reader, sent, coming, buffer, out, error>>

Raise(what) ==
  /\ error' = what
  /\ UNCHANGED <<reader, sent, coming, buffer, stack, out>>

Call ==
  /\ error = "none" /\ Outermost
  /\ \/ top.phase = "idle"
     \/ top.phase = "returned" /\ top.offset < Len(buffer) /\ Own
  /\ Continue(ModelFrame(reader, TRUE, buffer, top.offset, "header"))

\* The application encodes what it read from foreign bytes and reads that.
EncodeAgain ==
  /\ error = "none" /\ Outermost /\ top.phase = "returned"
  /\ ~Own /\ Len(out) = 1
  /\ \E bytes \in Encoded(out[1]) :
       /\ buffer' = bytes
       /\ stack' = <<ModelFrame(reader, TRUE, bytes, 0, "idle")>>
  /\ UNCHANGED <<reader, sent, coming, out, error>>

\* More of the stream arrives; the application puts it behind what it has and
\* calls again for the message it could not read, or for the next.
Receive ==
  /\ \/ error = "DecodeError"
     \/ error = "none" /\ Outermost /\ top.phase = "returned" /\ top.offset >= Len(buffer)
  /\ LET again == IF error = "none" THEN top.offset ELSE stack[1].start
     IN \E n \in DOMAIN coming :
          LET more == buffer \o SubSeq(coming, 1, n)
          IN /\ again <= Len(more)
             /\ buffer' = more
             /\ coming' = SubSeq(coming, n + 1, Len(coming))
             /\ stack' = <<ModelFrame(reader, TRUE, more, again, "idle")>>
  /\ error' = "none"
  /\ UNCHANGED <<reader, sent, out>>

-----------------------------------------------------------------------------
(* decode_from: the header.                                                *)

InModel(phase) == error = "none" /\ top.kind = "model" /\ top.phase = phase
Header == Models[top.model].header
InHeader == InModel("header") /\ top.at <= Len(Header)
Element == Header[top.at]
Skipped == Element.kind = "Constructor" /\ ~top.expect

SkipElement == InHeader /\ Skipped /\ Continue([top EXCEPT !.at = @ + 1])

ElementRead ==
  {r \in NumberRead(Element.codec, top.buffer, Models[top.model].order, top.offset) :
     Element.kind = "Constructor" => r[1] = Models[top.model].constructor}

ReadElement ==
  /\ InHeader /\ ~Skipped
  /\ \E r \in ElementRead :
       Continue([top EXCEPT
         !.offset = r[2],
         !.length = IF Element.kind = "PayloadLength" THEN {r[1]} ELSE @,
         !.flags = IF Element.kind = "Flags" THEN BitsOf(r[1]) ELSE @,
         !.at = @ + 1])

ElementRaises ==
  InHeader /\ ~Skipped /\ ElementRead = {} /\ Raise("DecodeError")

HeaderRead == InModel("header") /\ top.at > Len(Header)

PayloadThere ==
  \A n \in top.length : Available(top.buffer, top.offset, n)

\* Mutant: the fields get the whole buffer.
PayloadBuffer_Whole == top.buffer

\* buffer[:payload_end]
PayloadBuffer ==
  IF top.length = {} THEN top.buffer
  ELSE SubSeq(top.buffer, 1, top.offset + The(top.length))

EnterPayload ==
  /\ HeaderRead /\ PayloadThere
  /\ Continue([top EXCEPT
       !.phase = "fields", !.at = 1, !.body = top.offset,
       !.end = {top.offset + n : n \in top.length}, !.buffer = PayloadBuffer])

PayloadMissing == HeaderRead /\ ~PayloadThere /\ Raise("DecodeError")

-----------------------------------------------------------------------------
(* The next value of the frame on top: a field or an item of a list.       *)

InFields == InModel("fields") /\ top.at <= Len(FieldsOf(top.model))

Absent == \E f \in FieldsOf(top.model)[top.at].flag : f \notin top.flags

\* Mutant: the loop does not get past an absent field.
SkipField_Again ==
  /\ InFields /\ Absent
  /\ Continue([top EXCEPT !.args = Append(@, {})])

SkipField ==
  /\ InFields /\ Absent
  /\ Continue([top EXCEPT !.args = Append(@, {}), !.at = @ + 1])

InList == error = "none" /\ top.kind = "list"

Wanting ==
  \/ InFields /\ ~Absent
  \/ InList /\ top.offset < Len(top.buffer)

Wanted == IF top.kind = "list" THEN top.item
          ELSE FieldsOf(top.model)[top.at].codec
Order == IF top.kind = "list" THEN top.order ELSE Models[top.model].order

\* Mutant: an item does not move the list's offset.
Given_Stays(frame, value, next) ==
  IF frame.kind = "list" THEN frame
  ELSE [frame EXCEPT !.args = Append(@, {value}), !.at = @ + 1, !.offset = next]

\* The frame once its codec has returned.
Given(frame, value, next) ==
  IF frame.kind = "list"
  THEN [frame EXCEPT !.items = Append(@, value), !.offset = next]
  ELSE [frame EXCEPT !.args = Append(@, {value}), !.at = @ + 1, !.offset = next]

PastEnd(frame, next) == frame.kind = "model" /\ \E e \in frame.end : next > e

IsLeaf(codec) == codec.kind \notin {"list", "model"}
LeafRead == Leaf(Wanted, top.buffer, Order, top.offset)

ReadLeaf ==
  /\ Wanting /\ IsLeaf(Wanted)
  /\ \E r \in LeafRead : /\ ~PastEnd(top, r[2])
                         /\ Continue(Given(top, r[1], r[2]))

\* Found only now, and not by who declared the field.
EncodingRaises ==
  /\ Wanting /\ IsLeaf(Wanted)
  /\ NoEncoding(Wanted, top.buffer, Order, top.offset)
  /\ Raise("SchemaError")

LeafRaises ==
  /\ Wanting /\ IsLeaf(Wanted)
  /\ ~NoEncoding(Wanted, top.buffer, Order, top.offset)
  /\ \A r \in LeafRead : PastEnd(top, r[2])
  /\ Raise("DecodeError")

Push(frame) ==
  /\ stack' = Append(stack, frame)
  /\ UNCHANGED <<reader, sent, coming, buffer, out, error>>

\* ModelCodec.decode.
OpenModel ==
  /\ Wanting /\ Wanted.kind = "model"
  /\ Push(ModelFrame(Wanted.model, FALSE, top.buffer, top.offset, "header"))

\* ListCodec.decode: the items are read from a buffer of their own.
ListSpan ==
  PrefixedSpan(NumberRead(Wanted.prefix, top.buffer, Order, top.offset), top.buffer)

\* Mutant: a list returns the offset it was called with.
OpenList_ReturnsStart ==
  /\ Wanting /\ Wanted.kind = "list"
  /\ \E s \in ListSpan :
       Push(ListFrame(Wanted, Order, Slice(top.buffer, s[1], s[2]), top.offset))

OpenList ==
  /\ Wanting /\ Wanted.kind = "list"
  /\ \E s \in ListSpan :
       Push(ListFrame(Wanted, Order, Slice(top.buffer, s[1], s[2]), s[2]))

ListRaises ==
  Wanting /\ Wanted.kind = "list" /\ ListSpan = {} /\ Raise("DecodeError")

-----------------------------------------------------------------------------
(* A call returns.                                                         *)

FieldsRead == InModel("fields") /\ top.at > Len(FieldsOf(top.model))

\* Mutant: the rest of the payload is left for the next field.
EndOf_KeepsOffset(frame) == frame.offset

\* Where the message ends: its payload's end, if it has one.
EndOf(frame) == IF frame.end = {} THEN frame.offset ELSE The(frame.end)

Instance(frame) == [model |-> frame.model, values |-> frame.args]

\* __validate__ of the new instance's own class.
Refused == top.args \in Models[top.model].refuses
ValidatorRaises == FieldsRead /\ Refused /\ Raise("ValueError")

Return ==
  /\ FieldsRead /\ ~Refused /\ Outermost
  /\ stack' = WithTop([top EXCEPT !.phase = "returned", !.offset = EndOf(top)])
  /\ out' = Append(out, Instance(top))
  /\ UNCHANGED <<reader, sent, coming, buffer, error>>

\* A codec returns a value and an offset to the frame below.
Deliver(value, next) ==
  LET below == stack[Len(stack) - 1]
  IN IF PastEnd(below, next)
     THEN Raise("DecodeError")
     ELSE /\ stack' = Append(SubSeq(stack, 1, Len(stack) - 2),
                             Given(below, value, next))
          /\ UNCHANGED <<reader, sent, coming, buffer, out, error>>

ReturnModel ==
  FieldsRead /\ ~Refused /\ ~Outermost /\ Deliver(Instance(top), EndOf(top))

ReturnList ==
  InList /\ top.offset >= Len(top.buffer) /\ Deliver(top.items, top.end)

Next ==
  \/ Call \/ EncodeAgain \/ Receive
  \/ SkipElement \/ ReadElement \/ ElementRaises
  \/ EnterPayload \/ PayloadMissing
  \/ SkipField \/ ReadLeaf \/ EncodingRaises \/ LeafRaises
  \/ OpenModel \/ OpenList \/ ListRaises
  \/ ValidatorRaises \/ Return \/ ReturnModel \/ ReturnList

Spec == Init /\ [][Next]_vars

\* One thread reads and nothing blocks it; a stream goes on until it is whole.
FairSpec == Spec /\ WF_vars(Next)

-----------------------------------------------------------------------------
\* The outermost call as DecodeFrom describes it, with the calls above it as
\* one step.
base == stack[1]
AnyInput == [size: Nat, expect: BOOLEAN, lawful: BOOLEAN,
             header: Seq({"Constructor", "PayloadLength", "Flags"}),
             fields: Seq(SUBSET Nat)]
InputOf(m, size) ==
  [size |-> size, expect |-> TRUE, lawful |-> LawfulClass(m),
   header |-> [i \in DOMAIN Models[m].header |-> Models[m].header[i].kind],
   fields |-> [i \in DOMAIN FieldsOf(m) |-> FieldsOf(m)[i].flag]]
PhaseOf == IF error = "none" THEN base.phase ELSE "raised"
ArgsOf(args) ==
  [i \in DOMAIN args |-> IF args[i] = {} THEN "None" ELSE "value"]

DF == INSTANCE DecodeFrom WITH
  Returns <- Offsets, Lengths <- Offsets, Bits <- 0..63, Inputs <- AnyInput,
  input <- InputOf(reader, Len(buffer)), phase <- PhaseOf,
  at <- base.at, start <- base.start, offset <- base.offset,
  length <- base.length, flags <- base.flags, body <- base.body,
  end <- base.end, args <- ArgsOf(base.args)

\* decode_from keeps the promises of DecodeFrom whatever its fields' codecs:
\* lists and nested models, and ones that break ICodec's contract.
Implements == DF!Spec

AtMostOne(S) == \A x, y \in S : x = y

\* The types of the locals of the calls in progress.
TypeOK ==
  /\ buffer \in Seq(Byte)
  /\ error \in {"none", "DecodeError", "SchemaError", "ValueError"}
  /\ Len(stack) \in Nat \ {0}
  /\ \A i \in DOMAIN stack :
       LET f == stack[i]
       IN /\ f.buffer \in Seq(Byte) /\ f.offset \in Nat
          /\ IF f.kind = "list" THEN f.end \in Nat /\ i > 1
             ELSE /\ f.phase \in {"idle", "header", "fields", "returned"}
                  /\ f.at \in Nat \ {0}
                  /\ AtMostOne(f.length) /\ AtMostOne(f.end)
                  /\ f.flags \subseteq 0..63
                  /\ Len(f.args) <= Len(FieldsOf(f.model))

\* docs/wire-format.rst: with PayloadLength the fields get a buffer cut at the
\* payload's end, nested models are bounded by the parent's payload and items
\* by the list's own buffer.  No call reads outside what its caller may read,
\* and no call in progress is outside its own bounds, if every codec advances
\* by what it reads.
Confined ==
  LawfulClass(reader) =>
    /\ \A i \in DOMAIN stack :
         /\ stack[i].offset <= Len(stack[i].buffer)
         /\ stack[i].kind = "model" =>
              \A e \in stack[i].end : Len(stack[i].buffer) = e
    /\ \A i \in 2..Len(stack) :
         IF stack[i].kind = "model"
         THEN IsPrefix(stack[i].buffer, stack[i - 1].buffer)
         ELSE /\ stack[i].end <= Len(stack[i - 1].buffer)
              /\ stack[i].buffer = Slice(stack[i - 1].buffer,
                                         stack[i].end - Len(stack[i].buffer),
                                         stack[i].end)

\* What a call in progress has left to do, if no other is above it.
Left(frame) ==
  IF frame.kind = "list"
  THEN IF frame.offset < Len(frame.buffer) THEN Len(frame.buffer) - frame.offset ELSE 0
  ELSE LET fields == Len(FieldsOf(frame.model))
       IN CASE frame.phase = "header" ->
                 (Len(Models[frame.model].header) + 1 - frame.at) + (fields + 2)
            [] frame.phase = "fields" -> fields + 2 - frame.at
            [] OTHER -> 0

Decoding == error = "none" /\ (top.kind = "list" \/ top.phase \in {"header", "fields"})

\* The call on top calls the codec of its next value.
Opens ==
  /\ Len(stack') = Len(stack) + 1
  /\ \A i \in DOMAIN stack : stack'[i] = stack[i]
  /\ IF stack'[Len(stack')].kind = "list"
     THEN Wanted.kind = "list" /\ stack'[Len(stack')].item = Wanted.item
     ELSE Wanted.kind = "model" /\ stack'[Len(stack')].model = Wanted.model

\* The calls above the i-th have ended and it has less left to do.
GetsTo(i) ==
  /\ Len(stack') = i
  /\ \A j \in 1..(i - 1) : stack'[j] = stack[j]
  /\ Left(stack'[i]) \in Nat
  /\ (stack[i].kind = "list" => Advances[stack[i].item]) => Left(stack'[i]) < Left(stack[i])

\* ICodec: "A list item codec must advance offset by a positive number of bytes."
\* Why decode_from ends: each of its steps raises, calls the codec of the next
\* value, or leaves the calls that go on with less to do.  Only a ListCodec
\* whose items need not advance may go on for ever.
GetsOn ==
  [][Decoding /\ error' = "none" => Opens \/ \E i \in DOMAIN stack : GetsTo(i)]_vars

=============================================================================
