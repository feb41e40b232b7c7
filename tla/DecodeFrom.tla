----------------------------- MODULE DecodeFrom -----------------------------
(***************************************************************************)
(* What ProtoModel.decode_from (core.py) promises whatever the codecs of   *)
(* the fields do.  A field's codec may be the application's: it raises or  *)
(* returns a value and any offset, even a negative one, at which the       *)
(* library's codecs, those of the header among them, raise ValueError.     *)
(*                                                                         *)
(* The caller reads buffers message by message, passing each call the      *)
(* offset the one before returned.  A value that may be None is a set of   *)
(* at most one element.                                                    *)
(***************************************************************************)
EXTENDS Integers, Sequences

CONSTANTS
  Returns,   \* the offsets a codec may return
  Lengths,   \* the values a PayloadLength element may have
  Bits,      \* the bits of a Flags element
  Inputs     \* what decode_from may be called with, see Input

Input == [size: Nat,        \* len(buffer)
          expect: BOOLEAN,  \* expect_constructor
          header: Seq({"Constructor", "PayloadLength", "Flags"}),
          lawful: BOOLEAN,  \* the fields' codecs keep ICodec's contract
          fields: Seq(SUBSET Nat)]  \* the flag of each field, or {}

ASSUME DecodeAssumption ==
  /\ Returns \subseteq Int /\ Lengths \subseteq Nat /\ Bits \subseteq Nat

ASSUME InputAssumption == Inputs \subseteq Input

VARIABLES
  input,
  phase,   \* "idle", "header", "fields", "returned" or "raised"
  at,      \* the header element or the field the loop is at
  start,   \* the offset decode_from was called with
  offset,
  length,  \* ctx.payload_length
  flags,   \* ctx.flags
  body,    \* payload_start
  end,     \* payload_end
  args     \* for each field so far: whether it has a value or is None

vars == <<input, phase, at, start, offset, length, flags, body, end, args>>

Init ==
  /\ input \in Inputs
  /\ phase = "idle" /\ at = 1 /\ start = 0 /\ offset = 0
  /\ length = {} /\ flags = {} /\ body = 0 /\ end = {} /\ args = << >>

\* The end of the buffer the codecs of the fields are given.
View == IF end = {} THEN input.size ELSE CHOOSE e \in end : TRUE

Call ==
  /\ phase = "idle" \/ (phase = "returned" /\ offset < input.size)
  /\ phase' = "header" /\ at' = 1 /\ start' = offset
  /\ length' = {} /\ flags' = {} /\ body' = offset /\ end' = {}
  /\ args' = << >>
  /\ UNCHANGED <<input, offset>>

\* The caller turns to another buffer.
NewBuffer ==
  /\ phase = "returned"
  /\ input' \in Inputs
  /\ phase' = "idle" /\ at' = 1 /\ start' = 0 /\ offset' = 0
  /\ length' = {} /\ flags' = {} /\ body' = 0 /\ end' = {} /\ args' = << >>

\* The caller has got more of the same buffer, and calls again for the message
\* that could not be read, or for the next.
MoreBytes ==
  /\ phase \in {"returned", "raised"}
  /\ input' \in Inputs /\ input'.size > input.size
  /\ input' = [input EXCEPT !.size = input'.size]
  /\ offset' = IF phase = "raised" THEN start ELSE offset
  /\ offset' <= input'.size
  /\ phase' = "idle" /\ at' = 1 /\ start' = offset'
  /\ length' = {} /\ flags' = {} /\ body' = offset' /\ end' = {} /\ args' = << >>

Raise ==
  /\ phase' = "raised"
  /\ UNCHANGED <<input, at, start, offset, length, flags, body, end, args>>

InHeader == phase = "header" /\ at <= Len(input.header)
Element == input.header[at]
Skipped == Element = "Constructor" /\ ~input.expect

SkipElement ==
  /\ InHeader /\ Skipped
  /\ at' = at + 1
  /\ UNCHANGED <<input, phase, start, offset, length, flags, body, end, args>>

\* Mutant: a second PayloadLength is added to the first.
ReadElement_Collects ==
  /\ InHeader /\ ~Skipped /\ offset >= 0
  /\ offset' \in (offset + 1)..input.size
  /\ IF Element = "PayloadLength" THEN \E n \in Lengths : length' = length \cup {n}
     ELSE length' = length
  /\ IF Element = "Flags" THEN flags' \in SUBSET Bits ELSE flags' = flags
  /\ at' = at + 1
  /\ UNCHANGED <<input, phase, start, body, end, args>>

ReadElement ==
  /\ InHeader /\ ~Skipped /\ offset >= 0
  /\ offset' \in (offset + 1)..input.size
  /\ IF Element = "PayloadLength" THEN \E n \in Lengths : length' = {n}
     ELSE length' = length
  /\ IF Element = "Flags" THEN flags' \in SUBSET Bits ELSE flags' = flags
  /\ at' = at + 1
  /\ UNCHANGED <<input, phase, start, body, end, args>>

\* Too few bytes, a malformed varint, the wrong constructor or a negative offset.
ElementRaises == InHeader /\ ~Skipped /\ Raise

\* Mutant: the declared length is not compared with the buffer.
EnterPayload_Unchecked ==
  /\ phase = "header" /\ at > Len(input.header)
  /\ phase' = "fields" /\ at' = 1
  /\ body' = offset
  /\ end' = {offset + n : n \in length}
  /\ UNCHANGED <<input, start, offset, length, flags, args>>

EnterPayload ==
  /\ phase = "header" /\ at > Len(input.header)
  /\ \A n \in length : offset + n <= input.size
  /\ phase' = "fields" /\ at' = 1
  /\ body' = offset
  /\ end' = {offset + n : n \in length}
  /\ UNCHANGED <<input, start, offset, length, flags, args>>

PayloadMissing ==
  /\ phase = "header" /\ at > Len(input.header)
  /\ \E n \in length : offset + n > input.size
  /\ Raise

InFields == phase = "fields" /\ at <= Len(input.fields)
Absent == \E f \in input.fields[at] : f \notin flags

\* Mutant: an absent field gets no argument.
SkipField_NoArgument ==
  /\ InFields /\ Absent
  /\ at' = at + 1
  /\ UNCHANGED <<input, phase, start, offset, length, flags, body, end, args>>

SkipField ==
  /\ InFields /\ Absent
  /\ args' = Append(args, "None")
  /\ at' = at + 1
  /\ UNCHANGED <<input, phase, start, offset, length, flags, body, end>>

\* ICodec: "the absolute position after it in the same buffer".
Contract(n) == input.lawful => n >= offset /\ n <= View

PastEnd(n) == \E e \in end : n > e

DecodeField ==
  /\ InFields /\ ~Absent
  /\ offset' \in Returns
  /\ Contract(offset')
  /\ ~PastEnd(offset')
  /\ args' = Append(args, "value")
  /\ at' = at + 1
  /\ UNCHANGED <<input, phase, start, length, flags, body, end>>

FieldPastEnd ==
  /\ InFields /\ ~Absent
  /\ \E n \in Returns : Contract(n) /\ PastEnd(n)
  /\ Raise

FieldRaises == InFields /\ ~Absent /\ Raise

\* Mutant: trailing data of the payload is left for the next message.
Return_KeepsOffset ==
  /\ phase = "fields" /\ at > Len(input.fields)
  /\ ~PastEnd(offset)
  /\ phase' = "returned"
  /\ UNCHANGED <<input, at, start, offset, length, flags, body, end, args>>

\* cls(**args), whose validator may raise, and the end of the message.
Return ==
  /\ phase = "fields" /\ at > Len(input.fields)
  /\ ~PastEnd(offset)
  /\ phase' = "returned"
  /\ offset' = IF end = {} THEN offset ELSE View
  /\ UNCHANGED <<input, at, start, length, flags, body, end, args>>

ValidatorRaises == phase = "fields" /\ at > Len(input.fields) /\ Raise

Next ==
  \/ Call \/ NewBuffer \/ MoreBytes
  \/ SkipElement \/ ReadElement \/ ElementRaises
  \/ EnterPayload \/ PayloadMissing
  \/ SkipField \/ DecodeField \/ FieldPastEnd \/ FieldRaises
  \/ Return \/ ValidatorRaises

Spec == Init /\ [][Next]_vars

-----------------------------------------------------------------------------
AtMostOne(S) == \A x, y \in S : x = y

\* The types of decode_from's locals.
TypeOK ==
  /\ input \in Inputs
  /\ phase \in {"idle", "header", "fields", "returned", "raised"}
  /\ at \in Nat \ {0}
  /\ start \in Int /\ offset \in Int /\ body \in Int
  /\ length \in SUBSET Nat /\ AtMostOne(length)
  /\ end \in SUBSET Int /\ AtMostOne(end)
  /\ flags \in SUBSET Nat
  /\ args \in Seq({"None", "value"})

\* decode_from: "a field extending beyond the declared payload bounds" raises.
\* With a PayloadLength the payload lies inside the buffer, no field's codec is
\* called beyond its end, and the message ends where the header said it would,
\* even if the codecs return arbitrary offsets.
Framed ==
  phase \in {"fields", "returned"} =>
    \A n \in length : /\ end = {body + n}
                      /\ body + n <= input.size
                      /\ offset <= body + n
                      /\ phase = "returned" => offset = body + n

\* The new instance has one argument per field, in order: None exactly for
\* the optional fields whose bit is not set.
Complete ==
  phase = "returned" =>
    /\ Len(args) = Len(input.fields)
    /\ \A i \in DOMAIN args :
         (args[i] = "None") <=> (\E f \in input.fields[i] : f \notin flags)

\* A message is inside the buffer and after the one before it if the fields'
\* codecs keep ICodec's contract or the header bounds the payload.
Inside ==
  phase = "returned" /\ (input.lawful \/ length # {}) =>
    start <= offset /\ offset <= input.size
=============================================================================
