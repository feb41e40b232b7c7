------------------------------ MODULE VarUInt ------------------------------
(***************************************************************************)
(* VarUIntCodec and VarIntCodec (codecs/varint.py), the integers every     *)
(* plain "int" field, VarUInt header element and VarUInt length prefix is  *)
(* written with.                                                           *)
(*                                                                         *)
(* One behaviour is one caller.  In mode "own" it encodes a number and     *)
(* decodes the bytes where they landed in a larger buffer; in mode         *)
(* "foreign" it decodes bytes of unknown origin and encodes what it got.   *)
(* Each iteration of the two loops is a step.                              *)
(***************************************************************************)
EXTENDS Integers, Sequences

CONSTANTS
  GroupBase,  \* values of one group of data bits (2^7 in the code)
  MaxCount,   \* the most bytes a varint may have (10)
  LastGroup,  \* the largest data the MaxCount-th byte may carry (1)
  Weight,     \* Weight[i]: what "<< 7*i" multiplies by
  Args,       \* the numbers encode is called with
  Around,     \* what may stand before and after a varint in a buffer
  Foreign     \* the buffers decode is called with in mode "foreign"

ASSUME VarUIntAssumption ==
  /\ GroupBase \in Nat /\ GroupBase > 1
  /\ MaxCount \in Nat /\ MaxCount > 1
  /\ LastGroup \in 1..(GroupBase - 1)
  /\ Weight \in [0..MaxCount -> Nat \ {0}]
  /\ Weight[0] = 1
  /\ \A i \in 0..(MaxCount - 1) : Weight[i + 1] = GroupBase * Weight[i]

Byte == 0..(2 * GroupBase - 1)

ASSUME InputAssumption ==
  /\ Args \subseteq Int
  /\ Around \subseteq Seq(Byte)
  /\ Foreign \subseteq Seq(Byte)

\* 2**64 - 1: all groups full but the last, which holds LastGroup.
MaxValue == (LastGroup + 1) * Weight[MaxCount - 1] - 1

\* byte & 0x80 and byte & 0x7F.
More(byte) == byte >= GroupBase
Data(byte) == IF More(byte) THEN byte - GroupBase ELSE byte

\* Mutant: the negative numbers start at 2, not at 1.
ZigZag_NoMinusOne(n) == IF n >= 0 THEN n * 2 ELSE (-n) * 2

ZigZag(n) == IF n >= 0 THEN n * 2 ELSE (-n) * 2 - 1
\* Mutant: -1 and 0 are not told apart.
UnZigZag_NoMinusOne(u) == IF u % 2 = 0 THEN u \div 2 ELSE -(u \div 2)

UnZigZag(u) == IF u % 2 = 0 THEN u \div 2 ELSE -(u \div 2) - 1

VARIABLES
  mode,    \* "own" or "foreign"
  signed,  \* TRUE: the codec is VarIntCodec
  pc,      \* where the caller is
  arg,     \* the argument of encode
  value,   \* the loop variable "value" of encode, then that of decode
  out,     \* encode's result
  buffer, start,          \* decode's arguments
  offset, count, shift,   \* decode's locals; shift counts groups
  result,  \* what decode returned
  error,   \* why decode raised
  rests    \* history: rests[i] is encode's "value" after i - 1 bytes

vars == <<mode, signed, pc, arg, value, out, buffer, start, offset, count,
          shift, result, error, rests>>

Errors == {"none", "truncated", "too long", "overflow", "non-canonical"}

Init ==
  /\ mode \in {"own", "foreign"}
  /\ signed \in BOOLEAN
  /\ \/ mode = "own" /\ pc = "encode" /\ arg \in Args /\ buffer = << >>
     \/ mode = "foreign" /\ pc = "read" /\ arg = 0 /\ buffer \in Foreign
  /\ value = 0 /\ out = << >> /\ rests = << >>
  /\ start = 0 /\ offset = 0 /\ count = 0 /\ shift = 0
  /\ result = 0 /\ error = "none"

-----------------------------------------------------------------------------
Number == IF signed THEN ZigZag(arg) ELSE arg

decodeVars == <<buffer, start, offset, count, shift, result, error>>

EncodeRefused ==
  /\ pc = "encode"
  /\ Number < 0 \/ Number > MaxValue
  /\ pc' = "EncodeError"
  /\ UNCHANGED <<mode, signed, arg, value, out, rests, decodeVars>>

EncodeCall ==
  /\ pc = "encode"
  /\ Number >= 0 /\ Number <= MaxValue
  /\ pc' = "write"
  /\ value' = Number
  /\ rests' = <<Number>>
  /\ UNCHANGED <<mode, signed, arg, out, decodeVars>>

\* Mutant: the loop tests the number before it is shifted.
WriteByte_TestBeforeShift ==
  /\ pc = "write"
  /\ LET data == value % GroupBase
         rest == value \div GroupBase
     IN /\ out' = Append(out, IF value # 0 THEN data + GroupBase ELSE data)
        /\ value' = rest
        /\ rests' = Append(rests, rest)
        /\ pc' = IF value # 0 THEN "write" ELSE "written"
  /\ UNCHANGED <<mode, signed, arg, decodeVars>>

\* One turn of encode's loop.
WriteByte ==
  /\ pc = "write"
  /\ LET data == value % GroupBase
         rest == value \div GroupBase
     IN /\ out' = Append(out, IF rest # 0 THEN data + GroupBase ELSE data)
        /\ value' = rest
        /\ rests' = Append(rests, rest)
        /\ pc' = IF rest # 0 THEN "write" ELSE "written"
  /\ UNCHANGED <<mode, signed, arg, decodeVars>>

\* The caller decodes its own bytes, with other data before and after them.
DecodeCall ==
  /\ pc = "written" /\ mode = "own"
  /\ \E before, after \in Around :
       /\ buffer' = before \o out \o after
       /\ start' = Len(before)
       /\ offset' = Len(before)
  /\ value' = 0
  /\ pc' = "read"
  /\ UNCHANGED <<mode, signed, arg, out, rests, count, shift, result, error>>

\* The caller encodes what it decoded.
EncodeAgain ==
  /\ pc = "accepted" /\ mode = "foreign"
  /\ arg' = result
  /\ pc' = "encode"
  /\ UNCHANGED <<mode, signed, value, out, rests, decodeVars>>

-----------------------------------------------------------------------------
Available == offset < Len(buffer)
Here == buffer[offset + 1]
\* Mutant: the limit is tested one byte late.
AtLimit_OneLate == count = MaxCount
AtLimit == count + 1 = MaxCount
TooLong == AtLimit /\ More(Here)
\* Mutant: >= for >.
Overflow_Inclusive == AtLimit /\ Data(Here) >= LastGroup
Overflow == AtLimit /\ Data(Here) > LastGroup
\* Mutant: a zero last group is accepted.
NonCanonical_Unchecked == ~More(Here) /\ FALSE
NonCanonical == ~More(Here) /\ count + 1 > 1 /\ Data(Here) = 0

Raise(reason) ==
  /\ pc' = "DecodeError"
  /\ error' = reason
  /\ UNCHANGED <<mode, signed, arg, value, out, rests, buffer, start, offset,
                 count, shift, result>>

\* Mutant: the decoder waits for bytes instead of refusing.
ReadNothing_Wait == pc = "read" /\ ~Available /\ UNCHANGED vars
ReadNothing == pc = "read" /\ ~Available /\ Raise("truncated")
ReadTooLong == pc = "read" /\ Available /\ TooLong /\ Raise("too long")
ReadOverflow ==
  pc = "read" /\ Available /\ ~TooLong /\ Overflow /\ Raise("overflow")
ReadNonCanonical ==
  /\ pc = "read" /\ Available /\ ~TooLong /\ ~Overflow /\ NonCanonical
  /\ Raise("non-canonical")

\* The byte passes the checks: take its data.
Take ==
  /\ pc = "read" /\ Available
  /\ ~TooLong /\ ~Overflow /\ ~NonCanonical
  /\ value' = value + Data(Here) * Weight[shift]
  /\ offset' = offset + 1
  /\ count' = count + 1

ReadMore ==
  /\ Take
  /\ More(Here)
  /\ shift' = shift + 1
  /\ UNCHANGED <<mode, signed, pc, arg, out, rests, buffer, start, result,
                 error>>

ReadLast ==
  /\ Take
  /\ ~More(Here)
  /\ result' = IF signed THEN UnZigZag(value') ELSE value'
  /\ pc' = "accepted"
  /\ UNCHANGED <<mode, signed, arg, out, rests, buffer, start, shift, error>>

Next ==
  \/ EncodeRefused \/ EncodeCall \/ WriteByte
  \/ DecodeCall
  \/ ReadNothing \/ ReadTooLong \/ ReadOverflow \/ ReadNonCanonical
  \/ ReadMore \/ ReadLast
  \/ EncodeAgain

Spec == Init /\ [][Next]_vars

\* One thread runs the loops and nothing blocks it.
FairSpec == Spec /\ WF_vars(Next)

-----------------------------------------------------------------------------
\* The types of the variables, in every state of encode and decode.
TypeOK ==
  /\ mode \in {"own", "foreign"}
  /\ signed \in BOOLEAN
  /\ pc \in {"encode", "EncodeError", "write", "written", "read",
             "DecodeError", "accepted"}
  /\ arg \in Int /\ result \in Int
  /\ value \in Nat
  /\ out \in Seq(Byte) /\ buffer \in Seq(Byte)
  /\ rests \in Seq(Nat)
  /\ start \in Nat /\ offset \in Nat
  /\ count \in 0..MaxCount
  /\ shift \in 0..(MaxCount - 1)
  /\ error \in Errors

\* VarUIntCodec.decode and VarIntCodec.decode read back the number encode was
\* given, and return the offset right after its bytes, whatever bytes stand
\* around them; they never refuse bytes encode wrote.
RoundTrip ==
  mode = "own" =>
    /\ pc # "DecodeError"
    /\ pc = "accepted" => result = arg /\ offset = start + Len(out)

\* The docstrings' ranges: encode raises EncodeError exactly outside
\* 0 .. 2**64 - 1 and -2**63 .. 2**63 - 1, so ZigZag loses neither end.
InRange(n) ==
  IF signed
  THEN n >= -((MaxValue + 1) \div 2) /\ n <= MaxValue \div 2
  ELSE n >= 0 /\ n <= MaxValue

RangeExact ==
  /\ pc = "EncodeError" => ~InRange(arg)
  /\ pc \in {"write", "written"} => InRange(arg)

\* "Canonical unsigned varint": a number has one representation only.  What
\* decode accepted from any buffer, encode writes back byte for byte; in
\* particular encode does not refuse a number decode returned.
Canonical ==
  mode = "foreign" =>
    /\ pc # "EncodeError"
    /\ pc = "written" => out = SubSeq(buffer, start + 1, offset)

\* encode never writes more than the MaxCount bytes decode is ready to read.
SizeBound == Len(out) <= MaxCount

\* Reference definition of the format, by recursion on the number.
Code[n \in 0..MaxValue] ==
  IF n < GroupBase
  THEN <<n>>
  ELSE <<(n % GroupBase) + GroupBase>> \o Code[n \div GroupBase]

StartsWith(s, prefix) ==
  Len(prefix) <= Len(s) /\ SubSeq(s, 1, Len(prefix)) = prefix

\* decode refuses a buffer only if no number's code stands at its start, and
\* says "truncated" only if more bytes could still have made one.
RefusalExact ==
  mode = "foreign" /\ pc = "DecodeError" =>
    /\ \A n \in 0..MaxValue : ~StartsWith(buffer, Code[n])
    /\ (error = "truncated") =
         \E n \in 0..MaxValue : StartsWith(Code[n], buffer)

\* Both loops end: every call returns or raises.
Finished ==
  \/ pc \in {"EncodeError", "DecodeError"}
  \/ mode = "own" /\ pc = "accepted"
  \/ mode = "foreign" /\ pc = "written"

Terminates == <>Finished

=============================================================================
