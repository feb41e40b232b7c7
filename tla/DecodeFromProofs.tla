-------------------------- MODULE DecodeFromProofs --------------------------
(***************************************************************************)
(* DecodeFrom's promises for every schema, buffer size and codec: the      *)
(* payload boundary holds whatever offsets the fields' codecs return.      *)
(***************************************************************************)
EXTENDS DecodeFrom, TLAPS

\* While the header is read nothing bounds the payload yet.
HeaderInv ==
  phase = "header" =>
    end = {} /\ args = << >> /\ start <= offset /\ offset <= input.size

\* Once it is read the bound is fixed and inside the buffer.
BoundInv ==
  phase \in {"fields", "returned"} =>
    /\ start <= body /\ body <= input.size
    /\ end = {body + n : n \in length}
    /\ \A n \in length : body + n <= input.size /\ offset <= body + n
    /\ input.lawful => start <= offset /\ offset <= input.size

\* One argument per field so far.
ArgsInv ==
  phase \in {"fields", "returned"} =>
    /\ Len(args) = at - 1
    /\ at <= Len(input.fields) + 1
    /\ \A i \in 1..Len(args) :
         (args[i] = "None") <=> (\E f \in input.fields[i] : f \notin flags)

IInv ==
  /\ TypeOK /\ HeaderInv /\ BoundInv /\ ArgsInv
  /\ phase = "idle" => offset <= input.size
  /\ phase = "returned" => /\ at > Len(input.fields)
                           /\ \A n \in length : offset = body + n

LEMMA InputType ==
  ASSUME TypeOK
  PROVE  /\ input.size \in Nat /\ input.lawful \in BOOLEAN
         /\ Len(input.header) \in Nat /\ Len(input.fields) \in Nat
BY InputAssumption DEF TypeOK, Input

\* The end of what a field's codec sees.
LEMMA ViewIs ==
  /\ end = {} => View = input.size
  /\ \A e : end = {e} => View = e
<1>1. ASSUME NEW e, end = {e} PROVE View = e
  <2>1. (CHOOSE x \in {e} : TRUE) = e
    OBVIOUS
  <2> QED BY <1>1, <2>1 DEF View
<1> QED BY <1>1 DEF View

\* Either there is no bound, or it is the declared one.
LEMMA BoundIs ==
  ASSUME TypeOK, BoundInv, phase \in {"fields", "returned"}
  PROVE  \/ length = {} /\ end = {} /\ View = input.size
         \/ \E n \in Nat : /\ length = {n} /\ end = {body + n}
                           /\ View = body + n /\ body + n <= input.size
<1>1. CASE length = {}
  BY <1>1, ViewIs DEF BoundInv
<1>2. CASE length # {}
  <2>1. PICK n \in Nat : length = {n}
    <3>1. PICK n \in length : TRUE
      BY <1>2
    <3>2. \A k \in length : k = n
      BY <3>1 DEF TypeOK, AtMostOne
    <3>3. length = {n}
      BY <3>1, <3>2
    <3> QED BY <3>1, <3>3 DEF TypeOK
  <2>2. end = {body + n}
    BY <2>1 DEF BoundInv
  <2>3. body + n <= input.size
    BY <2>1 DEF BoundInv
  <2> QED BY <2>1, <2>2, <2>3, ViewIs
<1> QED BY <1>1, <1>2

LEMMA InitIInv == ASSUME Init PROVE IInv
BY InputAssumption
DEF Init, IInv, TypeOK, AtMostOne, HeaderInv, BoundInv, ArgsInv, Input

\* An exception leaves the locals as they are.
LEMMA RaiseIInv == ASSUME IInv, Raise PROVE IInv'
BY DEF Raise, IInv, TypeOK, AtMostOne, HeaderInv, BoundInv, ArgsInv

LEMMA NextIInv == ASSUME IInv, [Next]_vars PROVE IInv'
<1> USE DEF IInv
<1>0. /\ input.size \in Nat /\ Len(input.header) \in Nat
      /\ Len(input.fields) \in Nat
  BY InputType
<1>1. CASE Call
  <2>1. offset \in Int /\ offset <= input.size
    BY <1>0, <1>1 DEF Call, TypeOK
  <2> QED
    BY <1>1, <2>1
    DEF Call, TypeOK, AtMostOne, HeaderInv, BoundInv, ArgsInv
<1>2. CASE SkipElement
  BY <1>2 DEF SkipElement, InHeader, TypeOK, AtMostOne, HeaderInv, BoundInv,
              ArgsInv
<1>3. CASE ReadElement
  <2>1. /\ phase = "header" /\ phase' = "header" /\ input' = input
        /\ start' = start /\ body' = body /\ end' = end /\ args' = args
        /\ offset' \in (offset + 1)..input.size /\ at' = at + 1
    BY <1>3 DEF ReadElement, InHeader
  <2>2. length' \in SUBSET Nat /\ AtMostOne(length)'
    <3>1. CASE Element = "PayloadLength"
      <4>1. PICK n \in Lengths : length' = {n}
        BY <1>3, <3>1 DEF ReadElement
      <4> QED BY <4>1, DecodeAssumption DEF AtMostOne
    <3>2. CASE Element # "PayloadLength"
      <4>1. length' = length
        BY <1>3, <3>2 DEF ReadElement
      <4> QED BY <4>1 DEF TypeOK, AtMostOne
    <3> QED BY <3>1, <3>2
  <2>3. flags' \in SUBSET Nat
    BY <1>3, DecodeAssumption DEF ReadElement, TypeOK
  <2>4. offset' \in Int /\ offset < offset' /\ offset' <= input.size
    BY <1>0, <2>1 DEF TypeOK
  <2>5. TypeOK'
    BY <2>1, <2>2, <2>3, <2>4 DEF TypeOK, AtMostOne
  <2>6. HeaderInv'
    BY <1>0, <2>1, <2>4 DEF HeaderInv, TypeOK
  <2> QED BY <2>1, <2>5, <2>6 DEF BoundInv, ArgsInv
<1>4. CASE EnterPayload
  <2>1. /\ phase = "header" /\ phase' = "fields" /\ at' = 1 /\ body' = offset
        /\ end' = {offset + n : n \in length}
        /\ \A n \in length : offset + n <= input.size
        /\ UNCHANGED <<input, start, offset, length, flags, args>>
    BY <1>4 DEF EnterPayload
  <2>2. args = << >> /\ start <= offset /\ offset <= input.size
    BY <2>1 DEF HeaderInv
  <2>3. TypeOK'
    BY <2>1 DEF TypeOK, AtMostOne
  <2>4. \A n \in length : offset <= offset + n
    BY DEF TypeOK
  <2>5. BoundInv'
    BY <2>1, <2>2, <2>4 DEF BoundInv
  <2>6. ArgsInv'
    BY <1>0, <2>1, <2>2 DEF ArgsInv
  <2> QED BY <2>1, <2>3, <2>5, <2>6 DEF HeaderInv
<1>5. ASSUME NEW arg \in {"None", "value"},
             InFields, args' = Append(args, arg), at' = at + 1,
             (arg = "None") <=> Absent,
             UNCHANGED <<input, flags, phase>>
      PROVE  ArgsInv' /\ args' \in Seq({"None", "value"})
  <2>1. /\ phase = "fields" /\ at <= Len(input.fields)
        /\ args \in Seq({"None", "value"}) /\ at \in Nat \ {0}
        /\ Len(args) = at - 1
    BY <1>5 DEF InFields, ArgsInv, TypeOK
  <2>2. /\ Len(args') = at /\ args'[at] = arg
        /\ \A i \in 1..Len(args) : args'[i] = args[i]
    BY <1>5, <2>1
  <2>3. \A i \in 1..at :
          (args'[i] = "None") <=> (\E f \in input.fields[i] : f \notin flags)
    BY <1>5, <2>1, <2>2 DEF ArgsInv, Absent
  <2> QED BY <1>0, <1>5, <2>1, <2>2, <2>3 DEF ArgsInv
<1>6. CASE SkipField
  <2>1. /\ ArgsInv' /\ args' \in Seq({"None", "value"})
        /\ phase = "fields"
        /\ at' = at + 1
        /\ UNCHANGED <<input, phase, start, offset, length, flags, body, end>>
    BY <1>5, <1>6 DEF SkipField, InFields
  <2> QED BY <2>1 DEF TypeOK, AtMostOne, HeaderInv, BoundInv
<1>7. CASE DecodeField
  <2>1. /\ ArgsInv' /\ args' \in Seq({"None", "value"})
        /\ phase = "fields"
        /\ at' = at + 1 /\ offset' \in Returns
        /\ Contract(offset') /\ ~PastEnd(offset')
        /\ UNCHANGED <<input, phase, start, length, flags, body, end>>
    BY <1>5, <1>7 DEF DecodeField, InFields
  <2>2. offset' \in Int
    BY <2>1, DecodeAssumption
  <2>3. TypeOK'
    BY <2>1, <2>2 DEF TypeOK, AtMostOne
  <2>4. \A n \in length : offset' <= body + n
    BY <2>1, <2>2 DEF PastEnd, BoundInv, TypeOK
  <2>5. input.lawful => start <= offset' /\ offset' <= input.size
    <3>1. SUFFICES ASSUME input.lawful
                   PROVE  start <= offset' /\ offset' <= input.size
      OBVIOUS
    <3>2. offset' >= offset /\ offset' <= View /\ start <= offset
      BY <2>1, <3>1 DEF Contract, BoundInv
    <3>3. View \in Int /\ View <= input.size
      BY <1>0, <2>1, BoundIs DEF TypeOK
    <3> QED BY <1>0, <2>2, <3>2, <3>3 DEF TypeOK
  <2>6. BoundInv'
    BY <2>1, <2>4, <2>5 DEF BoundInv
  <2> QED BY <2>1, <2>3, <2>6 DEF HeaderInv
<1>8. CASE Return
  <2>1. /\ phase = "fields" /\ at > Len(input.fields)
        /\ phase' = "returned"
        /\ offset' = (IF end = {} THEN offset ELSE View)
        /\ UNCHANGED <<input, at, start, length, flags, body, end, args>>
    BY <1>8 DEF Return
  <2>2. /\ offset' \in Int
        /\ \A n \in length : offset' = body + n /\ body + n <= input.size
        /\ input.lawful => start <= offset' /\ offset' <= input.size
    <3>1. CASE length = {} /\ end = {}
      BY <2>1, <3>1 DEF BoundInv, TypeOK
    <3>2. ASSUME NEW n \in Nat, length = {n}, end = {body + n},
                 View = body + n, body + n <= input.size
          PROVE  /\ offset' \in Int
                 /\ \A k \in length : offset' = body + k /\ body + k <= input.size
                 /\ input.lawful => start <= offset' /\ offset' <= input.size
      BY <1>0, <2>1, <3>2 DEF BoundInv, TypeOK
    <3> QED BY <2>1, <3>1, <3>2, BoundIs
  <2>3. TypeOK'
    BY <2>1, <2>2 DEF TypeOK, AtMostOne
  <2>4. BoundInv'
    <3>1. /\ start <= body /\ body <= input.size
          /\ end = {body + n : n \in length}
      BY <2>1 DEF BoundInv
    <3>2. \A n \in length : body + n \in Int
      BY DEF TypeOK
    <3>3. \A n \in length : offset' <= body + n
      BY <2>2, <3>2
    <3> QED BY <2>1, <2>2, <3>1, <3>3 DEF BoundInv
  <2>5. ArgsInv'
    BY <2>1 DEF ArgsInv
  <2> QED BY <2>1, <2>2, <2>3, <2>4, <2>5 DEF HeaderInv
<1>10. CASE NewBuffer
  BY <1>10, InputAssumption
  DEF NewBuffer, TypeOK, AtMostOne, HeaderInv, BoundInv, ArgsInv, Input
<1>11. CASE MoreBytes
  <2>1. /\ input' \in Inputs /\ phase' = "idle" /\ at' = 1
        /\ start' = offset' /\ body' = offset' /\ offset' <= input'.size
        /\ length' = {} /\ flags' = {} /\ end' = {} /\ args' = << >>
    BY <1>11 DEF MoreBytes
  <2>2. offset' \in Int
    BY <1>11 DEF MoreBytes, TypeOK
  <2> QED
    BY <2>1, <2>2 DEF TypeOK, AtMostOne, HeaderInv, BoundInv, ArgsInv
<1>9. CASE UNCHANGED vars
  BY <1>9 DEF vars, TypeOK, AtMostOne, HeaderInv, BoundInv, ArgsInv
<1> QED
  BY <1>1, <1>2, <1>3, <1>4, <1>6, <1>7, <1>8, <1>9, <1>10, <1>11,
     RaiseIInv
  DEF Next, ElementRaises, PayloadMissing, FieldPastEnd, FieldRaises,
      ValidatorRaises

THEOREM Invariance == Spec => []IInv
<1>1. Init => IInv
  BY InitIInv
<1>2. IInv /\ [Next]_vars => IInv'
  BY NextIInv
<1> QED BY <1>1, <1>2, PTL DEF Spec

\* The locals of decode_from keep their types.
THEOREM TypeCorrect == Spec => []TypeOK
<1>1. IInv => TypeOK
  BY DEF IInv
<1> QED BY <1>1, Invariance, PTL

\* With a PayloadLength, the payload is inside the buffer and the message ends
\* where its header says, whatever the codecs of the fields return.
THEOREM FramedCorrect == Spec => []Framed
<1>1. IInv => Framed
  <2>1. SUFFICES ASSUME IInv, phase \in {"fields", "returned"},
                        NEW n \in length
                 PROVE  /\ end = {body + n}
                        /\ body + n <= input.size
                        /\ offset <= body + n
                        /\ phase = "returned" => offset = body + n
    BY DEF Framed
  <2>2. end = {body + n}
    BY <2>1, BoundIs DEF IInv
  <2> QED BY <2>1, <2>2 DEF IInv, BoundInv
<1> QED BY <1>1, Invariance, PTL

\* A decoded instance has an argument for each field of the schema, None
\* exactly where the optional field's bit is not set.
THEOREM CompleteCorrect == Spec => []Complete
<1>1. IInv => Complete
  <2>1. SUFFICES ASSUME IInv, phase = "returned" PROVE Complete
    BY DEF Complete
  <2>2. /\ Len(args) = Len(input.fields)
        /\ DOMAIN args = 1..Len(args)
    BY <2>1, InputType DEF IInv, ArgsInv, TypeOK
  <2>3. ASSUME NEW i \in DOMAIN args
        PROVE  (args[i] = "None") <=> (\E f \in input.fields[i] : f \notin flags)
    BY <2>1, <2>2 DEF IInv, ArgsInv
  <2> QED BY <2>2, <2>3 DEF Complete
<1> QED BY <1>1, Invariance, PTL

\* A message is inside the buffer and not before the one read before it, if
\* the codecs keep ICodec's contract or the header bounds the payload.
THEOREM InsideCorrect == Spec => []Inside
<1>1. IInv => Inside
  <2>1. SUFFICES ASSUME IInv, phase = "returned", input.lawful \/ length # {}
                 PROVE  start <= offset /\ offset <= input.size
    BY DEF Inside
  <2>2. CASE input.lawful
    BY <2>1, <2>2 DEF IInv, BoundInv
  <2>3. CASE length # {}
    <3>1. PICK n \in length : TRUE
      BY <2>3
    <3>2. /\ n \in Nat /\ offset = body + n /\ body + n <= input.size
          /\ start <= body
      BY <2>1, <3>1 DEF IInv, BoundInv, TypeOK
    <3> QED BY <2>1, <3>2 DEF IInv, TypeOK
  <2> QED BY <2>1, <2>2, <2>3
<1> QED BY <1>1, Invariance, PTL
=============================================================================
