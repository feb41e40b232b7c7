--------------------------- MODULE VarUIntProofs ---------------------------
(***************************************************************************)
(* For every group size, byte limit and set of arguments: what             *)
(* VarUIntCodec and VarIntCodec write they read back (VarUInt!RoundTrip),  *)
(* in at most MaxCount bytes; the encoder refuses exactly the numbers      *)
(* outside the documented ranges; what the decoder accepts is what the     *)
(* encoder writes (VarUInt!Canonical), and what it refuses is nothing that *)
(* the encoder could have written (VarUInt!RefusalExact).                  *)
(***************************************************************************)
EXTENDS VarUInt, Recursion, SequenceTheorems, TLAPS

-----------------------------------------------------------------------------
(* Arithmetic.                                                             *)

LEMMA Division ==
  ASSUME NEW n \in Nat, NEW g \in Nat, g > 1
  PROVE  /\ n = g * (n \div g) + (n % g)
         /\ n % g \in 0..(g - 1)
         /\ n \div g \in Nat
<1>1. n % g \in 0..(g - 1) /\ n = g * (n \div g) + (n % g)
  OBVIOUS
<1>2. n \div g \in Int /\ n \div g >= 0
  OBVIOUS
<1> QED BY <1>1, <1>2

LEMMA Distribute ==
  ASSUME NEW a \in Nat, NEW b \in Nat, NEW w \in Nat
  PROVE  (a + b) * w = a * w + b * w /\ a * w \in Nat /\ b * w \in Nat
OBVIOUS

\* value & 0x7F and value >>= 7 split a number into a group and the rest.
LEMMA GroupSplit ==
  ASSUME NEW n \in Nat
  PROVE  /\ n = GroupBase * (n \div GroupBase) + (n % GroupBase)
         /\ n % GroupBase \in 0..(GroupBase - 1)
         /\ n \div GroupBase \in Nat
<1>1. GroupBase \in Nat /\ GroupBase > 1
  BY VarUIntAssumption
<1> QED BY <1>1, Division

\* The continuation bit and the data of the byte encode appends.
LEMMA ByteParts ==
  ASSUME NEW d \in 0..(GroupBase - 1)
  PROVE  /\ d \in Byte /\ ~More(d) /\ Data(d) = d
         /\ d + GroupBase \in Byte /\ More(d + GroupBase)
         /\ Data(d + GroupBase) = d
BY VarUIntAssumption DEF Byte, More, Data

LEMMA DataType ==
  ASSUME NEW b \in Byte
  PROVE  Data(b) \in 0..(GroupBase - 1)
BY VarUIntAssumption DEF Byte, More, Data

LEMMA MaxValueType == MaxValue \in Nat
<1>1. /\ MaxCount - 1 \in 0..MaxCount
      /\ Weight[MaxCount - 1] \in Nat \ {0}
      /\ LastGroup \in Nat
  BY VarUIntAssumption
<1>2. \A w \in Nat \ {0}, l \in Nat : (l + 1) * w - 1 \in Nat
  <2>1. SUFFICES ASSUME NEW w \in Nat \ {0}, NEW l \in Nat
                 PROVE  (l + 1) * w - 1 \in Nat
    OBVIOUS
  <2>2. (l + 1) * w = l * w + w /\ l * w \in Nat
    OBVIOUS
  <2> QED BY <2>2
<1> QED BY <1>1, <1>2 DEF MaxValue

\* A number not above MaxValue leaves at most LastGroup for the last byte.
LEMMA LastRest ==
  ASSUME NEW r \in Nat, r * Weight[MaxCount - 1] <= MaxValue
  PROVE  r <= LastGroup
<1> DEFINE w == Weight[MaxCount - 1]
<1>1. w \in Nat \ {0} /\ LastGroup \in Nat
  BY VarUIntAssumption
<1>2. ASSUME r >= LastGroup + 1 PROVE FALSE
  <2>1. PICK k \in Nat : r = LastGroup + 1 + k
    <3>1. r - (LastGroup + 1) \in Nat /\ r = LastGroup + 1 + (r - (LastGroup + 1))
      BY <1>1, <1>2
    <3> QED BY <3>1
  <2>2. /\ r * w = (LastGroup + 1) * w + k * w
        /\ k * w \in Nat /\ (LastGroup + 1) * w \in Nat
    <3>1. LastGroup + 1 \in Nat /\ w \in Nat
      BY <1>1
    <3> HIDE DEF w
    <3> QED BY <2>1, <3>1, Distribute
  <2> QED BY <2>2 DEF MaxValue
<1> QED BY <1>1, <1>2

\* VarIntCodec: ZigZag is a bijection from Int to Nat and UnZigZag undoes it.
THEOREM ZigZagInverse ==
  /\ \A n \in Int : ZigZag(n) \in Nat /\ UnZigZag(ZigZag(n)) = n
  /\ \A u \in Nat : UnZigZag(u) \in Int /\ ZigZag(UnZigZag(u)) = u
BY DEF ZigZag, UnZigZag

\* The only step of the reader that multiplies: taking a group of data.
LEMMA TakeGroup ==
  ASSUME NEW v \in Nat, NEW d \in Nat, NEW w \in Nat, NEW g \in Nat,
         NEW r \in Nat, NEW n \in Nat,
         v + (g * r + d) * w = n
  PROVE  (v + d * w) + r * (g * w) = n
<1>1. (g * r + d) * w = (g * r) * w + d * w
  OBVIOUS
<1>2. (g * r) * w = r * (g * w)
  OBVIOUS
<1> QED BY <1>1, <1>2

\* What is left after a byte, shifted back, is not above what was there.
LEMMA RestShrinks ==
  ASSUME NEW g \in Nat, NEW r \in Nat, NEW d \in Nat, NEW w \in Nat,
         NEW m \in Nat, (g * r + d) * w <= m
  PROVE  r * (g * w) <= m
<1>1. (g * r + d) * w = (g * r) * w + d * w /\ d * w \in Nat
  OBVIOUS
<1>2. (g * r) * w = r * (g * w) /\ (g * r) * w \in Nat
  OBVIOUS
<1> QED BY <1>1, <1>2

-----------------------------------------------------------------------------
(* The inductive invariant.                                                *)

\* Before encode has begun nothing is written.
Blank ==
  pc \in {"encode", "EncodeError"}
    \/ (mode = "foreign" /\ pc \notin {"write", "written"}) =>
      out = << >> /\ rests = << >>

\* What encode's loop has established: rests chains the bytes together, so
\* that a reader can retrace it.
Chain ==
  /\ Len(rests) = Len(out) + 1
  /\ Len(out) <= MaxCount
  /\ Number \in Nat /\ Number <= MaxValue
  /\ rests[1] = Number
  /\ \A i \in 1..Len(out) :
       /\ rests[i] = GroupBase * rests[i + 1] + Data(out[i])
       /\ More(out[i]) <=> (rests[i + 1] # 0)
       /\ i > 1 => rests[i] # 0
  /\ \A i \in 1..Len(rests) : rests[i] * Weight[i - 1] <= MaxValue

Writing ==
  pc = "write" => /\ Chain
                  /\ value = rests[Len(rests)]
                  /\ Len(out) < MaxCount
                  /\ Len(out) > 0 => value # 0

Written ==
  pc = "written" \/ (mode = "own" /\ pc \in {"read", "accepted"}) =>
    /\ Chain
    /\ Len(out) > 0
    /\ rests[Len(out) + 1] = 0

\* Where encode's bytes stand in the buffer, and what is still to be added to
\* the decoder's value.
Reading ==
  mode = "own" /\ pc = "read" =>
    /\ start + Len(out) <= Len(buffer)
    /\ \A i \in 1..Len(out) : buffer[start + i] = out[i]
    /\ offset = start + count
    /\ count < Len(out)
    /\ value + rests[count + 1] * Weight[count] = Number

Locals ==
  /\ pc = "read" => shift = count /\ count < MaxCount
  /\ mode = "own" /\ pc \in {"encode", "write", "written"} =>
       count = 0 /\ shift = 0
  /\ pc = "EncodeError" => Number < 0 \/ Number > MaxValue

IInv == TypeOK /\ Blank /\ Writing /\ Written /\ Reading /\ Locals /\ RoundTrip

-----------------------------------------------------------------------------
LEMMA ConstantTypes ==
  /\ GroupBase \in Nat /\ GroupBase > 1
  /\ MaxCount \in Nat /\ MaxCount > 1
  /\ LastGroup \in Nat /\ LastGroup < GroupBase
  /\ Weight[0] = 1
  /\ \A i \in 0..MaxCount : Weight[i] \in Nat
  /\ \A i \in 0..(MaxCount - 1) : Weight[i + 1] = GroupBase * Weight[i]
BY VarUIntAssumption

LEMMA NumberType == ASSUME TypeOK PROVE Number \in Int
BY DEF TypeOK, Number, ZigZag

LEMMA ZigZagInt ==
  /\ \A n \in Int : ZigZag(n) \in Int
  /\ \A u \in Nat : UnZigZag(u) \in Int
BY ZigZagInverse

\* encode's bytes keep their place in the buffer they are put into.
LEMMA Placed ==
  ASSUME NEW b \in Seq(Byte), NEW m \in Seq(Byte), NEW a \in Seq(Byte)
  PROVE  /\ b \o m \o a \in Seq(Byte)
         /\ Len(b) \in Nat
         /\ Len(b) + Len(m) <= Len(b \o m \o a)
         /\ \A i \in 1..Len(m) : (b \o m \o a)[Len(b) + i] = m[i]
<1>1. /\ b \o m \in Seq(Byte) /\ b \o m \o a \in Seq(Byte)
      /\ Len(b \o m) = Len(b) + Len(m)
      /\ Len(b \o m \o a) = Len(b) + Len(m) + Len(a)
      /\ Len(b) \in Nat /\ Len(m) \in Nat /\ Len(a) \in Nat
  OBVIOUS
<1>2. ASSUME NEW i \in 1..Len(m)
      PROVE  (b \o m \o a)[Len(b) + i] = m[i]
  <2>1. (b \o m)[Len(b) + i] = m[i]
    BY <1>1
  <2>2. Len(b) + i \in 1..Len(b \o m)
    BY <1>1
  <2>3. (b \o m \o a)[Len(b) + i] = (b \o m)[Len(b) + i]
    BY <1>1, <2>2
  <2> QED BY <2>1, <2>3
<1> QED BY <1>1, <1>2

LEMMA InitIInv == ASSUME Init PROVE IInv
<1>1. TypeOK
  <2>1. 0 \in 0..MaxCount /\ 0 \in 0..(MaxCount - 1)
    BY ConstantTypes
  <2>2. arg \in Int /\ buffer \in Seq(Byte)
    <3>1. CASE mode = "own"
      <4>1. arg \in Args /\ buffer = << >>
        BY <3>1 DEF Init
      <4> QED BY <4>1, InputAssumption
    <3>2. CASE mode = "foreign"
      <4>1. arg = 0 /\ buffer \in Foreign
        BY <3>2 DEF Init
      <4> QED BY <4>1, InputAssumption
    <3> QED BY <3>1, <3>2 DEF Init
  <2> QED BY <2>1, <2>2 DEF Init, TypeOK, Errors
<1>2. Blank /\ Writing /\ Written /\ Reading /\ Locals /\ RoundTrip
  BY ConstantTypes
  DEF Init, Blank, Writing, Written, Reading, Locals, RoundTrip
<1> QED BY <1>1, <1>2 DEF IInv

LEMMA NextIInv == ASSUME IInv, [Next]_vars PROVE IInv'
<1> USE DEF IInv, decodeVars
<1>1. CASE EncodeRefused
  <2>1. TypeOK'
    BY <1>1 DEF EncodeRefused, TypeOK
  <2>2. Number' = Number
    BY <1>1 DEF EncodeRefused, Number
  <2>3. Blank' /\ Writing' /\ Written' /\ Reading' /\ RoundTrip'
    BY <1>1
    DEF EncodeRefused, Blank, Writing, Written, Reading, RoundTrip
  <2>4. Locals'
    BY <1>1, <2>2 DEF EncodeRefused, Locals
  <2> QED BY <2>1, <2>3, <2>4
<1>2. CASE EncodeCall
  <2>1. Number' = Number /\ Number \in Nat
    BY <1>2, NumberType DEF EncodeCall, Number
  <2>2. TypeOK'
    BY <1>2, <2>1 DEF EncodeCall, TypeOK
  <2>3. out = << >>
    BY <1>2 DEF EncodeCall, Blank
  <2>4. Chain'
    <3>1. /\ rests' = <<Number>> /\ out' = << >>
          /\ Len(rests') = 1 /\ Len(out') = 0 /\ rests'[1] = Number
      BY <1>2, <2>3 DEF EncodeCall
    <3>2. Number * Weight[1 - 1] <= MaxValue
      BY <1>2, <2>1, ConstantTypes, MaxValueType DEF EncodeCall
    <3> QED BY <1>2, <2>1, <3>1, <3>2, ConstantTypes DEF EncodeCall, Chain
  <2>5. Writing'
    BY <1>2, <2>3, <2>4, ConstantTypes DEF EncodeCall, Writing
  <2>6. Blank' /\ Written' /\ Reading' /\ Locals' /\ RoundTrip'
    BY <1>2 DEF EncodeCall, Blank, Written, Reading, Locals, RoundTrip
  <2> QED BY <2>2, <2>5, <2>6
<1>3. CASE WriteByte
  <2> DEFINE k == Len(out)
             data == value % GroupBase
             rest == value \div GroupBase
             byte == IF rest # 0 THEN data + GroupBase ELSE data
  <2>1. /\ value \in Nat /\ out \in Seq(Byte) /\ rests \in Seq(Nat)
        /\ k \in Nat
    BY DEF TypeOK
  <2>2. /\ value = GroupBase * rest + data
        /\ data \in 0..(GroupBase - 1) /\ data \in Nat /\ rest \in Nat
    <3>1. /\ value = GroupBase * rest + data
          /\ data \in 0..(GroupBase - 1) /\ rest \in Nat
      BY <2>1, GroupSplit
    <3> HIDE DEF data, rest
    <3> QED BY <3>1, ConstantTypes
  <2> HIDE DEF data, rest
  <2>3. byte \in Byte /\ Data(byte) = data /\ (More(byte) <=> rest # 0)
    <3>1. CASE rest = 0
      BY <2>2, <3>1, ByteParts
    <3>2. CASE rest # 0
      BY <2>2, <3>2, ByteParts
    <3> QED BY <3>1, <3>2
  <2> HIDE DEF data, rest, byte
  <2>4. /\ out' = Append(out, byte) /\ rests' = Append(rests, rest)
        /\ value' = rest
        /\ pc' = IF rest # 0 THEN "write" ELSE "written"
        /\ UNCHANGED <<mode, signed, arg, decodeVars>>
    BY <1>3 DEF WriteByte, data, rest, byte
  <2>5. TypeOK'
    BY <2>1, <2>2, <2>3, <2>4 DEF TypeOK
  <2>6. /\ Chain /\ value = rests[k + 1] /\ k < MaxCount
        /\ k > 0 => value # 0
    BY <1>3 DEF WriteByte, Writing, Chain
  <2>7. /\ Len(out') = k + 1 /\ Len(rests') = k + 2
        /\ \A i \in 1..k : out'[i] = out[i]
        /\ out'[k + 1] = byte
        /\ \A i \in 1..(k + 1) : rests'[i] = rests[i]
        /\ rests'[k + 2] = rest
    BY <2>1, <2>4, <2>6 DEF Chain
  <2>8. Number' = Number
    BY <2>4 DEF Number
  <2>9. rest * Weight[k + 1] <= MaxValue
    <3>1. /\ (GroupBase * rest + data) * Weight[k] <= MaxValue
          /\ Weight[k + 1] = GroupBase * Weight[k] /\ Weight[k] \in Nat
      <4>1. k + 1 \in 1..Len(rests) /\ (k + 1) - 1 = k /\ k \in 0..(MaxCount - 1)
            /\ k \in 0..MaxCount
        BY <2>1, <2>6, ConstantTypes DEF Chain
      <4> HIDE DEF k
      <4> QED BY <2>2, <2>6, <4>1, ConstantTypes DEF Chain
    <3> HIDE DEF k
    <3> QED BY <2>2, <3>1, RestShrinks, ConstantTypes, MaxValueType
  <2>10. Chain'
    <3>1. /\ \A i \in 1..Len(out') :
               /\ rests'[i] = GroupBase * rests'[i + 1] + Data(out'[i])
               /\ More(out'[i]) <=> (rests'[i + 1] # 0)
               /\ i > 1 => rests'[i] # 0
      <4>1. SUFFICES ASSUME NEW i \in 1..(k + 1)
                     PROVE  /\ rests'[i] = GroupBase * rests'[i + 1] + Data(out'[i])
                            /\ More(out'[i]) <=> (rests'[i + 1] # 0)
                            /\ i > 1 => rests'[i] # 0
        BY <2>7
      <4>2. CASE i \in 1..k
        <5>1. i + 1 \in 1..(k + 1) /\ i \in 1..(k + 1)
          BY <2>1, <4>2
        <5> QED BY <2>6, <2>7, <4>2, <5>1 DEF Chain
      <4>3. CASE i = k + 1
        <5>1. /\ rests'[i] = value /\ rests'[i + 1] = rest /\ out'[i] = byte
              /\ i > 1 => value # 0
          BY <2>1, <2>6, <2>7, <4>3
        <5> QED BY <2>2, <2>3, <5>1
      <4> QED BY <2>1, <4>2, <4>3
    <3>2. \A i \in 1..Len(rests') : rests'[i] * Weight[i - 1] <= MaxValue
      <4>1. SUFFICES ASSUME NEW i \in 1..(k + 2)
                     PROVE  rests'[i] * Weight[i - 1] <= MaxValue
        BY <2>7
      <4>2. CASE i \in 1..(k + 1)
        BY <2>6, <2>7, <4>2 DEF Chain
      <4>3. CASE i = k + 2
        <5>1. rests'[i] = rest /\ i - 1 = k + 1
          BY <2>1, <2>7, <4>3
        <5> QED BY <2>9, <5>1
      <4> QED BY <2>1, <4>2, <4>3
    <3>3. /\ Len(rests') = Len(out') + 1 /\ Len(out') <= MaxCount
          /\ Number' \in Nat /\ Number' <= MaxValue
          /\ rests'[1] = Number'
      BY <2>1, <2>6, <2>7, <2>8, ConstantTypes DEF Chain
    <3> QED BY <2>4, <3>1, <3>2, <3>3 DEF Chain
  <2>11. rest # 0 => k + 1 < MaxCount
    <3>1. ASSUME k + 1 = MaxCount PROVE rest = 0
      <4>1. value * Weight[MaxCount - 1] <= MaxValue
        <5>1. k + 1 \in 1..Len(rests) /\ (k + 1) - 1 = MaxCount - 1
          BY <2>1, <2>6, <3>1 DEF Chain
        <5> HIDE DEF k
        <5> QED BY <2>6, <5>1 DEF Chain
      <4>2. value <= LastGroup
        BY <2>1, <4>1, LastRest
      <4>3. value < GroupBase
        BY <2>1, <4>2, ConstantTypes
      <4>4. ASSUME rest >= 1 PROVE FALSE
        <5>1. GroupBase * rest >= GroupBase
          BY <2>2, <4>4, ConstantTypes
        <5> QED BY <2>1, <2>2, <4>3, <5>1, ConstantTypes
      <4> QED BY <2>2, <4>4
    <3> QED BY <2>1, <2>6, <3>1, ConstantTypes
  <2>12. Writing'
    BY <2>1, <2>2, <2>4, <2>7, <2>10, <2>11 DEF Writing
  <2>13. Written'
    BY <1>3, <2>1, <2>4, <2>7, <2>10 DEF Written, WriteByte
  <2>14. Blank' /\ Reading' /\ Locals' /\ RoundTrip'
    BY <1>3, <2>4 DEF WriteByte, Blank, Reading, Locals, RoundTrip
  <2> QED BY <2>5, <2>12, <2>13, <2>14
<1>4. CASE DecodeCall
  <2>1. PICK before \in Around, after \in Around :
          /\ buffer' = before \o out \o after
          /\ start' = Len(before) /\ offset' = Len(before)
    BY <1>4 DEF DecodeCall
  <2>2. before \in Seq(Byte) /\ after \in Seq(Byte) /\ out \in Seq(Byte)
    BY InputAssumption DEF TypeOK
  <2>3. /\ buffer' \in Seq(Byte)
        /\ Len(before) \in Nat
        /\ Len(before) + Len(out) <= Len(buffer')
        /\ \A i \in 1..Len(out) : buffer'[Len(before) + i] = out[i]
    <3>1. /\ before \o out \o after \in Seq(Byte)
          /\ Len(before) \in Nat
          /\ Len(before) + Len(out) <= Len(before \o out \o after)
          /\ \A i \in 1..Len(out) :
               (before \o out \o after)[Len(before) + i] = out[i]
      BY <2>2, Placed
    <3> QED BY <2>1, <3>1
  <2>4. /\ pc = "written" /\ mode = "own" /\ value' = 0 /\ pc' = "read"
        /\ UNCHANGED <<mode, signed, arg, out, rests, count, shift, result,
                       error>>
    BY <1>4 DEF DecodeCall
  <2>5. TypeOK'
    BY <2>1, <2>3, <2>4 DEF TypeOK
  <2>6. Chain /\ Len(out) > 0 /\ rests[Len(out) + 1] = 0 /\ count = 0 /\ shift = 0
    BY <2>4 DEF Written, Locals
  <2>7. Number' = Number
    BY <2>4 DEF Number
  <2>8. Chain' /\ Written'
    BY <2>4, <2>6, <2>7 DEF Chain, Written
  <2>9. Reading'
    <3>1. 0 + rests[0 + 1] * Weight[0] = Number
      BY <2>6, ConstantTypes DEF Chain
    <3> QED BY <2>1, <2>3, <2>4, <2>6, <2>7, <3>1 DEF Reading
  <2>10. Blank' /\ Writing' /\ Locals' /\ RoundTrip'
    BY <2>4, <2>6, ConstantTypes DEF Blank, Writing, Locals, RoundTrip
  <2> QED BY <2>5, <2>8, <2>9, <2>10
<1>5. ASSUME NEW reason \in Errors, Raise(reason), pc = "read", mode = "foreign"
      PROVE  IInv'
  <2>1. TypeOK'
    BY <1>5 DEF Raise, TypeOK
  <2>2. Blank' /\ Writing' /\ Written' /\ Reading' /\ Locals' /\ RoundTrip'
    BY <1>5 DEF Raise, Blank, Writing, Written, Reading, Locals, RoundTrip
  <2> QED BY <2>1, <2>2
\* In the bytes encode wrote there is always a byte to read, and it is one
\* that decode takes.
<1>6. ASSUME pc = "read", mode = "own"
      PROVE  /\ Available /\ ~TooLong /\ ~Overflow /\ ~NonCanonical
             /\ Here = out[count + 1]
             /\ count + 1 \in 1..Len(out)
             /\ rests[count + 1] = GroupBase * rests[count + 2] + Data(Here)
             /\ More(Here) <=> (rests[count + 2] # 0)
  <2>1. Chain /\ Len(out) > 0 /\ rests[Len(out) + 1] = 0
    BY <1>6 DEF Written
  <2>2. /\ count \in Nat /\ start \in Nat /\ Len(out) \in Nat /\ offset \in Nat
        /\ count < Len(out) /\ offset = start + count
        /\ start + Len(out) <= Len(buffer) /\ Len(buffer) \in Nat
        /\ \A i \in 1..Len(out) : buffer[start + i] = out[i]
    BY <1>6 DEF Reading, TypeOK
  <2> DEFINE j == count + 1
  <2>3. j \in 1..Len(out) /\ j + 1 = count + 2 /\ offset + 1 = start + j
    BY <2>2
  <2>4. Available
    BY <2>2 DEF Available
  <2>5. Here = out[j]
    BY <2>2, <2>3 DEF Here
  <2>6. /\ rests[j] = GroupBase * rests[j + 1] + Data(Here)
        /\ More(Here) <=> (rests[j + 1] # 0)
        /\ j > 1 => rests[j] # 0
    <3> HIDE DEF j
    <3> QED BY <2>1, <2>3, <2>5 DEF Chain
  <2>7. rests[j] \in Nat /\ rests[j + 1] \in Nat /\ Data(Here) \in Nat
    <3>1. Here \in Byte
      BY <2>3, <2>5 DEF TypeOK
    <3>2. j \in 1..Len(rests) /\ j + 1 \in 1..Len(rests)
      BY <2>1, <2>2 DEF Chain
    <3>3. \A i \in 1..Len(rests) : rests[i] \in Nat
      BY DEF TypeOK
    <3>4. Data(Here) \in Nat
      BY <3>1, DataType, ConstantTypes
    <3> HIDE DEF j
    <3> QED BY <3>2, <3>3, <3>4
  <2>8. ASSUME AtLimit PROVE ~More(Here) /\ Data(Here) <= LastGroup
    <3>1. j = MaxCount /\ Len(out) = MaxCount
      BY <2>1, <2>2, <2>8, ConstantTypes DEF AtLimit, Chain
    <3>2. rests[j + 1] = 0
      BY <2>1, <3>1
    <3>3. rests[j] * Weight[MaxCount - 1] <= MaxValue
      BY <2>1, <2>3, <3>1 DEF Chain
    <3>4. rests[j] <= LastGroup
      BY <2>7, <3>3, LastRest
    <3>5. rests[j] = Data(Here)
      <4>1. \A d \in Nat : GroupBase * 0 + d = d
        BY ConstantTypes
      <4> HIDE DEF j
      <4> QED BY <2>6, <2>7, <3>2, <4>1
    <3> QED BY <2>6, <3>2, <3>4, <3>5
  <2>9. ~NonCanonical
    <3>1. ASSUME ~More(Here), count + 1 > 1, Data(Here) = 0 PROVE FALSE
      <4>1. rests[j + 1] = 0
        BY <2>6, <3>1
      <4>2. rests[j] = 0
        <5> HIDE DEF j
        <5> QED BY <2>6, <2>7, <3>1, <4>1, ConstantTypes
      <4> QED BY <2>6, <3>1, <4>2
    <3> QED BY <3>1 DEF NonCanonical
  <2> QED
    BY <2>3, <2>4, <2>5, <2>6, <2>8, <2>9, ConstantTypes, <2>7
    DEF TooLong, Overflow
<1>7. CASE ReadNothing
  BY <1>5, <1>6, <1>7 DEF ReadNothing, TypeOK, Errors
<1>8. CASE ReadTooLong
  BY <1>5, <1>6, <1>8 DEF ReadTooLong, TypeOK, Errors
<1>9. CASE ReadOverflow
  BY <1>5, <1>6, <1>9 DEF ReadOverflow, TypeOK, Errors
<1>10. CASE ReadNonCanonical
  BY <1>5, <1>6, <1>10 DEF ReadNonCanonical, TypeOK, Errors
<1>11. ASSUME Take
       PROVE  /\ value' \in Nat /\ offset' \in Nat /\ count' \in 0..MaxCount
              /\ More(Here) => count' < MaxCount
              /\ shift = count /\ shift \in 0..(MaxCount - 1)
  <2>1. /\ pc = "read" /\ offset < Len(buffer) /\ ~TooLong
        /\ value' = value + Data(Here) * Weight[shift]
        /\ offset' = offset + 1 /\ count' = count + 1
    BY <1>11 DEF Take, Available
  <2>2. shift = count /\ count < MaxCount
    BY <2>1 DEF Locals
  <2>3. Here \in Byte
    BY <2>1 DEF Here, TypeOK
  <2>4. Data(Here) \in Nat /\ Weight[shift] \in Nat
    BY <2>2, <2>3, DataType, ConstantTypes DEF TypeOK
  <2>5. Data(Here) * Weight[shift] \in Nat
    BY <2>4
  <2>6. value' \in Nat /\ offset' \in Nat
    BY <2>1, <2>5 DEF TypeOK
  <2>7. More(Here) => count + 1 # MaxCount
    BY <2>1 DEF TooLong, AtLimit
  <2> QED BY <2>1, <2>2, <2>6, <2>7, ConstantTypes DEF TypeOK
\* What decode's value gains is what the rest of the number loses.
<1>12. ASSUME Take, mode = "own"
       PROVE  value' + rests[count + 2] * (GroupBase * Weight[count]) = Number
  <2>1. pc = "read" /\ shift = count
    BY <1>11, <1>12 DEF Take
  <2>2. value' = value + Data(Here) * Weight[count]
    BY <1>12, <2>1 DEF Take
  <2>3. /\ count + 1 \in 1..Len(out)
        /\ rests[count + 1] = GroupBase * rests[count + 2] + Data(Here)
        /\ Here = out[count + 1]
    BY <1>6, <1>12, <2>1
  <2>4. value + rests[count + 1] * Weight[count] = Number
    BY <1>12, <2>1 DEF Reading
  <2>5. /\ value \in Nat /\ Data(Here) \in Nat /\ Weight[count] \in Nat
        /\ rests[count + 2] \in Nat /\ Number \in Nat /\ GroupBase \in Nat
    <3>1. Chain
      BY <1>12, <2>1 DEF Written
    <3>2. count + 2 \in 1..Len(rests)
      BY <2>3, <3>1 DEF Chain, TypeOK
    <3>3. rests[count + 2] \in Nat /\ value \in Nat /\ Number \in Nat
      BY <3>1, <3>2 DEF TypeOK, Chain
    <3>4. Here \in Byte
      BY <2>3 DEF TypeOK
    <3>5. count \in 0..MaxCount
      BY DEF TypeOK
    <3> QED BY <3>3, <3>4, <3>5, DataType, ConstantTypes
  <2>6. value + (GroupBase * rests[count + 2] + Data(Here)) * Weight[count]
          = Number
    BY <2>3, <2>4
  <2> QED BY <2>2, <2>5, <2>6, TakeGroup
<1>13. CASE ReadMore
  <2>1. /\ Take /\ More(Here) /\ shift' = shift + 1 /\ pc = "read"
        /\ pc' = "read" /\ count' = count + 1 /\ offset' = offset + 1
        /\ UNCHANGED <<mode, signed, arg, out, rests, buffer, start, result,
                       error>>
    BY <1>13 DEF ReadMore, Take
  <2>2. /\ value' \in Nat /\ offset' \in Nat /\ count' \in 0..MaxCount
        /\ count' < MaxCount /\ shift = count /\ shift \in 0..(MaxCount - 1)
    BY <1>11, <2>1
  <2>3. shift' = count' /\ shift' \in 0..(MaxCount - 1)
    BY <2>1, <2>2, ConstantTypes
  <2>4. TypeOK'
    BY <2>1, <2>2, <2>3 DEF TypeOK
  <2>5. Number' = Number
    BY <2>1 DEF Number
  <2>6. Written'
    BY <2>1, <2>5 DEF Written, Chain
  <2>7. Reading'
    <3>1. SUFFICES ASSUME mode = "own" PROVE Reading'
      BY <2>1 DEF Reading
    <3>2. /\ start + Len(out) <= Len(buffer)
          /\ \A i \in 1..Len(out) : buffer[start + i] = out[i]
          /\ offset = start + count
      BY <2>1, <3>1 DEF Reading
    <3>3. /\ count + 1 \in 1..Len(out) /\ rests[count + 2] # 0
      BY <1>6, <2>1, <3>1
    <3>4. rests[Len(out) + 1] = 0 /\ Len(out) \in Nat /\ count \in Nat
          /\ start \in Nat
      BY <2>1, <3>1 DEF Written, TypeOK
    <3>5. count + 1 < Len(out)
      <4>1. count + 1 # Len(out)
        BY <3>3, <3>4
      <4> QED BY <3>3, <3>4, <4>1
    <3>6. offset' = start + (count + 1)
      BY <2>1, <3>2, <3>4
    <3>7. value' + rests[count + 2] * Weight[count + 1] = Number
      <4>1. Weight[count + 1] = GroupBase * Weight[count]
        BY <2>2, ConstantTypes
      <4> QED BY <1>12, <2>1, <3>1, <4>1
    <3>8. (count + 1) + 1 = count + 2
      BY <3>4
    <3> QED BY <2>1, <2>5, <3>2, <3>5, <3>6, <3>7, <3>8 DEF Reading
  <2>8. Blank' /\ Writing' /\ Locals' /\ RoundTrip'
    BY <2>1, <2>2, <2>3 DEF Blank, Writing, Locals, RoundTrip
  <2> QED BY <2>4, <2>6, <2>7, <2>8
<1>14. CASE ReadLast
  <2>1. /\ Take /\ ~More(Here) /\ pc = "read" /\ pc' = "accepted"
        /\ result' = (IF signed THEN UnZigZag(value') ELSE value')
        /\ count' = count + 1 /\ offset' = offset + 1
        /\ UNCHANGED <<mode, signed, arg, out, rests, buffer, start, shift,
                       error>>
    BY <1>14 DEF ReadLast, Take
  <2>2. value' \in Nat /\ offset' \in Nat /\ count' \in 0..MaxCount
    BY <1>11, <2>1
  <2>3. TypeOK'
    <3>1. result' \in Int
      BY <2>1, <2>2, ZigZagInt
    <3> QED BY <2>1, <2>2, <3>1 DEF TypeOK
  <2>4. Number' = Number
    BY <2>1 DEF Number
  <2>5. Written'
    BY <2>1, <2>4 DEF Written, Chain
  <2>6. RoundTrip'
    <3>1. SUFFICES ASSUME mode = "own"
                   PROVE  result' = arg /\ offset' = start + Len(out)
      BY <2>1 DEF RoundTrip
    <3>2. /\ count + 1 \in 1..Len(out) /\ rests[count + 2] = 0
          /\ count \in Nat /\ start \in Nat /\ Len(out) \in Nat
      BY <1>6, <2>1, <3>1 DEF TypeOK
    <3>3. Chain /\ rests[Len(out) + 1] = 0
      BY <2>1, <3>1 DEF Written
    <3>4. count + 1 = Len(out)
      <4>1. ASSUME count + 2 \in 1..Len(out) PROVE FALSE
        <5>1. (count + 2) > 1
          BY <3>2
        <5> QED BY <3>2, <3>3, <4>1, <5>1 DEF Chain
      <4> QED BY <3>2, <4>1
    <3>5. value' = Number
      <4>1. value' + 0 * (GroupBase * Weight[count]) = Number
        BY <1>12, <2>1, <3>1, <3>2
      <4>2. GroupBase \in Nat /\ Weight[count] \in Nat
        BY ConstantTypes DEF TypeOK
      <4>3. GroupBase * Weight[count] \in Nat
        BY <4>2
      <4> QED BY <2>2, <4>1, <4>3
    <3>6. result' = arg
      BY <2>1, <3>5, ZigZagInverse DEF Number, TypeOK
    <3>7. offset = start + count
      BY <2>1, <3>1 DEF Reading
    <3> QED BY <2>1, <3>2, <3>4, <3>6, <3>7
  <2>7. Blank' /\ Writing' /\ Reading' /\ Locals'
    BY <2>1 DEF Blank, Writing, Reading, Locals
  <2> QED BY <2>3, <2>5, <2>6, <2>7
<1>15. CASE EncodeAgain
  <2>1. /\ pc = "accepted" /\ mode = "foreign" /\ arg' = result
        /\ pc' = "encode"
        /\ UNCHANGED <<mode, signed, value, out, rests, decodeVars>>
    BY <1>15 DEF EncodeAgain
  <2>2. TypeOK'
    BY <2>1 DEF TypeOK
  <2> QED
    BY <2>1, <2>2
    DEF Blank, Writing, Written, Reading, Locals, RoundTrip
<1>16. CASE UNCHANGED vars
  BY <1>16
  DEF vars, TypeOK, Blank, Chain, Number, Writing, Written, Reading, Locals,
      RoundTrip
<1> QED
  BY <1>1, <1>2, <1>3, <1>4, <1>7, <1>8, <1>9, <1>10, <1>13, <1>14, <1>15,
     <1>16
  DEF Next

\* IInv holds in every state.
THEOREM Invariance == Spec => []IInv
<1>1. Init => IInv
  BY InitIInv
<1>2. IInv /\ [Next]_vars => IInv'
  BY NextIInv
<1> QED BY <1>1, <1>2, PTL DEF Spec

\* Every variable of encode and decode keeps its type; in particular decode's
\* "count" never passes the byte limit.
THEOREM TypeCorrect == Spec => []TypeOK
<1>1. IInv => TypeOK
  BY DEF IInv
<1> QED BY <1>1, Invariance, PTL

\* Whatever number of the documented range is written, with or without sign,
\* is read back, at the right end offset, in any surroundings.
THEOREM RoundTripCorrect == Spec => []RoundTrip
<1>1. IInv => RoundTrip
  BY DEF IInv
<1> QED BY <1>1, Invariance, PTL

\* encode never writes more bytes than decode is ready to read.
THEOREM SizeBoundCorrect == Spec => []SizeBound
<1>1. IInv => SizeBound
  <2>1. SUFFICES ASSUME IInv PROVE Len(out) <= MaxCount
    BY DEF SizeBound
  <2>2. CASE Chain
    BY <2>2 DEF Chain
  <2>3. CASE out = << >>
    BY <2>3, ConstantTypes
  <2> QED BY <2>1, <2>2, <2>3
    DEF IInv, Blank, Writing, Written, TypeOK, RoundTrip
<1> QED BY <1>1, Invariance, PTL

\* encode refuses a number exactly when it is outside the documented range,
\* so ZigZag loses neither end of the signed one.
THEOREM RangeCorrect == Spec => []RangeExact
<1>1. IInv => RangeExact
  <2>1. SUFFICES ASSUME IInv PROVE RangeExact
    OBVIOUS
  <2>2. MaxValue \in Nat /\ arg \in Int /\ signed \in BOOLEAN
    BY <2>1, MaxValueType DEF IInv, TypeOK
  <2> HIDE DEF MaxValue
  <2>3. InRange(arg) <=> (Number >= 0 /\ Number <= MaxValue)
    BY <2>2 DEF InRange, Number, ZigZag
  <2>4. pc = "EncodeError" => ~(Number >= 0 /\ Number <= MaxValue)
    BY <2>1, <2>2 DEF IInv, Locals, Number, ZigZag
  <2>5. pc \in {"write", "written"} => Number >= 0 /\ Number <= MaxValue
    BY <2>1 DEF IInv, Writing, Written, Chain
  <2> QED BY <2>3, <2>4, <2>5 DEF RangeExact
<1> QED BY <1>1, Invariance, PTL

-----------------------------------------------------------------------------
(* What decode accepts, encode writes.                                     *)

\* r[i] is what the groups from the i-th on stand for, if t stands for those
\* after the n-th.
Rests(r, n, t) ==
  /\ r \in [1..(n + 1) -> Nat] /\ r[n + 1] = t
  /\ \A i \in 1..n : r[i] = GroupBase * r[i + 1] + Data(buffer[i])

\* However the number goes on, decode's value is what it has read of it.
Peeled ==
  mode = "foreign" /\ pc = "read" =>
    /\ start = 0 /\ offset = count /\ count <= Len(buffer)
    /\ \A i \in 1..count : More(buffer[i])
    /\ value < Weight[count]
    /\ \A t \in Nat : \E r :
         /\ Rests(r, count, t)
         /\ r[1] = value + t * Weight[count]
         /\ t # 0 => \A i \in 1..(count + 1) : r[i] # 0

\* r, n: the bytes accepted are those of r[1].
Accepted(r, n) ==
  /\ Rests(r, n, 0)
  /\ n \in Nat \ {0} /\ start = 0 /\ offset = n /\ n <= Len(buffer)
  /\ \A i \in 1..n : More(buffer[i]) <=> i < n
  /\ \A i \in 2..n : r[i] # 0

Got ==
  mode = "foreign" /\ pc = "accepted" =>
    /\ result = IF signed THEN UnZigZag(value) ELSE value
    /\ value <= MaxValue
    /\ \E r, n : Accepted(r, n) /\ r[1] = value

Given ==
  mode = "foreign" /\ pc \in {"encode", "EncodeError"} =>
    /\ pc = "encode"
    /\ Number <= MaxValue /\ Number >= 0
    /\ \E r, n : Accepted(r, n) /\ r[1] = Number

\* encode is about to write the group that decode read at this place.
Rewriting ==
  mode = "foreign" /\ pc = "write" =>
    \E r, n :
      /\ Accepted(r, n)
      /\ Len(out) < n /\ value = r[Len(out) + 1]
      /\ \A i \in 1..Len(out) : out[i] = buffer[i]

Rewritten ==
  mode = "foreign" /\ pc = "written" =>
    /\ start = 0 /\ Len(out) = offset /\ offset <= Len(buffer)
    /\ \A i \in 1..Len(out) : out[i] = buffer[i]

CInv == Peeled /\ Got /\ Given /\ Rewriting /\ Rewritten

LEMMA DivMod ==
  ASSUME NEW n \in Nat, NEW g \in Nat, g > 1, NEW q \in Nat, NEW d \in 0..(g - 1),
         n = g * q + d
  PROVE  n \div g = q /\ n % g = d
<1>1. /\ n = g * (n \div g) + (n % g) /\ n % g \in 0..(g - 1) /\ n \div g \in Nat
  BY Division
<1>2. PICK p \in Nat : p = n \div g
  BY <1>1
<1>3. PICK e \in 0..(g - 1) : e = n % g
  BY <1>1
<1>4. g * p + e = g * q + d
  BY <1>1, <1>2, <1>3
<1>5. ~(p < q)
  <2> SUFFICES ASSUME p < q PROVE FALSE
    OBVIOUS
  <2>1. PICK k \in Nat : q = p + 1 + k
    <3>1. q - (p + 1) \in Nat /\ q = p + 1 + (q - (p + 1))
      OBVIOUS
    <3>2. QED BY <3>1
  <2>2. g * q = g * p + g + g * k /\ g * k \in Nat /\ g * p \in Nat
    BY <2>1
  <2>3. QED BY <1>4, <2>2
<1>6. ~(q < p)
  <2> SUFFICES ASSUME q < p PROVE FALSE
    OBVIOUS
  <2>1. PICK k \in Nat : p = q + 1 + k
    <3>1. p - (q + 1) \in Nat /\ p = q + 1 + (p - (q + 1))
      OBVIOUS
    <3>2. QED BY <3>1
  <2>2. g * p = g * q + g + g * k /\ g * k \in Nat /\ g * q \in Nat
    BY <2>1
  <2>3. QED BY <1>4, <2>2
<1>7. p = q
  BY <1>5, <1>6
<1>8. e = d
  <2>1. g * q \in Nat
    OBVIOUS
  <2>2. QED BY <1>4, <1>7, <2>1
<1>9. QED BY <1>2, <1>3, <1>7, <1>8

\* A weight is not above a later one.
LEMMA WeightGrows ==
  ASSUME NEW k \in 0..MaxCount
  PROVE  \A j \in Nat : k + j <= MaxCount => Weight[k] <= Weight[k + j]
<1> DEFINE P == {j \in Nat : k + j <= MaxCount => Weight[k] <= Weight[k + j]}
<1>1. 0 \in P
  BY ConstantTypes
<1>2. ASSUME NEW j \in Nat, j \in P PROVE j + 1 \in P
  <2> SUFFICES ASSUME k + (j + 1) <= MaxCount PROVE Weight[k] <= Weight[k + (j + 1)]
    OBVIOUS
  <2>1. Weight[k] <= Weight[k + j]
    BY <1>2, ConstantTypes
  <2>2. k + j \in 0..(MaxCount - 1) /\ (k + j) + 1 = k + (j + 1)
    BY <1>2, ConstantTypes
  <2>3. Weight[k + (j + 1)] = GroupBase * Weight[k + j] /\ Weight[k + j] \in Nat
    BY <2>2, ConstantTypes
  <2>4. PICK w \in Nat : w = Weight[k + j]
    BY <2>3
  <2>5. w <= GroupBase * w
    BY ConstantTypes
  <2>6. QED BY <2>1, <2>3, <2>4, <2>5, ConstantTypes
<1> HIDE DEF P
<1>3. Nat \subseteq P
  BY <1>1, <1>2, Counting
<1>4. QED BY <1>3 DEF P

LEMMA WeightAtMost ==
  ASSUME NEW k \in 0..(MaxCount - 1)
  PROVE  Weight[k] <= Weight[MaxCount - 1]
<1>1. PICK j \in Nat : k + j = MaxCount - 1
  <2>1. (MaxCount - 1) - k \in Nat /\ k + ((MaxCount - 1) - k) = MaxCount - 1
    BY ConstantTypes
  <2>2. QED BY <2>1
<1>2. k \in 0..MaxCount /\ k + j <= MaxCount
  BY <1>1, ConstantTypes
<1>3. Weight[k] <= Weight[k + j]
  BY <1>2, WeightGrows
<1>4. QED BY <1>1, <1>3

\* Read from the other end: one more group and the tail t instead of one tail.
LEMMA Longer ==
  ASSUME NEW r, NEW n \in Nat, NEW t \in Nat, NEW d \in Nat,
         Rests(r, n, GroupBase * t + d), d = Data(buffer[n + 1])
  PROVE  \E s : /\ Rests(s, n + 1, t)
                /\ \A i \in 1..(n + 1) : s[i] = r[i]
<1> DEFINE s == [i \in 1..(n + 2) |-> IF i = n + 2 THEN t ELSE r[i]]
<1>1. s \in [1..((n + 1) + 1) -> Nat] /\ s[(n + 1) + 1] = t
  BY DEF Rests
<1>2. \A i \in 1..(n + 1) : s[i] = r[i]
  OBVIOUS
<1>3. ASSUME NEW i \in 1..(n + 1)
      PROVE  s[i] = GroupBase * s[i + 1] + Data(buffer[i])
  <2>1. CASE i = n + 1
    <3>1. s[i] = GroupBase * t + d /\ s[i + 1] = t
      BY <2>1 DEF Rests
    <3>2. QED BY <2>1, <3>1
  <2>2. CASE i # n + 1
    <3>1. i \in 1..n /\ i + 1 \in 1..(n + 1)
      BY <2>2
    <3>2. s[i] = r[i] /\ s[i + 1] = r[i + 1]
      BY <3>1
    <3>3. QED BY <3>1, <3>2 DEF Rests
  <2>3. QED BY <2>1, <2>2
<1> HIDE DEF s
<1>4. Rests(s, n + 1, t)
  BY <1>1, <1>3 DEF Rests
<1>5. QED BY <1>2, <1>4

\* Taking a group from the tail.
LEMMA TakeTail ==
  ASSUME NEW v \in Nat, NEW d \in Nat, NEW w \in Nat, NEW g \in Nat, NEW t \in Nat
  PROVE  v + (g * t + d) * w = (v + d * w) + t * (g * w)
<1>1. (g * t + d) * w = (g * t) * w + d * w
  OBVIOUS
<1>2. (g * t) * w = t * (g * w)
  OBVIOUS
<1>3. QED BY <1>1, <1>2

\* A number with d in its last group is below the next group's weight.
LEMMA Below ==
  ASSUME NEW v \in Nat, NEW w \in Nat, NEW d \in Nat, NEW m \in Nat, v < w, d < m
  PROVE  v + d * w < m * w
<1>1. PICK k \in Nat : m = d + 1 + k
  <2>1. m - (d + 1) \in Nat /\ m = d + 1 + (m - (d + 1))
    OBVIOUS
  <2>2. QED BY <2>1
<1>2. m * w = d * w + w + k * w /\ k * w \in Nat /\ d * w \in Nat
  BY <1>1
<1>3. QED BY <1>2

\* What Take reads, in both modes.
LEMMA Taken ==
  ASSUME IInv, Peeled, mode = "foreign", Take
  PROVE  /\ count \in Nat /\ count < MaxCount /\ value \in Nat
         /\ Here = buffer[count + 1] /\ Here \in Byte /\ count + 1 <= Len(buffer)
         /\ Data(Here) \in 0..(GroupBase - 1)
         /\ value' = value + Data(Here) * Weight[count]
         /\ Weight[count] \in Nat /\ Weight[count + 1] = GroupBase * Weight[count]
         /\ value < Weight[count]
         /\ value' < Weight[count + 1]
         /\ offset' = count + 1 /\ count' = count + 1
<1>1. /\ pc = "read" /\ offset < Len(buffer) /\ value' = value + Data(Here) * Weight[shift]
      /\ offset' = offset + 1 /\ count' = count + 1
  BY DEF Take, Available
<1>2. shift = count /\ count < MaxCount
  BY <1>1 DEF IInv, Locals
<1>3. start = 0 /\ offset = count /\ value < Weight[count]
  BY <1>1 DEF Peeled
<1>4. count \in Nat /\ value \in Nat /\ Len(buffer) \in Nat
  BY DEF IInv, TypeOK
<1>5. Here = buffer[count + 1] /\ Here \in Byte /\ count + 1 <= Len(buffer)
  BY <1>1, <1>3, <1>4 DEF Here, IInv, TypeOK
<1>6. Data(Here) \in 0..(GroupBase - 1)
  BY <1>5, DataType
<1>7. count \in 0..MaxCount /\ count \in 0..(MaxCount - 1)
  BY <1>2, <1>4, ConstantTypes
<1>8. Weight[count] \in Nat /\ Weight[count + 1] = GroupBase * Weight[count]
  BY <1>7, ConstantTypes
<1>9. value + Data(Here) * Weight[count] < GroupBase * Weight[count]
  <2>1. Data(Here) \in Nat /\ Data(Here) < GroupBase /\ GroupBase \in Nat
    BY <1>6, ConstantTypes
  <2>2. QED BY <2>1, <1>3, <1>4, <1>8, Below
<1>10. QED BY <1>1, <1>2, <1>3, <1>4, <1>5, <1>6, <1>8, <1>9

\* The tail of what was read before is the group and the tail of what is read now.
LEMMA PeelOn ==
  ASSUME IInv, Peeled, mode = "foreign", Take, buffer' = buffer, NEW t \in Nat
  PROVE  \E r : /\ Rests(r, count + 1, t)
                /\ r[1] = value' + t * Weight[count + 1]
                /\ t # 0 \/ Data(Here) # 0 => \A i \in 1..(count + 1) : r[i] # 0
<1> DEFINE d == Data(Here)
<1>1. /\ count \in Nat /\ value \in Nat /\ Here = buffer[count + 1] /\ d \in Nat
      /\ Weight[count] \in Nat /\ GroupBase \in Nat /\ GroupBase > 1
      /\ value' = value + d * Weight[count] /\ Weight[count + 1] = GroupBase * Weight[count]
  BY Taken, ConstantTypes
<1>2. pc = "read"
  BY DEF Take
<1> HIDE DEF d
<1>3. PICK u \in Nat : u = GroupBase * t + d /\ (t # 0 \/ d # 0 => u # 0)
  <2>1. GroupBase * t \in Nat /\ (t # 0 => GroupBase * t # 0)
    BY <1>1
  <2>2. QED BY <1>1, <2>1
<1>4. PICK r : /\ Rests(r, count, u) /\ r[1] = value + u * Weight[count]
               /\ u # 0 => \A i \in 1..(count + 1) : r[i] # 0
  BY <1>2, <1>3 DEF Peeled
<1>5. Rests(r, count, GroupBase * t + d) /\ d = Data(buffer[count + 1])
  BY <1>1, <1>3, <1>4 DEF d
<1>6. PICK s : Rests(s, count + 1, t) /\ \A i \in 1..(count + 1) : s[i] = r[i]
  BY <1>1, <1>5, Longer
<1>7. value + u * Weight[count] = value' + t * Weight[count + 1]
  BY <1>1, <1>3, TakeTail
<1>8. s[1] = value' + t * Weight[count + 1]
  BY <1>1, <1>4, <1>6, <1>7
<1>9. t # 0 \/ Data(Here) # 0 => \A i \in 1..(count + 1) : s[i] # 0
  BY <1>3, <1>4, <1>6 DEF d
<1>10. QED BY <1>6, <1>8, <1>9

LEMMA PeelMore ==
  ASSUME IInv, CInv, mode = "foreign", ReadMore
  PROVE  CInv'
<1>1. /\ Take /\ More(Here) /\ pc = "read" /\ pc' = "read"
      /\ buffer' = buffer /\ start' = start /\ mode' = mode
  BY DEF ReadMore, Take
<1>2. Peeled
  BY DEF CInv
<1>3. /\ count \in Nat /\ Here = buffer[count + 1] /\ count + 1 <= Len(buffer)
      /\ value' < Weight[count + 1] /\ offset' = count + 1 /\ count' = count + 1
  BY <1>1, <1>2, Taken
<1>4. start' = 0 /\ \A i \in 1..count : More(buffer[i])
  BY <1>1, <1>2 DEF Peeled
<1>5. \A i \in 1..count' : More(buffer'[i])
  <2>1. \A i \in 1..(count + 1) : i \in 1..count \/ i = count + 1
    BY <1>3
  <2>2. QED BY <1>1, <1>3, <1>4, <2>1
<1>6. PICK n \in Nat : n = count + 1
  BY <1>3
<1>7. ASSUME NEW t \in Nat
      PROVE  \E r : /\ Rests(r, n, t)'
                    /\ r[1] = value' + t * Weight[n]
                    /\ t # 0 => \A i \in 1..(n + 1) : r[i] # 0
  <2>1. PICK r : /\ Rests(r, count + 1, t)
                 /\ r[1] = value' + t * Weight[count + 1]
                 /\ t # 0 \/ Data(Here) # 0 => \A i \in 1..(count + 1) : r[i] # 0
    BY <1>1, <1>2, PeelOn
  <2>2. Rests(r, n, t)'
    BY <1>1, <1>6, <2>1 DEF Rests
  <2>3. t # 0 => \A i \in 1..(n + 1) : r[i] # 0
    <3>1. r[n + 1] = t
      BY <1>6, <2>1 DEF Rests
    <3>2. \A i \in 1..(n + 1) : i \in 1..n \/ i = n + 1
      BY <1>6
    <3>3. QED BY <1>6, <2>1, <3>1, <3>2
  <2>4. QED BY <1>6, <2>1, <2>2, <2>3
<1>8. Peeled'
  <2>1. count' = n /\ offset' = n /\ n <= Len(buffer') /\ value' < Weight[n]
    BY <1>1, <1>3, <1>6
  <2>2. QED BY <1>4, <1>5, <1>7, <2>1 DEF Peeled
<1>9. Got' /\ Given' /\ Rewriting' /\ Rewritten'
  BY <1>1 DEF Got, Given, Rewriting, Rewritten
<1>10. QED BY <1>8, <1>9 DEF CInv

\* A number that decode accepts is in encode's range.
LEMMA AcceptedInRange ==
  ASSUME IInv, Peeled, mode = "foreign", ReadLast
  PROVE  value' <= MaxValue
<1>1. Take /\ ~Overflow /\ ~More(Here)
  BY DEF ReadLast, Take
<1>2. /\ count \in Nat /\ count < MaxCount /\ value \in Nat
      /\ Data(Here) \in 0..(GroupBase - 1)
      /\ value' = value + Data(Here) * Weight[count]
      /\ Weight[count] \in Nat /\ value < Weight[count] /\ value' < Weight[count + 1]
  BY <1>1, Taken
<1>3. MaxCount - 1 \in 0..MaxCount /\ LastGroup \in Nat \ {0}
  BY VarUIntAssumption
<1>4. PICK w \in Nat : w = Weight[MaxCount - 1]
  BY <1>3, ConstantTypes
<1>5. w <= (LastGroup + 1) * w
  <2>1. (LastGroup + 1) * w = LastGroup * w + w /\ LastGroup * w \in Nat
    BY <1>3
  <2>2. QED BY <2>1
<1>6. value' < (LastGroup + 1) * w
  <2>1. CASE count + 1 = MaxCount
    <3>1. count = MaxCount - 1 /\ Weight[count] = w
      BY <1>2, <1>4, <2>1, ConstantTypes
    <3>2. Data(Here) < LastGroup + 1
      BY <1>1, <1>2, <1>3, <2>1, ConstantTypes DEF Overflow, AtLimit
    <3>3. PICK d \in Nat : d = Data(Here)
      BY <1>2, ConstantTypes
    <3>4. value + d * w < (LastGroup + 1) * w
      BY <1>2, <1>3, <3>1, <3>2, <3>3, Below
    <3>5. QED BY <1>2, <3>1, <3>3, <3>4
  <2>2. CASE count + 1 # MaxCount
    <3>1. count + 1 \in 0..(MaxCount - 1) /\ count + 1 \in 0..MaxCount
      BY <1>2, <2>2, ConstantTypes
    <3>2. Weight[count + 1] <= w /\ Weight[count + 1] \in Nat
      BY <1>4, <3>1, WeightAtMost, ConstantTypes
    <3>3. value' \in Nat
      BY <1>1, <1>2 DEF IInv, TypeOK
    <3>4. (LastGroup + 1) * w \in Nat
      BY <1>3
    <3>5. QED BY <1>2, <1>5, <3>2, <3>3, <3>4
  <2>3. QED BY <2>1, <2>2
<1>7. value' \in Nat
  <2>1. PICK d \in Nat : d = Data(Here)
    BY <1>2, ConstantTypes
  <2>2. d * Weight[count] \in Nat
    BY <1>2
  <2>3. QED BY <1>2, <2>1, <2>2
<1>8. (LastGroup + 1) * w \in Nat
  BY <1>3
<1>9. value' <= (LastGroup + 1) * w - 1
  BY <1>6, <1>7, <1>8
<1>10. QED BY <1>4, <1>9 DEF MaxValue

LEMMA PeelLast ==
  ASSUME IInv, CInv, mode = "foreign", ReadLast
  PROVE  CInv'
<1>1. /\ Take /\ ~More(Here) /\ ~NonCanonical /\ pc = "read" /\ pc' = "accepted"
      /\ buffer' = buffer /\ start' = start /\ mode' = mode /\ signed' = signed
      /\ result' = IF signed THEN UnZigZag(value') ELSE value'
  BY DEF ReadLast, Take
<1>2. Peeled
  BY DEF CInv
<1>3. /\ count \in Nat /\ Here = buffer[count + 1] /\ count + 1 <= Len(buffer)
      /\ value' < Weight[count + 1] /\ offset' = count + 1 /\ count' = count + 1
      /\ Data(Here) \in 0..(GroupBase - 1)
  BY <1>1, <1>2, Taken
<1>4. start' = 0 /\ \A i \in 1..count : More(buffer[i])
  BY <1>1, <1>2 DEF Peeled
<1>5. PICK r : /\ Rests(r, count + 1, 0)
               /\ r[1] = value' + 0 * Weight[count + 1]
               /\ 0 # 0 \/ Data(Here) # 0 => \A i \in 1..(count + 1) : r[i] # 0
  BY <1>1, <1>2, PeelOn
<1>6. r[1] = value'
  <2>1. Weight[count + 1] \in Nat /\ value' \in Nat
    <3>0. count \in Nat /\ count < MaxCount
      BY Zenon, <1>1, <1>2, Taken
    <3>1. count + 1 \in 0..MaxCount
      BY <3>0, ConstantTypes
    <3>2. PICK d \in Nat : d = Data(Here)
      BY <1>3, ConstantTypes
    <3>3. value \in Nat /\ Weight[count] \in Nat /\ value' = value + d * Weight[count]
      BY <1>1, <1>2, <3>2, Taken
    <3>4. d * Weight[count] \in Nat
      BY <3>3
    <3>5. QED BY <3>1, <3>3, <3>4, ConstantTypes
  <2>2. QED BY <1>5, <2>1
<1>n. PICK n \in Nat \ {0} : n = count + 1
  BY <1>3
<1>7. Rests(r, n, 0)'
  BY <1>1, <1>5, <1>n DEF Rests
<1>8. count > 0 => Data(Here) # 0
  BY <1>1, <1>3 DEF NonCanonical
<1>9. \A i \in 2..(count + 1) : r[i] # 0
  <2>1. CASE count = 0
    BY <2>1
  <2>2. CASE count > 0
    <3>1. \A i \in 1..(count + 1) : r[i] # 0
      BY <1>5, <1>8, <2>2
    <3>2. QED BY <1>3, <3>1
  <2>3. QED BY <1>3, <2>1, <2>2
<1>10. \A i \in 1..(count + 1) : More(buffer'[i]) <=> i < count + 1
  <2>1. \A i \in 1..(count + 1) : (i \in 1..count /\ i < count + 1) \/ (i = count + 1 /\ ~(i < count + 1))
    BY <1>3
  <2>2. QED BY <1>1, <1>3, <1>4, <2>1
<1>11. Accepted(r, n)'
  <2>1. n <= Len(buffer') /\ offset' = n
    BY <1>1, <1>3, <1>n
  <2>2. \A i \in 1..n : More(buffer'[i]) <=> i < n
    BY <1>10, <1>n
  <2>3. \A i \in 2..n : r[i] # 0
    BY <1>9, <1>n
  <2>4. QED BY <1>4, <1>7, <2>1, <2>2, <2>3 DEF Accepted
<1>12. value' <= MaxValue
  BY <1>2, AcceptedInRange
<1>13. Got'
  BY <1>1, <1>6, <1>11, <1>12 DEF Got
<1>14. Peeled' /\ Given' /\ Rewriting' /\ Rewritten'
  BY <1>1 DEF Peeled, Given, Rewriting, Rewritten
<1>15. QED BY <1>13, <1>14 DEF CInv

\* encode splits off the group that decode read.
LEMMA Rewrite ==
  ASSUME IInv, CInv, mode = "foreign", WriteByte
  PROVE  CInv'
<1>1. pc = "write" /\ UNCHANGED <<mode, signed, arg, buffer, start, offset>>
  BY DEF WriteByte, decodeVars
<1>2. PICK r, n : /\ Accepted(r, n) /\ Len(out) < n /\ value = r[Len(out) + 1]
                  /\ \A i \in 1..Len(out) : out[i] = buffer[i]
  BY <1>1 DEF CInv, Rewriting
<1>3. PICK k \in Nat : k = Len(out)
  BY DEF IInv, TypeOK
<1>4. n \in Nat \ {0} /\ k < n /\ out \in Seq(Byte) /\ buffer \in Seq(Byte) /\ n <= Len(buffer)
  BY <1>2, <1>3 DEF Accepted, IInv, TypeOK
<1>5. PICK b \in Byte : b = buffer[k + 1]
  BY <1>4
<1>6. PICK d \in 0..(GroupBase - 1) : d = Data(b)
  BY DataType
<1>7. PICK q \in Nat : q = r[k + 2]
  BY <1>2, <1>4 DEF Accepted, Rests
<1>8. value = GroupBase * q + d
  <2>1. k + 1 \in 1..n /\ (k + 1) + 1 = k + 2
    BY <1>4
  <2>2. r[k + 1] = GroupBase * r[(k + 1) + 1] + Data(buffer[k + 1])
    BY <1>2, <2>1 DEF Accepted, Rests
  <2>3. QED BY <1>2, <1>3, <1>5, <1>6, <1>7, <2>1, <2>2
<1>9. value % GroupBase = d /\ value \div GroupBase = q
  <2>1. value \in Nat
    BY DEF IInv, TypeOK
  <2>2. QED BY <1>8, <2>1, DivMod, ConstantTypes
<1>10. (q # 0) <=> (k + 1 < n)
  <2>1. r[n + 1] = 0 /\ \A i \in 2..n : r[i] # 0
    BY <1>2 DEF Accepted, Rests
  <2>2. CASE k + 1 < n
    <3>1. k + 2 \in 2..n
      BY <1>4, <2>2
    <3>2. QED BY <1>7, <2>1, <2>2, <3>1
  <2>3. CASE ~(k + 1 < n)
    <3>1. k + 2 = n + 1
      BY <1>4, <2>3
    <3>2. QED BY <1>7, <2>1, <2>3, <3>1
  <2>4. QED BY <2>2, <2>3
<1>11. More(b) <=> (q # 0)
  <2>1. k + 1 \in 1..n
    BY <1>4
  <2>2. More(b) <=> (k + 1 < n)
    BY <1>2, <1>5, <2>1 DEF Accepted
  <2>3. QED BY <1>10, <2>2
<1>12. (IF q # 0 THEN d + GroupBase ELSE d) = b
  BY <1>6, <1>11, ConstantTypes DEF Data, Byte
<1>13. out' = Append(out, b) /\ value' = q /\ pc' = IF q # 0 THEN "write" ELSE "written"
  BY <1>9, <1>12 DEF WriteByte
<1>14. Len(out') = k + 1 /\ \A i \in 1..(k + 1) : out'[i] = buffer[i]
  <2>1. Len(out') = k + 1 /\ out'[k + 1] = b /\ \A i \in 1..k : out'[i] = out[i]
    BY <1>3, <1>4, <1>13
  <2>2. \A i \in 1..(k + 1) : i \in 1..k \/ i = k + 1
    OBVIOUS
  <2>3. QED BY <1>2, <1>3, <1>5, <2>1, <2>2
<1>15. Accepted(r, n)'
  BY <1>1, <1>2 DEF Accepted, Rests
<1>16. Rewriting'
  <2>1. SUFFICES ASSUME pc' = "write" PROVE Rewriting'
    BY DEF Rewriting
  <2>2. q # 0
    BY <1>13, <2>1
  <2>3. Len(out') < n /\ value' = r[Len(out') + 1]
    <3>1. (k + 1) + 1 = k + 2
      BY <1>4
    <3>2. QED BY <1>7, <1>10, <1>13, <1>14, <2>2, <3>1
  <2>4. \A i \in 1..Len(out') : out'[i] = buffer'[i]
    BY <1>1, <1>14
  <2>5. QED BY <1>15, <2>3, <2>4 DEF Rewriting
<1>17. Rewritten'
  <2>1. SUFFICES ASSUME pc' = "written" PROVE Rewritten'
    BY DEF Rewritten
  <2>2. q = 0
    BY <1>13, <2>1
  <2>3. k + 1 = n
    BY <1>4, <1>10, <2>2
  <2>4. start = 0 /\ offset = n /\ n <= Len(buffer)
    BY <1>2 DEF Accepted
  <2>5. QED BY <1>1, <1>14, <2>3, <2>4 DEF Rewritten
<1>18. Peeled' /\ Got' /\ Given'
  <2>1. pc' \in {"write", "written"}
    BY <1>13
  <2>2. QED BY <2>1 DEF Peeled, Got, Given
<1>19. QED BY <1>16, <1>17, <1>18 DEF CInv

LEMMA InitCInv == ASSUME Init PROVE CInv
<1>1. SUFFICES ASSUME mode = "foreign" PROVE CInv
  BY DEF CInv, Peeled, Got, Given, Rewriting, Rewritten
<1>2. pc = "read" /\ value = 0 /\ start = 0 /\ offset = 0 /\ count = 0 /\ buffer \in Seq(Byte)
  BY <1>1, InputAssumption DEF Init
<1>3. Weight[0] = 1
  BY ConstantTypes
<1>4. ASSUME NEW t \in Nat
      PROVE  \E r : /\ Rests(r, count, t) /\ r[1] = value + t * Weight[count]
                    /\ t # 0 => \A i \in 1..(count + 1) : r[i] # 0
  <2> DEFINE r == [i \in 1..1 |-> t]
  <2>1. Rests(r, 0, t) /\ r[1] = t
    BY DEF Rests
  <2>2. 0 + t * 1 = t
    OBVIOUS
  <2>3. QED BY <1>2, <1>3, <2>1, <2>2
<1>5. Peeled
  BY <1>2, <1>3, <1>4 DEF Peeled
<1>6. QED BY <1>2, <1>5 DEF CInv, Got, Given, Rewriting, Rewritten

LEMMA NextCInv == ASSUME IInv, CInv, [Next]_vars PROVE CInv'
<1>1. mode' = mode /\ signed' = signed
  BY DEF Next, vars, EncodeRefused, EncodeCall, WriteByte, DecodeCall, ReadNothing,
         ReadTooLong, ReadOverflow, ReadNonCanonical, Raise, ReadMore, ReadLast,
         EncodeAgain
<1>2. SUFFICES ASSUME mode = "foreign" PROVE CInv'
  BY <1>1, <1>2 DEF CInv, Peeled, Got, Given, Rewriting, Rewritten, IInv, TypeOK
<1>3. CASE EncodeRefused
  <2>1. pc = "encode" /\ (Number < 0 \/ Number > MaxValue)
    BY <1>3 DEF EncodeRefused
  <2>2. Number <= MaxValue /\ Number >= 0
    BY <1>2, <2>1 DEF CInv, Given
  <2>3. Number \in Int /\ MaxValue \in Nat
    BY NumberType, MaxValueType DEF IInv
  <2>4. QED BY <2>1, <2>2, <2>3
<1>4. CASE EncodeCall
  <2>1. /\ pc = "encode" /\ pc' = "write" /\ value' = Number
        /\ UNCHANGED <<mode, arg, signed, out, buffer, start, offset>>
    BY <1>4 DEF EncodeCall, decodeVars
  <2>2. PICK r, n : Accepted(r, n) /\ r[1] = Number
    BY <1>2, <2>1 DEF CInv, Given
  <2>3. out = << >>
    BY <2>1 DEF IInv, Blank
  <2>4. Accepted(r, n)'
    BY <2>1, <2>2 DEF Accepted, Rests
  <2>5. Len(out') = 0 /\ Len(out') < n
    BY <2>1, <2>2, <2>3 DEF Accepted
  <2>6. value' = r[Len(out') + 1] /\ \A i \in 1..Len(out') : out'[i] = buffer'[i]
    BY <2>1, <2>2, <2>5
  <2>7. Rewriting'
    BY <2>4, <2>5, <2>6 DEF Rewriting
  <2>8. QED BY <2>1, <2>7 DEF CInv, Peeled, Got, Given, Rewritten
<1>5. CASE WriteByte
  BY <1>2, <1>5, Rewrite
<1>6. CASE DecodeCall
  BY <1>2, <1>6 DEF DecodeCall
<1>7. CASE ReadNothing \/ ReadTooLong \/ ReadOverflow \/ ReadNonCanonical
  <2>1. pc' = "DecodeError"
    BY <1>7 DEF ReadNothing, ReadTooLong, ReadOverflow, ReadNonCanonical, Raise
  <2>2. QED BY <2>1 DEF CInv, Peeled, Got, Given, Rewriting, Rewritten
<1>8. CASE ReadMore
  BY <1>2, <1>8, PeelMore
<1>9. CASE ReadLast
  BY <1>2, <1>9, PeelLast
<1>10. CASE EncodeAgain
  <2>1. /\ pc = "accepted" /\ pc' = "encode" /\ arg' = result /\ signed' = signed
        /\ UNCHANGED <<mode, value, buffer, start, offset>>
    BY <1>10 DEF EncodeAgain, decodeVars
  <2>2. /\ result = IF signed THEN UnZigZag(value) ELSE value
        /\ value <= MaxValue /\ \E r, n : Accepted(r, n) /\ r[1] = value
    BY <1>2, <2>1 DEF CInv, Got
  <2>3. value \in Nat
    BY DEF IInv, TypeOK
  <2>4. Number' = value
    BY <2>1, <2>2, <2>3, ZigZagInverse DEF Number
  <2>5. PICK r, n : Accepted(r, n) /\ r[1] = value
    BY <2>2
  <2>6. Accepted(r, n)'
    BY <2>1, <2>5 DEF Accepted, Rests
  <2>7. Number' <= MaxValue /\ Number' >= 0 /\ r[1] = Number'
    BY <2>2, <2>3, <2>4, <2>5
  <2>8. Given'
    BY <2>1, <2>6, <2>7 DEF Given
  <2>9. QED BY <2>1, <2>8 DEF CInv, Peeled, Got, Rewriting, Rewritten
<1>11. CASE UNCHANGED vars
  <2>1. UNCHANGED <<mode, signed, pc, arg, value, out, buffer, start, offset, count, result>>
    BY <1>11 DEF vars
  <2>2. \A r, n, t : Rests(r, n, t)' <=> Rests(r, n, t)
    BY <2>1 DEF Rests
  <2>3. \A r, n : Accepted(r, n)' <=> Accepted(r, n)
    BY <2>1, <2>2 DEF Accepted
  <2>4. Number' = Number
    BY <2>1 DEF Number
  <2>5. Peeled'
    BY <2>1, <2>2 DEF CInv, Peeled
  <2>6. Got'
    BY <2>1, <2>3 DEF CInv, Got
  <2>7. Given'
    BY <2>1, <2>3, <2>4 DEF CInv, Given
  <2>8. Rewriting'
    BY <2>1, <2>3 DEF CInv, Rewriting
  <2>9. Rewritten'
    BY <2>1 DEF CInv, Rewritten
  <2>10. QED BY <2>5, <2>6, <2>7, <2>8, <2>9 DEF CInv
<1>12. QED
  BY <1>3, <1>4, <1>5, <1>6, <1>7, <1>8, <1>9, <1>10, <1>11 DEF Next

\* A number has one representation only: what decode accepted, of whatever
\* origin, encode writes back byte for byte, and never refuses.
THEOREM CanonicalCorrect == Spec => []Canonical
<1>1. Init => CInv
  BY InitCInv
<1>2. IInv /\ CInv /\ [Next]_vars => CInv'
  BY NextCInv
<1>3. IInv /\ CInv => Canonical
  <2>1. SUFFICES ASSUME IInv, CInv, mode = "foreign"
                 PROVE  pc # "EncodeError" /\ (pc = "written" => out = SubSeq(buffer, start + 1, offset))
    BY DEF Canonical
  <2>2. pc # "EncodeError"
    BY <2>1 DEF CInv, Given
  <2>3. ASSUME pc = "written" PROVE out = SubSeq(buffer, start + 1, offset)
    <3>1. /\ start = 0 /\ Len(out) = offset /\ offset <= Len(buffer)
          /\ \A i \in 1..Len(out) : out[i] = buffer[i]
      BY <2>1, <2>3 DEF CInv, Rewritten
    <3>2. out \in Seq(Byte) /\ buffer \in Seq(Byte) /\ offset \in Nat
      BY <2>1 DEF IInv, TypeOK
    <3>3. start + 1 = 1
      BY <3>1
    <3>4. PICK s : s = SubSeq(buffer, 1, offset)
      OBVIOUS
    <3>5. s \in Seq(Byte) /\ Len(s) = offset /\ \A i \in 1..offset : s[i] = buffer[i]
      BY <3>1, <3>2, <3>4
    <3>6. out = s
      BY <3>1, <3>2, <3>5
    <3>7. QED BY <3>3, <3>4, <3>6
  <2>4. QED BY <2>2, <2>3
<1>4. QED BY <1>1, <1>2, <1>3, Invariance, PTL DEF Spec

-----------------------------------------------------------------------------
(* What decode refuses is no number's code.                                *)

Coded(f, n) ==
  IF n < GroupBase
  THEN <<n>>
  ELSE <<(n % GroupBase) + GroupBase>> \o f[n \div GroupBase]

LEMMA RestBelow ==
  ASSUME NEW n \in 0..MaxValue, ~(n < GroupBase)
  PROVE  /\ n \div GroupBase \in 1..MaxValue /\ n \div GroupBase < n
         /\ n % GroupBase \in 0..(GroupBase - 1)
         /\ n = GroupBase * (n \div GroupBase) + (n % GroupBase)
<1>1. n \in Nat /\ MaxValue \in Nat /\ n <= MaxValue
  BY MaxValueType
<1>2. PICK q \in Nat : q = n \div GroupBase
  BY <1>1, GroupSplit
<1>3. PICK d \in 0..(GroupBase - 1) : d = n % GroupBase
  BY <1>1, GroupSplit
<1>4. n = GroupBase * q + d
  BY <1>1, <1>2, <1>3, GroupSplit
<1>5. PICK g \in Nat : g = GroupBase /\ g > 1
  BY ConstantTypes
<1>6. q # 0
  BY <1>1, <1>3, <1>4, <1>5
<1>7. PICK p \in Nat : q = p + 1
  <2>1. q - 1 \in Nat /\ q = (q - 1) + 1
    BY <1>6
  <2>2. QED BY <2>1
<1>8. PICK e \in Nat : g = e + 2
  <2>1. g - 2 \in Nat /\ g = (g - 2) + 2
    BY <1>5
  <2>2. QED BY <2>1
<1>9. g * q = q + (e + 1) * q /\ (e + 1) * q = e * q + q /\ e * q \in Nat
  BY <1>8
<1>10. q < n
  BY <1>1, <1>3, <1>4, <1>5, <1>6, <1>9
<1>11. QED BY <1>1, <1>2, <1>3, <1>4, <1>6, <1>10

LEMMA CodedByte ==
  ASSUME NEW n \in 0..MaxValue
  PROVE  /\ n < GroupBase => n \in Byte
         /\ ~(n < GroupBase) => (n % GroupBase) + GroupBase \in Byte
<1>1. n < GroupBase => n \in Byte
  BY MaxValueType, ConstantTypes DEF Byte
<1>2. ASSUME ~(n < GroupBase) PROVE (n % GroupBase) + GroupBase \in Byte
  <2>1. PICK d \in 0..(GroupBase - 1) : d = n % GroupBase
    BY <1>2, RestBelow
  <2>2. QED BY <2>1, ConstantTypes DEF Byte
<1>3. QED BY <1>1, <1>2

LEMMA CodedSeq ==
  ASSUME NEW n \in 0..MaxValue, NEW f,
         ~(n < GroupBase) => f[n \div GroupBase] \in Seq(Byte)
  PROVE  Coded(f, n) \in Seq(Byte)
<1>1. CASE n < GroupBase
  BY <1>1, CodedByte DEF Coded
<1>2. CASE ~(n < GroupBase)
  <2>1. PICK b \in Byte : b = (n % GroupBase) + GroupBase
    BY <1>2, CodedByte
  <2>2. <<b>> \o f[n \div GroupBase] \in Seq(Byte)
    BY <1>2
  <2>3. QED BY <1>2, <2>1, <2>2 DEF Coded
<1>3. QED BY <1>1, <1>2

\* Code is what its recursive definition says.
LEMMA CodeDefined ==
  \A n \in 0..MaxValue : Code[n] = Coded(Code, n) /\ Code[n] \in Seq(Byte)
<1>1. PICK S : S = 0..MaxValue
  OBVIOUS
<1>2. PICK V : V = Seq(Byte)
  OBVIOUS
<1>3. PICK E : E = [p \in S \X [S -> V] |-> Coded(p[2], p[1])]
  OBVIOUS
<1>4. \A n \in S : \A f \in [S -> V] : E[<<n, f>>] = Coded(f, n)
  BY <1>3
<1>5. PICK depth : depth = [n \in S |-> n]
  OBVIOUS
<1>6. depth \in [S -> Nat] /\ \A n \in S : depth[n] = n
  BY <1>1, <1>5, MaxValueType
<1>7. \A n \in S : ~(n < GroupBase) => n \div GroupBase \in S /\ depth[n \div GroupBase] < depth[n]
  <2> TAKE n \in S
  <2> HAVE ~(n < GroupBase)
  <2>1. n \div GroupBase \in 1..MaxValue /\ n \div GroupBase < n
    BY <1>1, RestBelow
  <2>2. PICK q : q = n \div GroupBase
    OBVIOUS
  <2>3. q \in S /\ q < n
    BY <1>1, <2>1, <2>2, MaxValueType
  <2>4. QED BY <1>6, <2>2, <2>3
<1>8. \E f : f = [n \in S |-> Coded(f, n)]
  <2>1. E \in [S \X [S -> V] -> V]
    <3>1. \A n \in S : \A f \in [S -> V] : Coded(f, n) \in V
      BY <1>1, <1>2, <1>7, CodedSeq
    <3>2. QED BY <1>3, <3>1
  <2>2. ASSUME NEW n \in S, NEW f \in [S -> V], NEW g \in [S -> V],
               \A m \in S : depth[m] < depth[n] => f[m] = g[m]
        PROVE  E[<<n, f>>] = E[<<n, g>>]
    <3>1. ~(n < GroupBase) => f[n \div GroupBase] = g[n \div GroupBase]
      BY <1>7, <2>2
    <3>2. Coded(f, n) = Coded(g, n)
      BY <3>1 DEF Coded
    <3>3. QED BY <1>4, <3>2
  <2>3. << >> \in V
    BY <1>2
  <2>4. Descends(E, S, V, depth)
    BY <1>6, <2>1, <2>2, <2>3 DEF Descends
  <2>5. PICK f \in [S -> V] : \A n \in S : f[n] = E[<<n, f>>]
    BY <2>4, Recursive
  <2>6. f = [n \in S |-> Coded(f, n)]
    BY <1>4, <2>5
  <2>7. QED BY <2>6
<1>9. Code = [n \in S |-> Coded(Code, n)]
  <2>1. Code = CHOOSE f : f = [n \in 0..MaxValue |-> Coded(f, n)]
    BY Zenon DEF Code, Coded
  <2>2. QED BY <1>1, <1>8, <2>1
<1>10. \A n \in S : Code[n] = Coded(Code, n)
  BY <1>9
<1>11. S \subseteq {n \in S : Code[n] \in V}
  <2> DEFINE P == {n \in S : Code[n] \in V}
  <2>1. \A n \in S : (\A m \in S : depth[m] < depth[n] => m \in P) => n \in P
    BY <1>1, <1>2, <1>7, <1>10, CodedSeq
  <2> HIDE DEF P
  <2>2. S \subseteq P
    BY <1>6, <2>1, Induction
  <2>3. QED BY <2>2 DEF P
<1>12. QED BY <1>1, <1>2, <1>10, <1>11

\* The form of a code: every byte but the last asks for more, a last group is
\* zero only if it is alone, and not above the limit if it is the MaxCount-th.
Shape(c) ==
  /\ c \in Seq(Byte)
  /\ Len(c) \in 1..MaxCount
  /\ \A i \in 1..Len(c) : More(c[i]) <=> i < Len(c)
  /\ Len(c) > 1 => c[Len(c)] # 0
  /\ Len(c) = MaxCount => c[Len(c)] <= LastGroup

\* A code that has k groups before it.
ShapeAfter(n, c, k) ==
  /\ c \in Seq(Byte) /\ Len(c) > 0 /\ Len(c) + k <= MaxCount
  /\ \A i \in 1..Len(c) : More(c[i]) <=> i < Len(c)
  /\ n # 0 => c[Len(c)] # 0
  /\ Len(c) + k = MaxCount => c[Len(c)] <= LastGroup

LEMMA ShapeOne ==
  ASSUME NEW n \in 0..MaxValue, n < GroupBase, NEW k \in 0..(MaxCount - 1),
         n * Weight[k] <= MaxValue
  PROVE  ShapeAfter(n, <<n>>, k)
<1>1. n \in Nat /\ n \in Byte /\ ~More(n)
  BY MaxValueType, CodedByte, ConstantTypes DEF More
<1>2. 1 + k <= MaxCount
  BY ConstantTypes
<1>3. ASSUME 1 + k = MaxCount PROVE n <= LastGroup
  <2>1. k = MaxCount - 1
    BY <1>3, ConstantTypes
  <2>2. QED BY <1>1, <2>1, LastRest
<1>4. PICK c : c = <<n>>
  OBVIOUS
<1>5. c \in Seq(Byte) /\ Len(c) = 1 /\ c[1] = n /\ \A i \in 1..1 : i = 1
  BY <1>1, <1>4
<1>6. ShapeAfter(n, c, k)
  BY <1>1, <1>2, <1>3, <1>5 DEF ShapeAfter
<1>7. QED BY <1>4, <1>6

LEMMA ShapeMore ==
  ASSUME NEW n, NEW q \in Nat \ {0}, NEW d \in 0..(GroupBase - 1), NEW c, NEW k \in Nat,
         ShapeAfter(q, c, k + 1)
  PROVE  ShapeAfter(n, <<d + GroupBase>> \o c, k)
<1>1. d + GroupBase \in Byte /\ More(d + GroupBase)
  BY ByteParts
<1>2. c \in Seq(Byte) /\ Len(c) \in Nat /\ Len(c) > 0
  BY DEF ShapeAfter
<1>3. PICK s : s = <<d + GroupBase>> \o c
  OBVIOUS
<1>4. s \in Seq(Byte) /\ Len(s) = Len(c) + 1 /\ s[1] = d + GroupBase
  BY <1>1, <1>2, <1>3
<1>5. \A i \in 2..Len(s) : i - 1 \in 1..Len(c) /\ s[i] = c[i - 1]
  BY <1>1, <1>2, <1>3
<1>6. s[Len(s)] = c[Len(c)]
  <2>1. Len(s) \in 2..Len(s) /\ Len(s) - 1 = Len(c)
    BY <1>2, <1>4
  <2>2. QED BY <1>5, <2>1
<1>7. \A i \in 1..Len(s) : More(s[i]) <=> i < Len(s)
  <2> TAKE i \in 1..Len(s)
  <2>1. CASE i = 1
    BY <1>1, <1>2, <1>4, <2>1
  <2>2. CASE i # 1
    <3>1. i \in 2..Len(s)
      BY <1>4, <2>2
    <3>2. More(c[i - 1]) <=> i - 1 < Len(c)
      BY <1>5, <3>1 DEF ShapeAfter
    <3>3. (i - 1 < Len(c)) <=> (i < Len(s))
      BY <1>2, <1>4
    <3>4. QED BY <1>5, <3>1, <3>2, <3>3
  <2>3. QED BY <2>1, <2>2
<1>8. Len(s) + k = Len(c) + (k + 1)
  BY <1>2, <1>4
<1>9. ShapeAfter(n, s, k)
  BY <1>2, <1>4, <1>6, <1>7, <1>8 DEF ShapeAfter
<1>10. QED BY <1>3, <1>9

LEMMA CodeAfter ==
  \A n \in 0..MaxValue : \A k \in 0..(MaxCount - 1) :
    n * Weight[k] <= MaxValue => ShapeAfter(n, Code[n], k)
<1>1. PICK S : S = 0..MaxValue
  OBVIOUS
<1>2. PICK depth : depth = [n \in S |-> n]
  OBVIOUS
<1>3. depth \in [S -> Nat] /\ \A n \in S : depth[n] = n
  BY <1>1, <1>2, MaxValueType
<1> DEFINE P == {n \in S : \A k \in 0..(MaxCount - 1) :
                             n * Weight[k] <= MaxValue => ShapeAfter(n, Code[n], k)}
<1>4. ASSUME NEW n \in S, \A m \in S : depth[m] < depth[n] => m \in P
      PROVE  n \in P
  <2> SUFFICES ASSUME NEW k \in 0..(MaxCount - 1), n * Weight[k] <= MaxValue
               PROVE  ShapeAfter(n, Code[n], k)
    OBVIOUS
  <2>1. n \in 0..MaxValue /\ n \in Nat
    BY <1>1, MaxValueType
  <2>2. Code[n] = Coded(Code, n)
    BY <2>1, CodeDefined
  <2>3. CASE n < GroupBase
    BY <2>1, <2>2, <2>3, ShapeOne DEF Coded
  <2>4. CASE ~(n < GroupBase)
    <3>1. PICK q \in Nat \ {0} : q = n \div GroupBase /\ q \in S /\ q < n
      BY <1>1, <2>1, <2>4, RestBelow, MaxValueType
    <3>2. PICK d \in 0..(GroupBase - 1) : d = n % GroupBase
      BY <2>1, <2>4, RestBelow
    <3>3. n = GroupBase * q + d
      BY <2>1, <2>4, <3>1, <3>2, RestBelow
    <3>4. k + 1 \in 0..(MaxCount - 1)
      <4>1. ASSUME k = MaxCount - 1 PROVE FALSE
        <5>1. n <= LastGroup
          BY <2>1, <4>1, LastRest
        <5>2. QED BY <2>1, <2>4, <5>1, ConstantTypes
      <4>2. QED BY <4>1, ConstantTypes
    <3>5. q * Weight[k + 1] <= MaxValue
      <4>1. Weight[k + 1] = GroupBase * Weight[k] /\ Weight[k] \in Nat
        <5>1. k \in 0..MaxCount
          BY ConstantTypes
        <5>2. QED BY <5>1, ConstantTypes
      <4>2. (GroupBase * q + d) * Weight[k] <= MaxValue
        BY <3>3
      <4>3. q * (GroupBase * Weight[k]) <= MaxValue
        <5>1. d \in Nat
          BY ConstantTypes
        <5>2. QED BY <4>1, <4>2, <5>1, RestShrinks, MaxValueType, ConstantTypes
      <4>4. QED BY <4>1, <4>3
    <3>6. q \in P
      BY <1>3, <1>4, <3>1
    <3>7. ShapeAfter(q, Code[q], k + 1)
      BY <3>4, <3>5, <3>6
    <3>8. k \in Nat
      OBVIOUS
    <3>9. ShapeAfter(n, <<d + GroupBase>> \o Code[q], k)
      BY <3>7, <3>8, ShapeMore
    <3>10. QED BY <2>2, <2>4, <3>1, <3>2, <3>9 DEF Coded
  <2>5. QED BY <2>3, <2>4
<1> HIDE DEF P
<1>5. S \subseteq P
  BY <1>3, <1>4, Induction
<1>6. QED BY <1>1, <1>5 DEF P

LEMMA CodeShape ==
  ASSUME NEW n \in 0..MaxValue
  PROVE  Shape(Code[n])
<1>1. 0 \in 0..(MaxCount - 1) /\ n * Weight[0] <= MaxValue
  BY MaxValueType, ConstantTypes
<1>2. PICK c : c = Code[n]
  OBVIOUS
<1>3. ShapeAfter(n, c, 0)
  BY <1>1, <1>2, CodeAfter
<1>4. Len(c) \in Nat /\ Len(c) + 0 = Len(c)
  BY <1>3 DEF ShapeAfter
<1>5. Len(c) > 1 => n # 0
  <2>1. ASSUME n = 0 PROVE Len(c) = 1
    <3>1. n < GroupBase
      BY <2>1, ConstantTypes
    <3>2. c = <<n>>
      BY <1>2, <3>1, CodeDefined DEF Coded
    <3>3. QED BY <3>2
  <2>2. QED BY <2>1
<1>6. Shape(c)
  BY <1>3, <1>4, <1>5 DEF ShapeAfter, Shape
<1>7. QED BY <1>2, <1>6

\* The first bytes of a buffer.
LEMMA FirstBytes ==
  ASSUME NEW b \in Seq(Byte), NEW n \in Nat, n <= Len(b)
  PROVE  /\ SubSeq(b, 1, n) \in Seq(Byte) /\ Len(SubSeq(b, 1, n)) = n
         /\ \A i \in 1..n : SubSeq(b, 1, n)[i] = b[i]
OBVIOUS

LEMMA OneByteMore ==
  ASSUME NEW b \in Seq(Byte), NEW n \in Nat, n + 1 <= Len(b)
  PROVE  SubSeq(b, 1, n + 1) = SubSeq(b, 1, n) \o <<b[n + 1]>>
<1>0. n <= Len(b) /\ n + 1 \in Nat
  OBVIOUS
<1>1. PICK s : s = SubSeq(b, 1, n)
  OBVIOUS
<1>2. s \in Seq(Byte) /\ Len(s) = n /\ \A i \in 1..n : s[i] = b[i]
  BY <1>0, <1>1, FirstBytes
<1>3. PICK z : z = SubSeq(b, 1, n + 1)
  OBVIOUS
<1>4. z \in Seq(Byte) /\ Len(z) = n + 1 /\ \A i \in 1..(n + 1) : z[i] = b[i]
  BY <1>0, <1>3, FirstBytes
<1>5. PICK x \in Byte : x = b[n + 1]
  OBVIOUS
<1>6. PICK y \in Seq(Byte) : y = s \o <<x>>
  <2>1. <<x>> \in Seq(Byte)
    OBVIOUS
  <2>2. PICK o : o = <<x>>
    OBVIOUS
  <2>3. s \o o \in Seq(Byte)
    BY <1>2, <2>1, <2>2
  <2>4. QED BY <2>2, <2>3
<1>7. Len(y) = n + 1 /\ y[n + 1] = x /\ \A i \in 1..n : y[i] = s[i]
  BY <1>2, <1>6
<1>8. \A i \in 1..(n + 1) : y[i] = z[i]
  <2>1. \A i \in 1..(n + 1) : i \in 1..n \/ i = n + 1
    OBVIOUS
  <2>2. QED BY <1>2, <1>4, <1>5, <1>7, <2>1
<1>9. y = z
  BY <1>4, <1>7, <1>8
<1>10. QED BY <1>1, <1>3, <1>5, <1>6, <1>9

\* A prefix, byte by byte.
LEMMA Prefix ==
  ASSUME NEW s \in Seq(Byte), NEW p \in Seq(Byte)
  PROVE  StartsWith(s, p) <=> (Len(p) <= Len(s) /\ \A i \in 1..Len(p) : s[i] = p[i])
<1>1. PICK n \in Nat : n = Len(p)
  OBVIOUS
<1>2. ASSUME n <= Len(s) PROVE (SubSeq(s, 1, n) = p) <=> \A i \in 1..n : s[i] = p[i]
  <2>1. PICK t : t = SubSeq(s, 1, n)
    OBVIOUS
  <2>2. t \in Seq(Byte) /\ Len(t) = n /\ \A i \in 1..n : t[i] = s[i]
    BY <1>1, <1>2, <2>1
  <2>3. (t = p) <=> \A i \in 1..n : t[i] = p[i]
    BY <1>1, <2>2
  <2>4. QED BY <2>1, <2>2, <2>3
<1>3. QED BY <1>1, <1>2 DEF StartsWith

\* Whatever tail may follow the groups read, the code of the whole number is
\* the bytes read and the code of the tail.
Extended ==
  mode = "foreign" /\ pc = "read" =>
    \A t \in Nat \ {0} : value + t * Weight[count] <= MaxValue =>
      Code[value + t * Weight[count]] = SubSeq(buffer, 1, count) \o Code[t]

\* With one more group the number is still in range.
LEMMA OneMore ==
  ASSUME IInv, Peeled, mode = "foreign", pc = "read"
  PROVE  /\ value + 1 * Weight[count] \in 0..MaxValue
         /\ count \in Nat /\ count < MaxCount
<1>1. count \in Nat /\ count < MaxCount /\ value \in Nat /\ value < Weight[count]
  BY DEF IInv, TypeOK, Locals, Peeled
<1>2. count \in 0..(MaxCount - 1) /\ count \in 0..MaxCount /\ MaxCount - 1 \in 0..MaxCount
  BY <1>1, ConstantTypes
<1>3. PICK w \in Nat : w = Weight[MaxCount - 1]
  BY <1>2, ConstantTypes
<1>4. PICK x \in Nat : x = Weight[count]
  BY <1>2, ConstantTypes
<1>5. x <= w
  BY <1>2, <1>3, <1>4, WeightAtMost
<1>6. PICK l \in Nat : LastGroup = l + 1
  <2>1. LastGroup \in Nat \ {0}
    BY VarUIntAssumption
  <2>2. LastGroup - 1 \in Nat /\ LastGroup = (LastGroup - 1) + 1
    BY <2>1
  <2>3. QED BY <2>2
<1>7. (LastGroup + 1) * w = l * w + 2 * w /\ l * w \in Nat
  BY <1>6
<1>8. value + x <= (LastGroup + 1) * w - 1
  BY <1>1, <1>4, <1>5, <1>7
<1>9. 1 * Weight[count] = x
  BY <1>4
<1>10. MaxValue = (LastGroup + 1) * w - 1
  BY <1>3 DEF MaxValue
<1>11. value + x \in 0..MaxValue
  BY <1>1, <1>8, <1>10, MaxValueType
<1>12. QED BY <1>1, <1>9, <1>11

LEMMA InitExtended == ASSUME Init PROVE Extended
<1>1. SUFFICES ASSUME mode = "foreign", NEW t \in Nat \ {0}, value + t * Weight[count] <= MaxValue
               PROVE  Code[value + t * Weight[count]] = SubSeq(buffer, 1, count) \o Code[t]
  BY DEF Extended
<1>2. value = 0 /\ count = 0 /\ buffer \in Seq(Byte)
  BY <1>1, InputAssumption DEF Init
<1>3. value + t * Weight[count] = t
  <2>1. 0 + t * 1 = t
    OBVIOUS
  <2>2. QED BY <1>2, <2>1, ConstantTypes
<1>4. t \in 0..MaxValue
  BY <1>1, <1>3, MaxValueType
<1>5. PICK c \in Seq(Byte) : c = Code[t]
  BY <1>4, CodeDefined
<1>6. SubSeq(buffer, 1, 0) = << >> /\ << >> \o c = c
  BY <1>2
<1>7. QED BY <1>2, <1>3, <1>5, <1>6

LEMMA NextExtended ==
  ASSUME IInv, CInv, Extended, [Next]_vars PROVE Extended'
<1>1. CASE ReadMore
  <2>1. SUFFICES ASSUME mode = "foreign" PROVE Extended'
    BY <1>1 DEF ReadMore, Extended
  <2>2. Peeled /\ Take /\ More(Here) /\ pc = "read" /\ UNCHANGED <<mode, buffer>>
    BY <1>1 DEF CInv, ReadMore, Take
  <2>3. /\ count \in Nat /\ count < MaxCount /\ value \in Nat
        /\ Here = buffer[count + 1] /\ Here \in Byte /\ count + 1 <= Len(buffer)
        /\ value' = value + Data(Here) * Weight[count]
        /\ Weight[count] \in Nat /\ Weight[count + 1] = GroupBase * Weight[count]
        /\ count' = count + 1
    BY <2>1, <2>2, Taken
  <2>4. PICK d \in 0..(GroupBase - 1) : d = Data(Here)
    BY <2>3, DataType
  <2>5. Here = d + GroupBase
    BY <2>2, <2>3, <2>4, ConstantTypes DEF Data, Byte
  <2>6. PICK w \in Nat \ {0} : w = Weight[count]
    <3>1. count \in 0..MaxCount
      BY <2>3, ConstantTypes
    <3>2. QED BY <3>1, VarUIntAssumption
  <2>7. PICK k \in Nat : k = count + 1
    BY <2>3
  <2>8. ASSUME NEW t \in Nat \ {0}, value' + t * Weight[k] <= MaxValue
        PROVE  Code[value' + t * Weight[k]] = SubSeq(buffer, 1, k) \o Code[t]
    <3>1. PICK u \in Nat \ {0} : u = GroupBase * t + d /\ u >= GroupBase
      <4>1. PICK g \in Nat : g = GroupBase /\ g > 1
        BY ConstantTypes
      <4>2. PICK e \in Nat : t = e + 1
        <5>1. t - 1 \in Nat /\ t = (t - 1) + 1
          OBVIOUS
        <5>2. QED BY <5>1
      <4>3. g * t = g * e + g /\ g * e \in Nat
        BY <4>2
      <4>4. g * t + d \in Nat \ {0} /\ g * t + d >= g
        BY <4>1, <4>3
      <4>5. QED BY <4>1, <4>4
    <3>2. value + u * Weight[count] = value' + t * Weight[k]
      <4>1. value' = value + d * w /\ Weight[k] = GroupBase * w
        BY <2>3, <2>4, <2>6, <2>7
      <4>2. value + (GroupBase * t + d) * w = (value + d * w) + t * (GroupBase * w)
        BY <2>3, TakeTail, ConstantTypes
      <4>3. QED BY <2>6, <3>1, <4>1, <4>2
    <3>3. Code[value + u * Weight[count]] = SubSeq(buffer, 1, count) \o Code[u]
      BY <2>1, <2>2, <2>8, <3>1, <3>2 DEF Extended
    <3>4. u \in 0..MaxValue
      <4>1. u <= u * w
        <5>1. PICK e \in Nat : w = e + 1
          <6>1. w - 1 \in Nat /\ w = (w - 1) + 1
            OBVIOUS
          <6>2. QED BY <6>1
        <5>2. u * w = u * e + u /\ u * e \in Nat
          BY <5>1
        <5>3. QED BY <5>2
      <4>2. value + u * w <= MaxValue
        BY <2>6, <2>8, <3>2
      <4>3. u * w \in Nat
        OBVIOUS
      <4>4. u <= MaxValue
        BY <2>3, <4>1, <4>2, <4>3, MaxValueType
      <4>5. QED BY <4>4, MaxValueType
    <3>5. u \div GroupBase = t /\ u % GroupBase = d
      BY <3>1, DivMod, ConstantTypes
    <3>6. ~(u < GroupBase)
      BY <3>1, ConstantTypes
    <3>7. Code[u] = <<Here>> \o Code[t]
      BY <2>5, <3>4, <3>5, <3>6, CodeDefined DEF Coded
    <3>8. t \in 0..MaxValue
      BY <3>4, <3>5, <3>6, RestBelow, MaxValueType
    <3>9. PICK c \in Seq(Byte) : c = Code[t]
      BY <3>8, CodeDefined
    <3>10. buffer \in Seq(Byte)
      BY DEF IInv, TypeOK
    <3>a. count <= Len(buffer) /\ k <= Len(buffer)
      BY <2>3, <2>7, <3>10
    <3>11. PICK s \in Seq(Byte) : s = SubSeq(buffer, 1, count)
      BY <2>3, <3>10, <3>a, FirstBytes
    <3>12. PICK z \in Seq(Byte) : z = SubSeq(buffer, 1, k)
      BY <2>3, <2>7, <3>10, <3>a, FirstBytes
    <3>13. s \o (<<Here>> \o c) = z \o c
      <4>1. z = s \o <<Here>>
        BY <2>3, <2>7, <3>10, <3>11, <3>12, OneByteMore
      <4>2. s \o (<<Here>> \o c) = (s \o <<Here>>) \o c
        <5>1. <<Here>> \in Seq(Byte)
          BY <2>3
        <5>2. PICK h \in Seq(Byte) : h = <<Here>>
          BY <5>1
        <5>3. s \o (h \o c) = (s \o h) \o c
          BY ConcatAssociative
        <5>4. QED BY <5>2, <5>3
      <4>3. QED BY <4>1, <4>2
    <3>14. QED BY <3>2, <3>3, <3>7, <3>9, <3>11, <3>12, <3>13
  <2>9. count' = k /\ buffer' = buffer
    BY <2>2, <2>3, <2>7
  <2>10. QED BY <2>8, <2>9 DEF Extended
<1>2. CASE UNCHANGED vars
  BY <1>2 DEF vars, Extended
<1>3. CASE pc' # "read"
  BY <1>3 DEF Extended
<1>4. CASE DecodeCall
  BY <1>4 DEF DecodeCall, Extended
<1>5. CASE Next /\ ~ReadMore /\ ~DecodeCall
  <2>1. pc' # "read"
    BY <1>5 DEF Next, EncodeRefused, EncodeCall, WriteByte, ReadNothing,
         ReadTooLong, ReadOverflow, ReadNonCanonical, Raise, ReadLast, EncodeAgain
  <2>2. QED BY <2>1 DEF Extended
<1>6. QED BY <1>1, <1>2, <1>4, <1>5

\* A code and the buffer agree on the groups read and on the byte refused.
LEMMA NoCode ==
  ASSUME IInv, Peeled, mode = "foreign", pc = "read", Available,
         \/ TooLong
         \/ ~TooLong /\ Overflow
         \/ NonCanonical,
         NEW c, Shape(c), Len(c) >= count + 1,
         \A i \in 1..(count + 1) : c[i] = buffer[i]
  PROVE  FALSE
<1>1. /\ count \in Nat /\ count < MaxCount /\ Here = buffer[count + 1] /\ Here \in Byte
  <2>1. count \in Nat /\ count < MaxCount /\ offset = count /\ buffer \in Seq(Byte)
    BY DEF IInv, TypeOK, Locals, Peeled
  <2>2. QED BY <2>1 DEF Available, Here
<1>2. c[count + 1] = Here /\ Len(c) \in 1..MaxCount
  BY <1>1 DEF Shape
<1>3. More(Here) <=> count + 1 < Len(c)
  BY <1>1, <1>2 DEF Shape
<1>4. CASE TooLong
  <2>1. count + 1 = MaxCount /\ More(Here)
    BY <1>4 DEF TooLong, AtLimit
  <2>2. QED BY <1>1, <1>2, <1>3, <2>1, ConstantTypes
<1>5. CASE ~TooLong /\ Overflow
  <2>1. count + 1 = MaxCount /\ ~More(Here) /\ Data(Here) > LastGroup
    BY <1>5 DEF TooLong, AtLimit, Overflow
  <2>2. Len(c) = MaxCount /\ Here <= LastGroup
    <3>1. Len(c) = MaxCount
      BY <1>1, <1>2, <2>1, ConstantTypes
    <3>2. QED BY <1>2, <2>1, <3>1 DEF Shape
  <2>3. Data(Here) = Here
    BY <2>1 DEF Data
  <2>4. QED BY <1>1, <2>1, <2>2, <2>3, ConstantTypes DEF Byte
<1>6. CASE NonCanonical
  <2>1. ~More(Here) /\ count + 1 > 1 /\ Here = 0
    BY <1>6 DEF NonCanonical, Data
  <2>2. Len(c) = count + 1
    BY <1>1, <1>2, <1>3, <2>1
  <2>3. QED BY <1>2, <2>1, <2>2 DEF Shape
<1>7. QED BY <1>4, <1>5, <1>6

\* A code at the buffer's start is longer than the bytes that ask for more.
LEMMA CodeLonger ==
  ASSUME IInv, Peeled, mode = "foreign", pc = "read",
         NEW c, Shape(c), StartsWith(buffer, c)
  PROVE  Len(c) >= count + 1 /\ \A i \in 1..Len(c) : c[i] = buffer[i]
<1>1. /\ count \in Nat /\ buffer \in Seq(Byte) /\ c \in Seq(Byte) /\ Len(c) \in Nat \ {0}
      /\ \A i \in 1..count : More(buffer[i])
  BY DEF IInv, TypeOK, Peeled, Shape
<1>2. \A i \in 1..Len(c) : c[i] = buffer[i]
  BY <1>1, Prefix
<1>3. ASSUME Len(c) <= count PROVE FALSE
  <2>1. Len(c) \in 1..Len(c) /\ Len(c) \in 1..count
    BY <1>1, <1>3
  <2>2. More(c[Len(c)])
    BY <1>1, <1>2, <2>1
  <2>3. QED BY <1>1, <2>1, <2>2 DEF Shape
<1>4. QED BY <1>1, <1>2, <1>3

\* A byte is refused only where no code goes on.
LEMMA ByteRefused ==
  ASSUME IInv, Peeled, mode = "foreign", pc = "read", Available,
         \/ TooLong
         \/ ~TooLong /\ Overflow
         \/ NonCanonical,
         NEW n \in 0..MaxValue
  PROVE  ~StartsWith(buffer, Code[n]) /\ ~StartsWith(Code[n], buffer)
<1>1. PICK c : c = Code[n]
  OBVIOUS
<1>2. Shape(c)
  BY <1>1, CodeShape
<1>3. c \in Seq(Byte) /\ buffer \in Seq(Byte) /\ count \in Nat
  BY <1>2 DEF Shape, IInv, TypeOK
<1>4. ASSUME StartsWith(buffer, c) PROVE FALSE
  <2>1. Len(c) >= count + 1 /\ \A i \in 1..Len(c) : c[i] = buffer[i]
    BY <1>2, <1>4, CodeLonger
  <2>2. \A i \in 1..(count + 1) : c[i] = buffer[i]
    BY <1>3, <2>1
  <2>3. QED BY <1>2, <2>1, <2>2, NoCode
<1>5. ASSUME StartsWith(c, buffer) PROVE FALSE
  <2>1. Len(buffer) <= Len(c) /\ \A i \in 1..Len(buffer) : c[i] = buffer[i]
    BY <1>3, <1>5, Prefix
  <2>2. count + 1 <= Len(buffer)
    BY <1>3 DEF Available, Peeled
  <2>3. Len(c) >= count + 1 /\ \A i \in 1..(count + 1) : c[i] = buffer[i]
    BY <1>3, <2>1, <2>2
  <2>4. QED BY <1>2, <2>3, NoCode
<1>6. QED BY <1>1, <1>4, <1>5

\* At the end of the buffer no code has ended, and one could go on.
LEMMA EndRefused ==
  ASSUME IInv, Peeled, Extended, mode = "foreign", pc = "read", ~Available
  PROVE  /\ \A n \in 0..MaxValue : ~StartsWith(buffer, Code[n])
         /\ \E n \in 0..MaxValue : StartsWith(Code[n], buffer)
<1>1. count \in Nat /\ buffer \in Seq(Byte) /\ Len(buffer) = count
  BY DEF IInv, TypeOK, Peeled, Available
<1>2. ASSUME NEW n \in 0..MaxValue, StartsWith(buffer, Code[n]) PROVE FALSE
  <2>1. PICK c : c = Code[n]
    OBVIOUS
  <2>2. Shape(c)
    BY <2>1, CodeShape
  <2>3. Len(c) >= count + 1
    BY <1>2, <2>1, <2>2, CodeLonger
  <2>4. Len(c) <= Len(buffer) /\ Len(c) \in Nat
    BY <1>2, <2>1, <2>2 DEF StartsWith, Shape
  <2>5. QED BY <1>1, <2>3, <2>4
<1>3. PICK n \in 0..MaxValue : n = value + 1 * Weight[count]
  BY OneMore
<1>4. Code[n] = SubSeq(buffer, 1, count) \o Code[1]
  <2>1. value + 1 * Weight[count] <= MaxValue /\ 1 \in Nat \ {0}
    BY <1>3, MaxValueType
  <2>2. QED BY <1>3, <2>1 DEF Extended
<1>5. SubSeq(buffer, 1, count) = buffer
  <2>1. PICK s \in Seq(Byte) : s = SubSeq(buffer, 1, count)
    BY <1>1, FirstBytes
  <2>2. Len(s) = count /\ \A i \in 1..count : s[i] = buffer[i]
    BY <1>1, <2>1, FirstBytes
  <2>3. s = buffer
    BY <1>1, <2>2
  <2>4. QED BY <2>1, <2>3
<1>6. PICK o \in Seq(Byte) : o = Code[1]
  <2>1. 1 \in 0..MaxValue
    <3>1. value \in Nat /\ Weight[count] \in Nat \ {0} /\ n <= MaxValue
      <4>1. count \in 0..MaxCount
        BY <1>1, OneMore, ConstantTypes
      <4>2. QED BY <1>3, <4>1, VarUIntAssumption, MaxValueType DEF IInv, TypeOK
    <3>2. QED BY <1>3, <3>1, MaxValueType
  <2>2. QED BY <2>1, CodeDefined
<1>7. StartsWith(buffer \o o, buffer)
  <2>1. PICK s \in Seq(Byte) : s = buffer \o o
    <3>1. buffer \o o \in Seq(Byte)
      BY <1>1
    <3>2. QED BY <3>1
  <2>2. Len(buffer) <= Len(s) /\ \A i \in 1..Len(buffer) : s[i] = buffer[i]
    BY <1>1, <2>1
  <2>3. QED BY <1>1, <2>1, <2>2, Prefix
<1>8. StartsWith(Code[n], buffer)
  BY <1>4, <1>5, <1>6, <1>7
<1>9. QED BY <1>2, <1>8

LEMMA NextRefusal ==
  ASSUME IInv, CInv, Extended, RefusalExact, [Next]_vars
  PROVE  RefusalExact'
<1>1. SUFFICES ASSUME mode' = "foreign", pc' = "DecodeError" PROVE RefusalExact'
  BY DEF RefusalExact
<1>2. Peeled
  BY DEF CInv
<1>3. CASE ReadNothing
  <2>1. /\ pc = "read" /\ ~Available /\ mode = "foreign" /\ buffer' = buffer /\ error' = "truncated"
    BY <1>1, <1>3 DEF ReadNothing, Raise
  <2>2. /\ \A n \in 0..MaxValue : ~StartsWith(buffer, Code[n])
        /\ \E n \in 0..MaxValue : StartsWith(Code[n], buffer)
    BY <1>2, <2>1, EndRefused
  <2>3. QED BY <2>1, <2>2 DEF RefusalExact
<1>4. CASE ReadTooLong \/ ReadOverflow \/ ReadNonCanonical
  <2>1. /\ pc = "read" /\ Available /\ mode = "foreign" /\ buffer' = buffer /\ error' # "truncated"
        /\ \/ TooLong
           \/ ~TooLong /\ Overflow
           \/ NonCanonical
    BY <1>1, <1>4 DEF ReadTooLong, ReadOverflow, ReadNonCanonical, Raise
  <2>2. \A n \in 0..MaxValue : ~StartsWith(buffer, Code[n]) /\ ~StartsWith(Code[n], buffer)
    BY <1>2, <2>1, ByteRefused
  <2>3. QED BY <2>1, <2>2 DEF RefusalExact
<1>5. CASE UNCHANGED vars
  BY <1>5 DEF vars, RefusalExact
<1>6. CASE Next /\ ~ReadNothing /\ ~ReadTooLong /\ ~ReadOverflow /\ ~ReadNonCanonical
  BY <1>1, <1>6
  DEF Next, EncodeRefused, EncodeCall, WriteByte, DecodeCall, ReadMore, Take, ReadLast, EncodeAgain
<1>7. QED BY <1>3, <1>4, <1>5, <1>6

\* A refused buffer has no number's code at its start, and is called truncated
\* exactly if more bytes could have made one.
THEOREM RefusalCorrect == Spec => []RefusalExact
<1>1. Init => CInv /\ Extended /\ RefusalExact
  <2>1. Init => RefusalExact
    BY DEF Init, RefusalExact
  <2>2. QED BY <2>1, InitCInv, InitExtended
<1>2. IInv /\ CInv /\ Extended /\ RefusalExact /\ [Next]_vars => (CInv /\ Extended /\ RefusalExact)'
  BY NextCInv, NextExtended, NextRefusal
<1>3. QED BY <1>1, <1>2, Invariance, PTL DEF Spec
=============================================================================
