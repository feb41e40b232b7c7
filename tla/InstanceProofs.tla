--------------------------- MODULE InstanceProofs ---------------------------
(***************************************************************************)
(* Whatever the schema, the instances, the objects they share and the      *)
(* threads do, an encode writes for each field something the field held    *)
(* during the call, and decode gives every field what encode wrote for it. *)
(***************************************************************************)
EXTENDS Instance, FiniteSetTheorems, SequenceTheorems, TLAPS

AttrInv ==
  /\ alive \subseteq Objects
  /\ attr \in [Objects -> [Indexes -> Values]]

LEMMA LenOfFunction ==
  ASSUME NEW T, NEW m \in Nat, NEW s \in [1..m -> T]
  PROVE  Len(s) = m
OBVIOUS

\* The objects taken from a set differ.
LEMMA FreshObjects ==
  ASSUME NEW S \in SUBSET Cells
  PROVE  /\ SetToSeq(S) \in [1..Len(SetToSeq(S)) -> S]
         /\ Len(SetToSeq(S)) \in Nat
         /\ \A i, j \in 1..Len(SetToSeq(S)) :
              SetToSeq(S)[i] = SetToSeq(S)[j] => i = j
<1> DEFINE n == Cardinality(S)
<1>1. IsFiniteSet(S)
  BY FS_Subset, InstanceAssumption DEF InstanceAssumption
<1>2. n \in Nat /\ ExistsBijection(1..n, S)
  BY <1>1, FS_CardinalityType
<1>3. PICK f \in [1..n -> S] : IsInjective(f)
  BY <1>2 DEF ExistsBijection, Bijection, Injection, Surjection
<1>4. SetToSeq(S) \in [1..n -> S] /\ IsInjective(SetToSeq(S))
  BY <1>3 DEF SetToSeq
<1>5. Len(SetToSeq(S)) = n
  BY <1>2, <1>4, LenOfFunction
<1> QED
  BY <1>2, <1>4, <1>5 DEF IsInjective

LEMMA ReferredContains ==
  /\ 1..Defaults \subseteq Referred
  /\ \A o \in alive, i \in Indexes : attr[o][i] \in Referred
<1>1. \A o \in alive, i \in Indexes : attr[o][i] \in Assigned
  BY DEF Assigned
<1> QED
  BY <1>1 DEF Referred

\* The arguments of a call of __init__.
Arguments == [Indexes -> {Missing, None} \cup Cells]

Enough(args) == \A i \in Indexes : CallsFactory(args, i) => i <= Len(Fresh(args))

\* What a factory made is new.
LEMMA FactoryMakes ==
  ASSUME NEW args, Enough(args), NEW i \in Indexes, CallsFactory(args, i)
  PROVE  Fresh(args)[i] \in Unreferred \ Given(args)
<1>1. PICK S \in SUBSET Cells : S = Unreferred \ Given(args)
  BY DEF Unreferred
<1>2. Fresh(args) = SetToSeq(S)
  BY <1>1 DEF Fresh
<1>3. i \in 1..Len(SetToSeq(S))
  BY <1>2, FreshObjects, InstanceAssumption DEF Enough, InstanceAssumption, Indexes
<1> QED
  BY <1>1, <1>2, <1>3, FreshObjects

LEMMA DefaultType ==
  ASSUME NEW i \in Indexes
  PROVE  Schema[i].default \in {Missing, None} \cup 1..Defaults
<1>1. Schema[i] \in Field
  BY InstanceAssumption DEF InstanceAssumption, Indexes
<1> QED
  BY <1>1 DEF Field

LEMMA ValueType ==
  ASSUME NEW args \in Arguments, Enough(args), NEW i \in Indexes
  PROVE  Value(args, i) \in Values
<1>1. 1..Defaults \subseteq Cells
  BY InstanceAssumption DEF InstanceAssumption
<1>2. args[i] \in Values
  BY DEF Arguments, Values
<1>3. CASE CallsFactory(args, i)
  <2>1. Value(args, i) = Fresh(args)[i]
    BY <1>3 DEF CallsFactory, Value, Omitted
  <2> QED
    BY <1>3, <2>1, FactoryMakes DEF Unreferred, Values
<1>4. CASE ~CallsFactory(args, i)
  <2>1. Value(args, i) \in {args[i], Schema[i].default, None}
    BY <1>4 DEF CallsFactory, Value, Omitted
  <2> QED
    BY <1>1, <1>2, <2>1, DefaultType DEF Values
<1> QED
  BY <1>3, <1>4

LEMMA ConstructType ==
  ASSUME AttrInv, NEW o \in Objects, NEW args \in Arguments, NEW cells,
         Construct(o, args, cells)
  PROVE  AttrInv'
<1>1. Enough(args)
  BY DEF Construct, Enough
<1>2. [i \in Indexes |-> Value(args, i)] \in [Indexes -> Values]
  BY <1>1, ValueType
<1>3. /\ alive' = alive \cup {o}
      /\ attr' = [attr EXCEPT ![o] = [i \in Indexes |-> Value(args, i)]]
  BY DEF Construct
<1> QED
  BY <1>2, <1>3 DEF AttrInv

\* encode changes no instance.
LEMMA EncodeUnchanged ==
  ASSUME \/ EncodeCall \/ FieldRaises \/ SkipNone \/ ReadField
         \/ CodecRaises \/ WriteField \/ EncodeReturn
  PROVE  alive' = alive /\ attr' = attr
<1>1. ASSUME NEW e, Goes(e) PROVE alive' = alive /\ attr' = attr
  BY <1>1 DEF Goes
<1>2. CASE EncodeCall \/ FieldRaises \/ CodecRaises \/ EncodeReturn
  BY <1>2 DEF EncodeCall, FieldRaises, CodecRaises, EncodeReturn, Raises
<1>3. CASE SkipNone
  BY <1>1, <1>3, Zenon DEF SkipNone
<1>4. CASE ReadField
  BY <1>1, <1>4, Zenon DEF ReadField
<1>5. CASE WriteField
  BY <1>1, <1>5, Zenon DEF WriteField
<1> QED
  BY <1>2, <1>3, <1>4, <1>5

-----------------------------------------------------------------------------
(* What an encode writes, and decode reads.                                *)

LEMMA AppendToFunction ==
  ASSUME NEW T, NEW n \in Nat, NEW s \in [1..n -> T], NEW x \in T
  PROVE  /\ Append(s, x) \in [1..(n + 1) -> T]
         /\ Append(s, x)[n + 1] = x
         /\ \A i \in 1..n : Append(s, x)[i] = s[i]
         /\ Len(Append(s, x)) = n + 1
<1>1. s \in Seq(T) /\ Len(s) = n
  BY LenOfFunction
<1>2. Append(s, x) \in Seq(T) /\ Len(Append(s, x)) = n + 1
  BY <1>1, AppendProperties
<1>3. Append(s, x) \in [1..(n + 1) -> T]
  BY <1>2, LenProperties
<1> QED
  BY <1>1, <1>2, <1>3, AppendProperties

LEMMA Numbers ==
  /\ Len(Schema) \in Nat /\ Indexes = 1..Len(Schema)
  /\ Empty \in Contents
  /\ \A x \in Contents : x # None /\ x # Missing
  /\ \A c \in Cells : c # None /\ c # Missing
BY InstanceAssumption DEF InstanceAssumption, Indexes, None, Missing

-----------------------------------------------------------------------------
(* The place of a field's contents in the payload.                         *)

LEMMA PlaceZero ==
  ASSUME NEW m
  PROVE  Place(m, 0) = 0
<1>1. {j \in 1..0 : Present(m, j)} = {}
  OBVIOUS
<1> QED
  BY <1>1, FS_EmptySet DEF Place

LEMMA PlaceType ==
  ASSUME NEW m, NEW n \in Nat
  PROVE  Place(m, n) \in Nat /\ Place(m, n) <= n
<1>1. IsFiniteSet(1..n) /\ Cardinality(1..n) = n
  BY FS_Interval
<1>2. {j \in 1..n : Present(m, j)} \in SUBSET (1..n)
  OBVIOUS
<1> QED
  BY <1>1, <1>2, FS_Subset, FS_CardinalityType DEF Place

LEMMA PlaceStep ==
  ASSUME NEW m, NEW n \in Nat
  PROVE  Place(m, n + 1) =
           IF Present(m, n + 1) THEN Place(m, n) + 1 ELSE Place(m, n)
<1> DEFINE S(k) == {j \in 1..k : Present(m, j)}
<1>1. IsFiniteSet(S(n)) /\ n + 1 \notin S(n)
  <2>1. IsFiniteSet(1..n) /\ S(n) \in SUBSET (1..n)
    BY FS_Interval
  <2> QED
    BY <2>1, FS_Subset
<1>2. S(n + 1) = IF Present(m, n + 1) THEN S(n) \cup {n + 1} ELSE S(n)
  <2>1. 1..(n + 1) = (1..n) \cup {n + 1}
    OBVIOUS
  <2> QED
    BY <2>1
<1> HIDE DEF S
<1>3. Cardinality(S(n + 1)) =
        IF Present(m, n + 1) THEN Cardinality(S(n)) + 1 ELSE Cardinality(S(n))
  BY <1>1, <1>2, FS_AddElement
<1> QED
  BY <1>3 DEF Place, S

\* A field that is present has a place, among those of the fields up to it.
LEMMA PlaceBounds ==
  ASSUME NEW m, NEW n \in Nat, NEW i \in 1..n
  PROVE  /\ Place(m, i) <= Place(m, n)
         /\ Present(m, i) => Place(m, i) \in 1..Place(m, n)
<1>1. Place(m, i) \in Nat /\ Place(m, n) \in Nat /\ Place(m, i - 1) \in Nat
  BY PlaceType
<1>2. Place(m, i) <= Place(m, n)
  <2> DEFINE S(k) == {j \in 1..k : Present(m, j)}
  <2>1. IsFiniteSet(1..n)
    BY FS_Interval
  <2>2. S(n) \in SUBSET (1..n) /\ S(i) \in SUBSET S(n)
    OBVIOUS
  <2> HIDE DEF S
  <2>3. IsFiniteSet(S(n))
    BY <2>1, <2>2, FS_Subset
  <2>4. Cardinality(S(i)) <= Cardinality(S(n))
    BY <2>2, <2>3, FS_Subset
  <2> QED
    BY <2>4 DEF Place, S
<1>3. Present(m, i) => Place(m, i) = Place(m, i - 1) + 1
  <2>1. i - 1 \in Nat /\ (i - 1) + 1 = i
    OBVIOUS
  <2> QED
    BY <2>1, PlaceStep
<1> QED
  BY <1>1, <1>2, <1>3

\* Whether a field is present, and where, depends on the bits alone, and only
\* on those up to it.
LEMMA PlaceSame ==
  ASSUME NEW m, NEW k, NEW n \in Nat,
         \A j \in 1..n : Present(m, j) <=> Present(k, j)
  PROVE  Place(m, n) = Place(k, n)
<1>1. {j \in 1..n : Present(m, j)} = {j \in 1..n : Present(k, j)}
  OBVIOUS
<1> QED
  BY <1>1 DEF Place

-----------------------------------------------------------------------------
(* Bits, payload and what was written for the first n fields agree.        *)

Match(m, n) ==
  /\ m.bits \subseteq 1..n
  /\ m.written \in [1..n -> Content \ {Missing}]
  /\ m.payload \in [1..Place(m, n) -> Contents]
  /\ \A i \in 1..n : m.written[i] = Argument(m, i)

LEMMA MatchSame ==
  ASSUME NEW m, NEW k, NEW n \in Nat, Match(m, n),
         k.bits = m.bits, k.written = m.written, k.payload = m.payload
  PROVE  Match(k, n)
<1>1. \A i : Present(k, i) <=> Present(m, i)
  BY DEF Present
<1>2. \A i \in Nat : Place(k, i) = Place(m, i)
  BY <1>1, PlaceSame
<1>3. \A i \in 1..n : Argument(k, i) = Argument(m, i)
  BY <1>1, <1>2 DEF Argument
<1> QED
  BY <1>2, <1>3 DEF Match

LEMMA MatchNothing ==
  ASSUME NEW m, m.bits = {}, m.written = << >>, m.payload = << >>
  PROVE  Match(m, 0)
BY PlaceZero DEF Match

\* What the bits of one more field do to those before it: nothing.
LEMMA ArgumentSame ==
  ASSUME NEW e, NEW f, NEW n \in Nat, Match(e, n),
         \A j \in 1..n : j \in f.bits <=> j \in e.bits,
         \A j \in 1..Place(e, n) : f.payload[j] = e.payload[j]
  PROVE  /\ Place(f, n) = Place(e, n)
         /\ \A i \in 1..n : Argument(f, i) = Argument(e, i)
<1>1. \A j \in 1..n : Present(f, j) <=> Present(e, j)
  BY DEF Present
<1>2. Place(f, n) = Place(e, n)
  BY <1>1, PlaceSame
<1>3. ASSUME NEW i \in 1..n PROVE Argument(f, i) = Argument(e, i)
  <2>1. Place(f, i) = Place(e, i)
    BY <1>1, PlaceSame
  <2>2. Present(e, i) => Place(e, i) \in 1..Place(e, n)
    BY PlaceBounds
  <2> QED
    BY <1>1, <2>1, <2>2 DEF Argument
<1> QED
  BY <1>2, <1>3

LEMMA MatchSkips ==
  ASSUME NEW e, NEW f, NEW n \in Nat, Match(e, n),
         Schema[n + 1].optional,
         f.bits = e.bits, f.payload = e.payload,
         f.written = Append(e.written, None)
  PROVE  Match(f, n + 1)
<1>1. /\ Place(f, n) = Place(e, n)
      /\ \A i \in 1..n : Argument(f, i) = Argument(e, i)
  BY ArgumentSame
<1>2. ~Present(f, n + 1)
  BY DEF Present, Match
<1>3. Place(f, n + 1) = Place(e, n) /\ Argument(f, n + 1) = None
  BY <1>1, <1>2, PlaceStep DEF Argument
<1>4. /\ f.written \in [1..(n + 1) -> Content \ {Missing}]
      /\ f.written[n + 1] = None
      /\ \A i \in 1..n : f.written[i] = e.written[i]
  <2>1. None \in Content \ {Missing}
    BY DEF Content, None, Missing
  <2>2. e.written \in [1..n -> Content \ {Missing}]
    BY DEF Match
  <2>3. Append(e.written, None) \in [1..(n + 1) -> Content \ {Missing}]
    BY <2>1, <2>2, AppendToFunction
  <2>4. Append(e.written, None)[n + 1] = None
    BY <2>1, <2>2, AppendToFunction
  <2>5. \A i \in 1..n : Append(e.written, None)[i] = e.written[i]
    BY <2>1, <2>2, AppendToFunction
  <2> QED
    BY <2>3, <2>4, <2>5
<1>5. \A i \in 1..(n + 1) : f.written[i] = Argument(f, i)
  <2>1. \A i \in 1..(n + 1) : i \in 1..n \/ i = n + 1
    OBVIOUS
  <2> QED
    BY <1>1, <1>3, <1>4, <2>1 DEF Match
<1>6. f.bits \subseteq 1..(n + 1)
  BY DEF Match
<1> QED
  BY <1>3, <1>4, <1>5, <1>6 DEF Match

LEMMA MatchWrites ==
  ASSUME NEW e, NEW f, NEW n \in Nat, Match(e, n), NEW x \in Contents,
         f.bits = (IF Schema[n + 1].optional THEN e.bits \cup {n + 1}
                   ELSE e.bits),
         f.payload = Append(e.payload, x),
         f.written = Append(e.written, x)
  PROVE  Match(f, n + 1)
<1>0. Place(e, n) \in Nat
  BY PlaceType
<1>1. /\ f.payload \in [1..(Place(e, n) + 1) -> Contents]
      /\ f.payload[Place(e, n) + 1] = x
      /\ \A i \in 1..Place(e, n) : f.payload[i] = e.payload[i]
  <2>1. e.payload \in [1..Place(e, n) -> Contents]
    BY DEF Match
  <2>2. Append(e.payload, x) \in [1..(Place(e, n) + 1) -> Contents]
    BY <1>0, <2>1, AppendToFunction
  <2>3. Append(e.payload, x)[Place(e, n) + 1] = x
    BY <1>0, <2>1, AppendToFunction
  <2>4. \A i \in 1..Place(e, n) : Append(e.payload, x)[i] = e.payload[i]
    BY <1>0, <2>1, AppendToFunction
  <2> QED
    BY <2>2, <2>3, <2>4
<1>2. /\ Place(f, n) = Place(e, n)
      /\ \A i \in 1..n : Argument(f, i) = Argument(e, i)
  <2>1. \A j \in 1..n : j \in f.bits <=> j \in e.bits
    OBVIOUS
  <2> QED
    BY <1>1, <2>1, ArgumentSame
<1>3. Present(f, n + 1)
  BY DEF Present
<1>4. Place(f, n + 1) = Place(e, n) + 1 /\ Argument(f, n + 1) = x
  BY <1>1, <1>2, <1>3, PlaceStep DEF Argument
<1>5. /\ f.written \in [1..(n + 1) -> Content \ {Missing}]
      /\ f.written[n + 1] = x
      /\ \A i \in 1..n : f.written[i] = e.written[i]
  <2>1. x \in Content \ {Missing}
    BY Numbers DEF Content
  <2>2. e.written \in [1..n -> Content \ {Missing}]
    BY DEF Match
  <2>3. Append(e.written, x) \in [1..(n + 1) -> Content \ {Missing}]
    BY <2>1, <2>2, AppendToFunction
  <2>4. Append(e.written, x)[n + 1] = x
    BY <2>1, <2>2, AppendToFunction
  <2>5. \A i \in 1..n : Append(e.written, x)[i] = e.written[i]
    BY <2>1, <2>2, AppendToFunction
  <2> QED
    BY <2>3, <2>4, <2>5
<1>6. \A i \in 1..(n + 1) : f.written[i] = Argument(f, i)
  <2>1. \A i \in 1..(n + 1) : i \in 1..n \/ i = n + 1
    OBVIOUS
  <2> QED
    BY <1>2, <1>4, <1>5, <2>1 DEF Match
<1>7. f.bits \subseteq 1..(n + 1)
  BY DEF Match
<1> QED
  BY <1>1, <1>4, <1>5, <1>6, <1>7 DEF Match

-----------------------------------------------------------------------------
(* The inductive invariant.                                                *)

Calls == [object: Objects, at: Nat, value: Cells \cup {Missing},
          bits: SUBSET Nat, payload: Seq(Contents), written: Seq(Content)]

StoreInv ==
  /\ contents \in [Cells -> Contents]
  /\ held \in [Indexes -> SUBSET Content]

\* At most one encode is in progress, and what it has written so far agrees.
CallInv ==
  /\ \A e, f \in call : e = f
  /\ call \subseteq Calls
  /\ \A e \in call : /\ e.object \in alive /\ e.at \in 1..(Len(Schema) + 1)
                     /\ Match(e, e.at - 1)

MessageInv ==
  /\ \A m, k \in message : m = k
  /\ \A m \in message : Match(m, Len(Schema))

\* The history has what the fields to come hold, and what was read of the
\* field the call is at.
HeldInv ==
  \A e \in call, i \in Indexes :
    /\ e.at <= i => Shown(attr[e.object][i]) \in held[i]
    /\ e.at = i /\ e.value # Missing => Shown(e.value) \in held[i]

IInv == AttrInv /\ StoreInv /\ CallInv /\ MessageInv /\ HeldInv

-----------------------------------------------------------------------------
(* __init__: what it makes, and that it leaves the rest alone.             *)

\* Whatever an object contains that nothing here refers to.
LEMMA FilledContents ==
  ASSUME StoreInv, NEW S \in SUBSET Unreferred, NEW own \in [S -> Contents]
  PROVE  /\ Filled(own) \in [Cells -> Contents]
         /\ \A c \in Cells \cap Referred : Filled(own)[c] = contents[c]
BY DEF Filled, StoreInv, Unreferred

LEMMA MadeContents ==
  ASSUME NEW args, Enough(args), NEW cells \in [Cells -> Contents]
  PROVE  /\ Made(args, cells) \in [Cells -> Contents]
         /\ \A c \in Cells \cap (Referred \cup Given(args)) :
              Made(args, cells)[c] = cells[c]
<1>1. \A i \in Indexes :
        CallsFactory(args, i) => Fresh(args)[i] \in Unreferred \ Given(args)
  BY FactoryMakes
<1>2. Made(args, cells) \in [Cells -> Contents]
  BY Numbers DEF Made
<1>3. ASSUME NEW c \in Cells \cap (Referred \cup Given(args))
      PROVE  Made(args, cells)[c] = cells[c]
  <2>1. ~\E i \in Indexes : CallsFactory(args, i) /\ Fresh(args)[i] = c
    BY <1>1, <1>3 DEF Unreferred
  <2> QED
    BY <2>1 DEF Made
<1> QED
  BY <1>2, <1>3

LEMMA ConstructSteps ==
  ASSUME NEW o \in Objects, NEW args, NEW cells, Construct(o, args, cells)
  PROVE  /\ Enough(args)
         /\ o \notin alive /\ alive' = alive \cup {o}
         /\ attr' = [attr EXCEPT ![o] = [i \in Indexes |-> Value(args, i)]]
         /\ contents' = Made(args, cells)
BY DEF Construct, Enough

\* The contents with the arguments made: other objects are as they were.
Stored(cells) ==
  /\ cells \in [Cells -> Contents]
  /\ \A c \in Cells \cap Referred : cells[c] = contents[c]

\* A value that an instance or the encode holds shows the same contents after.
LEMMA ConstructShows ==
  ASSUME IInv, NEW o \in Objects, NEW args, NEW cells, Stored(cells),
         Construct(o, args, cells)
  PROVE  \A v \in Values \cap (Referred \cup {None, Missing}) :
           Shown(v)' = Shown(v)
<1>1. \A c \in Cells \cap Referred : contents'[c] = contents[c]
  BY ConstructSteps, MadeContents DEF Stored
<1> QED
  BY <1>1 DEF Shown, ShownIn, Values

LEMMA ConstructInvariant ==
  ASSUME IInv, NEW o \in Objects, NEW args \in Arguments, NEW cells,
         Stored(cells), Construct(o, args, cells),
         UNCHANGED <<call, held, message>>
  PROVE  IInv'
<1>1. AttrInv'
  BY ConstructType DEF IInv
<1>2. StoreInv'
  BY ConstructSteps, MadeContents DEF IInv, StoreInv, Stored
<1>3. CallInv'
  BY ConstructSteps DEF IInv, CallInv
<1>4. MessageInv'
  BY DEF IInv, MessageInv
<1>5. HeldInv'
  <2> SUFFICES ASSUME NEW e \in call, NEW i \in Indexes
               PROVE  /\ e.at <= i => Shown(attr[e.object][i])' \in held[i]
                      /\ e.at = i /\ e.value # Missing =>
                           Shown(e.value)' \in held[i]
    BY DEF HeldInv
  <2>1. e.object \in alive /\ e.value \in Cells \cup {Missing}
    BY DEF IInv, CallInv, Calls
  <2>2. attr'[e.object] = attr[e.object]
    BY <2>1, ConstructSteps DEF IInv, AttrInv
  <2>3. attr[e.object][i] \in Values \cap Referred
    BY <2>1, ReferredContains DEF IInv, AttrInv
  <2>4. e.value \in Values \cap Referred
    <3>1. e.value \in Referred
      BY DEF Referred, BeingWritten
    <3> QED
      BY <2>1, <3>1 DEF Values
  <2>5. /\ Shown(attr[e.object][i])' = Shown(attr[e.object][i])
        /\ Shown(e.value)' = Shown(e.value)
    <3>1. \A v \in Values \cap (Referred \cup {None, Missing}) :
            Shown(v)' = Shown(v)
      BY ConstructShows
    <3> QED
      BY <2>2, <2>3, <2>4, <3>1 DEF Shown, ShownIn
  <2> QED
    BY <2>5 DEF IInv, HeldInv
<1> QED
  BY <1>1, <1>2, <1>3, <1>4, <1>5 DEF IInv

LEMMA CreateInvariant ==
  ASSUME IInv, Create
  PROVE  IInv'
<1>1. PICK o \in Objects, args \in Arguments :
        \E own \in [Given(args) \cap Unreferred -> Contents] :
          Construct(o, args, Filled(own))
  BY DEF Create, Arguments
<1>2. PICK own \in [Given(args) \cap Unreferred -> Contents] :
        Construct(o, args, Filled(own))
  BY <1>1
<1>3. PICK cells : cells = Filled(own)
  OBVIOUS
<1>4. Stored(cells)
  BY <1>3, FilledContents DEF IInv, Stored
<1>5. UNCHANGED <<call, held, message>>
  BY DEF Create
<1> QED
  BY <1>2, <1>3, <1>4, <1>5, ConstructInvariant

LEMMA DecodeIs ==
  ASSUME IInv, Decode, NEW m \in message
  PROVE  /\ \E o \in Objects : Construct(o, Decoded(m), Filled(Making(m)))
         /\ Len(SetToSeq(Unreferred)) >= Len(Schema)
         /\ UNCHANGED <<call, held, message>>
<1>1. \A k \in message : k = m
  BY DEF IInv, MessageInv
<1> QED
  BY <1>1 DEF Decode

\* An argument of decode is None, or an object of its own with the contents.
LEMMA DecodedArguments ==
  ASSUME IInv, NEW m \in message, Len(SetToSeq(Unreferred)) >= Len(Schema)
  PROVE  /\ Decoded(m) \in Arguments
         /\ Making(m) \in [Given(Decoded(m)) -> Contents]
         /\ Given(Decoded(m)) \in SUBSET Unreferred
         /\ \A i \in Indexes :
              \/ Argument(m, i) = None /\ Decoded(m)[i] = None
              \/ /\ Argument(m, i) \in Contents
                 /\ Decoded(m)[i] \in Given(Decoded(m))
                 /\ Making(m)[Decoded(m)[i]] = Argument(m, i)
<1>1. PICK S : S = Unreferred /\ S \in SUBSET Cells
  BY DEF Unreferred
<1>2. PICK objects : objects = SetToSeq(S)
  OBVIOUS
<1>3. \A i \in Indexes : objects[i] \in S
  BY <1>1, <1>2, Numbers, FreshObjects
<1>4. \A i, j \in Indexes : objects[i] = objects[j] => i = j
  BY <1>1, <1>2, Numbers, FreshObjects
<1>5. \A i \in Indexes : Argument(m, i) = None \/ IsMade(m, i)
  <2>1. Match(m, Len(Schema))
    BY DEF IInv, MessageInv
  <2> SUFFICES ASSUME NEW i \in Indexes PROVE Argument(m, i) = None \/ IsMade(m, i)
    OBVIOUS
  <2>2. m.written \in [1..Len(Schema) -> Content \ {Missing}] /\ i \in 1..Len(Schema)
    BY <2>1, Numbers DEF Match
  <2>3. m.written[i] = Argument(m, i)
    BY <2>1, <2>2 DEF Match
  <2> QED
    BY <2>2, <2>3 DEF Content, IsMade
<1>6. \A i \in Indexes :
        Decoded(m)[i] = IF IsMade(m, i) THEN objects[i] ELSE None
  BY <1>1, <1>2, <1>5 DEF Decoded
<1>7. None \notin Cells
  BY Numbers
<1>8. Decoded(m) \in Arguments
  <2>1. Decoded(m) = [i \in Indexes |-> Decoded(m)[i]]
    BY DEF Decoded
  <2> QED
    BY <1>1, <1>3, <1>6, <2>1 DEF Arguments
<1>9. \A i \in Indexes : IsMade(m, i) => Decoded(m)[i] \in Given(Decoded(m))
  BY <1>1, <1>3, <1>6 DEF Given
<1>10. Given(Decoded(m)) \in SUBSET S
  BY <1>3, <1>6, <1>7 DEF Given
<1>11. ASSUME NEW i \in Indexes, IsMade(m, i)
       PROVE  Making(m)[Decoded(m)[i]] = Argument(m, i)
  <2>1. PICK x \in Contents : x = Argument(m, i)
    BY <1>11 DEF IsMade
  <2>2. \A j \in Indexes : IsMade(m, j) /\ Decoded(m)[j] = Decoded(m)[i] => j = i
    BY <1>4, <1>6, <1>11
  <2>3. \A y \in Contents :
          (\E j \in Indexes :
             IsMade(m, j) /\ Decoded(m)[j] = Decoded(m)[i] /\ y = Argument(m, j))
            <=> y = x
    BY <1>11, <2>1, <2>2
  <2>4. PICK c : c = Decoded(m)[i] /\ c \in Given(Decoded(m))
    BY <1>9, <1>11
  <2>5. Making(m)[c] = CHOOSE y \in Contents :
          \E j \in Indexes : IsMade(m, j) /\ Decoded(m)[j] = c /\ y = Argument(m, j)
    BY <2>4 DEF Making
  <2>6. Making(m)[c] = x
    BY <2>3, <2>4, <2>5
  <2> QED
    BY <2>1, <2>4, <2>6
<1>12. ASSUME NEW c \in Given(Decoded(m))
       PROVE  Making(m)[c] \in Contents
  <2>1. PICK i \in Indexes : c = Decoded(m)[i] /\ c \in Cells
    BY <1>12 DEF Given
  <2>2. IsMade(m, i)
    BY <1>6, <1>7, <2>1
  <2> QED
    BY <1>11, <2>1, <2>2 DEF IsMade
<1>13. Making(m) \in [Given(Decoded(m)) -> Contents]
  <2>1. Making(m) = [c \in Given(Decoded(m)) |-> Making(m)[c]]
    BY DEF Making
  <2> QED
    BY <1>12, <2>1
<1>14. \A i \in Indexes :
         \/ Argument(m, i) = None /\ Decoded(m)[i] = None
         \/ /\ Argument(m, i) \in Contents
            /\ Decoded(m)[i] \in Given(Decoded(m))
            /\ Making(m)[Decoded(m)[i]] = Argument(m, i)
  <2> SUFFICES ASSUME NEW i \in Indexes
               PROVE  \/ Argument(m, i) = None /\ Decoded(m)[i] = None
                      \/ /\ Argument(m, i) \in Contents
                         /\ Decoded(m)[i] \in Given(Decoded(m))
                         /\ Making(m)[Decoded(m)[i]] = Argument(m, i)
    OBVIOUS
  <2>1. CASE IsMade(m, i)
    BY <1>9, <1>11, <2>1 DEF IsMade
  <2>2. CASE ~IsMade(m, i)
    BY <1>5, <1>6, <2>2
  <2> QED
    BY <2>1, <2>2
<1> QED
  BY <1>1, <1>8, <1>10, <1>13, <1>14

LEMMA DecodeInvariant ==
  ASSUME IInv, Decode
  PROVE  IInv'
<1>1. PICK m \in message : TRUE
  BY DEF Decode
<1>2. PICK o \in Objects : Construct(o, Decoded(m), Filled(Making(m)))
  BY DecodeIs
<1>3. Len(SetToSeq(Unreferred)) >= Len(Schema) /\ UNCHANGED <<call, held, message>>
  BY <1>1, DecodeIs
<1>4. /\ Decoded(m) \in Arguments
      /\ Making(m) \in [Given(Decoded(m)) -> Contents]
      /\ Given(Decoded(m)) \in SUBSET Unreferred
  BY <1>3, DecodedArguments
<1>5. Stored(Filled(Making(m)))
  BY <1>4, FilledContents DEF IInv, Stored
<1> QED
  BY <1>2, <1>3, <1>4, <1>5, ConstructInvariant

-----------------------------------------------------------------------------
(* The application's changes.                                              *)

LEMMA ShownType ==
  ASSUME NEW cells \in [Cells -> Contents], NEW v \in Values
  PROVE  ShownIn(cells, v) \in Content
BY DEF ShownIn, Values, Content

\* The history follows every change.
LEMMA ChangeInvariant ==
  ASSUME IInv, NEW attributes \in [Objects -> [Indexes -> Values]],
         NEW cells \in [Cells -> Contents], Change(attributes, cells)
  PROVE  IInv'
<1> DEFINE seen(e, i) == {ShownIn(cells, attributes[e.object][i])} \cup
                           {ShownIn(cells, e.value) : k \in {e.at} \cap {i}}
           more(i) == UNION {seen(e, i) : e \in {f \in call : f.at <= i}}
<1>1. /\ attr' = attributes /\ contents' = cells
      /\ held' = [i \in Indexes |-> held[i] \cup more(i)]
      /\ alive' = alive /\ call' = call /\ message' = message
  BY DEF Change
<1>2. ASSUME NEW e \in call, NEW i \in Indexes
      PROVE  /\ ShownIn(cells, attributes[e.object][i]) \in Content
             /\ ShownIn(cells, e.value) \in Content
  <2>1. e.object \in Objects /\ e.value \in Values
    BY DEF IInv, CallInv, Calls, Values
  <2> QED
    BY <2>1, ShownType
<1>3. AttrInv'
  BY <1>1 DEF IInv, AttrInv
<1>4. StoreInv'
  <2>1. ASSUME NEW i \in Indexes PROVE more(i) \subseteq Content
    BY <1>2
  <2> HIDE DEF more
  <2> QED
    BY <1>1, <2>1 DEF IInv, StoreInv
<1>5. CallInv' /\ MessageInv'
  BY <1>1 DEF IInv, CallInv, MessageInv
<1>6. HeldInv'
  <2> SUFFICES ASSUME NEW e \in call, NEW i \in Indexes
               PROVE  /\ e.at <= i => Shown(attr[e.object][i])' \in held'[i]
                      /\ e.at = i /\ e.value # Missing =>
                           Shown(e.value)' \in held'[i]
    BY <1>1 DEF HeldInv
  <2>1. held'[i] = held[i] \cup more(i)
    BY <1>1
  <2>2. e.at <= i => ShownIn(cells, attributes[e.object][i]) \in more(i)
    OBVIOUS
  <2>3. e.at = i => ShownIn(cells, e.value) \in more(i)
    <3> SUFFICES ASSUME e.at = i PROVE ShownIn(cells, e.value) \in more(i)
      OBVIOUS
    <3>1. e \in {f \in call : f.at <= i}
      BY Numbers
    <3>2. i \in {e.at} \cap {i}
      OBVIOUS
    <3>3. ShownIn(cells, e.value) \in seen(e, i)
      BY <3>2
    <3> HIDE DEF seen
    <3> QED
      BY <3>1, <3>3
  <2>4. /\ Shown(attr[e.object][i])' = ShownIn(cells, attributes[e.object][i])
        /\ Shown(e.value)' = ShownIn(cells, e.value)
    BY <1>1 DEF Shown, ShownIn
  <2> QED
    BY <2>1, <2>2, <2>3, <2>4
<1> QED
  BY <1>3, <1>4, <1>5, <1>6 DEF IInv

LEMMA ApplicationInvariant ==
  ASSUME IInv, AssignNone \/ Assign \/ Delete \/ Mutate
  PROVE  IInv'
<1>1. /\ contents \in [Cells -> Contents]
      /\ attr \in [Objects -> [Indexes -> Values]] /\ alive \subseteq Objects
  BY DEF IInv, StoreInv, AttrInv
<1>2. CASE AssignNone \/ Delete
  <2>1. PICK o \in alive, i \in Indexes, v \in {None, Missing} :
          Change([attr EXCEPT ![o][i] = v], contents)
    BY <1>2, Zenon DEF AssignNone, Delete
  <2>2. [attr EXCEPT ![o][i] = v] \in [Objects -> [Indexes -> Values]]
    BY <1>1 DEF Values
  <2> QED
    BY <1>1, <2>1, <2>2, ChangeInvariant
<1>3. CASE Assign
  <2>1. PICK o \in alive, i \in Indexes, c \in Cells :
          \E own \in [{c} \cap Unreferred -> Contents] :
            Change([attr EXCEPT ![o][i] = c], Filled(own))
    BY <1>3, Zenon DEF Assign
  <2>2. PICK own \in [{c} \cap Unreferred -> Contents] :
          Change([attr EXCEPT ![o][i] = c], Filled(own))
    BY <2>1, Zenon
  <2>3. [attr EXCEPT ![o][i] = c] \in [Objects -> [Indexes -> Values]]
    BY <1>1 DEF Values
  <2>4. Filled(own) \in [Cells -> Contents]
    BY FilledContents DEF IInv
  <2> QED
    BY <2>2, <2>3, <2>4, ChangeInvariant
<1>4. CASE Mutate
  <2>1. PICK c \in Referred \cap Cells, x \in Contents :
          Change(attr, [contents EXCEPT ![c] = x])
    BY <1>4, Zenon DEF Mutate
  <2>2. [contents EXCEPT ![c] = x] \in [Cells -> Contents]
    BY <1>1
  <2> QED
    BY <1>1, <2>1, <2>2, ChangeInvariant
<1> QED
  BY <1>2, <1>3, <1>4

LEMMA DropInvariant ==
  ASSUME IInv, Drop
  PROVE  IInv'
<1>1. PICK o \in alive :
        /\ \A e \in call : e.object # o
        /\ alive' = alive \ {o}
        /\ attr' = [attr EXCEPT ![o] = [i \in Indexes |-> Missing]]
        /\ UNCHANGED <<contents, call, held, message>>
  BY DEF Drop
<1>2. AttrInv'
  BY <1>1 DEF IInv, AttrInv, Values
<1>3. StoreInv' /\ CallInv' /\ MessageInv'
  BY <1>1 DEF IInv, StoreInv, CallInv, MessageInv
<1>4. \A e \in call : attr'[e.object] = attr[e.object]
  BY <1>1 DEF IInv, AttrInv, CallInv, Calls
<1>5. HeldInv'
  BY <1>1, <1>4 DEF IInv, HeldInv, Shown, ShownIn
<1> QED
  BY <1>2, <1>3, <1>5 DEF IInv

-----------------------------------------------------------------------------
(* encode.                                                                 *)

LEMMA EncodeCallInvariant ==
  ASSUME IInv, EncodeCall
  PROVE  IInv'
<1>1. PICK o \in alive :
        /\ call' = {[object |-> o, at |-> 1, value |-> Missing, bits |-> {},
                     payload |-> << >>, written |-> << >>]}
        /\ held' = [i \in Indexes |-> {Shown(attr[o][i])}]
        /\ message' = {} /\ UNCHANGED <<alive, attr, contents>>
  BY DEF EncodeCall
<1> DEFINE c == [object |-> o, at |-> 1, value |-> Missing, bits |-> {},
                 payload |-> << >>, written |-> << >>]
<1>2. AttrInv' /\ MessageInv'
  BY <1>1 DEF IInv, AttrInv, MessageInv
<1>3. \A i \in Indexes : Shown(attr[o][i]) \in Content
  BY ShownType DEF IInv, AttrInv, StoreInv, Shown
<1>4. StoreInv'
  BY <1>1, <1>3 DEF IInv, StoreInv
<1>5. c \in Calls
  <2>1. o \in Objects
    BY DEF IInv, AttrInv
  <2> QED
    BY <2>1 DEF Calls
<1>6. Match(c, 0)
  BY MatchNothing
<1>7. CallInv'
  <2>1. c.object = o /\ c.at = 1
    OBVIOUS
  <2> HIDE DEF c
  <2>2. Match(c, c.at - 1)
    BY <1>6, <2>1
  <2> QED
    BY <1>1, <1>5, <2>1, <2>2, Numbers DEF CallInv, c
<1>8. HeldInv'
  BY <1>1 DEF HeldInv, Shown, ShownIn
<1> QED
  BY <1>2, <1>4, <1>7, <1>8 DEF IInv

\* A step of the call in progress: the history keeps what it needs.
LEMMA GoesInvariant ==
  ASSUME IInv, NEW e \in call, NEW f \in Calls, Goes(f),
         f.object = e.object, f.at \in e.at..(Len(Schema) + 1),
         Match(f, f.at - 1),
         f.value # Missing => f.at = e.at /\ f.value = attr[e.object][e.at]
  PROVE  IInv'
<1>1. /\ call' = {f}
      /\ held' = [i \in Indexes |-> IF i < f.at THEN {} ELSE held[i]]
      /\ alive' = alive /\ attr' = attr /\ contents' = contents
      /\ message' = message
  BY DEF Goes
<1>2. AttrInv' /\ MessageInv'
  BY <1>1 DEF IInv, AttrInv, MessageInv
<1>3. StoreInv'
  BY <1>1 DEF IInv, StoreInv
<1>4. e.object \in alive /\ e.at \in 1..(Len(Schema) + 1)
  BY DEF IInv, CallInv
<1>5. CallInv'
  <2>1. f.at \in 1..(Len(Schema) + 1)
    BY <1>4, Numbers
  <2> QED
    BY <1>1, <1>4, <2>1 DEF CallInv
<1>6. HeldInv'
  <2> SUFFICES ASSUME NEW i \in Indexes
               PROVE  /\ f.at <= i => Shown(attr[f.object][i]) \in held'[i]
                      /\ f.at = i /\ f.value # Missing =>
                           Shown(f.value) \in held'[i]
    BY <1>1 DEF HeldInv, Shown, ShownIn
  <2>1. f.at <= i => held'[i] = held[i] /\ e.at <= i
    BY <1>1, <1>4, Numbers
  <2>2. e.at <= i => Shown(attr[e.object][i]) \in held[i]
    BY DEF IInv, HeldInv
  <2>3. f.at = i => f.at <= i
    BY Numbers
  <2> QED
    BY <2>1, <2>2, <2>3
<1> QED
  BY <1>2, <1>3, <1>5, <1>6 DEF IInv

LEMMA CallRecord ==
  ASSUME IInv, NEW e \in call
  PROVE  /\ e \in Calls /\ Match(e, e.at - 1)
         /\ e.at \in Indexes => e.at - 1 \in Nat /\ (e.at - 1) + 1 = e.at
BY Numbers DEF IInv, CallInv

\* A step of the call in progress leaves a record of the same form.
LEMMA CallStep ==
  ASSUME NEW e \in Calls, NEW f,
         f = [object |-> e.object, at |-> f.at, value |-> f.value,
              bits |-> f.bits, payload |-> f.payload, written |-> f.written],
         f.at \in Nat, f.value \in Cells \cup {Missing}, f.bits \subseteq Nat,
         f.payload \in Seq(Contents), f.written \in Seq(Content)
  PROVE  f \in Calls
<1>1. e.object \in Objects
  BY DEF Calls
<1> DEFINE a == f.at
           v == f.value
           b == f.bits
           p == f.payload
           w == f.written
           o == e.object
<1>2. f = [object |-> o, at |-> a, value |-> v, bits |-> b, payload |-> p,
           written |-> w]
  OBVIOUS
<1>3. /\ o \in Objects /\ a \in Nat /\ v \in Cells \cup {Missing}
      /\ b \in SUBSET Nat /\ p \in Seq(Contents) /\ w \in Seq(Content)
  BY <1>1
<1> HIDE DEF a, v, b, p, w, o
<1> QED
  BY <1>2, <1>3 DEF Calls

LEMMA SkipNoneInvariant ==
  ASSUME IInv, NEW e \in call, Reading(e), ~MissingRequired(e),
         attr[e.object][e.at] = None,
         NEW f, f = [e EXCEPT !.at = @ + 1, !.written = Append(@, None)],
         Goes(f)
  PROVE  /\ IInv' /\ f.written = Append(e.written, None)
         /\ Schema[e.at].optional
<1>1. /\ f.object = e.object /\ f.at = e.at + 1 /\ f.value = e.value
      /\ f.bits = e.bits /\ f.payload = e.payload
      /\ f.written = Append(e.written, None)
  BY CallRecord DEF Calls
<1>2. e.at \in Indexes /\ e.value = Missing /\ Schema[e.at].optional
  BY DEF Reading, MissingRequired
<1>3. Match(f, e.at)
  <2>1. e.at - 1 \in Nat /\ (e.at - 1) + 1 = e.at /\ Match(e, e.at - 1)
    BY <1>2, CallRecord
  <2>2. Match(f, (e.at - 1) + 1)
    BY <1>1, <1>2, <2>1, MatchSkips
  <2> QED
    BY <2>1, <2>2
<1>4. f \in Calls
  <2>1. f.written \in Seq(Content)
    <3>1. e.written \in Seq(Content) /\ None \in Content
      BY CallRecord DEF Calls, Content
    <3> QED
      BY <1>1, <3>1, AppendProperties
  <2>2. f = [object |-> e.object, at |-> f.at, value |-> f.value,
             bits |-> f.bits, payload |-> f.payload, written |-> f.written]
    BY CallRecord DEF Calls
  <2>3. /\ f.at \in Nat /\ f.value \in Cells \cup {Missing}
        /\ f.bits \subseteq Nat /\ f.payload \in Seq(Contents)
    BY <1>1, CallRecord DEF Calls
  <2>4. e \in Calls
    BY CallRecord
  <2> QED
    BY <2>1, <2>2, <2>3, <2>4, CallStep
<1>5. f.at \in e.at..(Len(Schema) + 1) /\ f.at - 1 = e.at
  BY <1>1, <1>2, Numbers
<1> QED
  BY <1>1, <1>2, <1>3, <1>4, <1>5, GoesInvariant

LEMMA ReadFieldInvariant ==
  ASSUME IInv, NEW e \in call, Reading(e),
         attr[e.object][e.at] \notin {None, Missing},
         NEW f, f = [e EXCEPT !.value = attr[e.object][e.at]], Goes(f)
  PROVE  IInv' /\ f.written = e.written
<1>1. /\ f.object = e.object /\ f.at = e.at
      /\ f.value = attr[e.object][e.at]
      /\ f.bits = e.bits /\ f.payload = e.payload /\ f.written = e.written
  BY CallRecord DEF Calls
<1>2. e.at \in Indexes /\ e.at - 1 \in Nat /\ Match(e, e.at - 1)
  BY CallRecord DEF Reading
<1>3. Match(f, f.at - 1)
  <2>1. \A n \in Nat : Match(e, n) => Match(f, n)
    BY <1>1, MatchSame
  <2> QED
    BY <1>1, <1>2, <2>1
<1>4. f.value \in Cells
  <2>1. e.object \in Objects
    BY CallRecord DEF Calls
  <2> QED
    BY <1>1, <1>2, <2>1 DEF IInv, AttrInv, Values
<1>5. f \in Calls
  <2>1. f = [object |-> e.object, at |-> f.at, value |-> f.value,
             bits |-> f.bits, payload |-> f.payload, written |-> f.written]
    BY CallRecord DEF Calls
  <2>2. /\ f.at \in Nat /\ f.value \in Cells \cup {Missing}
        /\ f.bits \subseteq Nat /\ f.payload \in Seq(Contents)
        /\ f.written \in Seq(Content)
    BY <1>1, <1>4, CallRecord DEF Calls
  <2>3. e \in Calls
    BY CallRecord
  <2> QED
    BY <2>1, <2>2, <2>3, CallStep
<1>6. f.at \in e.at..(Len(Schema) + 1)
  BY <1>1, <1>2, Numbers
<1> QED
  BY <1>1, <1>3, <1>5, <1>6, GoesInvariant

LEMMA WriteFieldInvariant ==
  ASSUME IInv, NEW e \in call, Read(e),
         NEW f,
         f = [e EXCEPT
               !.bits = IF Schema[e.at].optional THEN @ \cup {e.at} ELSE @,
               !.payload = Append(@, contents[e.value]),
               !.written = Append(@, contents[e.value]),
               !.value = Missing, !.at = @ + 1],
         Goes(f)
  PROVE  /\ IInv' /\ f.written = Append(e.written, contents[e.value])
         /\ contents[e.value] \in Contents
<1>1. /\ f.object = e.object /\ f.at = e.at + 1 /\ f.value = Missing
      /\ f.bits = IF Schema[e.at].optional THEN e.bits \cup {e.at} ELSE e.bits
      /\ f.payload = Append(e.payload, contents[e.value])
      /\ f.written = Append(e.written, contents[e.value])
  BY CallRecord DEF Calls
<1>2. /\ e.at \in Indexes /\ e.at - 1 \in Nat /\ (e.at - 1) + 1 = e.at
      /\ Match(e, e.at - 1)
  BY CallRecord DEF Read
<1>3. contents[e.value] \in Contents
  <2>1. e.value \in Cells
    BY CallRecord DEF Read, Calls
  <2> QED
    BY <2>1 DEF IInv, StoreInv
<1>4. Match(f, e.at)
  <2>1. f.bits = IF Schema[(e.at - 1) + 1].optional
                 THEN e.bits \cup {(e.at - 1) + 1} ELSE e.bits
    BY <1>1, <1>2
  <2>2. Match(f, (e.at - 1) + 1)
    BY <1>1, <1>2, <1>3, <2>1, MatchWrites
  <2> QED
    BY <1>2, <2>2
<1>5. f \in Calls
  <2>1. e \in Calls
    BY CallRecord
  <2>2. f = [object |-> e.object, at |-> f.at, value |-> f.value,
             bits |-> f.bits, payload |-> f.payload, written |-> f.written]
    BY <2>1 DEF Calls
  <2>3. f.written \in Seq(Content) /\ f.payload \in Seq(Contents)
    <3>1. /\ e.written \in Seq(Content) /\ e.payload \in Seq(Contents)
          /\ contents[e.value] \in Content
      BY <1>3, <2>1 DEF Calls, Content
    <3> QED
      BY <1>1, <1>3, <3>1, AppendProperties
  <2>4. f.at \in Nat /\ f.value \in Cells \cup {Missing} /\ f.bits \subseteq Nat
    BY <1>1, <2>1 DEF Calls
  <2> QED
    BY <2>1, <2>2, <2>3, <2>4, CallStep
<1>6. f.at \in e.at..(Len(Schema) + 1) /\ f.at - 1 = e.at
  BY <1>1, <1>2, Numbers
<1> QED
  BY <1>1, <1>3, <1>4, <1>5, <1>6, GoesInvariant

LEMMA EndInvariant ==
  ASSUME IInv, UNCHANGED <<alive, attr, contents>>, call' = {},
         held' = [i \in Indexes |-> {}], MessageInv'
  PROVE  IInv'
BY DEF IInv, AttrInv, StoreInv, CallInv, HeldInv

LEMMA EncodeReturnInvariant ==
  ASSUME IInv, EncodeReturn
  PROVE  IInv'
<1>1. PICK e \in call :
        /\ e.at > Len(Schema)
        /\ message' = {[bits |-> e.bits, payload |-> e.payload,
                        written |-> e.written]}
  BY DEF EncodeReturn
<1>2. Match(e, Len(Schema))
  <2>1. e.at = Len(Schema) + 1
    BY <1>1, Numbers DEF IInv, CallInv
  <2> QED
    BY <2>1, CallRecord, Numbers
<1> DEFINE m == [bits |-> e.bits, payload |-> e.payload,
                 written |-> e.written]
<1>3. Match(m, Len(Schema))
  <2>1. /\ m.bits = e.bits /\ m.written = e.written
        /\ m.payload = e.payload
    OBVIOUS
  <2> HIDE DEF m
  <2> QED
    BY <1>2, <2>1, MatchSame, Numbers
<1>4. MessageInv'
  <2> HIDE DEF m
  <2>1. message' = {m}
    BY <1>1 DEF m
  <2> QED
    BY <1>3, <2>1 DEF MessageInv
<1> QED
  BY <1>4, EndInvariant DEF EncodeReturn

-----------------------------------------------------------------------------

LEMMA StepInvariant == IInv /\ [Next]_vars => IInv'
<1> SUFFICES ASSUME IInv, [Next]_vars PROVE IInv'
  OBVIOUS
<1>1. CASE Create \/ Decode
  BY <1>1, CreateInvariant, DecodeInvariant
<1>2. CASE AssignNone \/ Assign \/ Delete \/ Mutate
  BY <1>2, ApplicationInvariant
<1>3. CASE Drop
  BY <1>3, DropInvariant
<1>4. CASE EncodeCall
  BY <1>4, EncodeCallInvariant
<1>5. CASE FieldRaises \/ CodecRaises
  <2>1. MessageInv'
    BY <1>5 DEF FieldRaises, CodecRaises, Raises, IInv, MessageInv
  <2> QED
    BY <1>5, <2>1, EndInvariant DEF FieldRaises, CodecRaises, Raises
<1>6. CASE SkipNone
  BY <1>6, SkipNoneInvariant, Zenon DEF SkipNone
<1>7. CASE ReadField
  BY <1>7, ReadFieldInvariant, Zenon DEF ReadField
<1>8. CASE WriteField
  BY <1>8, WriteFieldInvariant, Zenon DEF WriteField
<1>9. CASE EncodeReturn
  BY <1>9, EncodeReturnInvariant
<1>10. CASE UNCHANGED vars
  BY <1>10 DEF vars, IInv, AttrInv, StoreInv, CallInv, MessageInv, HeldInv,
               Shown, ShownIn
<1> QED
  BY <1>1, <1>2, <1>3, <1>4, <1>5, <1>6, <1>7, <1>8, <1>9, <1>10 DEF Next

LEMMA Invariant == Spec => []IInv
<1>1. Init => IInv
  <2> SUFFICES ASSUME Init PROVE IInv
    OBVIOUS
  <2>1. AttrInv /\ StoreInv
    BY Numbers DEF Init, AttrInv, StoreInv, Values
  <2>2. CallInv /\ MessageInv /\ HeldInv
    BY DEF Init, CallInv, MessageInv, HeldInv
  <2> QED
    BY <2>1, <2>2 DEF IInv
<1> QED
  BY <1>1, StepInvariant, PTL DEF Spec

\* The variables have their types, and a call has written every field before
\* the one it is at: how long the payload is follows from the bits.
THEOREM TypeCorrect == Spec => []TypeOK
<1>1. IInv => TypeOK
  <2> SUFFICES ASSUME IInv PROVE TypeOK
    OBVIOUS
  <2>1. ASSUME NEW m, NEW n \in 0..Len(Schema), Match(m, n)
        PROVE  /\ m.bits \subseteq Indexes
               /\ m.payload \in Payloads /\ m.written \in Written
               /\ Len(m.written) = n
    <3>1. Place(m, n) \in 0..Len(Schema)
      BY PlaceType, Numbers
    <3>2. m.payload \in Payloads
      BY <2>1, <3>1 DEF Match, Payloads
    <3>3. m.written \in [1..n -> Content \ {Missing}]
      BY <2>1 DEF Match
    <3>4. m.written \in Written
      BY <3>3 DEF Written
    <3>5. Len(m.written) = n
      BY <3>3, LenOfFunction
    <3>6. m.bits \subseteq Indexes
      BY <2>1, Numbers DEF Match
    <3> QED
      BY <3>2, <3>4, <3>5, <3>6
  <2>2. ASSUME NEW e \in call
        PROVE  /\ e.object \in alive /\ e.at \in 1..(Len(Schema) + 1)
               /\ e.value \in Cells \cup {Missing}
               /\ e.bits \subseteq Indexes /\ e.payload \in Payloads
               /\ e.written \in Written /\ Len(e.written) = e.at - 1
    <3>1. /\ e.object \in alive /\ e.at \in 1..(Len(Schema) + 1)
          /\ e.value \in Cells \cup {Missing} /\ Match(e, e.at - 1)
      BY DEF IInv, CallInv, Calls
    <3>2. e.at - 1 \in 0..Len(Schema)
      BY <3>1, Numbers
    <3> QED
      BY <2>1, <3>1, <3>2
  <2>3. ASSUME NEW m \in message
        PROVE  /\ m.bits \subseteq Indexes /\ m.payload \in Payloads
               /\ m.written \in [Indexes -> Content \ {Missing}]
    <3>1. Match(m, Len(Schema)) /\ Len(Schema) \in 0..Len(Schema)
      BY Numbers DEF IInv, MessageInv
    <3> QED
      BY <2>1, <3>1, Numbers DEF Match
  <2> QED
    BY <2>2, <2>3 DEF TypeOK, IInv, AttrInv, StoreInv
<1> QED
  BY <1>1, Invariant, PTL

-----------------------------------------------------------------------------

AsHeld ==
  \A e \in call, f \in call' :
    Len(f.written) > Len(e.written) =>
      /\ Last(f.written) \in held[e.at]
      /\ Last(f.written) = None => Schema[e.at].optional

LEMMA LastAppended ==
  ASSUME NEW T, NEW s \in Seq(T), NEW x \in T
  PROVE  Last(Append(s, x)) = x
<1>1. Len(Append(s, x)) = Len(s) + 1 /\ Append(s, x)[Len(s) + 1] = x
  BY AppendProperties
<1> QED
  BY <1>1 DEF Last

\* What encode writes for a field is something the field held during the call,
\* whatever other threads assign, delete or mutate between its reading of the
\* attribute and the codec's, and a required field is never left out
\* (core.py:350-365).
THEOREM OneReadingCorrect == Spec => OneReading
<1>1. IInv /\ [Next]_vars => AsHeld
  <2> SUFFICES ASSUME IInv, [Next]_vars PROVE AsHeld
    OBVIOUS
  <2>1. ASSUME NEW e \in call, NEW f, call' = {f}, NEW x \in Content,
               f.written = Append(e.written, x), x \in held[e.at],
               x = None => Schema[e.at].optional
        PROVE  AsHeld
    <3>1. e.written \in Seq(Content)
      BY CallRecord DEF Calls
    <3>2. Last(f.written) = x
      BY <2>1, <3>1, LastAppended
    <3>3. \A d \in call : d = e
      BY DEF IInv, CallInv
    <3> QED
      BY <2>1, <3>2, <3>3 DEF AsHeld
  <2>2. ASSUME \A e \in call, f \in call' : f.written = e.written PROVE AsHeld
    <3>1. \A e \in call : Len(e.written) \in Nat
      BY CallRecord, LenProperties DEF Calls
    <3> QED
      BY <2>2, <3>1 DEF AsHeld
  <2>3. ASSUME NEW e \in call, Reading(e), ~MissingRequired(e),
               attr[e.object][e.at] = None,
               Goes([e EXCEPT !.at = @ + 1, !.written = Append(@, None)])
        PROVE  AsHeld
    <3>1. PICK f : f = [e EXCEPT !.at = @ + 1, !.written = Append(@, None)]
      OBVIOUS
    <3>2. Goes(f)
      BY <2>3, <3>1, Zenon
    <3>3. f.written = Append(e.written, None) /\ Schema[e.at].optional
      BY <2>3, <3>1, <3>2, SkipNoneInvariant, Zenon
    <3>4. None \in held[e.at] /\ None \in Content
      <4>1. e.at \in Indexes /\ e.at <= e.at
        BY <2>3, Numbers DEF Reading
      <4>2. Shown(attr[e.object][e.at]) \in held[e.at]
        BY <4>1 DEF IInv, HeldInv
      <4> QED
        BY <2>3, <4>2 DEF Shown, ShownIn, Content
    <3>5. call' = {f}
      BY <3>2 DEF Goes
    <3> QED
      BY <2>1, <3>3, <3>4, <3>5
  <2>4. ASSUME NEW e \in call, Reading(e),
               attr[e.object][e.at] \notin {None, Missing},
               Goes([e EXCEPT !.value = attr[e.object][e.at]])
        PROVE  AsHeld
    <3>1. PICK f : f = [e EXCEPT !.value = attr[e.object][e.at]]
      OBVIOUS
    <3>2. Goes(f)
      BY <2>4, <3>1, Zenon
    <3>3. f.written = e.written
      BY <2>4, <3>1, <3>2, ReadFieldInvariant, Zenon
    <3>4. call' = {f} /\ \A d \in call : d = e
      BY <3>2 DEF Goes, IInv, CallInv
    <3> QED
      BY <2>2, <3>3, <3>4
  <2>5. ASSUME NEW e \in call, Read(e),
               Goes([e EXCEPT
                 !.bits = IF Schema[e.at].optional THEN @ \cup {e.at} ELSE @,
                 !.payload = Append(@, contents[e.value]),
                 !.written = Append(@, contents[e.value]),
                 !.value = Missing, !.at = @ + 1])
        PROVE  AsHeld
    <3>1. PICK f :
            f = [e EXCEPT
                  !.bits = IF Schema[e.at].optional THEN @ \cup {e.at} ELSE @,
                  !.payload = Append(@, contents[e.value]),
                  !.written = Append(@, contents[e.value]),
                  !.value = Missing, !.at = @ + 1]
      OBVIOUS
    <3>2. Goes(f)
      BY <2>5, <3>1, Zenon
    <3>3. /\ f.written = Append(e.written, contents[e.value])
          /\ contents[e.value] \in Contents
      BY <2>5, <3>1, <3>2, WriteFieldInvariant, Zenon
    <3>4. contents[e.value] \in held[e.at]
      <4>1. e.at \in Indexes /\ e.value \in Cells /\ e.value # Missing
        BY <2>5, CallRecord DEF Read, Calls
      <4>2. Shown(e.value) \in held[e.at]
        BY <4>1 DEF IInv, HeldInv
      <4> QED
        BY <4>1, <4>2, Numbers DEF Shown, ShownIn
    <3>5. call' = {f}
      BY <3>2 DEF Goes
    <3>6. contents[e.value] \in Content /\ contents[e.value] # None
      BY <3>3, Numbers DEF Content
    <3> QED
      BY <2>1, <3>3, <3>4, <3>5, <3>6
  <2>6. CASE \/ Create \/ Decode \/ AssignNone \/ Assign \/ Delete \/ Mutate
             \/ Drop \/ UNCHANGED vars
    <3>1. call' = call
      BY <2>6 DEF Create, Decode, AssignNone, Assign, Delete, Mutate, Change,
                  Drop, vars
    <3>2. \A d, e \in call : d = e
      BY DEF IInv, CallInv
    <3> QED
      BY <2>2, <3>1, <3>2
  <2>7. CASE EncodeCall
    BY <2>7 DEF EncodeCall, AsHeld
  <2>8. CASE FieldRaises \/ CodecRaises \/ EncodeReturn
    BY <2>8 DEF FieldRaises, CodecRaises, Raises, EncodeReturn, AsHeld
  <2>9. CASE SkipNone
    BY <2>3, <2>9, Zenon DEF SkipNone
  <2>10. CASE ReadField
    BY <2>4, <2>10, Zenon DEF ReadField
  <2>11. CASE WriteField
    BY <2>5, <2>11, Zenon DEF WriteField
  <2> QED
    BY <2>6, <2>7, <2>8, <2>9, <2>10, <2>11 DEF Next
<1>2. Spec => [][AsHeld]_vars
  BY <1>1, Invariant, PTL DEF Spec
<1> QED
  BY <1>2 DEF OneReading, AsHeld

-----------------------------------------------------------------------------

AsWritten ==
  Decode => \A o \in alive' \ alive, msg \in message, i \in Indexes :
              Shown(attr[o][i])' = msg.written[i]

\* Each field of a decoded instance is what encode wrote for it: an object of
\* its own with those contents, or None, also where the default is not None
\* (core.py:422-446, 138-163).
THEOREM FieldByFieldCorrect == Spec => FieldByField
<1>1. IInv /\ [Next]_vars => AsWritten
  <2> SUFFICES ASSUME IInv, Decode,
                      NEW o \in alive' \ alive, NEW m \in message,
                      NEW i \in Indexes
               PROVE  Shown(attr[o][i])' = m.written[i]
    BY DEF AsWritten
  <2>1. PICK n \in Objects : Construct(n, Decoded(m), Filled(Making(m)))
    BY DecodeIs
  <2>2. Len(SetToSeq(Unreferred)) >= Len(Schema)
    BY DecodeIs
  <2>3. /\ Making(m) \in [Given(Decoded(m)) -> Contents]
        /\ Given(Decoded(m)) \in SUBSET Unreferred
        /\ \/ Argument(m, i) = None /\ Decoded(m)[i] = None
           \/ /\ Argument(m, i) \in Contents
              /\ Decoded(m)[i] \in Given(Decoded(m))
              /\ Making(m)[Decoded(m)[i]] = Argument(m, i)
    BY <2>2, DecodedArguments
  <2>4. PICK args, cells : args = Decoded(m) /\ cells = Filled(Making(m))
    OBVIOUS
  <2>5. /\ Enough(args) /\ n \notin alive /\ alive' = alive \cup {n}
        /\ attr' = [attr EXCEPT ![n] = [j \in Indexes |-> Value(args, j)]]
        /\ contents' = Made(args, cells)
    BY <2>1, <2>4, ConstructSteps
  <2>6. attr'[o][i] = Value(args, i)
    BY <2>5 DEF IInv, AttrInv
  <2>7. m.written[i] = Argument(m, i)
    BY Numbers DEF IInv, MessageInv, Match
  <2>8. CASE Argument(m, i) = None /\ args[i] = None
    <3>1. Value(args, i) = None
      BY <2>8 DEF Value, None, Missing
    <3> QED
      BY <2>6, <2>7, <2>8, <3>1 DEF Shown, ShownIn
  <2>9. CASE /\ Argument(m, i) \in Contents /\ args[i] \in Given(args)
             /\ Making(m)[args[i]] = Argument(m, i)
    <3>1. PICK c \in Cells : c = args[i] /\ c \in Given(args) /\ c # Missing /\ c # None
      BY <2>9, Numbers DEF Given
    <3>2. cells \in [Cells -> Contents] /\ cells[c] = Making(m)[c]
      <4>1. cells \in [Cells -> Contents]
        BY <2>3, <2>4, FilledContents DEF IInv
      <4>2. c \in DOMAIN Making(m)
        BY <2>3, <2>4, <3>1
      <4> QED
        BY <2>4, <4>1, <4>2 DEF Filled
    <3>3. contents'[c] = cells[c]
      BY <2>5, <3>1, <3>2, MadeContents
    <3>4. Value(args, i) = c
      BY <3>1 DEF Value
    <3>5. contents'[c] = Argument(m, i)
      BY <2>9, <3>1, <3>2, <3>3
    <3> QED
      BY <2>6, <2>7, <3>1, <3>4, <3>5 DEF Shown, ShownIn
  <2> QED
    BY <2>3, <2>4, <2>8, <2>9
<1> QED
  BY <1>1, Invariant, PTL DEF Spec, FieldByField, AsWritten
=============================================================================
