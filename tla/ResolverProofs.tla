--------------------------- MODULE ResolverProofs ---------------------------
(***************************************************************************)
(* For every set of annotations, rules and codecs, and for any number of   *)
(* fields and refused class statements before: the codec of field(codec=)  *)
(* is the one that is used, each call in progress has a FieldInfo of its   *)
(* own, and what leaks into a FieldInfo is from the annotations of fields  *)
(* it was used for.  A field with a FieldInfo of its own has the codec its *)
(* annotation and field() ask for.                                         *)
(***************************************************************************)
EXTENDS Resolver, Recursion, FiniteSetTheorems, SequenceTheorems, TLAPS

\* Append keeps what is there.
LEMMA AppendKeeps ==
  ASSUME NEW s, NEW n \in Nat, s = [i \in 1..n |-> s[i]], NEW x
  PROVE  /\ Len(s) = n
         /\ Append(s, x) = [i \in 1..n + 1 |-> Append(s, x)[i]]
         /\ \A i \in 1..n : Append(s, x)[i] = s[i]
         /\ Append(s, x)[n + 1] = x
<1> DEFINE S == {s[i] : i \in 1..n} \cup {x}
<1>1. s \in Seq(S)
  <2>1. s \in [1..n -> S]
    OBVIOUS
  <2>2. QED BY <2>1
<1>2. Len(s) = n
  BY <1>1
<1>3. QED BY <1>1, <1>2

\* The FieldInfos form a sequence that starts with those of the program, and
\* a codec given to field() is still there.
InfosInv ==
  /\ Len(program.infos) \in Nat
  /\ \E n \in Nat : infos = [i \in 1..n |-> infos[i]] /\ Len(program.infos) <= n
  /\ DOMAIN program.infos = 1..Len(program.infos)
  /\ \A i \in DOMAIN program.infos :
       program.infos[i].codec # {} => infos[i].codec = program.infos[i].codec

OutcomesInv ==
  /\ \E n \in Nat : outcomes = [i \in 1..n |-> outcomes[i]] /\ n = next - 1
  /\ next \in Nat /\ GivenWins

\* While a field is resolved there is one, and it has a FieldInfo.
FieldInv ==
  /\ Len(program.fields) \in Nat /\ DOMAIN program.fields = 1..Len(program.fields)
  /\ \A n \in DOMAIN program.fields : FieldOf(n).info \in DOMAIN program.infos
  /\ calls # << >> \/ returned # {} => next \in DOMAIN program.fields

IInv == InfosInv /\ OutcomesInv /\ FieldInv

-----------------------------------------------------------------------------
LEMMA InitInv == Init => IInv
<1> SUFFICES ASSUME Init PROVE IInv
  OBVIOUS
<1>1. Program(program)
  BY ResolverAssumption DEF Init
<1>2. InfosInv
  <2> DEFINE n == Len(program.infos)
  <2>1. n \in Nat /\ program.infos = [i \in 1..n |-> program.infos[i]] /\ infos = program.infos
    BY <1>1 DEF Init, Program
  <2>2. n <= n /\ infos = [i \in 1..n |-> infos[i]] /\ DOMAIN program.infos = 1..n
    BY <2>1
  <2>3. QED BY <2>1, <2>2 DEF InfosInv
<1>3. OutcomesInv
  <2>1. outcomes = [i \in 1..0 |-> outcomes[i]] /\ DOMAIN outcomes = {}
    BY DEF Init
  <2>2. QED BY <2>1 DEF Init, OutcomesInv, GivenWins
<1>4. FieldInv
  BY <1>1 DEF Init, FieldInv, FieldOf, Program
<1>5. QED BY <1>2, <1>3, <1>4 DEF IInv

\* Only three actions write FieldInfos.
LEMMA OthersKeepInfos ==
  ASSUME Next, ~ApplySpec, ~SpecRaises, ~OpenList
  PROVE  UNCHANGED <<program, infos>>
BY DEF Next, Resolve, Refuse, UseGiven, Unhashable, UseTable, TwoSpecs, Unspecified,
       UseNumeric, UseModel, UseEnum, NotOneItem, CloseList, Unknown, DefaultRaises,
       AddField, Return

\* A codec is written only over none.
LEMMA OverwritesNone ==
  ASSUME ApplySpec \/ SpecRaises
  PROVE  /\ program' = program
         /\ \E k, s : infos[k].codec = {} /\ infos' = [infos EXCEPT ![k] = s]
<1>1. CASE ApplySpec
  BY <1>1 DEF ApplySpec, ByKind, LookedUp, Given, info
<1>2. CASE SpecRaises
  BY <1>2 DEF SpecRaises, ByKind, LookedUp, Given, info
<1>3. QED BY <1>1, <1>2

LEMMA InfosStep ==
  ASSUME InfosInv, [Next]_vars
  PROVE  /\ InfosInv' /\ program' = program
<1> USE DEF InfosInv
<1>1. PICK n \in Nat : infos = [i \in 1..n |-> infos[i]] /\ Len(program.infos) <= n
  OBVIOUS
<1>2. DOMAIN program.infos \subseteq 1..n
  BY <1>1
<1>3. CASE UNCHANGED vars
  BY <1>3 DEF vars
<1>4. CASE Next /\ ~ApplySpec /\ ~SpecRaises /\ ~OpenList
  BY <1>4, OthersKeepInfos
<1>5. CASE ApplySpec \/ SpecRaises
  <2>1. PICK k, s : infos[k].codec = {} /\ infos' = [infos EXCEPT ![k] = s]
    BY <1>5, OverwritesNone
  <2>2. program' = program
    BY <1>5, OverwritesNone
  <2>3. infos' = [i \in 1..n |-> infos'[i]]
    BY <1>1, <2>1
  <2>4. \A i \in 1..n : infos[i].codec # {} => infos'[i] = infos[i]
    BY <1>1, <2>1
  <2>5. QED BY <1>1, <1>2, <2>2, <2>3, <2>4
<1>6. CASE OpenList
  <2>1. infos' = Append(infos, FreshInfo) /\ program' = program
    BY <1>6 DEF OpenList
  <2>2. /\ infos' = [i \in 1..n + 1 |-> infos'[i]]
        /\ \A i \in 1..n : infos'[i] = infos[i]
    BY <1>1, <2>1, AppendKeeps
  <2>3. n + 1 \in Nat /\ Len(program.infos) <= n + 1
    BY <1>1
  <2>4. QED BY <1>1, <1>2, <2>1, <2>2, <2>3
<1>7. QED BY <1>3, <1>4, <1>5, <1>6

\* A step adds no outcome, that of a refused field, or that of AddField.
LEMMA OutcomeAdded ==
  ASSUME Next
  PROVE  \/ UNCHANGED <<next, outcomes>>
         \/ \E r : /\ outcomes' = Append(outcomes, r) /\ next' = next + 1
                   /\ r.raised # "nothing"
         \/ AddField
<1>1. ASSUME NEW what \in {"SchemaError", "TypeError"}, Raise(what)
      PROVE  \E r : /\ outcomes' = Append(outcomes, r) /\ next' = next + 1
                    /\ r.raised # "nothing"
  <2> DEFINE r == [raised |-> what, codec |-> {}, optional |-> FALSE]
  <2>1. r.raised # "nothing" /\ outcomes' = Append(outcomes, r) /\ next' = next + 1
    BY <1>1 DEF Raise
  <2>2. QED BY <2>1
<1>2. ASSUME NEW codecs, Return(codecs)
      PROVE  UNCHANGED <<next, outcomes>> \/ Raise("SchemaError")
  BY <1>2 DEF Return
<1>3. CASE Resolve \/ Unspecified \/ ApplySpec \/ OpenList
  BY <1>3 DEF Resolve, Unspecified, ApplySpec, OpenList
<1>4. CASE UseGiven \/ UseTable \/ UseNumeric \/ UseModel \/ UseEnum \/ CloseList
  BY <1>4, <1>1, <1>2 DEF UseGiven, UseTable, UseNumeric, UseModel, UseEnum, CloseList
<1>5. CASE \/ Refuse \/ Unhashable \/ TwoSpecs \/ SpecRaises \/ NotOneItem \/ Unknown
           \/ DefaultRaises
  BY <1>5, <1>1 DEF Refuse, Unhashable, TwoSpecs, SpecRaises, NotOneItem, Unknown,
                    DefaultRaises
<1>6. QED BY <1>3, <1>4, <1>5 DEF Next

LEMMA OutcomesStep ==
  ASSUME IInv, [Next]_vars, program' = program
  PROVE  OutcomesInv'
<1> USE DEF OutcomesInv
<1>1. PICK n \in Nat : outcomes = [i \in 1..n |-> outcomes[i]] /\ n = next - 1
  BY DEF IInv
<1>2. GivenWins /\ next \in Nat
  BY DEF IInv
<1>3. CASE UNCHANGED <<next, outcomes>>
  BY <1>1, <1>2, <1>3 DEF GivenWins, Stated, FieldOf
<1>4. ASSUME NEW r, outcomes' = Append(outcomes, r), next' = next + 1,
             r.raised = "nothing" /\ Stated(next).codec # {} => r.codec = Stated(next).codec
      PROVE  OutcomesInv'
  <2>1. /\ outcomes' = [i \in 1..n + 1 |-> outcomes'[i]]
        /\ \A i \in 1..n : outcomes'[i] = outcomes[i]
        /\ outcomes'[n + 1] = r
    BY <1>1, <1>4, AppendKeeps
  <2>2. n + 1 \in Nat /\ n + 1 = next /\ n + 1 = next' - 1 /\ next' \in Nat
    BY <1>1, <1>2, <1>4
  <2>3. \A i \in 1..n + 1 : i \in 1..n \/ i = next
    BY <1>1, <2>2
  <2>4. \A i : Stated(i)' = Stated(i)
    BY DEF Stated, FieldOf
  <2>5. GivenWins'
    BY <1>1, <1>2, <1>4, <2>1, <2>2, <2>3, <2>4 DEF GivenWins
  <2>6. QED BY <2>1, <2>2, <2>5
<1>5. CASE \E r : /\ outcomes' = Append(outcomes, r) /\ next' = next + 1
                  /\ r.raised # "nothing"
  BY <1>4, <1>5
<1>6. CASE AddField
  <2>1. PICK r \in returned :
          LET given == infos[Field.info].codec
          IN outcomes' = Append(outcomes,
               [raised |-> "nothing", optional |-> r.optional,
                codec |-> IF given # {} THEN given ELSE {r.codec}])
    BY <1>6 DEF AddField
  <2>2. next' = next + 1 /\ Field = FieldOf(next)
    BY <1>6 DEF AddField, Field, FieldOf
  <2>3. FieldOf(next).info \in DOMAIN program.infos
    BY <2>1 DEF IInv, FieldInv
  <2>4. Stated(next).codec # {} => infos[Field.info].codec = Stated(next).codec
    BY <2>2, <2>3 DEF IInv, InfosInv, Stated
  <2>5. QED BY <1>4, <2>1, <2>2, <2>4
<1>7. CASE UNCHANGED vars
  BY <1>3, <1>7 DEF vars
<1>8. QED BY <1>3, <1>5, <1>6, <1>7, OutcomeAdded

LEMMA FieldStep ==
  ASSUME FieldInv, OutcomesInv, [Next]_vars, program' = program
  PROVE  FieldInv'
<1> USE DEF FieldInv
<1>1. \A n : FieldOf(n)' = FieldOf(n)
  BY DEF FieldOf
<1>2. CASE Resolve
  <2>1. next' = next /\ next \in DOMAIN program.fields
    BY <1>2 DEF Resolve, OutcomesInv
  <2>2. QED BY <1>1, <2>1
<1>3. CASE returned' = {} /\ calls' = << >>
  BY <1>1, <1>3
<1>4. CASE next' = next /\ (calls # << >> \/ returned # {})
  BY <1>1, <1>4
<1>5. CASE UNCHANGED vars
  BY <1>1, <1>5 DEF vars
<1>6. ASSUME NEW codecs, Return(codecs), calls # << >>
      PROVE  (returned' = {} /\ calls' = << >>) \/ next' = next
  BY <1>6 DEF Return, Raise
<1>7. CASE UseGiven \/ UseTable \/ UseNumeric \/ UseModel \/ UseEnum \/ CloseList
  <2>1. calls # << >>
    BY <1>7 DEF UseGiven, UseTable, UseNumeric, UseModel, UseEnum, CloseList, ByKind,
                LookedUp, Entered, Resolving
  <2>2. \E codecs : Return(codecs)
    BY <1>7 DEF UseGiven, UseTable, UseNumeric, UseModel, UseEnum, CloseList
  <2>3. QED BY <1>3, <1>4, <1>6, <2>1, <2>2
<1>8. CASE Unspecified \/ ApplySpec \/ OpenList
  BY <1>4, <1>8 DEF Unspecified, ApplySpec, OpenList, ByKind, LookedUp, Entered, Resolving
<1>9. CASE \/ Refuse \/ Unhashable \/ TwoSpecs \/ SpecRaises \/ NotOneItem \/ Unknown
           \/ DefaultRaises
  BY <1>3, <1>9 DEF Refuse, Unhashable, TwoSpecs, SpecRaises, NotOneItem, Unknown,
                    DefaultRaises, Raise
<1>10. CASE AddField
  BY <1>3, <1>10 DEF AddField
<1>11. QED BY <1>2, <1>5, <1>7, <1>8, <1>9, <1>10 DEF Next

LEMMA Inductive == Spec => []IInv
<1>1. IInv /\ [Next]_vars => IInv'
  BY InfosStep, OutcomesStep, FieldStep DEF IInv
<1>2. QED BY InitInv, <1>1, PTL DEF Spec

\* The codec passed to field() is the field's codec, whatever the annotation
\* and the rules say and whoever used the FieldInfo before.
THEOREM GivenWinsCorrect == Spec => []GivenWins
<1>1. IInv => GivenWins
  BY DEF IInv, OutcomesInv
<1>2. QED BY Inductive, <1>1, PTL

-----------------------------------------------------------------------------
\* The parts of an annotation are annotations.
LEMMA Parts ==
  ASSUME NEW a \in Annotations
  PROVE  /\ a.kind = "annotated" => a.base \in Annotations
         /\ a.kind = "union" => 1 \in DOMAIN a.args /\ a.args[1] \in Annotations
<1>1. Annotation(a)
  BY ResolverAssumption
<1>2. a.kind = "annotated" => a.base \in Annotations
  BY <1>1 DEF Annotation
<1>3. ASSUME a.kind = "union" PROVE 1 \in DOMAIN a.args /\ a.args[1] \in Annotations
  <2>1. Len(a.args) \in Nat /\ Len(a.args) > 0 /\ DOMAIN a.args = 1..Len(a.args)
    BY <1>1, <1>3 DEF Annotation
  <2>2. 1 \in DOMAIN a.args
    BY <2>1
  <2>3. QED BY <1>1, <1>3, <2>2 DEF Annotation
<1>4. QED BY <1>2, <1>3

\* A factory gives at most one codec.
LEMMA OneCodec ==
  ASSUME NEW s, Settings(s)
  PROVE  /\ \A factory : AtMostOne(ScalarCodec(factory, s))
         /\ \A enum : AtMostOne(EnumCodec(enum, s))
         /\ \A spec : AtMostOne(NumericCodec(spec))
         /\ \A item : AtMostOne(ListCodec(item, s))
         /\ AtMostOne(s.codec)
<1>1. \A factory : AtMostOne(ScalarCodec(factory, s))
  BY DEF AtMostOne, ScalarCodec, StrCodec, BytesCodec, DatetimeCodec, TextCodec, Prefixed
<1>2. \A enum : AtMostOne(EnumCodec(enum, s))
  BY DEF AtMostOne, EnumCodec, StrCodec, TextCodec, Prefixed
<1>3. \A spec : AtMostOne(NumericCodec(spec))
  BY DEF AtMostOne, NumericCodec
<1>4. \A item : AtMostOne(ListCodec(item, s))
  BY DEF AtMostOne, ListCodec, Prefixed
<1>5. QED BY <1>1, <1>2, <1>3, <1>4 DEF Settings

\* A call in progress, as Frame makes it.
Frames == [annotation : Annotations, optional : BOOLEAN, info : Nat]

\* Calls that wait are those for lists of one item, and no two calls write
\* into the same FieldInfo.
CallsInv ==
  /\ calls \in Seq(Frames)
  /\ \A i \in 1..Len(calls) : calls[i].info \in DOMAIN infos
  /\ \A i \in 1..Len(calls) : i < Len(calls) =>
       calls[i].annotation.kind = "list" /\ Len(calls[i].annotation.args) = 1
  /\ \A i, j \in 1..Len(calls) : j < i => calls[j].info # calls[i].info

ResultInv ==
  /\ AtMostOne(returned)
  /\ next <= Len(program.fields) + 1
  /\ \A n \in DOMAIN outcomes :
       (outcomes[n].raised = "nothing") = (outcomes[n].codec # {})

SettingsInv == Program(program) /\ \A i \in DOMAIN infos : Settings(infos[i])

TypeInv == IInv /\ SettingsInv /\ CallsInv /\ ResultInv

\* What TypeOK says follows.
LEMMA Typed == ASSUME TypeInv PROVE TypeOK
<1> USE DEF TypeInv
<1>1. PICK n \in Nat : infos = [i \in 1..n |-> infos[i]] /\ Len(program.infos) <= n
  BY DEF IInv, InfosInv
<1>2. Len(infos) = n /\ DOMAIN infos = 1..n
  BY <1>1, AppendKeeps
<1>3. PICK m \in Nat : outcomes = [i \in 1..m |-> outcomes[i]] /\ m = next - 1
  BY DEF IInv, OutcomesInv
<1>4. Len(outcomes) = next - 1 /\ next \in 1..Len(program.fields) + 1
  <2>1. Len(outcomes) = m
    BY <1>3, AppendKeeps
  <2>2. next \in Nat /\ Len(program.fields) \in Nat /\ next <= Len(program.fields) + 1
    BY DEF IInv, OutcomesInv, FieldInv, ResultInv
  <2>3. QED BY <1>3, <2>1, <2>2
<1>5. ASSUME NEW i \in DOMAIN calls
      PROVE  /\ calls[i].annotation \in Annotations /\ calls[i].optional \in BOOLEAN
             /\ calls[i].info \in DOMAIN infos
             /\ i < Len(calls) => calls[i].annotation.kind = "list" /\ Len(calls[i].annotation.args) = 1
             /\ \A j \in 1..i - 1 : calls[j].info # calls[i].info
  <2>1. calls \in Seq(Frames) /\ Len(calls) \in Nat /\ DOMAIN calls = 1..Len(calls)
    BY DEF CallsInv
  <2>2. calls[i] \in Frames
    BY <2>1
  <2>3. \A j \in 1..i - 1 : j \in 1..Len(calls) /\ j < i
    BY <2>1
  <2>4. QED BY <2>1, <2>2, <2>3 DEF CallsInv, Frames
<1>6. Cardinality(returned) <= 1
  <2>1. CASE returned = {}
    BY <2>1, FS_EmptySet
  <2>2. CASE returned # {}
    <3>1. PICK r : returned = {r}
      BY <2>2 DEF ResultInv, AtMostOne
    <3>2. Cardinality({r}) = 1
      BY FS_Singleton
    <3>3. QED BY <3>1, <3>2
  <2>3. QED BY <2>1, <2>2
<1>7. QED BY <1>1, <1>2, <1>4, <1>5, <1>6 DEF SettingsInv, ResultInv, TypeOK

LEMMA NoneButOne == ASSUME NEW n \in Nat, n > 0, ~(n > 1) PROVE n = 1
OBVIOUS

\* Front keeps all but the last.
LEMMA FrontKeeps ==
  ASSUME NEW S, NEW s \in Seq(S), s # << >>
  PROVE  /\ Front(s) \in Seq(S) /\ Len(Front(s)) = Len(s) - 1
         /\ \A i \in 1..Len(s) - 1 : Front(s)[i] = s[i]
<1>1. PICK n : n = Len(s) - 1
  OBVIOUS
<1>2. n \in Nat /\ \A i \in 1..n : s[i] \in S
  BY <1>1
<1>3. /\ SubSeq(s, 1, n) \in Seq(S)
      /\ Len(SubSeq(s, 1, n)) = IF 1 <= n THEN n - 1 + 1 ELSE 0
      /\ \A i \in 1..n - 1 + 1 : SubSeq(s, 1, n)[i] = s[1 + i - 1]
  BY <1>2, SubSeqProperties
<1>4. QED BY <1>1, <1>2, <1>3 DEF Front

LEMMA TopTyped ==
  ASSUME TypeInv, calls # << >>
  PROVE  /\ Len(calls) \in Nat \ {0} /\ top = calls[Len(calls)] /\ top \in Frames
         /\ top.info \in DOMAIN infos /\ Settings(info)
<1>1. calls \in Seq(Frames)
  BY DEF TypeInv, CallsInv
<1>2. Len(calls) \in Nat \ {0}
  BY <1>1
<1>3. top = calls[Len(calls)]
  BY DEF top, Last
<1>4. calls[Len(calls)] \in Frames /\ calls[Len(calls)].info \in DOMAIN infos
  BY <1>1, <1>2 DEF TypeInv, CallsInv
<1>5. QED BY <1>2, <1>3, <1>4 DEF TypeInv, SettingsInv, info

\* _normalize_union leaves an annotation, the only member of a union.
LEMMA BareTyped ==
  ASSUME TypeInv, Entered
  PROVE  /\ bare \in Annotations /\ optional \in BOOLEAN
         /\ bare = top.annotation \/
            (top.annotation.kind = "union" /\ Len(top.annotation.args) = 1 /\ bare = top.annotation.args[1])
         /\ bare.kind = "annotated" => bare.base \in Annotations
<1>1. calls # << >>
  BY DEF Entered, Resolving
<1>2. top.annotation \in Annotations /\ top.optional \in BOOLEAN
  BY <1>1, TopTyped DEF Frames
<1>3. Annotation(top.annotation)
  BY <1>2, ResolverAssumption
<1>4. bare \in Annotations /\ optional \in BOOLEAN
  <2>1. CASE Union
    BY <1>2, <1>3, <2>1, Parts DEF bare, optional, Union, Annotation
  <2>2. CASE ~Union
    BY <1>2, <2>2 DEF bare, optional
  <2>3. QED BY <2>1, <2>2
<1>5. ASSUME Union PROVE Len(top.annotation.args) = 1 /\ bare = top.annotation.args[1]
  <2>1. Len(top.annotation.args) \in Nat /\ Len(top.annotation.args) > 0
    BY <1>3, <1>5 DEF Annotation, Union
  <2>2. ~(Len(top.annotation.args) > 1)
    BY <1>5 DEF Entered, Refuses
  <2>3. Len(top.annotation.args) = 1
    BY <2>1, <2>2, NoneButOne
  <2>4. QED BY <1>5, <2>3 DEF bare
<1>6. QED BY <1>4, <1>5, Parts DEF bare, Union

\* Frames that stand for the same call or a deeper layer of it keep CallsInv.
LEMMA TopReplaced ==
  ASSUME TypeInv, calls # << >>, NEW f \in Frames, f.info = top.info,
         calls' = WithTop(f), DOMAIN infos' = DOMAIN infos
  PROVE  CallsInv'
<1>1. /\ Len(calls) \in Nat \ {0} /\ top = calls[Len(calls)] /\ calls \in Seq(Frames)
  BY TopTyped DEF TypeInv, CallsInv
<1>2. calls' \in Seq(Frames) /\ Len(calls') = Len(calls)
  BY <1>1 DEF WithTop
<1>3. \A i \in 1..Len(calls) : calls'[i] = IF i = Len(calls) THEN f ELSE calls[i]
  BY <1>1 DEF WithTop
<1>4. \A i \in 1..Len(calls) : calls'[i].info = calls[i].info
  BY <1>1, <1>3
<1>5. \A i \in 1..Len(calls) : i < Len(calls) => calls'[i] = calls[i]
  BY <1>1, <1>3
<1>6. QED BY <1>2, <1>4, <1>5 DEF TypeInv, CallsInv

\* A call that returns leaves the others as they were.
LEMMA TopReturns ==
  ASSUME TypeInv, calls # << >>, calls' = Front(calls), infos' = infos
  PROVE  CallsInv'
<1>1. Len(calls) \in Nat \ {0} /\ calls \in Seq(Frames)
  BY TopTyped DEF TypeInv, CallsInv
<1>2. calls' = SubSeq(calls, 1, Len(calls) - 1)
  BY DEF Front
<1>3. /\ calls' \in Seq(Frames) /\ Len(calls') = Len(calls) - 1
      /\ \A i \in 1..Len(calls) - 1 : calls'[i] = calls[i]
  BY <1>1, <1>2, FrontKeeps DEF Front
<1>4. \A i \in 1..Len(calls') : i \in 1..Len(calls) /\ i < Len(calls) /\ calls'[i] = calls[i]
  BY <1>1, <1>3
<1>5. CallsInv
  BY DEF TypeInv
<1>6. \A i \in 1..Len(calls') : calls'[i].info \in DOMAIN infos
  BY <1>4, <1>5 DEF CallsInv
<1>7. \A i \in 1..Len(calls') : i < Len(calls') =>
          calls'[i].annotation.kind = "list" /\ Len(calls'[i].annotation.args) = 1
  BY <1>4, <1>5 DEF CallsInv
<1>8. \A i, j \in 1..Len(calls') : j < i => calls'[j].info # calls'[i].info
  <2>1. TAKE i, j \in 1..Len(calls')
  <2>2. i \in 1..Len(calls) /\ j \in 1..Len(calls) /\ calls'[i] = calls[i] /\ calls'[j] = calls[j]
    BY <1>4
  <2>3. QED BY <1>5, <2>2 DEF CallsInv
<1>9. QED BY <1>3, <1>6, <1>7, <1>8 DEF CallsInv

LEMMA NoCalls == ASSUME calls' = << >> PROVE CallsInv'
BY DEF CallsInv

\* list_codec_factory makes a FieldInfo that no call has.
LEMMA ItemCalled ==
  ASSUME TypeInv, OpenList
  PROVE  CallsInv'
<1> DEFINE f == Frame(bare, optional, top.info)
           g == Frame(bare.args[1], FALSE, Len(infos) + 1)
<1>1. /\ Len(calls) \in Nat \ {0} /\ top = calls[Len(calls)] /\ calls \in Seq(Frames)
      /\ top \in Frames /\ top.info \in DOMAIN infos
  BY TopTyped DEF TypeInv, CallsInv, OpenList, ByKind, LookedUp, Entered, Resolving
<1>2. PICK n \in Nat : infos = [i \in 1..n |-> infos[i]]
  BY DEF TypeInv, IInv, InfosInv
<1>3. Len(infos) = n /\ DOMAIN infos = 1..n /\ DOMAIN infos' = 1..n + 1
  BY <1>2, AppendKeeps DEF OpenList
<1>4. bare \in Annotations /\ optional \in BOOLEAN /\ bare.kind = "list" /\ Len(bare.args) = 1
  BY BareTyped DEF OpenList, ByKind, LookedUp
<1>5. bare.args[1] \in Annotations
  <2>1. Annotation(bare)
    BY <1>4, ResolverAssumption
  <2>2. bare.args = [i \in 1..1 |-> bare.args[i]] /\ \A i \in DOMAIN bare.args : bare.args[i] \in Annotations
    BY <1>4, <2>1 DEF Annotation
  <2>3. QED BY <2>2
<1>6. f \in Frames /\ g \in Frames /\ f.info = top.info /\ f.annotation = bare /\ g.info = n + 1
  BY <1>1, <1>3, <1>4, <1>5 DEF Frame, Frames
<1> DEFINE c == WithTop(f)
<1> HIDE DEF f, g
<1>7. c \in Seq(Frames) /\ Len(c) = Len(calls)
  BY <1>1, <1>6 DEF WithTop
<1>8. \A i \in 1..Len(calls) : c[i] = IF i = Len(calls) THEN f ELSE calls[i]
  BY <1>1 DEF WithTop
<1>9. \A i \in 1..Len(calls) : c[i].info = calls[i].info
  BY <1>1, <1>6, <1>8
<1>10. \A i \in 1..Len(calls) : c[i].annotation.kind = "list" /\ Len(c[i].annotation.args) = 1
  BY <1>1, <1>4, <1>6, <1>8 DEF TypeInv, CallsInv
<1>11. calls' = Append(c, g)
  BY DEF OpenList, f, g
<1> HIDE DEF c
<1>12. calls' \in Seq(Frames) /\ Len(calls') = Len(calls) + 1
  BY <1>6, <1>7, <1>11
<1>13. (\A i \in 1..Len(calls) : calls'[i] = c[i]) /\ calls'[Len(calls) + 1] = g
  BY <1>6, <1>7, <1>11
<1>14. \A i \in 1..Len(calls) + 1 : i \in 1..Len(calls) \/ i = Len(calls) + 1
  BY <1>1
<1>15. \A i \in 1..Len(calls) : calls'[i].info = calls[i].info /\ calls[i].info \in 1..n
  BY <1>3, <1>9, <1>13 DEF TypeInv, CallsInv
<1>16. \A i \in 1..Len(calls') : calls'[i].info \in DOMAIN infos'
  BY <1>3, <1>6, <1>12, <1>13, <1>14, <1>15
<1>17. \A i \in 1..Len(calls') : i < Len(calls') =>
         calls'[i].annotation.kind = "list" /\ Len(calls'[i].annotation.args) = 1
  BY <1>1, <1>10, <1>12, <1>13, <1>14
<1>18. \A i, j \in 1..Len(calls') : j < i => calls'[j].info # calls'[i].info
  <2> SUFFICES ASSUME NEW i \in 1..Len(calls'), NEW j \in 1..Len(calls'), j < i
               PROVE  calls'[j].info # calls'[i].info
    OBVIOUS
  <2>1. j \in 1..Len(calls)
    BY <1>1, <1>12
  <2>2. CASE i \in 1..Len(calls)
    BY <1>15, <2>1, <2>2 DEF TypeInv, CallsInv
  <2>3. CASE i = Len(calls) + 1
    <3>1. calls'[j].info \in 1..n /\ calls'[i].info = n + 1
      BY <1>6, <1>13, <1>15, <2>1, <2>3
    <3>2. QED BY <3>1
  <2>4. QED BY <1>12, <1>14, <2>2, <2>3
<1>19. QED BY <1>12, <1>16, <1>17, <1>18 DEF CallsInv

\* The actions by what they do to the calls.
Raising == Refuse \/ Unhashable \/ TwoSpecs \/ SpecRaises \/ NotOneItem \/ Unknown \/ DefaultRaises
Returning == UseGiven \/ UseTable \/ UseNumeric \/ UseModel \/ UseEnum \/ CloseList
Deeper == Unspecified \/ ApplySpec

LEMMA Kinds ==
  ASSUME [Next]_vars
  PROVE  \/ UNCHANGED vars \/ Resolve \/ Raising \/ Returning \/ Deeper \/ OpenList \/ AddField
BY DEF Next, Raising, Returning, Deeper

LEMMA Raises ==
  ASSUME Raising
  PROVE  /\ calls # << >> \/ returned # {}
         /\ \E what \in {"SchemaError", "TypeError"} : Raise(what)
BY DEF Raising, Refuse, Unhashable, TwoSpecs, SpecRaises, NotOneItem, Unknown, DefaultRaises,
       ByKind, LookedUp, Entered, Resolving

LEMMA Returns ==
  ASSUME TypeInv, Returning
  PROVE  /\ calls # << >>
         /\ \E codecs : AtMostOne(codecs) /\ Return(codecs)
<1>1. calls # << >>
  BY DEF Returning, UseGiven, UseTable, UseNumeric, UseModel, UseEnum, CloseList,
         ByKind, LookedUp, Entered, Resolving
<1>2. Settings(info)
  BY <1>1, TopTyped
<1>3. CASE UseGiven
  BY <1>1, <1>2, <1>3, OneCodec DEF UseGiven, Given
<1>4. CASE UseTable
  BY <1>1, <1>2, <1>4, OneCodec DEF UseTable
<1>5. CASE UseNumeric
  BY <1>1, <1>2, <1>5, OneCodec DEF UseNumeric
<1>6. CASE UseModel
  <2>1. AtMostOne({[kind |-> "model", name |-> bare.name]})
    BY DEF AtMostOne
  <2>2. QED BY <1>1, <1>6, <2>1 DEF UseModel
<1>7. CASE UseEnum
  BY <1>1, <1>2, <1>7, OneCodec DEF UseEnum
<1>8. CASE CloseList
  <2>1. PICK item \in returned : Return(IF item.optional THEN {} ELSE ListCodec(item.codec, info))
    BY <1>8 DEF CloseList
  <2>2. AtMostOne({})
    BY DEF AtMostOne
  <2>3. AtMostOne(IF item.optional THEN {} ELSE ListCodec(item.codec, info))
    BY <1>2, <2>2, OneCodec
  <2>4. QED BY <1>1, <2>1, <2>3
<1>9. QED BY <1>1, <1>3, <1>4, <1>5, <1>6, <1>7, <1>8 DEF Returning

LEMMA SameInfos ==
  ASSUME [Next]_vars, ~ApplySpec, ~SpecRaises, ~OpenList
  PROVE  UNCHANGED <<program, infos>>
BY OthersKeepInfos DEF vars

\* Both writes of a CodecSpec leave at most one setting of a kind.
LEMMA Written ==
  ASSUME TypeInv, ApplySpec \/ SpecRaises
  PROVE  /\ program' = program /\ Entered /\ bare.kind = "annotated"
         /\ Len(Specs) = 1 /\ Specs[1] \in SettingsIn(bare)
         /\ \E s : /\ infos' = [infos EXCEPT ![top.info] = s]
                   /\ Settings(s)
                   /\ s.prefix \in {info.prefix, Specs[1].prefix}
                   /\ s.codec \in {info.codec, Specs[1].codec}
                   /\ s.encoding \in {info.encoding} \cup Specs[1].encoding
<1>1. /\ program' = program /\ Entered /\ bare.kind = "annotated"
      /\ Len(Specs) = 1 /\ Specs[1].kind = "codec" /\ ~Tabled(bare)
  BY DEF ApplySpec, SpecRaises, ByKind, LookedUp, IsSpec, Tabled
<1>2. Specs[1] \in SettingsIn(bare) /\ CodecSpec(Specs[1])
  <2>1. Annotation(bare)
    BY <1>1, BareTyped, ResolverAssumption
  <2>2. Specs = [i \in 1..1 |-> Specs[i]]
    BY <1>1, <2>1 DEF Annotation, Specs
  <2>3. Specs[1] \in ToSet(Specs)
    BY <2>2 DEF ToSet
  <2>4. CodecSpec(Specs[1])
    BY <1>1, <2>1, <2>2 DEF Annotation, Specs
  <2>5. QED BY <1>1, <2>3, <2>4 DEF SettingsIn, SpecsIn, Specs
<1>3. top.info \in DOMAIN infos /\ Settings(info)
  BY <1>1, TopTyped DEF Entered, Resolving
<1>4. ASSUME NEW x, AtMostOne(x.prefix), AtMostOne(x.codec)
      PROVE LET s == Overridden(info, x)
            IN /\ Settings(s)
               /\ s.prefix \in {info.prefix, x.prefix}
               /\ s.codec \in {info.codec, x.codec}
               /\ s.encoding \in {info.encoding} \cup x.encoding
  <2>1. ASSUME NEW S, S # {} PROVE The(S) \in S
    BY <2>1 DEF The
  <2>2. The(IF x.encoding # {} THEN x.encoding ELSE {info.encoding}) \in {info.encoding} \cup x.encoding
    BY <2>1
  <2>3. QED BY <1>3, <1>4, <2>2 DEF Overridden, Settings
<1>5. CASE ApplySpec
  <2>1. infos' = [infos EXCEPT ![top.info] = Overridden(info, Specs[1])]
    BY <1>3, <1>5 DEF ApplySpec, info
  <2>2. QED BY <1>1, <1>2, <1>4, <2>1 DEF CodecSpec
<1>6. CASE SpecRaises
  <2> DEFINE x == [Specs[1] EXCEPT !.encoding = {}, !.codec = {}]
  <2>1. infos' = [infos EXCEPT ![top.info] = Overridden(info, x)]
    BY <1>3, <1>6 DEF SpecRaises, info
  <2>2. x.prefix = Specs[1].prefix /\ x.encoding = {} /\ x.codec = {}
    BY <1>2 DEF CodecSpec
  <2>3. AtMostOne(x.prefix) /\ AtMostOne(x.codec)
    BY <1>2, <2>2 DEF CodecSpec, AtMostOne
  <2> HIDE DEF x
  <2>4. LET s == Overridden(info, x)
        IN /\ Settings(s)
           /\ s.prefix \in {info.prefix, x.prefix}
           /\ s.codec \in {info.codec, x.codec}
           /\ s.encoding \in {info.encoding} \cup x.encoding
    BY <1>4, <2>3
  <2>5. Overridden(info, x).codec = info.codec
    BY <2>2 DEF Overridden
  <2>6. QED BY <1>1, <1>2, <2>1, <2>2, <2>4, <2>5
<1>7. QED BY <1>5, <1>6

LEMMA CallsStep ==
  ASSUME TypeInv, [Next]_vars
  PROVE  CallsInv'
<1>1. CASE UNCHANGED vars
  BY <1>1 DEF vars, TypeInv, CallsInv
<1>2. CASE Resolve
  <2>1. /\ calls' = <<Frame(Field.annotation, FALSE, Field.info)>>
        /\ infos' = infos /\ next \in DOMAIN program.fields
    BY <1>2 DEF Resolve, TypeInv, IInv, OutcomesInv, FieldInv
  <2>2. Field.annotation \in Annotations /\ Field.info \in DOMAIN program.infos
    BY <2>1 DEF TypeInv, SettingsInv, Program, Field
  <2>3. Field.info \in DOMAIN infos /\ Field.info \in Nat
    BY <2>2 DEF TypeInv, IInv, InfosInv
  <2> DEFINE f == Frame(Field.annotation, FALSE, Field.info)
  <2>4. f \in Frames /\ f.info = Field.info
    BY <2>2, <2>3 DEF Frame, Frames
  <2> HIDE DEF f
  <2>5. <<f>> \in Seq(Frames) /\ Len(<<f>>) = 1 /\ <<f>>[1] = f
    BY <2>4
  <2>6. calls' = <<f>>
    BY <2>1 DEF f
  <2>7. Len(calls') = 1 /\ calls'[1] = f /\ calls' \in Seq(Frames)
    BY <2>5, <2>6
  <2>8. \A i \in 1..1 : i = 1 /\ ~(i < 1)
    OBVIOUS
  <2>9. \A i \in 1..Len(calls') : calls'[i].info \in DOMAIN infos'
    BY <2>1, <2>3, <2>4, <2>7, <2>8
  <2>10. \A i, j \in 1..Len(calls') : ~(j < i)
    BY <2>7, <2>8
  <2>11. \A i \in 1..Len(calls') : ~(i < Len(calls'))
    BY <2>7, <2>8
  <2>12. QED BY <2>7, <2>9, <2>10, <2>11 DEF CallsInv
<1>3. CASE Raising
  BY <1>3, Raises, NoCalls DEF Raise
<1>4. CASE Returning
  <2>1. calls # << >> /\ \E codecs : Return(codecs)
    BY <1>4, Returns
  <2>2. CASE calls' = << >>
    BY <2>2, NoCalls
  <2>3. CASE calls' = Front(calls) /\ infos' = infos
    BY <2>1, <2>3, TopReturns
  <2>4. QED BY <2>1, <2>2, <2>3 DEF Return, Raise
<1>5. CASE Deeper
  <2>1. Entered /\ calls # << >> /\ bare.kind = "annotated"
    BY <1>5 DEF Deeper, Unspecified, ApplySpec, ByKind, LookedUp, Entered, Resolving
  <2> DEFINE f == Frame(bare.base, optional, top.info)
  <2>2. calls' = WithTop(f)
    BY <1>5 DEF Deeper, Unspecified, ApplySpec
  <2>3. f \in Frames /\ f.info = top.info
    BY <2>1, BareTyped, TopTyped DEF Frames, Frame
  <2>4. DOMAIN infos' = DOMAIN infos
    <3>1. CASE Unspecified
      BY <3>1 DEF Unspecified
    <3>2. CASE ApplySpec
      BY <3>2 DEF ApplySpec
    <3>3. QED BY <1>5, <3>1, <3>2 DEF Deeper
  <2> HIDE DEF f
  <2>5. QED BY <2>1, <2>2, <2>3, <2>4, TopReplaced
<1>6. CASE OpenList
  BY <1>6, ItemCalled
<1>7. CASE AddField
  BY <1>7 DEF AddField, TypeInv, CallsInv
<1>8. QED BY <1>1, <1>2, <1>3, <1>4, <1>5, <1>6, <1>7, Kinds

LEMMA SettingsStep ==
  ASSUME TypeInv, [Next]_vars
  PROVE  SettingsInv'
<1>1. program' = program
  BY InfosStep DEF TypeInv, IInv
<1>2. Program(program)'
  BY <1>1 DEF TypeInv, SettingsInv
<1>3. PICK n \in Nat : infos = [i \in 1..n |-> infos[i]]
  BY DEF TypeInv, IInv, InfosInv
<1>4. \A i \in DOMAIN infos : Settings(infos[i])
  BY DEF TypeInv, SettingsInv
<1>5. \A i \in DOMAIN infos' : Settings(infos'[i])
  <2>1. CASE infos' = infos
    BY <1>4, <2>1
  <2>2. CASE ApplySpec \/ SpecRaises
    <3>1. PICK s : infos' = [infos EXCEPT ![top.info] = s] /\ Settings(s)
      BY <2>2, Written
    <3>2. \A i \in DOMAIN infos' : i \in DOMAIN infos /\ infos'[i] \in {s, infos[i]}
      BY <3>1
    <3>3. QED BY <1>4, <3>1, <3>2
  <2>3. CASE OpenList
    <3>1. Settings(FreshInfo)
      BY DEF Settings, FreshInfo, AtMostOne
    <3>2. infos' = Append(infos, FreshInfo)
      BY <2>3 DEF OpenList
    <3>3. /\ infos' = [i \in 1..n + 1 |-> infos'[i]]
          /\ \A i \in 1..n : infos'[i] = infos[i]
          /\ infos'[n + 1] = FreshInfo
      BY <1>3, <3>2, AppendKeeps
    <3>4. \A i \in DOMAIN infos' : i \in 1..n \/ i = n + 1
      BY <3>3
    <3>5. DOMAIN infos = 1..n
      BY <1>3
    <3>6. QED BY <1>4, <3>1, <3>3, <3>4, <3>5
  <2>4. QED BY <2>1, <2>2, <2>3, SameInfos
<1>6. QED BY <1>2, <1>5 DEF SettingsInv

LEMMA ResultStep ==
  ASSUME TypeInv, [Next]_vars
  PROVE  ResultInv'
<1>1. program' = program
  BY InfosStep DEF TypeInv, IInv
<1>2. PICK n \in Nat : outcomes = [i \in 1..n |-> outcomes[i]] /\ n = next - 1
  BY DEF TypeInv, IInv, OutcomesInv
<1>3. next \in Nat /\ Len(program.fields) \in Nat
  BY DEF TypeInv, IInv, OutcomesInv, FieldInv
<1>4. ASSUME UNCHANGED <<next, outcomes>>, AtMostOne(returned') PROVE ResultInv'
  BY <1>1, <1>4 DEF TypeInv, ResultInv
<1>5. ASSUME returned' = {}, next' = next + 1, calls # << >> \/ returned # {},
             NEW r, outcomes' = Append(outcomes, r),
             (r.raised = "nothing") = (r.codec # {})
      PROVE  ResultInv'
  <2>1. AtMostOne(returned')
    BY <1>5 DEF AtMostOne
  <2>2. next \in 1..Len(program.fields)
    BY <1>5 DEF TypeInv, IInv, FieldInv
  <2>3. next' <= Len(program'.fields) + 1
    BY <1>1, <1>3, <1>5, <2>2
  <2>4. /\ outcomes' = [i \in 1..n + 1 |-> outcomes'[i]]
        /\ \A i \in 1..n : outcomes'[i] = outcomes[i]
        /\ outcomes'[n + 1] = r
    BY <1>2, <1>5, AppendKeeps
  <2>5. \A i \in DOMAIN outcomes' : i \in 1..n \/ i = n + 1
    BY <2>4
  <2>6. DOMAIN outcomes = 1..n
    BY <1>2
  <2>7. \A i \in DOMAIN outcomes' : (outcomes'[i].raised = "nothing") = (outcomes'[i].codec # {})
    <3> TAKE i \in DOMAIN outcomes'
    <3>1. CASE i \in 1..n
      <4>1. outcomes'[i] = outcomes[i]
        BY <3>1, <2>4
      <4>2. QED BY <3>1, <4>1, <2>6 DEF TypeInv, ResultInv
    <3>2. CASE i = n + 1
      BY <1>5, <2>4, <3>2
    <3>3. QED BY <2>5, <3>1, <3>2
  <2>8. QED BY <2>1, <2>3, <2>7 DEF ResultInv
<1>6. ASSUME NEW what \in {"SchemaError", "TypeError"}, Raise(what), calls # << >> \/ returned # {}
      PROVE  ResultInv'
  <2> DEFINE r == [raised |-> what, codec |-> {}, optional |-> FALSE]
  <2>1. r.raised # "nothing" /\ r.codec = {}
    BY <1>6
  <2>2. returned' = {} /\ next' = next + 1 /\ outcomes' = Append(outcomes, r)
    BY <1>6 DEF Raise
  <2>3. (r.raised = "nothing") = (r.codec # {})
    BY <2>1
  <2> HIDE DEF r
  <2>4. QED BY <1>5, <1>6, <2>2, <2>3
<1>7. CASE UNCHANGED vars \/ Resolve \/ Deeper \/ OpenList
  <2>1. UNCHANGED <<next, outcomes, returned>>
    BY <1>7 DEF vars, Resolve, Deeper, Unspecified, ApplySpec, OpenList
  <2>2. QED BY <2>1, <1>4 DEF TypeInv, ResultInv
<1>8. CASE Raising
  BY <1>6, <1>8, Raises
<1>9. CASE Returning
  <2>1. PICK codecs : AtMostOne(codecs) /\ Return(codecs)
    BY <1>9, Returns
  <2>2. CASE codecs = {}
    BY <1>6, <1>9, <2>1, <2>2, Returns DEF Return
  <2>3. CASE codecs # {}
    <3>1. /\ UNCHANGED <<next, outcomes>>
          /\ returned' = {[codec |-> c, optional |-> optional, annotation |-> bare] : c \in codecs}
      BY <2>1, <2>3 DEF Return
    <3>2. AtMostOne(returned')
      BY <2>1, <3>1 DEF AtMostOne
    <3>3. QED BY <1>4, <3>1, <3>2
  <2>4. QED BY <2>2, <2>3
<1>10. CASE AddField
  <2>1. returned' = {} /\ next' = next + 1 /\ returned # {}
    BY <1>10 DEF AddField
  <2>2. PICK c : \E o : /\ outcomes' = Append(outcomes, [raised |-> "nothing", optional |-> o, codec |-> c])
                        /\ c # {}
    BY <1>10 DEF AddField
  <2>3. PICK o : outcomes' = Append(outcomes, [raised |-> "nothing", optional |-> o, codec |-> c])
    BY <2>2
  <2> DEFINE r == [raised |-> "nothing", optional |-> o, codec |-> c]
  <2>4. (r.raised = "nothing") = (r.codec # {})
    BY <2>2
  <2>5. outcomes' = Append(outcomes, r)
    BY <2>3
  <2> HIDE DEF r
  <2>6. QED BY <1>5, <2>1, <2>4, <2>5
<1>11. QED BY <1>7, <1>8, <1>9, <1>10, Kinds

LEMMA InitTyped == Init => TypeInv
<1> SUFFICES ASSUME Init PROVE TypeInv
  OBVIOUS
<1>1. Program(program)
  BY ResolverAssumption DEF Init
<1>2. SettingsInv
  BY <1>1 DEF Init, SettingsInv, Program
<1>3. CallsInv
  <2>1. calls = << >> /\ << >> \in Seq(Frames) /\ Len(<< >>) = 0
    BY DEF Init
  <2>2. QED BY <2>1 DEF CallsInv
<1>4. ResultInv
  <2>1. DOMAIN outcomes = {} /\ returned = {} /\ next = 1
    BY DEF Init
  <2>2. Len(program.fields) \in Nat
    BY <1>1 DEF Program
  <2>3. QED BY <2>1, <2>2 DEF ResultInv, AtMostOne
<1>5. QED BY <1>2, <1>3, <1>4, InitInv DEF TypeInv

LEMMA TypeInductive == Spec => []TypeInv
<1>1. TypeInv /\ [Next]_vars => TypeInv'
  <2> SUFFICES ASSUME TypeInv, [Next]_vars PROVE TypeInv'
    OBVIOUS
  <2>1. IInv'
    BY InfosStep, OutcomesStep, FieldStep DEF TypeInv, IInv
  <2>2. QED BY <2>1, SettingsStep, CallsStep, ResultStep DEF TypeInv
<1>2. QED BY InitTyped, <1>1, PTL DEF Spec

\* resolve's locals: every call has a FieldInfo of its own, with at most one
\* prefix and codec, and only lists of one item wait for another call.
THEOREM TypeCorrect == Spec => []TypeOK
BY TypeInductive, Typed, PTL

-----------------------------------------------------------------------------
\* The layers of a without a itself, those of its parts being given by f.
Rest(f, a) ==
  CASE a.kind = "annotated" -> f[a.base]
    [] a.kind = "union" /\ Len(a.args) = 1 -> f[a.args[1]]
    [] OTHER -> << >>

\* The parts of an annotation are less deep than the annotation.
Built(depth) ==
  /\ depth \in [Annotations -> Nat]
  /\ \A a \in Annotations :
       /\ a.kind = "annotated" => depth[a.base] < depth[a]
       /\ a.kind \in {"union", "list"} =>
            \A i \in DOMAIN a.args : depth[a.args[i]] < depth[a]

\* Python builds an annotation out of annotations that are there.
AnnotationsBuilt == \E depth : Built(depth)

LEMMA RestStep ==
  ASSUME NEW a \in Annotations, NEW f, NEW g, NEW depth, Built(depth),
         \A b \in Annotations : depth[b] < depth[a] => f[b] = g[b]
  PROVE  Rest(f, a) = Rest(g, a)
<1>1. CASE a.kind = "annotated"
  BY <1>1, Parts DEF Rest, Built
<1>2. CASE a.kind = "union" /\ Len(a.args) = 1
  BY <1>2, Parts DEF Rest, Built
<1>3. CASE ~(a.kind = "annotated") /\ ~(a.kind = "union" /\ Len(a.args) = 1)
  BY <1>3 DEF Rest
<1>4. QED BY <1>1, <1>2, <1>3

LEMMA RestSeq ==
  ASSUME NEW a \in Annotations, NEW f, NEW depth, Built(depth),
         \A b \in Annotations : depth[b] < depth[a] => f[b] \in Seq(Annotations)
  PROVE  <<a>> \o Rest(f, a) \in Seq(Annotations)
<1>1. Rest(f, a) \in Seq(Annotations)
  <2>1. CASE a.kind = "annotated"
    BY <2>1, Parts DEF Rest, Built
  <2>2. CASE a.kind = "union" /\ Len(a.args) = 1
    BY <2>2, Parts DEF Rest, Built
  <2>3. CASE ~(a.kind = "annotated") /\ ~(a.kind = "union" /\ Len(a.args) = 1)
    BY <2>3 DEF Rest
  <2>4. QED BY <2>1, <2>2, <2>3
<1>2. QED BY <1>1

\* Layers is what its recursive definition says.
LEMMA LayersDefined ==
  ASSUME NEW depth, Built(depth)
  PROVE  /\ Layers \in [Annotations -> Seq(Annotations)]
         /\ \A a \in Annotations : Layers[a] = <<a>> \o Rest(Layers, a)
<1>1. PICK V : V = Seq(Annotations)
  OBVIOUS
<1>2. PICK E : E = [p \in Annotations \X [Annotations -> V] |-> <<p[1]>> \o Rest(p[2], p[1])]
  OBVIOUS
<1>3. \A a \in Annotations : \A f \in [Annotations -> V] : E[<<a, f>>] = <<a>> \o Rest(f, a)
  BY <1>2
<1>4. \E f : f = [a \in Annotations |-> <<a>> \o Rest(f, a)]
  <2>1. E \in [Annotations \X [Annotations -> V] -> V]
    <3>1. \A a \in Annotations : \A f \in [Annotations -> V] : <<a>> \o Rest(f, a) \in V
      BY <1>1, RestSeq
    <3>2. QED BY <1>2, <3>1
  <2>2. ASSUME NEW a \in Annotations, NEW f \in [Annotations -> V], NEW g \in [Annotations -> V],
               \A b \in Annotations : depth[b] < depth[a] => f[b] = g[b]
        PROVE  E[<<a, f>>] = E[<<a, g>>]
    BY <1>3, <2>2, RestStep
  <2>3. << >> \in V
    BY <1>1
  <2>4. V # {} /\ depth \in [Annotations -> Nat]
    BY <2>3 DEF Built
  <2>5. Descends(E, Annotations, V, depth)
    BY <2>1, <2>2, <2>4 DEF Descends
  <2>6. PICK f \in [Annotations -> V] : \A a \in Annotations : f[a] = E[<<a, f>>]
    BY <2>5, Recursive
  <2>7. f = [a \in Annotations |-> <<a>> \o Rest(f, a)]
    BY <1>3, <2>6
  <2>8. QED BY <2>7
<1>5. Layers = [a \in Annotations |-> <<a>> \o Rest(Layers, a)]
  <2>1. Layers = CHOOSE f : f = [a \in Annotations |-> <<a>> \o Rest(f, a)]
    BY Zenon DEF Layers, Rest
  <2>2. QED BY <1>4, <2>1
<1>6. \A a \in Annotations : Layers[a] = <<a>> \o Rest(Layers, a)
  BY <1>5
<1>7. \A a \in Annotations : Layers[a] \in V
  <2> DEFINE P == {a \in Annotations : Layers[a] \in V}
  <2>1. \A a \in Annotations :
          (\A b \in Annotations : depth[b] < depth[a] => b \in P) => a \in P
    BY <1>1, <1>6, RestSeq
  <2>2. Annotations \subseteq P
    <3> HIDE DEF P
    <3>1. depth \in [Annotations -> Nat]
      BY DEF Built
    <3>2. QED BY <2>1, <3>1, Induction
  <2>3. QED BY <2>2
<1>8. QED BY <1>1, <1>5, <1>6, <1>7

\* Going inwards only leaves layers behind.
LEMMA Inwards ==
  ASSUME NEW depth, Built(depth), NEW a \in Annotations
  PROVE  /\ Layers[a] \in Seq(Annotations) /\ a \in ToSet(Layers[a])
         /\ a.kind = "annotated" => ToSet(Layers[a.base]) \subseteq ToSet(Layers[a])
         /\ a.kind = "union" /\ Len(a.args) = 1 => ToSet(Layers[a.args[1]]) \subseteq ToSet(Layers[a])
<1>1. ASSUME NEW s \in Seq(Annotations)
      PROVE  a \in ToSet(<<a>> \o s) /\ ToSet(s) \subseteq ToSet(<<a>> \o s)
  <2>1. Len(<<a>> \o s) = 1 + Len(s) /\ (<<a>> \o s)[1] = a
    OBVIOUS
  <2>2. \A i \in 1..Len(s) : i + 1 \in 1..Len(<<a>> \o s) /\ (<<a>> \o s)[i + 1] = s[i]
    BY <2>1
  <2>3. DOMAIN s = 1..Len(s) /\ DOMAIN (<<a>> \o s) = 1..Len(<<a>> \o s)
    OBVIOUS
  <2> DEFINE t == <<a>> \o s
  <2>5. 1 \in DOMAIN t
    BY <2>1, <2>3
  <2> HIDE DEF t
  <2>4. ToSet(t) = {t[i] : i \in DOMAIN t} /\ ToSet(s) = {s[i] : i \in DOMAIN s}
    BY DEF ToSet
  <2>6. a \in ToSet(t)
    BY <2>1, <2>5, <2>4 DEF t
  <2>7. ToSet(s) \subseteq ToSet(t)
    BY <2>2, <2>3, <2>4 DEF t
  <2>8. QED BY <2>6, <2>7 DEF t
<1>2. Layers[a] = <<a>> \o Rest(Layers, a) /\ Layers[a] \in Seq(Annotations)
  BY LayersDefined
<1>3. ASSUME a.kind = "annotated" PROVE Rest(Layers, a) = Layers[a.base] /\ Layers[a.base] \in Seq(Annotations)
  BY <1>3, Parts, LayersDefined DEF Rest
<1>4. ASSUME a.kind = "union" /\ Len(a.args) = 1
      PROVE Rest(Layers, a) = Layers[a.args[1]] /\ Layers[a.args[1]] \in Seq(Annotations)
  BY <1>4, Parts, LayersDefined DEF Rest
<1>5. Rest(Layers, a) \in Seq(Annotations)
  <2>1. CASE ~(a.kind = "annotated") /\ ~(a.kind = "union" /\ Len(a.args) = 1)
    BY <2>1 DEF Rest
  <2>2. QED BY <2>1, <1>3, <1>4
<1>6. QED BY <1>1, <1>2, <1>3, <1>4, <1>5

\* A call that writes into a FieldInfo of the program is inside the annotation
\* of the field that is being resolved.
InsideInv ==
  \A i \in 1..Len(calls) : calls[i].info \in DOMAIN program.infos =>
    /\ calls[i].info = Field.info
    /\ ToSet(Layers[calls[i].annotation]) \subseteq ToSet(Layers[Field.annotation])

LEMMA TopInside ==
  ASSUME AnnotationsBuilt, TypeInv, InsideInv, Entered
  PROVE  top.info \in DOMAIN program.infos =>
           /\ top.info = Field.info
           /\ bare \in ToSet(Layers[Field.annotation])
           /\ ToSet(Layers[bare]) \subseteq ToSet(Layers[Field.annotation])
           /\ bare.kind = "annotated" =>
                ToSet(Layers[bare.base]) \subseteq ToSet(Layers[Field.annotation])
<1> SUFFICES ASSUME top.info \in DOMAIN program.infos
             PROVE  /\ top.info = Field.info
                    /\ bare \in ToSet(Layers[Field.annotation])
                    /\ ToSet(Layers[bare]) \subseteq ToSet(Layers[Field.annotation])
                    /\ bare.kind = "annotated" =>
                         ToSet(Layers[bare.base]) \subseteq ToSet(Layers[Field.annotation])
  OBVIOUS
<1>1. PICK depth : Built(depth)
  BY DEF AnnotationsBuilt
<1>2. Len(calls) \in 1..Len(calls) /\ top = calls[Len(calls)] /\ top \in Frames
  BY TopTyped DEF Entered, Resolving
<1>3. /\ top.info = Field.info
      /\ ToSet(Layers[top.annotation]) \subseteq ToSet(Layers[Field.annotation])
  BY <1>2 DEF InsideInv
<1>4. ToSet(Layers[bare]) \subseteq ToSet(Layers[top.annotation])
  <2>1. top.annotation \in Annotations
    BY <1>2 DEF Frames
  <2>2. QED BY <1>1, <2>1, BareTyped, Inwards
<1>5. bare \in ToSet(Layers[bare])
  BY <1>1, BareTyped, Inwards
<1>6. bare.kind = "annotated" => ToSet(Layers[bare.base]) \subseteq ToSet(Layers[bare])
  BY <1>1, BareTyped, Inwards
<1>7. QED BY <1>3, <1>4, <1>5, <1>6

LEMMA InsideStep ==
  ASSUME AnnotationsBuilt, TypeInv, InsideInv, [Next]_vars
  PROVE  InsideInv'
<1>1. program' = program
  BY InfosStep DEF TypeInv, IInv
<1>2. CASE UNCHANGED vars
  BY <1>2 DEF vars, InsideInv, Field
<1>3. ASSUME calls' = << >> PROVE InsideInv'
  <2>1. Len(calls') = 0
    BY <1>3
  <2>2. QED BY <2>1 DEF InsideInv
<1>4. CASE Resolve
  <2>1. calls' = <<Frame(Field.annotation, FALSE, Field.info)>> /\ next' = next
    BY <1>4 DEF Resolve
  <2>2. Field' = Field
    BY <1>1, <2>1 DEF Field
  <2> DEFINE f == Frame(Field.annotation, FALSE, Field.info)
  <2>3. f.annotation = Field.annotation /\ f.info = Field.info
    BY DEF Frame
  <2> HIDE DEF f
  <2>4. calls' = <<f>>
    BY <2>1 DEF f
  <2>5. Len(calls') = 1 /\ calls'[1] = f
    BY <2>4
  <2>6. \A i \in 1..1 : i = 1
    OBVIOUS
  <2>7. QED BY <2>2, <2>3, <2>5, <2>6 DEF InsideInv
<1>5. CASE Raising
  BY <1>3, <1>5, Raises DEF Raise
<1>6. CASE Returning
  <2>1. calls # << >> /\ \E codecs : Return(codecs)
    BY <1>6, Returns
  <2>2. CASE calls' = << >>
    BY <1>3, <2>2
  <2>3. CASE calls' = Front(calls) /\ next' = next
    <3>1. calls \in Seq(Frames) /\ Len(calls) \in Nat
      BY DEF TypeInv, CallsInv
    <3>2. Len(calls') = Len(calls) - 1 /\ \A i \in 1..Len(calls) - 1 : calls'[i] = calls[i]
      BY <2>1, <2>3, <3>1, FrontKeeps
    <3>3. Field' = Field
      BY <1>1, <2>3 DEF Field
    <3>4. \A i \in 1..Len(calls') : i \in 1..Len(calls) /\ calls'[i] = calls[i]
      BY <3>1, <3>2
    <3>5. QED BY <1>1, <3>3, <3>4 DEF InsideInv
  <2>4. QED BY <2>1, <2>2, <2>3 DEF Return, Raise
<1>7. ASSUME Entered, NEW f, f.info = top.info, NEW c, c = WithTop(f), next' = next,
             f.annotation = bare \/ (bare.kind = "annotated" /\ f.annotation = bare.base)
      PROVE  \A i \in 1..Len(calls) : c[i].info \in DOMAIN program'.infos =>
               /\ c[i].info = Field'.info
               /\ ToSet(Layers[c[i].annotation]) \subseteq ToSet(Layers[Field'.annotation])
  <2>1. top.info \in DOMAIN program.infos =>
          /\ f.info = Field.info
          /\ ToSet(Layers[f.annotation]) \subseteq ToSet(Layers[Field.annotation])
    BY <1>7, TopInside
  <2>2. calls \in Seq(Frames) /\ Len(calls) \in Nat
    BY DEF TypeInv, CallsInv
  <2>3. \A i \in 1..Len(calls) : c[i] = IF i = Len(calls) THEN f ELSE calls[i]
    BY <1>7, <2>2 DEF WithTop
  <2>4. Field' = Field
    BY <1>1, <1>7 DEF Field
  <2>5. \A i \in 1..Len(calls) : c[i] = f \/ c[i] = calls[i]
    BY <2>3
  <2>6. QED BY <1>1, <1>7, <2>1, <2>4, <2>5 DEF InsideInv
<1>8. CASE Deeper
  <2>1. Entered /\ bare.kind = "annotated" /\ next' = next
    BY <1>8 DEF Deeper, Unspecified, ApplySpec, ByKind, LookedUp
  <2> DEFINE f == Frame(bare.base, optional, top.info)
  <2>2. calls' = WithTop(f) /\ f.info = top.info /\ f.annotation = bare.base
    BY <1>8 DEF Deeper, Unspecified, ApplySpec, Frame
  <2> HIDE DEF f
  <2>3. \A i \in 1..Len(calls) : calls'[i].info \in DOMAIN program'.infos =>
          /\ calls'[i].info = Field'.info
          /\ ToSet(Layers[calls'[i].annotation]) \subseteq ToSet(Layers[Field'.annotation])
    BY <1>7, <2>1, <2>2
  <2>4. Len(calls') = Len(calls)
    BY <2>2 DEF WithTop, TypeInv, CallsInv
  <2>5. QED BY <2>3, <2>4 DEF InsideInv
<1>9. CASE OpenList
  <2> DEFINE f == Frame(bare, optional, top.info)
             g == Frame(bare.args[1], FALSE, Len(infos) + 1)
  <2>1. Entered /\ next' = next /\ calls' = Append(WithTop(f), g)
    BY <1>9 DEF OpenList, ByKind, LookedUp
  <2>2. f.info = top.info /\ f.annotation = bare /\ g.info = Len(infos) + 1
    BY DEF Frame
  <2> HIDE DEF f, g
  <2>3. calls \in Seq(Frames) /\ Len(calls) \in Nat
    BY DEF TypeInv, CallsInv
  <2> DEFINE c == WithTop(f)
  <2>4. c = [i \in 1..Len(calls) |-> c[i]]
    BY <2>3 DEF WithTop
  <2>5. \A i \in 1..Len(calls) : c[i].info \in DOMAIN program'.infos =>
          /\ c[i].info = Field'.info
          /\ ToSet(Layers[c[i].annotation]) \subseteq ToSet(Layers[Field'.annotation])
    BY <1>7, <2>1, <2>2
  <2> HIDE DEF c
  <2>6. /\ calls' = [i \in 1..Len(calls) + 1 |-> calls'[i]]
        /\ \A i \in 1..Len(calls) : calls'[i] = c[i]
        /\ calls'[Len(calls) + 1] = g
    BY <2>1, <2>3, <2>4, AppendKeeps DEF c
  <2>7. Len(calls') = Len(calls) + 1
    BY <2>3, <2>6, AppendKeeps
  <2>8. g.info \notin DOMAIN program'.infos
    <3>1. PICK n \in Nat : infos = [i \in 1..n |-> infos[i]] /\ Len(program.infos) <= n
      BY DEF TypeInv, IInv, InfosInv
    <3>2. Len(infos) = n
      BY <3>1, AppendKeeps
    <3>3. DOMAIN program.infos = 1..Len(program.infos) /\ Len(program.infos) \in Nat
      BY DEF TypeInv, IInv, InfosInv
    <3>4. QED BY <1>1, <2>2, <3>1, <3>2, <3>3
  <2>9. \A i \in 1..Len(calls') : i \in 1..Len(calls) \/ i = Len(calls) + 1
    BY <2>3, <2>7
  <2>10. QED BY <2>5, <2>6, <2>8, <2>9 DEF InsideInv
<1>10. CASE AddField
  <2>1. calls' = << >>
    BY <1>10 DEF AddField
  <2>2. QED BY <1>3, <2>1
<1>11. QED BY <1>2, <1>4, <1>5, <1>6, <1>8, <1>9, <1>10, Kinds

\* What is written is in a layer of the field that is being resolved.
LEMMA LeaksStep ==
  ASSUME AnnotationsBuilt, TypeInv, InsideInv, LeaksConfined, [Next]_vars
  PROVE  LeaksConfined'
<1>1. program' = program
  BY InfosStep DEF TypeInv, IInv
<1>2. next \in Nat /\ next' \in Nat /\ next <= next'
  <2>1. next \in Nat
    BY DEF TypeInv, IInv, OutcomesInv
  <2>2. next' = next \/ next' = next + 1
    BY OutcomeAdded DEF AddField, vars
  <2>3. QED BY <2>1, <2>2
<1>3. \A i : Met(i) \subseteq Met(i)'
  BY <1>1, <1>2 DEF Met, FieldOf
<1>4. ASSUME NEW i \in DOMAIN program.infos
      PROVE  LET own == program'.infos[i]
             IN /\ infos'[i].prefix \in {own.prefix} \cup {s.prefix : s \in Met(i)'}
                /\ infos'[i].codec \in {own.codec} \cup {s.codec : s \in Met(i)'}
                /\ infos'[i].encoding \in {own.encoding} \cup UNION {s.encoding : s \in Met(i)'}
  <2> DEFINE own == program.infos[i]
  <2>1. /\ infos[i].prefix \in {own.prefix} \cup {s.prefix : s \in Met(i)'}
        /\ infos[i].codec \in {own.codec} \cup {s.codec : s \in Met(i)'}
        /\ infos[i].encoding \in {own.encoding} \cup UNION {s.encoding : s \in Met(i)'}
    BY <1>3, <1>4 DEF LeaksConfined
  <2>2. CASE infos'[i] = infos[i]
    BY <1>1, <2>1, <2>2
  <2>3. CASE infos'[i] # infos[i]
    <3>1. PICK n \in Nat : infos = [j \in 1..n |-> infos[j]] /\ Len(program.infos) <= n
      BY DEF TypeInv, IInv, InfosInv
    <3>2. i \in 1..n
      <4>1. DOMAIN program.infos = 1..Len(program.infos) /\ Len(program.infos) \in Nat
        BY DEF TypeInv, IInv, InfosInv
      <4>2. QED BY <3>1, <4>1
    <3>3. ~OpenList
      <4>1. ASSUME OpenList PROVE infos'[i] = infos[i]
        BY <3>1, <3>2, <4>1, AppendKeeps DEF OpenList
      <4>2. QED BY <2>3, <4>1
    <3>4. ApplySpec \/ SpecRaises
      BY <2>3, <3>3, SameInfos
    <3>5. Entered /\ Specs[1] \in SettingsIn(bare)
      BY <3>4, Written
    <3>6. PICK s : /\ infos' = [infos EXCEPT ![top.info] = s]
                   /\ s.prefix \in {info.prefix, Specs[1].prefix}
                   /\ s.codec \in {info.codec, Specs[1].codec}
                   /\ s.encoding \in {info.encoding} \cup Specs[1].encoding
      BY <3>4, Written
    <3>7. i = top.info /\ infos'[i] = s /\ info = infos[i]
      BY <2>3, <3>1, <3>2, <3>6 DEF info
    <3>8. i = Field.info /\ bare \in ToSet(Layers[Field.annotation])
      BY <1>4, <3>5, <3>7, TopInside
    <3>9. Specs[1] \in Met(i)
      <4>1. next \in 1..Len(program.fields)
        BY <3>5 DEF TypeInv, IInv, FieldInv, Entered, Resolving
      <4>2. next <= next /\ Field = FieldOf(next)
        BY <1>2 DEF Field, FieldOf
      <4>3. QED BY <3>5, <3>8, <4>1, <4>2 DEF Met
    <3>10. Specs[1] \in Met(i)'
      BY <1>3, <3>9
    <3>11. QED BY <1>1, <2>1, <3>6, <3>7, <3>10
  <2>4. QED BY <2>2, <2>3
<1>5. QED BY <1>1, <1>4 DEF LeaksConfined

\* A FieldInfo used again has only settings of its own and of the CodecSpecs
\* in the annotations of the fields it was used for so far: none of list
\* items, and none of fields with another FieldInfo.
THEOREM LeaksConfinedCorrect ==
  ASSUME AnnotationsBuilt
  PROVE  Spec => []LeaksConfined
<1>1. Init => InsideInv /\ LeaksConfined
  <2> SUFFICES ASSUME Init PROVE InsideInv /\ LeaksConfined
    OBVIOUS
  <2>1. Len(calls) = 0 /\ infos = program.infos
    BY DEF Init
  <2>2. InsideInv
    BY <2>1 DEF InsideInv
  <2>3. LeaksConfined
    BY <2>1 DEF LeaksConfined
  <2>4. QED BY <2>2, <2>3
<1>2. TypeInv /\ InsideInv /\ LeaksConfined /\ [Next]_vars => InsideInv' /\ LeaksConfined'
  BY InsideStep, LeaksStep
<1>3. QED BY <1>1, <1>2, TypeInductive, PTL DEF Spec

-----------------------------------------------------------------------------
(* Sequences of layers, the outermost x taken off.                         *)
Outside(x, L) == <<x>> \o L

LEMMA OutsideSeq ==
  ASSUME NEW x \in Annotations, NEW L \in Seq(Annotations)
  PROVE  /\ Outside(x, L) \in Seq(Annotations) /\ Len(Outside(x, L)) = Len(L) + 1
         /\ Outside(x, L)[1] = x
         /\ \A i \in 1..Len(L) : Outside(x, L)[i + 1] = L[i]
         /\ DOMAIN Outside(x, L) = 1..Len(L) + 1 /\ DOMAIN L = 1..Len(L) /\ Len(L) \in Nat
BY DEF Outside

LEMMA OutsideIndex ==
  ASSUME NEW n \in Nat, NEW i \in 1..n + 1
  PROVE  i = 1 \/ (i - 1 \in 1..n /\ i = (i - 1) + 1)
OBVIOUS

LEMMA InsideIndex ==
  ASSUME NEW n \in Nat, NEW i \in 1..n
  PROVE  i + 1 \in 1..n + 1 /\ i + 1 # 1
OBVIOUS

LEMMA GreatestIs ==
  ASSUME NEW I \in SUBSET Int, NEW n \in I, \A i \in I : n >= i
  PROVE  Max(I) = n
<1>1. \A m \in I : (\A i \in I : m >= i) => m = n
  OBVIOUS
<1>2. QED BY <1>1 DEF Max

LEMMA LeastIs ==
  ASSUME NEW I \in SUBSET Int, NEW n \in I, \A i \in I : n =< i
  PROVE  Min(I) = n
<1>1. \A m \in I : (\A i \in I : m =< i) => m = n
  OBVIOUS
<1>2. QED BY <1>1 DEF Min

\* Indexes that are not all there have a greatest one.
LEMMA Greatest ==
  ASSUME NEW n \in Nat, NEW I \in SUBSET (1..n), I # {}
  PROVE  \E m \in I : \A i \in I : m >= i
<1> DEFINE T == {n - i : i \in I}
<1>0. \A i \in I : i \in 1..n /\ i \in Int /\ n - i \in Nat
  OBVIOUS
<1>1. T \in SUBSET Nat /\ T # {}
  BY <1>0
<1>2. PICK t \in T : \A u \in T : t <= u
  <2> HIDE DEF T
  <2>1. QED BY <1>1, Least
<1>3. PICK m \in I : t = n - m
  BY <1>2
<1>4. \A i \in I : m >= i
  <2> TAKE i \in I
  <2>1. n - m <= n - i
    BY <1>2, <1>3
  <2>2. i \in Int /\ m \in Int
    BY <1>0
  <2>3. QED BY <2>1, <2>2
<1>5. QED BY <1>4

\* What a layer sets, and the layers that set something.
Sets(x, setting) == \E y \in SettingsIn(x) : y[setting] # {}
SetBy(x, setting) == UNION {y[setting] : y \in SettingsIn(x)}
SetIn(L, setting) == {i \in DOMAIN L : Sets(L[i], setting)}

LEMMA InnermostNone ==
  ASSUME NEW L, NEW default, NEW setting, SetIn(L, setting) = {}
  PROVE  Innermost(L, default, setting) = default
BY DEF Innermost, SetIn, Sets

LEMMA InnermostIs ==
  ASSUME NEW L, NEW default, NEW setting, NEW n \in Nat, DOMAIN L = 1..n,
         NEW m \in SetIn(L, setting), \A i \in SetIn(L, setting) : m >= i
  PROVE  Innermost(L, default, setting) = SetBy(L[m], setting)
<1>1. PICK I : I = SetIn(L, setting)
  OBVIOUS
<1>2. Max(I) = m
  <2>1. I \in SUBSET Int /\ m \in I /\ \A i \in I : m >= i
    BY <1>1 DEF SetIn
  <2>2. QED BY <2>1, GreatestIs
<1>3. I = {i \in DOMAIN L : \E x \in SettingsIn(L[i]) : x[setting] # {}}
  BY <1>1 DEF SetIn, Sets
<1>4. I # {}
  BY <1>1
<1>5. Innermost(L, default, setting) =
        IF I = {} THEN default ELSE UNION {x[setting] : x \in SettingsIn(L[Max(I)])}
  BY <1>3, Zenon DEF Innermost
<1>6. QED BY <1>2, <1>4, <1>5 DEF SetBy

LEMMA InnermostOne ==
  ASSUME NEW x, NEW default, NEW setting
  PROVE  Innermost(<<x>>, default, setting) =
           IF Sets(x, setting) THEN SetBy(x, setting) ELSE default
<1>1. DOMAIN <<x>> = 1..1 /\ <<x>>[1] = x /\ 1..1 = {1}
  OBVIOUS
<1>2. CASE Sets(x, setting)
  <2>1. SetIn(<<x>>, setting) = {1}
    BY <1>1, <1>2 DEF SetIn
  <2>2. PICK L : L = <<x>>
    OBVIOUS
  <2>3. DOMAIN L = 1..1 /\ L[1] = x /\ SetIn(L, setting) = {1}
    BY <1>1, <2>1, <2>2
  <2>4. 1 \in SetIn(L, setting) /\ \A i \in SetIn(L, setting) : 1 >= i
    BY <2>3
  <2>5. Innermost(L, default, setting) = SetBy(L[1], setting)
    BY <2>3, <2>4, InnermostIs
  <2>6. QED BY <1>2, <2>2, <2>3, <2>5
<1>3. CASE ~Sets(x, setting)
  <2>1. SetIn(<<x>>, setting) = {}
    BY <1>1, <1>3 DEF SetIn
  <2>2. QED BY <1>3, <2>1, InnermostNone
<1>4. QED BY <1>2, <1>3

\* What the inner layers set goes before what the outermost sets.
LEMMA InnermostOutside ==
  ASSUME NEW x \in Annotations, NEW L \in Seq(Annotations), NEW default, NEW setting
  PROVE  Innermost(Outside(x, L), default, setting) =
           Innermost(L, Innermost(<<x>>, default, setting), setting)
<1>0. PICK M : M = Outside(x, L)
  OBVIOUS
<1>1. PICK n \in Nat :
        /\ DOMAIN L = 1..n /\ DOMAIN M = 1..n + 1
        /\ M[1] = x /\ \A i \in 1..n : M[i + 1] = L[i]
  BY <1>0, OutsideSeq
<1>2. PICK I : I = SetIn(L, setting)
  OBVIOUS
<1>3. PICK J : J = SetIn(M, setting)
  OBVIOUS
<1>4. \A i \in 1..n : i + 1 \in J <=> i \in I
  BY <1>1, <1>2, <1>3, InsideIndex DEF SetIn
<1>5. \A j \in J : j = 1 \/ (j - 1 \in I /\ j = (j - 1) + 1)
  BY <1>1, <1>3, <1>4, OutsideIndex DEF SetIn
<1>6. 1 \in J <=> Sets(x, setting)
  BY <1>1, <1>3 DEF SetIn
<1>7. I \in SUBSET (1..n) /\ J \in SUBSET (1..n + 1)
  BY <1>1, <1>2, <1>3 DEF SetIn
<1>8. n + 1 \in Nat
  OBVIOUS
<1>9. CASE I # {}
  <2>1. PICK m \in I : \A i \in I : m >= i
    BY <1>7, <1>9, Greatest
  <2>2. m \in 1..n /\ m + 1 \in J
    BY <1>4, <1>7, <2>1
  <2>3. \A j \in J : m + 1 >= j
    <3> TAKE j \in J
    <3>1. CASE j = 1
      BY <2>2, <3>1
    <3>2. CASE j - 1 \in I /\ j = (j - 1) + 1
      <4>1. m >= j - 1 /\ j \in Int
        BY <1>7, <2>1, <3>2
      <4>2. QED BY <2>2, <4>1
    <3>3. QED BY <1>5, <3>1, <3>2
  <2>4. Innermost(M, default, setting) = SetBy(M[m + 1], setting)
    BY <1>1, <1>3, <1>8, <2>2, <2>3, InnermostIs
  <2>5. \A d : Innermost(L, d, setting) = SetBy(L[m], setting)
    BY <1>1, <1>2, <2>1, InnermostIs
  <2>6. M[m + 1] = L[m]
    BY <1>1, <2>2
  <2>7. QED BY <1>0, <2>4, <2>5, <2>6
<1>10. CASE I = {}
  <2>1. \A d : Innermost(L, d, setting) = d
    BY <1>2, <1>10, InnermostNone
  <2>2. CASE 1 \in J
    <3>1. J = {1}
      BY <1>5, <1>10, <2>2
    <3>2. 1 \in J /\ \A j \in J : 1 >= j
      BY <3>1
    <3>3. Innermost(M, default, setting) = SetBy(M[1], setting)
      BY <1>1, <1>3, <1>8, <3>2, InnermostIs
    <3>4. QED BY <1>0, <1>1, <1>6, <2>1, <2>2, <3>3, InnermostOne
  <2>3. CASE 1 \notin J
    <3>1. J = {}
      BY <1>5, <1>10, <2>3
    <3>2. Innermost(M, default, setting) = default
      BY <1>3, <3>1, InnermostNone
    <3>3. QED BY <1>0, <1>6, <2>1, <2>3, <3>2, InnermostOne
  <2>4. QED BY <2>2, <2>3
<1>11. QED BY <1>9, <1>10

-----------------------------------------------------------------------------
LEMMA DecidingIs ==
  ASSUME NEW L, NEW n \in Nat, Len(L) = n, DOMAIN L = 1..n,
         NEW m \in 1..n, m = n \/ Decides(L[m]),
         \A i \in 1..n : i < m => ~Decides(L[i])
  PROVE  Deciding(L) = m
<1>1. PICK I : I = {Len(L)} \cup {i \in DOMAIN L : Decides(L[i])}
  OBVIOUS
<1>2. \A i \in I : i \in Int /\ m =< i
  BY <1>1
<1>3. m \in I
  BY <1>1
<1>4. I \in SUBSET Int
  BY <1>2
<1>5. Min(I) = m
  BY <1>2, <1>3, <1>4, LeastIs
<1>6. QED BY <1>1, <1>5 DEF Deciding

\* The layer that decides is the last or decides, and none before it does.
LEMMA DecidingExists ==
  ASSUME NEW L, NEW n \in Nat, n > 0, Len(L) = n, DOMAIN L = 1..n
  PROVE  /\ Deciding(L) \in 1..n
         /\ Deciding(L) = n \/ Decides(L[Deciding(L)])
         /\ \A i \in 1..n : i < Deciding(L) => ~Decides(L[i])
<1>1. PICK I : I = {n} \cup {i \in 1..n : Decides(L[i])}
  OBVIOUS
<1>2. \A i \in I : i \in 1..n
  BY <1>1
<1>3. I \in SUBSET Nat /\ I # {}
  BY <1>1, <1>2
<1>4. PICK m \in I : \A i \in I : m <= i
  BY <1>3, Least
<1>5. m \in 1..n /\ (m = n \/ Decides(L[m]))
  BY <1>1, <1>2
<1>6. \A i \in 1..n : i < m => ~Decides(L[i])
  <2> SUFFICES ASSUME NEW i \in 1..n, i < m, Decides(L[i]) PROVE FALSE
    OBVIOUS
  <2>1. m <= i
    BY <1>1, <1>4
  <2>2. QED BY <1>5, <2>1
<1>7. Deciding(L) = m
  BY <1>5, <1>6, DecidingIs
<1>8. QED BY <1>5, <1>6, <1>7

LEMMA DecidingOutside ==
  ASSUME NEW x \in Annotations, NEW L \in Seq(Annotations), L # << >>
  PROVE  /\ Decides(x) => Deciding(Outside(x, L)) = 1
         /\ ~Decides(x) => Deciding(Outside(x, L)) = Deciding(L) + 1
<1>0. PICK M : M = Outside(x, L)
  OBVIOUS
<1>1. PICK n \in Nat :
        /\ Len(L) = n /\ DOMAIN L = 1..n /\ Len(M) = n + 1 /\ DOMAIN M = 1..n + 1
        /\ M[1] = x /\ \A i \in 1..n : M[i + 1] = L[i]
  BY <1>0, OutsideSeq
<1>2. n > 0 /\ n + 1 \in Nat /\ 1 \in 1..n + 1
  BY <1>1
<1>3. ASSUME Decides(x) PROVE Deciding(M) = 1
  <2>1. \A i \in 1..n + 1 : ~(i < 1)
    OBVIOUS
  <2>2. QED BY <1>1, <1>2, <1>3, <2>1, DecidingIs
<1>4. ASSUME ~Decides(x) PROVE Deciding(M) = Deciding(L) + 1
  <2>1. PICK m : m = Deciding(L)
    OBVIOUS
  <2>2. /\ m \in 1..n /\ (m = n \/ Decides(L[m]))
        /\ \A i \in 1..n : i < m => ~Decides(L[i])
    BY <1>1, <1>2, <2>1, DecidingExists
  <2>3. m + 1 \in 1..n + 1 /\ (m + 1 = n + 1 \/ Decides(M[m + 1]))
    BY <1>1, <2>2
  <2>4. \A i \in 1..n + 1 : i < m + 1 => ~Decides(M[i])
    <3> SUFFICES ASSUME NEW i \in 1..n + 1, i < m + 1 PROVE ~Decides(M[i])
      OBVIOUS
    <3>1. CASE i = 1
      BY <1>1, <1>4, <3>1
    <3>2. CASE i - 1 \in 1..n /\ i = (i - 1) + 1
      <4>1. M[i] = L[i - 1] /\ i - 1 < m
        BY <1>1, <2>2, <3>2
      <4>2. QED BY <2>2, <3>2, <4>1
    <3>3. QED BY <3>1, <3>2, OutsideIndex
  <2>5. QED BY <1>1, <1>2, <2>1, <2>3, <2>4, DecidingIs
<1>5. QED BY <1>0, <1>3, <1>4

\* The outermost layer is also the first of those up to a deeper one.
LEMMA OutsidePrefix ==
  ASSUME NEW x \in Annotations, NEW L \in Seq(Annotations), NEW m \in 1..Len(L)
  PROVE  /\ SubSeq(L, 1, m) \in Seq(Annotations)
         /\ SubSeq(Outside(x, L), 1, m + 1) = Outside(x, SubSeq(L, 1, m))
         /\ SubSeq(Outside(x, L), 1, 1) = <<x>>
<1>0. PICK M : M = Outside(x, L)
  OBVIOUS
<1>1. PICK n \in Nat :
        /\ Len(L) = n /\ DOMAIN L = 1..n /\ Len(M) = n + 1 /\ DOMAIN M = 1..n + 1
        /\ M \in Seq(Annotations)
        /\ M[1] = x /\ \A i \in 1..n : M[i + 1] = L[i]
  BY <1>0, OutsideSeq
<1>2. PICK P : P = SubSeq(L, 1, m)
  OBVIOUS
<1>3. PICK Q : Q = SubSeq(M, 1, m + 1)
  OBVIOUS
<1>4. P \in Seq(Annotations) /\ Len(P) = m /\ \A i \in 1..m : P[i] = L[i]
  BY <1>1, <1>2
<1>5. Q \in Seq(Annotations) /\ Len(Q) = m + 1 /\ \A i \in 1..m + 1 : Q[i] = M[i]
  BY <1>1, <1>3
<1>6. PICK R : R = Outside(x, P)
  OBVIOUS
<1>7. R \in Seq(Annotations) /\ Len(R) = m + 1 /\ R[1] = x /\ \A i \in 1..m : R[i + 1] = P[i]
  BY <1>4, <1>6, OutsideSeq
<1>8. \A i \in 1..m + 1 : Q[i] = R[i]
  <2> TAKE i \in 1..m + 1
  <2>1. CASE i = 1
    BY <1>1, <1>5, <1>7, <2>1
  <2>2. CASE i - 1 \in 1..m /\ i = (i - 1) + 1
    <3>1. i - 1 \in 1..n
      BY <1>1, <2>2
    <3>2. Q[i] = L[i - 1] /\ R[i] = L[i - 1]
      BY <1>1, <1>4, <1>5, <1>7, <2>2, <3>1
    <3>3. QED BY <3>2
  <2>3. m \in Nat
    OBVIOUS
  <2>4. QED BY <2>1, <2>2, <2>3, OutsideIndex
<1>9. Q = R
  BY <1>5, <1>7, <1>8
<1>10. SubSeq(M, 1, 1) = <<x>>
  <2>1. PICK S : S = SubSeq(M, 1, 1)
    OBVIOUS
  <2>2. S \in Seq(Annotations) /\ Len(S) = 1 /\ S[1] = x
    BY <1>1, <2>1
  <2>3. S = <<x>>
    BY <2>2
  <2>4. QED BY <2>1, <2>3
<1>11. QED BY <1>0, <1>2, <1>3, <1>4, <1>6, <1>9, <1>10

\* After the outermost layer the encoding is e.
Encodes(x, s, e) == Innermost(<<x>>, {s.encoding}, "encoding") = {e}

\* What field() and the outermost layer set is what the inner layers override.
LEMMA SettingsOutside ==
  ASSUME NEW x \in Annotations, NEW L \in Seq(Annotations), NEW s, NEW e,
         Encodes(x, s, e)
  PROVE  SettingsAt(Outside(x, L), s) = SettingsAt(L, SettingsAt(<<x>>, s))
<1>1. PICK t : t = SettingsAt(<<x>>, s)
  OBVIOUS
<1>2. The({e}) = e
  BY DEF The
<1>3. t = [prefix |-> Innermost(<<x>>, s.prefix, "prefix"), encoding |-> e,
           codec |-> Innermost(<<x>>, s.codec, "codec")]
  BY <1>1, <1>2 DEF SettingsAt, Encodes
<1>4. /\ t.prefix = Innermost(<<x>>, s.prefix, "prefix")
      /\ {t.encoding} = Innermost(<<x>>, {s.encoding}, "encoding")
      /\ t.codec = Innermost(<<x>>, s.codec, "codec")
  BY <1>3 DEF Encodes
<1>5. Innermost(Outside(x, L), s.prefix, "prefix") = Innermost(L, t.prefix, "prefix")
  BY <1>4, InnermostOutside
<1>6. Innermost(Outside(x, L), {s.encoding}, "encoding") = Innermost(L, {t.encoding}, "encoding")
  <2>1. PICK d : d = {s.encoding}
    OBVIOUS
  <2>2. PICK f : f = {t.encoding}
    OBVIOUS
  <2>3. f = Innermost(<<x>>, d, "encoding")
    BY <1>4, <2>1, <2>2
  <2>4. Innermost(Outside(x, L), d, "encoding") = Innermost(L, f, "encoding")
    BY <2>3, InnermostOutside
  <2>5. QED BY <2>1, <2>2, <2>4
<1>7. Innermost(Outside(x, L), s.codec, "codec") = Innermost(L, t.codec, "codec")
  BY <1>4, InnermostOutside
<1>8. QED BY <1>1, <1>5, <1>6, <1>7 DEF SettingsAt

\* An outermost layer that does not decide only contributes its settings.
LEMMA SelectedOutside ==
  ASSUME NEW x \in Annotations, NEW L \in Seq(Annotations), L # << >>, NEW s, NEW e, NEW Item,
         Encodes(x, s, e),
         ~Decides(x), ~Unsupported(x)
  PROVE  Selected(Outside(x, L), s, Item) = Selected(L, SettingsAt(<<x>>, s), Item)
<1>0. PICK M : M = Outside(x, L)
  OBVIOUS
<1>1. PICK n \in Nat :
        /\ Len(L) = n /\ DOMAIN L = 1..n /\ Len(M) = n + 1 /\ DOMAIN M = 1..n + 1
        /\ M \in Seq(Annotations)
        /\ M[1] = x /\ \A i \in 1..n : M[i + 1] = L[i]
  BY <1>0, OutsideSeq
<1>2. n > 0
  BY <1>1
<1>3. PICK m : m = Deciding(L)
  OBVIOUS
<1>4. m \in 1..n
  BY <1>1, <1>2, <1>3, DecidingExists
<1>5. Deciding(M) = m + 1
  BY <1>0, <1>3, DecidingOutside
<1>6. M[m + 1] = L[m]
  BY <1>1, <1>4
<1>7. (\E i \in 1..m + 1 : Unsupported(M[i])) <=> (\E i \in 1..m : Unsupported(L[i]))
  <2>1. ASSUME NEW i \in 1..m, Unsupported(L[i]) PROVE \E j \in 1..m + 1 : Unsupported(M[j])
    <3>1. i + 1 \in 1..m + 1 /\ M[i + 1] = L[i]
      BY <1>1, <1>4
    <3>2. QED BY <2>1, <3>1
  <2>2. ASSUME NEW i \in 1..m + 1, Unsupported(M[i]) PROVE \E j \in 1..m : Unsupported(L[j])
    <3>1. m \in Nat
      BY <1>4
    <3>2. i # 1
      BY <1>1, <2>2
    <3>3. i - 1 \in 1..m /\ i = (i - 1) + 1
      BY <3>1, <3>2, OutsideIndex
    <3>4. i - 1 \in 1..n
      BY <1>4, <3>3
    <3>5. M[i] = L[i - 1]
      BY <1>1, <3>3, <3>4
    <3>6. QED BY <2>2, <3>3, <3>5
  <2>3. QED BY <2>1, <2>2
<1>8. SettingsAt(SubSeq(M, 1, m + 1), s) = SettingsAt(SubSeq(L, 1, m), SettingsAt(<<x>>, s))
  <2>1. /\ SubSeq(L, 1, m) \in Seq(Annotations)
        /\ SubSeq(M, 1, m + 1) = Outside(x, SubSeq(L, 1, m))
    BY <1>0, <1>1, <1>4, OutsidePrefix
  <2>2. PICK P : P = SubSeq(L, 1, m)
    OBVIOUS
  <2>3. SettingsAt(Outside(x, P), s) = SettingsAt(P, SettingsAt(<<x>>, s))
    BY <2>1, <2>2, SettingsOutside
  <2>4. QED BY <2>1, <2>2, <2>3
<1>9. Selected(M, s, Item) =
        IF \E i \in 1..m + 1 : Unsupported(M[i]) THEN {}
        ELSE Chosen(M[m + 1], SettingsAt(SubSeq(M, 1, m + 1), s), Item)
  BY <1>5 DEF Selected
<1>10. Selected(L, SettingsAt(<<x>>, s), Item) =
        IF \E i \in 1..m : Unsupported(L[i]) THEN {}
        ELSE Chosen(L[m], SettingsAt(SubSeq(L, 1, m), SettingsAt(<<x>>, s)), Item)
  BY <1>3 DEF Selected
<1>11. QED BY <1>0, <1>6, <1>7, <1>8, <1>9, <1>10

\* The outermost layer decides if it does, and if there is no other.
LEMMA SelectedFirst ==
  ASSUME NEW M \in Seq(Annotations), NEW s, NEW Item,
         M # << >>, Len(M) = 1 \/ Decides(M[1])
  PROVE  Selected(M, s, Item) =
           IF Unsupported(M[1]) THEN {} ELSE Chosen(M[1], SettingsAt(<<M[1]>>, s), Item)
<1>1. PICK n \in Nat : Len(M) = n /\ DOMAIN M = 1..n /\ n > 0
  OBVIOUS
<1>2. 1 \in 1..n /\ \A i \in 1..n : ~(i < 1)
  BY <1>1
<1>3. Deciding(M) = 1
  BY <1>1, <1>2, DecidingIs
<1>4. SubSeq(M, 1, 1) = <<M[1]>>
  <2>1. PICK S : S = SubSeq(M, 1, 1)
    OBVIOUS
  <2>2. S \in Seq(Annotations) /\ Len(S) = 1 /\ S[1] = M[1]
    BY <1>1, <2>1
  <2>3. S = <<M[1]>>
    BY <2>2
  <2>4. QED BY <2>1, <2>3
<1>5. \A i \in 1..1 : i = 1
  OBVIOUS
<1>6. (\E i \in 1..1 : Unsupported(M[i])) <=> Unsupported(M[1])
  BY <1>5
<1>7. QED BY <1>3, <1>4, <1>6 DEF Selected

-----------------------------------------------------------------------------
(* What each kind of layer does to the settings.                           *)

LEMMA NoSettings ==
  ASSUME NEW x, NEW s, Settings(s), SettingsIn(x) = {}
  PROVE  SettingsAt(<<x>>, s) = s /\ Encodes(x, s, s.encoding)
<1>1. \A setting : ~Sets(x, setting)
  BY DEF Sets
<1>2. \A setting, d : Innermost(<<x>>, d, setting) = d
  BY <1>1, InnermostOne
<1>3. The({s.encoding}) = s.encoding
  BY DEF The
<1>4. SettingsAt(<<x>>, s) = [prefix |-> s.prefix, encoding |-> s.encoding, codec |-> s.codec]
  BY <1>2, <1>3 DEF SettingsAt
<1>5. QED BY <1>2, <1>4 DEF Settings, Encodes

LEMMA OneSetting ==
  ASSUME NEW x, NEW s, NEW spec, CodecSpec(spec), SettingsIn(x) = {spec}
  PROVE  SettingsAt(<<x>>, s) = Overridden(s, spec) /\ \E e : Encodes(x, s, e)
<1>1. \A setting : Sets(x, setting) <=> spec[setting] # {}
  BY DEF Sets
<1>2. \A setting : SetBy(x, setting) = spec[setting]
  BY DEF SetBy
<1>3. \A setting, d : Innermost(<<x>>, d, setting) = IF spec[setting] # {} THEN spec[setting] ELSE d
  BY <1>1, <1>2, InnermostOne
<1>4. spec["prefix"] = spec.prefix /\ spec["encoding"] = spec.encoding /\ spec["codec"] = spec.codec
  OBVIOUS
<1>5. SettingsAt(<<x>>, s) = Overridden(s, spec)
  <2>1. Innermost(<<x>>, s.prefix, "prefix") = IF spec.prefix # {} THEN spec.prefix ELSE s.prefix
    BY <1>3, <1>4
  <2>2. Innermost(<<x>>, {s.encoding}, "encoding") =
          IF spec.encoding # {} THEN spec.encoding ELSE {s.encoding}
    BY <1>3, <1>4
  <2>3. Innermost(<<x>>, s.codec, "codec") = IF spec.codec # {} THEN spec.codec ELSE s.codec
    BY <1>3, <1>4
  <2>4. QED BY <2>1, <2>2, <2>3 DEF SettingsAt, Overridden
<1>6. \E e : Encodes(x, s, e)
  <2>1. CASE spec.encoding = {}
    <3>1. Innermost(<<x>>, {s.encoding}, "encoding") = {s.encoding}
      BY <1>3, <1>4, <2>1
    <3>2. QED BY <3>1 DEF Encodes
  <2>2. CASE spec.encoding # {}
    <3>1. PICK e : spec.encoding = {e}
      BY <2>2 DEF CodecSpec, AtMostOne
    <3>2. Innermost(<<x>>, {s.encoding}, "encoding") = {e}
      BY <1>3, <1>4, <2>2, <3>1
    <3>3. QED BY <3>2 DEF Encodes
  <2>3. QED BY <2>1, <2>2
<1>7. QED BY <1>5, <1>6

\* The layers of an annotation, by its kind.
LEMMA LayersOf ==
  ASSUME AnnotationsBuilt, NEW a \in Annotations
  PROVE  /\ Layers[a] \in Seq(Annotations) /\ Layers[a] # << >> /\ Layers[a][1] = a
         /\ a.kind = "annotated" =>
              /\ a.base \in Annotations
              /\ Layers[a.base] \in Seq(Annotations) /\ Layers[a.base] # << >>
              /\ Layers[a] = Outside(a, Layers[a.base])
         /\ a.kind = "union" /\ Len(a.args) = 1 =>
              /\ a.args[1] \in Annotations
              /\ Layers[a.args[1]] \in Seq(Annotations) /\ Layers[a.args[1]] # << >>
              /\ Layers[a] = Outside(a, Layers[a.args[1]])
         /\ a.kind # "annotated" /\ ~(a.kind = "union" /\ Len(a.args) = 1) =>
              Layers[a] = <<a>> /\ Len(Layers[a]) = 1
<1>1. PICK depth : Built(depth)
  BY DEF AnnotationsBuilt
<1>2. \A b \in Annotations : Layers[b] = <<b>> \o Rest(Layers, b) /\ Layers[b] \in Seq(Annotations)
  BY <1>1, LayersDefined
<1>3. \A b \in Annotations : \E L \in Seq(Annotations) : Layers[b] = <<b>> \o L
  <2> TAKE b \in Annotations
  <2>1. Rest(Layers, b) \in Seq(Annotations)
    <3>1. CASE b.kind = "annotated"
      BY <1>2, <3>1, Parts DEF Rest
    <3>2. CASE b.kind = "union" /\ Len(b.args) = 1
      BY <1>2, <3>2, Parts DEF Rest
    <3>3. CASE b.kind # "annotated" /\ ~(b.kind = "union" /\ Len(b.args) = 1)
      BY <3>3 DEF Rest
    <3>4. QED BY <3>1, <3>2, <3>3
  <2>2. QED BY <1>2, <2>1
<1>4. \A b \in Annotations : Layers[b] \in Seq(Annotations) /\ Layers[b] # << >> /\ Layers[b][1] = b
  <2> TAKE b \in Annotations
  <2>1. PICK L \in Seq(Annotations) : Layers[b] = <<b>> \o L
    BY <1>3
  <2>2. Len(<<b>> \o L) = Len(L) + 1 /\ (<<b>> \o L)[1] = b /\ <<b>> \o L \in Seq(Annotations)
    BY OutsideSeq DEF Outside
  <2>3. <<b>> \o L # << >>
    BY <2>2
  <2>4. QED BY <2>1, <2>2, <2>3
<1>5. ASSUME a.kind = "annotated" PROVE a.base \in Annotations /\ Layers[a] = Outside(a, Layers[a.base])
  BY <1>2, <1>5, Parts DEF Rest, Outside
<1>6. ASSUME a.kind = "union" /\ Len(a.args) = 1
      PROVE a.args[1] \in Annotations /\ Layers[a] = Outside(a, Layers[a.args[1]])
  BY <1>2, <1>6, Parts DEF Rest, Outside
<1>7. ASSUME a.kind # "annotated" /\ ~(a.kind = "union" /\ Len(a.args) = 1)
      PROVE Layers[a] = <<a>> /\ Len(Layers[a]) = 1
  <2>1. Rest(Layers, a) = << >>
    BY <1>7 DEF Rest
  <2>2. <<a>> \o << >> = <<a>> /\ Len(<<a>>) = 1
    OBVIOUS
  <2>3. Layers[a] = <<a>> \o << >>
    BY <1>2, <2>1
  <2>4. Layers[a] = <<a>>
    BY <2>2, <2>3, Zenon
  <2>5. QED BY <2>2, <2>4
<1>8. QED BY <1>4, <1>5, <1>6, <1>7

\* The Specs of an Annotated that no rule is for.
LEMMA SpecsOf ==
  ASSUME NEW a \in Annotations, a.kind = "annotated", ~Tabled(a)
  PROVE  /\ Len(a.specs) = 0 => SpecsIn(a) = {}
         /\ Len(a.specs) = 1 =>
              /\ SpecsIn(a) = {a.specs[1]}
              /\ a.specs[1].kind = "codec" => CodecSpec(a.specs[1])
<1>1. /\ a.specs = [i \in 1..Len(a.specs) |-> a.specs[i]]
      /\ \A i \in DOMAIN a.specs : a.specs[i].kind = "codec" => CodecSpec(a.specs[i])
  <2>1. Annotation(a)
    BY ResolverAssumption
  <2>2. QED BY <2>1 DEF Annotation
<1>2. SpecsIn(a) = {a.specs[i] : i \in DOMAIN a.specs}
  BY DEF SpecsIn, ToSet
<1>3. ASSUME Len(a.specs) = 0 PROVE SpecsIn(a) = {}
  <2>1. DOMAIN a.specs = {}
    BY <1>1, <1>3
  <2>2. QED BY <1>2, <2>1
<1>4. ASSUME Len(a.specs) = 1
      PROVE  SpecsIn(a) = {a.specs[1]} /\ (a.specs[1].kind = "codec" => CodecSpec(a.specs[1]))
  <2>1. DOMAIN a.specs = {1}
    BY <1>1, <1>4
  <2>2. QED BY <1>1, <1>2, <2>1
<1>5. QED BY <1>3, <1>4

LEMMA NoSpecs ==
  ASSUME NEW a, a.kind # "annotated" \/ Tabled(a) \/ SpecsIn(a) = {}
  PROVE  /\ SpecsIn(a) = {} /\ SettingsIn(a) = {} /\ {x \in SpecsIn(a) : Numeric(x)} = {}
         /\ Decides(a) <=> Tabled(a)
         /\ Unsupported(a) <=> \/ a.kind = "union" /\ Len(a.args) > 1
                               \/ a.kind = "annotated" /\ ~Tabled(a) /\ Len(a.specs) > 1
<1>1. SpecsIn(a) = {}
  BY DEF SpecsIn
<1>2. SettingsIn(a) = {}
  BY <1>1 DEF SettingsIn
<1>3. Decides(a) <=> Tabled(a)
  BY <1>1 DEF Decides
<1>4. QED BY <1>1, <1>2, <1>3 DEF Unsupported

\* A layer that decides alone.
LEMMA SelectedAt ==
  ASSUME AnnotationsBuilt, NEW a \in Annotations, NEW s,
         Decides(a) \/ (a.kind # "annotated" /\ ~(a.kind = "union" /\ Len(a.args) = 1)),
         ~Unsupported(a), s.codec = {}
  PROVE  SelectedCodec(a, s) = Chosen(a, SettingsAt(<<a>>, s), SelectedItem)
<1>1. /\ Layers[a] \in Seq(Annotations) /\ Layers[a] # << >> /\ Layers[a][1] = a
      /\ Len(Layers[a]) = 1 \/ Decides(Layers[a][1])
  BY LayersOf
<1>2. Selected(Layers[a], s, SelectedItem) = Chosen(a, SettingsAt(<<a>>, s), SelectedItem)
  <2>1. PICK M : M = Layers[a]
    OBVIOUS
  <2>2. QED BY <1>1, <2>1, SelectedFirst
<1>3. QED BY <1>2 DEF SelectedCodec

\* A layer with one within that it leaves the choice to.
LEMMA SelectedWithin ==
  ASSUME AnnotationsBuilt, NEW a \in Annotations, NEW b \in Annotations, NEW s, NEW e,
         Layers[a] = Outside(a, Layers[b]), Encodes(a, s, e),
         ~Decides(a), ~Unsupported(a), s.codec = {}
  PROVE  SelectedCodec(a, s) = Selected(Layers[b], SettingsAt(<<a>>, s), SelectedItem)
<1>1. PICK L : L = Layers[b]
  OBVIOUS
<1>2. L \in Seq(Annotations) /\ L # << >>
  BY <1>1, LayersOf
<1>3. Selected(Outside(a, L), s, SelectedItem) = Selected(L, SettingsAt(<<a>>, s), SelectedItem)
  BY <1>2, SelectedOutside
<1>4. QED BY <1>1, <1>3 DEF SelectedCodec

LEMMA SelectedUnion ==
  ASSUME AnnotationsBuilt, NEW a \in Annotations, a.kind = "union" /\ Len(a.args) = 1,
         NEW s, Settings(s)
  PROVE  SelectedCodec(a, s) = SelectedCodec(a.args[1], s)
<1>1. CASE s.codec # {}
  BY <1>1 DEF SelectedCodec
<1>2. CASE s.codec = {}
  <2>0. ~Tabled(a) /\ ~(Len(a.args) > 1)
    BY DEF Tabled
  <2>1. SettingsIn(a) = {} /\ ~Decides(a) /\ ~Unsupported(a)
    BY <2>0, NoSpecs
  <2>2. SettingsAt(<<a>>, s) = s /\ Encodes(a, s, s.encoding)
    BY <2>1, NoSettings
  <2>3. a.args[1] \in Annotations /\ Layers[a] = Outside(a, Layers[a.args[1]])
    BY LayersOf
  <2>4. SelectedCodec(a, s) = Selected(Layers[a.args[1]], SettingsAt(<<a>>, s), SelectedItem)
    BY <1>2, <2>1, <2>2, <2>3, SelectedWithin
  <2>5. QED BY <1>2, <2>2, <2>4 DEF SelectedCodec
<1>3. QED BY <1>1, <1>2

LEMMA SelectedUnspecified ==
  ASSUME AnnotationsBuilt, NEW a \in Annotations, a.kind = "annotated", ~Tabled(a),
         Len(a.specs) = 0, NEW s, Settings(s)
  PROVE  SelectedCodec(a, s) = SelectedCodec(a.base, s)
<1>1. CASE s.codec # {}
  BY <1>1 DEF SelectedCodec
<1>2. CASE s.codec = {}
  <2>0. SpecsIn(a) = {}
    BY SpecsOf
  <2>1. SettingsIn(a) = {} /\ ~Decides(a) /\ ~Unsupported(a)
    BY <2>0, NoSpecs
  <2>2. SettingsAt(<<a>>, s) = s /\ Encodes(a, s, s.encoding)
    BY <2>1, NoSettings
  <2>3. a.base \in Annotations /\ Layers[a] = Outside(a, Layers[a.base])
    BY LayersOf
  <2>4. SelectedCodec(a, s) = Selected(Layers[a.base], SettingsAt(<<a>>, s), SelectedItem)
    BY <1>2, <2>1, <2>2, <2>3, SelectedWithin
  <2>5. QED BY <1>2, <2>2, <2>4 DEF SelectedCodec
<1>3. QED BY <1>1, <1>2

LEMMA SelectedSpec ==
  ASSUME AnnotationsBuilt, NEW a \in Annotations, a.kind = "annotated", ~Tabled(a),
         Len(a.specs) = 1, a.specs[1].kind = "codec", a.specs[1].encoding \subseteq Encodings,
         NEW s, s.codec = {}
  PROVE  SelectedCodec(a, s) = SelectedCodec(a.base, Overridden(s, a.specs[1]))
<1>1. PICK spec : spec = a.specs[1]
  OBVIOUS
<1>2. SpecsIn(a) = {spec} /\ CodecSpec(spec) /\ spec.kind = "codec"
  BY <1>1, SpecsOf
<1>3. SettingsIn(a) = {spec} /\ {x \in SpecsIn(a) : Numeric(x)} = {}
  BY <1>2 DEF SettingsIn, Numeric
<1>4. ~Unsupported(a)
  BY <1>1, <1>3 DEF Unsupported
<1>5. SettingsAt(<<a>>, s) = Overridden(s, spec) /\ \E e : Encodes(a, s, e)
  BY <1>2, <1>3, OneSetting
<1>6. Overridden(s, spec).codec = IF spec.codec # {} THEN spec.codec ELSE s.codec
  BY DEF Overridden
<1>7. CASE spec.codec = {}
  <2>1. ~Decides(a)
    BY <1>2, <1>7 DEF Decides, Numeric
  <2>2. a.base \in Annotations /\ Layers[a] = Outside(a, Layers[a.base])
    BY LayersOf
  <2>3. SelectedCodec(a, s) = Selected(Layers[a.base], SettingsAt(<<a>>, s), SelectedItem)
    BY <1>4, <1>5, <2>1, <2>2, SelectedWithin
  <2>4. Overridden(s, spec).codec = {}
    BY <1>6, <1>7
  <2>5. QED BY <1>1, <1>5, <2>3, <2>4 DEF SelectedCodec
<1>8. CASE spec.codec # {}
  <2>1. Decides(a)
    BY <1>2, <1>8 DEF Decides
  <2>2. SelectedCodec(a, s) = Chosen(a, SettingsAt(<<a>>, s), SelectedItem)
    BY <1>4, <2>1, SelectedAt
  <2>3. Overridden(s, spec).codec = spec.codec
    BY <1>6, <1>8
  <2>4. Chosen(a, Overridden(s, spec), SelectedItem) = spec.codec
    BY <1>3, <1>8, <2>3 DEF Chosen
  <2>5. SelectedCodec(a.base, Overridden(s, spec)) = spec.codec
    BY <1>8, <2>3 DEF SelectedCodec
  <2>6. QED BY <1>1, <1>5, <2>2, <2>4, <2>5
<1>9. QED BY <1>7, <1>8

LEMMA SelectedNumeric ==
  ASSUME AnnotationsBuilt, NEW a \in Annotations, a.kind = "annotated", ~Tabled(a),
         Len(a.specs) = 1, Numeric(a.specs[1]), NEW s, s.codec = {}
  PROVE  SelectedCodec(a, s) = NumericCodec(a.specs[1])
<1>1. PICK spec : spec = a.specs[1]
  OBVIOUS
<1>2. SpecsIn(a) = {spec} /\ Numeric(spec) /\ spec.kind # "codec"
  BY <1>1, SpecsOf DEF Numeric
<1>3. SettingsIn(a) = {} /\ {x \in SpecsIn(a) : Numeric(x)} = {spec}
  BY <1>2 DEF SettingsIn
<1>4. ~Unsupported(a) /\ Decides(a)
  BY <1>2, <1>3 DEF Unsupported, Decides
<1>5. SelectedCodec(a, s) = Chosen(a, SettingsAt(<<a>>, s), SelectedItem)
  BY <1>4, SelectedAt
<1>6. The({spec}) = spec
  BY DEF The
<1>7. \A settings : Chosen(a, settings, SelectedItem) = NumericCodec(spec)
  BY <1>3, <1>6 DEF Chosen
<1>8. QED BY <1>1, <1>5, <1>7

LEMMA SelectedTable ==
  ASSUME AnnotationsBuilt, NEW a \in Annotations, Tabled(a), NEW s, Settings(s), s.codec = {}
  PROVE  SelectedCodec(a, s) = ScalarCodec(Rules[a], s)
<1>1. /\ SettingsIn(a) = {} /\ {x \in SpecsIn(a) : Numeric(x)} = {}
      /\ Decides(a) /\ ~Unsupported(a)
  BY NoSpecs DEF Tabled
<1>2. SelectedCodec(a, s) = Chosen(a, SettingsAt(<<a>>, s), SelectedItem)
  BY <1>1, SelectedAt
<1>3. SettingsAt(<<a>>, s) = s
  BY <1>1, NoSettings
<1>4. Chosen(a, s, SelectedItem) = ScalarCodec(Rules[a], s)
  BY <1>1 DEF Chosen
<1>5. QED BY <1>2, <1>3, <1>4

LEMMA SelectedType ==
  ASSUME AnnotationsBuilt, NEW a \in Annotations, ~Tabled(a), a.kind \notin {"union", "annotated"},
         NEW s, Settings(s), s.codec = {}
  PROVE  /\ a.kind = "model" => SelectedCodec(a, s) = {[kind |-> "model", name |-> a.name]}
         /\ a.kind = "enum" => SelectedCodec(a, s) = EnumCodec(a, s)
         /\ a.kind = "list" =>
              SelectedCodec(a, s) = UNION {ListCodec(c, s) : c \in SelectedItem[a]}
         /\ a.kind \in {"class", "generic"} => SelectedCodec(a, s) = {}
<1>1. /\ SettingsIn(a) = {} /\ {x \in SpecsIn(a) : Numeric(x)} = {} /\ ~Unsupported(a)
  BY NoSpecs
<1>2. SelectedCodec(a, s) = Chosen(a, SettingsAt(<<a>>, s), SelectedItem)
  BY <1>1, SelectedAt
<1>3. SettingsAt(<<a>>, s) = s
  BY <1>1, NoSettings
<1>4. SelectedCodec(a, s) =
        CASE a.kind = "model" -> {[kind |-> "model", name |-> a.name]}
          [] a.kind = "enum" -> EnumCodec(a, s)
          [] a.kind = "list" -> UNION {ListCodec(c, s) : c \in SelectedItem[a]}
          [] OTHER -> {}
  BY <1>1, <1>2, <1>3 DEF Chosen
<1>5. QED BY <1>4

-----------------------------------------------------------------------------
(* SelectedItem and Questionable are what their recursive definitions say. *)

\* No layer is deeper than the whole.
LEMMA LayersBelow ==
  ASSUME NEW depth, Built(depth), NEW a \in Annotations, NEW i \in DOMAIN Layers[a]
  PROVE  Layers[a][i] \in Annotations /\ depth[Layers[a][i]] <= depth[a]
<1>1. PICK P : P = {b \in Annotations : \A j \in DOMAIN Layers[b] :
                      Layers[b][j] \in Annotations /\ depth[Layers[b][j]] <= depth[b]}
  OBVIOUS
<1>2. AnnotationsBuilt
  BY DEF AnnotationsBuilt
<1>3. \A b \in Annotations : depth[b] \in Nat
  BY DEF Built
<1>4. ASSUME NEW b \in Annotations, NEW c \in Annotations, depth[c] < depth[b], c \in P,
             Layers[b] = Outside(b, Layers[c]), Layers[c] \in Seq(Annotations)
      PROVE  b \in P
  <2>1. PICK L : L = Layers[c]
    OBVIOUS
  <2>2. PICK n \in Nat :
          /\ DOMAIN L = 1..n /\ DOMAIN Layers[b] = 1..n + 1
          /\ Layers[b][1] = b /\ \A j \in 1..n : Layers[b][j + 1] = L[j]
    <3>1. PICK M : M = Outside(b, L)
      OBVIOUS
    <3>2. L \in Seq(Annotations) /\ Layers[b] = M
      BY <1>4, <2>1, <3>1
    <3>3. /\ DOMAIN L = 1..Len(L) /\ DOMAIN M = 1..Len(L) + 1 /\ Len(L) \in Nat
          /\ M[1] = b /\ \A j \in 1..Len(L) : M[j + 1] = L[j]
      <4>1. b \in Annotations /\ L \in Seq(Annotations)
        BY <1>4, <3>2
      <4>2. /\ DOMAIN L = 1..Len(L) /\ DOMAIN Outside(b, L) = 1..Len(L) + 1 /\ Len(L) \in Nat
            /\ Outside(b, L)[1] = b /\ \A j \in 1..Len(L) : Outside(b, L)[j + 1] = L[j]
        BY <4>1, OutsideSeq
      <4>3. QED BY <3>1, <4>2
    <3>4. QED BY <3>2, <3>3
  <2>3. \A j \in 1..n : L[j] \in Annotations /\ depth[L[j]] <= depth[c]
    BY <1>1, <1>4, <2>1, <2>2
  <2>4. ASSUME NEW j \in DOMAIN Layers[b]
        PROVE  Layers[b][j] \in Annotations /\ depth[Layers[b][j]] <= depth[b]
    <3>1. CASE j = 1
      BY <1>3, <2>2, <3>1
    <3>2. CASE j - 1 \in 1..n /\ j = (j - 1) + 1
      <4>1. Layers[b][j] = L[j - 1]
        BY <2>2, <3>2
      <4>2. L[j - 1] \in Annotations /\ depth[L[j - 1]] <= depth[c]
        BY <2>3, <3>2
      <4>3. depth[L[j - 1]] \in Nat /\ depth[b] \in Nat /\ depth[c] \in Nat
        BY <1>3, <4>2
      <4>4. depth[L[j - 1]] <= depth[b]
        BY <1>4, <4>2, <4>3
      <4>5. QED BY <4>1, <4>2, <4>4
    <3>3. QED BY <2>2, <2>4, <3>1, <3>2, OutsideIndex
  <2>5. QED BY <1>1, <2>4
<1>5. ASSUME NEW b \in Annotations, \A c \in Annotations : depth[c] < depth[b] => c \in P
      PROVE  b \in P
  <2>1. CASE b.kind = "annotated"
    <3>1. /\ b.base \in Annotations /\ Layers[b] = Outside(b, Layers[b.base])
          /\ Layers[b.base] \in Seq(Annotations)
      BY <1>2, <2>1, LayersOf
    <3>2. depth[b.base] < depth[b]
      BY <2>1 DEF Built
    <3>3. QED BY <1>4, <1>5, <3>1, <3>2
  <2>2. CASE b.kind = "union" /\ Len(b.args) = 1
    <3>1. /\ b.args[1] \in Annotations /\ Layers[b] = Outside(b, Layers[b.args[1]])
          /\ Layers[b.args[1]] \in Seq(Annotations)
      BY <1>2, <2>2, LayersOf
    <3>2. depth[b.args[1]] < depth[b]
      BY <2>2, Parts DEF Built
    <3>3. QED BY <1>4, <1>5, <3>1, <3>2
  <2>3. CASE b.kind # "annotated" /\ ~(b.kind = "union" /\ Len(b.args) = 1)
    <3>1. Layers[b] = <<b>>
      BY <1>2, <2>3, LayersOf
    <3>2. DOMAIN Layers[b] = {1} /\ Layers[b][1] = b
      BY <3>1
    <3>3. QED BY <1>1, <1>3, <3>2
  <2>4. QED BY <2>1, <2>2, <2>3
<1>6. Annotations \subseteq P
  <2>1. depth \in [Annotations -> Nat]
    BY DEF Built
  <2>2. QED BY <1>5, <2>1, Induction
<1>7. QED BY <1>1, <1>6

SelectedStep(f, a) ==
  IF a.kind = "list" /\ Len(a.args) = 1
  THEN Selected(Layers[a.args[1]], FreshInfo, f) ELSE {}

\* The item of a list of one item.
LEMMA ItemOf ==
  ASSUME NEW a \in Annotations, a.kind = "list", Len(a.args) = 1
  PROVE  DOMAIN a.args = {1} /\ a.args[1] \in Annotations
<1>1. Annotation(a)
  BY ResolverAssumption
<1>2. a.args = [i \in 1..1 |-> a.args[i]] /\ \A i \in DOMAIN a.args : a.args[i] \in Annotations
  BY <1>1 DEF Annotation
<1>3. DOMAIN a.args = {1}
  BY <1>2
<1>4. QED BY <1>2, <1>3

\* The codec of a list's items depends on no deeper a list than theirs.
LEMMA SelectedBelow ==
  ASSUME NEW depth, Built(depth), NEW a \in Annotations, NEW f, NEW g,
         \A b \in Annotations : depth[b] < depth[a] => f[b] = g[b]
  PROVE  SelectedStep(f, a) = SelectedStep(g, a)
<1> SUFFICES ASSUME a.kind = "list", Len(a.args) = 1
             PROVE  Selected(Layers[a.args[1]], FreshInfo, f) = Selected(Layers[a.args[1]], FreshInfo, g)
  BY DEF SelectedStep
<1>1. PICK b : b = a.args[1]
  OBVIOUS
<1>2. b \in Annotations /\ depth[b] < depth[a]
  BY <1>1, ItemOf DEF Built
<1>3. AnnotationsBuilt
  BY DEF AnnotationsBuilt
<1>4. PICK L : L = Layers[b]
  OBVIOUS
<1>5. L \in Seq(Annotations) /\ L # << >>
  BY <1>2, <1>3, <1>4, LayersOf
<1>6. Deciding(L) \in DOMAIN L
  <2>1. PICK n \in Nat : n > 0 /\ Len(L) = n /\ DOMAIN L = 1..n
    BY <1>5
  <2>2. QED BY <2>1, DecidingExists
<1>7. PICK x : x = L[Deciding(L)]
  OBVIOUS
<1>8. x \in Annotations /\ depth[x] <= depth[b]
  BY <1>2, <1>4, <1>6, <1>7, LayersBelow
<1>9. depth[x] < depth[a]
  <2>1. depth[x] \in Nat /\ depth[a] \in Nat /\ depth[b] \in Nat
    BY <1>2, <1>8 DEF Built
  <2>2. QED BY <1>2, <1>8, <2>1
<1>10. f[x] = g[x]
  BY <1>8, <1>9
<1>11. \A settings : Chosen(x, settings, f) = Chosen(x, settings, g)
  BY <1>10 DEF Chosen
<1>12. Selected(L, FreshInfo, f) = Selected(L, FreshInfo, g)
  BY <1>7, <1>11 DEF Selected
<1>13. QED BY <1>1, <1>4, <1>12

\* f is a function that recursion describes for annotations less deep than k.
SelectedUpto(depth, k, f) ==
  /\ f = [a \in Annotations |-> f[a]]
  /\ \A a \in Annotations : depth[a] < k => f[a] = SelectedStep(f, a)

LEMMA SelectedUnique ==
  ASSUME NEW depth, Built(depth), NEW k \in Nat, NEW m \in Nat, k <= m, NEW f, NEW g,
         SelectedUpto(depth, k, f), SelectedUpto(depth, m, g)
  PROVE  \A a \in Annotations : depth[a] < k => f[a] = g[a]
<1>1. PICK P : P = {a \in Annotations : depth[a] < k => f[a] = g[a]}
  OBVIOUS
<1>2. depth \in [Annotations -> Nat]
  BY DEF Built
<1>3. ASSUME NEW a \in Annotations, \A b \in Annotations : depth[b] < depth[a] => b \in P
      PROVE  a \in P
  <2> SUFFICES ASSUME depth[a] < k PROVE f[a] = g[a]
    BY <1>1
  <2>1. \A b \in Annotations : depth[b] < depth[a] => f[b] = g[b]
    <3> TAKE b \in Annotations
    <3> HAVE depth[b] < depth[a]
    <3>1. depth[b] \in Nat /\ depth[a] \in Nat
      BY <1>2
    <3>2. depth[b] < k
      BY <3>1
    <3>3. QED BY <1>1, <1>3, <3>2
  <2>2. SelectedStep(f, a) = SelectedStep(g, a)
    BY <2>1, SelectedBelow
  <2>3. depth[a] < m
    BY <1>2
  <2>4. QED BY <2>2, <2>3 DEF SelectedUpto
<1>4. Annotations \subseteq P
  BY <1>2, <1>3, Induction
<1>5. QED BY <1>1, <1>4

LEMMA SelectedExists ==
  ASSUME NEW depth, Built(depth), NEW k \in Nat
  PROVE  \E f : SelectedUpto(depth, k, f)
<1>1. PICK P : P = {n \in Nat : \E f : SelectedUpto(depth, n, f)}
  OBVIOUS
<1>2. depth \in [Annotations -> Nat]
  BY DEF Built
<1>3. 0 \in P
  <2>1. SelectedUpto(depth, 0, [a \in Annotations |-> {}])
    BY <1>2 DEF SelectedUpto
  <2>2. QED BY <1>1, <2>1
<1>4. ASSUME NEW n \in Nat, n \in P PROVE n + 1 \in P
  <2>1. PICK f : SelectedUpto(depth, n, f)
    BY <1>1, <1>4
  <2>2. PICK g : g = [a \in Annotations |-> SelectedStep(f, a)]
    OBVIOUS
  <2>3. g = [a \in Annotations |-> g[a]]
    BY <2>2
  <2>4. ASSUME NEW a \in Annotations, depth[a] < n + 1 PROVE g[a] = SelectedStep(g, a)
    <3>1. \A b \in Annotations : depth[b] < depth[a] => f[b] = g[b]
      <4> TAKE b \in Annotations
      <4> HAVE depth[b] < depth[a]
      <4>1. depth[b] \in Nat /\ depth[a] \in Nat
        BY <1>2
      <4>2. depth[b] < n
        BY <2>4, <4>1
      <4>3. QED BY <2>1, <2>2, <4>2 DEF SelectedUpto
    <3>2. SelectedStep(f, a) = SelectedStep(g, a)
      BY <3>1, SelectedBelow
    <3>3. QED BY <2>2, <3>2
  <2>5. SelectedUpto(depth, n + 1, g)
    BY <2>3, <2>4 DEF SelectedUpto
  <2>6. QED BY <1>1, <2>5
<1>5. Nat \subseteq P
  BY <1>3, <1>4, Counting
<1>6. QED BY <1>1, <1>5

\* SelectedItem is what its recursive definition says.
LEMMA SelectedItemDefined ==
  ASSUME AnnotationsBuilt, NEW a \in Annotations
  PROVE  SelectedItem[a] = SelectedStep(SelectedItem, a)
<1>1. PICK depth : Built(depth)
  BY DEF AnnotationsBuilt
<1>2. depth \in [Annotations -> Nat]
  BY <1>1 DEF Built
<1> DEFINE At(k) == CHOOSE f : SelectedUpto(depth, k, f)
<1>3. \A k \in Nat : SelectedUpto(depth, k, At(k))
  BY <1>1, SelectedExists
<1> HIDE DEF At
<1>4. PICK whole : whole = [b \in Annotations |-> At(depth[b] + 1)[b]]
  OBVIOUS
<1>5. ASSUME NEW b \in Annotations PROVE whole[b] = SelectedStep(whole, b)
  <2>1. PICK f : f = At(depth[b] + 1)
    OBVIOUS
  <2>2. depth[b] + 1 \in Nat /\ depth[b] < depth[b] + 1
    BY <1>2
  <2>3. SelectedUpto(depth, depth[b] + 1, f)
    BY <1>3, <2>1, <2>2
  <2>4. ASSUME NEW c \in Annotations, depth[c] < depth[b] PROVE whole[c] = f[c]
    <3>1. PICK g : g = At(depth[c] + 1)
      OBVIOUS
    <3>2. depth[c] + 1 \in Nat /\ depth[c] < depth[c] + 1 /\ depth[c] + 1 <= depth[b] + 1
      BY <1>2, <2>4
    <3>3. SelectedUpto(depth, depth[c] + 1, g) /\ whole[c] = g[c]
      BY <1>3, <1>4, <3>1, <3>2
    <3>4. g[c] = f[c]
      BY <1>1, <2>2, <2>3, <3>2, <3>3, SelectedUnique
    <3>5. QED BY <3>3, <3>4
  <2>5. SelectedStep(whole, b) = SelectedStep(f, b)
    BY <1>1, <2>4, SelectedBelow
  <2>6. whole[b] = f[b]
    BY <1>4, <2>1
  <2>7. QED BY <2>2, <2>3, <2>5, <2>6 DEF SelectedUpto
<1>6. whole = [b \in Annotations |-> SelectedStep(whole, b)]
  BY <1>4, <1>5
<1>7. SelectedItem = CHOOSE f : f = [b \in Annotations |-> SelectedStep(f, b)]
  BY Zenon DEF SelectedItem, SelectedStep
<1>8. SelectedItem = [b \in Annotations |-> SelectedStep(SelectedItem, b)]
  BY <1>6, <1>7
<1>9. QED BY <1>8

QuestionableLayer(f, x) ==
  \/ Unsupported(x)
  \/ x.kind = "list" /\ \E j \in DOMAIN x.args : MayBeNone(x.args[j]) \/ f[x.args[j]]

QuestionableStep(f, a) == \E i \in DOMAIN Layers[a] : QuestionableLayer(f, Layers[a][i])

LEMMA QuestionableBelow ==
  ASSUME NEW depth, Built(depth), NEW a \in Annotations, NEW f, NEW g,
         \A b \in Annotations : depth[b] < depth[a] => f[b] = g[b]
  PROVE  QuestionableStep(f, a) = QuestionableStep(g, a)
<1>1. ASSUME NEW i \in DOMAIN Layers[a], NEW x, x = Layers[a][i], x.kind = "list", NEW j \in DOMAIN x.args
      PROVE  f[x.args[j]] = g[x.args[j]]
  <2>1. x \in Annotations /\ depth[x] <= depth[a]
    BY <1>1, LayersBelow
  <2>2. x.args[j] \in Annotations
    <3>1. Annotation(x)
      BY <2>1, ResolverAssumption
    <3>2. QED BY <1>1, <3>1 DEF Annotation
  <2>3. depth[x.args[j]] < depth[x]
    BY <1>1, <2>1 DEF Built
  <2>4. depth[x.args[j]] \in Nat /\ depth[x] \in Nat /\ depth[a] \in Nat
    BY <2>1, <2>2 DEF Built
  <2>5. depth[x.args[j]] < depth[a]
    BY <2>1, <2>3, <2>4
  <2>6. QED BY <2>2, <2>5
<1>2. ASSUME NEW i \in DOMAIN Layers[a]
      PROVE  QuestionableLayer(f, Layers[a][i]) <=> QuestionableLayer(g, Layers[a][i])
  <2>1. PICK x : x = Layers[a][i]
    OBVIOUS
  <2>2. x.kind = "list" => \A j \in DOMAIN x.args : f[x.args[j]] = g[x.args[j]]
    BY <1>1, <2>1
  <2>3. QuestionableLayer(f, x) <=> QuestionableLayer(g, x)
    BY <2>2 DEF QuestionableLayer
  <2>4. QED BY <2>1, <2>3
<1>3. QuestionableStep(f, a) <=> QuestionableStep(g, a)
  BY <1>2 DEF QuestionableStep
<1>4. QuestionableStep(f, a) \in BOOLEAN /\ QuestionableStep(g, a) \in BOOLEAN
  BY DEF QuestionableStep
<1>5. QED BY <1>3, <1>4

\* Questionable is what its recursive definition says.
LEMMA QuestionableDefined ==
  ASSUME AnnotationsBuilt, NEW a \in Annotations
  PROVE  Questionable[a] <=> QuestionableStep(Questionable, a)
<1>1. PICK depth : Built(depth)
  BY DEF AnnotationsBuilt
<1>2. PICK E : E = [p \in Annotations \X [Annotations -> BOOLEAN] |-> QuestionableStep(p[2], p[1])]
  OBVIOUS
<1>3. \A b \in Annotations : \A f \in [Annotations -> BOOLEAN] :
        E[<<b, f>>] = QuestionableStep(f, b)
  BY <1>2
<1>4. \A f : \A b \in Annotations : QuestionableStep(f, b) \in BOOLEAN
  BY DEF QuestionableStep
<1>5. Descends(E, Annotations, BOOLEAN, depth)
  <2>1. E \in [Annotations \X [Annotations -> BOOLEAN] -> BOOLEAN]
    BY <1>2, <1>4
  <2>2. ASSUME NEW b \in Annotations, NEW f \in [Annotations -> BOOLEAN],
               NEW g \in [Annotations -> BOOLEAN],
               \A c \in Annotations : depth[c] < depth[b] => f[c] = g[c]
        PROVE  E[<<b, f>>] = E[<<b, g>>]
    BY <1>1, <1>3, <2>2, QuestionableBelow
  <2>3. depth \in [Annotations -> Nat] /\ BOOLEAN # {}
    BY <1>1 DEF Built
  <2>4. QED BY <2>1, <2>2, <2>3 DEF Descends
<1>6. PICK f \in [Annotations -> BOOLEAN] : \A b \in Annotations : f[b] = E[<<b, f>>]
  BY <1>5, Recursive
<1>7. f = [b \in Annotations |-> QuestionableStep(f, b)]
  BY <1>3, <1>6
<1>8. Questionable = CHOOSE g : g = [b \in Annotations |-> QuestionableStep(g, b)]
  BY Zenon DEF Questionable, QuestionableStep, QuestionableLayer
<1>9. Questionable = [b \in Annotations |-> QuestionableStep(Questionable, b)]
  BY <1>7, <1>8
<1>10. QED BY <1>9

\* A layer of a.
LEMMA LayerSome ==
  ASSUME AnnotationsBuilt, NEW a \in Annotations
  PROVE  /\ \E i \in DOMAIN Layers[a] : Layers[a][i] = a
         /\ a.kind = "annotated" =>
              \A j \in DOMAIN Layers[a.base] :
                \E i \in DOMAIN Layers[a] : Layers[a][i] = Layers[a.base][j]
         /\ a.kind = "union" /\ Len(a.args) = 1 =>
              \A j \in DOMAIN Layers[a.args[1]] :
                \E i \in DOMAIN Layers[a] : Layers[a][i] = Layers[a.args[1]][j]
<1>1. ASSUME NEW L \in Seq(Annotations), NEW j \in DOMAIN L
      PROVE  \E i \in DOMAIN Outside(a, L) : Outside(a, L)[i] = L[j]
  <2>1. /\ DOMAIN Outside(a, L) = 1..Len(L) + 1 /\ DOMAIN L = 1..Len(L) /\ Len(L) \in Nat
        /\ \A k \in 1..Len(L) : Outside(a, L)[k + 1] = L[k]
    BY OutsideSeq
  <2>2. j \in 1..Len(L) /\ j + 1 \in 1..Len(L) + 1
    BY <2>1
  <2>3. QED BY <2>1, <2>2
<1>2. \E i \in DOMAIN Layers[a] : Layers[a][i] = a
  <2>1. Layers[a] \in Seq(Annotations) /\ Layers[a] # << >> /\ Layers[a][1] = a
    BY LayersOf
  <2>2. 1 \in DOMAIN Layers[a]
    BY <2>1
  <2>3. QED BY <2>1, <2>2
<1>3. ASSUME a.kind = "annotated", NEW j \in DOMAIN Layers[a.base]
      PROVE  \E i \in DOMAIN Layers[a] : Layers[a][i] = Layers[a.base][j]
  BY <1>1, <1>3, LayersOf
<1>4. ASSUME a.kind = "union" /\ Len(a.args) = 1, NEW j \in DOMAIN Layers[a.args[1]]
      PROVE  \E i \in DOMAIN Layers[a] : Layers[a][i] = Layers[a.args[1]][j]
  BY <1>1, <1>4, LayersOf
<1>5. QED BY <1>2, <1>3, <1>4

\* What is unsupported or may be None within is so from outside.
LEMMA QuestionableIf ==
  ASSUME AnnotationsBuilt, NEW a \in Annotations
  PROVE  /\ Unsupported(a) => Questionable[a]
         /\ a.kind = "annotated" /\ Questionable[a.base] => Questionable[a]
         /\ a.kind = "union" /\ Len(a.args) = 1 /\ Questionable[a.args[1]] => Questionable[a]
         /\ a.kind = "list" /\ Len(a.args) = 1 =>
              (MayBeNone(a.args[1]) \/ Questionable[a.args[1]] => Questionable[a])
<1> DEFINE Q(x) == QuestionableLayer(Questionable, x)
<1>1. \A b \in Annotations : Questionable[b] <=> \E i \in DOMAIN Layers[b] : Q(Layers[b][i])
  BY QuestionableDefined DEF QuestionableStep
<1>2. Q(a) => Questionable[a]
  <2> HIDE DEF Q
  <2>1. QED BY <1>1, LayerSome
<1>3. ASSUME a.kind = "annotated" /\ Questionable[a.base] PROVE Questionable[a]
  <2>1. a.base \in Annotations
    BY <1>3, Parts
  <2> HIDE DEF Q
  <2>2. PICK j \in DOMAIN Layers[a.base] : Q(Layers[a.base][j])
    BY <1>1, <1>3, <2>1
  <2>3. PICK i \in DOMAIN Layers[a] : Layers[a][i] = Layers[a.base][j]
    BY <1>3, LayerSome
  <2>4. QED BY <1>1, <2>2, <2>3
<1>4. ASSUME a.kind = "union" /\ Len(a.args) = 1 /\ Questionable[a.args[1]] PROVE Questionable[a]
  <2>1. a.args[1] \in Annotations
    BY <1>4, Parts
  <2> HIDE DEF Q
  <2>2. PICK j \in DOMAIN Layers[a.args[1]] : Q(Layers[a.args[1]][j])
    BY <1>1, <1>4, <2>1
  <2>3. PICK i \in DOMAIN Layers[a] : Layers[a][i] = Layers[a.args[1]][j]
    BY <1>4, LayerSome
  <2>4. QED BY <1>1, <2>2, <2>3
<1>5. Unsupported(a) => Q(a)
  BY DEF QuestionableLayer
<1>6. ASSUME a.kind = "list" /\ Len(a.args) = 1, MayBeNone(a.args[1]) \/ Questionable[a.args[1]]
      PROVE  Q(a)
  <2>1. 1 \in DOMAIN a.args
    BY <1>6, ItemOf
  <2>2. QED BY <1>6, <2>1 DEF QuestionableLayer
<1> HIDE DEF Q
<1>7. QED BY <1>2, <1>3, <1>4, <1>5, <1>6

LEMMA NoneIf ==
  ASSUME AnnotationsBuilt, NEW a \in Annotations
  PROVE  /\ NoneIn(a) => MayBeNone(a)
         /\ a.kind = "annotated" /\ MayBeNone(a.base) => MayBeNone(a)
         /\ a.kind = "union" /\ Len(a.args) = 1 /\ MayBeNone(a.args[1]) => MayBeNone(a)
<1>1. NoneIn(a) => MayBeNone(a)
  BY LayerSome DEF MayBeNone
<1>2. ASSUME a.kind = "annotated" /\ MayBeNone(a.base) PROVE MayBeNone(a)
  <2>1. PICK j \in DOMAIN Layers[a.base] : NoneIn(Layers[a.base][j])
    BY <1>2 DEF MayBeNone
  <2>2. PICK i \in DOMAIN Layers[a] : Layers[a][i] = Layers[a.base][j]
    BY <1>2, LayerSome
  <2>3. QED BY <2>1, <2>2 DEF MayBeNone
<1>3. ASSUME a.kind = "union" /\ Len(a.args) = 1 /\ MayBeNone(a.args[1]) PROVE MayBeNone(a)
  <2>1. PICK j \in DOMAIN Layers[a.args[1]] : NoneIn(Layers[a.args[1]][j])
    BY <1>3 DEF MayBeNone
  <2>2. PICK i \in DOMAIN Layers[a] : Layers[a][i] = Layers[a.args[1]][j]
    BY <1>3, LayerSome
  <2>3. QED BY <2>1, <2>2 DEF MayBeNone
<1>4. QED BY <1>1, <1>2, <1>3

-----------------------------------------------------------------------------
(* The invariant.                                                          *)

\* The field with annotation a and settings s may be refused.
Hopeless(a, s) == SelectedCodec(a, s) = {} \/ Questionable[a] \/ s.encoding \notin Encodings

\* The codec that call i of resolve is to find, and for which annotation.
Wanted(i) ==
  IF i = 1 THEN SelectedCodec(Field.annotation, Stated(next))
  ELSE SelectedItem[calls[i - 1].annotation]
Origin(i) == IF i = 1 THEN Field.annotation ELSE calls[i - 1].annotation.args[1]

\* A call that has come to annotation a, to o of is_optional and to settings s
\* finds the codec it is to find, and takes for optional and refuses what it may.
Serves(a, o, s, wanted, origin) ==
  /\ SelectedCodec(a, s) = wanted
  /\ o \/ MayBeNone(a) => MayBeNone(origin)
  /\ Hopeless(a, s) => Hopeless(Field.annotation, Stated(next))

\* A call waits in list_codec_factory, which the settings led to.
Waits(a, s) == a.kind = "list" /\ Len(a.args) = 1 /\ ~Tabled(a) /\ s.codec = {}

WaitInv ==
  \A i \in 1..Len(calls) : i < Len(calls) \/ returned # {} =>
    Waits(calls[i].annotation, infos[calls[i].info])

\* The outermost call has the field's FieldInfo, and one not used so far is as
\* field() left it.
UnusedInv ==
  /\ calls # << >> => calls[1].info = Field.info
  /\ \A i \in DOMAIN program.infos :
       /\ \A m \in 1..next - 1 : FieldOf(m).info # i
       /\ calls # << >> \/ returned # {} => Field.info # i
       => infos[i] = program.infos[i]

CallServes(i) ==
  Serves(calls[i].annotation, calls[i].optional, infos[calls[i].info], Wanted(i), Origin(i))

ServeInv == \A i \in 1..Len(calls) : FirstUse(next) => CallServes(i)

ReturnedInv ==
  \A r \in returned : FirstUse(next) =>
    /\ {r.codec} = Wanted(Len(calls) + 1)
    /\ r.optional => MayBeNone(Origin(Len(calls) + 1))
    /\ calls = << >> => infos[Field.info].codec \in {{}, Wanted(1)}

OwnInv == UnusedInv /\ WaitInv /\ ServeInv /\ ReturnedInv /\ OwnSettings

-----------------------------------------------------------------------------
(* How a call hands over what it is to find.                               *)

LEMMA BareServes ==
  ASSUME AnnotationsBuilt, TypeInv, Entered, NEW wanted, NEW origin,
         Serves(top.annotation, top.optional, info, wanted, origin)
  PROVE  Serves(bare, optional, info, wanted, origin)
<1>0. calls # << >> /\ Settings(info) /\ top.annotation \in Annotations /\ bare \in Annotations
  BY TopTyped, BareTyped DEF Entered, Resolving, Frames
<1>1. CASE ~Union
  BY <1>1 DEF bare, optional
<1>2. CASE Union
  <2>1. PICK a \in Annotations : a = top.annotation
    BY <1>0
  <2>2. a.kind = "union" /\ Len(a.args) = 1 /\ bare = a.args[1]
    <3>1. Annotation(a)
      BY ResolverAssumption
    <3>2. a.kind = "union" /\ bare = a.args[1]
      BY <1>2, <2>1 DEF Union, bare
    <3>3. Len(a.args) \in Nat /\ Len(a.args) > 0
      BY <3>1, <3>2 DEF Annotation
    <3>4. ~(Len(a.args) > 1)
      BY <1>2, <2>1 DEF Entered, Refuses
    <3>5. Len(a.args) = 1
      BY <3>3, <3>4, NoneButOne
    <3>6. QED BY <3>2, <3>5
  <2>3. SelectedCodec(a, info) = SelectedCodec(bare, info)
    BY <1>0, <2>2, SelectedUnion
  <2>4. Questionable[bare] => Questionable[a]
    BY <2>2, QuestionableIf
  <2>5. MayBeNone(bare) => MayBeNone(a)
    BY <2>2, NoneIf
  <2>6. optional => MayBeNone(a)
    <3>1. optional = a.none
      BY <1>2, <2>1 DEF optional
    <3>2. QED BY <2>2, <3>1, NoneIf DEF NoneIn
  <2>7. SelectedCodec(a, info) = wanted /\ (MayBeNone(a) => MayBeNone(origin))
    BY <2>1 DEF Serves
  <2>8. Hopeless(a, info) => Hopeless(Field.annotation, Stated(next))
    BY <2>1 DEF Serves
  <2>9. Hopeless(bare, info) => Hopeless(a, info)
    BY <2>3, <2>4 DEF Hopeless
  <2>10. QED BY <2>3, <2>5, <2>6, <2>7, <2>8, <2>9 DEF Serves
<1>3. QED BY <1>1, <1>2

\* What is known of an annotation that no rule is for.
LEMMA ByKindTyped ==
  ASSUME TypeInv, NEW kind, ByKind(kind)
  PROVE  /\ Entered /\ calls # << >> /\ returned = {} /\ bare \in Annotations /\ bare.kind = kind
         /\ kind # "union" => ~Tabled(bare)
         /\ Settings(info) /\ info.codec = {} /\ info = infos[top.info]
BY BareTyped, TopTyped DEF ByKind, LookedUp, Given, Entered, Resolving, Tabled, info

LEMMA UnspecifiedServes ==
  ASSUME AnnotationsBuilt, TypeInv, Unspecified, NEW wanted, NEW origin,
         Serves(bare, optional, info, wanted, origin)
  PROVE  Serves(bare.base, optional, info, wanted, origin)
<1>1. ByKind("annotated") /\ Len(bare.specs) = 0
  BY DEF Unspecified, Specs
<1>2. bare \in Annotations /\ bare.kind = "annotated" /\ ~Tabled(bare) /\ Settings(info)
  BY <1>1, ByKindTyped
<1>3. SelectedCodec(bare, info) = SelectedCodec(bare.base, info)
  BY <1>1, <1>2, SelectedUnspecified
<1>4. Questionable[bare.base] => Questionable[bare]
  BY <1>2, QuestionableIf
<1>5. MayBeNone(bare.base) => MayBeNone(bare)
  BY <1>2, NoneIf
<1>6. Hopeless(bare.base, info) => Hopeless(bare, info)
  BY <1>3, <1>4 DEF Hopeless
<1>7. QED BY <1>3, <1>5, <1>6 DEF Serves

LEMMA SpecServes ==
  ASSUME AnnotationsBuilt, TypeInv, ApplySpec, NEW wanted, NEW origin,
         Serves(bare, optional, info, wanted, origin)
  PROVE  Serves(bare.base, optional, Overridden(info, Specs[1]), wanted, origin)
<1>1. ByKind("annotated") /\ Len(bare.specs) = 1
  BY DEF ApplySpec, Specs, IsSpec
<1>2. PICK spec : spec = bare.specs[1]
  OBVIOUS
<1>3. spec.kind = "codec" /\ spec.encoding \subseteq Encodings /\ Specs[1] = spec
  BY <1>2 DEF ApplySpec, Specs, IsSpec
<1>4. bare \in Annotations /\ bare.kind = "annotated" /\ ~Tabled(bare) /\ info.codec = {}
  BY <1>1, ByKindTyped
<1>5. PICK s : s = Overridden(info, spec)
  OBVIOUS
<1>6. SelectedCodec(bare, info) = SelectedCodec(bare.base, s)
  BY <1>1, <1>2, <1>3, <1>4, <1>5, SelectedSpec
<1>7. Questionable[bare.base] => Questionable[bare]
  BY <1>4, QuestionableIf
<1>8. MayBeNone(bare.base) => MayBeNone(bare)
  BY <1>4, NoneIf
<1>9. s.encoding \in Encodings \/ s.encoding = info.encoding
  <2>1. s.encoding = The(IF spec.encoding # {} THEN spec.encoding ELSE {info.encoding})
    BY <1>5 DEF Overridden
  <2>2. CASE spec.encoding = {}
    BY <2>1, <2>2 DEF The
  <2>3. CASE spec.encoding # {}
    <3>1. The(spec.encoding) \in spec.encoding
      BY <2>3 DEF The
    <3>2. QED BY <1>3, <2>1, <2>3, <3>1
  <2>4. QED BY <2>2, <2>3
<1>10. Hopeless(bare.base, s) => Hopeless(bare, info)
  BY <1>6, <1>7, <1>9 DEF Hopeless
<1>11. Serves(bare.base, optional, s, wanted, origin)
  BY <1>6, <1>8, <1>10 DEF Serves
<1>12. QED BY <1>3, <1>5, <1>11

\* The items are found from their own annotation and settings of their own.
LEMMA ItemServes ==
  ASSUME AnnotationsBuilt, TypeInv, OpenList, NEW wanted, NEW origin,
         Serves(bare, optional, info, wanted, origin)
  PROVE  /\ Serves(bare.args[1], FALSE, FreshInfo, SelectedItem[bare], bare.args[1])
         /\ Waits(bare, info)
<1>1. ByKind("list") /\ Len(bare.args) = 1
  BY DEF OpenList
<1>2. /\ bare \in Annotations /\ bare.kind = "list" /\ ~Tabled(bare) /\ info.codec = {}
      /\ Settings(info)
  BY <1>1, ByKindTyped
<1>3. FreshInfo.codec = {} /\ FreshInfo.encoding \in Encodings
  BY ResolverAssumption DEF FreshInfo
<1>4. SelectedItem[bare] = SelectedCodec(bare.args[1], FreshInfo)
  BY <1>1, <1>2, <1>3, SelectedItemDefined DEF SelectedStep, SelectedCodec
<1>5. SelectedCodec(bare, info) = UNION {ListCodec(c, info) : c \in SelectedItem[bare]}
  BY <1>2, SelectedType
<1>6. SelectedItem[bare] = {} => SelectedCodec(bare, info) = {}
  BY <1>5
<1>7. Questionable[bare.args[1]] => Questionable[bare]
  BY <1>1, <1>2, QuestionableIf
<1>8. Hopeless(bare.args[1], FreshInfo) => Hopeless(bare, info)
  BY <1>3, <1>4, <1>6, <1>7 DEF Hopeless
<1>9. QED BY <1>1, <1>2, <1>4, <1>8 DEF Serves, Waits

-----------------------------------------------------------------------------
(* What resolve finds or raises is what it is to find or may raise.        *)

LEMMA TopServes ==
  ASSUME TypeInv, ServeInv, FirstUse(next), calls # << >>
  PROVE  Serves(top.annotation, top.optional, info, Wanted(Len(calls)), Origin(Len(calls)))
<1>1. Len(calls) \in 1..Len(calls) /\ top = calls[Len(calls)]
  BY TopTyped
<1>2. CallServes(Len(calls))
  BY <1>1 DEF ServeInv
<1>3. QED BY <1>1, <1>2 DEF CallServes, info

LEMMA BareNoUnion == ASSUME TypeInv, Entered PROVE bare.kind # "union"
<1>1. top.annotation \in Annotations
  BY TopTyped DEF Entered, Resolving, Frames
<1>2. CASE ~Union
  BY <1>2 DEF Union, bare
<1>3. CASE Union
  <2>1. top.annotation.kind = "union" /\ bare = top.annotation.args[1]
    BY <1>3 DEF Union, bare
  <2>2. 1 \in DOMAIN top.annotation.args
    BY <1>1, <2>1, Parts
  <2>3. Annotation(top.annotation)
    BY <1>1, ResolverAssumption
  <2>4. QED BY <2>1, <2>2, <2>3 DEF Annotation
<1>4. QED BY <1>2, <1>3

\* A call that does not wait returns the codec for what it has come to.
LEMMA Finds ==
  ASSUME AnnotationsBuilt, TypeInv, Returning, ~CloseList
  PROVE  /\ Entered
         /\ \E codecs : /\ AtMostOne(codecs) /\ Return(codecs)
                        /\ codecs = SelectedCodec(bare, info)
<1>1. Entered
  BY DEF Returning, UseGiven, UseTable, UseNumeric, UseModel, UseEnum, ByKind, LookedUp
<1>2. bare \in Annotations /\ Settings(info) /\ bare.kind # "union"
  BY <1>1, BareTyped, BareNoUnion, TopTyped DEF Entered, Resolving
<1>3. CASE UseGiven
  <2>1. Return(info.codec) /\ info.codec # {}
    BY <1>3 DEF UseGiven, Given
  <2>2. info.codec = SelectedCodec(bare, info)
    BY <2>1 DEF SelectedCodec
  <2>3. QED BY <1>1, <1>2, <2>1, <2>2, OneCodec
<1>4. CASE UseTable
  <2>1. Return(ScalarCodec(Rules[bare], info)) /\ bare \in DOMAIN Rules /\ info.codec = {}
    BY <1>4 DEF UseTable, LookedUp, Given
  <2>2. Tabled(bare)
    BY <1>2, <2>1 DEF Tabled
  <2>3. ScalarCodec(Rules[bare], info) = SelectedCodec(bare, info)
    BY <1>2, <2>1, <2>2, SelectedTable
  <2>4. QED BY <1>1, <1>2, <2>1, <2>3, OneCodec
<1>5. CASE UseNumeric
  <2>1. /\ Return(NumericCodec(bare.specs[1])) /\ ByKind("annotated")
        /\ Len(bare.specs) = 1 /\ Numeric(bare.specs[1])
    BY <1>5 DEF UseNumeric, Specs
  <2>2. bare.kind = "annotated" /\ ~Tabled(bare) /\ info.codec = {}
    BY <2>1, ByKindTyped
  <2>3. NumericCodec(bare.specs[1]) = SelectedCodec(bare, info)
    BY <1>2, <2>1, <2>2, SelectedNumeric
  <2>4. AtMostOne(NumericCodec(bare.specs[1]))
    BY <1>2, OneCodec
  <2>5. QED BY <1>1, <2>1, <2>3, <2>4
<1>6. CASE UseModel
  <2>1. Return({[kind |-> "model", name |-> bare.name]}) /\ ByKind("model")
    BY <1>6 DEF UseModel
  <2>2. bare.kind = "model" /\ ~Tabled(bare) /\ info.codec = {}
    BY <2>1, ByKindTyped
  <2>3. {[kind |-> "model", name |-> bare.name]} = SelectedCodec(bare, info)
    BY <1>2, <2>2, SelectedType
  <2>4. AtMostOne({[kind |-> "model", name |-> bare.name]})
    BY DEF AtMostOne
  <2>5. QED BY <1>1, <2>1, <2>3, <2>4
<1>7. CASE UseEnum
  <2>1. Return(EnumCodec(bare, info)) /\ ByKind("enum")
    BY <1>7 DEF UseEnum
  <2>2. bare.kind = "enum" /\ ~Tabled(bare) /\ info.codec = {}
    BY <2>1, ByKindTyped
  <2>3. EnumCodec(bare, info) = SelectedCodec(bare, info)
    BY <1>2, <2>2, SelectedType
  <2>4. QED BY <1>1, <1>2, <2>1, <2>3, OneCodec
<1>8. QED BY <1>3, <1>4, <1>5, <1>6, <1>7 DEF Returning

\* A call that waited returns a list of what its items' call found.
LEMMA FindsList ==
  ASSUME AnnotationsBuilt, TypeInv, WaitInv, ReturnedInv, CloseList, FirstUse(next)
  PROVE  /\ calls # << >> /\ bare = top.annotation /\ optional = top.optional
         /\ bare \in Annotations
         /\ \E codecs : /\ AtMostOne(codecs) /\ Return(codecs)
                        /\ \/ codecs = SelectedCodec(bare, info)
                           \/ codecs = {} /\ Questionable[bare]
<1>1. PICK item \in returned : Return(IF item.optional THEN {} ELSE ListCodec(item.codec, info))
  BY DEF CloseList
<1>2. PICK n \in Nat \ {0} : n = Len(calls)
  BY TopTyped DEF CloseList
<1>3. calls # << >> /\ top = calls[n] /\ top.annotation \in Annotations /\ Settings(info)
  BY <1>2, TopTyped DEF CloseList, Frames
<1>4. Waits(top.annotation, info)
  BY <1>1, <1>2, <1>3 DEF WaitInv, info
<1>5. bare = top.annotation /\ optional = top.optional
  BY <1>4 DEF Waits, bare, optional, Union
<1>6. Wanted(n + 1) = SelectedItem[bare] /\ Origin(n + 1) = bare.args[1]
  <2>1. n + 1 # 1 /\ (n + 1) - 1 = n
    OBVIOUS
  <2>2. QED BY <1>3, <1>5, <2>1 DEF Wanted, Origin
<1>7. {item.codec} = SelectedItem[bare] /\ (item.optional => MayBeNone(bare.args[1]))
  BY <1>1, <1>2, <1>6 DEF ReturnedInv
<1>8. CASE item.optional
  <2>1. Return({}) /\ AtMostOne({})
    BY <1>1, <1>8 DEF AtMostOne
  <2>2. Questionable[bare]
    BY <1>3, <1>4, <1>5, <1>7, <1>8, QuestionableIf DEF Waits
  <2>3. QED BY <1>3, <1>5, <2>1, <2>2
<1>9. CASE ~item.optional
  <2>1. Return(ListCodec(item.codec, info))
    BY <1>1, <1>9
  <2>2. SelectedCodec(bare, info) = UNION {ListCodec(c, info) : c \in SelectedItem[bare]}
    BY <1>3, <1>4, <1>5, SelectedType DEF Waits
  <2>3. SelectedCodec(bare, info) = ListCodec(item.codec, info)
    <3>1. PICK S : S = SelectedItem[bare]
      OBVIOUS
    <3>2. S = {item.codec}
      BY <1>7, <3>1
    <3>3. UNION {ListCodec(c, info) : c \in S} = ListCodec(item.codec, info)
      BY <3>2
    <3>4. QED BY <2>2, <3>1, <3>3
  <2>4. AtMostOne(ListCodec(item.codec, info))
    BY <1>3, OneCodec
  <2>5. QED BY <1>3, <1>5, <2>1, <2>3, <2>4
<1>10. QED BY <1>8, <1>9

LEMMA ReturnServes ==
  ASSUME AnnotationsBuilt, TypeInv, OwnInv, Returning, FirstUse(next)
  PROVE  /\ calls # << >>
         /\ Serves(bare, optional, info, Wanted(Len(calls)), Origin(Len(calls)))
         /\ \E codecs : /\ AtMostOne(codecs) /\ Return(codecs)
                        /\ \/ codecs = SelectedCodec(bare, info)
                           \/ codecs = {} /\ Questionable[bare]
<1>1. WaitInv /\ ServeInv /\ ReturnedInv
  BY DEF OwnInv
<1>2. calls # << >>
  BY Returns
<1>3. PICK wanted, origin : wanted = Wanted(Len(calls)) /\ origin = Origin(Len(calls))
  OBVIOUS
<1>4. Serves(top.annotation, top.optional, info, wanted, origin)
  BY <1>1, <1>2, <1>3, TopServes
<1>5. CASE CloseList
  <2>1. bare = top.annotation /\ optional = top.optional
    BY <1>1, <1>5, FindsList
  <2>2. Serves(bare, optional, info, wanted, origin)
    BY <1>4, <2>1
  <2>3. \E codecs : /\ AtMostOne(codecs) /\ Return(codecs)
                    /\ \/ codecs = SelectedCodec(bare, info)
                       \/ codecs = {} /\ Questionable[bare]
    BY <1>1, <1>5, FindsList
  <2>4. QED BY <1>2, <1>3, <2>2, <2>3
<1>6. CASE ~CloseList
  <2>1. Entered
    BY <1>6, Finds
  <2>2. Serves(bare, optional, info, wanted, origin)
    BY <1>4, <2>1, BareServes
  <2>3. \E codecs : AtMostOne(codecs) /\ Return(codecs) /\ codecs = SelectedCodec(bare, info)
    BY <1>6, Finds
  <2>4. QED BY <1>2, <1>3, <2>2, <2>3
<1>7. QED BY <1>5, <1>6

\* A SchemaError is raised only for what may be refused.
LEMMA RaiseServes ==
  ASSUME AnnotationsBuilt, TypeInv, OwnInv, Raising, FirstUse(next)
  PROVE  \/ Raise("TypeError")
         \/ Raise("SchemaError") /\ Hopeless(Field.annotation, Stated(next))
<1>1. ServeInv
  BY DEF OwnInv
<1>2. ASSUME calls # << >>, Hopeless(top.annotation, info)
      PROVE  Hopeless(Field.annotation, Stated(next))
  BY <1>1, <1>2, TopServes DEF Serves
<1>3. ASSUME Entered, Hopeless(bare, info) PROVE Hopeless(Field.annotation, Stated(next))
  <2>1. Serves(top.annotation, top.optional, info, Wanted(Len(calls)), Origin(Len(calls)))
    BY <1>1, <1>3, TopServes DEF Entered, Resolving
  <2>2. Serves(bare, optional, info, Wanted(Len(calls)), Origin(Len(calls)))
    BY <1>3, <2>1, BareServes
  <2>3. QED BY <1>3, <2>2 DEF Serves
<1>4. ASSUME bare \in Annotations, Unsupported(bare) PROVE Hopeless(bare, info)
  BY <1>4, QuestionableIf DEF Hopeless
<1>5. CASE Unhashable \/ DefaultRaises
  BY <1>5 DEF Unhashable, DefaultRaises
<1>6. CASE Refuse
  <2>1. Raise("SchemaError") /\ calls # << >> /\ Refuses
    BY <1>6 DEF Refuse, Resolving
  <2>2. CASE info.encoding \notin Encodings
    BY <1>2, <2>1, <2>2 DEF Hopeless
  <2>3. CASE Union /\ Len(top.annotation.args) > 1
    <3>1. Unsupported(top.annotation)
      BY <2>3 DEF Unsupported, Union
    <3>2. top.annotation \in Annotations
      BY <2>1, TopTyped DEF Frames
    <3>3. Questionable[top.annotation]
      BY <3>1, <3>2, QuestionableIf
    <3>4. QED BY <1>2, <2>1, <3>3 DEF Hopeless
  <2>4. QED BY <2>1, <2>2, <2>3 DEF Refuses
<1>7. CASE TwoSpecs
  <2>1. Raise("SchemaError") /\ ByKind("annotated") /\ Len(bare.specs) > 1
    BY <1>7 DEF TwoSpecs, Specs
  <2>2. Entered /\ bare \in Annotations /\ bare.kind = "annotated" /\ ~Tabled(bare)
    BY <2>1, ByKindTyped
  <2>3. Unsupported(bare)
    BY <2>1, <2>2 DEF Unsupported
  <2>4. QED BY <1>3, <1>4, <2>1, <2>2, <2>3
<1>8. CASE SpecRaises
  <2>1. Raise("SchemaError") /\ ByKind("annotated") /\ ~(Specs[1].encoding \subseteq Encodings)
    BY <1>8 DEF SpecRaises
  <2>2. Entered /\ bare \in Annotations
    BY <2>1, ByKindTyped
  <2>3. Specs[1] \in SettingsIn(bare)
    BY <1>8, Written
  <2>4. Unsupported(bare)
    BY <2>1, <2>3 DEF Unsupported
  <2>5. QED BY <1>3, <1>4, <2>1, <2>2, <2>4
<1>9. CASE NotOneItem
  <2>1. Raise("SchemaError") /\ ByKind("list") /\ Len(bare.args) # 1
    BY <1>9 DEF NotOneItem
  <2>2. /\ Entered /\ bare \in Annotations /\ bare.kind = "list" /\ ~Tabled(bare)
        /\ Settings(info) /\ info.codec = {}
    BY <2>1, ByKindTyped
  <2>3. SelectedItem[bare] = {}
    BY <2>1, <2>2, SelectedItemDefined DEF SelectedStep
  <2>4. SelectedCodec(bare, info) = UNION {ListCodec(c, info) : c \in SelectedItem[bare]}
    BY <2>2, SelectedType
  <2>5. SelectedCodec(bare, info) = {}
    BY <2>3, <2>4
  <2>6. QED BY <1>3, <2>1, <2>2, <2>5 DEF Hopeless
<1>10. CASE Unknown
  <2>1. Raise("SchemaError") /\ (ByKind("class") \/ ByKind("generic"))
    BY <1>10 DEF Unknown
  <2>2. /\ Entered /\ bare \in Annotations /\ bare.kind \in {"class", "generic"} /\ ~Tabled(bare)
        /\ Settings(info) /\ info.codec = {}
    BY <2>1, ByKindTyped
  <2>3. SelectedCodec(bare, info) = {}
    BY <2>2, SelectedType
  <2>4. QED BY <1>3, <2>1, <2>2, <2>3 DEF Hopeless
<1>11. QED BY <1>5, <1>6, <1>7, <1>8, <1>9, <1>10 DEF Raising

-----------------------------------------------------------------------------
(* The stack before and after a step.                                      *)

\* No other call's settings are in the FieldInfo of the top call.
LEMMA OthersInfo ==
  ASSUME TypeInv, calls # << >>, NEW i \in 1..Len(calls), i < Len(calls)
  PROVE  calls[i].info # top.info
<1>1. Len(calls) \in 1..Len(calls) /\ top = calls[Len(calls)]
  BY TopTyped
<1>2. QED BY <1>1 DEF TypeInv, CallsInv

\* Unspecified and ApplySpec go on with the base.
LEMMA DeeperShape ==
  ASSUME TypeInv, Deeper
  PROVE  /\ Entered /\ calls # << >> /\ returned = {}
         /\ UNCHANGED <<program, next, returned, outcomes>>
         /\ Len(calls') = Len(calls)
         /\ \A i \in 1..Len(calls) : i < Len(calls) =>
              calls'[i] = calls[i] /\ infos'[calls[i].info] = infos[calls[i].info]
         /\ /\ calls'[Len(calls)].annotation = bare.base
            /\ calls'[Len(calls)].optional = optional
            /\ calls'[Len(calls)].info = top.info
         /\ \A i \in DOMAIN infos : i # top.info => infos'[i] = infos[i]
         /\ \/ Unspecified /\ infos'[top.info] = info
            \/ ApplySpec /\ infos'[top.info] = Overridden(info, Specs[1])
<1>1. Entered /\ calls # << >> /\ returned = {} /\ UNCHANGED <<program, next, returned, outcomes>>
  BY DEF Deeper, Unspecified, ApplySpec, ByKind, LookedUp, Entered, Resolving
<1>2. PICK f : f = Frame(bare.base, optional, top.info)
  OBVIOUS
<1>3. calls' = WithTop(f)
  BY <1>2 DEF Deeper, Unspecified, ApplySpec
<1>4. f.annotation = bare.base /\ f.optional = optional /\ f.info = top.info
  BY <1>2 DEF Frame
<1>5. calls \in Seq(Frames) /\ Len(calls) \in Nat \ {0} /\ top.info \in DOMAIN infos
  BY <1>1, TopTyped DEF TypeInv, CallsInv
<1>6. Len(calls') = Len(calls) /\ \A i \in 1..Len(calls) : calls'[i] = IF i = Len(calls) THEN f ELSE calls[i]
  BY <1>3, <1>5 DEF WithTop
<1>7. calls'[Len(calls)] = f /\ \A i \in 1..Len(calls) : i < Len(calls) => calls'[i] = calls[i]
  BY <1>5, <1>6
<1>8. /\ \A i \in DOMAIN infos : i # top.info => infos'[i] = infos[i]
      /\ \/ Unspecified /\ infos'[top.info] = info
         \/ ApplySpec /\ infos'[top.info] = Overridden(info, Specs[1])
  <2>1. CASE Unspecified
    BY <2>1 DEF Unspecified, info
  <2>2. CASE ApplySpec
    <3>1. infos' = [infos EXCEPT ![top.info] = Overridden(info, Specs[1])]
      BY <1>5, <2>2 DEF ApplySpec, info
    <3>2. QED BY <1>5, <2>2, <3>1
  <2>3. QED BY <2>1, <2>2 DEF Deeper
<1>9. \A i \in 1..Len(calls) : i < Len(calls) => infos'[calls[i].info] = infos[calls[i].info]
  BY <1>1, <1>8, OthersInfo DEF TypeInv, CallsInv
<1>10. QED BY <1>1, <1>4, <1>6, <1>7, <1>8, <1>9

\* list_codec_factory calls resolve for the items.
LEMMA OpenShape ==
  ASSUME TypeInv, OpenList
  PROVE  /\ Entered /\ calls # << >> /\ returned = {}
         /\ UNCHANGED <<program, next, returned, outcomes>>
         /\ Len(calls') = Len(calls) + 1
         /\ \A i \in 1..Len(calls) : i < Len(calls) =>
              calls'[i] = calls[i] /\ infos'[calls[i].info] = infos[calls[i].info]
         /\ /\ calls'[Len(calls)].annotation = bare
            /\ calls'[Len(calls)].optional = optional
            /\ calls'[Len(calls)].info = top.info
         /\ /\ calls'[Len(calls) + 1].annotation = bare.args[1]
            /\ calls'[Len(calls) + 1].optional = FALSE
            /\ infos'[calls'[Len(calls) + 1].info] = FreshInfo
         /\ infos'[top.info] = info
         /\ \A i \in DOMAIN infos : infos'[i] = infos[i]
<1>1. Entered /\ calls # << >> /\ returned = {} /\ UNCHANGED <<program, next, returned, outcomes>>
  BY DEF OpenList, ByKind, LookedUp, Entered, Resolving
<1>2. PICK f : f = Frame(bare, optional, top.info)
  OBVIOUS
<1>3. PICK g : g = Frame(bare.args[1], FALSE, Len(infos) + 1)
  OBVIOUS
<1>4. PICK c : c = WithTop(f)
  OBVIOUS
<1>5. calls' = Append(c, g) /\ infos' = Append(infos, FreshInfo)
  BY <1>2, <1>3, <1>4 DEF OpenList
<1>6. /\ f.annotation = bare /\ f.optional = optional /\ f.info = top.info
      /\ g.annotation = bare.args[1] /\ g.optional = FALSE /\ g.info = Len(infos) + 1
  BY <1>2, <1>3 DEF Frame
<1>7. PICK n \in Nat \ {0} : n = Len(calls) /\ calls = [i \in 1..n |-> calls[i]]
  BY <1>1, TopTyped DEF TypeInv, CallsInv
<1>8. c = [i \in 1..n |-> c[i]] /\ \A i \in 1..n : c[i] = IF i = n THEN f ELSE calls[i]
  BY <1>4, <1>7 DEF WithTop
<1>9. /\ calls' = [i \in 1..n + 1 |-> calls'[i]]
      /\ \A i \in 1..n : calls'[i] = c[i]
      /\ calls'[n + 1] = g
  BY <1>5, <1>8, AppendKeeps
<1>10. n + 1 \in Nat
  OBVIOUS
<1>11. Len(calls') = n + 1
  BY <1>9, <1>10, AppendKeeps
<1>12. calls'[n] = f /\ \A i \in 1..n : i < n => calls'[i] = calls[i]
  <2>1. \A i \in 1..n : calls'[i] = IF i = n THEN f ELSE calls[i]
    BY <1>8, <1>9
  <2>2. n \in 1..n /\ \A i \in 1..n : i < n => i # n
    OBVIOUS
  <2>3. QED BY <2>1, <2>2
<1>13. PICK m \in Nat : infos = [i \in 1..m |-> infos[i]]
  BY DEF TypeInv, IInv, InfosInv
<1>14. /\ Len(infos) = m /\ infos'[m + 1] = FreshInfo /\ DOMAIN infos = 1..m
       /\ \A i \in 1..m : infos'[i] = infos[i]
  BY <1>5, <1>13, AppendKeeps
<1>15. \A i \in 1..n : calls[i].info \in DOMAIN infos
  BY <1>7 DEF TypeInv, CallsInv
<1>16. infos'[top.info] = info
  BY <1>1, <1>14, TopTyped DEF info
<1>17. \A i \in 1..n : infos'[calls[i].info] = infos[calls[i].info]
  BY <1>14, <1>15
<1>18. infos'[g.info] = FreshInfo
  BY <1>6, <1>14
<1>19. QED BY <1>1, <1>6, <1>7, <1>9, <1>11, <1>12, <1>14, <1>16, <1>17, <1>18

\* A call that found a codec leaves the stack.
LEMMA ReturnShape ==
  ASSUME TypeInv, calls # << >>, NEW codecs, codecs # {}, Return(codecs)
  PROVE  /\ UNCHANGED <<program, infos, next, outcomes>>
         /\ returned' = {[codec |-> c, optional |-> optional, annotation |-> bare] : c \in codecs}
         /\ Len(calls) \in Nat \ {0} /\ Len(calls') = Len(calls) - 1
         /\ \A i \in 1..Len(calls) - 1 : calls'[i] = calls[i]
<1>1. /\ UNCHANGED <<program, infos, next, outcomes>> /\ calls' = Front(calls)
      /\ returned' = {[codec |-> c, optional |-> optional, annotation |-> bare] : c \in codecs}
  BY DEF Return
<1>2. Len(calls) \in Nat \ {0} /\ calls \in Seq(Frames)
  BY TopTyped DEF TypeInv, CallsInv
<1>3. Len(calls') = Len(calls) - 1 /\ \A i \in 1..Len(calls) - 1 : calls'[i] = calls[i]
  BY <1>1, <1>2, FrontKeeps
<1>4. QED BY <1>1, <1>2, <1>3

\* The call for a field.
LEMMA ResolveShape ==
  ASSUME TypeInv, Resolve
  PROVE  /\ UNCHANGED <<program, infos, next, returned, outcomes>>
         /\ calls = << >> /\ returned = {} /\ Len(calls') = 1
         /\ calls'[1].annotation = Field.annotation /\ calls'[1].optional = FALSE
         /\ calls'[1].info = Field.info /\ next \in DOMAIN program.fields
         /\ Field.annotation \in Annotations /\ Field.info \in DOMAIN program.infos
<1>1. PICK f : f = Frame(Field.annotation, FALSE, Field.info)
  OBVIOUS
<1>2. f.annotation = Field.annotation /\ f.optional = FALSE /\ f.info = Field.info
  BY <1>1 DEF Frame
<1>3. calls' = <<f>>
  BY <1>1 DEF Resolve
<1>4. Len(calls') = 1 /\ calls'[1] = f
  BY <1>3
<1>5. next \in DOMAIN program.fields
  BY DEF Resolve, TypeInv, IInv, OutcomesInv, FieldInv
<1>6. Field.annotation \in Annotations /\ Field.info \in DOMAIN program.infos
  BY <1>5 DEF TypeInv, SettingsInv, Program, Field
<1>7. QED BY <1>2, <1>4, <1>5, <1>6 DEF Resolve

-----------------------------------------------------------------------------
(* The invariant is inductive.                                             *)

LEMMA WaitStep ==
  ASSUME TypeInv, WaitInv, AnnotationsBuilt, [Next]_vars
  PROVE  WaitInv'
<1>1. CASE UNCHANGED vars
  BY <1>1 DEF vars, WaitInv
<1>2. ASSUME calls' = << >> PROVE WaitInv'
  <2>1. Len(calls') = 0
    BY <1>2
  <2>2. QED BY <2>1 DEF WaitInv
<1>3. CASE Resolve
  <2>1. Len(calls') = 1 /\ returned' = {}
    BY <1>3, ResolveShape
  <2>2. \A i \in 1..1 : ~(i < 1)
    OBVIOUS
  <2>3. QED BY <2>1, <2>2 DEF WaitInv
<1>4. CASE Raising
  BY <1>2, <1>4, Raises DEF Raise
<1>5. CASE Returning
  <2>1. PICK codecs : Return(codecs)
    BY <1>5, Returns
  <2>2. calls # << >>
    BY <1>5, Returns
  <2>3. CASE codecs = {}
    BY <1>2, <2>1, <2>3 DEF Return, Raise
  <2>4. CASE codecs # {}
    <3>1. /\ infos' = infos /\ Len(calls) \in Nat \ {0} /\ Len(calls') = Len(calls) - 1
          /\ \A i \in 1..Len(calls) - 1 : calls'[i] = calls[i]
      BY <2>1, <2>2, <2>4, ReturnShape
    <3>2. \A i \in 1..Len(calls') : i \in 1..Len(calls) /\ i < Len(calls) /\ calls'[i] = calls[i]
      BY <3>1
    <3>3. QED BY <3>1, <3>2 DEF WaitInv
  <2>5. QED BY <2>3, <2>4
<1>6. CASE Deeper
  <2>1. /\ returned' = {} /\ Len(calls') = Len(calls)
        /\ \A i \in 1..Len(calls) : i < Len(calls) =>
             calls'[i] = calls[i] /\ infos'[calls[i].info] = infos[calls[i].info]
    BY <1>6, DeeperShape
  <2>2. QED BY <2>1 DEF WaitInv
<1>7. CASE OpenList
  <2>1. /\ calls # << >> /\ returned' = {} /\ Len(calls') = Len(calls) + 1
        /\ \A i \in 1..Len(calls) : i < Len(calls) =>
             calls'[i] = calls[i] /\ infos'[calls[i].info] = infos[calls[i].info]
        /\ calls'[Len(calls)].annotation = bare /\ calls'[Len(calls)].info = top.info
        /\ infos'[top.info] = info
    BY <1>7, OpenShape
  <2>2. Waits(bare, info)
    <3>1. ByKind("list") /\ Len(bare.args) = 1
      BY <1>7 DEF OpenList
    <3>2. bare.kind = "list" /\ ~Tabled(bare) /\ info.codec = {}
      BY <3>1, ByKindTyped
    <3>3. QED BY <3>1, <3>2 DEF Waits
  <2>3. Len(calls) \in Nat \ {0}
    BY <2>1, TopTyped
  <2>4. \A i \in 1..Len(calls) : i < Len(calls) =>
          Waits(calls'[i].annotation, infos'[calls'[i].info])
    BY <2>1 DEF WaitInv
  <2>5. \A i \in 1..Len(calls') : i < Len(calls') => i \in 1..Len(calls) /\ (i < Len(calls) \/ i = Len(calls))
    BY <2>1, <2>3
  <2>6. Waits(calls'[Len(calls)].annotation, infos'[calls'[Len(calls)].info])
    BY <2>1, <2>2
  <2>7. QED BY <2>1, <2>4, <2>5, <2>6 DEF WaitInv
<1>8. CASE AddField
  BY <1>2, <1>8 DEF AddField
<1>9. QED BY <1>1, <1>3, <1>4, <1>5, <1>6, <1>7, <1>8, Kinds

\* A field is resolved until there is an outcome.
LEMMA GoesOn ==
  ASSUME TypeInv, [Next]_vars
  PROVE  \/ next' = next + 1 /\ calls' = << >> /\ returned' = {}
            /\ (calls # << >> \/ returned # {})
         \/ next' = next /\ (calls # << >> \/ returned # {} => calls' # << >> \/ returned' # {})
<1>1. CASE UNCHANGED vars
  BY <1>1 DEF vars
<1>2. CASE Resolve
  BY <1>2 DEF Resolve
<1>3. CASE Raising
  BY <1>3, Raises DEF Raise
<1>4. CASE Returning
  <2>1. calls # << >> /\ \E codecs : Return(codecs)
    BY <1>4, Returns
  <2>2. QED BY <2>1 DEF Return, Raise
<1>5. CASE Deeper
  <2>1. next' = next /\ Len(calls') = Len(calls) /\ calls # << >>
    BY <1>5, DeeperShape
  <2>2. Len(calls) # 0
    BY <2>1, TopTyped
  <2>3. calls' # << >>
    BY <2>1, <2>2
  <2>4. QED BY <2>1, <2>3
<1>6. CASE OpenList
  <2>1. next' = next /\ Len(calls') = Len(calls) + 1 /\ calls # << >>
    BY <1>6, OpenShape
  <2>2. Len(calls) \in Nat
    BY <2>1, TopTyped
  <2>3. calls' # << >>
    BY <2>1, <2>2
  <2>4. QED BY <2>1, <2>3
<1>7. CASE AddField
  BY <1>7 DEF AddField
<1>8. QED BY <1>1, <1>2, <1>3, <1>4, <1>5, <1>6, <1>7, Kinds

LEMMA UnusedStep ==
  ASSUME AnnotationsBuilt, TypeInv, InsideInv, UnusedInv, [Next]_vars
  PROVE  UnusedInv'
<1>1. program' = program /\ next \in Nat
  BY InfosStep DEF TypeInv, IInv, OutcomesInv
<1>2. \A m : FieldOf(m)' = FieldOf(m)
  BY <1>1 DEF FieldOf
<1>3. Field = FieldOf(next)
  BY DEF Field, FieldOf
<1>4. (calls # << >> => calls[1].info = Field.info)'
  <2>1. CASE UNCHANGED vars
    BY <1>1, <2>1 DEF vars, UnusedInv, Field
  <2>2. CASE calls' = << >>
    BY <2>2
  <2>3. CASE Resolve
    BY <1>1, <2>3, ResolveShape DEF Field
  <2>4. ASSUME calls # << >>, 1 \in 1..Len(calls), calls'[1].info = calls[1].info, next' = next
        PROVE  (calls # << >> => calls[1].info = Field.info)'
    BY <1>1, <2>4 DEF UnusedInv, Field
  <2>5. CASE Raising
    BY <2>2, <2>5, Raises DEF Raise
  <2>6. CASE Returning
    <3>1. PICK codecs : Return(codecs)
      BY <2>6, Returns
    <3>2. calls # << >>
      BY <2>6, Returns
    <3>3. CASE codecs = {}
      BY <2>2, <3>1, <3>3 DEF Return, Raise
    <3>4. CASE codecs # {} /\ calls' # << >>
      <4>1. /\ next' = next /\ Len(calls) \in Nat \ {0} /\ Len(calls') = Len(calls) - 1
            /\ \A i \in 1..Len(calls) - 1 : calls'[i] = calls[i]
        BY <3>1, <3>2, <3>4, ReturnShape
      <4>2. calls' \in Seq(Frames)
        BY CallsStep DEF CallsInv
      <4>3. Len(calls') # 0
        BY <3>4, <4>2
      <4>4. 1 \in 1..Len(calls) - 1 /\ 1 \in 1..Len(calls)
        BY <4>1, <4>3
      <4>5. QED BY <2>4, <3>2, <4>1, <4>4
    <3>5. QED BY <2>2, <3>3, <3>4
  <2>7. CASE Deeper
    <3>1. /\ calls # << >> /\ next' = next
          /\ \A i \in 1..Len(calls) : i < Len(calls) => calls'[i] = calls[i]
          /\ calls'[Len(calls)].info = top.info
      BY <2>7, DeeperShape
    <3>2. PICK n \in Nat \ {0} : n = Len(calls) /\ top = calls[n]
      BY <3>1, TopTyped
    <3>3. 1 \in 1..n /\ (1 < n \/ n = 1)
      OBVIOUS
    <3>4. calls'[1].info = calls[1].info
      BY <3>1, <3>2, <3>3
    <3>5. QED BY <2>4, <3>1, <3>2, <3>3, <3>4
  <2>8. CASE OpenList
    <3>1. /\ calls # << >> /\ next' = next
          /\ \A i \in 1..Len(calls) : i < Len(calls) => calls'[i] = calls[i]
          /\ calls'[Len(calls)].info = top.info
      BY <2>8, OpenShape
    <3>2. PICK n \in Nat \ {0} : n = Len(calls) /\ top = calls[n]
      BY <3>1, TopTyped
    <3>3. 1 \in 1..n /\ (1 < n \/ n = 1)
      OBVIOUS
    <3>4. calls'[1].info = calls[1].info
      BY <3>1, <3>2, <3>3
    <3>5. QED BY <2>4, <3>1, <3>2, <3>3, <3>4
  <2>9. CASE AddField
    BY <2>2, <2>9 DEF AddField
  <2>10. QED BY <2>1, <2>3, <2>5, <2>6, <2>7, <2>8, <2>9, Kinds
<1>5. ASSUME NEW i \in DOMAIN program.infos,
             \A m \in 1..next' - 1 : FieldOf(m).info # i,
             (calls # << >> \/ returned # {})' => Field'.info # i
      PROVE  infos'[i] = program.infos[i]
  <2>1. \A m \in 1..next - 1 : FieldOf(m).info # i
    <3>1. next' \in {next, next + 1}
      BY GoesOn
    <3>2. PICK k \in Nat : k = next
      BY <1>1
    <3>3. \A l \in {k, k + 1} : \A m \in 1..k - 1 : m \in 1..l - 1
      OBVIOUS
    <3>4. QED BY <1>5, <3>1, <3>2, <3>3
  <2>2. calls # << >> \/ returned # {} => Field.info # i
    <3>1. CASE next' = next + 1
      <4>1. next \in 1..next' - 1 \/ next = 0
        BY <1>1, <3>1
      <4>2. calls # << >> \/ returned # {} => next # 0
        BY DEF TypeInv, IInv, FieldInv
      <4>3. QED BY <1>3, <1>5, <4>1, <4>2
    <3>2. CASE next' = next /\ (calls # << >> \/ returned # {} => calls' # << >> \/ returned' # {})
      <4>1. Field' = Field
        BY <1>1, <3>2 DEF Field
      <4>2. QED BY <1>5, <3>2, <4>1
    <3>3. QED BY <3>1, <3>2, GoesOn
  <2>3. infos[i] = program.infos[i]
    BY <2>1, <2>2 DEF UnusedInv
  <2>4. i \in DOMAIN infos
    BY DEF TypeInv, IInv, InfosInv
  <2>5. CASE infos' = infos
    BY <2>3, <2>5
  <2>6. CASE OpenList
    BY <2>3, <2>4, <2>6, OpenShape
  <2>7. CASE ApplySpec \/ SpecRaises
    <3>1. Entered /\ calls # << >>
      BY <2>7, Written DEF Entered, Resolving
    <3>2. PICK s : infos' = [infos EXCEPT ![top.info] = s]
      BY <2>7, Written
    <3>3. top.info # i
      BY <2>2, <3>1, TopInside
    <3>4. QED BY <2>3, <2>4, <3>2, <3>3
  <2>8. QED BY <2>5, <2>6, <2>7, SameInfos
<1>6. QED BY <1>1, <1>2, <1>4, <1>5 DEF UnusedInv

\* What a field's calls are to find stays the same while it is resolved.
LEMMA SameWanted ==
  ASSUME program' = program, next' = next, NEW i,
         i = 1 \/ calls'[i - 1].annotation = calls[i - 1].annotation
  PROVE  Wanted(i)' = Wanted(i) /\ Origin(i)' = Origin(i)
<1>1. Field' = Field /\ Stated(next)' = Stated(next)
  BY DEF Field, Stated, FieldOf
<1>2. CASE i = 1
  BY <1>1, <1>2 DEF Wanted, Origin
<1>3. CASE i # 1
  BY <1>3 DEF Wanted, Origin
<1>4. QED BY <1>2, <1>3

LEMMA ServesStill ==
  ASSUME program' = program, next' = next, NEW i,
         i = 1 \/ calls'[i - 1].annotation = calls[i - 1].annotation,
         NEW a, NEW o, NEW s,
         calls'[i].annotation = a, calls'[i].optional = o, infos'[calls'[i].info] = s,
         Serves(a, o, s, Wanted(i), Origin(i))
  PROVE  CallServes(i)'
<1>1. PICK wanted, origin : wanted = Wanted(i) /\ origin = Origin(i)
  OBVIOUS
<1>2. Wanted(i)' = wanted /\ Origin(i)' = origin
  BY <1>1, SameWanted
<1>3. Field' = Field /\ Stated(next)' = Stated(next)
  BY DEF Field, Stated, FieldOf
<1>4. Serves(a, o, s, wanted, origin)
  BY <1>1
<1>5. SelectedCodec(a, s) = wanted /\ (o \/ MayBeNone(a) => MayBeNone(origin))
  BY <1>4 DEF Serves
<1>6. Hopeless(a, s) => Hopeless(Field.annotation, Stated(next))
  BY <1>4 DEF Serves
<1>7. Hopeless(Field.annotation, Stated(next))' <=> Hopeless(Field.annotation, Stated(next))
  BY <1>3 DEF Hopeless
<1>8. Serves(calls[i].annotation, calls[i].optional, infos[calls[i].info], Wanted(i), Origin(i))'
  BY <1>2, <1>5, <1>6, <1>7 DEF Serves
<1>9. QED BY <1>8 DEF CallServes

\* So do calls that a step leaves alone.
LEMMA ServesKept ==
  ASSUME ServeInv, FirstUse(next), program' = program, next' = next, NEW i \in 1..Len(calls),
         i = 1 \/ calls'[i - 1].annotation = calls[i - 1].annotation,
         calls'[i] = calls[i], infos'[calls[i].info] = infos[calls[i].info]
  PROVE  CallServes(i)'
<1>1. PICK a, o, s : a = calls[i].annotation /\ o = calls[i].optional /\ s = infos[calls[i].info]
  OBVIOUS
<1>2. Serves(a, o, s, Wanted(i), Origin(i))
  BY <1>1 DEF ServeInv, CallServes
<1>3. calls'[i].annotation = a /\ calls'[i].optional = o /\ infos'[calls'[i].info] = s
  BY <1>1
<1>4. QED BY <1>2, <1>3, ServesStill

LEMMA Before == ASSUME NEW n \in Nat \ {0}, NEW i \in 1..n
  PROVE /\ n = 1 \/ (n - 1 \in 1..n /\ n - 1 < n)
        /\ i = n \/ (i \in 1..n - 1 /\ i < n)
        /\ i < n => i = 1 \/ (i - 1 \in 1..n /\ i - 1 < n)
        /\ n \in 1..n /\ n + 1 # 1 /\ (n + 1) - 1 = n
OBVIOUS

LEMMA ServeDeeper ==
  ASSUME AnnotationsBuilt, TypeInv, ServeInv, Deeper, FirstUse(next)
  PROVE  \A i \in 1..Len(calls') : CallServes(i)'
<1>1. /\ Entered /\ calls # << >> /\ program' = program /\ next' = next
      /\ Len(calls') = Len(calls)
      /\ \A i \in 1..Len(calls) : i < Len(calls) =>
           calls'[i] = calls[i] /\ infos'[calls[i].info] = infos[calls[i].info]
  BY DeeperShape
<1>2. PICK n \in Nat \ {0} : n = Len(calls)
  BY <1>1, TopTyped
<1>3. n = 1 \/ calls'[n - 1].annotation = calls[n - 1].annotation
  BY <1>1, <1>2, Before
<1>4. CallServes(n)'
  <2>1. PICK a, o, s : a = bare.base /\ o = optional /\ s = infos'[top.info]
    OBVIOUS
  <2>2. calls'[n].annotation = a /\ calls'[n].optional = o /\ infos'[calls'[n].info] = s
    BY <1>2, <2>1, DeeperShape
  <2>3. PICK wanted, origin : wanted = Wanted(n) /\ origin = Origin(n)
    OBVIOUS
  <2>4. Serves(top.annotation, top.optional, info, wanted, origin)
    BY <1>1, <1>2, <2>3, TopServes
  <2>5. Serves(bare, optional, info, wanted, origin)
    BY <1>1, <2>4, BareServes
  <2>6. CASE Unspecified /\ infos'[top.info] = info
    <3>1. Serves(bare.base, optional, info, wanted, origin)
      BY <2>5, <2>6, UnspecifiedServes
    <3>2. Serves(a, o, s, Wanted(n), Origin(n))
      BY <2>1, <2>3, <2>6, <3>1
    <3>3. QED BY <1>1, <1>3, <2>2, <3>2, ServesStill
  <2>7. CASE ApplySpec /\ infos'[top.info] = Overridden(info, Specs[1])
    <3>1. Serves(bare.base, optional, Overridden(info, Specs[1]), wanted, origin)
      BY <2>5, <2>7, SpecServes
    <3>2. Serves(a, o, s, Wanted(n), Origin(n))
      BY <2>1, <2>3, <2>7, <3>1
    <3>3. QED BY <1>1, <1>3, <2>2, <3>2, ServesStill
  <2>8. QED BY <2>6, <2>7, DeeperShape
<1>5. ASSUME NEW i \in 1..n, i < n PROVE CallServes(i)'
  <2>1. i = 1 \/ (i - 1 \in 1..n /\ i - 1 < n)
    BY <1>5, Before
  <2>2. i = 1 \/ calls'[i - 1].annotation = calls[i - 1].annotation
    BY <1>1, <1>2, <2>1
  <2>3. calls'[i] = calls[i] /\ infos'[calls[i].info] = infos[calls[i].info]
    BY <1>1, <1>2, <1>5
  <2>4. QED BY <1>1, <1>2, <1>5, <2>2, <2>3, ServesKept
<1>6. \A i \in 1..n : i = n \/ i < n
  BY Before
<1>7. QED BY <1>1, <1>2, <1>4, <1>5, <1>6

LEMMA ServeItem ==
  ASSUME AnnotationsBuilt, TypeInv, ServeInv, OpenList, FirstUse(next)
  PROVE  \A i \in 1..Len(calls') : CallServes(i)'
<1>1. /\ Entered /\ calls # << >> /\ program' = program /\ next' = next
      /\ Len(calls') = Len(calls) + 1
      /\ \A i \in 1..Len(calls) : i < Len(calls) =>
           calls'[i] = calls[i] /\ infos'[calls[i].info] = infos[calls[i].info]
  BY OpenShape
<1>2. PICK n \in Nat \ {0} : n = Len(calls)
  BY <1>1, TopTyped
<1>3. n = 1 \/ calls'[n - 1].annotation = calls[n - 1].annotation
  BY <1>1, <1>2, Before
<1>4. /\ calls'[n].annotation = bare /\ calls'[n].optional = optional
      /\ infos'[calls'[n].info] = info
      /\ calls'[n + 1].annotation = bare.args[1] /\ calls'[n + 1].optional = FALSE
      /\ infos'[calls'[n + 1].info] = FreshInfo
  BY <1>2, OpenShape
<1>5. PICK wanted, origin : wanted = Wanted(n) /\ origin = Origin(n)
  OBVIOUS
<1>6. Serves(bare, optional, info, wanted, origin)
  <2>1. Serves(top.annotation, top.optional, info, wanted, origin)
    BY <1>1, <1>2, <1>5, TopServes
  <2>2. QED BY <1>1, <2>1, BareServes
<1>7. CallServes(n)'
  <2>1. PICK a, o, s : a = bare /\ o = optional /\ s = info
    OBVIOUS
  <2>2. calls'[n].annotation = a /\ calls'[n].optional = o /\ infos'[calls'[n].info] = s
    BY <1>4, <2>1
  <2>3. Serves(a, o, s, Wanted(n), Origin(n))
    BY <1>5, <1>6, <2>1
  <2>4. QED BY <1>1, <1>3, <2>2, <2>3, ServesStill
<1>8. CallServes(n + 1)'
  <2>1. Serves(bare.args[1], FALSE, FreshInfo, SelectedItem[bare], bare.args[1])
    BY <1>6, ItemServes
  <2>2. n + 1 # 1 /\ (n + 1) - 1 = n
    BY Before
  <2>3. PICK k : k = n + 1
    OBVIOUS
  <2>4. Wanted(k)' = SelectedItem[bare] /\ Origin(k)' = bare.args[1]
    BY <1>4, <2>2, <2>3 DEF Wanted, Origin
  <2>5. Field' = Field /\ Stated(next)' = Stated(next)
    BY <1>1 DEF Field, Stated, FieldOf
  <2>6. PICK a : a = bare.args[1]
    OBVIOUS
  <2>7. /\ SelectedCodec(a, FreshInfo) = SelectedItem[bare] /\ (FALSE \/ MayBeNone(a) => MayBeNone(a))
        /\ Hopeless(a, FreshInfo) => Hopeless(Field.annotation, Stated(next))
    BY <2>1, <2>6 DEF Serves
  <2>8. Hopeless(Field.annotation, Stated(next))' <=> Hopeless(Field.annotation, Stated(next))
    BY <2>5 DEF Hopeless
  <2>9. calls'[k].annotation = a /\ calls'[k].optional = FALSE /\ infos'[calls'[k].info] = FreshInfo
    BY <1>4, <2>3, <2>6
  <2>10. Serves(calls[k].annotation, calls[k].optional, infos[calls[k].info], Wanted(k), Origin(k))'
    BY <2>4, <2>6, <2>7, <2>8, <2>9 DEF Serves
  <2>11. CallServes(k)'
    BY <2>10 DEF CallServes
  <2>12. QED BY <2>3, <2>11
<1>9. ASSUME NEW i \in 1..n, i < n PROVE CallServes(i)'
  <2>1. i = 1 \/ (i - 1 \in 1..n /\ i - 1 < n)
    BY <1>9, Before
  <2>2. i = 1 \/ calls'[i - 1].annotation = calls[i - 1].annotation
    BY <1>1, <1>2, <2>1
  <2>3. calls'[i] = calls[i] /\ infos'[calls[i].info] = infos[calls[i].info]
    BY <1>1, <1>2, <1>9
  <2>4. QED BY <1>1, <1>2, <1>9, <2>2, <2>3, ServesKept
<1>10. \A i \in 1..n + 1 : i = n + 1 \/ i = n \/ (i \in 1..n /\ i < n)
  OBVIOUS
<1>11. QED BY <1>1, <1>2, <1>7, <1>8, <1>9, <1>10

LEMMA ServeStep ==
  ASSUME AnnotationsBuilt, TypeInv, OwnInv, [Next]_vars
  PROVE  ServeInv'
<1>1. ServeInv /\ UnusedInv
  BY DEF OwnInv
<1>2. program' = program
  BY InfosStep DEF TypeInv, IInv
<1>3. next' = next => (FirstUse(next)' <=> FirstUse(next))
  BY <1>2 DEF FirstUse, FieldOf
<1>4. ASSUME calls' = << >> PROVE ServeInv'
  <2>1. Len(calls') = 0
    BY <1>4
  <2>2. QED BY <2>1 DEF ServeInv
<1>5. CASE UNCHANGED vars
  <2>1. next' = next /\ calls' = calls /\ infos' = infos
    BY <1>5 DEF vars
  <2>2. ASSUME FirstUse(next), NEW i \in 1..Len(calls) PROVE CallServes(i)'
    BY <1>1, <1>2, <2>1, <2>2, ServesKept
  <2>3. QED BY <1>3, <2>1, <2>2 DEF ServeInv
<1>6. CASE Resolve
  <2>1. /\ next' = next /\ infos' = infos /\ Len(calls') = 1 /\ calls = << >> /\ returned = {}
        /\ calls'[1].annotation = Field.annotation /\ calls'[1].optional = FALSE
        /\ calls'[1].info = Field.info
        /\ Field.annotation \in Annotations /\ Field.info \in DOMAIN program.infos
    BY <1>6, ResolveShape
  <2>2. ASSUME FirstUse(next) PROVE CallServes(1)'
    <3>1. Field = FieldOf(next)
      BY DEF Field, FieldOf
    <3>2. \A m \in 1..next - 1 : FieldOf(m).info # Field.info
      BY <2>2, <3>1 DEF FirstUse
    <3>3. infos[Field.info] = Stated(next)
      BY <1>1, <2>1, <3>1, <3>2 DEF UnusedInv, Stated
    <3>4. PICK a, s : a = Field.annotation /\ s = Stated(next)
      OBVIOUS
    <3>5. Wanted(1) = SelectedCodec(a, s) /\ Origin(1) = a
      BY <3>4 DEF Wanted, Origin
    <3>6. Serves(a, FALSE, s, Wanted(1), Origin(1))
      BY <3>4, <3>5 DEF Serves
    <3>7. calls'[1].annotation = a /\ calls'[1].optional = FALSE /\ infos'[calls'[1].info] = s
      BY <2>1, <3>3, <3>4
    <3>8. QED BY <1>2, <2>1, <3>6, <3>7, ServesStill
  <2>3. \A i \in 1..1 : i = 1
    OBVIOUS
  <2>4. QED BY <1>3, <2>1, <2>2, <2>3 DEF ServeInv
<1>7. CASE Raising
  BY <1>4, <1>7, Raises DEF Raise
<1>8. CASE Returning
  <2>1. PICK codecs : Return(codecs)
    BY <1>8, Returns
  <2>2. calls # << >>
    BY <1>8, Returns
  <2>3. CASE codecs = {}
    BY <1>4, <2>1, <2>3 DEF Return, Raise
  <2>4. CASE codecs # {}
    <3>1. /\ next' = next /\ infos' = infos /\ Len(calls) \in Nat \ {0}
          /\ Len(calls') = Len(calls) - 1
          /\ \A i \in 1..Len(calls) - 1 : calls'[i] = calls[i]
      BY <2>1, <2>2, <2>4, ReturnShape
    <3>2. PICK n \in Nat \ {0} : n = Len(calls)
      BY <3>1
    <3>3. ASSUME FirstUse(next), NEW i \in 1..n - 1 PROVE CallServes(i)'
      <4>1. i \in 1..n /\ (i = 1 \/ i - 1 \in 1..n - 1)
        BY <3>3
      <4>2. i = 1 \/ calls'[i - 1].annotation = calls[i - 1].annotation
        BY <3>1, <3>2, <4>1
      <4>3. calls'[i] = calls[i]
        BY <3>1, <3>2, <3>3
      <4>4. QED BY <1>1, <1>2, <3>1, <3>2, <3>3, <4>1, <4>2, <4>3, ServesKept
    <3>4. QED BY <1>3, <3>1, <3>2, <3>3 DEF ServeInv
  <2>5. QED BY <2>3, <2>4
<1>9. CASE Deeper
  <2>1. next' = next
    BY <1>9, DeeperShape
  <2>2. QED BY <1>1, <1>3, <1>9, <2>1, ServeDeeper DEF ServeInv
<1>10. CASE OpenList
  <2>1. next' = next
    BY <1>10, OpenShape
  <2>2. QED BY <1>1, <1>3, <1>10, <2>1, ServeItem DEF ServeInv
<1>11. CASE AddField
  BY <1>4, <1>11 DEF AddField
<1>12. QED BY <1>5, <1>6, <1>7, <1>8, <1>9, <1>10, <1>11, Kinds

\* A call that returned found what it was to find.
LEMMA ReturnedStep ==
  ASSUME AnnotationsBuilt, TypeInv, OwnInv, [Next]_vars
  PROVE  ReturnedInv'
<1>1. UnusedInv /\ ReturnedInv
  BY DEF OwnInv
<1>2. program' = program
  BY InfosStep DEF TypeInv, IInv
<1>3. next' = next => (FirstUse(next)' <=> FirstUse(next))
  BY <1>2 DEF FirstUse, FieldOf
<1>4. ASSUME returned' = {} PROVE ReturnedInv'
  BY <1>4 DEF ReturnedInv
<1>5. CASE UNCHANGED vars
  <2>1. next' = next /\ calls' = calls /\ infos' = infos /\ returned' = returned
    BY <1>5 DEF vars
  <2>2. PICK i : i = Len(calls) + 1
    OBVIOUS
  <2>3. Wanted(i)' = Wanted(i) /\ Origin(i)' = Origin(i) /\ Wanted(1)' = Wanted(1)
    BY <1>2, <2>1, SameWanted
  <2>4. Wanted(Len(calls) + 1)' = Wanted(i) /\ Origin(Len(calls) + 1)' = Origin(i)
    BY <2>1, <2>2, <2>3
  <2>5. Field' = Field
    BY <1>2, <2>1 DEF Field
  <2>6. QED BY <1>1, <1>3, <2>1, <2>2, <2>3, <2>4, <2>5 DEF ReturnedInv
<1>6. CASE Resolve
  BY <1>4, <1>6, ResolveShape
<1>7. CASE Raising
  BY <1>4, <1>7, Raises DEF Raise
<1>8. CASE Returning
  <2>1. CASE returned' # {} /\ FirstUse(next)'
    <3>1. calls # << >> /\ \E codecs : Return(codecs)
      BY <1>8, Returns
    <3>2. next' = next
      BY <2>1, <3>1 DEF Return, Raise
    <3>3. FirstUse(next)
      BY <1>3, <2>1, <3>2
    <3>4. PICK codecs : /\ AtMostOne(codecs) /\ Return(codecs)
                        /\ \/ codecs = SelectedCodec(bare, info)
                           \/ codecs = {} /\ Questionable[bare]
      BY <1>8, <3>3, ReturnServes
    <3>5. codecs # {}
      BY <2>1, <3>4 DEF Return, Raise
    <3>6. PICK n \in Nat \ {0} : n = Len(calls)
      BY <3>1, TopTyped
    <3>7. /\ infos' = infos /\ Len(calls') = n - 1
          /\ returned' = {[codec |-> c, optional |-> optional, annotation |-> bare] : c \in codecs}
          /\ \A i \in 1..n - 1 : calls'[i] = calls[i]
      BY <3>1, <3>4, <3>5, <3>6, ReturnShape
    <3>8. PICK wanted, origin : wanted = Wanted(n) /\ origin = Origin(n)
      OBVIOUS
    <3>9. Serves(bare, optional, info, wanted, origin)
      BY <1>8, <3>3, <3>6, <3>8, ReturnServes
    <3>10. codecs = wanted /\ (optional => MayBeNone(origin))
      BY <3>4, <3>5, <3>9 DEF Serves
    <3>11. n = 1 \/ n - 1 \in 1..n - 1
      OBVIOUS
    <3>12. Wanted(n)' = wanted /\ Origin(n)' = origin
      BY <1>2, <3>2, <3>7, <3>8, <3>11, SameWanted
    <3>13. (n - 1) + 1 = n
      OBVIOUS
    <3>14. Wanted(Len(calls) + 1)' = wanted /\ Origin(Len(calls) + 1)' = origin
      BY <3>7, <3>12, <3>13
    <3>15. ASSUME calls' = << >> PROVE infos'[Field'.info].codec \in {{}, Wanted(1)'}
      <4>1. Len(calls') = 0
        BY <3>15
      <4>2. n = 1
        BY <3>7, <4>1
      <4>3. top = calls[1] /\ calls[1].info = Field.info
        BY <1>1, <3>1, <3>6, <4>2, TopTyped DEF UnusedInv
      <4>4. Field' = Field
        BY <1>2, <3>2 DEF Field
      <4>5. info = infos'[Field'.info]
        BY <3>7, <4>3, <4>4 DEF info
      <4>6. info.codec \in {{}, wanted}
        BY <3>4, <3>5, <3>10 DEF SelectedCodec
      <4>7. QED BY <3>12, <4>2, <4>5, <4>6
    <3>16. ASSUME NEW r \in returned'
           PROVE  {r.codec} = wanted /\ r.optional = optional
      <4>1. PICK c \in codecs : r = [codec |-> c, optional |-> optional, annotation |-> bare]
        BY <3>7, <3>16
      <4>2. {c} = codecs
        BY <3>4 DEF AtMostOne
      <4>3. QED BY <3>10, <4>1, <4>2
    <3>17. QED BY <3>10, <3>14, <3>15, <3>16 DEF ReturnedInv
  <2>2. CASE ~(returned' # {} /\ FirstUse(next)')
    BY <2>2 DEF ReturnedInv
  <2>3. QED BY <2>1, <2>2
<1>9. CASE Deeper
  BY <1>4, <1>9, DeeperShape
<1>10. CASE OpenList
  BY <1>4, <1>10, OpenShape
<1>11. CASE AddField
  BY <1>4, <1>11 DEF AddField
<1>12. QED BY <1>5, <1>6, <1>7, <1>8, <1>9, <1>10, <1>11, Kinds

\* What OwnSettings says of the outcome r of field n.
OutcomeOwn(n, r) ==
  FirstUse(n) =>
    LET a == FieldOf(n).annotation
        selected == SelectedCodec(a, Stated(n))
    IN /\ r.raised = "nothing" => r.codec = selected /\ (r.optional => MayBeNone(a))
       /\ r.raised = "SchemaError" =>
            selected = {} \/ Questionable[a] \/ Stated(n).encoding \notin Encodings

LEMMA OwnSame ==
  ASSUME OwnSettings, program' = program, outcomes' = outcomes
  PROVE  OwnSettings'
BY DEF OwnSettings, FirstUse, FieldOf, Stated

LEMMA OwnAppended ==
  ASSUME TypeInv, OwnSettings, program' = program, NEW r,
         outcomes' = Append(outcomes, r), OutcomeOwn(next, r)
  PROVE  OwnSettings'
<1>1. \A n, x : OutcomeOwn(n, x)' <=> OutcomeOwn(n, x)
  BY DEF OutcomeOwn, FirstUse, FieldOf, Stated
<1>2. \A n \in DOMAIN outcomes : OutcomeOwn(n, outcomes[n])
  BY DEF OwnSettings, OutcomeOwn
<1>3. PICK k \in Nat : outcomes = [i \in 1..k |-> outcomes[i]] /\ k = next - 1
  BY DEF TypeInv, IInv, OutcomesInv
<1>4. k + 1 = next
  BY <1>3 DEF TypeInv, IInv, OutcomesInv
<1>5. /\ DOMAIN outcomes' = 1..k + 1 /\ outcomes'[k + 1] = r
      /\ \A i \in 1..k : outcomes'[i] = outcomes[i]
  <2>1. /\ Append(outcomes, r) = [i \in 1..k + 1 |-> Append(outcomes, r)[i]]
        /\ Append(outcomes, r)[k + 1] = r
        /\ \A i \in 1..k : Append(outcomes, r)[i] = outcomes[i]
    BY <1>3, AppendKeeps
  <2>2. PICK S : S = Append(outcomes, r)
    OBVIOUS
  <2>3. S = [i \in 1..k + 1 |-> S[i]]
    BY <2>1, <2>2
  <2>4. DOMAIN S = 1..k + 1
    BY <2>3
  <2>5. QED BY <2>1, <2>2, <2>4
<1>6. \A i \in 1..k + 1 : i = k + 1 \/ i \in 1..k
  BY <1>3
<1>7. DOMAIN outcomes = 1..k
  BY <1>3
<1>8. \A n \in DOMAIN outcomes' : OutcomeOwn(n, outcomes'[n])
  BY <1>2, <1>4, <1>5, <1>6, <1>7
<1>9. \A n \in DOMAIN outcomes' : OutcomeOwn(n, outcomes[n])'
  BY <1>1, <1>8
<1>10. QED BY <1>9 DEF OwnSettings, OutcomeOwn

LEMMA OwnRaised ==
  ASSUME TypeInv, OwnSettings, program' = program, NEW what, Raise(what), what # "nothing",
         FirstUse(next) => what # "SchemaError" \/ Hopeless(Field.annotation, Stated(next))
  PROVE  OwnSettings'
<1>1. PICK r : r = [raised |-> what, codec |-> {}, optional |-> FALSE]
  OBVIOUS
<1>2. outcomes' = Append(outcomes, r) /\ r.raised = what
  BY <1>1 DEF Raise
<1>3. Field = FieldOf(next)
  BY DEF Field, FieldOf
<1>4. OutcomeOwn(next, r)
  BY <1>2, <1>3 DEF OutcomeOwn, Hopeless
<1>5. QED BY <1>2, <1>4, OwnAppended

LEMMA OwnStep ==
  ASSUME AnnotationsBuilt, TypeInv, OwnInv, [Next]_vars
  PROVE  OwnSettings'
<1>1. OwnSettings /\ ReturnedInv
  BY DEF OwnInv
<1>2. program' = program
  BY InfosStep DEF TypeInv, IInv
<1>3. ASSUME outcomes' = outcomes PROVE OwnSettings'
  BY <1>1, <1>2, <1>3, OwnSame
<1>4. CASE UNCHANGED vars \/ Resolve
  BY <1>3, <1>4 DEF vars, Resolve
<1>5. CASE Deeper
  BY <1>3, <1>5, DeeperShape
<1>6. CASE OpenList
  BY <1>3, <1>6, OpenShape
<1>7. CASE Raising
  <2>1. CASE FirstUse(next)
    BY <1>1, <1>2, <1>7, <2>1, RaiseServes, OwnRaised
  <2>2. CASE ~FirstUse(next)
    BY <1>1, <1>2, <1>7, <2>2, Raises, OwnRaised
  <2>3. QED BY <2>1, <2>2
<1>8. CASE Returning
  <2>1. CASE FirstUse(next)
    <3>1. PICK codecs : /\ Return(codecs)
                        /\ \/ codecs = SelectedCodec(bare, info)
                           \/ codecs = {} /\ Questionable[bare]
      BY <1>8, <2>1, ReturnServes
    <3>2. CASE codecs # {}
      BY <1>3, <3>1, <3>2 DEF Return
    <3>3. CASE codecs = {}
      <4>1. Raise("SchemaError")
        BY <3>1, <3>3 DEF Return
      <4>2. Hopeless(bare, info)
        BY <3>1, <3>3 DEF Hopeless
      <4>3. Hopeless(Field.annotation, Stated(next))
        BY <1>8, <2>1, <4>2, ReturnServes DEF Serves
      <4>4. QED BY <1>1, <1>2, <4>1, <4>3, OwnRaised
    <3>4. QED BY <3>2, <3>3
  <2>2. CASE ~FirstUse(next)
    <3>1. PICK codecs : Return(codecs)
      BY <1>8, Returns
    <3>2. CASE codecs # {}
      BY <1>3, <3>1, <3>2 DEF Return
    <3>3. CASE codecs = {}
      BY <1>1, <1>2, <2>2, <3>1, <3>3, OwnRaised DEF Return
    <3>4. QED BY <3>2, <3>3
  <2>3. QED BY <2>1, <2>2
<1>9. CASE AddField
  <2>1. calls = << >>
    BY <1>9 DEF AddField
  <2>2. PICK given : given = infos[Field.info].codec
    OBVIOUS
  <2>3. PICK r \in returned :
          outcomes' = Append(outcomes,
            [raised |-> "nothing", optional |-> r.optional,
             codec |-> IF given # {} THEN given ELSE {r.codec}])
    BY <1>9, <2>2 DEF AddField
  <2>4. PICK x : x = [raised |-> "nothing", optional |-> r.optional,
                      codec |-> IF given # {} THEN given ELSE {r.codec}]
    OBVIOUS
  <2>5. /\ x.raised = "nothing" /\ x.optional = r.optional
        /\ x.codec = IF given # {} THEN given ELSE {r.codec}
    BY <2>4
  <2>6. ASSUME FirstUse(next)
        PROVE  x.codec = Wanted(1) /\ (r.optional => MayBeNone(Origin(1)))
    <3>1. Len(calls) + 1 = 1
      BY <2>1
    <3>2. /\ {r.codec} = Wanted(1) /\ (r.optional => MayBeNone(Origin(1)))
          /\ given \in {{}, Wanted(1)}
      BY <1>1, <2>1, <2>2, <2>6, <3>1 DEF ReturnedInv
    <3>3. QED BY <2>5, <3>2
  <2>7. /\ Wanted(1) = SelectedCodec(FieldOf(next).annotation, Stated(next))
        /\ Origin(1) = FieldOf(next).annotation
    BY DEF Wanted, Origin, Field, FieldOf
  <2>8. OutcomeOwn(next, x)
    BY <2>5, <2>6, <2>7 DEF OutcomeOwn
  <2>9. outcomes' = Append(outcomes, x)
    BY <2>3, <2>4
  <2>10. QED BY <1>1, <1>2, <2>8, <2>9, OwnAppended
<1>10. QED BY <1>4, <1>5, <1>6, <1>7, <1>8, <1>9, Kinds

LEMMA InitOwn == ASSUME Init PROVE InsideInv /\ OwnInv
<1>1. infos = program.infos /\ next = 1 /\ calls = << >> /\ returned = {} /\ outcomes = << >>
  BY DEF Init
<1>2. Len(calls) = 0 /\ DOMAIN outcomes = {}
  BY <1>1
<1>3. InsideInv /\ WaitInv /\ ServeInv
  BY <1>2 DEF InsideInv, WaitInv, ServeInv
<1>4. UnusedInv /\ ReturnedInv
  BY <1>1 DEF UnusedInv, ReturnedInv
<1>5. OwnSettings
  BY <1>2 DEF OwnSettings
<1>6. QED BY <1>3, <1>4, <1>5 DEF OwnInv

LEMMA OwnInductive ==
  ASSUME AnnotationsBuilt, TypeInv, InsideInv, OwnInv, [Next]_vars
  PROVE  InsideInv' /\ OwnInv'
<1>1. InsideInv'
  BY InsideStep
<1>2. UnusedInv'
  BY UnusedStep DEF OwnInv
<1>3. WaitInv'
  BY WaitStep DEF OwnInv
<1>4. ServeInv' /\ ReturnedInv' /\ OwnSettings'
  BY ServeStep, ReturnedStep, OwnStep
<1>5. QED BY <1>1, <1>2, <1>3, <1>4 DEF OwnInv

\* Whatever was declared before, and whichever way resolve and the factories
\* take through an annotation, a field with a FieldInfo of its own gets the
\* codec that field(), the CodecSpecs around the type and the type ask for.
THEOREM OwnSettingsCorrect ==
  ASSUME AnnotationsBuilt
  PROVE  Spec => []OwnSettings
<1>1. Init => InsideInv /\ OwnInv
  BY InitOwn
<1>2. TypeInv /\ TypeInv' /\ (InsideInv /\ OwnInv) /\ [Next]_vars => (InsideInv /\ OwnInv)'
  <2>1. SUFFICES ASSUME TypeInv, InsideInv, OwnInv, [Next]_vars
                 PROVE  InsideInv' /\ OwnInv'
    OBVIOUS
  <2>2. QED BY <2>1, OwnInductive
<1>3. InsideInv /\ OwnInv => OwnSettings
  BY DEF OwnInv
<1>4. QED BY <1>1, <1>2, <1>3, TypeInductive, PTL DEF Spec
=============================================================================
