------------------------- MODULE DeclarationProofs -------------------------
(***************************************************************************)
(* Whatever the program and however its threads interleave, a declared     *)
(* class has a schema, a header and codecs that agree.                     *)
(***************************************************************************)
EXTENDS Declaration, FiniteSetTheorems, FunctionTheorems, SequenceTheorems,
        TLAPS

-----------------------------------------------------------------------------
(* The parts of a program, and sorting.                                    *)

LEMMA ProgramParts ==
  ASSUME program \in Program, NEW c \in Classes
  PROVE  /\ def(c) \in ClassDef
         /\ Body(c) \in Seq(Annotation)
         /\ Len(Body(c)) \in Nat /\ DOMAIN Body(c) = 1..Len(Body(c))
         /\ \A n \in DOMAIN Body(c) : Body(c)[n] \in Annotation
         /\ BaseSet(c) \subseteq Classes
         /\ FirstBase(c) = ProtoModel \/ FirstBase(c) \in BaseSet(c)
         /\ Configures(c) \subseteq Classes
<1>1. def(c) \in ClassDef
  BY DEF def, Program
<1>2. Body(c) \in Seq(Annotation)
  BY <1>1 DEF ClassDef, Body
<1>3. def(c).bases \in Seq(Classes) /\ def(c).mro \in Seq(Classes)
  BY <1>1 DEF ClassDef
<1>4. BaseSet(c) \subseteq Classes
  BY <1>3, ElementOfSeq, LenProperties DEF BaseSet
<1>5. FirstBase(c) = ProtoModel \/ FirstBase(c) \in BaseSet(c)
  <2>1. def(c).bases # << >> => 1 \in DOMAIN def(c).bases
    BY <1>3
  <2> QED
    BY <2>1 DEF FirstBase, BaseSet
<1>6. Configures(c) \subseteq Classes
  <2>1. \A i \in DOMAIN def(c).mro : def(c).mro[i] \in Classes
    BY <1>3, ElementOfSeq, LenProperties
  <2> QED
    BY <2>1 DEF Configures
<1> QED
  BY <1>1, <1>2, <1>4, <1>5, <1>6, LenProperties, ElementOfSeq

\* n fields with n indexes from 0 to n - 1: each index belongs to one field.
LEMMA ContiguousIndexes ==
  ASSUME NEW fs \in Seq(Field), Contiguous(IndexesOf(fs), Len(fs))
  PROVE  /\ \A i, j \in DOMAIN fs : fs[i].index = fs[j].index => i = j
         /\ \A p \in DOMAIN fs : \E i \in DOMAIN fs : fs[i].index = p - 1
         /\ \A i \in DOMAIN fs : fs[i].index + 1 \in DOMAIN fs
<1> DEFINE n == Len(fs)
           D == 1..n
           I == IndexesOf(fs)
           f == [i \in D |-> fs[i].index]
<1>1. n \in Nat /\ D = DOMAIN fs
  BY LenProperties
<1>2. I = {f[i] : i \in D}
  BY <1>1 DEF IndexesOf
<1>3. IsFiniteSet(D) /\ Cardinality(D) = n
  BY <1>1, FS_Interval
<1>4. /\ Cardinality(I) = n
      /\ \A i \in I : 0 <= i /\ i <= n - 1
  BY DEF Contiguous
<1>5. f \in Surjection(D, I)
  <2>1. f \in [D -> I] /\ \A x \in I : \E i \in D : f[i] = x
    BY <1>2
  <2> HIDE DEF f, I, D
  <2> QED
    BY <2>1, Fun_IsSurj, Zenon
<1>6. f \in Injection(D, I)
  <2> HIDE DEF f, I, D
  <2> QED
    BY <1>3, <1>4, <1>5, FS_Surjection
<1>7. I = 0..(n - 1)
  <2>1. \A i \in D : f[i] \in Nat
    <3>1. \A i \in D : fs[i] \in Field
      BY <1>1, ElementOfSeq
    <3> QED
      BY <3>1 DEF Field
  <2> HIDE DEF I, f, D, n
  <2>2. I \in SUBSET (0..(n - 1))
    <3>1. I \subseteq Nat
      BY <1>2, <2>1
    <3> QED
      BY <1>1, <1>4, <3>1
  <2>3. IsFiniteSet(0..(n - 1)) /\ Cardinality(0..(n - 1)) = n
    <3>1. n - 1 \in Int /\ (0 > n - 1 => n = 0) /\ (n - 1) - 0 + 1 = n
      BY <1>1
    <3> QED
      BY <3>1, FS_Interval
  <2> QED
    BY <1>4, <2>2, <2>3, FS_Subset
<1>8. \A i, j \in D : f[i] = f[j] => i = j
  BY <1>6 DEF Injection, IsInjective
<1>9. \A i \in D : fs[i].index \in 0..(n - 1)
  BY <1>2, <1>7
<1>10. \A p \in D : p - 1 \in I
  BY <1>1, <1>7
<1>11. \A i \in D : f[i] = fs[i].index
  OBVIOUS
<1>12. \A p \in D : \E i \in D : fs[i].index = p - 1
  <2> HIDE DEF D, n, f, I
  <2> QED
    BY <1>2, <1>10, <1>11
<1>13. \A i \in D : fs[i].index + 1 \in D
  BY <1>1, <1>9
<1> HIDE DEF D, n, f, I
<1> QED
  BY <1>1, <1>8, <1>11, <1>12, <1>13

\* Sorting a contiguous schema permutes its fields.
LEMMA SortedFields ==
  ASSUME NEW fs \in Seq(Field), Contiguous(IndexesOf(fs), Len(fs))
  PROVE  /\ Sorted(fs) \in Seq(Field) /\ DOMAIN Sorted(fs) = DOMAIN fs
         /\ \A p \in DOMAIN fs : \E i \in DOMAIN fs :
              Sorted(fs)[p] = fs[i] /\ fs[i].index = p - 1
         /\ \A i \in DOMAIN fs : \E p \in DOMAIN fs : Sorted(fs)[p] = fs[i]
<1> DEFINE pick(p) == CHOOSE i \in DOMAIN fs : fs[i].index = p - 1
<1>1. Sorted(fs) = [p \in DOMAIN fs |-> fs[pick(p)]]
  BY DEF Sorted
<1>2. \A p \in DOMAIN fs : pick(p) \in DOMAIN fs /\ fs[pick(p)].index = p - 1
  BY ContiguousIndexes
<1> HIDE DEF pick
<1>3. ASSUME NEW i \in DOMAIN fs
      PROVE  \E p \in DOMAIN fs : Sorted(fs)[p] = fs[i]
  <2>1. fs[i].index + 1 \in DOMAIN fs
    BY ContiguousIndexes
  <2>2. fs[i].index \in Nat
    <3>1. fs[i] \in Field
      BY ElementOfSeq, LenProperties
    <3> QED
      BY <3>1 DEF Field
  <2>3. pick(fs[i].index + 1) = i
    <3>1. /\ pick(fs[i].index + 1) \in DOMAIN fs
          /\ fs[pick(fs[i].index + 1)].index = (fs[i].index + 1) - 1
      BY <1>2, <2>1
    <3>2. fs[pick(fs[i].index + 1)].index = fs[i].index
      BY <2>2, <3>1
    <3> QED
      BY <3>1, <3>2, ContiguousIndexes
  <2> QED
    BY <1>1, <2>1, <2>3
<1>4. Sorted(fs) \in Seq(Field)
  <2>1. DOMAIN fs = 1..Len(fs) /\ Len(fs) \in Nat
    BY LenProperties
  <2>2. \A p \in DOMAIN fs : fs[pick(p)] \in Field
    BY <1>2, <2>1, ElementOfSeq
  <2> QED
    BY <1>1, <2>1, <2>2
<1> QED
  BY <1>1, <1>2, <1>3, <1>4

-----------------------------------------------------------------------------
(* Types, and where a declaration stands in its body.                      *)

PosInv ==
  \A c \in Classes : at[c] \in {"nested", "resolved"} =>
    pos[c] \in DOMAIN Body(c) /\ Here(c).serialised

TypeInv == program \in Program /\ TypeOK /\ PosInv

LEMMA HereType ==
  ASSUME TypeInv, NEW c \in Classes, pos[c] \in DOMAIN Body(c)
  PROVE  /\ Here(c) \in Annotation
         /\ Here(c).info \in Infos /\ Here(c).type \in Types
         /\ Here(c).spec \in Option(Codecs)
         /\ infoCodec[Here(c).info] \in Option(Codecs \cup {Invalid})
<1>1. Here(c) \in Annotation
  BY ProgramParts DEF TypeInv, Here
<1> QED
  BY <1>1 DEF Annotation, TypeInv, TypeOK

LEMMA MoreBodyPos ==
  ASSUME TypeInv, NEW c \in Classes, MoreBody(c)
  PROVE  pos[c] \in DOMAIN Body(c)
BY ProgramParts DEF MoreBody, TypeInv, TypeOK

\* The table looked up is that of a class, or of ProtoModel.
LEMMA LookupType ==
  ASSUME TypeInv, NEW c \in Classes, pos[c] \in DOMAIN Body(c)
  PROVE  Lookup(Here(c).type) \in Rules
BY HereType DEF Lookup, TypeInv, TypeOK

LEMMA NewTableType ==
  ASSUME TypeInv, NEW c \in Classes
  PROVE  NewTable(c) \in [Types -> Rules]
<1>1. FirstBase(c) \in Models /\ Configures(c) \subseteq Classes
  BY ProgramParts DEF TypeInv, Models
<1>2. \A ty \in Types : table[FirstBase(c)][ty] \in Rules
  BY <1>1 DEF TypeInv, TypeOK
<1>3. ASSUME NEW ty \in Types, \E o \in Configures(c) : ty \in def(o).rules
      PROVE  (CHOOSE o \in Configures(c) : TRUE) \in Rules
  BY <1>1, <1>3 DEF Rules
<1> QED
  BY <1>2, <1>3 DEF NewTable

\* The header chosen is the class's own, or that of its bases, or Default.
LEMMA HeaderChoice ==
  ASSUME TypeInv, NEW c \in Classes,
         def(c).header # {} \/ \A h, g \in CustomHeaders(c) : h = g,
         NEW new,
         new = CHOOSE h \in Headers :
                 IF def(c).header # {} THEN h \in def(c).header
                 ELSE IF CustomHeaders(c) # {} THEN h \in CustomHeaders(c)
                 ELSE h = Default
  PROVE  /\ new \in Headers
         /\ IF def(c).header # {} THEN new \in def(c).header
            ELSE IF CustomHeaders(c) # {} THEN new \in CustomHeaders(c)
            ELSE new = Default
<1>1. def(c).header \subseteq Headers
  BY ProgramParts DEF TypeInv, ClassDef, Option
<1>2. CustomHeaders(c) \subseteq Headers
  <2>1. BaseSet(c) \subseteq Models
    BY ProgramParts DEF TypeInv, Models
  <2> QED
    BY <2>1 DEF CustomHeaders, TypeInv, TypeOK
<1>3. \E h \in Headers :
        IF def(c).header # {} THEN h \in def(c).header
        ELSE IF CustomHeaders(c) # {} THEN h \in CustomHeaders(c)
        ELSE h = Default
  BY <1>1, <1>2, DeclarationAssumption DEF DeclarationAssumption
<1> QED
  BY <1>3

\* What AddField collects for a field that is not refused.
LEMMA NewField ==
  ASSUME TypeInv, NEW c \in Classes, AddField(c)
  PROVE  \E f \in Field :
           /\ fields' = [fields EXCEPT ![c] = Append(@, f)]
           /\ f.name = pos[c] /\ f.flag = Here(c).flag
           /\ f.flag \cap FlagsOf(fields[c]) = {}
           /\ f.codec \in CodecHere(c)
           /\ \A i \in Here(c).index : f.index = i
           /\ Here(c).index = {} =>
                /\ f.index \notin IndexesOf(fields[c])
                /\ \A j \in 0..(f.index - 1) : j \in IndexesOf(fields[c])
<1>1. PICK i \in Here(c).index \cup 0..Len(fields[c]), k \in CodecHere(c) :
        /\ IsIndex(c, i)
        /\ fields' = [fields EXCEPT ![c] = Append(@,
             [name |-> pos[c], index |-> i, flag |-> Here(c).flag,
              codec |-> k])]
  BY DEF AddField
<1> DEFINE f == [name |-> pos[c], index |-> i, flag |-> Here(c).flag,
                 codec |-> k]
<1>2. /\ at[c] = "resolved" /\ pos[c] \in DOMAIN Body(c)
      /\ ~FieldRefused(c)
  BY DEF AddField, TypeInv, PosInv
<1>3. Here(c) \in Annotation
  BY <1>2, HereType
<1>4. /\ Here(c).flag \in Option(Int) /\ Here(c).index \in Option(Int)
      /\ Here(c).flag \subseteq 0..63
      /\ Here(c).flag \cap FlagsOf(fields[c]) = {}
      /\ \A j \in Here(c).index : j >= 0
      /\ Invalid \notin CodecHere(c)
  BY <1>2, <1>3 DEF FieldRefused, Annotation, Option
<1>5. Here(c).flag \in Option(0..63)
  BY <1>4 DEF Option
<1>6. i \in Nat
  BY <1>4 DEF Option
<1>7. k \in Codecs \cup Rules
  <2>1. CodecHere(c) \subseteq Codecs \cup Rules \cup {Invalid}
    <3>1. infoCodec[Here(c).info] \subseteq Codecs \cup {Invalid}
      BY <1>2, HereType DEF Option
    <3>2. held[c] \subseteq Codecs \cup Rules \cup {Invalid}
      BY DEF TypeInv, TypeOK, Option
    <3> QED
      BY <3>1, <3>2 DEF CodecHere
  <2> QED
    BY <1>4, <2>1
<1>8. f \in Field
  BY <1>5, <1>6, <1>7 DEF Field, TypeInv, TypeOK
<1>9. /\ \A j \in Here(c).index : i = j
      /\ Here(c).index = {} =>
           /\ i \notin IndexesOf(fields[c])
           /\ \A j \in 0..(i - 1) : j \in IndexesOf(fields[c])
  BY <1>1, <1>4 DEF IsIndex, Option
<1>10. /\ f.name = pos[c] /\ f.index = i /\ f.flag = Here(c).flag
       /\ f.codec = k /\ fields' = [fields EXCEPT ![c] = Append(@, f)]
  BY <1>1
<1> HIDE DEF f
<1> QED
  BY <1>1, <1>4, <1>8, <1>9, <1>10

LEMMA EffectiveType ==
  ASSUME TypeInv, NEW c \in Classes, ~SchemaRefused(c)
  PROVE  Effective(c) \in Seq(Field)
<1>1. fields[c] \in Seq(Field) /\ schema[FirstBase(c)] \in Seq(Field)
  BY ProgramParts DEF TypeInv, TypeOK, Models
<1> QED
  BY <1>1, SortedFields DEF Effective, SchemaRefused

\* The places a declaration can be at.
Places == {"undeclared", "configure", "header", "fields", "nested", "resolved",
           "declared", "rejected"}

LEMMA StepTypes ==
  ASSUME TypeInv, NEW c \in Classes, Step(c)
  PROVE  program' = program /\ TypeOK'
<1> USE DEF TypeOK, Places, Done, text, locals, attributes, Goto
<1>0. TypeOK
  BY DEF TypeInv
<1>1. CASE Configure(c)
  <2>1. table' \in [Models -> [Types -> Rules]] /\ resolver' \in Models
    BY <1>0, <1>1, NewTableType DEF Configure, Models
  <2>2. since' \in [Classes -> SUBSET Classes]
    BY <1>0, <1>1 DEF Configure, SinceWith
  <2> QED
    BY <1>0, <1>1, <2>1, <2>2 DEF Configure
<1>2. CASE ChooseHeader(c)
  <2>1. PICK h : /\ header' = [header EXCEPT ![c] = h]
                 /\ h = CHOOSE g \in Headers :
                          IF def(c).header # {} THEN g \in def(c).header
                          ELSE IF CustomHeaders(c) # {} THEN g \in CustomHeaders(c)
                          ELSE g = Default
    BY <1>2 DEF ChooseHeader
  <2>2. h \in Headers
    BY <1>2, <2>1, HeaderChoice DEF ChooseHeader
  <2>3. header' \in [Models -> Headers]
    BY <1>0, <2>1, <2>2
  <2> QED
    BY <1>0, <1>2, <2>3 DEF ChooseHeader
<1>3. CASE \/ HeaderConflict(c) \/ AnnotationsRaise(c) \/ BothDefaults(c)
           \/ UnknownType(c) \/ NestedRaises(c) \/ RefuseField(c)
           \/ RefuseSchema(c)
  <2>1. Reject(c)
    BY <1>3 DEF HeaderConflict, AnnotationsRaise, BothDefaults, UnknownType,
       NestedRaises, RefuseField, RefuseSchema
  <2> QED
    BY <1>0, <2>1 DEF Reject
<1>4. CASE SkipValue(c)
  <2>1. pos' \in [Classes -> Nat \ {0}]
    <3>1. pos[c] + 1 \in Nat \ {0}
      BY <1>0
    <3> QED
      BY <1>0, <1>4, <3>1 DEF SkipValue
  <2> QED
    BY <1>0, <1>4, <2>1 DEF SkipValue
<1>5. CASE NestedReturns(c)
  BY <1>0, <1>5 DEF NestedReturns
<1>6. CASE ResolveGiven(c)
  <2> DEFINE i == Here(c).info
             given == IF infoCodec[i] # {} THEN infoCodec[i] ELSE Here(c).spec
  <2>1. i \in Infos /\ given \in Option(Codecs \cup {Invalid})
    BY <1>6, MoreBodyPos, HereType DEF ResolveGiven, Resolving, Option
  <2>2. given \in Option(Codecs \cup Rules \cup {Invalid})
    BY <2>1 DEF Option
  <2>3. /\ infoCodec' = [infoCodec EXCEPT ![i] = given]
        /\ held' = [held EXCEPT ![c] = given]
    BY <1>6 DEF ResolveGiven
  <2> HIDE DEF given, i
  <2>4. /\ infoCodec' \in [Infos -> Option(Codecs \cup {Invalid})]
        /\ held' \in [Classes -> Option(Codecs \cup Rules \cup {Invalid})]
    BY <1>0, <2>1, <2>2, <2>3
  <2> QED
    BY <1>0, <1>6, <2>4 DEF ResolveGiven
<1>7. CASE ResolveByTable(c)
  <2>1. {Lookup(Here(c).type)} \in Option(Codecs \cup Rules \cup {Invalid})
    BY <1>7, MoreBodyPos, LookupType DEF ResolveByTable, Resolving, Option
  <2>2. held' \in [Classes -> Option(Codecs \cup Rules \cup {Invalid})]
    BY <1>0, <1>7, <2>1 DEF ResolveByTable
  <2>3. at' \in [Classes -> Places]
    BY <1>0, <1>7 DEF ResolveByTable
  <2> QED
    BY <1>0, <1>7, <2>2, <2>3 DEF ResolveByTable
<1>8. CASE AddField(c)
  <2>1. PICK f \in Field : fields' = [fields EXCEPT ![c] = Append(@, f)]
    BY <1>8, NewField
  <2>2. Append(fields[c], f) \in Seq(Field)
    BY <1>0, AppendProperties
  <2>3. fields' \in [Classes -> Seq(Field)]
    BY <1>0, <2>1, <2>2
  <2>4. pos' \in [Classes -> Nat \ {0}]
    <3>1. pos[c] + 1 \in Nat \ {0}
      BY <1>0
    <3> QED
      BY <1>0, <1>8, <3>1 DEF AddField
  <2> QED
    BY <1>0, <1>8, <2>3, <2>4 DEF AddField
<1>9. CASE SetSchema(c)
  <2>1. schema' \in [Models -> Seq(Field)]
    BY <1>0, <1>9, EffectiveType DEF SetSchema, Models
  <2> QED
    BY <1>0, <1>9, <2>1 DEF SetSchema
<1> QED
  BY <1>1, <1>2, <1>3, <1>4, <1>5, <1>6, <1>7, <1>8, <1>9 DEF Step

\* A declaration's step leaves the others where they are, except that a codec
\* factory may start one; their locals and attributes it never touches.
LEMMA OthersStay ==
  ASSUME TypeInv, NEW c \in Classes, Step(c), NEW d \in Classes \ {c}
  PROVE  /\ at'[d] = at[d] \/ (/\ at[d] = "undeclared" /\ at'[d] = "configure"
                               /\ BaseSet(d) = {})
         /\ pos'[d] = pos[d] /\ fields'[d] = fields[d] /\ held'[d] = held[d]
         /\ table'[d] = table[d] /\ header'[d] = header[d]
         /\ schema'[d] = schema[d]
<1> USE DEF text, locals, attributes, Goto
<1>0. TypeOK /\ d \in Models
  BY DEF TypeInv, Models
<1>1. CASE ResolveByTable(c)
  BY <1>0, <1>1 DEF ResolveByTable, TypeOK
<1>2. CASE \/ HeaderConflict(c) \/ AnnotationsRaise(c) \/ BothDefaults(c)
           \/ UnknownType(c) \/ NestedRaises(c) \/ RefuseField(c)
           \/ RefuseSchema(c)
  BY <1>0, <1>2 DEF HeaderConflict, AnnotationsRaise, BothDefaults, UnknownType,
     NestedRaises, RefuseField, RefuseSchema, Reject, TypeOK
<1>3. CASE Configure(c) \/ ChooseHeader(c)
  BY <1>0, <1>3 DEF Configure, ChooseHeader, TypeOK
<1>4. CASE SkipValue(c) \/ ResolveGiven(c) \/ NestedReturns(c)
  BY <1>0, <1>4 DEF SkipValue, ResolveGiven, NestedReturns, TypeOK
<1>5. CASE AddField(c)
  <2>1. PICK f : fields' = [fields EXCEPT ![c] = Append(@, f)]
    BY <1>5, NewField
  <2> QED
    BY <1>0, <1>5, <2>1 DEF AddField, TypeOK
<1>6. CASE SetSchema(c)
  BY <1>0, <1>6 DEF SetSchema, TypeOK
<1> QED
  BY <1>1, <1>2, <1>3, <1>4, <1>5, <1>6 DEF Step

Active == {"configure", "header", "fields", "nested", "resolved"}

\* Where a declaration's own step can lead.
LEMMA OwnStep ==
  ASSUME TypeInv, NEW c \in Classes, Step(c)
  PROVE  /\ at[c] \in Active
         /\ at'[c] \in {"nested", "resolved"} =>
              /\ pos'[c] = pos[c] /\ pos[c] \in DOMAIN Body(c)
              /\ Here(c).serialised
         /\ \/ ChooseHeader(c)
            \/ /\ header' = header
               /\ at'[c] \in {"fields", "nested", "resolved", "declared"} =>
                    at[c] \in {"fields", "nested", "resolved"}
<1> USE DEF Active, Done, text, locals, attributes, Goto
<1>0. TypeOK
  BY DEF TypeInv
<1>1. CASE \/ HeaderConflict(c) \/ AnnotationsRaise(c) \/ BothDefaults(c)
           \/ UnknownType(c) \/ NestedRaises(c) \/ RefuseField(c)
           \/ RefuseSchema(c)
  <2>1. Reject(c)
    BY <1>1 DEF HeaderConflict, AnnotationsRaise, BothDefaults, UnknownType,
       NestedRaises, RefuseField, RefuseSchema
  <2>2. at'[c] = "rejected" /\ header' = header
    BY <1>0, <2>1 DEF Reject, TypeOK
  <2>3. at[c] \in Active
    BY <1>1 DEF HeaderConflict, AnnotationsRaise, BothDefaults, UnknownType,
       NestedRaises, RefuseField, RefuseSchema, MoreBody, InBody, Resolving,
       EndOfBody
  <2> QED
    BY <2>2, <2>3
<1>2. CASE Configure(c)
  BY <1>0, <1>2 DEF Configure, TypeOK
<1>3. CASE ChooseHeader(c)
  BY <1>0, <1>3 DEF ChooseHeader, TypeOK
<1>4. CASE SkipValue(c)
  BY <1>0, <1>4 DEF SkipValue, MoreBody, InBody, TypeOK
<1>5. CASE ResolveGiven(c)
  <2>1. pos[c] \in DOMAIN Body(c)
    BY <1>5, MoreBodyPos DEF ResolveGiven, Resolving
  <2> QED
    BY <1>0, <1>5, <2>1 DEF ResolveGiven, Resolving, MoreBody, InBody, TypeOK
<1>6. CASE ResolveByTable(c)
  <2>1. pos[c] \in DOMAIN Body(c)
    BY <1>6, MoreBodyPos DEF ResolveByTable, Resolving
  <2> QED
    BY <1>0, <1>6, <2>1 DEF ResolveByTable, Resolving, MoreBody, InBody, TypeOK
<1>7. CASE NestedReturns(c)
  BY <1>0, <1>7 DEF NestedReturns, TypeInv, PosInv, TypeOK
<1>8. CASE AddField(c)
  BY <1>0, <1>8 DEF AddField, TypeOK
<1>9. CASE SetSchema(c)
  BY <1>0, <1>9 DEF SetSchema, EndOfBody, InBody, TypeOK
<1> QED
  BY <1>1, <1>2, <1>3, <1>4, <1>5, <1>6, <1>7, <1>8, <1>9 DEF Step

\* A thread starts a class statement when its bases are done; it changes
\* nothing else.
LEMMA ThreadStep ==
  ASSUME TypeInv, NEW t \in Threads, Start(t) \/ Advance(t)
  PROVE  /\ UNCHANGED <<text, locals, attributes>> /\ TypeOK'
         /\ \A c \in Classes :
              \/ at'[c] = at[c]
              \/ /\ at[c] = "undeclared" /\ c = program.agenda[t][turn[t]]
                 /\ at'[c] \in {"configure", "rejected"}
                 /\ at'[c] = "configure" =>
                      \A b \in BaseSet(c) : at[b] = "declared"
<1>0. TypeOK
  BY DEF TypeInv
<1>1. CASE Start(t)
  BY <1>0, <1>1 DEF Start, Goto, TypeOK, text, locals, attributes, Done
<1>2. CASE Advance(t)
  <2>1. turn' \in [Threads -> Nat \ {0}]
    <3>1. turn[t] + 1 \in Nat \ {0}
      BY <1>0 DEF TypeOK
    <3> QED
      BY <1>0, <1>2, <3>1 DEF Advance, TypeOK
  <2> QED
    BY <1>0, <1>2, <2>1 DEF Advance, TypeOK, text, locals, attributes
<1> QED
  BY <1>1, <1>2

\* The values of the definitions that depend on the program alone.
LEMMA SameProgram ==
  ASSUME program' = program
  PROVE  /\ \A c : /\ def(c)' = def(c) /\ Body(c)' = Body(c)
                   /\ BaseSet(c)' = BaseSet(c) /\ FirstBase(c)' = FirstBase(c)
         /\ \A a : Unset(a)' = Unset(a)
         /\ (program \in Program)' = (program \in Program)
         /\ Alone' = Alone /\ SpecsAgree' = SpecsAgree
BY DEF def, Body, BaseSet, FirstBase, Unset, Alone, SpecsAgree

LEMMA TypeInvariant == Spec => []TypeInv
<1>1. Init => TypeInv
  <2> SUFFICES ASSUME Init PROVE TypeInv
    OBVIOUS
  <2>1. program \in Program
    BY DeclarationAssumption DEF Init, DeclarationAssumption
  <2>2. /\ << >> \in Seq(Field)
        /\ {} \in Option(Codecs \cup Rules \cup {Invalid})
    BY DEF Option
  <2>3. BaseTable \in [Types -> Rules] /\ Default \in Headers
    BY DeclarationAssumption DEF DeclarationAssumption, Rules
  <2>4. TypeOK
    <3>1. infoCodec \in [Infos -> Option(Codecs \cup {Invalid})]
      BY <2>1 DEF Init, Program
    <3>2. /\ fields \in [Classes -> Seq(Field)]
          /\ schema \in [Models -> Seq(Field)]
      BY <2>2, Zenon DEF Init
    <3>3. held \in [Classes -> Option(Codecs \cup Rules \cup {Invalid})]
      BY <2>2, Zenon DEF Init
    <3>4. table \in [Models -> [Types -> Rules]] /\ header \in [Models -> Headers]
      BY <2>3 DEF Init
    <3>5. /\ turn \in [Threads -> Nat \ {0}] /\ pos \in [Classes -> Nat \ {0}]
          /\ resolver \in Models /\ since \in [Classes -> SUBSET Classes]
          /\ at \in [Classes -> {"undeclared", "configure", "header", "fields",
                                "nested", "resolved"} \cup Done]
      BY DEF Init, Models
    <3> QED
      BY <3>1, <3>2, <3>3, <3>4, <3>5 DEF TypeOK
  <2> QED
    BY <2>1, <2>4 DEF TypeInv, PosInv, Init
<1>2. TypeInv /\ [Next]_vars => TypeInv'
  <2> SUFFICES ASSUME TypeInv, [Next]_vars PROVE TypeInv'
    OBVIOUS
  <2>1. ASSUME NEW t \in Threads, Start(t) \/ Advance(t) PROVE TypeInv'
    <3>1. UNCHANGED <<program, pos>> /\ TypeOK'
      BY <2>1, ThreadStep DEF text, locals
    <3>2. PosInv'
      BY <2>1, <3>1, ThreadStep, SameProgram DEF TypeInv, PosInv, Here
    <3> QED
      BY <3>1, <3>2 DEF TypeInv
  <2>2. ASSUME NEW c \in Classes, Step(c) PROVE TypeInv'
    <3>1. program' = program /\ TypeOK'
      BY <2>2, StepTypes
    <3>2. ASSUME NEW d \in Classes, at'[d] \in {"nested", "resolved"}
          PROVE  pos'[d] \in DOMAIN Body(d) /\ Body(d)[pos'[d]].serialised
      <4>1. CASE d = c
        BY <2>2, <3>2, <4>1, OwnStep DEF Here
      <4>2. CASE d # c
        BY <2>2, <3>2, <4>2, OthersStay DEF TypeInv, PosInv, Here
      <4> QED
        BY <4>1, <4>2
    <3>3. PosInv'
      BY <3>1, <3>2, SameProgram DEF PosInv, Here
    <3> QED
      BY <3>1, <3>3 DEF TypeInv
  <2>3. CASE UNCHANGED vars
    BY <2>3 DEF vars, TypeInv, TypeOK, PosInv, Here, Body, def
  <2> QED
    BY <2>1, <2>2, <2>3 DEF Next
<1> QED
  BY <1>1, <1>2, PTL DEF Spec

\* The locals of every declaration and the class attributes have their types.
THEOREM TypeCorrect == Spec => []TypeOK
<1>1. TypeInv => TypeOK
  BY DEF TypeInv
<1> QED
  BY <1>1, TypeInvariant, PTL

-----------------------------------------------------------------------------
(* A declared class keeps its format.                                      *)

LEMMA DeclaredStays ==
  ASSUME TypeInv, [Next]_vars, NEW c \in Classes, at[c] = "declared"
  PROVE  /\ at'[c] = "declared"
         /\ table'[c] = table[c] /\ header'[c] = header[c]
         /\ schema'[c] = schema[c] /\ fields'[c] = fields[c]
         /\ pos'[c] = pos[c]
<1>1. CASE \E t \in Threads : Start(t) \/ Advance(t)
  BY <1>1, ThreadStep DEF locals, attributes
<1>2. ASSUME NEW d \in Classes, Step(d)
      PROVE  /\ at'[c] = "declared"
             /\ table'[c] = table[c] /\ header'[c] = header[c]
             /\ schema'[c] = schema[c] /\ fields'[c] = fields[c]
             /\ pos'[c] = pos[c]
  <2>1. c # d
    BY <1>2, OwnStep DEF Active
  <2> QED
    BY <1>2, <2>1, OthersStay
<1>3. CASE UNCHANGED vars
  BY <1>3 DEF vars
<1> QED
  BY <1>1, <1>2, <1>3 DEF Next

\* Declaring a subclass, or failing to, does not change the parent's rules,
\* header or schema, and nothing else does (core.py:167-243).
THEOREM DeclaredFrozenCorrect == Spec => DeclaredFrozen
<1>1. TypeInv /\ [Next]_vars =>
        \A c \in Classes : at[c] = "declared" =>
          /\ table'[c] = table[c] /\ header'[c] = header[c]
          /\ schema'[c] = schema[c]
  BY DeclaredStays
<1> QED
  BY <1>1, TypeInvariant, PTL DEF Spec, DeclaredFrozen

-----------------------------------------------------------------------------
(* Headers.                                                                *)

\* The bases of a class under declaration are declared, and its header, once
\* chosen, agrees with theirs.
BasesInv ==
  \A c \in Classes : at[c] \in Active \cup {"declared"} =>
    \A b \in BaseSet(c) : at[b] = "declared"

HeaderInv ==
  \A c \in Classes :
    at[c] \in {"fields", "nested", "resolved", "declared"}
      /\ def(c).header = {} =>
        \A b \in BaseSet(c) : header[b] \in {Default, header[c]}

LEMMA BasesStep ==
  ASSUME TypeInv, BasesInv, [Next]_vars
  PROVE  BasesInv'
<1> SUFFICES ASSUME NEW c \in Classes, at'[c] \in Active \cup {"declared"},
                    program' = program, NEW b \in BaseSet(c)
             PROVE  at'[b] = "declared"
  <2>1. program' = program
    BY ThreadStep, StepTypes DEF Next, vars, text
  <2> QED
    BY <2>1, SameProgram DEF BasesInv
<1>1. b \in Classes
  BY ProgramParts DEF TypeInv
<1>2. at[b] = "declared"
  <2>1. CASE at[c] \in Active \cup {"declared"}
    BY <2>1 DEF BasesInv
  <2>2. CASE at[c] \notin Active \cup {"declared"}
    <3>1. ASSUME NEW t \in Threads, Start(t) \/ Advance(t)
          PROVE  at[b] = "declared"
      BY <2>2, <3>1, ThreadStep DEF Active
    <3>2. ASSUME NEW d \in Classes, Step(d) PROVE BaseSet(c) = {}
      <4>1. d # c
        BY <2>2, <3>2, OwnStep
      <4> QED
        BY <2>2, <3>2, <4>1, OthersStay
    <3>3. ~UNCHANGED vars
      BY <2>2 DEF vars
    <3> QED
      BY <3>1, <3>2, <3>3 DEF Next
  <2> QED
    BY <2>1, <2>2
<1> QED
  BY <1>1, <1>2, DeclaredStays

LEMMA HeaderStep ==
  ASSUME TypeInv, BasesInv, HeaderInv, [Next]_vars
  PROVE  HeaderInv'
<1> SUFFICES ASSUME NEW c \in Classes,
                    at'[c] \in {"fields", "nested", "resolved", "declared"},
                    program' = program, def(c).header = {},
                    NEW b \in BaseSet(c)
             PROVE  header'[b] \in {Default, header'[c]}
  <2>1. program' = program
    BY ThreadStep, StepTypes DEF Next, vars, text
  <2> QED
    BY <2>1, SameProgram DEF HeaderInv
<1>0. b \in Classes /\ TypeOK
  BY ProgramParts DEF TypeInv
<1>1. ASSUME NEW t \in Threads, Start(t) \/ Advance(t)
      PROVE  header'[b] \in {Default, header'[c]}
  BY <1>1, ThreadStep DEF attributes, HeaderInv
<1>2. CASE Step(c)
  <2>1. at[b] = "declared"
    BY <1>2, OwnStep DEF BasesInv
  <2>2. b # c
    BY <1>2, <2>1, OwnStep DEF Active
  <2>3. CASE ChooseHeader(c)
    <3>1. PICK h : /\ header' = [header EXCEPT ![c] = h]
                   /\ h = CHOOSE g \in Headers :
                            IF def(c).header # {} THEN g \in def(c).header
                            ELSE IF CustomHeaders(c) # {}
                            THEN g \in CustomHeaders(c) ELSE g = Default
      BY <2>3 DEF ChooseHeader
    <3>2. IF CustomHeaders(c) # {} THEN h \in CustomHeaders(c) ELSE h = Default
      BY <2>3, <3>1, HeaderChoice DEF ChooseHeader
    <3>3. header'[c] = h /\ header'[b] = header[b]
      BY <1>0, <2>2, <3>1 DEF TypeOK, Models
    <3>4. \A g, k \in CustomHeaders(c) : g = k
      BY <2>3 DEF ChooseHeader
    <3>5. header[b] # Default => header[b] \in CustomHeaders(c)
      BY DEF CustomHeaders
    <3> QED
      BY <3>2, <3>3, <3>4, <3>5
  <2>4. CASE ~ChooseHeader(c)
    BY <1>2, <2>4, OwnStep DEF HeaderInv
  <2> QED
    BY <2>3, <2>4
<1>3. ASSUME NEW d \in Classes \ {c}, Step(d)
      PROVE  header'[b] \in {Default, header'[c]}
  <2>1. /\ at[c] \in {"fields", "nested", "resolved", "declared"}
        /\ header'[c] = header[c]
    BY <1>3, OthersStay
  <2>2. at[b] = "declared"
    BY <2>1 DEF BasesInv, Active
  <2>3. header'[b] = header[b]
    BY <1>0, <2>2, DeclaredStays
  <2> QED
    BY <2>1, <2>3 DEF HeaderInv
<1>4. CASE UNCHANGED vars
  BY <1>4 DEF vars, HeaderInv
<1> QED
  BY <1>1, <1>2, <1>3, <1>4 DEF Next

LEMMA BasesInvariant == Spec => [](BasesInv /\ HeaderInv)
<1>1. Init => BasesInv /\ HeaderInv
  BY DEF Init, BasesInv, HeaderInv, Active
<1>2. TypeInv /\ BasesInv /\ HeaderInv /\ [Next]_vars => (BasesInv /\ HeaderInv)'
  BY BasesStep, HeaderStep
<1> QED
  BY <1>1, <1>2, TypeInvariant, PTL DEF Spec

\* A class without a header of its own has the custom header of each base that
\* has one: none is lost to DEFAULT_HEADER or to another base's, however the
\* declarations interleave (headers.py).
THEOREM HeaderAgreedCorrect == Spec => []HeaderAgreed
<1>1. HeaderInv => HeaderAgreed
  BY DEF HeaderInv, HeaderAgreed
<1> QED
  BY <1>1, BasesInvariant, PTL

-----------------------------------------------------------------------------
(* The fields collected from a body, of which the declaration has seen the *)
(* annotations before p.                                                   *)

Collected(body, fs, p) ==
  /\ \A i \in DOMAIN fs :
       /\ fs[i].name \in 1..(p - 1) /\ body[fs[i].name].serialised
       /\ \A k \in body[fs[i].name].index : fs[i].index = k
       /\ body[fs[i].name].index = {} =>
            /\ \A j \in 1..(i - 1) : fs[j].index # fs[i].index
            /\ \A k \in 0..(fs[i].index - 1) :
                 \E j \in 1..(i - 1) : fs[j].index = k
       /\ \A j \in 1..(i - 1) :
            fs[j].name # fs[i].name /\ fs[j].flag \cap fs[i].flag = {}
  /\ \A n \in 1..(p - 1) :
       n \in DOMAIN body /\ (body[n].serialised => \E i \in DOMAIN fs : fs[i].name = n)

LEMMA CollectedSkip ==
  ASSUME NEW body, NEW fs \in Seq(Field), NEW p \in Nat \ {0},
         Collected(body, fs, p), p \in DOMAIN body, ~body[p].serialised
  PROVE  Collected(body, fs, p + 1)
<1>1. /\ \A n \in 1..((p + 1) - 1) : n \in 1..(p - 1) \/ n = p
      /\ \A n \in 1..(p - 1) : n \in 1..((p + 1) - 1)
  OBVIOUS
<1> QED
  BY <1>1 DEF Collected

LEMMA CollectedAdd ==
  ASSUME NEW body, NEW fs \in Seq(Field), NEW p \in Nat \ {0}, NEW f \in Field,
         Collected(body, fs, p), p \in DOMAIN body, body[p].serialised,
         f.name = p, f.flag \cap FlagsOf(fs) = {},
         \A k \in body[p].index : f.index = k,
         body[p].index = {} =>
           /\ f.index \notin IndexesOf(fs)
           /\ \A j \in 0..(f.index - 1) : j \in IndexesOf(fs)
  PROVE  Collected(body, Append(fs, f), p + 1)
<1> DEFINE gs == Append(fs, f)
           n == Len(fs)
<1>1. /\ n \in Nat /\ DOMAIN fs = 1..n /\ DOMAIN gs = 1..(n + 1)
      /\ \A i \in 1..n : gs[i] = fs[i]
      /\ gs[n + 1] = f
  <2>1. n \in Nat /\ DOMAIN fs = 1..n
    BY LenProperties
  <2>2. gs \in Seq(Field) /\ Len(gs) = n + 1
    BY AppendProperties
  <2>3. DOMAIN gs = 1..(n + 1)
    BY <2>2, LenProperties
  <2> QED
    BY <2>1, <2>3, AppendProperties
<1>2. /\ \A m \in 1..((p + 1) - 1) : m \in 1..(p - 1) \/ m = p
      /\ \A m \in 1..(p - 1) : m \in 1..((p + 1) - 1)
      /\ p \in 1..((p + 1) - 1)
      /\ \A m \in 1..(p - 1) : m # p
  OBVIOUS
<1> HIDE DEF gs, n
<1>3. \A i \in DOMAIN gs : i \in 1..n \/ i = n + 1
  BY <1>1
<1>4. \A i \in 1..n : i \in DOMAIN gs /\ \A j \in 1..(i - 1) : j \in 1..n
  BY <1>1
<1>5. (n + 1) - 1 = n /\ n + 1 \in DOMAIN gs
  BY <1>1
<1>6. ASSUME NEW i \in 1..n
      PROVE  /\ gs[i].name \in 1..((p + 1) - 1) /\ body[gs[i].name].serialised
             /\ \A k \in body[gs[i].name].index : gs[i].index = k
             /\ body[gs[i].name].index = {} =>
                  /\ \A j \in 1..(i - 1) : gs[j].index # gs[i].index
                  /\ \A k \in 0..(gs[i].index - 1) :
                       \E j \in 1..(i - 1) : gs[j].index = k
             /\ \A j \in 1..(i - 1) :
                  gs[j].name # gs[i].name /\ gs[j].flag \cap gs[i].flag = {}
  <2>1. gs[i] = fs[i] /\ i \in DOMAIN fs
    BY <1>1
  <2>2. \A j \in 1..(i - 1) : gs[j] = fs[j]
    BY <1>1, <1>4
  <2>3. fs[i].name \in 1..((p + 1) - 1)
    BY <1>2, <2>1 DEF Collected
  <2>4. /\ body[fs[i].name].serialised
        /\ \A k \in body[fs[i].name].index : fs[i].index = k
        /\ \A j \in 1..(i - 1) :
             fs[j].name # fs[i].name /\ fs[j].flag \cap fs[i].flag = {}
    BY <2>1 DEF Collected
  <2>5. body[fs[i].name].index = {} =>
          /\ \A j \in 1..(i - 1) : fs[j].index # fs[i].index
          /\ \A k \in 0..(fs[i].index - 1) :
               \E j \in 1..(i - 1) : fs[j].index = k
    BY <2>1 DEF Collected
  <2>6. body[gs[i].name].index = {} =>
          /\ \A j \in 1..(i - 1) : gs[j].index # gs[i].index
          /\ \A k \in 0..(gs[i].index - 1) :
               \E j \in 1..(i - 1) : gs[j].index = k
    BY <2>1, <2>2, <2>5
  <2> QED
    BY <2>1, <2>2, <2>3, <2>4, <2>6
<1>7. /\ \A j \in 1..n : gs[j].flag \cap f.flag = {}
      /\ \A j \in 1..n : gs[j].name # f.name
  <2>1. \A j \in 1..n : fs[j].flag \subseteq FlagsOf(fs)
    BY <1>1 DEF FlagsOf
  <2> QED
    BY <1>1, <1>2, <2>1 DEF Collected
<1>8. IndexesOf(fs) = {gs[j].index : j \in 1..n}
  BY <1>1 DEF IndexesOf
<1>9. body[p].index = {} =>
        /\ \A j \in 1..n : gs[j].index # f.index
        /\ \A k \in 0..(f.index - 1) : \E j \in 1..n : gs[j].index = k
  BY <1>8
<1>10. \A i \in DOMAIN gs :
        /\ gs[i].name \in 1..((p + 1) - 1) /\ body[gs[i].name].serialised
        /\ \A k \in body[gs[i].name].index : gs[i].index = k
        /\ body[gs[i].name].index = {} =>
             /\ \A j \in 1..(i - 1) : gs[j].index # gs[i].index
             /\ \A k \in 0..(gs[i].index - 1) :
                  \E j \in 1..(i - 1) : gs[j].index = k
        /\ \A j \in 1..(i - 1) :
             gs[j].name # gs[i].name /\ gs[j].flag \cap gs[i].flag = {}
  <2> SUFFICES ASSUME NEW i \in DOMAIN gs, i = n + 1
      PROVE  /\ gs[i].name \in 1..((p + 1) - 1) /\ body[gs[i].name].serialised
             /\ \A k \in body[gs[i].name].index : gs[i].index = k
             /\ body[gs[i].name].index = {} =>
                  /\ \A j \in 1..(i - 1) : gs[j].index # gs[i].index
                  /\ \A k \in 0..(gs[i].index - 1) :
                       \E j \in 1..(i - 1) : gs[j].index = k
             /\ \A j \in 1..(i - 1) :
                  gs[j].name # gs[i].name /\ gs[j].flag \cap gs[i].flag = {}
    BY <1>3, <1>6
  <2>1. gs[i] = f /\ i - 1 = n
    BY <1>1, <1>5
  <2> QED
    BY <1>2, <1>7, <1>9, <2>1
<1>11. \A m \in 1..((p + 1) - 1) :
         m \in DOMAIN body /\
           (body[m].serialised => \E i \in DOMAIN gs : gs[i].name = m)
  <2>1. ASSUME NEW m \in 1..(p - 1), body[m].serialised
        PROVE  \E i \in DOMAIN gs : gs[i].name = m
    BY <1>1, <1>4, <2>1 DEF Collected
  <2>2. \E i \in DOMAIN gs : gs[i].name = p
    BY <1>1, <1>5
  <2>3. \A m \in 1..(p - 1) : m \in DOMAIN body
    BY DEF Collected
  <2> QED
    BY <1>2, <2>1, <2>2, <2>3
<1> QED
  BY <1>10, <1>11 DEF Collected, gs

FieldsInv == \A c \in Classes : Collected(Body(c), fields[c], pos[c])

LEMMA FieldsStep ==
  ASSUME TypeInv, FieldsInv, [Next]_vars
  PROVE  FieldsInv'
<1> SUFFICES ASSUME NEW c \in Classes
             PROVE  Collected(Body(c), fields'[c], pos'[c])
  <2>1. program' = program
    BY ThreadStep, StepTypes DEF Next, vars, text
  <2> QED
    BY <2>1, SameProgram DEF FieldsInv
<1>0. /\ TypeOK /\ Collected(Body(c), fields[c], pos[c])
      /\ fields[c] \in Seq(Field) /\ pos[c] \in Nat \ {0}
  BY DEF TypeInv, FieldsInv, TypeOK
<1>1. CASE fields'[c] = fields[c] /\ pos'[c] = pos[c]
  BY <1>0, <1>1
<1>2. CASE SkipValue(c)
  <2>1. pos'[c] = pos[c] + 1 /\ fields' = fields
    BY <1>0, <1>2 DEF SkipValue, TypeOK
  <2>2. pos[c] \in DOMAIN Body(c) /\ ~Body(c)[pos[c]].serialised
    BY <1>2, MoreBodyPos DEF SkipValue, Here
  <2> QED
    BY <1>0, <2>1, <2>2, CollectedSkip
<1>3. CASE AddField(c)
  <2>1. PICK f \in Field :
          /\ fields' = [fields EXCEPT ![c] = Append(@, f)]
          /\ f.name = pos[c] /\ f.flag = Here(c).flag
          /\ f.flag \cap FlagsOf(fields[c]) = {}
          /\ \A i \in Here(c).index : f.index = i
          /\ Here(c).index = {} =>
               /\ f.index \notin IndexesOf(fields[c])
               /\ \A j \in 0..(f.index - 1) : j \in IndexesOf(fields[c])
    BY <1>3, NewField
  <2>2. fields'[c] = Append(fields[c], f) /\ pos'[c] = pos[c] + 1
    BY <1>0, <1>3, <2>1 DEF AddField, TypeOK
  <2>3. pos[c] \in DOMAIN Body(c) /\ Body(c)[pos[c]].serialised
    BY <1>3 DEF AddField, TypeInv, PosInv, Here
  <2>4. /\ \A i \in Body(c)[pos[c]].index : f.index = i
        /\ Body(c)[pos[c]].index = {} =>
             /\ f.index \notin IndexesOf(fields[c])
             /\ \A j \in 0..(f.index - 1) : j \in IndexesOf(fields[c])
    BY <2>1 DEF Here
  <2>5. Collected(Body(c), Append(fields[c], f), pos[c] + 1)
    BY <1>0, <2>1, <2>3, <2>4, CollectedAdd
  <2> QED
    BY <2>2, <2>5
<1>4. ASSUME NEW t \in Threads, Start(t) \/ Advance(t)
      PROVE  fields'[c] = fields[c] /\ pos'[c] = pos[c]
  BY <1>4, ThreadStep DEF locals
<1>5. ASSUME NEW d \in Classes \ {c}, Step(d)
      PROVE  fields'[c] = fields[c] /\ pos'[c] = pos[c]
  BY <1>5, OthersStay
<1>6. ASSUME Step(c), ~SkipValue(c), ~AddField(c)
      PROVE  fields'[c] = fields[c] /\ pos'[c] = pos[c]
  BY <1>6 DEF Step, Configure, HeaderConflict, ChooseHeader, AnnotationsRaise,
     BothDefaults, ResolveGiven, UnknownType, ResolveByTable, NestedReturns,
     NestedRaises, RefuseField, RefuseSchema, SetSchema, Reject, locals
<1>7. UNCHANGED vars => fields'[c] = fields[c] /\ pos'[c] = pos[c]
  BY DEF vars
<1> QED
  BY <1>1, <1>2, <1>3, <1>4, <1>5, <1>6, <1>7 DEF Next

LEMMA FieldsInvariant == Spec => []FieldsInv
<1>1. Init => FieldsInv
  BY DEF Init, FieldsInv, Collected
<1> QED
  BY <1>1, FieldsStep, TypeInvariant, PTL DEF Spec

\* Fields left to automatic indexes are numbered in the order of their
\* annotations, whatever explicit indexes stand between them (core.py:128-133).
THEOREM AutomaticOrderCorrect == Spec => []AutomaticOrder
<1>1. TypeInv /\ FieldsInv => AutomaticOrder
  <2> SUFFICES ASSUME TypeInv, FieldsInv, NEW c \in Classes,
                      NEW i \in DOMAIN fields[c], NEW j \in DOMAIN fields[c],
                      i < j,
                      Body(c)[fields[c][i].name].index = {},
                      Body(c)[fields[c][j].name].index = {}
               PROVE  fields[c][i].index < fields[c][j].index
    BY DEF AutomaticOrder
  <2> DEFINE m == fields[c][i].index
             k == fields[c][j].index
  <2>1. fields[c] \in Seq(Field)
    BY DEF TypeInv, TypeOK
  <2>2. /\ DOMAIN fields[c] = 1..Len(fields[c]) /\ Len(fields[c]) \in Nat
        /\ m \in Nat /\ k \in Nat
    <3>1. fields[c][i] \in Field /\ fields[c][j] \in Field
      BY <2>1, ElementOfSeq, LenProperties
    <3> QED
      BY <2>1, <3>1, LenProperties DEF Field
  <2>3. /\ \A q \in 1..(j - 1) : fields[c][q].index # k
        /\ \A x \in 0..(m - 1) : \E q \in 1..(i - 1) : fields[c][q].index = x
    BY DEF FieldsInv, Collected
  <2>4. i \in 1..(j - 1) /\ \A q \in 1..(i - 1) : q \in 1..(j - 1)
    BY <2>2
  <2>5. k \notin 0..(m - 1) /\ k # m
    BY <2>3, <2>4
  <2> HIDE DEF m, k
  <2>6. m < k
    BY <2>2, <2>5
  <2> QED
    BY <2>6 DEF m, k
<1> QED
  BY <1>1, TypeInvariant, FieldsInvariant, PTL

-----------------------------------------------------------------------------
(* Schemas.                                                                *)

Ordered(s) ==
  /\ \A p \in DOMAIN s : s[p].index = p - 1
  /\ \A p, q \in DOMAIN s : s[p].name = s[q].name => p = q
  /\ \A p, q \in DOMAIN s : p # q => s[p].flag \cap s[q].flag = {}

LEMMA CollectedDistinct ==
  ASSUME NEW body, NEW fs \in Seq(Field), NEW p, Collected(body, fs, p),
         NEW i \in DOMAIN fs, NEW j \in DOMAIN fs, i # j
  PROVE  fs[i].name # fs[j].name /\ fs[i].flag \cap fs[j].flag = {}
<1>1. i \in 1..Len(fs) /\ j \in 1..Len(fs) /\ Len(fs) \in Nat
  BY LenProperties
<1>2. i \in 1..(j - 1) \/ j \in 1..(i - 1)
  BY <1>1
<1> QED
  BY <1>2 DEF Collected

LEMMA SortedOrdered ==
  ASSUME NEW body, NEW fs \in Seq(Field), NEW p, Collected(body, fs, p),
         Contiguous(IndexesOf(fs), Len(fs))
  PROVE  /\ Ordered(Sorted(fs))
         /\ FlagsOf(Sorted(fs)) \subseteq FlagsOf(fs)
<1> DEFINE s == Sorted(fs)
<1>1. /\ DOMAIN s = DOMAIN fs
      /\ \A q \in DOMAIN fs : \E i \in DOMAIN fs :
           s[q] = fs[i] /\ fs[i].index = q - 1
  BY SortedFields
<1>2. \A q \in DOMAIN fs : q \in Nat
  BY LenProperties
<1> HIDE DEF s
<1>3. ASSUME NEW q \in DOMAIN s, NEW r \in DOMAIN s, q # r
      PROVE  s[q].name # s[r].name /\ s[q].flag \cap s[r].flag = {}
  <2>1. PICK i \in DOMAIN fs : s[q] = fs[i] /\ fs[i].index = q - 1
    BY <1>1
  <2>2. PICK j \in DOMAIN fs : s[r] = fs[j] /\ fs[j].index = r - 1
    BY <1>1
  <2>3. i # j
    BY <1>1, <1>2, <1>3, <2>1, <2>2
  <2> QED
    BY <2>1, <2>2, <2>3, CollectedDistinct
<1>4. Ordered(s)
  BY <1>1, <1>3 DEF Ordered
<1>5. FlagsOf(s) \subseteq FlagsOf(fs)
  BY <1>1 DEF FlagsOf
<1> QED
  BY <1>4, <1>5 DEF s

\* A flag has a bit in the Flags element of a header.
Fits(h, s) == \A f \in FlagsOf(s) : \E b \in FlagBits[h] : f < b

SchemaInv ==
  /\ schema[ProtoModel] = << >>
  /\ \A c \in Classes : at[c] = "declared" =>
       /\ Ordered(schema[c]) /\ Fits(header[c], schema[c])
       /\ pos[c] > Len(Body(c))
       /\ fields[c] # << >> =>
            /\ Contiguous(IndexesOf(fields[c]), Len(fields[c]))
            /\ schema[c] = Sorted(fields[c])

LEMMA ProtoModelStays ==
  ASSUME TypeInv, [Next]_vars
  PROVE  schema'[ProtoModel] = schema[ProtoModel]
<1>1. \A c \in Classes : c # ProtoModel
  BY DeclarationAssumption DEF DeclarationAssumption
<1>2. ASSUME NEW t \in Threads, Start(t) \/ Advance(t)
      PROVE  schema'[ProtoModel] = schema[ProtoModel]
  BY <1>2, ThreadStep DEF attributes
<1>3. ASSUME NEW c \in Classes, Step(c), ~SetSchema(c)
      PROVE  schema'[ProtoModel] = schema[ProtoModel]
  BY <1>3 DEF Step, Configure, HeaderConflict, ChooseHeader, AnnotationsRaise,
     BothDefaults, ResolveGiven, UnknownType, ResolveByTable, NestedReturns,
     NestedRaises, RefuseField, RefuseSchema, SkipValue, AddField, Reject,
     attributes
<1>4. ASSUME NEW c \in Classes, SetSchema(c)
      PROVE  schema'[ProtoModel] = schema[ProtoModel]
  <2>1. schema' = [schema EXCEPT ![c] = Effective(c)]
    BY <1>4 DEF SetSchema
  <2> QED
    BY <1>1, <2>1 DEF TypeInv, TypeOK, Models
<1>5. UNCHANGED vars => schema' = schema
  BY DEF vars
<1> QED
  BY <1>2, <1>3, <1>4, <1>5 DEF Next

\* The schema set is in order, and its header has room for its flags, whether
\* it is sorted from the body or that of the first base.
LEMMA SetSchemaGood ==
  ASSUME TypeInv, BasesInv, FieldsInv, SchemaInv, NEW c \in Classes,
         SetSchema(c)
  PROVE  /\ schema'[c] = Effective(c)
         /\ Ordered(Effective(c)) /\ Fits(header[c], Effective(c))
         /\ pos[c] > Len(Body(c))
         /\ fields[c] # << >> =>
              /\ Contiguous(IndexesOf(fields[c]), Len(fields[c]))
              /\ Effective(c) = Sorted(fields[c])
<1>1. /\ at[c] = "fields" /\ pos[c] > Len(Body(c)) /\ ~SchemaRefused(c)
      /\ schema' = [schema EXCEPT ![c] = Effective(c)]
  BY DEF SetSchema, EndOfBody, InBody
<1>2. schema'[c] = Effective(c)
  BY <1>1 DEF TypeInv, TypeOK, Models
<1>3. fields[c] # << >> => Contiguous(IndexesOf(fields[c]), Len(fields[c]))
  BY <1>1 DEF SchemaRefused
<1>4. /\ Ordered(Effective(c)) /\ FlagsOf(Effective(c)) \subseteq EffectiveFlags(c)
      /\ fields[c] # << >> => Effective(c) = Sorted(fields[c])
  <2>1. CASE fields[c] # << >>
    BY <1>3, <2>1, SortedOrdered
       DEF Effective, EffectiveFlags, FieldsInv, TypeInv, TypeOK
  <2>2. CASE fields[c] = << >>
    <3>1. Effective(c) = schema[FirstBase(c)]
      BY <2>2 DEF Effective
    <3>2. Ordered(schema[FirstBase(c)])
      <4>1. CASE FirstBase(c) = ProtoModel
        BY <4>1 DEF SchemaInv, Ordered
      <4>2. CASE FirstBase(c) \in BaseSet(c)
        BY <1>1, <4>2, ProgramParts DEF BasesInv, Active, SchemaInv, TypeInv
      <4> QED
        BY <4>1, <4>2, ProgramParts DEF TypeInv
    <3> QED
      BY <2>2, <3>1, <3>2 DEF EffectiveFlags
  <2> QED
    BY <2>1, <2>2
<1>5. Fits(header[c], Effective(c))
  <2> SUFFICES ASSUME NEW f \in FlagsOf(Effective(c))
               PROVE  \E b \in FlagBits[header[c]] : f < b
    BY DEF Fits
  <2>1. f \in EffectiveFlags(c)
    BY <1>4
  <2>2. PICK b \in FlagBits[header[c]] : ~(f + 1 > b)
    BY <1>1, <2>1 DEF SchemaRefused
  <2>3. b \in Nat
    <3>1. header[c] \in Headers
      BY DEF TypeInv, TypeOK, Models
    <3>2. FlagBits[header[c]] \in Option(Nat)
      BY <3>1, DeclarationAssumption DEF DeclarationAssumption
    <3> QED
      BY <3>2 DEF Option
  <2>4. f \in Int
    <3>1. Effective(c) \in Seq(Field)
      BY <1>1, EffectiveType
    <3>2. \A p \in DOMAIN Effective(c) : Effective(c)[p] \in Field
      BY <3>1, ElementOfSeq, LenProperties
    <3> QED
      BY <3>2 DEF FlagsOf, Field, Option
  <2> QED
    BY <2>2, <2>3, <2>4
<1> QED
  BY <1>1, <1>2, <1>3, <1>4, <1>5

LEMMA SchemaStep ==
  ASSUME TypeInv, BasesInv, FieldsInv, SchemaInv, [Next]_vars
  PROVE  SchemaInv'
<1> DEFINE Good(c, s, h) ==
             /\ Ordered(s) /\ Fits(h, s)
             /\ pos[c] > Len(Body(c))
             /\ fields[c] # << >> =>
                  /\ Contiguous(IndexesOf(fields[c]), Len(fields[c]))
                  /\ s = Sorted(fields[c])
<1>0. program' = program
  BY ThreadStep, StepTypes DEF Next, vars, text
<1>1. ASSUME NEW c \in Classes, at'[c] = "declared"
      PROVE  /\ Good(c, schema'[c], header'[c])
             /\ fields'[c] = fields[c] /\ pos'[c] = pos[c]
  <2>1. CASE at[c] = "declared"
    BY <2>1, DeclaredStays DEF SchemaInv
  <2>2. CASE at[c] # "declared"
    <3>1. Step(c)
      <4>1. ASSUME NEW t \in Threads, Start(t) \/ Advance(t) PROVE FALSE
        BY <1>1, <2>2, <4>1, ThreadStep
      <4>2. ASSUME NEW d \in Classes \ {c}, Step(d) PROVE FALSE
        BY <1>1, <2>2, <4>2, OthersStay
      <4>3. ~UNCHANGED vars
        BY <1>1, <2>2 DEF vars
      <4> QED
        BY <4>1, <4>2, <4>3 DEF Next
    <3>2. SetSchema(c)
      <4>1. Reject(c) => FALSE
        BY <1>1 DEF Reject, Goto, TypeInv, TypeOK
      <4> QED
        BY <1>1, <2>2, <3>1, <4>1 DEF Step, Configure, HeaderConflict,
           ChooseHeader, AnnotationsRaise, BothDefaults, ResolveGiven,
           UnknownType, ResolveByTable, NestedReturns, NestedRaises,
           RefuseField, RefuseSchema, SkipValue, AddField, Goto,
           TypeInv, TypeOK
    <3>3. header' = header /\ fields' = fields /\ pos' = pos
      BY <3>2 DEF SetSchema, locals
    <3> QED
      BY <3>2, <3>3, SetSchemaGood
  <2> QED
    BY <2>1, <2>2
<1>2. schema'[ProtoModel] = << >>
  BY ProtoModelStays DEF SchemaInv
<1> QED
  BY <1>0, <1>1, <1>2, SameProgram DEF SchemaInv

LEMMA SchemaInvariant == Spec => []SchemaInv
<1>1. Init => SchemaInv
  BY DEF Init, SchemaInv, Models
<1> QED
  BY <1>1, SchemaStep, TypeInvariant, BasesInvariant, FieldsInvariant, PTL
     DEF Spec

\* In every declared class the field with index i stands at place i of the
\* schema, a field stands there once, the fields are those of the body or of
\* the first base, and an explicit index is honoured (core.py:128-136, 209-243).
THEOREM SchemaOrderCorrect == Spec => []SchemaOrder
<1>1. TypeInv /\ FieldsInv /\ SchemaInv => SchemaOrder
  <2> SUFFICES ASSUME TypeInv, FieldsInv, SchemaInv, NEW c \in Classes,
                      at[c] = "declared"
               PROVE  /\ \A p \in DOMAIN schema[c] : schema[c][p].index = p - 1
                      /\ \A p, q \in DOMAIN schema[c] :
                           schema[c][p].name = schema[c][q].name => p = q
                      /\ fields[c] # << >> =>
                           /\ {schema[c][p].name : p \in DOMAIN schema[c]}
                                = {n \in DOMAIN Body(c) : Body(c)[n].serialised}
                           /\ \A p \in DOMAIN schema[c] :
                                \A i \in Body(c)[schema[c][p].name].index :
                                  i = p - 1
    BY DEF SchemaOrder
  <2>1. Ordered(schema[c])
    BY DEF SchemaInv
  <2>2. ASSUME fields[c] # << >>
        PROVE  /\ {schema[c][p].name : p \in DOMAIN schema[c]}
                    = {n \in DOMAIN Body(c) : Body(c)[n].serialised}
               /\ \A p \in DOMAIN schema[c] :
                    \A i \in Body(c)[schema[c][p].name].index : i = p - 1
    <3> DEFINE fs == fields[c]
               s == schema[c]
               body == Body(c)
    <3>1. /\ fs \in Seq(Field) /\ Collected(body, fs, pos[c])
          /\ pos[c] \in Nat /\ pos[c] > Len(body)
          /\ Contiguous(IndexesOf(fs), Len(fs)) /\ s = Sorted(fs)
      BY <2>2 DEF TypeInv, TypeOK, FieldsInv, SchemaInv
    <3>2. /\ DOMAIN s = DOMAIN fs
          /\ \A p \in DOMAIN s : \E i \in DOMAIN fs :
               s[p] = fs[i] /\ fs[i].index = p - 1
          /\ \A i \in DOMAIN fs : \E p \in DOMAIN s : s[p] = fs[i]
      <4> HIDE DEF s, fs
      <4>1. /\ DOMAIN Sorted(fs) = DOMAIN fs
            /\ \A p \in DOMAIN fs : \E i \in DOMAIN fs :
                 Sorted(fs)[p] = fs[i] /\ fs[i].index = p - 1
            /\ \A i \in DOMAIN fs : \E p \in DOMAIN fs : Sorted(fs)[p] = fs[i]
        BY <3>1, SortedFields
      <4> QED
        BY <3>1, <4>1
    <3>3. Len(body) \in Nat /\ DOMAIN body = 1..Len(body)
      BY ProgramParts DEF TypeInv
    <3> HIDE DEF fs, s, body
    <3>4. DOMAIN body \subseteq 1..(pos[c] - 1)
      BY <3>1, <3>3
    <3>5. \A i \in DOMAIN fs :
            /\ fs[i].name \in DOMAIN body /\ body[fs[i].name].serialised
            /\ \A k \in body[fs[i].name].index : fs[i].index = k
      BY <3>1 DEF Collected
    <3>6. \A n \in DOMAIN body : body[n].serialised =>
            \E i \in DOMAIN fs : fs[i].name = n
      BY <3>1, <3>4 DEF Collected
    <3>7. {s[p].name : p \in DOMAIN s} = {n \in DOMAIN body : body[n].serialised}
      <4>1. ASSUME NEW p \in DOMAIN s
            PROVE  s[p].name \in DOMAIN body /\ body[s[p].name].serialised
        BY <3>2, <3>5
      <4>2. ASSUME NEW n \in DOMAIN body, body[n].serialised
            PROVE  \E p \in DOMAIN s : s[p].name = n
        <5>1. PICK i \in DOMAIN fs : fs[i].name = n
          BY <3>6, <4>2
        <5>2. PICK p \in DOMAIN s : s[p] = fs[i]
          BY <3>2
        <5> QED
          BY <5>1, <5>2
      <4> QED
        BY <4>1, <4>2
    <3>8. \A p \in DOMAIN s : \A i \in body[s[p].name].index : i = p - 1
      BY <3>2, <3>5
    <3> QED
      BY <3>7, <3>8 DEF fs, s, body
  <2> QED
    BY <2>1, <2>2 DEF Ordered
<1> QED
  BY <1>1, TypeInvariant, FieldsInvariant, SchemaInvariant, PTL

\* Every optional field of a declared class has a bit of its own, and the class's
\* header has that bit, also when the fields are those of the first base and the
\* header is another (core.py:109-127, headers.py).
THEOREM FlagsFitCorrect == Spec => []FlagsFit
<1>1. TypeInv /\ SchemaInv => FlagsFit
  <2> SUFFICES ASSUME TypeInv, SchemaInv, NEW c \in Classes,
                      at[c] = "declared", NEW p \in DOMAIN schema[c],
                      NEW f \in schema[c][p].flag
               PROVE  /\ f \in 0..63
                      /\ \A q \in DOMAIN schema[c] \ {p} :
                           f \notin schema[c][q].flag
                      /\ \E b \in FlagBits[header[c]] : f < b
    BY DEF FlagsFit
  <2>1. Ordered(schema[c]) /\ Fits(header[c], schema[c])
    BY DEF SchemaInv
  <2>2. schema[c] \in Seq(Field)
    BY DEF TypeInv, TypeOK, Models
  <2>3. schema[c][p] \in Field
    BY <2>2, ElementOfSeq, LenProperties
  <2>4. f \in 0..63
    BY <2>3 DEF Field, Option
  <2>5. f \in FlagsOf(schema[c])
    BY DEF FlagsOf
  <2> QED
    BY <2>1, <2>4, <2>5 DEF Ordered, Fits
<1> QED
  BY <1>1, TypeInvariant, SchemaInvariant, PTL

-----------------------------------------------------------------------------
(* Codecs.                                                                 *)

\* Where a collected field comes from.
LEMMA FieldOrigin ==
  ASSUME TypeInv, [Next]_vars, NEW c \in Classes, NEW i \in DOMAIN fields'[c]
  PROVE  \/ i \in DOMAIN fields[c] /\ fields'[c][i] = fields[c][i]
         \/ /\ AddField(c) /\ fields'[c][i].name = pos[c]
            /\ fields'[c][i].codec \in CodecHere(c)
<1>1. CASE AddField(c)
  <2>1. PICK f \in Field :
          /\ fields' = [fields EXCEPT ![c] = Append(@, f)]
          /\ f.name = pos[c] /\ f.codec \in CodecHere(c)
    BY <1>1, NewField
  <2>2. fields[c] \in Seq(Field) /\ fields'[c] = Append(fields[c], f)
    BY <2>1 DEF TypeInv, TypeOK
  <2>3. /\ \A j \in 1..Len(fields[c]) : Append(fields[c], f)[j] = fields[c][j]
        /\ Append(fields[c], f)[Len(fields[c]) + 1] = f
        /\ DOMAIN Append(fields[c], f) = 1..(Len(fields[c]) + 1)
        /\ DOMAIN fields[c] = 1..Len(fields[c]) /\ Len(fields[c]) \in Nat
    <3>1. /\ Append(fields[c], f) \in Seq(Field)
          /\ Len(Append(fields[c], f)) = Len(fields[c]) + 1
      BY <2>2, AppendProperties
    <3>2. DOMAIN Append(fields[c], f) = 1..(Len(fields[c]) + 1)
      BY <3>1, LenProperties
    <3> QED
      BY <2>2, <3>2, AppendProperties, LenProperties
  <2>4. i \in 1..Len(fields[c]) \/ i = Len(fields[c]) + 1
    BY <2>2, <2>3
  <2> QED
    BY <1>1, <2>1, <2>2, <2>3, <2>4
<1>2. CASE ~AddField(c)
  <2>1. ASSUME NEW t \in Threads, Start(t) \/ Advance(t)
        PROVE  fields'[c] = fields[c]
    BY <2>1, ThreadStep DEF locals
  <2>2. ASSUME NEW d \in Classes \ {c}, Step(d) PROVE fields'[c] = fields[c]
    BY <2>2, OthersStay
  <2>3. ASSUME Step(c) PROVE fields'[c] = fields[c]
    BY <1>2, <2>3 DEF Step, Configure, HeaderConflict, ChooseHeader,
       AnnotationsRaise, BothDefaults, ResolveGiven, UnknownType, SkipValue,
       ResolveByTable, NestedReturns, NestedRaises, RefuseField, RefuseSchema,
       SetSchema, Reject, locals
  <2>4. UNCHANGED vars => fields'[c] = fields[c]
    BY DEF vars
  <2> QED
    BY <2>1, <2>2, <2>3, <2>4 DEF Next
<1> QED
  BY <1>1, <1>2

\* Only ResolveGiven stores a codec in a FieldInfo object.
LEMMA InfoStep ==
  ASSUME TypeInv, [Next]_vars
  PROVE  infoCodec' = infoCodec \/ \E c \in Classes : ResolveGiven(c)
<1>1. ASSUME NEW c \in Classes, Step(c), ~ResolveGiven(c)
      PROVE  infoCodec' = infoCodec
  BY <1>1 DEF Step, Configure, HeaderConflict, ChooseHeader, AnnotationsRaise,
     BothDefaults, UnknownType, SkipValue, ResolveByTable, NestedReturns,
     NestedRaises, RefuseField, RefuseSchema, SetSchema, AddField, Reject, text
<1> QED
  BY <1>1, ThreadStep DEF Next, vars, text

\* What a FieldInfo object holds, if its annotations agree: the codec of its
\* field(codec=...), or else none or their CodecSpec's; once one of its
\* annotations is resolved, not none.
InfoInv ==
  \A c \in Classes : \A n \in DOMAIN Body(c) :
    LET a == Body(c)[n]
    IN infoCodec[a.info] \in IF program.infos[a.info] # {}
                             THEN {program.infos[a.info]} ELSE {{}, a.spec}

GivenInv ==
  \A c \in Classes :
    at[c] \in {"nested", "resolved"} /\ ~Unset(Here(c)) =>
      infoCodec[Here(c).info] # {}

LEMMA ResolveGivenInfo ==
  ASSUME TypeInv, InfoInv, SpecsAgree, NEW c \in Classes, ResolveGiven(c)
  PROVE  /\ pos[c] \in DOMAIN Body(c) /\ infoCodec'[Here(c).info] # {}
         /\ \A i \in Infos : infoCodec[i] # {} => infoCodec'[i] = infoCodec[i]
         /\ InfoInv'
<1> DEFINE i == Here(c).info
           given == IF infoCodec[i] # {} THEN infoCodec[i] ELSE Here(c).spec
<1>1. /\ pos[c] \in DOMAIN Body(c) /\ i \in Infos
      /\ Here(c) = Body(c)[pos[c]]
  BY MoreBodyPos, HereType DEF ResolveGiven, Resolving, Here
<1>2. /\ infoCodec' = [infoCodec EXCEPT ![i] = given] /\ program' = program
      /\ given # {}
  BY DEF ResolveGiven, UsesTable
<1>3. infoCodec \in [Infos -> Option(Codecs \cup {Invalid})]
  BY DEF TypeInv, TypeOK
<1>4. ASSUME NEW d \in Classes, NEW n \in DOMAIN Body(d)
      PROVE  LET a == Body(d)[n]
             IN infoCodec'[a.info] \in IF program.infos[a.info] # {}
                                       THEN {program.infos[a.info]}
                                       ELSE {{}, a.spec}
  <2>1. Body(d)[n].info \in Infos
    BY ProgramParts DEF TypeInv, Annotation
  <2>2. Body(d)[n].info = i => Body(d)[n].spec = Here(c).spec
    BY <1>1 DEF SpecsAgree
  <2>3. infoCodec[Body(d)[n].info] \in IF program.infos[Body(d)[n].info] # {}
                                       THEN {program.infos[Body(d)[n].info]}
                                       ELSE {{}, Body(d)[n].spec}
    BY DEF InfoInv
  <2> QED
    BY <1>2, <1>3, <2>1, <2>2, <2>3
<1>5. InfoInv'
  BY <1>2, <1>4, SameProgram DEF InfoInv
<1> HIDE DEF given
<1> QED
  <2>1. infoCodec'[i] = given
    BY <1>1, <1>2, <1>3
  <2>2. \A j \in Infos : infoCodec[j] # {} => infoCodec'[j] = infoCodec[j]
    BY <1>2, <1>3 DEF given
  <2> QED
    BY <1>1, <1>2, <1>5, <2>1, <2>2

LEMMA InfosStep ==
  ASSUME TypeInv, InfoInv, SpecsAgree, [Next]_vars
  PROVE  /\ InfoInv'
         /\ \A i \in Infos : infoCodec[i] # {} => infoCodec'[i] = infoCodec[i]
<1>1. program' = program
  BY ThreadStep, StepTypes DEF Next, vars, text
<1>2. CASE infoCodec' = infoCodec
  BY <1>1, <1>2, SameProgram DEF InfoInv
<1> QED
  BY <1>2, InfoStep, ResolveGivenInfo

LEMMA GivenStep ==
  ASSUME TypeInv, InfoInv, GivenInv, SpecsAgree, [Next]_vars
  PROVE  GivenInv'
<1> SUFFICES ASSUME NEW c \in Classes, at'[c] \in {"nested", "resolved"},
                    program' = program, ~Unset(Body(c)[pos'[c]])
             PROVE  infoCodec'[Body(c)[pos'[c]].info] # {}
  <2>1. program' = program
    BY ThreadStep, StepTypes DEF Next, vars, text
  <2> QED
    BY <2>1, SameProgram DEF GivenInv, Here
<1>1. ASSUME pos'[c] = pos[c], at[c] \in {"nested", "resolved"}
      PROVE  infoCodec'[Body(c)[pos'[c]].info] # {}
  <2>1. infoCodec[Here(c).info] # {}
    BY <1>1 DEF GivenInv, Here
  <2>2. Here(c).info \in Infos
    BY <1>1, HereType DEF TypeInv, PosInv
  <2> QED
    BY <1>1, <2>1, <2>2, InfosStep DEF Here
<1>2. ASSUME NEW t \in Threads, Start(t) \/ Advance(t)
      PROVE  pos'[c] = pos[c] /\ at[c] \in {"nested", "resolved"}
  BY <1>2, ThreadStep DEF locals
<1>3. ASSUME NEW d \in Classes \ {c}, Step(d)
      PROVE  pos'[c] = pos[c] /\ at[c] \in {"nested", "resolved"}
  BY <1>3, OthersStay
<1>4. CASE ResolveGiven(c)
  BY <1>4, ResolveGivenInfo DEF ResolveGiven, Here
<1>5. CASE ResolveByTable(c)
  <2>1. /\ infoCodec[Here(c).info] = {} /\ Here(c).spec = {}
        /\ pos'[c] = pos[c] /\ pos[c] \in DOMAIN Body(c)
    BY <1>5, MoreBodyPos DEF ResolveByTable, UsesTable, Resolving
  <2>2. program.infos[Here(c).info] # {}
    BY <2>1 DEF Unset, Here
  <2> QED
    BY <2>1, <2>2 DEF InfoInv, Here
<1>6. CASE NestedReturns(c)
  BY <1>1, <1>6 DEF NestedReturns, locals
<1>7. CASE Step(c) /\ ~ResolveGiven(c) /\ ~ResolveByTable(c) /\ ~NestedReturns(c)
  BY <1>7 DEF Step, Configure, HeaderConflict, ChooseHeader, AnnotationsRaise,
     BothDefaults, UnknownType, SkipValue, NestedRaises, RefuseField,
     RefuseSchema, SetSchema, AddField, Reject, Goto, MoreBody, InBody,
     TypeInv, TypeOK
<1>8. UNCHANGED vars => pos'[c] = pos[c] /\ at[c] \in {"nested", "resolved"}
  BY DEF vars
<1> QED
  BY <1>1, <1>2, <1>3, <1>4, <1>5, <1>6, <1>7, <1>8 DEF Next

LEMMA OwnSpecStep ==
  ASSUME TypeInv, InfoInv, GivenInv, OwnSpec, [Next]_vars
  PROVE  OwnSpec'
<1> SUFFICES ASSUME NEW c \in Classes, NEW i \in DOMAIN fields'[c],
                    program' = program,
                    NEW a, a = Body(c)[fields'[c][i].name], ~Unset(a)
             PROVE  fields'[c][i].codec \in IF program.infos[a.info] # {}
                                            THEN program.infos[a.info]
                                            ELSE a.spec
  <2>1. program' = program
    BY ThreadStep, StepTypes DEF Next, vars, text
  <2> QED
    BY <2>1, SameProgram DEF OwnSpec
<1>1. CASE i \in DOMAIN fields[c] /\ fields'[c][i] = fields[c][i]
  BY <1>1 DEF OwnSpec
<1>2. CASE /\ AddField(c) /\ fields'[c][i].name = pos[c]
           /\ fields'[c][i].codec \in CodecHere(c)
  <2>1. /\ at[c] = "resolved" /\ pos[c] \in DOMAIN Body(c) /\ a = Here(c)
    BY <1>2 DEF AddField, TypeInv, PosInv, Here
  <2>2. infoCodec[a.info] # {}
    BY <2>1 DEF GivenInv
  <2>3. fields'[c][i].codec \in infoCodec[a.info]
    BY <1>2, <2>1, <2>2 DEF CodecHere
  <2>4. infoCodec[a.info] \in IF program.infos[a.info] # {}
                              THEN {program.infos[a.info]} ELSE {{}, a.spec}
    BY <2>1 DEF InfoInv, Here
  <2> QED
    BY <2>2, <2>3, <2>4
<1> QED
  BY <1>1, <1>2, FieldOrigin

SpecInv == SpecsAgree => InfoInv /\ GivenInv /\ OwnSpec

LEMMA SpecInvariant == Spec => []SpecInv
<1>1. Init => SpecInv
  BY DEF Init, SpecInv, InfoInv, GivenInv, OwnSpec
<1>2. TypeInv /\ SpecInv /\ [Next]_vars => SpecInv'
  <2>1. TypeInv /\ [Next]_vars => SpecsAgree' = SpecsAgree
    BY ThreadStep, StepTypes, SameProgram DEF Next, vars, text
  <2> QED
    BY <2>1, InfosStep, GivenStep, OwnSpecStep DEF SpecInv
<1> QED
  BY <1>1, <1>2, TypeInvariant, PTL DEF Spec

\* While the annotations that share a FieldInfo object agree on their CodecSpec,
\* every field whose codec is given by name gets that codec, although resolving
\* writes to the shared object and any number of threads declare (resolver.py).
THEOREM OwnSpecCorrect == Spec => []OwnSpecAgreed
<1>1. SpecInv => OwnSpecAgreed
  BY DEF SpecInv, OwnSpecAgreed
<1> QED
  BY <1>1, SpecInvariant, PTL

-----------------------------------------------------------------------------
(* The shared resolver.                                                    *)

\* Who is in since[c] has its rules, the resolver's are theirs, and so is what
\* was found in its table.
SeenInv ==
  \A c \in Classes : \A d \in since[c] : at[d] \notin {"undeclared", "configure"}

ReachedInv == \A c \in Classes : at[c] \in InProgress => resolver \in since[c]

FoundInv ==
  \A c \in Classes : at[c] \in {"nested", "resolved"} /\ Unset(Here(c)) =>
    \E d \in since[c] : held[c] = {table[d][Here(c).type]}

RulesInv ==
  \A c \in Classes : \A i \in DOMAIN fields[c] :
    LET a == Body(c)[fields[c][i].name]
    IN Unset(a) => \E d \in since[c] : fields[c][i].codec = table[d][a.type]

\* Only Configure touches the resolver, and makes a table.
LEMMA ConfigureOnly ==
  ASSUME TypeInv, [Next]_vars
  PROVE  \/ UNCHANGED <<resolver, since, table>>
         \/ \E c \in Classes : Configure(c)
<1>1. ASSUME NEW c \in Classes, Step(c), ~Configure(c)
      PROVE  UNCHANGED <<resolver, since, table>>
  BY <1>1 DEF Step, HeaderConflict, ChooseHeader, AnnotationsRaise, BothDefaults,
     ResolveGiven, UnknownType, SkipValue, ResolveByTable, NestedReturns,
     NestedRaises, RefuseField, RefuseSchema, SetSchema, AddField, Reject,
     attributes
<1> QED
  BY <1>1, ThreadStep DEF Next, vars, attributes

\* Whose rules c may have seen, it may have seen later too, and they stay.
LEMMA SeenStays ==
  ASSUME TypeInv, SeenInv, [Next]_vars, NEW c \in Classes, NEW d \in since[c]
  PROVE  d \in since'[c] /\ table'[d] = table[d] /\ d \in Classes
<1>1. d \in Classes /\ at[d] # "configure"
  BY DEF TypeInv, TypeOK, SeenInv
<1>2. ASSUME NEW e \in Classes, Configure(e)
      PROVE  d \in since'[c] /\ table'[d] = table[d]
  BY <1>1, <1>2 DEF Configure, SinceWith, TypeInv, TypeOK, Models
<1> QED
  BY <1>1, <1>2, ConfigureOnly

LEMMA OwnCodecStep ==
  ASSUME TypeInv, InfoInv, ReachedInv, FoundInv, NEW c \in Classes, Step(c)
  PROVE  /\ at'[c] \in InProgress => resolver' \in since'[c]
         /\ at'[c] \in {"nested", "resolved"} /\ Unset(Here(c)) =>
              \E d \in since'[c] : held'[c] = {table'[d][Here(c).type]}
         /\ at'[c] \notin {"undeclared", "configure"}
<1> USE DEF text, locals, attributes, Goto, InProgress
<1>0. TypeOK
  BY DEF TypeInv
<1>1. CASE \/ HeaderConflict(c) \/ AnnotationsRaise(c) \/ BothDefaults(c)
           \/ UnknownType(c) \/ NestedRaises(c) \/ RefuseField(c)
           \/ RefuseSchema(c)
  <2>1. Reject(c)
    BY <1>1 DEF HeaderConflict, AnnotationsRaise, BothDefaults, UnknownType,
       NestedRaises, RefuseField, RefuseSchema
  <2> QED
    BY <1>0, <2>1 DEF Reject, TypeOK
<1>2. CASE Configure(c)
  BY <1>0, <1>2 DEF Configure, SinceWith, TypeOK
<1>3. CASE ChooseHeader(c) \/ SkipValue(c) \/ NestedReturns(c) \/ AddField(c)
  BY <1>0, <1>3 DEF ChooseHeader, SkipValue, NestedReturns, AddField, MoreBody,
     InBody, ReachedInv, FoundInv, TypeOK
<1>4. CASE SetSchema(c)
  BY <1>0, <1>4 DEF SetSchema, TypeOK
<1>5. CASE ResolveGiven(c)
  <2>1. /\ pos[c] \in DOMAIN Body(c) /\ at[c] = "fields"
        /\ infoCodec[Here(c).info] # {} \/ Here(c).spec # {}
    BY <1>5, MoreBodyPos DEF ResolveGiven, Resolving, MoreBody, InBody, UsesTable
  <2>2. ~Unset(Here(c))
    BY <2>1 DEF InfoInv, Unset, Here
  <2> QED
    BY <1>0, <1>5, <2>1, <2>2 DEF ResolveGiven, ReachedInv, TypeOK
<1>6. CASE ResolveByTable(c)
  <2>1. at[c] = "fields"
    BY <1>6 DEF ResolveByTable, Resolving, MoreBody, InBody
  <2>2. resolver \in since[c] /\ UNCHANGED <<resolver, since, table>>
    BY <1>6, <2>1 DEF ResolveByTable, ReachedInv
  <2>3. held'[c] = {Lookup(Here(c).type)}
    BY <1>0, <1>6 DEF ResolveByTable, TypeOK
  <2>4. at'[c] \in {"nested", "resolved"}
    BY <1>0, <1>6 DEF ResolveByTable, TypeOK
  <2> QED
    BY <2>1, <2>2, <2>3, <2>4 DEF Lookup
<1> QED
  BY <1>1, <1>2, <1>3, <1>4, <1>5, <1>6 DEF Step

LEMMA SeenStep ==
  ASSUME TypeInv, InfoInv, SeenInv, ReachedInv, FoundInv, [Next]_vars
  PROVE  SeenInv' /\ ReachedInv'
<1>0. TypeOK
  BY DEF TypeInv
\* Nobody goes back, and nobody is suddenly in the middle of a statement.
<1>1. ASSUME NEW c \in Classes
      PROVE  /\ at[c] \notin {"undeclared", "configure"} =>
                  at'[c] \notin {"undeclared", "configure"}
             /\ \/ at'[c] \in InProgress => at[c] \in InProgress
                \/ Step(c)
  <2>1. ASSUME NEW t \in Threads, Start(t) \/ Advance(t)
        PROVE  \/ at'[c] = at[c]
               \/ at[c] = "undeclared" /\ at'[c] \in {"configure", "rejected"}
    BY <2>1, ThreadStep
  <2>2. ASSUME NEW d \in Classes \ {c}, Step(d)
        PROVE  \/ at'[c] = at[c]
               \/ at[c] = "undeclared" /\ at'[c] = "configure"
    BY <2>2, OthersStay
  <2>3. Step(c) => at'[c] \notin {"undeclared", "configure"}
    BY OwnCodecStep
  <2>4. UNCHANGED vars => at'[c] = at[c]
    BY DEF vars
  <2> QED
    BY <2>1, <2>2, <2>3, <2>4 DEF Next, InProgress
<1>2. ASSUME NEW e \in Classes, Configure(e)
      PROVE  SeenInv' /\ ReachedInv'
  <2>1. /\ \A c \in Classes : since'[c] \subseteq since[c] \cup {e}
        /\ \A c \in Classes : c = e \/ at[c] \in InProgress => e \in since'[c]
        /\ resolver' = e /\ at'[e] = "header"
        /\ \A c \in Classes \ {e} : at'[c] = at[c]
    BY <1>0, <1>2 DEF Configure, SinceWith, Goto, TypeOK
  <2>2. \A c \in Classes : since[c] \subseteq Classes
    BY <1>0 DEF TypeOK
  <2>3. SeenInv'
    BY <1>1, <2>1, <2>2 DEF SeenInv
  <2>4. ReachedInv'
    BY <2>1 DEF ReachedInv
  <2> QED
    BY <2>3, <2>4
<1>3. CASE UNCHANGED <<resolver, since, table>>
  <2>1. \A c \in Classes : since[c] \subseteq Classes
    BY <1>0 DEF TypeOK
  <2>2. SeenInv'
    BY <1>1, <1>3, <2>1 DEF SeenInv
  <2>3. ReachedInv'
    BY <1>1, <1>3, OwnCodecStep DEF ReachedInv
  <2> QED
    BY <2>2, <2>3
<1> QED
  BY <1>2, <1>3, ConfigureOnly

LEMMA FoundStep ==
  ASSUME TypeInv, InfoInv, SeenInv, ReachedInv, FoundInv, [Next]_vars
  PROVE  FoundInv'
<1> SUFFICES ASSUME NEW c \in Classes, at'[c] \in {"nested", "resolved"},
                    program' = program, Unset(Body(c)[pos'[c]])
             PROVE  \E d \in since'[c] :
                      held'[c] = {table'[d][Body(c)[pos'[c]].type]}
  <2>1. program' = program
    BY ThreadStep, StepTypes DEF Next, vars, text
  <2> QED
    BY <2>1, SameProgram DEF FoundInv, Here
<1>1. ASSUME at'[c] = at[c], pos'[c] = pos[c], held'[c] = held[c]
      PROVE  \E d \in since'[c] :
               held'[c] = {table'[d][Body(c)[pos'[c]].type]}
  BY <1>1, SeenStays DEF FoundInv, Here
<1>2. ASSUME NEW t \in Threads, Start(t) \/ Advance(t)
      PROVE  at'[c] = at[c] /\ pos'[c] = pos[c] /\ held'[c] = held[c]
  BY <1>2, ThreadStep DEF locals
<1>3. ASSUME NEW d \in Classes \ {c}, Step(d)
      PROVE  at'[c] = at[c] /\ pos'[c] = pos[c] /\ held'[c] = held[c]
  BY <1>3, OthersStay
<1>4. CASE Step(c)
  BY <1>4, OwnCodecStep, OwnStep DEF Here
<1>5. UNCHANGED vars => at'[c] = at[c] /\ pos'[c] = pos[c] /\ held'[c] = held[c]
  BY DEF vars
<1> QED
  BY <1>1, <1>2, <1>3, <1>4, <1>5 DEF Next

LEMMA RulesStep ==
  ASSUME TypeInv, InfoInv, SeenInv, FoundInv, RulesInv, [Next]_vars
  PROVE  RulesInv'
<1> SUFFICES ASSUME NEW c \in Classes, NEW i \in DOMAIN fields'[c],
                    program' = program,
                    NEW a, a = Body(c)[fields'[c][i].name], Unset(a)
             PROVE  \E d \in since'[c] : fields'[c][i].codec = table'[d][a.type]
  <2>1. program' = program
    BY ThreadStep, StepTypes DEF Next, vars, text
  <2> QED
    BY <2>1, SameProgram DEF RulesInv
<1>1. CASE i \in DOMAIN fields[c] /\ fields'[c][i] = fields[c][i]
  <2>1. PICK d \in since[c] : fields[c][i].codec = table[d][a.type]
    BY <1>1 DEF RulesInv
  <2> QED
    BY <1>1, <2>1, SeenStays
<1>2. CASE /\ AddField(c) /\ fields'[c][i].name = pos[c]
           /\ fields'[c][i].codec \in CodecHere(c)
  <2>1. /\ at[c] = "resolved" /\ pos[c] \in DOMAIN Body(c) /\ a = Here(c)
    BY <1>2 DEF AddField, TypeInv, PosInv, Here
  <2>2. infoCodec[a.info] = {}
    BY <2>1 DEF InfoInv, Unset, Here
  <2>3. PICK d \in since[c] : held[c] = {table[d][a.type]}
    BY <2>1 DEF FoundInv
  <2>4. fields'[c][i].codec = table[d][a.type]
    BY <1>2, <2>1, <2>2, <2>3 DEF CodecHere
  <2> QED
    BY <2>4, SeenStays
<1> QED
  BY <1>1, <1>2, FieldOrigin

OverlapInv ==
  SpecsAgree => SeenInv /\ ReachedInv /\ FoundInv /\ RulesInv

LEMMA OverlapInvariant == Spec => []OverlapInv
<1>1. Init => OverlapInv
  BY DEF Init, OverlapInv, SeenInv, ReachedInv, FoundInv, RulesInv, InProgress
<1>2. TypeInv /\ SpecInv /\ OverlapInv /\ [Next]_vars => OverlapInv'
  <2>1. TypeInv /\ [Next]_vars => SpecsAgree' = SpecsAgree
    BY ThreadStep, StepTypes, SameProgram DEF Next, vars, text
  <2> QED
    BY <2>1, SeenStep, FoundStep, RulesStep DEF SpecInv, OverlapInv
<1> QED
  BY <1>1, <1>2, TypeInvariant, SpecInvariant, PTL DEF Spec

\* Any number of threads and nested declarations share one resolver: a field's
\* codec is one that the rules of its own class have, or those of a class whose
\* statement ran at the same time, never what an earlier one left behind
\* (core.py:176-181).
THEOREM OverlappingCorrect == Spec => []RulesOfOverlapping
<1>1. OverlapInv => RulesOfOverlapping
  BY DEF OverlapInv, RulesInv, RulesOfOverlapping
<1> QED
  BY <1>1, OverlapInvariant, PTL

-----------------------------------------------------------------------------
(* One thread, no declaration inside another: the resolver is its own.     *)

TurnInv ==
  \A c \in Classes : at[c] \in Active =>
    \E t \in Threads :
      turn[t] <= Len(program.agenda[t]) /\ c = program.agenda[t][turn[t]]

AloneInv == TurnInv /\ \A c \in Classes : since[c] \subseteq {c}

LEMMA OneActive ==
  ASSUME TypeInv, Alone, TurnInv, NEW c \in Classes, at[c] \in Active
  PROVE  /\ \A d \in Classes : at[d] \in Active => d = c
         /\ \A t \in Threads : turn[t] <= Len(program.agenda[t]) =>
              c = program.agenda[t][turn[t]]
<1>1. ASSUME NEW t \in Threads, turn[t] <= Len(program.agenda[t])
      PROVE  program.agenda[t] # << >>
  <2>1. turn[t] >= 1
    BY DEF TypeInv, TypeOK
  <2>2. Len(<< >>) = 0 /\ turn[t] \in Nat
    BY DEF TypeInv, TypeOK
  <2>3. CASE program.agenda[t] = << >>
    <3>1. turn[t] <= 0
      BY <1>1, <2>2, <2>3
    <3> QED
      BY <2>1, <2>2, <3>1
  <2> QED
    BY <2>3
<1>2. PICK t \in Threads :
        turn[t] <= Len(program.agenda[t]) /\ c = program.agenda[t][turn[t]]
  BY DEF TurnInv
<1>3. \A u \in Threads : turn[u] <= Len(program.agenda[u]) => u = t
  BY <1>1, <1>2 DEF Alone
<1> QED
  BY <1>2, <1>3 DEF TurnInv

LEMMA AloneStays ==
  ASSUME TypeInv, Alone, NEW c \in Classes, Step(c)
  PROVE  turn' = turn /\ \A d \in Classes \ {c} : at'[d] = at[d]
<1>1. CASE ResolveByTable(c)
  <2>1. Here(c).nested = {}
    BY <1>1, MoreBodyPos DEF ResolveByTable, Resolving, Alone, Here
  <2> QED
    BY <1>1, <2>1 DEF ResolveByTable, TypeInv, TypeOK
<1>2. CASE ~ResolveByTable(c)
  BY <1>2 DEF Step, Configure, HeaderConflict, ChooseHeader, AnnotationsRaise,
     BothDefaults, ResolveGiven, UnknownType, SkipValue, NestedReturns,
     NestedRaises, RefuseField, RefuseSchema, SetSchema, AddField, Reject, Goto,
     TypeInv, TypeOK
<1> QED
  BY <1>1, <1>2

LEMMA TurnStep ==
  ASSUME TypeInv, Alone, TurnInv, [Next]_vars
  PROVE  TurnInv'
<1> SUFFICES ASSUME NEW c \in Classes, at'[c] \in Active, program' = program
             PROVE  \E t \in Threads :
                      /\ turn'[t] <= Len(program.agenda[t])
                      /\ c = program.agenda[t][turn'[t]]
  <2>1. program' = program
    BY ThreadStep, StepTypes DEF Next, vars, text
  <2> QED
    BY <2>1 DEF TurnInv
<1>1. CASE at[c] \in Active /\ turn' = turn
  BY <1>1 DEF TurnInv
<1>2. ASSUME NEW t \in Threads, Start(t), at[c] \notin Active
      PROVE  \E u \in Threads : /\ turn'[u] <= Len(program.agenda[u])
                                /\ c = program.agenda[u][turn'[u]]
  BY <1>2, ThreadStep DEF Start
<1>3. ASSUME NEW t \in Threads, Start(t) PROVE turn' = turn
  BY <1>3 DEF Start
<1>4. ASSUME NEW t \in Threads, Advance(t) PROVE FALSE
  <2>1. at' = at /\ turn[t] <= Len(program.agenda[t])
        /\ at[program.agenda[t][turn[t]]] \in Done
    BY <1>4 DEF Advance
  <2> QED
    BY <2>1, OneActive DEF Active, Done
<1>5. ASSUME NEW d \in Classes, Step(d)
      PROVE  at[c] \in Active /\ turn' = turn
  BY <1>5, AloneStays, OwnStep
<1>6. UNCHANGED vars => turn' = turn /\ at' = at
  BY DEF vars
<1> QED
  BY <1>1, <1>2, <1>3, <1>4, <1>5, <1>6 DEF Next

LEMMA AloneStep ==
  ASSUME TypeInv, Alone, AloneInv, [Next]_vars
  PROVE  AloneInv'
<1>1. TurnInv'
  BY TurnStep DEF AloneInv
<1>2. ASSUME NEW e \in Classes, Configure(e), NEW c \in Classes
      PROVE  since'[c] \subseteq {c}
  <2>1. at[e] \in Active
    BY <1>2 DEF Configure, Active
  <2>2. at[c] \in InProgress => c = e
    BY <2>1, OneActive DEF AloneInv, Active, InProgress
  <2> QED
    BY <1>2, <2>2 DEF Configure, SinceWith, AloneInv
<1>3. UNCHANGED <<resolver, since, table>> => \A c \in Classes : since'[c] \subseteq {c}
  BY DEF AloneInv
<1> QED
  BY <1>1, <1>2, <1>3, ConfigureOnly DEF AloneInv

\* One thread that declares no class inside another gives every field the codec
\* its own class's rules have for the type, also after declarations that were
\* refused, although all classes share one resolver (core.py:176-181).
THEOREM OwnTableCorrect == Spec => []OwnTableAlone
<1> DEFINE Inv == Alone => AloneInv
<1>1. Init => Inv
  BY DEF Init, AloneInv, TurnInv, Active
<1>2. TypeInv /\ Inv /\ [Next]_vars => Inv'
  <2>1. TypeInv /\ [Next]_vars => Alone' = Alone
    BY ThreadStep, StepTypes, SameProgram DEF Next, vars, text
  <2> QED
    BY <2>1, AloneStep
<1>3. Inv /\ OverlapInv => OwnTableAlone
  BY DEF OwnTableAlone, OwnTable, AloneInv, OverlapInv, RulesInv
<1> HIDE DEF Inv
<1> QED
  BY <1>1, <1>2, <1>3, TypeInvariant, OverlapInvariant, PTL DEF Spec
=============================================================================
