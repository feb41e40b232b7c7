------------------------------ MODULE Resolver ------------------------------
(***************************************************************************)
(* How the annotation of a field and its field(...) become a codec:        *)
(* CodecResolver.resolve (resolver.py), the factories (resolvers.py) and   *)
(* what __init_subclass__ (core.py) does with the result.                  *)
(*                                                                         *)
(* resolve takes an annotation apart layer by layer and writes what a      *)
(* CodecSpec says into the field's FieldInfo, which may have been used     *)
(* before: by another field, or by a class statement that was refused.     *)
(* list_codec_factory calls it back for the items.  A setting that may be  *)
(* None is a set of at most one element.                                   *)
(***************************************************************************)
EXTENDS Integers, SequencesExt, FiniteSetsExt

CONSTANTS
  Annotations,  \* see Annotation
  Rules,        \* scalar_codecs: names of factories for some annotations
  PrefixLengths, DefaultPrefix,    \* the keys of UINT_CODEC_MAPPING, and 4
  Encodings, DefaultEncoding, \* what codecs.lookup knows, and "utf-8"
  IntegerFormats, FloatFormats,  \* the keys of INTEGER_CODECS, FLOAT_CODECS
  Programs      \* the declarations considered, see Program

AtMostOne(S) == \A x, y \in S : x = y

\* The prefix and encoding of a FieldInfo or CodecSpec, and a codec given as
\* an object.
Settings(s) ==
  /\ s = [prefix |-> s.prefix, encoding |-> s.encoding, codec |-> s.codec]
  /\ AtMostOne(s.prefix) /\ AtMostOne(s.codec)

CodecSpec(s) ==
  /\ DOMAIN s = {"kind", "prefix", "encoding", "codec"}
  /\ AtMostOne(s.prefix) /\ AtMostOne(s.encoding) /\ AtMostOne(s.codec)

FreshInfo == [prefix |-> {}, encoding |-> DefaultEncoding, codec |-> {}]

\* A type, an X | Y (args does not show None), an Annotated or a list.
\* Of the metadata that are none of the library's, an Annotated only shows
\* whether all of them can be hashed.  Python flattens nested ones.
Annotation(a) ==
  /\ a.kind \in {"union", "annotated", "list", "model", "enum", "class", "generic"}
  /\ a.kind \in {"union", "list"} =>
       /\ Len(a.args) \in Nat /\ a.args = [i \in 1..Len(a.args) |-> a.args[i]]
       /\ \A i \in DOMAIN a.args : a.args[i] \in Annotations
  /\ a.kind = "union" =>
       /\ Len(a.args) > 0 /\ a.none \in BOOLEAN
       /\ \A i \in DOMAIN a.args : a.args[i].kind # "union"
  /\ a.kind = "annotated" =>
       /\ a.base \in Annotations /\ a.base.kind # "annotated"
       /\ Len(a.specs) \in Nat /\ a.specs = [i \in 1..Len(a.specs) |-> a.specs[i]]
       /\ \A i \in DOMAIN a.specs : a.specs[i].kind = "codec" => CodecSpec(a.specs[i])
       /\ a.hashable \in BOOLEAN

\* The fields of class statements, one statement after another.
Program(p) ==
  /\ Len(p.infos) \in Nat /\ p.infos = [i \in 1..Len(p.infos) |-> p.infos[i]]
  /\ Len(p.fields) \in Nat /\ DOMAIN p.fields = 1..Len(p.fields)
  /\ \A i \in DOMAIN p.infos : Settings(p.infos[i])
  /\ \A n \in DOMAIN p.fields :
       /\ p.fields[n].annotation \in Annotations
       /\ p.fields[n].info \in DOMAIN p.infos
       /\ p.fields[n].default \in BOOLEAN  \* default=..., of the right type

ASSUME ResolverAssumption ==
  /\ \A a \in Annotations : Annotation(a)
  /\ DefaultEncoding \in Encodings /\ DefaultPrefix \in PrefixLengths
  /\ \A p \in Programs : Program(p)

VARIABLES
  program,
  infos,     \* the FieldInfo objects, those made for list items last
  next,      \* the field being resolved
  calls,     \* the resolve calls in progress, the outermost first
  returned,  \* the ResolvedType that a call just returned
  outcomes   \* of each field: what was raised, its codec, is it optional?

vars == <<program, infos, next, calls, returned, outcomes>>

The(S) == CHOOSE x \in S : TRUE

Init ==
  /\ program \in Programs
  /\ infos = program.infos /\ next = 1
  /\ calls = << >> /\ returned = {} /\ outcomes = << >>

-----------------------------------------------------------------------------
(* The factories.  A codec or, if its constructor raises, nothing.         *)

PrefixOf(s) == IF s.prefix = {} THEN DefaultPrefix ELSE The(s.prefix)
Prefixed(codec) == IF codec.prefix \in PrefixLengths THEN {codec} ELSE {}

TextCodec(kind, s) ==
  Prefixed([kind |-> kind, prefix |-> PrefixOf(s), encoding |-> s.encoding])
StrCodec(s) == TextCodec("str", s)
DatetimeCodec(s) == TextCodec("datetime", s)
BytesCodec(s) == Prefixed([kind |-> "bytes", prefix |-> PrefixOf(s)])
ListCodec(item, s) ==
  Prefixed([kind |-> "list", prefix |-> PrefixOf(s), item |-> item])

\* int, bool and UUID need no settings; the application's factory may be any.
ScalarCodec(factory, s) ==
  CASE factory = "str" -> StrCodec(s)
    [] factory = "bytes" -> BytesCodec(s)
    [] factory = "datetime" -> DatetimeCodec(s)
    [] OTHER -> {[kind |-> factory]}

EnumCodec(enum, s) ==
  LET value == CASE enum.mixin = "str" -> StrCodec(s)
                 [] enum.mixin = "int" -> {[kind |-> "int"]}
                 [] OTHER -> {}
  IN {[kind |-> "enum", name |-> enum.name, value |-> v] : v \in value}

\* resolve_integer, resolve_float and resolve_varint.  resolve goes on to raise
\* SchemaError for another kind of Spec, although the union of them has none.
NumericCodec(spec) ==
  IF \/ spec.kind = "integer" /\ <<spec.bits, spec.signed>> \in IntegerFormats
     \/ spec.kind = "float" /\ spec.bits \in FloatFormats
     \/ spec.kind = "varint"
  THEN {spec} ELSE {}

-----------------------------------------------------------------------------
(* resolve.  Each turn of its recursion is an action.                      *)

top == Last(calls)
info == infos[top.info]
WithTop(frame) == [calls EXCEPT ![Len(calls)] = frame]
Frame(annotation, optional, i) ==
  [annotation |-> annotation, optional |-> optional, info |-> i]

Resolving == calls # << >> /\ returned = {}
Union == top.annotation.kind = "union"

\* _normalize_union
bare == IF Union THEN top.annotation.args[1] ELSE top.annotation
optional == IF Union THEN top.annotation.none ELSE top.optional

Refuses ==
  \/ info.encoding \notin Encodings
  \/ Union /\ Len(top.annotation.args) > 1
Entered == Resolving /\ ~Refuses

\* The exception leaves the class statement; the FieldInfos stay as they are.
Raise(what) ==
  /\ outcomes' = Append(outcomes, [raised |-> what, codec |-> {}, optional |-> FALSE])
  /\ calls' = << >> /\ returned' = {} /\ next' = next + 1

\* A call returns, or its codec's constructor raises.
Return(codecs) ==
  IF codecs = {}
  THEN Raise("SchemaError") /\ UNCHANGED <<program, infos>>
  ELSE /\ returned' = {[codec |-> c, optional |-> optional, annotation |-> bare] :
                         c \in codecs}
       /\ calls' = Front(calls)
       /\ UNCHANGED <<program, infos, next, outcomes>>

Field == program.fields[next]

Resolve ==
  /\ next <= Len(program.fields) /\ calls = << >> /\ returned = {}
  /\ calls' = <<Frame(Field.annotation, FALSE, Field.info)>>
  /\ UNCHANGED <<program, infos, next, returned, outcomes>>

Refuse ==
  Resolving /\ Refuses /\ Raise("SchemaError") /\ UNCHANGED <<program, infos>>

\* Mutant: metadata comes before the codec of the FieldInfo.
Given_AfterMetadata == IF bare.kind = "annotated" THEN {} ELSE info.codec

Given == info.codec

UseGiven == Entered /\ Given # {} /\ Return(Given)

\* The annotation is looked up in a dict.
Hashable[a \in Annotations] ==
  CASE a.kind = "annotated" -> a.hashable /\ Hashable[a.base]
    [] a.kind \in {"list", "union"} -> \A i \in DOMAIN a.args : Hashable[a.args[i]]
    [] OTHER -> TRUE

Unhashable ==
  /\ Entered /\ Given = {} /\ ~Hashable[bare]
  /\ Raise("TypeError") /\ UNCHANGED <<program, infos>>

LookedUp == Entered /\ Given = {} /\ Hashable[bare]

UseTable ==
  LookedUp /\ bare \in DOMAIN Rules /\ Return(ScalarCodec(Rules[bare], info))

ByKind(kind) == LookedUp /\ bare \notin DOMAIN Rules /\ bare.kind = kind

Specs == bare.specs
IsSpec(kind) == Len(Specs) = 1 /\ Specs[1].kind = kind
Numeric(spec) == spec.kind # "codec"

TwoSpecs ==
  /\ ByKind("annotated") /\ Len(Specs) > 1
  /\ Raise("SchemaError") /\ UNCHANGED <<program, infos>>

\* Mutant: the annotation is resolved again instead of its base.
Unspecified_Again ==
  /\ ByKind("annotated") /\ Len(Specs) = 0
  /\ calls' = WithTop(Frame(bare, optional, top.info))
  /\ UNCHANGED <<program, infos, next, returned, outcomes>>

Unspecified ==
  /\ ByKind("annotated") /\ Len(Specs) = 0
  /\ calls' = WithTop(Frame(bare.base, optional, top.info))
  /\ UNCHANGED <<program, infos, next, returned, outcomes>>

\* Mutant: the setting of field() wins.
Overridden_ByField(s, spec) ==
  [prefix |-> IF s.prefix # {} THEN s.prefix ELSE spec.prefix,
   encoding |-> The(IF spec.encoding # {} THEN spec.encoding ELSE {s.encoding}),
   codec |-> IF spec.codec # {} THEN spec.codec ELSE s.codec]

\* What CodecSpec sets replaces what the FieldInfo has.
Overridden(s, spec) ==
  [prefix |-> IF spec.prefix # {} THEN spec.prefix ELSE s.prefix,
   encoding |-> The(IF spec.encoding # {} THEN spec.encoding ELSE {s.encoding}),
   codec |-> IF spec.codec # {} THEN spec.codec ELSE s.codec]

ApplySpec ==
  /\ ByKind("annotated") /\ IsSpec("codec")
  /\ Specs[1].encoding \subseteq Encodings
  /\ infos' = [infos EXCEPT ![top.info] = Overridden(@, Specs[1])]
  /\ calls' = WithTop(Frame(bare.base, optional, top.info))
  /\ UNCHANGED <<program, next, returned, outcomes>>

\* The prefix is written before the encoding is found to be unknown.
SpecRaises ==
  /\ ByKind("annotated") /\ IsSpec("codec")
  /\ ~(Specs[1].encoding \subseteq Encodings)
  /\ infos' = [infos EXCEPT ![top.info] =
                 Overridden(@, [Specs[1] EXCEPT !.encoding = {}, !.codec = {}])]
  /\ Raise("SchemaError") /\ UNCHANGED program

\* The base of a numeric spec is not looked at.
UseNumeric ==
  /\ ByKind("annotated") /\ Len(Specs) = 1 /\ Numeric(Specs[1])
  /\ Return(NumericCodec(Specs[1]))

UseModel == ByKind("model") /\ Return({[kind |-> "model", name |-> bare.name]})
UseEnum == ByKind("enum") /\ Return(EnumCodec(bare, info))

\* Mutant: the items are resolved with the list's own FieldInfo.
OpenList_OwnInfo ==
  /\ ByKind("list") /\ Len(bare.args) = 1
  /\ calls' = WithTop(Frame(bare, optional, top.info))
                \o <<Frame(bare.args[1], FALSE, top.info)>>
  /\ UNCHANGED <<program, infos, next, returned, outcomes>>

\* list_codec_factory calls resolve for the items, with a FieldInfo of theirs.
OpenList ==
  /\ ByKind("list") /\ Len(bare.args) = 1
  /\ infos' = Append(infos, FreshInfo)
  /\ calls' = Append(WithTop(Frame(bare, optional, top.info)),
                     Frame(bare.args[1], FALSE, Len(infos) + 1))
  /\ UNCHANGED <<program, next, returned, outcomes>>

NotOneItem ==
  /\ ByKind("list") /\ Len(bare.args) # 1
  /\ Raise("SchemaError") /\ UNCHANGED <<program, infos>>

CloseList ==
  /\ calls # << >>
  /\ \E item \in returned :
       Return(IF item.optional THEN {} ELSE ListCodec(item.codec, info))

Unknown ==
  /\ ByKind("class") \/ ByKind("generic")
  /\ Raise("SchemaError") /\ UNCHANGED <<program, infos>>

-----------------------------------------------------------------------------
(* __init_subclass__ once resolve has returned.                            *)

\* _is_valid_value ends in isinstance, which refuses a tuple[int, int], a
\* Literal and the like.
NoClass[a \in Annotations] ==
  CASE a.kind = "annotated" -> NoClass[a.base]
    [] a.kind = "union" -> \E i \in DOMAIN a.args : NoClass[a.args[i]]
    [] OTHER -> a.kind = "generic"

DefaultRaises ==
  /\ calls = << >>
  /\ \E r \in returned : Field.default /\ NoClass[r.annotation]
  /\ Raise("TypeError") /\ UNCHANGED <<program, infos>>

\* The FieldInfo's codec is looked at again.
AddField ==
  /\ calls = << >>
  /\ \E r \in returned :
       /\ ~(Field.default /\ NoClass[r.annotation])
       /\ LET given == infos[Field.info].codec
          IN outcomes' = Append(outcomes,
               [raised |-> "nothing", optional |-> r.optional,
                codec |-> IF given # {} THEN given ELSE {r.codec}])
  /\ next' = next + 1 /\ returned' = {}
  /\ UNCHANGED <<program, infos, calls>>

Next ==
  \/ Resolve \/ Refuse \/ UseGiven \/ Unhashable \/ UseTable
  \/ TwoSpecs \/ Unspecified \/ ApplySpec \/ SpecRaises \/ UseNumeric
  \/ UseModel \/ UseEnum \/ OpenList \/ NotOneItem \/ CloseList \/ Unknown
  \/ DefaultRaises \/ AddField

Spec == Init /\ [][Next]_vars

\* A class statement runs in one thread and waits for nothing.
FairSpec == Spec /\ WF_vars(Next)

-----------------------------------------------------------------------------
(* What an annotation and a field() stand for, seen as a whole.            *)

\* The layers from the annotation inwards, as far as there is one way.
Layers[a \in Annotations] ==
  <<a>> \o CASE a.kind = "annotated" -> Layers[a.base]
             [] a.kind = "union" /\ Len(a.args) = 1 -> Layers[a.args[1]]
             [] OTHER -> << >>

\* The code looks an annotation up before it looks into it.
Tabled(a) == a.kind # "union" /\ a \in DOMAIN Rules

SpecsIn(a) == IF a.kind = "annotated" /\ ~Tabled(a) THEN ToSet(a.specs) ELSE {}
SettingsIn(a) == {s \in SpecsIn(a) : s.kind = "codec"}
NoneIn(a) == a.kind = "union" /\ a.none
MayBeNone(a) == \E i \in DOMAIN Layers[a] : NoneIn(Layers[a][i])

\* The layer that decides: the outermost with a rule, a number format or a
\* codec, and otherwise the type.
Decides(a) ==
  Tabled(a) \/ \E s \in SpecsIn(a) : Numeric(s) \/ (s.kind = "codec" /\ s.codec # {})
Deciding(layers) ==
  Min({Len(layers)} \cup {i \in DOMAIN layers : Decides(layers[i])})

\* Inner CodecSpecs override outer ones, and all of them field().
Innermost(layers, default, setting) ==
  LET I == {i \in DOMAIN layers : \E x \in SettingsIn(layers[i]) : x[setting] # {}}
  IN IF I = {} THEN default ELSE UNION {x[setting] : x \in SettingsIn(layers[Max(I)])}

SettingsAt(layers, s) ==
  [prefix |-> Innermost(layers, s.prefix, "prefix"),
   encoding |-> The(Innermost(layers, {s.encoding}, "encoding")),
   codec |-> Innermost(layers, s.codec, "codec")]

Unsupported(a) ==
  \/ a.kind = "union" /\ Len(a.args) > 1
  \/ a.kind = "annotated" /\ ~Tabled(a) /\ Len(a.specs) > 1
  \/ \E s \in SettingsIn(a) : ~(s.encoding \subseteq Encodings)

\* The codec that the layer which decides stands for, that of the items of a
\* list being Item[list].
Chosen(layer, settings, Item) ==
  LET formats == {x \in SpecsIn(layer) : Numeric(x)}
  IN IF formats # {} THEN NumericCodec(The(formats))
     ELSE IF settings.codec # {} THEN settings.codec
     ELSE IF Tabled(layer) THEN ScalarCodec(Rules[layer], settings)
     ELSE CASE layer.kind = "model" -> {[kind |-> "model", name |-> layer.name]}
            [] layer.kind = "enum" -> EnumCodec(layer, settings)
            [] layer.kind = "list" ->
                 UNION {ListCodec(c, settings) : c \in Item[layer]}
            [] OTHER -> {}

\* The codec for an annotation of these layers and settings s.
Selected(layers, s, Item) ==
  LET n == Deciding(layers)
  IN IF \E i \in 1..n : Unsupported(layers[i]) THEN {}
     ELSE Chosen(layers[n], SettingsAt(SubSeq(layers, 1, n), s), Item)

\* Items are selected from their own annotation and nothing else.
SelectedItem[list \in Annotations] ==
  IF list.kind = "list" /\ Len(list.args) = 1
  THEN Selected(Layers[list.args[1]], FreshInfo, SelectedItem) ELSE {}

SelectedCodec(a, s) ==
  IF s.codec # {} THEN s.codec ELSE Selected(Layers[a], s, SelectedItem)

\* Something, possibly in a layer that need not be looked at, is unsupported.
Questionable[a \in Annotations] ==
  \E i \in DOMAIN Layers[a] :
    LET layer == Layers[a][i]
    IN \/ Unsupported(layer)
       \/ layer.kind = "list" /\ \E j \in DOMAIN layer.args :
            MayBeNone(layer.args[j]) \/ Questionable[layer.args[j]]

FieldOf(n) == program.fields[n]
Stated(n) == program.infos[FieldOf(n).info]
FirstUse(n) == \A m \in 1..n - 1 : FieldOf(m).info # FieldOf(n).info

\* The CodecSpecs around the types of the fields so far that FieldInfo i is of.
Met(i) ==
  UNION {SettingsIn(a) : a \in UNION {ToSet(Layers[FieldOf(n).annotation]) :
    n \in {m \in 1..Len(program.fields) : m <= next /\ FieldOf(m).info = i}}}

-----------------------------------------------------------------------------
(* Properties.                                                             *)

\* resolve: frames of calls that wait are lists of one item, each call has a
\* FieldInfo of its own, and a codec is known when a field is accepted.
TypeOK ==
  /\ Program(program)
  /\ DOMAIN infos = 1..Len(infos) /\ Len(program.infos) <= Len(infos)
  /\ \A i \in DOMAIN infos : Settings(infos[i])
  /\ next \in 1..Len(program.fields) + 1 /\ Len(outcomes) = next - 1
  /\ \A i \in DOMAIN calls :
       /\ calls[i].annotation \in Annotations /\ calls[i].optional \in BOOLEAN
       /\ calls[i].info \in DOMAIN infos
       /\ i < Len(calls) => calls[i].annotation.kind = "list" /\ Len(calls[i].annotation.args) = 1
       /\ \A j \in 1..i - 1 : calls[j].info # calls[i].info
  /\ Cardinality(returned) <= 1
  /\ \A n \in DOMAIN outcomes : (outcomes[n].raised = "nothing") = (outcomes[n].codec # {})

\* The settings of a field, of its list and of the list's items do not mix:
\* the codec is the one that field(), the CodecSpecs around the type and the
\* type ask for, and SchemaError is raised if there is none, or something in
\* the annotation is unsupported.
OwnSettings ==
  \A n \in DOMAIN outcomes : FirstUse(n) =>
    LET a == FieldOf(n).annotation
        selected == SelectedCodec(a, Stated(n))
    IN /\ outcomes[n].raised = "nothing" =>
            outcomes[n].codec = selected /\ (outcomes[n].optional => MayBeNone(a))
       /\ outcomes[n].raised = "SchemaError" =>
            selected = {} \/ Questionable[a] \/ Stated(n).encoding \notin Encodings

\* A FieldInfo used again, also after a class statement that was refused half
\* way, has no settings but its own and those of the CodecSpecs it met.
LeaksConfined ==
  \A i \in DOMAIN program.infos :
    LET own == program.infos[i]
    IN /\ infos[i].prefix \in {own.prefix} \cup {s.prefix : s \in Met(i)}
       /\ infos[i].codec \in {own.codec} \cup {s.codec : s \in Met(i)}
       /\ infos[i].encoding \in {own.encoding} \cup UNION {s.encoding : s \in Met(i)}

\* field(codec=...) has priority over metadata, rules and the type, whatever
\* was declared with this FieldInfo before.
GivenWins ==
  \A n \in DOMAIN outcomes :
    outcomes[n].raised = "nothing" /\ Stated(n).codec # {} =>
      outcomes[n].codec = Stated(n).codec

\* resolve comes back from every annotation.
Terminates == <>(next > Len(program.fields))

\* docs/api/extensions.rst:43: "Сначала отделяется optional-часть аннотации",
\* the optional part is taken off before a codec is selected.
OptionalFirst ==
  \A n \in DOMAIN outcomes : outcomes[n].raised = "nothing" =>
    outcomes[n].optional = MayBeNone(FieldOf(n).annotation)

\* core.py:76-78: "Unsupported or conflicting settings raise SchemaError".
\* Metadata that cannot be hashed, which raise TypeError too, are left aside.
SchemaErrorOnly ==
  \A n \in DOMAIN outcomes : Hashable[FieldOf(n).annotation] =>
    outcomes[n].raised # "TypeError"
=============================================================================
