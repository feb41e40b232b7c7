----------------------------- MODULE MCResolver -----------------------------
(* Annotations of up to four layers around ten types, with lists of lists *)
(* and every kind of spec; "VarInt" is no prefix and "bogus" no encoding.  *)
EXTENDS Resolver, TLC

Class(name) == [kind |-> "class", name |-> name]
Number == Class("int")
Str == Class("str")
Tag == Class("tag")  \* configure_codecs() has a rule for it
Tuple == [kind |-> "generic", name |-> "tuple[int, int]"]
Model == [kind |-> "model", name |-> "Point"]
Enum(mixin) == [kind |-> "enum", name |-> "Color", mixin |-> mixin]

Types == {Number, Str, Class("bytes"), Tag, Class("object"), Tuple, Model,
          Enum("str"), Enum("int"), Enum("none")}

MCIntegerFormats == {8, 16, 32, 64} \X BOOLEAN

Optional(S) == [kind : {"union"}, args : [1..1 -> S], none : {TRUE}]
Lists(S) == [kind : {"list"}, args : [1..1 -> S]]
With(S, lists) ==
  [kind : {"annotated"}, base : S, specs : lists, hashable : {TRUE}]
Noted(S) ==
  [kind : {"annotated"}, base : S, specs : {<< >>}, hashable : BOOLEAN]

Codec(prefix, encoding, codec) ==
  [kind |-> "codec", prefix |-> prefix, encoding |-> encoding, codec |-> codec]
Given1 == [kind |-> "given", name |-> "one"]
Given2 == [kind |-> "given", name |-> "two"]

Byte == [kind |-> "integer", bits |-> 8, signed |-> FALSE]
Float == [kind |-> "float", bits |-> 32]
VarInt == [kind |-> "varint", signed |-> TRUE]
Bad == {[kind |-> "integer", bits |-> 24, signed |-> FALSE], [kind |-> "float", bits |-> 16],
        [kind |-> "other"]}

Short == Codec({"2"}, {}, {})
Ascii == Codec({}, {"ascii"}, {})
Own == Codec({"VarUInt"}, {}, {Given1})
Bogus == Codec({"1"}, {"bogus"}, {Given1})

Singles == [1..1 -> {Short, Ascii, Own, Bogus, VarInt}]
Many == Singles \cup [1..1 -> Bad \cup {Byte, Float, Codec({"VarInt"}, {}, {})}]
                \cup {<<Short, Ascii>>}

\* Rules for types, and for annotations that are more than a type.
MCRules ==
  (Number :> "int") @@ (Str :> "str") @@ (Class("bytes") :> "bytes") @@ (Tag :> "custom")
  @@ ([kind |-> "annotated", base |-> Number, specs |-> <<Own>>, hashable |-> TRUE] :> "str")
  @@ ([kind |-> "annotated", base |-> Str, specs |-> <<Short, Ascii>>, hashable |-> TRUE]
        :> "custom")
  @@ ([kind |-> "list", args |-> <<Number>>] :> "bytes")

Pair == [kind |-> "list", args |-> <<Number, Str>>]
Choice == [kind |-> "union", args |-> <<Number, Str>>, none |-> FALSE]
Few == {Str, Number, Model}

Level1 == Types \cup Optional(Types) \cup Lists(Types) \cup {Pair, Choice}
Level2 == With(Level1, Many) \cup Noted(Few)
Inner == With(Few \cup Optional(Few) \cup Lists(Few), Singles) \cup Noted({Str})
Level3 == Optional(Inner) \cup Lists(Inner) \cup Lists(Optional(Few))
Level4 == With(Level3, Singles) \cup Lists(Lists(Inner))
MCAnnotations == Level1 \cup Level2 \cup Inner \cup Level3 \cup Lists(Inner) \cup Level4

Info(prefix, encoding, codec) ==
  [prefix |-> prefix, encoding |-> encoding, codec |-> codec]
Infos == {FreshInfo, Info({"1"}, "ascii", {}), Info({"VarInt"}, "utf-8", {}),
          Info({}, "utf-8", {Given2})}

One(a, s, default) ==
  [infos |-> <<s>>, fields |-> <<[annotation |-> a, info |-> 1, default |-> default]>>]

\* Two fields of one statement, or of two that share a FieldInfo.
Two(a, b, s) ==
  [infos |-> <<s>>,
   fields |-> <<[annotation |-> a, info |-> 1, default |-> FALSE],
                [annotation |-> b, info |-> 1, default |-> FALSE]>>]

Shared == With({Str, [kind |-> "list", args |-> <<Str>>], Choice}, Many)

MCPrograms ==
  {One(a, s, FALSE) : a \in MCAnnotations, s \in Infos}
  \cup {One(a, s, TRUE) : a \in Level1 \cup Level2, s \in Infos}
  \cup {Two(a, b, s) : a \in Shared, b \in Shared \cup {Str, Pair}, s \in Infos}
  \cup {One([kind |-> "class", name |-> "str"], Info({}, "bogus", {}), FALSE)}
=============================================================================
