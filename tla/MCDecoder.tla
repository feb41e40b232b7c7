----------------------------- MODULE MCDecoder -----------------------------
(* Decoder with bytes of 8 values and varints of up to 31.                   *)
(* Two versions of a nested class and of a class around it, and classes     *)
(* that together use every codec, header element and byte order.            *)
EXTENDS Streaming

UInt(w) == [kind |-> "int", width |-> w, length |-> w, signed |-> FALSE]
SInt(w) == [UInt(w) EXCEPT !.signed = TRUE]
VarUInt == [kind |-> "varint", signed |-> FALSE]
VarInt == [kind |-> "varint", signed |-> TRUE]
Bool == [kind |-> "bool"]
Fixed(n) == [kind |-> "fixed", length |-> n]
Bytes(p) == [kind |-> "bytes", prefix |-> p]
Text(p, e) == [kind |-> "str", prefix |-> p, encoding |-> e]
Str(p) == Text(p, "utf-8")
Enum(c, members) == [kind |-> "enum", value |-> c, members |-> members]
List(p, c) == [kind |-> "list", prefix |-> p, item |-> c]
Float(w, step) == [kind |-> "float", width |-> w, length |-> w, signed |-> TRUE, step |-> step]
UUID(n) == [kind |-> "uuid", length |-> n]
Datetime(p) == [kind |-> "datetime", prefix |-> p, encoding |-> "utf-8"]
Model(m) == [kind |-> "model", model |-> m]

Required(c) == [codec |-> c, flag |-> {}]
Optional(c, f) == [codec |-> c, flag |-> {f}]
Element_(k, c) == [kind |-> k, codec |-> c]

Constructor(c) == Element_("Constructor", c)
PayloadLength(c) == Element_("PayloadLength", c)
Flags(c) == Element_("Flags", c)

Class(header, order, fields) ==
  [constructor |-> 5, header |-> header, order |-> order, fields |-> fields,
   refuses |-> {}]

Framed == <<Flags(UInt(1)), Constructor(UInt(1)), PayloadLength(UInt(1))>>

MCModels ==
  [Point |-> Class(Framed, "little", <<Required(SInt(1))>>),
   Point2 |-> Class(Framed, "little", <<Required(SInt(1)), Optional(Bool, 0)>>),
   Path |-> Class(<<Constructor(UInt(2)), PayloadLength(VarUInt), Flags(VarUInt)>>,
                  "little",
                  <<Required(List(UInt(1), Model("Point"))),
                    Optional(SInt(2), 1)>>),
   Path2 |-> Class(<<Constructor(UInt(2)), PayloadLength(VarUInt), Flags(VarUInt)>>,
                   "little",
                   <<Required(List(UInt(1), Model("Point2"))),
                     Optional(SInt(2), 1),
                     Optional(Str(UInt(1)), 0)>>),
   Plain |-> Class(<< >>, "big",
                   <<Required(Enum(VarInt, {-1, 0, 4})),
                     Required(List(VarUInt, List(UInt(1), UInt(2)))),
                     Required(Fixed(1))>>),
   Loose |-> Class(<<PayloadLength(UInt(1))>>, "big",
                   <<Required(Bytes(UInt(1))), Required(Model("LooseEnd")),
                     Required([UInt(1) EXCEPT !.length = 2])>>),
   LooseEnd |-> Class(<< >>, "big", <<Required([UInt(1) EXCEPT !.length = 2])>>),
   Event |-> Class(<<Flags(UInt(1)), PayloadLength(VarUInt)>>, "little",
                   <<Required(Datetime(UInt(1))), Optional(Float(1, 2), 2),
                     Required(List(UInt(1), Float(2, 1))), Required(UUID(2))>>),
   Note |-> Class(<< >>, "little", <<Required(Text(UInt(1), "utf-16")), Required(Bool)>>),
   Blob |-> Class(<<PayloadLength(UInt(1))>>, "little",
                  <<Required(Enum(Text(UInt(1), "utf-16"), {<<1>>})),
                    Required(Text(UInt(1), "base64"))>>),
   Log |-> Class(<< >>, "big", <<Required(List(UInt(1), Datetime(UInt(1))))>>),
   Around |-> [Class(<<Flags(UInt(1))>>, "big",
                 <<Optional(Model("Plain"), 2), Optional(Bytes(VarUInt), 0),
                   Required(Bool)>>) EXCEPT !.refuses = {<<{}, {}, {FALSE}>>}]]

\* A codec and those it calls, apart from a nested model's.
RECURSIVE Parts(_)
Parts(c) ==
  {c} \cup (IF c.kind \in {"bytes", "str", "list", "datetime"} THEN Parts(c.prefix) ELSE {})
      \cup (IF c.kind = "list" THEN Parts(c.item) ELSE {})
      \cup (IF c.kind = "enum" THEN Parts(c.value) ELSE {})
MCCodecs ==
  UNION {UNION {Parts(MCModels[m].fields[i].codec) : i \in DOMAIN MCModels[m].fields} \cup
         {MCModels[m].header[i].codec : i \in DOMAIN MCModels[m].header} :
           m \in DOMAIN MCModels}

\* A text is the sequence of its characters.  "utf-16" puts a mark before it,
\* and reads texts with and without it; "base64" is only for the empty one.
Mark == 6
MCTextOf(encoding, bytes) ==
  CASE 7 \in Range(bytes) -> {}
    [] encoding = "utf-8" -> {bytes}
    [] encoding = "utf-16" ->
         {IF bytes # << >> /\ bytes[1] = Mark THEN Tail(bytes) ELSE bytes}
    [] encoding = "base64" -> {t \in {<< >>} : bytes = t}
MCBytesOf(encoding, text) ==
  CASE 7 \in Range(text) -> {}
    [] encoding = "utf-8" -> {text}
    [] encoding = "utf-16" -> {<<Mark>> \o text}
    [] encoding = "base64" -> {}

\* "1" is a shorter form of "12".
MCIso == [t \in {<<1>>, <<1, 2>>, <<2>>} |-> IF t = <<1>> THEN <<1, 2>> ELSE t]

I(m, values) == [model |-> m, values |-> values]

Points == {I("Point", <<{n}>>) : n \in {-4, 3}}
Points2 == {I("Point2", <<{n}, b>>) : n \in {-4, 3}, b \in {{}, {TRUE}}}
Lists(S, n) == UNION {[1..k -> S] : k \in 0..n}
Paths == {I("Path", <<{l}, o>>) : l \in Lists(Points, 2), o \in {{}, {-5}}}
Paths2 == {I("Path2", <<{l}, o, t>>) :
             l \in Lists(Points2, 1), o \in {{}, {-5}}, t \in {{}, {<<1, 2>>}}}
Plains == {I("Plain", <<{e}, {l}, {<<6>>}>>) :
             e \in {-1, 4}, l \in {<< >>, <<<<9, 1>>, << >>>>}}
Arounds == {I("Around", <<p, b, {TRUE}>>) :
              p \in {{}} \cup {{x} : x \in Plains}, b \in {{}, {<< >>}, {<<7>>}}}

\* A field of class Point may hold a Point2, like any object with its methods.
Substitutes ==
  {I("Path", <<{l}, {-5}>>) : l \in Lists(Points2, 1) \cup [1..2 -> {I("Point2", <<{3}, {TRUE}>>)}]}
Events == {I("Event", <<{d}, f, {l}, {<<7, 0>>}>>) :
             d \in {<<1, 2>>, <<2>>}, f \in {{}} \cup {{x} : x \in {-8, -3, 3, 6, 7}},
             l \in {<< >>, <<-3, 7>>}}

Notes == {I("Note", <<{t}, {TRUE}>>) : t \in {<< >>, <<Mark>>, <<1, 2>>}}

\* Two messages of a class that some version of it reads.
Sends(r, S, last) ==
  {[reader |-> r, instances |-> <<a, b>>, bytes |-> Stream(<<a, b>>)] :
     a \in {x \in S : Encode(x) # {}},
     b \in {x \in last : Encode(x) # {}}}

MCStreams ==
  UNION {Sends("Point", Points, Points), Sends("Point2", Points, Points),
         Sends("Point", Points2, Points2), Sends("Point2", Points2, Points2),
         Sends("Path", Paths, {I("Path", <<{<<I("Point", <<{1}>>)>>}, {2}>>)}),
         Sends("Path2", Paths, {I("Path", <<{<<I("Point", <<{1}>>)>>}, {2}>>)}),
         Sends("Path", Paths2,
               {I("Path2", <<{<<I("Point2", <<{1}, {FALSE}>>)>>}, {2}, {<<3>>}>>)}),
         Sends("Path2", Paths2,
               {I("Path2", <<{<<I("Point2", <<{1}, {FALSE}>>)>>}, {2}, {<<3>>}>>)}),
         Sends("Path", Substitutes, {I("Path", <<{<<I("Point2", <<{1}, {FALSE}>>)>>}, {2}>>)}),
         Sends("Event", Events, {I("Event", <<{<<2>>}, {}, {<<1>>}, {<<0, 7>>}>>)}),
         Sends("Note", Notes, Notes),
         Sends("Plain", Plains, {I("Plain", <<{0}, {<<<<10>>>>}, {<<7>>}>>)}),
         Sends("Around", Arounds,
               {I("Around", <<{I("Plain", <<{0}, {<< >>}, {<<7>>}>>)}, {<<1, 2>>}, {FALSE}>>)})}

\* Foreign bytes by class, after a first part that gets past the header.
MCForeign ==
  UNION {{[reader |-> "Point2", buffer |-> <<f, 5>> \o b] :
            f \in {0, 1, 3}, b \in Lists({0, 1, 2, 3, 7}, 3)},
         {[reader |-> "Plain", buffer |-> b] : b \in Lists({0, 1, 2, 4}, 5)},
         {[reader |-> "Around", buffer |-> <<f>> \o b] :
            f \in {0, 5}, b \in Lists({0, 1, 4}, 5)},
         {[reader |-> "Path2", buffer |-> <<5, 0, n, f>> \o b] :
            n \in {2, 5}, f \in {0, 3}, b \in Lists({0, 1, 4}, 5)},
         {[reader |-> "Event", buffer |-> <<f, n, 1, 1, d>> \o b] :
            f \in {0, 4}, n \in {5, 6}, d \in {1, 2, 3}, b \in Lists({0, 2, 4}, 4)},
         {[reader |-> "Note", buffer |-> <<n>> \o b] :
            n \in 0..3, b \in Lists({0, 1, 6, 7}, 4)},
         {[reader |-> "Note", buffer |-> <<7, m, 1, 1, 1, 1, 1, 1>> \o b] :
            m \in {1, 6}, b \in Lists({0, 1}, 1)},
         {[reader |-> "Blob", buffer |-> <<n>> \o b] :
            n \in {3, 4}, b \in Lists({0, 1, 6}, 5)},
         {[reader |-> "Log", buffer |-> <<n>> \o b] :
            n \in {4, 6}, b \in Lists({0, 1, 2}, 6)},
         {[reader |-> "Loose", buffer |-> b] : b \in Lists({0, 1, 3, 5}, 6)}}
MCOffsets == 0..70

RECURSIVE Depth(_)
Depth(c) ==
  CASE c.kind = "enum" -> 1 + Depth(c.value)
    [] c.kind = "list" -> 1 + Depth(c.item)
    [] c.kind = "model" ->
         1 + Max({0} \cup {Depth(FieldsOf(c.model)[i].codec) : i \in DOMAIN FieldsOf(c.model)})
    [] OTHER -> 0

\* What Stable takes of the encodings.
ASSUME TextsAssumption ==
  \A e \in {"utf-8", "utf-16", "base64"}, b \in Lists(0..(ByteBase - 1), 2) :
    \A t \in MCTextOf(e, b) : \A w \in MCBytesOf(e, t) :
      MCTextOf(e, w) = {t} /\ (e = "utf-8" => w = b)

ASSUME CodecsAssumption == Built([c \in Codecs |-> Depth(c)])

None == {}
=============================================================================
