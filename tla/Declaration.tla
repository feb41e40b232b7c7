---------------------------- MODULE Declaration ----------------------------
(***************************************************************************)
(* What a "class M(ProtoModel): ..." statement does: ProtoModel's          *)
(* __init_subclass__ (core.py) with CodecResolver.resolve (resolver.py),   *)
(* the header rule and HeaderElement.validate (headers.py).                *)
(*                                                                         *)
(* Several threads execute class statements (imports run in parallel), and *)
(* a codec factory called for a field may itself execute one.  All classes *)
(* share one CodecResolver, whose scalar_codecs each declaration replaces, *)
(* and FieldInfo objects may be shared too.  A setting that may be absent  *)
(* is a set of at most one element.                                        *)
(***************************************************************************)
EXTENDS Integers, Sequences, FiniteSets

CONSTANTS
  Classes,       \* the class statements
  ProtoModel,    \* the root of the models, declared by the library
  Threads,
  Types,         \* annotations, without their "| None"
  Headers, Default,  \* __header__ tuples, told apart by identity
  Constructors,  \* the headers with a Constructor element
  FlagBits,      \* FlagBits[h]: bits of the Flags element of h, {} if none
  Infos,         \* FieldInfo objects
  Codecs, Invalid,   \* codec objects given by name, and one that is no codec
  Builtin, NoRule,   \* results of looking a type up: a codec of the library,
                     \* no codec at all, or else the class that has the rule
  BaseTable,     \* ProtoModel._scalar_codecs and the built-in kinds of types
  Programs       \* the programs considered

Models == Classes \cup {ProtoModel}
Rules == Classes \cup {Builtin, NoRule}
Option(S) == {T \in SUBSET S : \A x, y \in T : x = y}

\* One annotation of a class body and the field(...) assigned to it.
Annotation ==
  [serialised: BOOLEAN,       \* FALSE: an ordinary value is assigned
   type: Types, optional: BOOLEAN,
   info: Infos,               \* the FieldInfo object
   spec: Option(Codecs),      \* Annotated[..., CodecSpec(codec=...)]
   flag: Option(Int), index: Option(Int),
   default: Option({"none", "right", "wrong"}), factory: BOOLEAN,
   nested: Option(Classes)]   \* the class its type's codec factory declares

ClassDef ==
  [bases: Seq(Classes),       \* ProtoModel itself is left out
   mro: Seq(Classes),         \* the class and its ancestors, as Python orders
   rules: SUBSET Types,       \* what its own configure_codecs returns
   configures: BOOLEAN,       \* it overrides configure_codecs
   header: Option(Headers), constructor: BOOLEAN,  \* is it an int?
   resolvable: BOOLEAN,       \* get_type_hints finds every name, and no
                              \* field() lacks an annotation
   body: Seq(Annotation)]

Program ==
  [classes: [Classes -> ClassDef],
   infos: [Infos -> Option(Codecs \cup {Invalid})],  \* field(codec=...)
   agenda: [Threads -> Seq(Classes)]]  \* what each thread declares, in order

ASSUME DeclarationAssumption ==
  /\ Programs \subseteq Program
  /\ Default \in Headers /\ Constructors \subseteq Headers
  /\ ProtoModel \notin Classes
  /\ FlagBits \in [Headers -> Option(Nat)]
  /\ BaseTable \in [Types -> {Builtin, NoRule}]
  /\ Builtin # NoRule /\ Builtin \notin Classes /\ NoRule \notin Classes
  /\ Invalid \notin Codecs /\ Codecs \cap Rules = {} /\ Invalid \notin Rules

VARIABLES
  program,   \* see Program
  turn,      \* turn[t]: which of its classes t is at
  at,        \* at[c]: where the declaration of c is
  pos,       \* pos[c]: the annotation it is at
  fields,    \* fields[c]: the FieldMetadata collected, in order of annotation
  held,      \* held[c]: the codec resolve returned for the annotation
  infoCodec, \* infoCodec[i]: FieldInfo.codec
  resolver,  \* the class whose table is the shared resolver's scalar_codecs
  since,     \* history: since[c]: those it was given while c was declared
  table,     \* table[c] = c._scalar_codecs
  header,    \* c.__header__
  schema     \* c.__schema__.fields, in index order

vars == <<program, turn, at, pos, fields, held, infoCodec, resolver, since, table,
          header, schema>>

text == <<program, infoCodec>>
locals == <<pos, fields, held>>
attributes == <<resolver, since, table, header, schema>>

def(c) == program.classes[c]
Body(c) == def(c).body
Here(c) == Body(c)[pos[c]]
BaseSet(c) == {def(c).bases[i] : i \in DOMAIN def(c).bases}
Done == {"declared", "rejected"}
InProgress == {"header", "fields", "nested", "resolved"}

FirstBase(c) == IF def(c).bases = << >> THEN ProtoModel ELSE def(c).bases[1]

IndexesOf(fs) == {fs[i].index : i \in DOMAIN fs}
FlagsOf(fs) == UNION {fs[i].flag : i \in DOMAIN fs}

Init ==
  /\ program \in Programs
  /\ turn = [t \in Threads |-> 1]
  /\ at = [c \in Classes |-> "undeclared"]
  /\ pos = [c \in Classes |-> 1]
  /\ fields = [c \in Classes |-> << >>]
  /\ held = [c \in Classes |-> {}]
  /\ infoCodec = program.infos
  /\ resolver = ProtoModel
  /\ since = [c \in Classes |-> {}]
  /\ table = [c \in Models |-> BaseTable]
  /\ header = [c \in Models |-> Default]
  /\ schema = [c \in Models |-> << >>]

Goto(c, where) == at' = [at EXCEPT ![c] = where]
Reject(c) ==
  /\ Goto(c, "rejected")
  /\ UNCHANGED <<turn, text, locals, attributes>>

-----------------------------------------------------------------------------
(* The threads.                                                            *)

\* A class statement needs its bases; without one its name is unknown.
Start(t) ==
  /\ turn[t] <= Len(program.agenda[t])
  /\ LET c == program.agenda[t][turn[t]]
     IN /\ at[c] = "undeclared"
        /\ \A b \in BaseSet(c) : at[b] \in Done
        /\ Goto(c, IF \A b \in BaseSet(c) : at[b] = "declared"
                   THEN "configure" ELSE "rejected")
  /\ UNCHANGED <<turn, text, locals, attributes>>

Advance(t) ==
  /\ turn[t] <= Len(program.agenda[t])
  /\ at[program.agenda[t][turn[t]]] \in Done
  /\ turn' = [turn EXCEPT ![t] = @ + 1]
  /\ UNCHANGED <<at, text, locals, attributes>>

-----------------------------------------------------------------------------
(* __init_subclass__.                                                      *)

\* cls.configure_codecs() is the first definition in method resolution order.
Configures(c) ==
  LET mro == def(c).mro
      own == {i \in DOMAIN mro : def(mro[i]).configures}
  IN {mro[i] : i \in {j \in own : \A k \in own : j <= k}}

\* Its rules over those of cls._scalar_codecs, at this point the first base's.
NewTable(c) ==
  [ty \in Types |->
     IF \E o \in Configures(c) : ty \in def(o).rules
     THEN CHOOSE o \in Configures(c) : TRUE
     ELSE table[FirstBase(c)][ty]]

\* The declarations in progress may see the rules of c from now on.
SinceWith(c) ==
  [d \in Classes |->
     IF d = c \/ at[d] \in InProgress THEN since[d] \cup {c} ELSE since[d]]

\* Mutants: the parent's dict is updated in place; the shared resolver is not
\* told about the new table, or only if the class has rules of its own.
Configure_NoCopy(c) ==
  /\ at[c] = "configure"
  /\ table' = [table EXCEPT ![c] = NewTable(c), ![FirstBase(c)] = NewTable(c)]
  /\ resolver' = c /\ since' = SinceWith(c)
  /\ Goto(c, "header")
  /\ UNCHANGED <<turn, header, schema, text, locals>>

Configure_KeepsResolver(c) ==
  /\ at[c] = "configure"
  /\ table' = [table EXCEPT ![c] = NewTable(c)]
  /\ since' = SinceWith(c)
  /\ Goto(c, "header")
  /\ UNCHANGED <<turn, resolver, header, schema, text, locals>>

Configure_NewRules(c) ==
  /\ at[c] = "configure"
  /\ table' = [table EXCEPT ![c] = NewTable(c)]
  /\ resolver' = IF def(c).configures THEN c ELSE resolver
  /\ since' = SinceWith(c)
  /\ Goto(c, "header")
  /\ UNCHANGED <<turn, header, schema, text, locals>>

Configure(c) ==
  /\ at[c] = "configure"
  /\ table' = [table EXCEPT ![c] = NewTable(c)]
  /\ resolver' = c /\ since' = SinceWith(c)
  /\ Goto(c, "header")
  /\ UNCHANGED <<turn, header, schema, text, locals>>

\* The headers its bases bring that are not DEFAULT_HEADER.
CustomHeaders(c) == {header[b] : b \in BaseSet(c)} \ {Default}

HeaderConflict(c) ==
  /\ at[c] = "header"
  /\ def(c).header = {}
  /\ \E h, g \in CustomHeaders(c) : h # g
  /\ Reject(c)

\* Mutant: the first custom header is taken unseen.
ChooseHeader_First(c) ==
  /\ at[c] = "header"
  /\ header' = [header EXCEPT ![c] =
       CHOOSE h \in Headers :
         IF def(c).header # {} THEN h \in def(c).header
         ELSE IF CustomHeaders(c) # {} THEN h \in CustomHeaders(c)
         ELSE h = Default]
  /\ Goto(c, "fields")
  /\ UNCHANGED <<turn, resolver, since, table, schema, text, locals>>

ChooseHeader(c) ==
  /\ at[c] = "header"
  /\ \/ def(c).header # {}
     \/ \A h, g \in CustomHeaders(c) : h = g
  /\ header' = [header EXCEPT ![c] =
       CHOOSE h \in Headers :
         IF def(c).header # {} THEN h \in def(c).header
         ELSE IF CustomHeaders(c) # {} THEN h \in CustomHeaders(c)
         ELSE h = Default]
  /\ Goto(c, "fields")
  /\ UNCHANGED <<turn, resolver, since, table, schema, text, locals>>

AnnotationsRaise(c) == at[c] = "fields" /\ ~def(c).resolvable /\ Reject(c)

InBody(c) == at[c] = "fields" /\ def(c).resolvable
MoreBody(c) == InBody(c) /\ pos[c] <= Len(Body(c))

SkipValue(c) ==
  /\ MoreBody(c) /\ ~Here(c).serialised
  /\ pos' = [pos EXCEPT ![c] = @ + 1]
  /\ UNCHANGED <<turn, at, fields, held, text, attributes>>

\* What the shared resolver's table has for a type.
Lookup(ty) == table[resolver][ty]

\* Mutant: the CodecSpec's codec is forgotten.
UsesTable_IgnoresSpec(c) == infoCodec[Here(c).info] = {}

\* FieldInfo.codec first, then a CodecSpec, which is stored in the FieldInfo;
\* the table only after both.
UsesTable(c) == infoCodec[Here(c).info] = {} /\ Here(c).spec = {}

BothDefaults(c) ==
  /\ MoreBody(c) /\ Here(c).serialised
  /\ Here(c).default # {} /\ Here(c).factory
  /\ Reject(c)

Resolving(c) ==
  /\ MoreBody(c) /\ Here(c).serialised
  /\ ~(Here(c).default # {} /\ Here(c).factory)

ResolveGiven(c) ==
  /\ Resolving(c) /\ ~UsesTable(c)
  /\ LET i == Here(c).info
         given == IF infoCodec[i] # {} THEN infoCodec[i] ELSE Here(c).spec
     IN /\ infoCodec' = [infoCodec EXCEPT ![i] = given]
        /\ held' = [held EXCEPT ![c] = given]
  /\ Goto(c, "resolved")
  /\ UNCHANGED <<program, turn, pos, fields, attributes>>

UnknownType(c) ==
  /\ Resolving(c) /\ UsesTable(c)
  /\ Lookup(Here(c).type) = NoRule
  /\ Reject(c)

\* The factory may execute a class statement before it returns the codec.
ResolveByTable(c) ==
  /\ Resolving(c) /\ UsesTable(c)
  /\ Lookup(Here(c).type) # NoRule
  /\ held' = [held EXCEPT ![c] = {Lookup(Here(c).type)}]
  /\ LET inner == {n \in Here(c).nested : n # c /\ at[n] = "undeclared"
                                          /\ BaseSet(n) = {}}
     IN at' = [x \in Classes |->
                 IF x \in inner THEN "configure"
                 ELSE IF x # c THEN at[x]
                 ELSE IF inner # {} THEN "nested" ELSE "resolved"]
  /\ UNCHANGED <<turn, pos, fields, text, attributes>>

NestedReturns(c) ==
  /\ at[c] = "nested"
  /\ \A n \in Here(c).nested : at[n] = "declared"
  /\ Goto(c, "resolved")
  /\ UNCHANGED <<turn, text, locals, attributes>>

NestedRaises(c) ==
  /\ at[c] = "nested"
  /\ \E n \in Here(c).nested : at[n] = "rejected"
  /\ Reject(c)

\* FieldInfo.codec is read again here; it wins over what resolve returned.
CodecHere(c) ==
  LET i == Here(c).info IN IF infoCodec[i] # {} THEN infoCodec[i] ELSE held[c]

\* Mutant: a negative index is let through.
FieldRefused_NoSign(c) ==
  LET a == Here(c)
  IN \/ "none" \in a.default /\ ~a.optional
     \/ "wrong" \in a.default
     \/ a.flag # {} /\ ~a.optional
     \/ a.flag = {} /\ a.optional
     \/ \E f \in a.flag : f \notin 0..63 \/ f \in FlagsOf(fields[c])
     \/ Invalid \in CodecHere(c)

FieldRefused(c) ==
  LET a == Here(c)
  IN \/ "none" \in a.default /\ ~a.optional
     \/ "wrong" \in a.default
     \/ a.flag # {} /\ ~a.optional
     \/ a.flag = {} /\ a.optional
     \/ \E f \in a.flag : f \notin 0..63 \/ f \in FlagsOf(fields[c])
     \/ \E i \in a.index : i < 0
     \/ Invalid \in CodecHere(c)

RefuseField(c) == at[c] = "resolved" /\ FieldRefused(c) /\ Reject(c)

\* Mutant: the next index is the number of indexes in use.
IsIndex_Count(c, i) ==
  IF Here(c).index # {} THEN i \in Here(c).index
  ELSE i = Cardinality(IndexesOf(fields[c]))

\* The explicit index, or the smallest that no field so far has.
IsIndex(c, i) ==
  IF Here(c).index # {}
  THEN i \in Here(c).index
  ELSE /\ i \notin IndexesOf(fields[c])
       /\ \A j \in 0..(i - 1) : j \in IndexesOf(fields[c])

AddField(c) ==
  /\ at[c] = "resolved" /\ ~FieldRefused(c)
  /\ \E i \in Here(c).index \cup 0..Len(fields[c]), k \in CodecHere(c) :
       /\ IsIndex(c, i)
       /\ fields' = [fields EXCEPT ![c] = Append(@,
            [name |-> pos[c], index |-> i, flag |-> Here(c).flag, codec |-> k])]
  /\ pos' = [pos EXCEPT ![c] = @ + 1]
  /\ Goto(c, "fields")
  /\ UNCHANGED <<turn, held, text, attributes>>

EndOfBody(c) == InBody(c) /\ pos[c] > Len(Body(c))

\* min, max and number of the indexes of n own fields.
Contiguous(indexes, n) ==
  /\ 0 \in indexes
  /\ n - 1 \in indexes
  /\ \A i \in indexes : 0 <= i /\ i <= n - 1
  /\ Cardinality(indexes) = n

\* Mutant: the sort by index is missing.
Sorted_AsDeclared(fs) == fs

Sorted(fs) ==
  [p \in DOMAIN fs |-> fs[CHOOSE i \in DOMAIN fs : fs[i].index = p - 1]]

\* The schema of the first base stands in for a body without fields.
Effective(c) ==
  IF fields[c] # << >> THEN Sorted(fields[c]) ELSE schema[FirstBase(c)]

EffectiveFlags(c) ==
  FlagsOf(IF fields[c] # << >> THEN fields[c] ELSE schema[FirstBase(c)])

\* Mutant: the highest flag is compared with the number of bits.
SchemaRefused_OffByOne(c) ==
  \/ EffectiveFlags(c) # {} /\ FlagBits[header[c]] = {}
  \/ /\ fields[c] # << >>
     /\ ~Contiguous(IndexesOf(fields[c]), Len(fields[c]))
  \/ header[c] \in Constructors /\ ~def(c).constructor
  \/ \E b \in FlagBits[header[c]], f \in EffectiveFlags(c) : f > b

SchemaRefused(c) ==
  \/ EffectiveFlags(c) # {} /\ FlagBits[header[c]] = {}
  \/ /\ fields[c] # << >>
     /\ ~Contiguous(IndexesOf(fields[c]), Len(fields[c]))
  \/ header[c] \in Constructors /\ ~def(c).constructor
  \/ \E b \in FlagBits[header[c]], f \in EffectiveFlags(c) : f + 1 > b

RefuseSchema(c) == EndOfBody(c) /\ SchemaRefused(c) /\ Reject(c)

SetSchema(c) ==
  /\ EndOfBody(c) /\ ~SchemaRefused(c)
  /\ schema' = [schema EXCEPT ![c] = Effective(c)]
  /\ Goto(c, "declared")
  /\ UNCHANGED <<turn, resolver, since, table, header, text, locals>>

Step(c) ==
  \/ Configure(c) \/ HeaderConflict(c) \/ ChooseHeader(c)
  \/ AnnotationsRaise(c) \/ SkipValue(c) \/ BothDefaults(c)
  \/ ResolveGiven(c) \/ UnknownType(c) \/ ResolveByTable(c)
  \/ NestedReturns(c) \/ NestedRaises(c)
  \/ RefuseField(c) \/ AddField(c)
  \/ RefuseSchema(c) \/ SetSchema(c)

Next ==
  \/ \E t \in Threads : Start(t) \/ Advance(t)
  \/ \E c \in Classes : Step(c)

Spec == Init /\ [][Next]_vars

-----------------------------------------------------------------------------
Field == [name: Nat \ {0}, index: Nat, flag: Option(0..63),
          codec: Codecs \cup Rules]

\* The types of the declaration's locals and of the class attributes it sets.
TypeOK ==
  /\ turn \in [Threads -> Nat \ {0}]
  /\ at \in [Classes -> {"undeclared", "configure", "header", "fields",
                         "nested", "resolved"} \cup Done]
  /\ pos \in [Classes -> Nat \ {0}]
  /\ fields \in [Classes -> Seq(Field)]
  /\ held \in [Classes -> Option(Codecs \cup Rules \cup {Invalid})]
  /\ infoCodec \in [Infos -> Option(Codecs \cup {Invalid})]
  /\ resolver \in Models
  /\ since \in [Classes -> SUBSET Classes]
  /\ table \in [Models -> [Types -> Rules]]
  /\ header \in [Models -> Headers]
  /\ schema \in [Models -> Seq(Field)]

\* Decoding walks __schema__.fields by position: in every declared class the
\* field with index i stands at place i, each annotated field once, and an
\* explicit field(index=...) is honoured.
SchemaOrder ==
  \A c \in Classes : at[c] = "declared" =>
    /\ \A p \in DOMAIN schema[c] : schema[c][p].index = p - 1
    /\ \A p, q \in DOMAIN schema[c] :
         schema[c][p].name = schema[c][q].name => p = q
    /\ fields[c] # << >> =>
         /\ {schema[c][p].name : p \in DOMAIN schema[c]}
              = {n \in DOMAIN Body(c) : Body(c)[n].serialised}
         /\ \A p \in DOMAIN schema[c] :
              \A i \in Body(c)[schema[c][p].name].index : i = p - 1

\* Every optional field of a declared class, inherited ones included, has a bit
\* of its own, and the Flags element of the class's header has that bit.
FlagsFit ==
  \A c \in Classes : at[c] = "declared" =>
    \A p \in DOMAIN schema[c] : \A f \in schema[c][p].flag :
      /\ f \in 0..63
      /\ \A q \in DOMAIN schema[c] \ {p} : f \notin schema[c][q].flag
      /\ \E b \in FlagBits[header[c]] : f < b

\* Fields left to automatic indexes are written in the order they are declared.
AutomaticOrder ==
  \A c \in Classes : \A i, j \in DOMAIN fields[c] :
    LET f == fields[c][i]
        g == fields[c][j]
    IN i < j /\ Body(c)[f.name].index = {} /\ Body(c)[g.name].index = {} =>
         f.index < g.index

Unset(a) == program.infos[a.info] = {} /\ a.spec = {}

\* base.py: "Rules apply at class declaration, extending inherited rules and
\* replacing matching keys."  A field whose codec is not given by name gets the
\* codec that the table of its own class has for its type.
OwnTable ==
  \A c \in Classes : \A i \in DOMAIN fields[c] :
    LET a == Body(c)[fields[c][i].name]
    IN Unset(a) => fields[c][i].codec = table[c][a.type]

\* One thread declares, and no codec factory declares a class.
Alone ==
  /\ \A t, u \in Threads :
       program.agenda[t] # << >> /\ program.agenda[u] # << >> => t = u
  /\ \A c \in Classes : \A i \in DOMAIN Body(c) : Body(c)[i].nested = {}

\* The annotations that share a FieldInfo object have the same CodecSpec.
SpecsAgree ==
  \A c, d \in Classes : \A i \in DOMAIN Body(c), j \in DOMAIN Body(d) :
    Body(c)[i].info = Body(d)[j].info => Body(c)[i].spec = Body(d)[j].spec

\* The shared resolver has the rules of the class being declared, also after
\* declarations that were refused, as long as nothing else is declared.
OwnTableAlone == Alone /\ SpecsAgree => OwnTable

\* Whatever threads and codec factories declare at once, a field gets its codec
\* from the rules of its own class or of one whose statement reached the shared
\* resolver while its own was executed: nothing is left behind by declarations
\* that had ended, or were refused (core.py:176-181).
RulesOfOverlapping ==
  SpecsAgree =>
    \A c \in Classes : \A i \in DOMAIN fields[c] :
      LET a == Body(c)[fields[c][i].name]
      IN Unset(a) => \E d \in since[c] : fields[c][i].codec = table[d][a.type]

\* types/spec.py: CodecSpec's codec is "a ready-to-use codec instance instead
\* of automatic selection", and only "an explicit field(codec=...) takes
\* precedence": the codec of a field comes from its own annotation and field().
OwnSpec ==
  \A c \in Classes : \A i \in DOMAIN fields[c] :
    LET a == Body(c)[fields[c][i].name]
    IN ~Unset(a) =>
         fields[c][i].codec \in IF program.infos[a.info] # {}
                                THEN program.infos[a.info] ELSE a.spec

\* Storing the CodecSpec's codec in the FieldInfo object does no harm while the
\* annotations that share the object agree, whatever the threads interleave.
OwnSpecAgreed == SpecsAgree => OwnSpec

\* A class keeps the rules, header and schema it was declared with: declaring
\* a subclass, or failing to, does not change the parent's format.
DeclaredFrozen ==
  [][\A c \in Classes : at[c] = "declared" =>
       /\ table'[c] = table[c] /\ header'[c] = header[c]
       /\ schema'[c] = schema[c]]_vars

\* Without a header of its own a declared class has the custom header of each
\* base that has one: none is lost to DEFAULT_HEADER or to another base's.
HeaderAgreed ==
  \A c \in Classes : at[c] = "declared" /\ def(c).header = {} =>
    \A b \in BaseSet(c) : header[b] \in {Default, header[c]}

\* docs/inheritance.rst: a subclass without fields of its own keeps the
\* inherited ones, with several bases the first available set in method
\* resolution order.
InheritedFields ==
  \A c \in Classes :
    at[c] = "declared" /\ fields[c] = << >> /\ schema[c] = << >> =>
      \A i \in DOMAIN def(c).mro : schema[def(c).mro[i]] = << >>
=============================================================================
