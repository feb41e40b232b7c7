# A verification of bytespec

bytespec turns annotated Python classes into a binary format. This directory
holds TLA+ models of its parts, the TLC runs that check them and TLAPS proofs of
what they promise for every schema, number and codec.

## The system

| part | state it keeps | operations | who it meets |
|---|---|---|---|
| model declaration (`core.py` `__init_subclass__`, `base.py`) | per class `_scalar_codecs`, `__header__`, `__schema__`; one `CodecResolver` for all classes | a `class` statement | its bases' attributes, the resolver, application factories that may declare classes themselves |
| codec resolver (`resolver.py`, `resolvers.py`) | `scalar_codecs`, overwritten by each declaration; it writes into `FieldInfo` | `resolve` | the declaration in progress |
| instances (`core.py` `__init__`, `__validate__`) | the attributes, assignable at any time | create, assign, delete, compare | `decode_from` creates them, `encode` reads them |
| encoding (`core.py` `encode`) | locals only | `encode(include_constructor)` | codecs, header elements, nested instances |
| decoding (`core.py` `decode_from`, `decode`) | locals and a `HeaderDecodeContext` | read one message at an offset | codecs, header elements, nested models |
| header elements (`headers.py`) | none but their encoding | `validate`, `encode`, `decode` | the schema and the context |
| varints (`codecs/varint.py`) | loop variables | `encode`, `decode` | every `int` field and `VarUInt` prefix |
| other codecs (`codecs/`) | none | `encode`, `decode` | `ListCodec` and `ModelCodec` call other codecs |

### What is hard

* **One resolver for all.** `cls._resolver.scalar_codecs = cls._scalar_codecs`
  (`core.py:178`) is undone by any declaration that starts before this one ends:
  in a codec factory, or in another thread.
* **A schema is a protocol.** Indexes, flags and headers are given by hand, left
  out, or inherited; two ends that disagree about one bit read garbage.
* **Offsets.** Every codec returns the offset it stopped at, custom ones
  included. Boundaries are enforced in four places: `check_available`, the
  sliced payload, the comparison after each field and the list's own buffer.
* **Versions.** Messages of an older or newer class are read thanks to unknown
  flags and trailing payload being skipped, at every level of nesting.
* **Annotations nest.** `Optional`, `Annotated` and `list` in any order, each of
  which may carry settings that are written into the field's `FieldInfo` while
  the annotation is still being taken apart, and stay there if it is refused.
* **Fragments.** `decode_from` keeps nothing between calls; an application that
  gets a `DecodeError` for part of a message calls again with more bytes.
* **Ends of ranges.** The tenth byte of a varint, the lowest `VarInt`, the
  highest flag.

`PROJECT.json` lists these hazards line by line with the properties that
would catch them.

## Modules

```
Declaration ---- DeclarationProofs
Instance    ---- InstanceProofs
DecodeFrom  ---- DecodeFromProofs
    ^
    | implements
Decoder     ---- DecoderProofs      VarUInt  ---- VarUIntProofs  ---+
    |                |              Resolver ---- ResolverProofs ---+
    v                v                                              |
Wire        ---- WireProofs ----------------------------------- Recursion
    ^
    |
Encoding <- Streaming -> Decoder
```

Conventions: a value that may be `None` is a set of at most one element; an
operation that may raise is a set (`Wire`, `Encoding`) or an action of its own that
leaves the locals as they are (the state machines). Exceptions are states
such as `"EncodeError"` or `"rejected"`; their texts are left out. Each module
has, next to some definitions, a mutated form named `<definition>_<change>`,
which is not part of the specification: it is the plausible mistake that the
property beside it is there to exclude.

### VarUInt - `codecs/varint.py`

One behaviour is one caller of `VarUIntCodec` or `VarIntCodec`. `WriteByte` is
one turn of `encode`'s loop, `ReadMore`, `ReadLast` and the `Read...` refusals
one turn of `decode`'s. In mode "own" the caller decodes its own bytes inside a
larger buffer; in mode "foreign" it decodes any bytes and encodes the number it
got. The size of a group, the most bytes and the largest last group are
constants; the code's are 2^7, 10 and 1.

* `RoundTrip`: what was encoded is read back, at the right offset.
* `RangeExact`: exactly the documented ranges are accepted, signed and not.
* `Canonical`: a number has one representation: accepted foreign bytes are the
  ones `encode` writes.
* `RefusalExact`: a refused buffer has no varint at its start, and is called
  truncated only if more bytes could have helped.
* `SizeBound`, `Terminates`.

### Declaration - `core.py` `__init_subclass__`, `resolver.py`, `headers.py` `validate`

Threads execute class statements; each class has a place (`at`) in
`__init_subclass__`: its rules are merged and the shared resolver pointed to
them (`Configure`), the header chosen (`ChooseHeader`, `HeaderConflict`), the
annotations evaluated (`AnnotationsRaise`: a name in them is unknown, or a
`field(...)` has no annotation) and resolved one by one (`ResolveGiven`, `ResolveByTable`, `AddField`,
`RefuseField`) and the schema checked and set (`SetSchema`, `RefuseSchema`). A
factory may execute a class statement before it returns the codec (`nested`).
`infoCodec` is the mutable `FieldInfo.codec`.

* `SchemaOrder`: the field with index i stands at place i, each once, and
  explicit indexes are honoured. `AutomaticOrder`: fields without an explicit
  index keep their order.
* `FlagsFit`: bits are unique and inside the class's own Flags element, also for
  inherited fields under a new header.
* `OwnTable`, `OwnSpec`: a field's codec comes from its own annotation and from
  the rules of its own class. `OwnTableAlone` says that `OwnTable` holds for one
  thread without nested declarations, and `OwnSpecAgreed` that `OwnSpec` holds
  where no two annotations with different specs share a `FieldInfo`
  (`SpecsAgree`); otherwise they fail (see below). `OwnTable` needs `SpecsAgree`
  as well: a spec that a shared `FieldInfo` brought along wins over the table.
* `HeaderAgreed`: no base's custom header is lost.
* `RulesOfOverlapping`: whatever threads and factories declare at once, a field's
  codec is from the rules of its own class, or of one whose statement reached the
  shared resolver while its own was executed (the history `since`): what
  declarations that had ended, or were refused, left in the resolver has no
  effect. This is how far the damage behind finding 1 reaches.
* `DeclaredFrozen` (action property): declaring a class, successfully or not,
  changes no declared class.

A field's type is one name here, looked up in the table; what annotations are
made of is Resolver's subject.

### Resolver - `resolver.py`, `resolvers.py`, and its callers in `core.py`

`resolve` as a stack of calls. One action is one turn of its recursion: the
codec given to `field()` (`UseGiven`), the table of rules (`UseTable`,
`Unhashable`), an `Annotated` without, with one, or with several specs
(`Unspecified`, `ApplySpec`, `SpecRaises`, `UseNumeric`, `TwoSpecs`), a model or
enum, and a list, whose factory calls `resolve` again (`OpenList`, `CloseList`).
`Return` runs the codec's constructor, which may refuse the prefix. `infos` are
the mutable `FieldInfo` objects; a program may use one for several fields.
`AddField` and `DefaultRaises` are what `__init_subclass__` does next.

* `OwnSettings`: the codec is the one that field(), the specs around the type
  and the type ask for, worked out from the annotation as a whole
  (`SelectedCodec`) and not layer by layer; `SchemaError` only if there is none
  or something in the annotation is unsupported. Items get nothing of their
  list's settings, nor the list of theirs.
* `LeaksConfined`: a `FieldInfo` used again, also after a refusal half way, has
  no settings but its own and those of specs it met.
* `GivenWins`: a codec given to `field()` wins, whatever the `FieldInfo` was used
  for.
* `Terminates`: `resolve` comes back from every annotation.

The specs include one of a kind that no factory knows (`resolver.py:127`), although
the union `Spec` has none today.

`OwnSettings` speaks of the first use of a `FieldInfo` only; the second is what
finding 2 is about.

### DecodeFrom - the contract of `core.py` `decode_from`

`decode_from` with any header and any codecs: a field's codec may raise or
return any offset in `Returns`, negative ones included (which the next field's
codec or nobody notices), and keeps `ICodec`'s contract only if the input
says `lawful`. One action per header element, field and end of message; the
caller goes on at the offset it got, turns to another buffer, or calls again
with a longer one (`MoreBytes`).

* `Framed`: with `PayloadLength`, the payload is inside the buffer and the
  message ends where the header said, whatever the codecs do.
* `Complete`: one argument per field, `None` exactly where the bit is not set.
* `Inside`: messages do not overlap or leave the buffer.

### Wire - the format, and the codecs without parts

Bytes, codecs and schemas, and what one call of a codec without parts writes
(`LeafBytes`, one operator for each codec's `encode`) and reads (`Leaf`).
`IsCodec` and `IsSchema` are what the codecs' constructors and
`__init_subclass__` make sure of: a prefix is one of `UINT_CODEC_MAPPING`, the
values of an enum are text or integers (`enum_codec_factory`). `Varint` is the
reference definition that module VarUInt's runs show its loops to compute; it is
a recursive function, as are `Lawful`, `Advances` and `Power` (of the base of bytes),
so that proofs can use them.

A text is whatever the encodings say: `TextOf` and `BytesOf` are `bytes.decode` and
`str.encode`, each of which may raise. Several sequences of bytes may be one text, of
which `encode` writes one: with "utf-16" a byte order mark comes before the text,
and `decode` takes texts with and without it. The prefix counts what `encode` made.
A name that Python's registry knows but that is not for text (`NotEncodings`:
"base64") is accepted by the declaration and refused with `SchemaError` when a
message is read (`NoEncoding`).

A float is a whole number of the smallest float there is; a narrower field keeps
multiples of its `step` and rounds to the nearest, as `struct` does (`Nearest`).
A datetime is its `isoformat()`; `Iso` says which texts `fromisoformat` takes and
what `isoformat()` then makes of them, so that several texts stand for one
datetime.

### Encoding - `encode`, `ListCodec` and `ModelCodec` `encode`

The bytes of lists and instances, of a header and of a message. It follows
nested values with recursive operators, so nothing is proved about it; Decoder
knows it as the parameter `Encoded`, and only the runs give it this value.

### Instance - `core.py` `__init__`, `encode`, `decode`

A few instances of one class. An attribute refers to a cell, an object that may
be mutated and that others may refer to as well: `__init__` stores its arguments
as they are, so that one object may be passed for two fields, or an object that
another instance has, and the application may assign any object. A default is one
object for all; only what a factory or a codec makes is new. `Create` and `Decode` run `__init__` with its defaults,
factories and `__validate__` (an `__init__` that raises leaves nothing), the
application assigns, deletes, mutates and drops at any time, and `encode` is one
step per reading of an attribute (`ReadField`, `SkipNone`, `FieldRaises`) and one
per codec call (`WriteField`, `CodecRaises`). A codec reads an object in one
step. A message is its presence bits and the contents written, in order,
without names, and `Decode` has to find out which is whose.

* `OneReading`: what is written for a field is what the field held during the
  call, whatever other threads do, and never nothing for a required field.
* `FieldByField`: a decoded instance has in each field what was written for it;
  bits and payload agree, and an absent field is `None` despite its default.

The fields of one message may stem from different moments: `encode` takes no
snapshot, and no documentation says that it does. For the same reason a message
may be refused by the `__validate__` of the class that wrote it.

### Decoder, Streaming - `decode_from`, `ModelCodec`, `ListCodec`

Module Decoder has the calls in progress as a stack of frames over concrete bytes. `OpenModel` and
`OpenList` push, `ReturnModel` and `ReturnList` pop and deliver the value and
offset to the frame below. `Implements` says that the outermost frame
behaves as DecodeFrom, all calls above it being one step of its field.
`Receive` is the application's transport: some more of the stream arrives, and
the message that could not be read is tried again at its start. Streaming puts
it together with Encoding, and has the properties about both ends.

* `StreamExact`: messages come back as sent, floats rounded to their field;
  read by an older or newer version of the class, as far as the two share
  fields, in nested models and list items too; an instance of a subclass in a
  nested field comes back as the declared class; with only part of the bytes
  there, the whole messages come out and then a `DecodeError`, exactly if bytes
  are left.
* `Arrives`: in whatever fragments a stream arrives, all its messages are read.
* `Stable`: whatever was read from unknown bytes can be encoded, and that
  decodes to an equal instance. Classes with datetimes, or with texts in an
  encoding that has several forms of one (not in `OneForm`), may have to refuse:
  a list of compact ISO texts that just fits its prefix is read, and its longer
  form cannot be written; and a "utf-16" text of 254 bytes without a byte order
  mark is read behind a prefix of one byte and does not fit it with the mark.
  `MCDecoder` checks of its encodings what this takes of them
  (`TextsAssumption`).
* `Confined`: if its codecs keep `ICodec`'s contract (`Lawful`: `IntegerCodec`
  leaves that to whoever passes `struct_format` and `length`), no call sees bytes
  outside what its caller may see, or consumes more than it was given.
* `GetsOn`, which is why calls end: each of their steps raises, calls the codec of
  the next value (`Opens`), or ends some calls and leaves the one that goes on with
  less to do (`GetsTo`; `Left` counts header elements and fields, and the bytes of a
  list's items). `ICodec` asks of a list's item codec that it advances by at least one
  byte; `Advances` says which codecs do, and only a list of others is excepted. A
  fixed-size codec of no bytes does not, nor does a nested model whose header is
  at most a constructor (which is not read when it is nested) and whose required
  fields do not.
* `Terminates`.

## Runs

| run | what it explores |
|---|---|
| `varuint` | groups of 2 bits, 3 bytes, every number around both ranges, three surroundings, every buffer up to 4 bytes |
| `declaration` | every body of up to 3 annotations over 5 index settings, 3 flags and skipped values, under three headers; every default/flag/codec error alone and after a field; four classes in seven inheritance shapes with own and inherited headers, rules and fields; `field(codec=...)`, a codec or not, in a `FieldInfo` that fields of three classes share; two threads, or one after the other, and factories that declare a class, which may be refused |
| `declaration_nested`, `declaration_shared_fieldinfo`, `declaration_framing_base` | one program each in which the code and its documentation disagree |
| `instance` | two instances of two fields (optional with a mutable default, required with a factory), five objects that they may share, two contents of which one field refuses one |
| `decode_from` | all headers of up to 2 elements and one of 3, 5 schemas, buffers of 0, 2 and 4 bytes, codecs returning -1 to 5 |
| `resolver` | 10 bases under up to four layers of `Annotated`, `Optional`, unions and lists with every kind of spec, including one that no factory knows; rules for types, two `Annotated` annotations and `list[int]`; four `field()` settings, default or not; and pairs of fields with one `FieldInfo` |
| `resolver_optional`, `resolver_errors` | the same annotations; one disagreement of code and documentation each |
| `decoder_stream` | two messages of eight classes, one of them with "utf-16" texts, arriving in any fragments, read by the same or another version |
| `decoder_foreign` | up to 9 unknown bytes read by nine classes, with datetimes and texts in shorter forms and an encoding that is not for text |

Why the bounds are enough: a varint of 3 bytes has a first, an inner and a last
byte, which is all that the code distinguishes; 3 annotations are the least that
separate "smallest free index", "number of indexes" and "declaration order"; four
classes make a diamond; an offset of 5 in a buffer of 4 is beyond every boundary
the code compares with; two instances are enough for one
to get what the other holds, and one message at a time for bits and contents to
come apart. The decoder runs use bytes of 8 values (a group of 2
bits, Flags of 3 bits), so that length prefixes overflow and messages of nested
models still fit; every codec, header element and byte order occurs. In
`resolver`, two layers above and one below a list are the least in which a
setting can be overridden from further in and leak from an item to its list.

Fairness is weak fairness of the whole next-state relation, in the runs with
liveness properties (VarUInt, Decoder, Resolver): one thread calls, and the code
takes no locks and does not wait, so it goes on when it is scheduled. For `Arrives` this also
says that a stream goes on until it is whole, which is the application's and its
transport's part; `decoder_foreign` checks that calls end without it. Deadlock is not checked
where a behaviour ends when its calls have returned.

### Findings

1. `declaration_nested`: a codec factory that declares a model leaves the shared
   resolver with that model's rules; later fields of the outer model get the
   wrong codec (`core.py:178`; `base.py:44` promises the class's own rules).
2. `declaration_shared_fieldinfo`: a `field()` result used for two annotations
   carries the first one's `CodecSpec` codec into the second (`resolver.py:173`).
3. `declaration_framing_base`: a mixin class without fields as first base hides
   the fields of the second base (`core.py:298`; `docs/inheritance.rst:122,157`).
4. `resolver_optional`: `docs/api/extensions.rst:43` says that the optional part
   is taken off first; `Annotated[int | None, VarIntSpec(True)]` gives a required
   field, and as the item type of a list it is accepted (`resolver.py:177`).
5. `resolver_errors`: a default for a type that `isinstance` refuses, such as
   `tuple[int, int]`, raises `TypeError` and not the promised `SchemaError`
   (`core.py:239`; `core.py:76`).

`Unhashable` is a smaller one without a run: the annotation is looked up in a
dict (`resolver.py:146`), so foreign metadata that cannot be hashed raise
`TypeError`, while `docs/api/types.rst:134` says that they are ignored.

## Proofs

Each proof module has its inductive invariant, proves that the initial states
have it and that every action keeps it, action by action, and derives the
properties from it. The constants' assumptions are named below; TLC evaluates
them on every run.

| module | theorems | for every |
|---|---|---|
| `VarUIntProofs` | `TypeOK`, `RoundTrip`, `RangeExact`, `SizeBound`, `Canonical`, `RefusalExact` | group size, byte limit, number, surroundings, foreign buffer |
| `DecodeFromProofs` | `TypeOK`, `Framed`, `Complete`, `Inside` | schema, header, buffer, codec |
| `InstanceProofs` | `TypeOK`, `OneReading`, `FieldByField` | schema, number of instances and threads' steps between a call's |
| `DeclarationProofs` | `TypeOK`, `SchemaOrder`, `AutomaticOrder`, `FlagsFit`, `OwnTableAlone`, `RulesOfOverlapping`, `OwnSpecAgreed`, `HeaderAgreed`, `DeclaredFrozen` | program of class statements and number of threads |
| `ResolverProofs` | `TypeOK`, `GivenWins`, `LeaksConfined`, `OwnSettings` | annotation, rules, sequence of fields |
| `WireProofs` | `LeafUndone`: decoding undoes encoding, for codecs without parts | base, width, order, prefix, place in a buffer |
| `DecoderProofs` | `TypeOK`, `Confined`, `Implements`, `GetsOn`; `NestingBounded`: calls are nested no deeper than the schema | set of classes and codecs, depth of nesting, stream, foreign buffer |

**VarUInt.** `RoundTrip` needs a strengthening: the history `rests` (what was
left of the number after each byte) ties the two loops together, since after k
bytes `decode` holds the number without `rests[k+1]` shifted by k groups.
`Canonical` turns this round (`CInv`): the groups read so far, put before *any*
number, are what `encode` peels off that number, so that once the last byte is
read `encode` has to write exactly what was read. `RefusalExact` adds to it
(`Extended`) that what was read before a refusal are the first bytes of no code
or of a longer one; `CodeShape` says what a code looks like. Arithmetic is kept in
lemmas about division; the constants' assumptions are that the group base is above
1 and that `Weight` is its powers.

**DecodeFrom.** The invariant says that the payload's bound is fixed when the
fields begin and lies inside the buffer (`BoundInv`), and that there is one
argument per field so far (`ArgsInv`).

**Instance.** What a factory or a codec makes is an object that nothing refers to,
a different one for each field (`FreshObjects`); all other objects may be shared in
any way. For `OneReading` and `FieldByField` the invariant relates five
views of one field (`IInv`): what the attribute refers to (`AttrInv`), what those
objects hold (`StoreInv`), what the call of `encode` has read and written so far
(`CallInv`), which entry of the message is whose (`MessageInv`: the contents
stand in the order of the bits that are set), and what a decoded instance was
given (`HeldInv`). `InstanceAssumption` is what `__init_subclass__` has checked.

**Declaration.** The hard part is `SchemaOrder`: that the explicit indexes, and
the smallest free ones given to the others, leave no gap is checked only at the
end, on the largest index and the number of fields, so that the proof is a
pigeonhole argument on top of an order of the automatic indexes that holds in every
state before. `DeclaredFrozen` rests on no statement writing to a class at another
place than its own. For `RulesOfOverlapping` the invariant (`OverlapInv`) says that
the class whose table the shared resolver has is always among those that a
declaration in progress may have seen (`ReachedInv`), that those have been
configured, so that their tables are final (`SeenInv`), and that what `resolve` has
returned and the fields collected come from one of these tables (`FoundInv`,
`RulesInv`). `OwnTableAlone` follows: with one thread and no nested declaration a
class sees no rules but its own (`AloneInv`). `DeclarationAssumption` gives the shape of programs (`Program`): classes
declared in an order that respects their bases, with finitely many annotations.

**Resolver.** A spec may overwrite a `FieldInfo`'s codec, so the invariant for
`GivenWins` has to say where it can: the `FieldInfo`s of the program
that have a codec still have it (`InfosInv`), as `resolve` returns at once for
them; while a field is resolved there is one, with a `FieldInfo` of the program
(`FieldInv`); and accepted fields have the codec stated (`OutcomesInv`).
`LeaksConfined` is about the specs that a `FieldInfo` met, which stand in the
`Layers` of the annotations it was used for; its proof carries that the layers
ahead of each call of the stack are among them (`InsideInv`).

`OwnSettings` compares `resolve`, which takes an annotation apart while it
overwrites settings, with `SelectedCodec`, which looks at all layers at once and
picks the outermost that decides. The invariant (`OwnInv`) says of every call in
progress, and of what a call has just returned, what it is to find (`Wanted`):
the outermost the codec selected for the field, a call that `list_codec_factory`
made the codec selected for the item with no settings. Whatever layers are taken
off, and whatever they wrote into the `FieldInfo`, the rest of the annotation with
the settings as they now are selects that same codec, makes the field optional
only if the whole annotation may be `None`, and is without a codec or unsupported
only if the whole is (`Serves`). For the first use of a `FieldInfo` it is also
needed that nobody wrote to it before (`UnusedInv`), and that a call waits for an
item only where neither a rule nor a given codec decided (`WaitInv`).
Both theorems about layers assume that annotations are built from inside out
(`AnnotationsBuilt`), which is what makes these recursions, and `resolve`'s, end.

**Wire.** `LeafUndone` says: if the bytes that a codec without parts wrote of a
value stand anywhere in a buffer, its `decode` at that place gives exactly that
value (a float as the nearest multiple of its step; an enum's member if its
codec has it as it is; a text if its encoding gives it back, `GivenBack`) and the offset where the bytes end, whatever comes before
or behind. Its parts are: a number below `Power[w]` is known by its w digits, in
either byte order (`SameDigits`, `Unpacks`); two's complement and zigzag are
undone (`WrapUndone`, `ZigZagUndone`); at one place of a buffer stands at most one
varint (`OneVarint`, by induction on the number: the first byte tells whether more
follow, and what follows is a varint itself), so no varint is the beginning of
another; and a prefix is read as the length of what stands behind it
(`PrefixedUndone`). Codecs are to keep `ICodec`'s contract (`Lawful`) and to be
built (`CodecsBuilt`); the base of bytes is any even number above 2. The other
half of the module says where a codec stops reading, for `DecoderProofs`.

**Decoder.** The invariant (`IInv`) has four parts for the frames of the stack:
the locals of each (`FrameInv`; with `PayloadLength` the payload's end is the end
of the sliced buffer), how a frame relates to the one below it (`Nested`: a
model reads a prefix of its caller's buffer, a list a part of it that ends where
the list does; a caller is in the middle of its fields or items, `Busy`), what
the outermost call was made with (`Lowest`), and, for classes whose codecs keep
the contract, that no frame's offset is beyond its buffer (`LawfulFrame`). The
last needs the others: the offset a nested call gives back is checked against
the caller's payload only if the caller has a `PayloadLength`. `PlainReads` of
`WireProofs` says where each codec stops reading (with `VarintLength` for
`Varint`), and one lemma per action that it keeps each part.

For `Implements`, a step of a call above the outermost changes nothing that
DecodeFrom knows; a step of the outermost call is the step of the same name; and
the return of the topmost of two calls is `DecodeField`, or `FieldRaises` if the
offset is past the payload. With it, `Framed`, `Complete` and `Inside` of
DecodeFromProofs hold for the real codecs and any nesting.

For `GetsOn` the frames have to say that they advance (`AInv`): a message that has
got past a header element it reads, or past a required field that advances, is
beyond its start (`Moved`); a list ends beyond the offset its caller has, and a
call is one of the codec that its caller wants (`GotOn`); and a list that waits for
an item has bytes left (`Waits`). That a nested model advances is then known only
when it returns, from its last field. `NestingBounded` adds that each call in
progress has left one level of the schema behind (`Nesting`). Together they are a
variant: take what is left of the calls in progress from the outermost on, up to the
depth of the schema, with a call that has not been made larger than any number; in the
lexicographic order every step makes this smaller, be it a call or a return. So
every call ends for all schemas whose list items advance; that the process takes its
next step is what `Terminates` adds under fairness.

The hypotheses are: `CodecsBuilt`, nothing contains itself (a codec is
constructed from codecs that are there, and `get_type_hints` in
`__init_subclass__` refuses a name that is not bound yet, `core.py:201`;
MCDecoder checks it of its classes as `CodecsAssumption`); `EncodesBytes`,
`Encoded` has nothing but bytes; and for `Implements` that `Offsets`, what a
codec may return, is all of `Nat`, while the runs bound it.

**Recursion.** The library's theorems on induction take the property as an
operator, which no installed prover can instantiate. Module `Recursion` states
induction with the set of the elements that have the property, and proves from
it that a function defined by recursion along a decreasing depth obeys its
definition; `CodeDefined` (the varint of a number in VarUInt), `LayersDefined`,
`SelectedItemDefined` and `QuestionableDefined` in `ResolverProofs`, and
`VarintDefined`, `PowerDefined`, `LawfulDefined` and `AdvancesDefined` in `WireProofs`
are instances of it.

Only model-checked:

* `StreamExact` and `Stable`, which say that reading undoes writing for whole
  messages: that is induction over the instance written, whose encoding is a
  recursive operator (no prover is available for a module that uses one).
  `LeafUndone` is what is proved of them: everything up to lists and instances.
* Liveness (`Terminates`, `Arrives`), which is out of the
  provers' reach; for Decoder, `GetsOn` and `NestingBounded` prove the safety half of
  `Terminates`.

## Not modelled

* What each encoding does to characters (beyond that it may refuse, have several
  forms of one text, or not be for text), the bits of IEEE floats,
  NaN and infinities, the grammar of ISO 8601: done by the standard library.
* The compatibility of default values with types beyond "right, wrong, or
  `isinstance` refuses the type"; string and forward annotations
  (`get_type_hints` either resolves them or raises).
* `__eq__` and `__repr__` of instances, unknown keyword arguments: no state.
* Code that only re-exports names, and the documentation's own tools.
* The error-message prefixes that `encode` and `decode_from` add.

## Plan

Encoding as a recursive function over the instances of a set, and `StreamExact`
for one message of any schema, on top of `LeafUndone`.
