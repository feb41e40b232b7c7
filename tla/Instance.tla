------------------------------ MODULE Instance ------------------------------
(***************************************************************************)
(* The instances of one class (core.py): __init__ with its defaults, the   *)
(* application's assignments, encode, which reads the attributes one after *)
(* another while other threads assign them, and decode, which calls        *)
(* __init__ again.                                                         *)
(*                                                                         *)
(* An attribute refers to a cell, an object that may be mutated and that   *)
(* other attributes, of other instances too, may refer to.  What becomes   *)
(* of the bytes is for modules Wire and Decoder; here a message is its     *)
(* bits and, in field order, the contents encode wrote.                    *)
(***************************************************************************)
EXTENDS Integers, SequencesExt, FiniteSetsExt

CONSTANTS
  Objects,   \* the instances that may be created
  Cells,     \* the numbers of the cells; those that are let go are used again
  Schema,    \* the fields in schema order, see Field
  Defaults,  \* how many cells the class body made, for default=...
  Contents,  \* what a cell may contain
  Empty,     \* what default_factory makes, in a new object: list
  Bad,       \* Bad[i]: contents that field i's codec raises EncodeError for
  Refused(_) \* whether __validate__ raises, for the contents of all fields

None == 0       \* not cells
Missing == -1

Field == [optional: BOOLEAN,  \* it has a flag
          default: {Missing, None} \cup 1..Defaults,
          factory: BOOLEAN]  \* it has a default_factory

ASSUME InstanceAssumption ==
  /\ Schema \in Seq(Field)
  /\ Defaults \in Nat /\ IsFiniteSet(Cells)
  /\ 1..Defaults \subseteq Cells /\ Cells \subseteq Nat \ {0}
  /\ Empty \in Contents /\ Contents \subseteq Nat \ {0}
  \* What __init_subclass__ refuses.
  /\ \A i \in DOMAIN Schema :
       /\ Schema[i].default = Missing \/ ~Schema[i].factory
       /\ Schema[i].default = None => Schema[i].optional

Indexes == DOMAIN Schema

VARIABLES
  alive,     \* the instances that exist
  attr,      \* attr[o][i]: a cell, None, or Missing once deleted
  contents,  \* of every cell
  call,      \* the encode in progress, if any
  held,      \* history: what the fields still to be written held during it
  message    \* what encode returned last, until it is called again

vars == <<alive, attr, contents, call, held, message>>

\* What a reader of an attribute finds if v is what it refers to.
ShownIn(cells, v) == IF v \in {None, Missing} THEN v ELSE cells[v]
Shown(v) == ShownIn(contents, v)

Assigned == {attr[o][i] : o \in alive, i \in Indexes}
BeingWritten == {e.value : e \in call}
Referred == Assigned \cup BeingWritten \cup 1..Defaults

\* The cells that nothing here refers to: new objects, and those that only the
\* application has.
Unreferred == Cells \ Referred

\* Such a cell contains whatever the application put there.
Filled(own) == [c \in Cells |-> IF c \in DOMAIN own THEN own[c] ELSE contents[c]]

Init ==
  /\ alive = {}
  /\ attr = [o \in Objects |-> [i \in Indexes |-> Missing]]
  /\ contents = [c \in Cells |-> Empty]
  /\ call = {} /\ held = [i \in Indexes |-> {}]
  /\ message = {}

-----------------------------------------------------------------------------
(* __init__.  args[i] is Missing if the argument is omitted, None, or an   *)
(* object, which becomes the attribute's as it is: it may be the same one  *)
(* as another argument, or one that other attributes refer to already.     *)

Given(args) == {args[i] : i \in Indexes} \cap Cells

\* A new object for each field that needs one.
Fresh(args) == SetToSeq(Unreferred \ Given(args))

CallsFactory(args, i) ==
  args[i] = Missing /\ Schema[i].default = Missing /\ Schema[i].factory

Omitted(args, i) ==
  IF Schema[i].default # Missing THEN Schema[i].default
  ELSE IF Schema[i].factory THEN Fresh(args)[i] ELSE None

Value(args, i) == IF args[i] = Missing THEN Omitted(args, i) ELSE args[i]

\* A required argument is missing.  A factory that makes the wrong type raises
\* too and leaves nothing.
TypeError(args) ==
  \E i \in Indexes :
    /\ args[i] = Missing /\ Schema[i].default = Missing
    /\ ~Schema[i].factory /\ ~Schema[i].optional

\* What the cells contain once the factories were called.
Made(args, cells) ==
  [c \in Cells |->
     IF \E i \in Indexes : CallsFactory(args, i) /\ Fresh(args)[i] = c
     THEN Empty ELSE cells[c]]

\* cells is what the cells contain with the arguments made.
Construct(o, args, cells) ==
  LET values == [i \in Indexes |-> Value(args, i)]
      made == Made(args, cells)
  IN /\ o \notin alive
     /\ \A i \in Indexes : CallsFactory(args, i) => i <= Len(Fresh(args))  \* bound
     /\ ~TypeError(args)
     \* __validate__ of the concrete class, once all fields are assigned.
     /\ ~Refused([i \in Indexes |-> ShownIn(made, values[i])])
     /\ alive' = alive \cup {o}
     /\ attr' = [attr EXCEPT ![o] = values]
     /\ contents' = made

Create ==
  /\ \E o \in Objects, args \in [Indexes -> {Missing, None} \cup Cells] :
       \E own \in [Given(args) \cap Unreferred -> Contents] :
         Construct(o, args, Filled(own))
  /\ UNCHANGED <<call, held, message>>

-----------------------------------------------------------------------------
(* What the application does to an instance, in any thread.                *)

\* A change of the attributes or of an object is seen by the call in progress:
\* of the attribute, and of the object that was read from it.
Change(attributes, cells) ==
  /\ attr' = attributes /\ contents' = cells
  /\ held' = [i \in Indexes |->
       held[i] \cup UNION {{ShownIn(cells, attributes[e.object][i])} \cup
                             {ShownIn(cells, e.value) : k \in {e.at} \cap {i}} :
                           e \in {f \in call : f.at <= i}}]
  /\ UNCHANGED <<alive, call, message>>

AssignNone ==
  \E o \in alive, i \in Indexes : Change([attr EXCEPT ![o][i] = None], contents)

\* instance.field = any object, also one that others refer to.
Assign ==
  \E o \in alive, i \in Indexes, c \in Cells :
    \E own \in [{c} \cap Unreferred -> Contents] :
      Change([attr EXCEPT ![o][i] = c], Filled(own))

Delete ==
  \E o \in alive, i \in Indexes :
    Change([attr EXCEPT ![o][i] = Missing], contents)

\* instance.field.append(...), by whoever has a reference to the object.
Mutate ==
  \E c \in Referred \cap Cells, x \in Contents :
    Change(attr, [contents EXCEPT ![c] = x])

\* The last reference to an instance goes.
Drop ==
  /\ \E o \in alive :
       /\ \A e \in call : e.object # o
       /\ alive' = alive \ {o}
       /\ attr' = [attr EXCEPT ![o] = [i \in Indexes |-> Missing]]
  /\ UNCHANGED <<contents, call, held, message>>

-----------------------------------------------------------------------------
(* encode.  A call reads an attribute, then writes it; value is what it    *)
(* read, Missing before it reads.  written is the history of what it       *)
(* wrote for each field.                                                   *)

EncodeCall ==
  /\ call = {}
  /\ \E o \in alive :
       /\ call' = {[object |-> o, at |-> 1, value |-> Missing, bits |-> {},
                    payload |-> << >>, written |-> << >>]}
       /\ held' = [i \in Indexes |-> {Shown(attr[o][i])}]
  /\ message' = {}
  /\ UNCHANGED <<alive, attr, contents>>

Reading(e) == e.at \in Indexes /\ e.value = Missing
Read(e) == e.at \in Indexes /\ e.value # Missing

\* The rest of the field's history is of no use once it is written.
Goes(e) ==
  /\ call' = {e}
  /\ held' = [i \in Indexes |-> IF i < e.at THEN {} ELSE held[i]]
  /\ UNCHANGED <<alive, attr, contents, message>>

Raises ==
  /\ call' = {} /\ held' = [i \in Indexes |-> {}]
  /\ UNCHANGED <<alive, attr, contents, message>>

MissingRequired(e) ==
  \/ attr[e.object][e.at] = Missing
  \/ attr[e.object][e.at] = None /\ ~Schema[e.at].optional

FieldRaises == \E e \in call : Reading(e) /\ MissingRequired(e) /\ Raises

\* Mutant: every None is skipped.
SkipNone_Any ==
  \E e \in call :
    /\ Reading(e) /\ attr[e.object][e.at] = None
    /\ Goes([e EXCEPT !.at = @ + 1, !.written = Append(@, None)])

SkipNone ==
  \E e \in call :
    /\ Reading(e) /\ ~MissingRequired(e) /\ attr[e.object][e.at] = None
    /\ Goes([e EXCEPT !.at = @ + 1, !.written = Append(@, None)])

\* Mutant: None is not looked for.
ReadField_None ==
  \E e \in call :
    /\ Reading(e) /\ attr[e.object][e.at] # Missing
    /\ Goes([e EXCEPT !.value = attr[e.object][e.at]])

ReadField ==
  \E e \in call :
    /\ Reading(e) /\ attr[e.object][e.at] \notin {None, Missing}
    /\ Goes([e EXCEPT !.value = attr[e.object][e.at]])

CodecRaises == \E e \in call : Read(e) /\ contents[e.value] \in Bad[e.at] /\ Raises

\* Mutant: the bit is set according to a second look at the attribute.
WriteField_LooksAgain ==
  \E e \in call :
    /\ Read(e) /\ contents[e.value] \notin Bad[e.at]
    /\ Goes([e EXCEPT
         !.bits = IF Schema[e.at].optional /\ attr[e.object][e.at] # None
                  THEN @ \cup {e.at} ELSE @,
         !.payload = Append(@, contents[e.value]),
         !.written = Append(@, contents[e.value]),
         !.value = Missing, !.at = @ + 1])

WriteField ==
  \E e \in call :
    /\ Read(e) /\ contents[e.value] \notin Bad[e.at]
    /\ Goes([e EXCEPT
         !.bits = IF Schema[e.at].optional THEN @ \cup {e.at} ELSE @,
         !.payload = Append(@, contents[e.value]),
         !.written = Append(@, contents[e.value]),
         !.value = Missing, !.at = @ + 1])

EncodeReturn ==
  /\ \E e \in call :
       /\ e.at > Len(Schema)
       /\ message' = {[bits |-> e.bits, payload |-> e.payload,
                       written |-> e.written]}
  /\ call' = {} /\ held' = [i \in Indexes |-> {}]
  /\ UNCHANGED <<alive, attr, contents>>

-----------------------------------------------------------------------------
(* decode of the last message.                                             *)

Present(msg, i) == ~Schema[i].optional \/ i \in msg.bits
Place(msg, i) == Cardinality({j \in 1..i : Present(msg, j)})

\* Mutant: an absent field is left to __init__.
Argument_Omitted(msg, i) ==
  IF Present(msg, i) THEN msg.payload[Place(msg, i)] ELSE Missing

Argument(msg, i) ==
  IF Present(msg, i) THEN msg.payload[Place(msg, i)] ELSE None

\* What the codecs make are new objects, which __init__ takes as its arguments.
IsMade(msg, i) == Argument(msg, i) \in Contents
Decoded(msg) ==
  LET objects == SetToSeq(Unreferred)
  IN [i \in Indexes |-> IF IsMade(msg, i) THEN objects[i] ELSE Argument(msg, i)]
Making(msg) ==
  LET args == Decoded(msg)
  IN [c \in Given(args) |->
        CHOOSE x \in Contents :
          \E i \in Indexes : IsMade(msg, i) /\ args[i] = c /\ x = Argument(msg, i)]

Decode ==
  /\ \E o \in Objects, msg \in message :
       /\ \A i \in Indexes : Place(msg, i) <= Len(msg.payload)
       /\ Len(SetToSeq(Unreferred)) >= Len(Schema)  \* bound
       /\ Construct(o, Decoded(msg), Filled(Making(msg)))
  /\ UNCHANGED <<call, held, message>>

Next ==
  \/ Create \/ AssignNone \/ Assign \/ Delete \/ Mutate \/ Drop
  \/ EncodeCall \/ FieldRaises \/ SkipNone \/ ReadField \/ CodecRaises
  \/ WriteField \/ EncodeReturn
  \/ Decode

Spec == Init /\ [][Next]_vars

-----------------------------------------------------------------------------
Values == {None, Missing} \cup Cells
Content == {None, Missing} \cup Contents
Written == UNION {[1..n -> Content \ {Missing}] : n \in 0..Len(Schema)}
Payloads == UNION {[1..n -> Contents] : n \in 0..Len(Schema)}

\* Types; a call has written every field before the one it is at, and what it
\* read is not None.
TypeOK ==
  /\ alive \subseteq Objects
  /\ attr \in [Objects -> [Indexes -> Values]]
  /\ contents \in [Cells -> Contents]
  /\ held \in [Indexes -> SUBSET Content]
  /\ \A e \in call :
       /\ e.object \in alive /\ e.at \in 1..(Len(Schema) + 1)
       /\ e.value \in Cells \cup {Missing}
       /\ e.bits \subseteq Indexes
       /\ e.payload \in Payloads
       /\ e.written \in Written /\ Len(e.written) = e.at - 1
  /\ \A msg \in message :
       /\ msg.bits \subseteq Indexes /\ msg.payload \in Payloads
       /\ msg.written \in [Indexes -> Content \ {Missing}]

\* Whatever other threads assign, delete or mutate meanwhile, what encode
\* writes for a field is something the field held during the call, and never
\* nothing for a required field (core.py:350-365).
OneReading ==
  [][\A e \in call, f \in call' :
       Len(f.written) > Len(e.written) =>
         /\ Last(f.written) \in held[e.at]
         /\ Last(f.written) = None => Schema[e.at].optional]_vars

\* A decoded instance has in every field what encode wrote for it: bits and
\* payload agree even if the attribute changed between the check for None and
\* the codec, and None comes back as None in a field that has another default
\* (core.py:422-446, 138-163).
FieldByField ==
  [][Decode => \A o \in alive' \ alive, msg \in message, i \in Indexes :
                 Shown(attr[o][i])' = msg.written[i]]_vars
=============================================================================
