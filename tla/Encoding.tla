------------------------------- MODULE Encoding -------------------------------
(***************************************************************************)
(* The bytes encode writes: of lists and instances too, of a header and of *)
(* a message.  EncodeError is the empty set.                               *)
(***************************************************************************)
EXTENDS Wire

RECURSIVE Enc(_, _, _), Message(_, _)

\* Everything in turn, unless something raises.
Joined(parts) ==
  IF \E i \in DOMAIN parts : parts[i] = {} THEN {}
  ELSE {FlattenSeq([i \in DOMAIN parts |-> The(parts[i])])}

ListBytes(codec, data, order) ==
  UNION {Prefixed(codec.prefix, payload, order) : payload \in
           Joined([i \in DOMAIN data |-> Enc(codec.item, data[i], order)])}

\* A nested model has no constructor.
ModelBytes(instance) == Message(instance, FALSE)

Enc(codec, value, order) ==
  CASE codec.kind = "list" -> ListBytes(codec, value, order)
    [] codec.kind = "model" -> ModelBytes(value)
    [] OTHER -> LeafBytes(codec, value, order)

\* Mutant: a field that is None still sets its bit.
PresenceBits_Declared(v) ==
  UNION {FieldsOf(v.model)[i].flag : i \in DOMAIN v.values}

\* The bits of the optional fields that are not None.
PresenceBits(v) ==
  UNION {FieldsOf(v.model)[i].flag : i \in {j \in DOMAIN v.values :
                                              v.values[j] # {}}}

\* None is not written, and refused in a required field.
FieldBytes(v, i) ==
  LET field == FieldsOf(v.model)[i]
  IN IF v.values[i] # {}
     THEN Enc(field.codec, The(v.values[i]), Models[v.model].order)
     ELSE IF field.flag = {} THEN {} ELSE {<< >>}

Payload(v) == Joined([i \in DOMAIN FieldsOf(v.model) |-> FieldBytes(v, i)])

\* Mutant: a nested model writes its constructor.
ElementBytes_AlwaysConstructor(v, element, include, size) ==
  NumberBytes(element.codec,
      CASE element.kind = "Constructor" -> Models[v.model].constructor
        [] element.kind = "PayloadLength" -> size
        [] element.kind = "Flags" ->
             MapThenSumSet(LAMBDA f : 2^f, PresenceBits(v)),
      Models[v.model].order)

\* HeaderElement.encode.
ElementBytes(v, element, include, size) ==
  IF element.kind = "Constructor" /\ ~include THEN {<< >>}
  ELSE NumberBytes(element.codec,
           CASE element.kind = "Constructor" -> Models[v.model].constructor
             [] element.kind = "PayloadLength" -> size
             [] element.kind = "Flags" ->
                  MapThenSumSet(LAMBDA f : 2^f, PresenceBits(v)),
           Models[v.model].order)

\* ProtoModel.encode(include_constructor).
Message(v, include) ==
  LET Framing(payload) ==
        Joined([k \in DOMAIN Models[v.model].header |->
                  ElementBytes(v, Models[v.model].header[k], include, Len(payload))])
  IN UNION {{head \o payload : head \in Framing(payload)} : payload \in Payload(v)}

\* encode() as applications call it.
Encode(v) == Message(v, TRUE)
=============================================================================
