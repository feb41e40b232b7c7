------------------------------ MODULE Streaming ------------------------------
(***************************************************************************)
(* Decoder reading what Encoding writes: what becomes of whole messages    *)
(* and streams of them.                                                    *)
(***************************************************************************)
EXTENDS Decoder, Encoding

CONSTANT OneForm  \* the encodings in which only one sequence of bytes is a text

Stream(instances) == FlattenSeq([i \in DOMAIN instances |-> The(Encode(instances[i]))])

RECURSIVE MayGrow(_)
\* A datetime may have been written more briefly than isoformat() would, a text
\* without the byte order mark that encode puts before it.
ClassMayGrow(m) == \E i \in DOMAIN FieldsOf(m) : MayGrow(FieldsOf(m)[i].codec)
MayGrow(codec) ==
  CASE codec.kind = "list" -> MayGrow(codec.item)
    [] codec.kind = "model" -> ClassMayGrow(codec.model)
    [] codec.kind = "enum" -> MayGrow(codec.value)
    [] codec.kind = "str" -> codec.encoding \notin OneForm
    [] OTHER -> codec.kind = "datetime"

\* What a class makes of an instance another version of it encoded: a prefix
\* of the fields, or None for optional fields the writer does not have.
RECURSIVE AsRead(_, _), ValueAsRead(_, _)
AsRead(m, v) ==
  [model |-> m,
   values |-> [i \in DOMAIN FieldsOf(m) |->
     IF i \in DOMAIN v.values
     THEN {ValueAsRead(FieldsOf(m)[i].codec, x) : x \in v.values[i]}
     ELSE {}]]
ValueAsRead(codec, value) ==
  CASE codec.kind = "model" -> AsRead(codec.model, value)
    [] codec.kind = "list" ->
         [i \in DOMAIN value |-> ValueAsRead(codec.item, value[i])]
    [] codec.kind = "float" -> codec.step * Nearest(value, codec.step)
    [] OTHER -> value

Size(n) == Len(Stream(SubSeq(sent, 1, n)))
Whole == CHOOSE n \in 0..Len(sent) :
           /\ Size(n) <= Len(buffer)
           /\ n < Len(sent) => Size(n + 1) > Len(buffer)

Finished ==
  \/ error # "none"
  \/ /\ Outermost /\ top.phase = "returned"
     /\ IF Own THEN top.offset >= Len(buffer)
        ELSE Len(out) = 2 \/ Encode(out[1]) = {}

\* decode_from: "The position can be passed to the next call to read the
\* following message."  The instances come back as they were encoded, to an
\* older or newer version of the class as far as the two share fields, nested
\* ones included; a buffer cut off anywhere gives the whole messages in it and
\* a DecodeError exactly if something is left of the next.
StreamExact ==
  Own =>
    /\ IsPrefix(out, [i \in DOMAIN sent |-> AsRead(reader, sent[i])])
    /\ error # "ValueError"
    /\ Finished => /\ Len(out) = Whole
                   /\ (error = "DecodeError") <=> (Size(Whole) < Len(buffer))

\* "Reconstruct a model from a buffer containing exactly one message": what
\* was read from bytes of unknown origin can be encoded, unless it has texts or
\* datetimes that encode writes in another form than they were read in; and it
\* decodes to an equal instance that takes up the whole of the new bytes.
Stable ==
  ~Own /\ Len(out) > 0 /\ LawfulClass(reader) =>
    /\ Encode(out[1]) # {} \/ ClassMayGrow(reader)
    /\ error = "none"
    /\ Len(out) = 2 => out[2] = out[1] /\ top.offset = Len(buffer)

\* Every call of decode_from ends, nested ones and lists included.
Terminates == <>Finished

\* docs/models.rst: decode_from does not collect fragments, and raises
\* DecodeError for part of a message.  However a stream is cut, an application
\* that tries again when there is more, at the offset it got last, reads all
\* messages.
Arrives == Own => <>(out = [i \in DOMAIN sent |-> AsRead(reader, sent[i])])

=============================================================================
