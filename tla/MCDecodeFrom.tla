--------------------------- MODULE MCDecodeFrom ---------------------------
(* DecodeFrom on buffers of up to 4 bytes, codecs that may return offsets    *)
(* from -1 to 5, all headers of up to two elements and one of three, and at  *)
(* most two fields.                                                          *)
EXTENDS DecodeFrom

MCReturns == -1..5

Kinds == {"Constructor", "PayloadLength", "Flags"}
MCInputs ==
  [size: {0, 2, 4}, expect: BOOLEAN, lawful: BOOLEAN,
   header: UNION {[1..n -> Kinds] : n \in 0..2}
             \cup {<<"Constructor", "Flags", "PayloadLength">>},
   fields: {<< >>, <<{}>>, <<{0}>>, <<{}, {1}>>, <<{0}, {1}>>}]
=============================================================================
