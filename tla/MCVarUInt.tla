----------------------------- MODULE MCVarUInt -----------------------------
(* VarUInt with groups of 2 bits and 3 bytes: 5-bit numbers, 0..31.        *)
EXTENDS VarUInt

MCWeight == [i \in 0..MaxCount |-> GroupBase ^ i]

\* One more than fits on both sides, with and without sign.
MCArgs == -18..33

\* Nothing, an end byte, and a byte that asks for more.
MCAround == {<< >>, <<1>>, <<GroupBase, 0>>}

\* Every buffer up to one byte longer than a varint may be.
MCForeign == UNION {[1..n -> Byte] : n \in 0..(MaxCount + 1)}
=============================================================================
