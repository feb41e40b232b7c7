----------------------------- MODULE MCInstance -----------------------------
(* An optional field with a mutable default and a required one with a      *)
(* factory, whose codec refuses the content 2.                             *)
EXTENDS Instance, TLC

F(optional, default, factory) ==
  [optional |-> optional, default |-> default, factory |-> factory]

MCSchema == <<F(TRUE, 1, FALSE), F(FALSE, Missing, TRUE)>>

MCBad == <<{}, {2}>>

\* __validate__ relates the fields; an assignment may break what it says.
MCRefused(shown) == shown = <<2, 1>>

MCSymmetry == Permutations(Objects)

\* Which number a cell has does not matter, nor what is in a cell that nothing
\* refers to; who shares a cell with whom does.
Seen(v) == IF v \in {None, Missing} \cup 1..Defaults THEN <<v>>
           ELSE <<Missing, contents[v]>>
Sharing(v) == {<<o, i>> \in alive \X Indexes : attr[o][i] = v}
MCView ==
  <<alive, [o \in Objects |-> [i \in Indexes |-> Seen(attr[o][i])]],
    {Sharing(c) : c \in Cells}, [c \in 1..Defaults |-> contents[c]],
    {<<e.object, e.at, Seen(e.value), e.bits, e.payload, e.written,
       Sharing(e.value)>> : e \in call},
    [i \in Indexes |-> held[i] \ {Missing}], message>>
=============================================================================
