--------------------------- MODULE MCDeclaration ---------------------------
(* Small programs of class statements for Declaration.                     *)
EXTENDS Declaration, TLC

CONSTANTS P, Q, R, S,      \* classes
          t1, t2,          \* threads
          int, str, tag,   \* types: tag is in no table of the library
          std, wide, narrow, bare,  \* headers
          own1, own2, shared,       \* FieldInfo objects
          custom, fixed     \* codecs

MCClasses == {P, Q, R, S}
MCTypes == {int, str, tag}
MCHeaders == {std, wide, narrow, bare}
MCFlagBits == (std :> {64}) @@ (wide :> {3}) @@ (narrow :> {1}) @@ (bare :> {})
MCConstructors == {std, wide}
MCInfos == {own1, own2, shared}
MCCodecs == {custom, fixed}
MCBaseTable == (int :> Builtin) @@ (str :> Builtin) @@ (tag :> NoRule)

field == [serialised |-> TRUE, type |-> int, optional |-> FALSE,
          info |-> own1, spec |-> {}, flag |-> {}, index |-> {},
          default |-> {}, factory |-> FALSE, nested |-> {}]
model == [bases |-> << >>, mro |-> <<P>>, rules |-> {}, configures |-> FALSE,
          header |-> {}, constructor |-> TRUE, resolvable |-> TRUE, body |-> << >>]

NoInfo == [i \in MCInfos |-> {}]
OneThread(classes, agenda) ==
  [classes |-> classes, infos |-> NoInfo, agenda |-> (t1 :> agenda) @@ (t2 :> << >>)]

Unused == [c \in MCClasses |-> [model EXCEPT !.mro = <<c>>]]

-----------------------------------------------------------------------------
(* Index and flag rules: P with every body of up to three annotations, Q    *)
(* without fields of its own under a narrower header.                       *)
Indexes == {{}, {-1}, {0}, {1}, {2}}
AnyIndex(f) == {[f EXCEPT !.index = i] : i \in Indexes}
Optionals ==
  {[field EXCEPT !.optional = TRUE, !.flag = x] : x \in {{0}, {1}, {2}}}
IndexBodies ==
  UNION {[1..n -> AnyIndex(field) \cup {[field EXCEPT !.serialised = FALSE]}
                    \cup Optionals] : n \in 0..3}

Odd ==
  {[field EXCEPT !.default = d, !.factory = f, !.optional = o, !.flag = x] :
     d \in {{}, {"none"}, {"right"}, {"wrong"}}, f \in BOOLEAN, o \in BOOLEAN,
     x \in {{}, {0}, {-1}, {63}, {64}}}
    \cup {[field EXCEPT !.type = tag]}
OddBodies == {<<f>> : f \in Odd} \cup {<<field, f>> : f \in Odd}

BodyPrograms ==
  {OneThread((P :> [model EXCEPT !.body = body, !.header = h])
               @@ (Q :> [model EXCEPT !.bases = <<P>>, !.mro = <<Q, P>>,
                         !.header = g])
               @@ Unused, <<P, Q>>) :
     body \in IndexBodies, h \in {{}, {wide}}, g \in {{}, {narrow}, {bare}}}
  \cup
  {OneThread((P :> [model EXCEPT !.body = body, !.constructor = k,
                    !.header = {std}]) @@ Unused, <<P>>) :
     body \in OddBodies, k \in BOOLEAN}
  \cup
  {OneThread((P :> [model EXCEPT !.body = <<field>>, !.resolvable = FALSE])
      @@ (Q :> [model EXCEPT !.bases = bases, !.mro = <<Q>> \o bases]) @@ Unused,
     <<P, Q>>) : bases \in {<< >>, <<P>>}}

-----------------------------------------------------------------------------
(* Inheritance: P; Q and R, with or without base P; S with one base or two.  *)
Bodies == {<< >>, <<field, [field EXCEPT !.type = str, !.info = own2,
                                         !.spec = {custom}]>>}
Kinds(c, body) ==
  {[model EXCEPT !.header = h, !.configures = k, !.body = b,
                 !.rules = IF k THEN {int} ELSE {}] :
     h \in {{}, {IF c = Q THEN narrow ELSE wide}}, k \in BOOLEAN, b \in body}

Below(c, bases, d) ==
  [d EXCEPT !.bases = bases, !.mro = <<c>> \o bases]

TreePrograms ==
  {OneThread((P :> p)
      @@ (Q :> Below(Q, IF qp THEN <<P>> ELSE << >>, q))
      @@ (R :> Below(R, IF rp THEN <<P>> ELSE << >>, r))
      @@ (S :> [s EXCEPT
            !.bases = IF both THEN <<Q, R>> ELSE <<R>>,
            !.mro = IF ~both THEN IF rp THEN <<S, R, P>> ELSE <<S, R>>
                    ELSE IF rp THEN <<S, Q, R, P>>
                    ELSE IF qp THEN <<S, Q, P, R>> ELSE <<S, Q, R>>]),
      <<P, Q, R, S>>) :
    p \in Kinds(P, Bodies), q \in Kinds(Q, Bodies), r \in Kinds(R, {<< >>}),
    s \in {x \in Kinds(S, Bodies) : x.header = {} /\ ~x.configures},
    qp \in BOOLEAN, rp \in BOOLEAN, both \in BOOLEAN}

-----------------------------------------------------------------------------
(* Two threads or one after the other; the factories of Q's and R's fields   *)
(* declare S, which may be refused.                                          *)
tagged == [field EXCEPT !.type = tag, !.nested = {S}]
specified == [field EXCEPT !.info = own2, !.spec = {custom}]
ThreadPrograms ==
  {[classes |->
      (P :> [model EXCEPT !.configures = TRUE, !.rules = {int, tag},
                          !.header = {wide}, !.body = <<field, specified>>])
      @@ (Q :> [model EXCEPT !.bases = <<P>>, !.mro = <<Q, P>>,
                             !.body = <<f, tagged, field>>])
      @@ (R :> [model EXCEPT !.bases = bases, !.mro = <<R>> \o bases,
                             !.configures = TRUE, !.rules = rules, !.body = body])
      @@ (S :> [model EXCEPT !.mro = <<S>>, !.body = inner]),
    infos |-> NoInfo, agenda |-> agenda] :
    agenda \in {(t1 :> <<P, Q>>) @@ (t2 :> <<R>>), (t1 :> <<P, R, Q>>) @@ (t2 :> << >>)},
    f \in {field, [field EXCEPT !.optional = TRUE, !.flag = {2}]},
    bases \in {<< >>, <<P>>}, rules \in {{str}, {int, tag}},
    body \in {<< >>, <<specified>>, <<tagged, field>>,
              <<[field EXCEPT !.index = {1}], [field EXCEPT !.index = {0}]>>},
    inner \in {<<field>>, <<tagged>>}}

-----------------------------------------------------------------------------
(* field(codec=...), also one that is no codec, shared by the fields of two  *)
(* classes; the second body ends in a field that is refused, or does not.    *)
InfoPrograms ==
  {[OneThread((P :> [model EXCEPT !.body = <<f, field>>])
      @@ (Q :> [model EXCEPT !.mro = <<Q>>, !.body = <<field, f, g>>])
      @@ (R :> [model EXCEPT !.mro = <<R>>, !.body = <<f>>]) @@ Unused,
      <<P, Q, R>>) EXCEPT !.infos[shared] = given] :
    f \in {[field EXCEPT !.info = shared, !.spec = x, !.type = ty] :
            x \in {{}, {custom}}, ty \in {int, tag}},
    g \in {field, [field EXCEPT !.type = tag]},
    given \in {{}, {fixed}, {Invalid}}}

MCPrograms == BodyPrograms \cup TreePrograms \cup ThreadPrograms \cup InfoPrograms

-----------------------------------------------------------------------------
(* Three single declarations that go against the documentation.              *)

\* The factory that P registers for tag declares Q before it returns.
NestedPrograms ==
  {OneThread((P :> [model EXCEPT !.configures = TRUE, !.rules = {int, tag},
                !.body = <<field, [tagged EXCEPT !.nested = {Q}], field>>])
      @@ (Q :> [model EXCEPT !.mro = <<Q>>, !.body = <<field>>]) @@ Unused,
    <<P>>)}

\* One FieldInfo for two annotations, each with a codec in its CodecSpec.
SharedPrograms ==
  {OneThread((P :> [model EXCEPT !.body =
                <<[field EXCEPT !.info = shared, !.spec = {custom}],
                  [field EXCEPT !.info = shared, !.spec = {fixed}]>>])
      @@ Unused, <<P>>)}

\* R takes its framing from P and its fields, it hopes, from Q.
FramedPrograms ==
  {OneThread((P :> [model EXCEPT !.header = {wide}])
      @@ (Q :> [model EXCEPT !.mro = <<Q>>, !.body = <<field>>])
      @@ (R :> [model EXCEPT !.bases = <<P, Q>>, !.mro = <<R, P, Q>>])
      @@ Unused, <<P, Q, R>>)}
=============================================================================
