------------------------------ MODULE Recursion ------------------------------
(***************************************************************************)
(* Induction and recursion over a set whose elements have a depth: a       *)
(* number, or how far an annotation is nested.  The predicates are sets    *)
(* and the right-hand sides functions, so that the lemmas can be cited.    *)
(***************************************************************************)
EXTENDS Integers, NaturalsInduction, WellFoundedInduction, TLAPS

\* A set of natural numbers has a least one.
LEMMA Least ==
  ASSUME NEW T \in SUBSET Nat, T # {}
  PROVE  \E x \in T : \A y \in T : x <= y
<1> DEFINE R == {p \in Nat \X Nat : p[1] < p[2]}
<1>1. OpToRel(<, Nat) = R
  BY DEF OpToRel
<1>2. IsWellFoundedOn(R, Nat)
  BY <1>1, NatLessThanWellFounded
<1>3. PICK x \in T : \A y \in T : ~(<<y, x>> \in R)
  BY <1>2, WFMin
<1>4. \A y \in T : x <= y
  <2> TAKE y \in T
  <2>1. y \in Nat /\ x \in Nat
    OBVIOUS
  <2>2. ~(y < x)
    BY <2>1, <1>3
  <2>3. QED BY <2>1, <2>2
<1>5. QED BY <1>4

\* A set closed under going one deeper is everything.
LEMMA Induction ==
  ASSUME NEW S, NEW depth \in [S -> Nat], NEW P,
         \A x \in S : (\A y \in S : depth[y] < depth[x] => y \in P) => x \in P
  PROVE  S \subseteq P
<1> DEFINE T == {x \in S : x \notin P}
           D == {depth[x] : x \in T}
<1> SUFFICES ASSUME T # {} PROVE FALSE
  OBVIOUS
<1>1. D \in SUBSET Nat
  OBVIOUS
<1>2. D # {}
  OBVIOUS
<1>3. PICK d \in D : \A e \in D : d <= e
  <2> HIDE DEF D
  <2>1. QED BY <1>1, <1>2, Least
<1>4. PICK x \in T : d = depth[x]
  OBVIOUS
<1>5. \A y \in T : depth[x] <= depth[y]
  BY <1>3, <1>4
<1>6. \A y \in S : depth[y] < depth[x] => y \in P
  BY <1>5
<1>7. QED BY <1>6

\* The same for numbers.
LEMMA Counting ==
  ASSUME NEW P, 0 \in P, \A n \in Nat : n \in P => n + 1 \in P
  PROVE  Nat \subseteq P
<1> DEFINE T == {n \in Nat : n \notin P}
<1> SUFFICES ASSUME T # {} PROVE FALSE
  OBVIOUS
<1>1. PICK n \in T : \A m \in T : n <= m
  BY Least
<1>2. n \in Nat /\ n # 0
  OBVIOUS
<1>3. n - 1 \in Nat /\ n - 1 \notin T
  BY <1>1, <1>2
<1>4. (n - 1) + 1 \in P
  BY <1>3
<1>5. QED BY <1>2, <1>4

\* E[<<x, f>>] looks at f only below x.
Descends(E, S, V, depth) ==
  /\ depth \in [S -> Nat] /\ V # {}
  /\ E \in [S \X [S -> V] -> V]
  /\ \A x \in S : \A f, g \in [S -> V] :
       (\A y \in S : depth[y] < depth[x] => f[y] = g[y]) =>
       E[<<x, f>>] = E[<<x, g>>]

\* What recursion determines is determined.
LEMMA Unique ==
  ASSUME NEW S, NEW V, NEW depth, NEW E, Descends(E, S, V, depth),
         NEW f \in [S -> V], NEW g \in [S -> V], NEW k \in Nat,
         \A x \in S : depth[x] < k => f[x] = E[<<x, f>>] /\ g[x] = E[<<x, g>>]
  PROVE  \A x \in S : depth[x] < k => f[x] = g[x]
<1> DEFINE P == {x \in S : depth[x] < k => f[x] = g[x]}
<1>0. depth \in [S -> Nat]
  BY DEF Descends
<1>1. ASSUME NEW x \in S, \A y \in S : depth[y] < depth[x] => y \in P
      PROVE  x \in P
  <2> SUFFICES ASSUME depth[x] < k PROVE f[x] = g[x]
    OBVIOUS
  <2>1. \A y \in S : depth[y] < depth[x] => f[y] = g[y]
    BY <1>0, <1>1
  <2>2. QED BY <2>1 DEF Descends
<1> HIDE DEF P
<1>2. S \subseteq P
  BY <1>0, <1>1, Induction
<1>3. QED BY <1>2 DEF P

\* There is a function that recursion describes.
LEMMA Recursive ==
  ASSUME NEW S, NEW V, NEW depth, NEW E, Descends(E, S, V, depth)
  PROVE  \E f \in [S -> V] : \A x \in S : f[x] = E[<<x, f>>]
<1> DEFINE Upto(k, f) == f \in [S -> V] /\ \A x \in S : depth[x] < k => f[x] = E[<<x, f>>]
           P == {k \in Nat : \E f : Upto(k, f)}
           At(k) == CHOOSE f : Upto(k, f)
           whole == [x \in S |-> At(depth[x] + 1)[x]]
<1>0. depth \in [S -> Nat] /\ V # {}
  BY DEF Descends
<1>1. 0 \in P
  <2>1. PICK v : v \in V
    BY <1>0
  <2>2. Upto(0, [x \in S |-> v])
    BY <1>0, <2>1
  <2>3. QED BY <2>2
<1>2. ASSUME NEW k \in Nat, k \in P PROVE k + 1 \in P
  <2>1. PICK f : Upto(k, f)
    BY <1>2
  <2> DEFINE g == [x \in S |-> E[<<x, f>>]]
  <2>2. g \in [S -> V]
    BY <2>1 DEF Descends
  <2>3. \A x \in S : depth[x] < k => g[x] = f[x]
    BY <2>1
  <2>4. \A x \in S : g[x] = E[<<x, f>>]
    OBVIOUS
  <2> HIDE DEF g
  <2>5. ASSUME NEW x \in S, depth[x] < k + 1 PROVE g[x] = E[<<x, g>>]
    <3>1. \A y \in S : depth[y] < depth[x] => f[y] = g[y]
      BY <1>0, <2>3, <2>5
    <3>2. E[<<x, f>>] = E[<<x, g>>]
      BY <3>1, <2>1, <2>2 DEF Descends
    <3>3. QED BY <3>2, <2>4
  <2>6. Upto(k + 1, g)
    BY <2>2, <2>5
  <2>7. QED BY <2>6
<1>3. \A k \in Nat : Upto(k, At(k))
  <2>1. Nat \subseteq P
    <3> HIDE DEF P
    <3>1. QED BY <1>1, <1>2, Counting
  <2> HIDE DEF Upto
  <2>2. QED BY <2>1
<1>4. whole \in [S -> V]
  <2>1. \A x \in S : depth[x] + 1 \in Nat
    BY <1>0
  <2>2. \A x \in S : At(depth[x] + 1) \in [S -> V]
    BY <2>1, <1>3
  <2> HIDE DEF At
  <2>3. QED BY <2>2
<1>5. ASSUME NEW x \in S PROVE whole[x] = E[<<x, whole>>]
  <2> DEFINE f == At(depth[x] + 1)
  <2>1. depth[x] + 1 \in Nat /\ depth[x] < depth[x] + 1
    BY <1>0
  <2>2. Upto(depth[x] + 1, f)
    BY <2>1, <1>3
  <2>3. ASSUME NEW y \in S, depth[y] < depth[x] PROVE whole[y] = f[y]
    <3> DEFINE g == At(depth[y] + 1)
    <3>1. depth[y] + 1 \in Nat /\ depth[y] < depth[y] + 1
      BY <1>0
    <3>2. Upto(depth[y] + 1, g) /\ whole[y] = g[y]
      BY <3>1, <1>3
    <3> HIDE DEF At, whole
    <3>3. \A z \in S : depth[z] < depth[y] + 1 =>
            f[z] = E[<<z, f>>] /\ g[z] = E[<<z, g>>]
      BY <1>0, <2>2, <2>3, <3>2
    <3> HIDE DEF f, g
    <3>4. \A z \in S : depth[z] < depth[y] + 1 => g[z] = f[z]
      BY <2>2, <3>1, <3>2, <3>3, Unique
    <3>5. QED BY <3>1, <3>2, <3>4
  <2>4. whole[x] = f[x]
    OBVIOUS
  <2> HIDE DEF At, whole, f
  <2>5. f \in [S -> V] /\ f[x] = E[<<x, f>>]
    BY <2>1, <2>2
  <2>6. E[<<x, f>>] = E[<<x, whole>>]
    BY <2>3, <2>5, <1>4 DEF Descends
  <2>7. QED BY <2>4, <2>5, <2>6
<1> HIDE DEF whole
<1>6. QED BY <1>4, <1>5
=============================================================================
