--------------------------- MODULE DataInduction ----------------------------
(***************************************************************************)
(* Induction over the natural numbers, stated for a set instead of a       *)
(* predicate so that the provers can use it, and what the other proof      *)
(* modules derive from it.                                                 *)
(***************************************************************************)
EXTENDS Integers, Sequences, FiniteSetTheorems, TLAPS

\* A set of naturals with 0 that is closed under successor holds them all.
\* If k were missing, the map that moves every number of the set one up
\* would send 0..k into 1..k without a collision.
LEMMA SetInduction ==
  ASSUME NEW P \in SUBSET Nat, 0 \in P, \A n \in P : n + 1 \in P
  PROVE  P = Nat
<1> SUFFICES ASSUME NEW k \in Nat, k \notin P PROVE FALSE
  OBVIOUS
<1> DEFINE f == [x \in 0..k |-> IF x \in P THEN x + 1 ELSE x]
<1>1. f \in [0..k -> 1..k]
  <2> SUFFICES ASSUME NEW x \in 0..k
               PROVE  (IF x \in P THEN x + 1 ELSE x) \in 1..k
    OBVIOUS
  <2> QED OBVIOUS
<1>2. \E x, y \in 0..k : x # y /\ f[x] = f[y]
  <2> HIDE DEF f
  <2>1. IsFiniteSet(0..k) /\ Cardinality(0..k) = k + 1 BY FS_Interval
  <2>2. IsFiniteSet(1..k) /\ Cardinality(1..k) = k BY FS_Interval
  <2>3. Cardinality(1..k) < Cardinality(0..k) BY <2>1, <2>2
  <2> QED BY <1>1, <2>1, <2>2, <2>3, FS_PigeonHole, Zenon
<1> QED BY <1>2

\* In a nonempty bounded set of naturals some element has no successor.
LEMMA LastElement ==
  ASSUME NEW S \in SUBSET Nat, NEW b \in Nat, \A x \in S : x <= b, S # {}
  PROVE  \E x \in S : x + 1 \notin S
<1> SUFFICES ASSUME \A x \in S : x + 1 \in S PROVE FALSE
  OBVIOUS
<1> PICK s \in S : TRUE OBVIOUS
<1> DEFINE P == {n \in Nat : s + n \in S}
<1>1. 0 \in P /\ \A n \in P : n + 1 \in P
  OBVIOUS
<1>2. P = Nat
  <2>1. P \in SUBSET Nat OBVIOUS
  <2> HIDE DEF P
  <2> QED BY <1>1, <2>1, SetInduction
<1> QED BY <1>2

\* f is defined by recursion on the numbers up to n: b first, then h[i] applied
\* to the value before.
Iterates(f, V, b, h, n) ==
  f \in [0..n -> V] /\ f[0] = b /\ \A i \in 1..n : f[i] = h[i][f[i - 1]]

\* A function defined by recursion on the numbers up to n exists.
LEMMA BoundedRecursion ==
  ASSUME NEW V, NEW b \in V, NEW n \in Nat, NEW h, h \in [1..n -> [V -> V]]
  PROVE  \E f : Iterates(f, V, b, h, n)
<1> DEFINE P == {k \in Nat : k <= n => \E f : Iterates(f, V, b, h, k)}
<1>1. P \in SUBSET Nat OBVIOUS
<1>2. 0 \in P
  <2>1. Iterates([i \in 0..0 |-> b], V, b, h, 0) BY DEF Iterates
  <2> QED BY <2>1
<1>3. ASSUME NEW k \in P PROVE k + 1 \in P
  <2> SUFFICES ASSUME k + 1 <= n PROVE \E f : Iterates(f, V, b, h, k + 1)
    BY <1>1, <1>3
  <2>1. k \in Nat /\ k <= n BY <1>1, <1>3
  <2>2. PICK f : Iterates(f, V, b, h, k) BY <1>3, <2>1
  <2>3. f[k] \in V /\ h[k + 1] \in [V -> V] BY <2>1, <2>2 DEF Iterates
  <2> DEFINE g == [i \in 0..(k + 1) |-> IF i = k + 1 THEN h[k + 1][f[k]] ELSE f[i]]
  <2>4. g \in [0..(k + 1) -> V] BY <2>1, <2>2, <2>3 DEF Iterates
  <2>5. g[0] = b /\ g[k] = f[k] BY <2>1, <2>2 DEF Iterates
  <2>6. ASSUME NEW i \in 1..(k + 1) PROVE g[i] = h[i][g[i - 1]]
    BY <2>1, <2>2 DEF Iterates
  <2>7. Iterates(g, V, b, h, k + 1)
    <3> HIDE DEF g
    <3> QED BY <2>4, <2>5, <2>6 DEF Iterates
  <2> QED BY <2>7
<1>4. P = Nat
  <2> HIDE DEF P
  <2> QED BY <1>1, <1>2, <1>3, SetInduction
<1>5. n \in P /\ n <= n
  <2> HIDE DEF P
  <2> QED BY <1>4
<1> QED BY <1>5, Zenon
=============================================================================
