-------------------------- MODULE RecursionProofs --------------------------
(***************************************************************************)
(* Lemmas for reasoning about recursive functions and about sets that      *)
(* grow.  The induction theorems of the library quantify over operators;   *)
(* here induction is stated for the members of a set, and derived from the *)
(* existence of minimal elements.                                          *)
(***************************************************************************)
EXTENDS Integers, FiniteSetTheorems, WellFoundedInduction, NaturalsInduction, TLAPS

(* A set of natural numbers that is not empty has a least element.         *)
LEMMA LeastElement ==
  ASSUME NEW T, T \subseteq Nat, T # {}
  PROVE  \E x \in T : \A y \in T : x <= y
<1> DEFINE R == OpToRel(<, Nat)
<1>1. PICK x \in T : \A y \in T : <<y, x>> \notin R
  <2>1. IsWellFoundedOn(R, Nat)
    BY NatLessThanWellFounded
  <2> HIDE DEF R
  <2> QED
    BY <2>1, WFMin
<1>2. \A y \in T : ~(y < x)
  BY <1>1 DEF OpToRel
<1> QED
  BY <1>2

(* What holds of 0, and of n + 1 whenever it holds of n, holds of all.     *)
LEMMA NaturalInduction ==
  ASSUME NEW S, 0 \in S, \A n \in Nat : n \in S => n + 1 \in S
  PROVE  Nat \subseteq S
<1> SUFFICES ASSUME Nat \ S # {} PROVE FALSE
  OBVIOUS
<1>1. PICK x \in Nat \ S : \A y \in Nat \ S : x <= y
  BY LeastElement
<1>2. x - 1 \in Nat /\ x - 1 \in S
  BY <1>1
<1> QED
  BY <1>2

(* A sequence is defined by its first element and the step to the next.    *)
IteratesFrom(f, V, a, advance) ==
  f \in [Nat -> V] /\ f[0] = a /\ \A n \in Nat : f[n + 1] = advance[n][f[n]]

LEMMA Iterates ==
  ASSUME NEW V, NEW a \in V, NEW advance \in [Nat -> [V -> V]]
  PROVE  \E f : IteratesFrom(f, V, a, advance)
<1> DEFINE Upto(n, g) == /\ g \in [0..n -> V] /\ g[0] = a
                         /\ \A k \in 0..(n - 1) : g[k + 1] = advance[k][g[k]]
           S == {n \in Nat : \E g : Upto(n, g)}
           One(n) == CHOOSE g : Upto(n, g)
           f == [n \in Nat |-> One(n)[n]]
<1>1. 0 \in S
  <2>1. Upto(0, [k \in 0..0 |-> a])
    OBVIOUS
  <2> QED
    BY <2>1
<1>2. ASSUME NEW n \in Nat, n \in S
      PROVE  n + 1 \in S
  <2>1. PICK g : Upto(n, g)
    BY <1>2
  <2> DEFINE h == [k \in 0..(n + 1) |-> IF k <= n THEN g[k] ELSE advance[n][g[n]]]
  <2>2. h \in [0..(n + 1) -> V] /\ h[0] = a
    <3>1. advance[n][g[n]] \in V
      BY <2>1
    <3> QED
      BY <2>1, <3>1
  <2>3. ASSUME NEW k \in 0..n
        PROVE  h[k + 1] = advance[k][h[k]]
    <3>1. h[k] = g[k] /\ k \in 0..(n + 1) /\ k + 1 \in 0..(n + 1)
      OBVIOUS
    <3>2. CASE k = n
      BY <3>1, <3>2
    <3>3. CASE k # n
      <4>1. k \in 0..(n - 1) /\ h[k + 1] = g[k + 1]
        BY <3>1, <3>3
      <4>2. g[k + 1] = advance[k][g[k]]
        BY <4>1, <2>1
      <4> QED
        BY <3>1, <4>1, <4>2
    <3> QED
      BY <3>2, <3>3
  <2> HIDE DEF h
  <2>4. Upto(n + 1, h)
    <3>1. (n + 1) - 1 = n
      OBVIOUS
    <3> QED
      BY <2>2, <2>3, <3>1
  <2> QED
    BY <2>4
<1>3. \A n \in Nat : Upto(n, One(n))
  <2> HIDE DEF Upto
  <2>1. Nat \subseteq S
    <3> HIDE DEF S
    <3> QED
      BY <1>1, <1>2, NaturalInduction
  <2> QED
    BY <2>1
<1>4. ASSUME NEW n \in Nat
      PROVE  \A k \in 0..n : One(n)[k] = One(n + 1)[k]
  <2> DEFINE g == One(n)
             h == One(n + 1)
             A == {k \in Nat : k \in 0..n => g[k] = h[k]}
  <2>1. Upto(n, g) /\ Upto(n + 1, h)
    <3> HIDE DEF Upto, One
    <3> QED
      BY <1>3
  <2> HIDE DEF g, h
  <2>2. 0 \in A
    BY <2>1
  <2>3. ASSUME NEW k \in Nat, k \in A
        PROVE  k + 1 \in A
    <3>1. CASE k + 1 \in 0..n
      <4>1. g[k + 1] = advance[k][g[k]] /\ h[k + 1] = advance[k][h[k]] /\ g[k] = h[k]
        BY <2>1, <2>3, <3>1
      <4> QED
        BY <4>1
    <3> QED
      BY <3>1
  <2>4. Nat \subseteq A
    <3> HIDE DEF A
    <3> QED
      BY <2>2, <2>3, NaturalInduction
  <2>5. \A k \in 0..n : g[k] = h[k]
    BY <2>4
  <2> HIDE DEF One
  <2> QED
    BY <2>5 DEF g, h
<1>5. f \in [Nat -> V] /\ f[0] = a
  <2> HIDE DEF One
  <2> QED
    BY <1>3
<1>6. ASSUME NEW n \in Nat
      PROVE  f[n + 1] = advance[n][f[n]]
  <2> HIDE DEF One
  <2>1. One(n + 1)[n + 1] = advance[n][One(n + 1)[n]]
    BY <1>3
  <2> QED
    BY <2>1, <1>4
<1> HIDE DEF f
<1> QED
  BY <1>5, <1>6 DEF IteratesFrom

(* Sets that grow within a finite set come to a step that adds nothing.    *)
LEMMA GrowthStops ==
  ASSUME NEW U, IsFiniteSet(U), NEW N \in Nat, NEW f,
         \A n \in 0..N : f[n] \subseteq U,
         \A n \in 0..(N - 1) : f[n] \subseteq f[n + 1],
         Cardinality(U) < N + Cardinality(f[0])
  PROVE  \E n \in 0..(N - 1) : f[n + 1] = f[n]
<1> SUFFICES ASSUME \A n \in 0..(N - 1) : f[n + 1] # f[n]
             PROVE  FALSE
  OBVIOUS
<1> DEFINE A == {n \in Nat : n <= N => Cardinality(f[n]) >= n + Cardinality(f[0])}
<1>1. \A n \in 0..N : IsFiniteSet(f[n]) /\ Cardinality(f[n]) \in Nat
                      /\ Cardinality(f[n]) <= Cardinality(U)
  BY FS_Subset, FS_CardinalityType
<1>2. 0 \in A
  BY <1>1
<1>3. ASSUME NEW n \in Nat, n \in A
      PROVE  n + 1 \in A
  <2>1. CASE n + 1 <= N
    <3>1. n \in 0..N /\ n + 1 \in 0..N /\ n \in 0..(N - 1) /\ 0 \in 0..N
      BY <2>1
    <3>2. f[n] \in SUBSET f[n + 1] /\ f[n + 1] # f[n]
      BY <3>1
    <3>3. Cardinality(f[n]) <= Cardinality(f[n + 1]) /\ Cardinality(f[n]) # Cardinality(f[n + 1])
      BY <3>1, <3>2, <1>1, FS_Subset
    <3>4. Cardinality(f[n]) >= n + Cardinality(f[0])
      BY <1>3, <2>1
    <3> QED
      BY <3>1, <3>3, <3>4, <1>1
  <2> QED
    BY <2>1
<1>4. Nat \subseteq A
  <2> HIDE DEF A
  <2> QED
    BY <1>2, <1>3, NaturalInduction
<1>5. Cardinality(f[N]) >= N + Cardinality(f[0])
  BY <1>4
<1>6. Cardinality(U) \in Nat
  BY FS_CardinalityType
<1> QED
  BY <1>1, <1>5, <1>6

(* A collection that holds the empty set and grows by any one element      *)
(* holds every finite set.                                                 *)
LEMMA FiniteSetInduction ==
  ASSUME NEW D, IsFiniteSet(D), NEW G, {} \in G,
         \A S \in SUBSET D : \A x \in S : S \ {x} \in G => S \in G
  PROVE  D \in G
<1> DEFINE A == {n \in Nat : \A S \in SUBSET D : Cardinality(S) = n => S \in G}
<1>1. \A S \in SUBSET D : IsFiniteSet(S) /\ Cardinality(S) \in Nat
  BY FS_Subset, FS_CardinalityType
<1>2. 0 \in A
  <2>1. \A S \in SUBSET D : Cardinality(S) = 0 => S = {}
    BY <1>1, FS_EmptySet
  <2> QED
    BY <2>1
<1>3. ASSUME NEW n \in Nat, n \in A
      PROVE  n + 1 \in A
  <2> SUFFICES ASSUME NEW S \in SUBSET D, Cardinality(S) = n + 1
               PROVE  S \in G
    OBVIOUS
  <2>1. S # {}
    <3>1. Cardinality({}) = 0 /\ n + 1 # 0
      BY FS_EmptySet
    <3> QED
      BY <3>1
  <2>2. PICK x \in S : TRUE
    BY <2>1
  <2>3. Cardinality(S \ {x}) = n
    <3>1. Cardinality(S \ {x}) = Cardinality(S) - 1
      BY <1>1, FS_RemoveElement
    <3> QED
      BY <3>1
  <2>4. S \ {x} \in SUBSET D
    OBVIOUS
  <2>5. S \ {x} \in G
    BY <1>3, <2>3, <2>4
  <2> QED
    BY <2>5
<1>4. Nat \subseteq A
  <2> HIDE DEF A
  <2> QED
    BY <1>2, <1>3, NaturalInduction
<1>5. Cardinality(D) \in A /\ D \in SUBSET D
  BY <1>1, <1>4
<1> QED
  BY <1>5

(* The functions that choose one of finitely many values for each of       *)
(* finitely many arguments are finitely many.                              *)
ChoicesFrom(D, T) == {f \in [D -> UNION {T[x] : x \in D}] : \A x \in D : f[x] \in T[x]}

LEMMA FiniteChoices ==
  ASSUME NEW D, IsFiniteSet(D), NEW T, \A x \in D : IsFiniteSet(T[x])
  PROVE  IsFiniteSet(ChoicesFrom(D, T))
<1> DEFINE G == {S \in SUBSET D : IsFiniteSet(ChoicesFrom(S, T))}
<1>1. {} \in G
  <2>1. \A f, g \in ChoicesFrom({}, T) : f = g
    BY DEF ChoicesFrom
  <2>2. \E f : ChoicesFrom({}, T) \in SUBSET {f}
    <3>1. CASE ChoicesFrom({}, T) = {}
      BY <3>1
    <3>2. CASE ChoicesFrom({}, T) # {}
      BY <2>1, <3>2
    <3> QED
      BY <3>1, <3>2
  <2>3. IsFiniteSet(ChoicesFrom({}, T))
    <3>1. PICK f : ChoicesFrom({}, T) \in SUBSET {f}
      BY <2>2
    <3>2. IsFiniteSet({f})
      BY FS_Singleton
    <3> QED
      BY <3>1, <3>2, FS_Subset
  <2> QED
    BY <2>3
<1>2. ASSUME NEW S \in SUBSET D, NEW x \in S, S \ {x} \in G
      PROVE  S \in G
  <2> DEFINE R == S \ {x}
             P == ChoicesFrom(R, T) \X T[x]
             h == [f \in ChoicesFrom(S, T) |-> <<[y \in R |-> f[y]], f[x]>>]
  <2>1. IsFiniteSet(ChoicesFrom(R, T)) /\ IsFiniteSet(T[x])
    BY <1>2
  <2>2. IsFiniteSet(P)
    BY <2>1, FS_Product
  <2>3. ASSUME NEW f \in ChoicesFrom(S, T)
        PROVE  [y \in R |-> f[y]] \in ChoicesFrom(R, T) /\ f[x] \in T[x]
    <3>1. \A y \in R : f[y] \in T[y] /\ f[y] \in UNION {T[z] : z \in R}
      BY DEF ChoicesFrom
    <3> QED
      BY <3>1 DEF ChoicesFrom
  <2>4. h \in [ChoicesFrom(S, T) -> P]
    BY <2>3
  <2>5. ASSUME NEW f \in ChoicesFrom(S, T), NEW g \in ChoicesFrom(S, T), h[f] = h[g]
        PROVE  f = g
    <3>1. [y \in R |-> f[y]] = [y \in R |-> g[y]] /\ f[x] = g[x]
      BY <2>5
    <3>2. \A y \in R : f[y] = g[y]
      BY <3>1
    <3>3. \A y \in S : f[y] = g[y]
      BY <3>1, <3>2
    <3>4. f = [y \in S |-> f[y]] /\ g = [y \in S |-> g[y]]
      BY DEF ChoicesFrom
    <3> QED
      BY <3>3, <3>4
  <2>6. h \in Injection(ChoicesFrom(S, T), P)
    <3> HIDE DEF P
    <3>1. DOMAIN h = ChoicesFrom(S, T)
      OBVIOUS
    <3> HIDE DEF h
    <3> QED
      BY <2>4, <2>5, <3>1 DEF Injection, IsInjective
  <2> HIDE DEF h, P
  <2>7. IsFiniteSet(ChoicesFrom(S, T))
    BY <2>2, <2>6, FS_Injection
  <2> QED
    BY <2>7
<1>3. D \in G
  <2> HIDE DEF G
  <2> QED
    BY <1>1, <1>2, FiniteSetInduction
<1> QED
  BY <1>3

LEMMA FiniteImage ==
  ASSUME NEW S, IsFiniteSet(S), NEW f
  PROVE  IsFiniteSet({f[x] : x \in S})
<1> DEFINE T == {f[x] : x \in S}
           g == [x \in S |-> f[x]]
<1>1. g \in [S -> T] /\ \A t \in T : \E s \in S : g[s] = t
  OBVIOUS
<1>2. g \in Surjection(S, T)
  <2> HIDE DEF g, T
  <2> QED
    BY <1>1 DEF Surjection
<1> HIDE DEF g, T
<1>3. IsFiniteSet(T)
  BY <1>2, FS_Surjection
<1> QED
  BY <1>3 DEF T
=============================================================================
