------------------------- MODULE ProofSearchProofs -------------------------
(***************************************************************************)
(* Proofs about ProofSearch, for any theorem file.                         *)
(***************************************************************************)
EXTENDS ProofSearch, RecursionProofs

-----------------------------------------------------------------------------
(* Balls: what some number of links leads to, and that as many links as    *)
(* there are at all lead to everything that can be reached.                *)

Balls(f, links, instance) ==
  /\ f[0] = {instance}
  /\ \A n \in Nat : f[n + 1] = f[n] \cup {e[2] : e \in {x \in links : x[1] \in f[n]}}
  /\ \A n \in Nat : f[n] \subseteq {instance} \cup {e[2] : e \in links}
  /\ \A n \in Nat : Ball(links, instance, n) = f[n]

LEMMA BallSteps ==
  ASSUME NEW links, NEW instance
  PROVE  \E f : Balls(f, links, instance)
<1> DEFINE V == SUBSET ({instance} \cup {e[2] : e \in links})
           start == {instance}
           next == [n \in Nat |-> [S \in V |-> S \cup {e[2] : e \in {x \in links : x[1] \in S}}]]
<1>1. next \in [Nat -> [V -> V]] /\ start \in V
  OBVIOUS
<1>2. PICK f : IteratesFrom(f, V, start, next)
  <2> HIDE DEF V, start, next
  <2> QED
    BY <1>1, Iterates
<1>3. /\ f \in [Nat -> V] /\ f[0] = {instance}
      /\ \A n \in Nat : f[n + 1] = f[n] \cup {e[2] : e \in {x \in links : x[1] \in f[n]}}
  BY <1>2 DEF IteratesFrom
<1>4. ASSUME NEW n \in Nat
      PROVE  Ball(links, instance, n) = f[n]
  <2> DEFINE Is(ball) == ball = [k \in 0..n |-> IF k = 0 THEN {instance}
                                  ELSE LET inner == ball[k - 1]
                                       IN  inner \cup {e[2] : e \in {x \in links : x[1] \in inner}}]
             b == CHOOSE ball : Is(ball)
             g == [k \in 0..n |-> f[k]]
  <2>1. Is(g)
    <3> SUFFICES ASSUME NEW k \in 0..n
                 PROVE  g[k] = IF k = 0 THEN {instance}
                               ELSE g[k - 1] \cup {e[2] : e \in {x \in links : x[1] \in g[k - 1]}}
      OBVIOUS
    <3>1. CASE k = 0
      BY <3>1, <1>3
    <3>2. CASE k # 0
      <4>1. k - 1 \in 0..n /\ k - 1 \in Nat /\ (k - 1) + 1 = k
        BY <3>2
      <4> QED
        BY <3>2, <4>1, <1>3
    <3> QED
      BY <3>1, <3>2
  <2>2. Is(b)
    <3> HIDE DEF Is
    <3> QED
      BY <2>1
  <2>3. Ball(links, instance, n) = b[n]
    BY DEF Ball
  <2> HIDE DEF b
  <2> DEFINE A == {k \in Nat : k \in 0..n => b[k] = f[k]}
  <2>4. 0 \in A
    BY <2>2, <1>3
  <2>5. ASSUME NEW k \in Nat, k \in A
        PROVE  k + 1 \in A
    <3>1. CASE k + 1 \in 0..n
      <4>1. k \in 0..n /\ (k + 1) - 1 = k /\ k + 1 # 0
        BY <3>1
      <4>2. b[k + 1] = b[k] \cup {e[2] : e \in {x \in links : x[1] \in b[k]}}
        BY <3>1, <4>1, <2>2
      <4>3. b[k] = f[k]
        BY <2>5, <4>1
      <4>4. k \in Nat
        OBVIOUS
      <4>5. b[k + 1] = f[k + 1]
        BY <4>2, <4>3, <4>4, <1>3
      <4> QED
        BY <4>5
    <3> QED
      BY <3>1
  <2>6. Nat \subseteq A
    <3> HIDE DEF A
    <3> QED
      BY <2>4, <2>5, NaturalInduction
  <2> QED
    BY <2>6, <2>3
<1>5. \A n \in Nat : f[n] \subseteq {instance} \cup {e[2] : e \in links}
  BY <1>3
<1> QED
  BY <1>3, <1>4, <1>5 DEF Balls

LEMMA BallIsClosed ==
  ASSUME NEW links, IsFiniteSet(links), NEW instance
  PROVE  LET ball == Ball(links, instance, Cardinality(links))
         IN  instance \in ball /\ \A e \in links : e[1] \in ball => e[2] \in ball
<1> DEFINE N == Cardinality(links)
           U == {instance} \cup {e[2] : e \in links}
<1>0. PICK f : Balls(f, links, instance)
  BY BallSteps
<1>1. /\ f[0] = {instance}
      /\ \A n \in Nat : f[n + 1] = f[n] \cup {e[2] : e \in {x \in links : x[1] \in f[n]}}
      /\ \A n \in Nat : f[n] \subseteq U
      /\ \A n \in Nat : Ball(links, instance, n) = f[n]
  BY <1>0 DEF Balls
<1>2. IsFiniteSet(U) /\ Cardinality(U) <= N + 1 /\ N \in Nat
  <2> DEFINE T == {e[2] : e \in links}
             second == [e \in links |-> e[2]]
  <2>1. second \in Surjection(links, T)
    BY DEF Surjection
  <2>2. IsFiniteSet(T) /\ Cardinality(T) <= N
    BY <2>1, FS_Surjection
  <2>3. N \in Nat /\ Cardinality(T) \in Nat
    BY <2>2, FS_CardinalityType
  <2>4. IsFiniteSet(T \cup {instance})
        /\ Cardinality(T \cup {instance}) = IF instance \in T THEN Cardinality(T) ELSE Cardinality(T) + 1
    <3> HIDE DEF T
    <3> QED
      BY <2>2, FS_AddElement
  <2>5. U = T \cup {instance}
    OBVIOUS
  <2> QED
    BY <2>2, <2>3, <2>4, <2>5
<1> HIDE DEF U, N
<1>3. PICK n \in 0..N : f[n + 1] = f[n]
  <2>0. Cardinality({instance}) = 1 /\ Cardinality(U) \in Nat
    BY <1>2, FS_Singleton, FS_CardinalityType
  <2>1. N + 1 \in Nat /\ (N + 1) - 1 = N /\ Cardinality(f[0]) = 1
    BY <1>1, <1>2, <2>0
  <2>2. \A n \in 0..(N + 1) : n \in Nat
    OBVIOUS
  <2>3. \A n \in 0..(N + 1) : f[n] \subseteq U /\ f[n] \subseteq f[n + 1]
    BY <1>1, <2>2
  <2>4. \E n \in 0..((N + 1) - 1) : f[n + 1] = f[n]
    <3>1. Cardinality(U) < (N + 1) + Cardinality(f[0])
      BY <2>0, <2>1, <1>2
    <3>2. \A n \in 0..((N + 1) - 1) : f[n] \subseteq f[n + 1]
      BY <2>3, <1>2
    <3> QED
      BY <2>1, <2>3, <1>2, <3>1, <3>2, GrowthStops
  <2> QED
    BY <2>1, <2>4
<1>4. f[N + 1] = f[N]
  <2> DEFINE A == {k \in Nat : k >= n => f[k + 1] = f[k]}
  <2>1. 0 \in A
    BY <1>3
  <2>2. ASSUME NEW k \in Nat, k \in A
        PROVE  k + 1 \in A
    <3>1. CASE k + 1 = n
      BY <3>1, <1>3
    <3>2. CASE k >= n
      <4>1. f[k + 1] = f[k]
        BY <3>2, <2>2
      <4>2. k + 1 \in Nat
        OBVIOUS
      <4>3. f[(k + 1) + 1] = f[k + 1]
        <5>1. f[(k + 1) + 1] = f[k + 1] \cup {e[2] : e \in {x \in links : x[1] \in f[k + 1]}}
          BY <4>2, <1>1
        <5>2. f[k + 1] = f[k] \cup {e[2] : e \in {x \in links : x[1] \in f[k]}}
          BY <1>1
        <5> QED
          BY <5>1, <5>2, <4>1
      <4> QED
        BY <4>2, <4>3
    <3>3. CASE k + 1 < n
      BY <3>3
    <3> QED
      BY <3>1, <3>2, <3>3
  <2>3. Nat \subseteq A
    <3> HIDE DEF A
    <3> QED
      BY <2>1, <2>2, NaturalInduction
  <2> QED
    BY <2>3, <1>2
<1>5. {e[2] : e \in {x \in links : x[1] \in f[N]}} \subseteq f[N]
  BY <1>1, <1>2, <1>4
<1>6. instance \in f[N]
  <2> DEFINE A == {k \in Nat : instance \in f[k]}
  <2>1. 0 \in A
    BY <1>1
  <2>2. \A k \in Nat : k \in A => k + 1 \in A
    BY <1>1
  <2>3. Nat \subseteq A
    <3> HIDE DEF A
    <3> QED
      BY <2>1, <2>2, NaturalInduction
  <2> QED
    BY <2>3, <1>2
<1>7. Ball(links, instance, Cardinality(links)) = f[N]
  BY <1>1, <1>2 DEF N
<1> QED
  BY <1>5, <1>6, <1>7

-----------------------------------------------------------------------------
(* Instances without constants.                                            *)
Closed(instance) == \A p \in 1..Params : instance.consts[p] \in Literals

LEMMA Values ==
  /\ Params \in Nat /\ IsFiniteSet(Literals) /\ IsFiniteSet(Consts)
  /\ \A c : ~(IsLiteral(c) /\ IsConst(c)) /\ Loop \notin Literals
  /\ \A c \in Value : IsLiteral(c) \/ IsConst(c)
BY SearchAssumption DEF IsLiteral, IsConst, Value

LEMMA SameInstance ==
  ASSUME NEW a \in Instance, NEW b \in Instance,
         a.game = b.game, \A p \in 1..Params : a.consts[p] = b.consts[p]
  PROVE  a = b
<1>1. a.consts = b.consts
  <2> DEFINE A == a.consts
             B == b.consts
  <2>1. A \in [1..Params -> Value] /\ B \in [1..Params -> Value] /\ \A p \in 1..Params : A[p] = B[p]
    BY DEF Instance
  <2> HIDE DEF A, B
  <2>2. A = [p \in 1..Params |-> A[p]] /\ B = [p \in 1..Params |-> B[p]]
    BY <2>1
  <2>3. [p \in 1..Params |-> A[p]] = [p \in 1..Params |-> B[p]]
    BY <2>1
  <2>4. A = B
    BY <2>2, <2>3
  <2> QED
    BY <2>4 DEF A, B
<1> QED
  BY <1>1 DEF Instance

(* Nothing but itself is more special than an instance without constants.  *)
LEMMA ClosedIsSpecial ==
  ASSUME NEW a \in Instance, NEW b \in Instance, Compatible(a, b), Closed(b)
  PROVE  a = b
<1>1. a.game = b.game /\ \A p \in 1..Params : a.consts[p] = b.consts[p]
  BY Values DEF Compatible, Closed, IsConst, IsLiteral
<1> QED
  BY <1>1, SameInstance

LEMMA ClosedConsts ==
  ASSUME NEW a \in Instance
  PROVE  ConstsOf(a) = {} <=> Closed(a)
BY Values DEF ConstsOf, Closed, Instance, Value, IsConst, IsLiteral

LEMMA CompatibleSelf == \A a : Compatible(a, a)
BY DEF Compatible

LEMMA ConcreteParts ==
  ASSUME NEW a \in Instance, NEW v \in Valuation
  PROVE  /\ Concrete(a, v) \in Instance /\ Concrete(a, v).game = a.game
         /\ \A p \in 1..Params : Concrete(a, v).consts[p] = IF IsConst(a.consts[p]) THEN v[a.consts[p]] ELSE a.consts[p]
BY DEF Concrete, Instance, Valuation, IsConst, Value

LEMMA ConcreteClosed ==
  ASSUME NEW a \in Instance, Closed(a), NEW v \in Valuation
  PROVE  Concrete(a, v) = a
<1>1. /\ Concrete(a, v) \in Instance /\ Concrete(a, v).game = a.game
      /\ \A p \in 1..Params : Concrete(a, v).consts[p] = IF IsConst(a.consts[p]) THEN v[a.consts[p]] ELSE a.consts[p]
  BY ConcreteParts
<1>2. \A p \in 1..Params : Concrete(a, v).consts[p] = a.consts[p]
  BY <1>1, Values DEF Closed, IsLiteral
<1> QED
  BY <1>1, <1>2, SameInstance

(* A constant is assigned what stands at the first of its positions.       *)
LEMMA AssignmentIsAt ==
  ASSUME NEW specific \in Instance, NEW general \in Instance, NEW const,
         \E p \in Assigned(specific, general) : general.consts[p] = const
  PROVE  \E p \in Assigned(specific, general) :
           general.consts[p] = const /\ Assignment(specific, general, const) = specific.consts[p]
<1> DEFINE at == {p \in Assigned(specific, general) : general.consts[p] = const}
           first == CHOOSE p \in at : \A q \in at : p <= q
<1>1. at \subseteq Nat /\ at # {}
  BY Values DEF Assigned
<1>2. first \in at
  <2> HIDE DEF at
  <2>1. \E p \in at : \A q \in at : p <= q
    BY <1>1, LeastElement
  <2> QED
    BY <2>1
<1>3. Assignment(specific, general, const) = specific.consts[first]
  BY DEF Assignment
<1> HIDE DEF first
<1> QED
  BY <1>2, <1>3

LEMMA TransferParts ==
  ASSUME NEW specific \in Instance, NEW match \in Instance, NEW other \in Instance
  PROVE  /\ Transfer(specific, match, other) \in Instance
         /\ Transfer(specific, match, other).game = other.game
         /\ \A p \in 1..Params : Transfer(specific, match, other).consts[p] =
              IF \E q \in Assigned(specific, match) : match.consts[q] = other.consts[p]
              THEN Assignment(specific, match, other.consts[p])
              ELSE other.consts[p]
<1> DEFINE val(p) == IF \E q \in Assigned(specific, match) : match.consts[q] = other.consts[p]
                     THEN Assignment(specific, match, other.consts[p])
                     ELSE other.consts[p]
<1>1. ASSUME NEW p \in 1..Params
      PROVE  val(p) \in Value
  <2>1. CASE \E q \in Assigned(specific, match) : match.consts[q] = other.consts[p]
    <3>1. PICK q \in Assigned(specific, match) : Assignment(specific, match, other.consts[p]) = specific.consts[q]
      BY <2>1, AssignmentIsAt
    <3>2. q \in 1..Params
      BY DEF Assigned
    <3> QED
      BY <2>1, <3>1, <3>2 DEF Instance
  <2>2. CASE ~\E q \in Assigned(specific, match) : match.consts[q] = other.consts[p]
    BY <2>2 DEF Instance
  <2> QED
    BY <2>1, <2>2
<1>2. Transfer(specific, match, other) = [other EXCEPT !.consts = [p \in 1..Params |-> val(p)]]
  BY DEF Transfer
<1> HIDE DEF val
<1>3. /\ Transfer(specific, match, other) \in Instance
      /\ Transfer(specific, match, other).game = other.game
      /\ \A p \in 1..Params : Transfer(specific, match, other).consts[p] = val(p)
  BY <1>1, <1>2 DEF Instance
<1> QED
  BY <1>3 DEF val

(* What is known of the constants of one side makes the other side what    *)
(* the hop says it is: some values of the constants give both.             *)
LEMMA TransferIsMeant ==
  ASSUME NEW specific \in Instance, Closed(specific), NEW match \in Instance, NEW other \in Instance,
         Compatible(specific, match), ConstsOf(match) = ConstsOf(other), IndexOnce(match),
         NEW v \in Valuation
  PROVE  \E u \in Valuation : /\ Concrete(match, u) = specific
                              /\ Concrete(other, u) = Transfer(specific, match, other)
<1> DEFINE uses(c) == \E p \in 1..Params : match.consts[p] = c
           u == [c \in Consts \cup {Loop} |-> IF uses(c) THEN Assignment(specific, match, c) ELSE v[c]]
<1>1. Assigned(specific, match) = {p \in 1..Params : IsConst(match.consts[p])}
  BY Values DEF Assigned, Closed, IsLiteral
<1>2. ASSUME NEW p \in 1..Params, IsConst(match.consts[p])
      PROVE  Assignment(specific, match, match.consts[p]) = specific.consts[p]
  <2>1. PICK q \in Assigned(specific, match) :
          match.consts[q] = match.consts[p] /\ Assignment(specific, match, match.consts[p]) = specific.consts[q]
    BY <1>1, <1>2, AssignmentIsAt
  <2>2. q \in 1..Params
    BY <1>1
  <2>3. CASE match.consts[p] = Loop
    BY <2>1, <2>2, <2>3 DEF IndexOnce
  <2>4. CASE match.consts[p] # Loop
    <3>1. IsLiteral(specific.consts[p]) /\ IsLiteral(specific.consts[q])
      BY <2>2 DEF Closed, IsLiteral
    <3>2. ~IsConst(specific.consts[p]) /\ specific.consts[p] # match.consts[p]
      BY <3>1, <1>2, Values
    <3> QED
      BY <1>2, <2>1, <2>2, <2>4, <3>1, <3>2 DEF Compatible
  <2> QED
    BY <2>3, <2>4
<1>3. \A p \in 1..Params : ~IsConst(match.consts[p]) => specific.consts[p] = match.consts[p]
  BY Values DEF Compatible, Closed, IsConst, IsLiteral
<1>4. ASSUME NEW c \in Consts \cup {Loop}
      PROVE  u[c] \in Literals
  <2>1. CASE uses(c)
    <3>1. PICK p \in 1..Params : match.consts[p] = c
      BY <2>1
    <3>2. u[c] = specific.consts[p]
      BY <2>1, <3>1, <1>2 DEF IsConst
    <3> QED
      BY <3>2 DEF Closed
  <2>2. CASE ~uses(c)
    BY <2>2 DEF Valuation
  <2> QED
    BY <2>1, <2>2
<1>5. u \in Valuation
  <2> HIDE DEF uses
  <2> QED
    BY <1>4 DEF Valuation
<1>6. \A p \in 1..Params : IsConst(match.consts[p]) => u[match.consts[p]] = specific.consts[p]
  BY <1>2 DEF IsConst
<1>7. ASSUME NEW p \in 1..Params, IsConst(other.consts[p])
      PROVE  /\ u[other.consts[p]] = Assignment(specific, match, other.consts[p])
             /\ \E q \in Assigned(specific, match) : match.consts[q] = other.consts[p]
  <2>1. other.consts[p] \in ConstsOf(other)
    BY <1>7 DEF ConstsOf, IsConst
  <2>2. PICK q \in 1..Params : match.consts[q] = other.consts[p]
    BY <2>1 DEF ConstsOf
  <2> QED
    BY <1>1, <1>7, <2>2 DEF IsConst
<1> HIDE DEF u
<1>8. Concrete(match, u) = specific
  <2>1. /\ Concrete(match, u) \in Instance /\ Concrete(match, u).game = match.game
        /\ \A p \in 1..Params : Concrete(match, u).consts[p] =
             IF IsConst(match.consts[p]) THEN u[match.consts[p]] ELSE match.consts[p]
    BY <1>5, ConcreteParts
  <2>2. \A p \in 1..Params : Concrete(match, u).consts[p] = specific.consts[p]
    BY <2>1, <1>3, <1>6
  <2>3. match.game = specific.game
    BY DEF Compatible
  <2> QED
    BY <2>1, <2>2, <2>3, SameInstance
<1>9. Concrete(other, u) = Transfer(specific, match, other)
  <2>1. /\ Concrete(other, u) \in Instance /\ Concrete(other, u).game = other.game
        /\ \A p \in 1..Params : Concrete(other, u).consts[p] =
             IF IsConst(other.consts[p]) THEN u[other.consts[p]] ELSE other.consts[p]
    BY <1>5, ConcreteParts
  <2>2. /\ Transfer(specific, match, other) \in Instance
        /\ Transfer(specific, match, other).game = other.game
        /\ \A p \in 1..Params : Transfer(specific, match, other).consts[p] =
             IF \E q \in Assigned(specific, match) : match.consts[q] = other.consts[p]
             THEN Assignment(specific, match, other.consts[p])
             ELSE other.consts[p]
    BY TransferParts
  <2>3. ASSUME NEW p \in 1..Params
        PROVE  Concrete(other, u).consts[p] = Transfer(specific, match, other).consts[p]
    <3>1. CASE IsConst(other.consts[p])
      BY <3>1, <2>1, <2>2, <1>7
    <3>2. CASE ~IsConst(other.consts[p])
      <4>1. ~\E q \in Assigned(specific, match) : match.consts[q] = other.consts[p]
        BY <3>2, <1>1
      <4> QED
        BY <4>1, <3>2, <2>1, <2>2
    <3> QED
      BY <3>1, <3>2
  <2> HIDE DEF uses
  <2> QED
    BY <2>1, <2>2, <2>3, SameInstance
<1> QED
  BY <1>5, <1>8, <1>9

(* All of it is without constants again.                                   *)
LEMMA TransferIsClosed ==
  ASSUME NEW specific \in Instance, Closed(specific), NEW match \in Instance, NEW other \in Instance,
         ConstsOf(match) = ConstsOf(other)
  PROVE  Closed(Transfer(specific, match, other))
<1> SUFFICES ASSUME NEW p \in 1..Params
             PROVE  Transfer(specific, match, other).consts[p] \in Literals
  BY DEF Closed
<1>1. Transfer(specific, match, other).consts[p] =
        IF \E q \in Assigned(specific, match) : match.consts[q] = other.consts[p]
        THEN Assignment(specific, match, other.consts[p])
        ELSE other.consts[p]
  BY TransferParts
<1>2. CASE \E q \in Assigned(specific, match) : match.consts[q] = other.consts[p]
  <2>1. PICK q \in Assigned(specific, match) : Assignment(specific, match, other.consts[p]) = specific.consts[q]
    BY <1>2, AssignmentIsAt
  <2> QED
    BY <1>1, <1>2, <2>1 DEF Assigned, IsLiteral
<1>3. CASE ~\E q \in Assigned(specific, match) : match.consts[q] = other.consts[p]
  <2>1. other.consts[p] \notin ConstsOf(match)
    <3>1. SUFFICES ASSUME other.consts[p] \in ConstsOf(match) PROVE FALSE
      OBVIOUS
    <3>2. PICK q \in 1..Params : match.consts[q] = other.consts[p] /\ IsConst(other.consts[p])
      BY <3>1 DEF ConstsOf, IsConst
    <3> QED
      BY <3>2, <1>3 DEF Assigned, Closed, IsLiteral
  <2>2. other.consts[p] \in Literals
    BY <2>1, Values DEF ConstsOf, Instance, Value, IsConst, IsLiteral
  <2> QED
    BY <1>1, <1>3, <2>2
<1> QED
  BY <1>2, <1>3

-----------------------------------------------------------------------------
(* Finitely many hops and constants say finitely much.                     *)
LEMMA FiniteValuations == IsFiniteSet(Valuation)
<1> DEFINE C == Consts \cup {Loop}
           graph == [v \in Valuation |-> {<<c, v[c]>> : c \in C}]
<1>1. IsFiniteSet(C) /\ IsFiniteSet(Literals)
  <2>1. IsFiniteSet(Consts \cup {Loop})
    BY Values, FS_AddElement
  <2> QED
    BY <2>1, Values
<1>2. IsFiniteSet(SUBSET (C \X Literals))
  <2> HIDE DEF C
  <2>1. IsFiniteSet(C \X Literals)
    BY <1>1, FS_Product
  <2> QED
    BY <2>1, FS_SUBSET
<1>3. graph \in Injection(Valuation, SUBSET (C \X Literals))
  <2>1. \A v \in Valuation : graph[v] \in SUBSET (C \X Literals)
    BY DEF Valuation
  <2>2. ASSUME NEW v \in Valuation, NEW w \in Valuation, graph[v] = graph[w]
        PROVE  v = w
    <3>1. ASSUME NEW c \in C
          PROVE  v[c] = w[c]
      <4>1. <<c, v[c]>> \in graph[w]
        BY <2>2
      <4> QED
        BY <4>1
    <3>2. v = [c \in C |-> v[c]] /\ w = [c \in C |-> w[c]]
      BY DEF Valuation
    <3> HIDE DEF C
    <3>3. [c \in C |-> v[c]] = [c \in C |-> w[c]]
      BY <3>1
    <3> QED
      BY <3>2, <3>3
  <2>3. graph \in [Valuation -> SUBSET (C \X Literals)]
    BY <2>1
  <2> HIDE DEF graph, C
  <2> QED
    BY <2>2, <2>3 DEF Injection, IsInjective
<1> HIDE DEF C
<1> QED
  BY <1>2, <1>3, FS_Injection

(* What the hops say is about instances of theorem.instances.              *)
LEMMA KnownIsFinite ==
  ASSUME theorem \in Theorems
  PROVE  IsFiniteSet(Known)
<1> DEFINE given == DOMAIN theorem.instances
           C == {Concrete(Given(x[1]), x[2]) : x \in given \X Valuation}
           concrete == [x \in given \X Valuation |-> Concrete(Given(x[1]), x[2])]
<1>1. IsFiniteSet(given)
  <2>1. given = 1..Len(theorem.instances) /\ Len(theorem.instances) \in Nat
    BY SearchAssumption DEF Theorem
  <2> QED
    BY <2>1, FS_Interval
<1>2. IsFiniteSet(C)
  <2>1. IsFiniteSet(given \X Valuation)
    <3> HIDE DEF given
    <3> QED
      BY <1>1, FiniteValuations, FS_Product
  <2>2. concrete \in Surjection(given \X Valuation, C)
    BY DEF Surjection
  <2> HIDE DEF given, C, concrete
  <2> QED
    BY <2>1, <2>2, FS_Surjection
<1>3. ASSUME NEW h \in DOMAIN theorem.hops, NEW e \in Meant(h)
      PROVE  e \in C \X C
  <2>1. Hop(h).left \in given /\ Hop(h).right \in given
    BY SearchAssumption DEF Theorem, Hop
  <2>2. PICK vw \in Valuation \X Valuation :
          e = <<Concrete(Given(Hop(h).left), vw[1]), Concrete(Given(Hop(h).right), vw[2])>>
    BY DEF Meant, Agreeing
  <2>3. /\ <<Hop(h).left, vw[1]>> \in given \X Valuation
        /\ <<Hop(h).right, vw[2]>> \in given \X Valuation
    BY <2>1
  <2>4. Concrete(Given(Hop(h).left), vw[1]) \in C /\ Concrete(Given(Hop(h).right), vw[2]) \in C
    BY <2>3
  <2> HIDE DEF C, given
  <2> QED
    BY <2>2, <2>4
<1>4. Known \subseteq C \X C
  <2> HIDE DEF C, given
  <2>1. UNION {Meant(h) : h \in DOMAIN theorem.hops} \subseteq C \X C
    BY <1>3
  <2> QED
    BY <2>1 DEF Known, Symmetric
<1> HIDE DEF C
<1>5. IsFiniteSet(C \X C)
  BY <1>2, FS_Product
<1> QED
  BY <1>4, <1>5, FS_Subset

-----------------------------------------------------------------------------
(* The search.  What has been met is the start and what has a backlink.    *)
Seen == {theorem.left} \cup DOMAIN predecessors

TypeInv ==
  /\ theorem \in Theorems
  /\ specialization \in Seq(Instance)
  /\ DOMAIN theorem.instances \subseteq Positions
  /\ \A i \in DOMAIN theorem.instances : specialization[i] = Given(i)
  /\ workque \in Seq(Positions) /\ current \in Positions
  /\ hop \in Nat \ {0}
  /\ DOMAIN predecessors \subseteq Positions
  /\ \A i \in DOMAIN predecessors : predecessors[i] \in Positions \X DOMAIN theorem.hops
  /\ path \in Seq(Positions) /\ hops \in Seq(DOMAIN theorem.hops)
  /\ pc \in {"start", "visit", "expand", "trace", "proof", "none", "panic"}

(* Only what has been met is visited, and backlinks lead to what has been  *)
(* met.                                                                    *)
OnlySeen ==
  /\ \A k \in DOMAIN workque : workque[k] \in Seen
  /\ current \in Seen
  /\ \A i \in DOMAIN predecessors : predecessors[i][1] \in Seen
  /\ pc = "trace" => path # <<>> /\ Head(path) \in DOMAIN predecessors

(* From an instance without constants only such instances are met, and     *)
(* each of them is linked to the one before it by what its hop says.       *)
ClosedOnes == \A i \in Seen : Closed(specialization[i])

LinksAreKnown ==
  Valuation # {} =>
    \A i \in DOMAIN predecessors : <<specialization[predecessors[i][1]], specialization[i]>> \in Known

(* While the backlinks are followed, the target is reached from wherever   *)
(* they have led to.                                                       *)
ClosedUnder(S, links) == \A e \in links : e[1] \in S => e[2] \in S

PathIsKnown ==
  pc \in {"trace", "proof"} =>
    /\ path # <<>>
    /\ Closed(Given(theorem.right))
    /\ pc = "proof" => Head(path) = theorem.left
    /\ Valuation # {} =>
         \A S : ClosedUnder(S, Known) /\ specialization[Head(path)] \in S => Given(theorem.right) \in S

SearchInv ==
  TypeInv /\ OnlySeen /\ (StartsClosed => ClosedOnes /\ LinksAreKnown /\ PathIsKnown)

LEMMA TheoremParts ==
  ASSUME theorem \in Theorems
  PROVE  /\ theorem.instances \in Seq(Instance) /\ theorem.left \in DOMAIN theorem.instances
         /\ theorem.right \in DOMAIN theorem.instances
         /\ theorem.hops \in Seq([left : Nat, right : Nat, hybrid : BOOLEAN])
         /\ \A i \in DOMAIN theorem.instances : Given(i) \in Instance
         /\ \A h \in DOMAIN theorem.hops :
              /\ Hop(h).left \in DOMAIN theorem.instances /\ Hop(h).right \in DOMAIN theorem.instances
              /\ Given(Hop(h).left) \in Instance /\ Given(Hop(h).right) \in Instance
<1>1. theorem \in Theorem
  BY SearchAssumption
<1> QED
  BY <1>1 DEF Theorem, Given, Hop

(* What the hops say, and the side conditions, stay what they are.         *)
LEMMA SameTheorem ==
  ASSUME theorem' = theorem
  PROVE  /\ Known' = Known /\ StartsClosed' = StartsClosed
         /\ \A i : Given(i)' = Given(i)
         /\ \A h : Hop(h)' = Hop(h)
<1>1. \A i : Given(i)' = Given(i)
  BY DEF Given
<1>2. \A h : Hop(h)' = Hop(h)
  BY DEF Hop
<1>3. StartsClosed' = StartsClosed
  BY DEF StartsClosed, Hop, Given
<1>4. Known' = Known
  BY DEF Known, Meant, Agreeing, Hop, Given
<1> QED
  BY <1>1, <1>2, <1>3, <1>4

LEMMA InitSearch == Init => SearchInv
<1> SUFFICES ASSUME Init PROVE SearchInv
  OBVIOUS
<1>1. theorem \in Theorems /\ theorem.instances \in Seq(Instance) /\ theorem.left \in DOMAIN theorem.instances
  BY TheoremParts DEF Init
<1>2. DOMAIN predecessors = {} /\ Seen = {theorem.left}
  BY DEF Init, Seen
<1>3. TypeInv
  <2>1. workque \in Seq(Positions) /\ hop \in Nat \ {0}
    <3>1. theorem.left \in Positions
      BY <1>1 DEF Init, Positions
    <3>2. workque = <<theorem.left>> /\ hop = 1
      BY DEF Init
    <3> QED
      BY <3>1, <3>2
  <2>2. path \in Seq(Positions) /\ hops \in Seq(DOMAIN theorem.hops)
    BY DEF Init
  <2> QED
    BY <1>1, <1>2, <2>1, <2>2 DEF Init, TypeInv, Given, Positions
<1>4. OnlySeen
  BY <1>1, <1>2 DEF Init, OnlySeen
<1>5. StartsClosed => ClosedOnes /\ LinksAreKnown /\ PathIsKnown
  <2>1. SUFFICES ASSUME StartsClosed PROVE ClosedOnes /\ LinksAreKnown /\ PathIsKnown
    OBVIOUS
  <2>2. ClosedOnes
    <3>1. Given(theorem.left) \in Instance
      BY <1>1, TheoremParts
    <3> QED
      BY <1>2, <2>1, <3>1, ClosedConsts DEF Init, Given, StartsClosed, ClosedOnes
  <2> QED
    BY <1>2, <2>2 DEF Init, LinksAreKnown, PathIsKnown
<1> QED
  BY <1>3, <1>4, <1>5 DEF SearchInv

LEMMA StartKeeps == SearchInv /\ Start => SearchInv'
<1> SUFFICES ASSUME SearchInv, Start PROVE SearchInv'
  OBVIOUS
<1>0. TypeInv /\ OnlySeen /\ (StartsClosed => ClosedOnes /\ LinksAreKnown /\ PathIsKnown)
  BY DEF SearchInv
<1>1. UNCHANGED <<theorem, specialization, workque, predecessors, current, hop, hops>>
  BY DEF Start, search
<1>2. theorem.left \in Positions /\ Seen' = Seen /\ theorem.left \in Seen
      /\ Given(theorem.left) \in Instance /\ Given(theorem.right) \in Instance
      /\ specialization[theorem.left] = Given(theorem.left)
  BY <1>0, <1>1, TheoremParts DEF TypeInv, Seen
<1>3. TypeInv'
  <2>1. path' \in Seq(Positions)
    <3>1. path' = <<theorem.left>> \/ path' = path
      BY DEF Start
    <3>2. path \in Seq(Positions)
      BY <1>0 DEF TypeInv
    <3>3. theorem.left \in Positions
      BY <1>2
    <3>4. <<theorem.left>> \in Seq(Positions)
      BY <3>3
    <3> QED
      BY <3>1, <3>2, <3>4
  <2> QED
    <3>1. path' \in Seq(Positions')
      BY <2>1, <1>1 DEF Positions
    <3> QED
      BY <1>0, <1>1, <3>1 DEF TypeInv, Start, Given, Positions
<1>4. OnlySeen'
  BY <1>0, <1>1, <1>2 DEF OnlySeen, Start
<1>5. (StartsClosed => ClosedOnes /\ LinksAreKnown /\ PathIsKnown)'
  <2>1. SUFFICES ASSUME StartsClosed PROVE (ClosedOnes /\ LinksAreKnown /\ PathIsKnown)'
    BY <1>1 DEF StartsClosed, Given, Hop
  <2>2. ClosedOnes' /\ LinksAreKnown'
    <3>1. Known' = Known
      BY <1>1, SameTheorem
    <3> QED
      BY <1>0, <1>1, <1>2, <2>1, <3>1 DEF ClosedOnes, LinksAreKnown
  <2>3. PathIsKnown'
    <3>1. CASE Equivalent(Given(theorem.left), Given(theorem.right))
      <4>1. pc' = "proof" /\ path' = <<theorem.left>>
        BY <3>1 DEF Start
      <4>2. Given(theorem.right) = Given(theorem.left) /\ Closed(Given(theorem.left))
        BY <1>0, <1>2, <2>1, <3>1, ClosedIsSpecial DEF Equivalent, ClosedOnes
      <4>3. path' # <<>> /\ Head(path') = theorem.left
        BY <4>1
      <4> QED
        BY <1>1, <1>2, <4>1, <4>2, <4>3 DEF PathIsKnown, Given
    <3>2. CASE ~Equivalent(Given(theorem.left), Given(theorem.right))
      BY <3>2 DEF Start, PathIsKnown
    <3> QED
      BY <3>1, <3>2
  <2> QED
    BY <2>2, <2>3
<1> QED
  BY <1>3, <1>4, <1>5 DEF SearchInv

LEMMA Backlinks ==
  ASSUME NEW i, NEW link
  PROVE  /\ DOMAIN Backlinked(i, link) = DOMAIN predecessors \cup {i}
         /\ \A j \in DOMAIN predecessors : Backlinked(i, link)[j] = predecessors[j]
         /\ i \notin DOMAIN predecessors => Backlinked(i, link)[i] = link
BY DEF Backlinked

LEMMA VisitKeeps == SearchInv /\ Visit => SearchInv'
<1> SUFFICES ASSUME SearchInv, Visit PROVE SearchInv'
  OBVIOUS
<1> DEFINE here == Head(workque)
           found == Compatible(Given(theorem.right), specialization[here])
<1>0. TypeInv /\ OnlySeen /\ (StartsClosed => ClosedOnes /\ LinksAreKnown /\ PathIsKnown)
  BY DEF SearchInv
<1>1. /\ UNCHANGED <<theorem, specialization, hops>> /\ Positions' = Positions
      /\ current' = here /\ workque' = Tail(workque) /\ hop' = 1
  BY DEF Visit, Positions
<1>2. here \in Positions /\ here \in Seen /\ workque' \in Seq(Positions)
      /\ \A k \in DOMAIN workque' : workque'[k] \in Seen
  <2>1. workque # <<>> /\ workque \in Seq(Positions) /\ \A k \in DOMAIN workque : workque[k] \in Seen
    BY <1>0 DEF Visit, TypeInv, OnlySeen
  <2>2. 1 \in DOMAIN workque /\ here = workque[1] /\ Tail(workque) \in Seq(Positions)
        /\ \A k \in DOMAIN Tail(workque) : k + 1 \in DOMAIN workque /\ Tail(workque)[k] = workque[k + 1]
    BY <2>1
  <2> QED
    BY <1>1, <2>1, <2>2
<1>3. theorem.right \in Positions /\ Given(theorem.right) \in Instance
      /\ specialization[theorem.right] = Given(theorem.right)
      /\ specialization[here] \in Instance
  BY <1>0, <1>2, TheoremParts DEF TypeInv, Positions
<1> HIDE DEF here
(* Nothing changes but what is visited, or the target gets a backlink.     *)
<1>4. \/ /\ ~found /\ pc' = "expand" /\ UNCHANGED <<predecessors, path>>
      \/ /\ found /\ path' = <<theorem.right>>
         /\ \/ /\ here \in DOMAIN predecessors /\ pc' = "trace"
               /\ predecessors' = Backlinked(theorem.right, predecessors[here])
            \/ /\ here \notin DOMAIN predecessors /\ UNCHANGED predecessors
               /\ pc' \in {"trace", "panic"}
               /\ pc' = "trace" => theorem.right \in DOMAIN predecessors
  BY <1>1 DEF Visit
<1> HIDE DEF found
<1>5. /\ DOMAIN predecessors \subseteq DOMAIN predecessors'
      /\ DOMAIN predecessors' \subseteq DOMAIN predecessors \cup {theorem.right}
      /\ \A i \in DOMAIN predecessors : predecessors'[i] = predecessors[i]
      /\ theorem.right \in DOMAIN predecessors' \ DOMAIN predecessors =>
           here \in DOMAIN predecessors /\ predecessors'[theorem.right] = predecessors[here]
      /\ pc' = "trace" => theorem.right \in DOMAIN predecessors'
  <2>1. CASE UNCHANGED predecessors /\ (pc' = "trace" => theorem.right \in DOMAIN predecessors)
    BY <2>1
  <2>2. CASE here \in DOMAIN predecessors /\ predecessors' = Backlinked(theorem.right, predecessors[here])
    <3> DEFINE link == predecessors[here]
    <3>1. /\ DOMAIN predecessors' = DOMAIN predecessors \cup {theorem.right}
          /\ \A j \in DOMAIN predecessors : predecessors'[j] = predecessors[j]
          /\ theorem.right \notin DOMAIN predecessors => predecessors'[theorem.right] = link
      <4> HIDE DEF link
      <4>1. predecessors' = Backlinked(theorem.right, link)
        BY <2>2 DEF link
      <4> QED
        BY <4>1, Backlinks
    <3> QED
      BY <2>2, <3>1
  <2> QED
    BY <1>4, <2>1, <2>2
<1>6. Seen \subseteq Seen'
  BY <1>1, <1>5 DEF Seen
<1>7. TypeInv'
  <2>1. path' \in Seq(Positions)
    <3>1. path \in Seq(Positions) /\ <<theorem.right>> \in Seq(Positions)
      BY <1>0, <1>3 DEF TypeInv
    <3> QED
      BY <1>4, <3>1
  <2>2. /\ DOMAIN predecessors' \subseteq Positions
        /\ \A i \in DOMAIN predecessors' : predecessors'[i] \in Positions \X DOMAIN theorem.hops
    BY <1>0, <1>3, <1>5 DEF TypeInv
  <2>3. pc' \in {"start", "visit", "expand", "trace", "proof", "none", "panic"}
    BY <1>4
  <2> QED
    BY <1>0, <1>1, <1>2, <2>1, <2>2, <2>3, SameTheorem DEF TypeInv
<1>8. OnlySeen'
  <2>1. \A i \in DOMAIN predecessors' : predecessors'[i][1] \in Seen
    BY <1>0, <1>5 DEF OnlySeen
  <2>2. pc' = "trace" => path' # <<>> /\ Head(path') \in DOMAIN predecessors'
    <3>1. SUFFICES ASSUME pc' = "trace" PROVE path' # <<>> /\ Head(path') \in DOMAIN predecessors'
      OBVIOUS
    <3>2. path' = <<theorem.right>>
      BY <3>1, <1>4
    <3> QED
      BY <3>1, <3>2, <1>5
  <2> QED
    BY <1>1, <1>2, <1>6, <2>1, <2>2 DEF OnlySeen
<1>9. (StartsClosed => ClosedOnes /\ LinksAreKnown /\ PathIsKnown)'
  <2>1. SUFFICES ASSUME StartsClosed PROVE (ClosedOnes /\ LinksAreKnown /\ PathIsKnown)'
    BY <1>1, SameTheorem
  <2>2. found => Given(theorem.right) = specialization[here] /\ Closed(Given(theorem.right))
    BY <1>0, <1>2, <1>3, <2>1, ClosedIsSpecial DEF ClosedOnes, found
  <2>3. theorem.right \in DOMAIN predecessors' \ DOMAIN predecessors => found
    BY <1>4
  <2>4. ClosedOnes'
    BY <1>0, <1>1, <1>3, <1>5, <2>1, <2>2, <2>3 DEF ClosedOnes, Seen
  <2>5. LinksAreKnown'
    <3>1. ASSUME Valuation # {}, NEW i \in DOMAIN predecessors'
          PROVE  <<specialization[predecessors'[i][1]], specialization[i]>> \in Known
      <4>1. CASE i \in DOMAIN predecessors
        BY <4>1, <3>1, <1>0, <1>5, <2>1 DEF LinksAreKnown
      <4>2. CASE i \notin DOMAIN predecessors
        <5>1. i = theorem.right /\ here \in DOMAIN predecessors /\ predecessors'[i] = predecessors[here]
          BY <4>2, <1>5
        <5>2. <<specialization[predecessors[here][1]], specialization[here]>> \in Known
          BY <5>1, <3>1, <1>0, <2>1 DEF LinksAreKnown
        <5>3. specialization[i] = specialization[here]
          BY <5>1, <4>2, <2>2, <2>3, <1>3
        <5> QED
          BY <5>1, <5>2, <5>3
      <4> QED
        BY <4>1, <4>2
    <3> QED
      BY <3>1, <1>1, SameTheorem DEF LinksAreKnown
  <2>6. PathIsKnown'
    <3>1. SUFFICES ASSUME pc' \in {"trace", "proof"}
                   PROVE  /\ path' # <<>>
                          /\ Closed(Given(theorem.right))
                          /\ pc' = "proof" => Head(path') = theorem.left
                          /\ specialization[Head(path')] = Given(theorem.right)
      BY <1>1, SameTheorem DEF PathIsKnown
    <3>2. path' = <<theorem.right>> /\ found /\ pc' # "proof"
      BY <3>1, <1>4
    <3> QED
      BY <3>2, <2>2, <1>3
  <2> QED
    BY <2>4, <2>5, <2>6
<1> QED
  BY <1>7, <1>8, <1>9 DEF SearchInv

(* The position given to an instance is new, or that of an equal one.      *)
LEMMA PositionParts ==
  ASSUME TypeInv, NEW instance
  PROVE  \/ Position(instance) = Len(specialization) + 1 /\ Position(instance) \notin Positions
         \/ /\ Position(instance) \in Positions
            /\ Equivalent(instance, specialization[Position(instance)])
<1> DEFINE at == {i \in Positions : Equivalent(instance, specialization[i])}
           first == CHOOSE i \in at : \A j \in at : i <= j
<1>1. Positions \subseteq Nat /\ Len(specialization) + 1 \notin Positions
  BY DEF TypeInv, Positions
<1>2. CASE at = {}
  BY <1>1, <1>2 DEF Position
<1>3. CASE at # {}
  <2>1. first \in at
    <3>1. at \subseteq Nat
      BY <1>1
    <3> HIDE DEF at
    <3>2. \E i \in at : \A j \in at : i <= j
      BY <1>3, <3>1, LeastElement
    <3> QED
      BY <3>2
  <2>2. Position(instance) = first
    BY <1>3 DEF Position
  <2> HIDE DEF first
  <2> QED
    BY <2>1, <2>2
<1> QED
  BY <1>2, <1>3

(* A hop leads to an instance, and from one without constants to one that  *)
(* it says is linked to it.                                                *)
LEMMA ReachedParts ==
  ASSUME theorem \in Theorems, NEW h \in DOMAIN theorem.hops,
         NEW from \in Instance, NEW instance \in Reached(from, h)
  PROVE  /\ instance \in Instance
         /\ StartsClosed /\ Closed(from) => /\ Closed(instance)
                                            /\ Valuation # {} => <<from, instance>> \in Known
<1> DEFINE left == Given(Hop(h).left)
           right == Given(Hop(h).right)
<1>1. left \in Instance /\ right \in Instance
  BY TheoremParts
<1>2. StartsClosed => ConstsOf(left) = ConstsOf(right) /\ IndexOnce(left) /\ IndexOnce(right)
  BY DEF StartsClosed
<1>3. \A u \in Valuation : /\ <<Concrete(left, u), Concrete(right, u)>> \in Known
                           /\ <<Concrete(right, u), Concrete(left, u)>> \in Known
  <2>1. SUFFICES ASSUME NEW u \in Valuation
                 PROVE  <<Concrete(left, u), Concrete(right, u)>> \in Meant(h)
    BY DEF Known, Symmetric
  <2>2. <<u, u>> \in Agreeing(h)
    BY DEF Agreeing
  <2> HIDE DEF left, right
  <2>3. <<Concrete(left, <<u, u>>[1]), Concrete(right, <<u, u>>[2])>> \in Meant(h)
    BY <2>2 DEF Meant, left, right
  <2> QED
    BY <2>3
<1>4. \/ Compatible(from, left) /\ instance = Transfer(from, left, right)
      \/ Compatible(from, right) /\ instance = Transfer(from, right, left)
  BY DEF Reached
<1> HIDE DEF left, right
<1>5. instance \in Instance
  BY <1>1, <1>4, TransferParts
<1>6. ASSUME StartsClosed, Closed(from)
      PROVE  Closed(instance)
  <2>1. ConstsOf(left) = ConstsOf(right)
    BY <1>2, <1>6
  <2>2. Closed(Transfer(from, left, right))
    BY <1>1, <1>6, <2>1, TransferIsClosed
  <2>3. Closed(Transfer(from, right, left))
    BY <1>1, <1>6, <2>1, TransferIsClosed
  <2> QED
    BY <1>4, <2>2, <2>3
<1>7. ASSUME StartsClosed, Closed(from), Valuation # {}
      PROVE  <<from, instance>> \in Known
  <2>1. PICK v \in Valuation : TRUE
    BY <1>7
  <2>2. ConstsOf(left) = ConstsOf(right) /\ IndexOnce(left) /\ IndexOnce(right)
    BY <1>2, <1>7
  <2>3. CASE Compatible(from, left) /\ instance = Transfer(from, left, right)
    <3>1. \E u \in Valuation : Concrete(left, u) = from /\ Concrete(right, u) = Transfer(from, left, right)
      BY <1>1, <1>7, <2>2, <2>3, TransferIsMeant
    <3> QED
      BY <1>3, <2>3, <3>1
  <2>4. CASE Compatible(from, right) /\ instance = Transfer(from, right, left)
    <3>1. \E u \in Valuation : Concrete(right, u) = from /\ Concrete(left, u) = Transfer(from, right, left)
      BY <1>1, <1>7, <2>2, <2>4, TransferIsMeant
    <3> QED
      BY <1>3, <2>4, <3>1
  <2> QED
    BY <1>4, <2>3, <2>4
<1> QED
  BY <1>5, <1>6, <1>7

LEMMA TryHopKeeps == SearchInv /\ TryHop => SearchInv'
<1> SUFFICES ASSUME SearchInv, TryHop PROVE SearchInv'
  OBVIOUS
<1>0. TypeInv /\ OnlySeen /\ (StartsClosed => ClosedOnes /\ LinksAreKnown /\ PathIsKnown)
  BY DEF SearchInv
<1>1. /\ UNCHANGED <<theorem, current, path, hops, pc>> /\ hop' = hop + 1 /\ pc = "expand"
      /\ hop \in DOMAIN theorem.hops
  <2>1. theorem.hops \in Seq([left : Nat, right : Nat, hybrid : BOOLEAN])
    BY <1>0, TheoremParts DEF TypeInv
  <2> QED
    BY <1>0, <2>1 DEF TryHop, TypeInv
<1>2. CASE UNCHANGED <<specialization, workque, predecessors>>
  <2>1. UNCHANGED <<Seen, Positions>>
    BY <1>1, <1>2 DEF Seen, Positions
  <2>2. TypeInv'
    BY <1>0, <1>1, <1>2, <2>1, SameTheorem DEF TypeInv
  <2>3. OnlySeen'
    BY <1>0, <1>1, <1>2, <2>1 DEF OnlySeen
  <2>4. (StartsClosed => ClosedOnes /\ LinksAreKnown /\ PathIsKnown)'
    BY <1>0, <1>1, <1>2, <2>1, SameTheorem DEF ClosedOnes, LinksAreKnown, PathIsKnown
  <2> QED
    BY <2>2, <2>3, <2>4 DEF SearchInv
<1>3. ASSUME NEW instance \in Reached(specialization[current], hop),
             specialization' = IF Position(instance) \in Positions THEN specialization
                               ELSE Append(specialization, instance),
             workque' = IF Position(instance) \in DOMAIN predecessors THEN workque
                        ELSE Append(workque, Position(instance)),
             predecessors' = Backlinked(Position(instance), <<current, hop>>)
      PROVE  SearchInv'
  <2> DEFINE next == Position(instance)
  <2>1. specialization[current] \in Instance
    BY <1>0 DEF TypeInv, Positions
  <2>2. instance \in Instance
    BY <1>0, <1>1, <2>1, ReachedParts DEF TypeInv
  <2>3. /\ next \in Positions => Equivalent(instance, specialization[next])
        /\ next \notin Positions => next = Len(specialization) + 1
    BY <1>0, PositionParts
  <2>4. /\ DOMAIN predecessors' = DOMAIN predecessors \cup {next}
        /\ \A j \in DOMAIN predecessors : predecessors'[j] = predecessors[j]
        /\ next \notin DOMAIN predecessors => predecessors'[next] = <<current, hop>>
    <3> DEFINE link == <<current, hop>>
    <3> HIDE DEF next, link
    <3>1. predecessors' = Backlinked(next, link)
      BY <1>3 DEF next, link
    <3>2. /\ DOMAIN predecessors' = DOMAIN predecessors \cup {next}
          /\ \A j \in DOMAIN predecessors : predecessors'[j] = predecessors[j]
          /\ next \notin DOMAIN predecessors => predecessors'[next] = link
      BY <3>1 DEF Backlinked
    <3> QED
      BY <3>2 DEF link
  <2>5. /\ specialization' = IF next \in Positions THEN specialization ELSE Append(specialization, instance)
        /\ workque' = IF next \in DOMAIN predecessors THEN workque ELSE Append(workque, next)
    BY <1>3
  <2> HIDE DEF next
  <2>6. /\ specialization' \in Seq(Instance) /\ Positions' = Positions \cup {next}
        /\ \A i \in Positions : specialization'[i] = specialization[i]
        /\ next \notin Positions => specialization'[next] = instance
    <3>1. specialization \in Seq(Instance)
      BY <1>0 DEF TypeInv
    <3>2. CASE next \in Positions
      BY <2>5, <3>1, <3>2 DEF Positions
    <3>3. CASE next \notin Positions
      <4>1. specialization' = Append(specialization, instance) /\ next = Len(specialization) + 1
        BY <2>3, <2>5, <3>3
      <4> QED
        BY <2>2, <3>1, <3>3, <4>1 DEF Positions
    <3> QED
      BY <3>2, <3>3
  <2>7. workque' \in Seq(Positions') /\ \A k \in DOMAIN workque' : workque'[k] \in Seen'
    <3>1. /\ workque \in Seq(Positions') /\ next \in Positions' /\ next \in Seen'
          /\ \A k \in DOMAIN workque : workque[k] \in Seen'
      <4>1. workque \in Seq(Positions) /\ \A k \in DOMAIN workque : workque[k] \in Seen
        BY <1>0 DEF TypeInv, OnlySeen
      <4>2. Seen \subseteq Seen' /\ Positions \subseteq Positions' /\ next \in Positions' /\ next \in Seen'
        BY <1>1, <2>4, <2>6 DEF Seen
      <4> QED
        BY <4>1, <4>2
    <3>2. CASE next \in DOMAIN predecessors
      BY <2>5, <3>1, <3>2
    <3>3. CASE next \notin DOMAIN predecessors
      <4>1. workque' = Append(workque, next)
        BY <2>5, <3>3
      <4> HIDE DEF Seen
      <4> QED
        BY <3>1, <4>1
    <3> QED
      BY <3>2, <3>3
  <2>8. Seen' = Seen \cup {next} /\ Seen \subseteq Positions
    <3>1. theorem.left \in Positions
      BY <1>0, TheoremParts DEF TypeInv
    <3> QED
      BY <1>0, <1>1, <2>4, <3>1 DEF Seen, TypeInv
  <2>9. TypeInv'
    <3>1. /\ DOMAIN predecessors' \subseteq Positions'
          /\ \A i \in DOMAIN predecessors' : predecessors'[i] \in Positions' \X DOMAIN theorem.hops
        <4>1. ASSUME NEW i \in DOMAIN predecessors'
            PROVE  predecessors'[i] \in Positions' \X DOMAIN theorem.hops
        <5>1. CASE i \in DOMAIN predecessors
          BY <5>1, <1>0, <2>4, <2>6 DEF TypeInv
        <5>2. CASE i \notin DOMAIN predecessors
          <6>1. predecessors'[i] = <<current, hop>> /\ current \in Positions'
            BY <5>2, <1>0, <2>4, <2>6 DEF TypeInv
          <6> QED
            BY <6>1, <1>1
        <5> QED
          BY <5>1, <5>2
      <4> QED
        BY <1>0, <2>4, <2>6, <4>1 DEF TypeInv
    <3>2. path \in Seq(Positions') /\ current \in Positions'
      <4>1. path \in Seq(Positions) /\ Positions \subseteq Positions' /\ current \in Positions
        BY <1>0, <2>6 DEF TypeInv
      <4> QED
        BY <4>1
    <3>3. /\ DOMAIN theorem.instances \subseteq Positions'
          /\ \A i \in DOMAIN theorem.instances : specialization'[i] = Given(i)
      BY <1>0, <2>6 DEF TypeInv
    <3>4. hop' \in Nat \ {0}
      BY <1>0, <1>1 DEF TypeInv
    <3> QED
      BY <1>0, <1>1, <2>6, <2>7, <3>1, <3>2, <3>3, <3>4, SameTheorem DEF TypeInv
  <2>10. OnlySeen'
    <3>1. \A i \in DOMAIN predecessors' : predecessors'[i][1] \in Seen'
      BY <1>0, <2>4, <2>8 DEF OnlySeen
    <3> QED
      BY <1>0, <1>1, <2>7, <2>8, <3>1 DEF OnlySeen
  <2>11. (StartsClosed => ClosedOnes /\ LinksAreKnown /\ PathIsKnown)'
    <3>1. SUFFICES ASSUME StartsClosed PROVE (ClosedOnes /\ LinksAreKnown /\ PathIsKnown)'
      BY <1>1, SameTheorem
    <3>2. Closed(specialization[current])
      BY <1>0, <3>1 DEF OnlySeen, ClosedOnes
    <3>3. Closed(instance) /\ (Valuation # {} => <<specialization[current], instance>> \in Known)
      BY <1>0, <1>1, <2>1, <3>1, <3>2, ReachedParts DEF TypeInv
    <3>4. specialization'[next] = instance
      <4>1. CASE next \in Positions
        <5>1. specialization[next] \in Instance /\ Compatible(specialization[next], instance)
          BY <1>0, <2>3, <4>1 DEF TypeInv, Positions, Equivalent
        <5>2. specialization[next] = instance
          BY <5>1, <2>2, <3>3, ClosedIsSpecial
        <5> QED
          BY <4>1, <5>2, <2>6
      <4> QED
        BY <4>1, <2>6
    <3>5. \A i \in Seen : specialization'[i] = specialization[i]
      BY <2>6, <2>8
    <3>6. ClosedOnes'
      BY <1>0, <2>8, <3>1, <3>3, <3>4, <3>5 DEF ClosedOnes
    <3>7. LinksAreKnown'
      <4>1. ASSUME Valuation # {}, NEW i \in DOMAIN predecessors'
            PROVE  <<specialization'[predecessors'[i][1]], specialization'[i]>> \in Known
        <5>1. CASE i \in DOMAIN predecessors
          <6>1. /\ predecessors'[i] = predecessors[i] /\ predecessors[i][1] \in Seen /\ i \in Seen
                /\ <<specialization[predecessors[i][1]], specialization[i]>> \in Known
            BY <4>1, <5>1, <1>0, <2>4, <3>1 DEF OnlySeen, LinksAreKnown, Seen
          <6> QED
            BY <6>1, <3>5
        <5>2. CASE i \notin DOMAIN predecessors
          <6>1. i = next /\ predecessors'[i][1] = current /\ current \in Seen
            BY <5>2, <2>4, <1>0 DEF OnlySeen
          <6> QED
            BY <6>1, <3>3, <3>4, <3>5, <4>1
        <5> QED
          BY <5>1, <5>2
      <4> QED
        BY <4>1, <1>1, SameTheorem DEF LinksAreKnown
    <3>8. PathIsKnown'
      BY <1>1 DEF PathIsKnown
    <3> QED
      BY <3>6, <3>7, <3>8
  <2> QED
    BY <2>9, <2>10, <2>11 DEF SearchInv
<1> QED
  BY <1>2, <1>3 DEF TryHop

LEMMA TraceKeeps == SearchInv /\ Trace => SearchInv'
<1> SUFFICES ASSUME SearchInv, Trace PROVE SearchInv'
  OBVIOUS
<1> DEFINE here == Head(path)
           link == predecessors[here]
<1>0. TypeInv /\ OnlySeen /\ (StartsClosed => ClosedOnes /\ LinksAreKnown /\ PathIsKnown)
  BY DEF SearchInv
<1>1. /\ UNCHANGED <<theorem, specialization, workque, predecessors, current, hop>>
      /\ path' = <<link[1]>> \o path /\ hops' = <<link[2]>> \o hops
      /\ pc = "trace" /\ pc' = IF link[1] = theorem.left THEN "proof" ELSE "trace"
  BY DEF Trace, search
<1>2. path # <<>> /\ here \in DOMAIN predecessors /\ here \in Seen /\ here \in Positions
      /\ link \in Positions \X DOMAIN theorem.hops /\ link[1] \in Seen
  BY <1>0, <1>1 DEF OnlySeen, TypeInv, Seen
<1> HIDE DEF here
<1>3. UNCHANGED <<Seen, Positions>>
  BY <1>1 DEF Seen, Positions
<1>4. /\ path' \in Seq(Positions) /\ hops' \in Seq(DOMAIN theorem.hops)
      /\ path' # <<>> /\ Head(path') = link[1]
  <2>1. path \in Seq(Positions) /\ hops \in Seq(DOMAIN theorem.hops)
    BY <1>0 DEF TypeInv
  <2>2. link[1] \in Positions /\ link[2] \in DOMAIN theorem.hops
    BY <1>2
  <2> HIDE DEF link
  <2>3. \A S : \A x \in S : <<x>> \in Seq(S)
    OBVIOUS
  <2>4. <<link[1]>> \in Seq(Positions) /\ <<link[2]>> \in Seq(DOMAIN theorem.hops)
    BY <2>2, <2>3
  <2>5. path' # <<>> /\ Head(path') = link[1]
    BY <1>1, <2>1
  <2> QED
    BY <1>1, <2>1, <2>4, <2>5
<1>5. TypeInv'
  BY <1>0, <1>1, <1>3, <1>4, SameTheorem DEF TypeInv
<1>6. OnlySeen'
  <2>1. pc' = "trace" => link[1] \in DOMAIN predecessors
    BY <1>1, <1>2 DEF Seen
  <2> QED
    BY <1>0, <1>1, <1>3, <1>4, <2>1 DEF OnlySeen
<1>7. (StartsClosed => ClosedOnes /\ LinksAreKnown /\ PathIsKnown)'
  <2>1. SUFFICES ASSUME StartsClosed PROVE (ClosedOnes /\ LinksAreKnown /\ PathIsKnown)'
    BY <1>1, SameTheorem
  <2>2. ClosedOnes'
    BY <1>0, <1>1, <1>3, <2>1 DEF ClosedOnes
  <2>3. LinksAreKnown'
    BY <1>0, <1>1, <2>1, SameTheorem DEF LinksAreKnown
  <2>4. PathIsKnown'
    <3>1. Closed(Given(theorem.right))
      BY <1>0, <1>1, <2>1 DEF PathIsKnown
    <3>2. pc' = "proof" => Head(path') = theorem.left
      BY <1>1, <1>4
    <3>3. ASSUME Valuation # {}, NEW S, ClosedUnder(S, Known), specialization[link[1]] \in S
          PROVE  Given(theorem.right) \in S
      <4>1. <<specialization[link[1]], specialization[here]>> \in Known
        BY <1>0, <1>2, <2>1, <3>3 DEF LinksAreKnown
      <4>2. specialization[here] \in S
        BY <3>3, <4>1 DEF ClosedUnder
      <4> QED
        BY <1>0, <1>1, <2>1, <3>3, <4>2 DEF PathIsKnown, here
    <3> QED
      BY <1>1, <1>4, <3>1, <3>2, <3>3, SameTheorem DEF PathIsKnown
  <2> QED
    BY <2>2, <2>3, <2>4
<1> QED
  BY <1>5, <1>6, <1>7 DEF SearchInv

(* What only changes pc.                                                   *)
LEMMA RestKeeps ==
  ASSUME SearchInv, UNCHANGED <<theorem, search, path, hops>>, pc' \in {pc, "none", "visit"}
  PROVE  SearchInv'
<1>0. TypeInv /\ OnlySeen /\ (StartsClosed => ClosedOnes /\ LinksAreKnown /\ PathIsKnown)
  BY DEF SearchInv
<1>1. UNCHANGED <<theorem, specialization, workque, predecessors, current, hop, path, hops>>
  BY DEF search
<1>2. UNCHANGED <<Seen, Positions>>
  BY <1>1 DEF Seen, Positions
<1>3. TypeInv'
  BY <1>0, <1>1, <1>2, SameTheorem DEF TypeInv
<1>4. OnlySeen'
  BY <1>0, <1>1, <1>2 DEF OnlySeen
<1>5. (StartsClosed => ClosedOnes /\ LinksAreKnown /\ PathIsKnown)'
  BY <1>0, <1>1, <1>2, SameTheorem DEF ClosedOnes, LinksAreKnown, PathIsKnown
<1> QED
  BY <1>3, <1>4, <1>5 DEF SearchInv

LEMMA SearchStep == SearchInv /\ [Next]_vars => SearchInv'
<1> SUFFICES ASSUME SearchInv, [Next]_vars PROVE SearchInv'
  OBVIOUS
<1>1. CASE Start
  BY <1>1, StartKeeps
<1>2. CASE Visit
  BY <1>2, VisitKeeps
<1>3. CASE Exhausted
  BY <1>3, RestKeeps DEF Exhausted
<1>4. CASE TryHop
  BY <1>4, TryHopKeeps
<1>5. CASE Expanded
  BY <1>5, RestKeeps DEF Expanded
<1>6. CASE Trace
  BY <1>6, TraceKeeps
<1>7. CASE UNCHANGED vars
  BY <1>7, RestKeeps DEF vars
<1> QED
  BY <1>1, <1>2, <1>3, <1>4, <1>5, <1>6, <1>7 DEF Next

(* The backlinks lead from what is visited back to the start, and every    *)
(* one of them is a hop used as it may be.                                 *)
THEOREM SearchInvariant == Spec => []SearchInv
<1>1. Init => SearchInv
  BY InitSearch
<1>2. SearchInv /\ [Next]_vars => SearchInv'
  BY SearchStep
<1> QED
  BY <1>1, <1>2, PTL DEF Spec

(* The search only says yes to what the hops imply, from an instance       *)
(* without constants.                                                      *)
THEOREM FoundProofsAreValid == Spec => []ClosedProofIsValid
<1>1. SearchInv => ClosedProofIsValid
  <2>1. SUFFICES ASSUME SearchInv, StartsClosed, pc = "proof", NEW v \in Valuation
                 PROVE  Concrete(Given(theorem.right), v)
                          \in Ball(Known, Concrete(Given(theorem.left), v), Cardinality(Known))
    BY DEF ClosedProofIsValid, ProofIsValid
  <2>2. TypeInv /\ ClosedOnes /\ PathIsKnown
    BY <2>1 DEF SearchInv
  <2>3. /\ theorem \in Theorems /\ Given(theorem.left) \in Instance /\ Given(theorem.right) \in Instance
        /\ specialization[theorem.left] = Given(theorem.left)
    BY <2>2, TheoremParts DEF TypeInv
  <2>4. Closed(Given(theorem.left)) /\ Closed(Given(theorem.right)) /\ Head(path) = theorem.left
    BY <2>1, <2>2, <2>3 DEF ClosedOnes, Seen, PathIsKnown
  <2>5. /\ Concrete(Given(theorem.left), v) = Given(theorem.left)
        /\ Concrete(Given(theorem.right), v) = Given(theorem.right)
    BY <2>3, <2>4, ConcreteClosed
  <2> DEFINE ball == Ball(Known, Given(theorem.left), Cardinality(Known))
  <2>6. Given(theorem.left) \in ball /\ \A e \in Known : e[1] \in ball => e[2] \in ball
    BY <2>3, KnownIsFinite, BallIsClosed
  <2> HIDE DEF ball
  <2>7. Given(theorem.right) \in ball
    BY <2>1, <2>2, <2>3, <2>4, <2>6 DEF PathIsKnown, ClosedUnder
  <2> QED
    BY <2>5, <2>7 DEF ball
<1> QED
  BY <1>1, SearchInvariant, PTL

-----------------------------------------------------------------------------
(* Where no instance is a specialisation of another, the search goes       *)
(* through the instances of the theorem in the order of their distance.    *)
Links == Symmetric({<<Given(Hop(h).left), Given(Hop(h).right)>> : h \in DOMAIN theorem.hops})
Near(n) == Ball(Links, Given(theorem.left), n)

(* The instances that were met, and those whose neighbours all were.       *)
Met == {specialization[i] : i \in Seen}
Done(x) == x # Given(theorem.right) /\ \A e \in Links : e[1] = x => e[2] \in Met

(* How many backlinks lead from an instance to the start.                  *)
IsDepth(d) ==
  /\ d \in [Seen -> Nat] /\ d[theorem.left] = 0
  /\ \A i \in DOMAIN predecessors : i # theorem.left => d[i] = d[predecessors[i][1]] + 1

(* The queue holds instances up to m links away, and after the first k     *)
(* entries those one link further; up to m links away there is nothing     *)
(* that is not in these entries or done, and nowhere anything that is not  *)
(* in the queue or done.                                                   *)
Expanding(i) == pc = "expand" /\ i = current

Layers(d, m, k) ==
  /\ IsDepth(d) /\ m \in Nat /\ k \in 0..Len(workque)
  /\ \A n \in Nat : n < m => Given(theorem.right) \notin Near(n)
  /\ \A j \in 1..Len(workque) : d[workque[j]] <= IF j <= k THEN m ELSE m + 1
  /\ \A x \in Near(m) : \/ Done(x)
                        \/ \E j \in 1..k : specialization[workque[j]] = x
                        \/ pc = "expand" /\ x = specialization[current]
  /\ \A i \in Seen : Done(specialization[i]) \/ (\E j \in 1..Len(workque) : workque[j] = i) \/ Expanding(i)
  /\ pc = "expand" => d[current] <= m

(* The hops before the next one have been tried.                           *)
Tried ==
  pc = "expand" =>
    /\ specialization[current] # Given(theorem.right)
    /\ \A h \in DOMAIN theorem.hops : h < hop =>
         /\ Given(Hop(h).left) = specialization[current] => Given(Hop(h).right) \in Met
         /\ Given(Hop(h).right) = specialization[current] => Given(Hop(h).left) \in Met

(* A backlink is at the first of equal instances.                          *)
FirstOnes ==
  \A i \in DOMAIN predecessors : \A j \in Positions : specialization[i] = specialization[j] => i <= j

Shortest ==
  /\ specialization = theorem.instances
  /\ pc \notin {"start", "proof"} => Given(theorem.left) # Given(theorem.right)
  /\ pc \in {"start", "visit", "expand"} =>
       hops = <<>> /\ FirstOnes /\ Tried /\ \E d, m, k : Layers(d, m, k)
  /\ pc = "trace" =>
       /\ Head(path) # theorem.left
       /\ \E d : IsDepth(d) /\ \A n \in Nat : Given(theorem.right) \in Near(n) => Len(hops) + d[Head(path)] <= n
  /\ pc = "proof" => \A n \in Nat : Given(theorem.right) \in Near(n) => Len(hops) <= n
  /\ pc = "none" => \A n \in Nat : Given(theorem.right) \notin Near(n)

LEMMA NearSteps ==
  /\ Near(0) = {Given(theorem.left)}
  /\ \A n \in Nat : Near(n + 1) = Near(n) \cup {e[2] : e \in {x \in Links : x[1] \in Near(n)}}
<1>1. PICK f : Balls(f, Links, Given(theorem.left))
  BY BallSteps
<1>2. \A n \in Nat : Near(n) = f[n] /\ n + 1 \in Nat
  BY <1>1 DEF Balls, Near
<1>3. Near(0) = {Given(theorem.left)}
  BY <1>1, <1>2 DEF Balls
<1>4. ASSUME NEW n \in Nat
      PROVE  Near(n + 1) = Near(n) \cup {e[2] : e \in {x \in Links : x[1] \in Near(n)}}
  <2>1. f[n + 1] = f[n] \cup {e[2] : e \in {x \in Links : x[1] \in f[n]}}
    BY <1>1 DEF Balls
  <2>2. Near(n) = f[n] /\ Near(n + 1) = f[n + 1]
    BY <1>2
  <2> QED
    BY <2>1, <2>2, Zenon
<1> QED
  BY <1>3, <1>4

LEMMA SameLinks ==
  ASSUME theorem' = theorem
  PROVE  /\ Links' = Links /\ Unrelated' = Unrelated
         /\ \A n : Near(n)' = Near(n)
<1>1. Links' = Links
  BY DEF Links, Hop, Given
<1>2. Unrelated' = Unrelated
  BY DEF Unrelated, Given
<1>3. \A n : Near(n)' = Near(n)
  BY <1>1 DEF Near, Given
<1> QED
  BY <1>1, <1>2, <1>3

LEMMA EquivalentGiven ==
  ASSUME Unrelated, NEW i \in DOMAIN theorem.instances, NEW j \in DOMAIN theorem.instances
  PROVE  /\ Compatible(Given(i), Given(j)) <=> Given(i) = Given(j)
         /\ Equivalent(Given(i), Given(j)) <=> Given(i) = Given(j)
BY CompatibleSelf DEF Unrelated, Equivalent

LEMMA TransferOfItself ==
  ASSUME NEW a \in Instance, NEW b \in Instance
  PROVE  Transfer(a, a, b) = b
<1>1. Assigned(a, a) = {}
  BY Values DEF Assigned
<1>2. /\ Transfer(a, a, b) \in Instance /\ Transfer(a, a, b).game = b.game
      /\ \A p \in 1..Params : Transfer(a, a, b).consts[p] =
           IF \E q \in Assigned(a, a) : a.consts[q] = b.consts[p]
           THEN Assignment(a, a, b.consts[p]) ELSE b.consts[p]
  BY TransferParts
<1> QED
  BY <1>1, <1>2, SameInstance

(* A hop leads from an instance to the other side.                         *)
LEMMA ReachedGiven ==
  ASSUME theorem \in Theorems, Unrelated, NEW i \in DOMAIN theorem.instances, NEW h \in DOMAIN theorem.hops
  PROVE  LET left == Given(Hop(h).left) right == Given(Hop(h).right)
         IN  Reached(Given(i), h) = IF Given(i) = left THEN {right} ELSE IF Given(i) = right THEN {left} ELSE {}
<1> DEFINE left == Given(Hop(h).left)
           right == Given(Hop(h).right)
<1>1. left \in Instance /\ right \in Instance
  BY TheoremParts
<1>2. /\ Compatible(Given(i), left) <=> Given(i) = left
      /\ Compatible(Given(i), right) <=> Given(i) = right
  BY TheoremParts, EquivalentGiven
<1>3. Reached(Given(i), h) = IF Compatible(Given(i), left) THEN {Transfer(Given(i), left, right)}
                             ELSE IF Compatible(Given(i), right) THEN {Transfer(Given(i), right, left)}
                             ELSE {}
  BY DEF Reached
<1>4. Transfer(left, left, right) = right /\ Transfer(right, right, left) = left
  BY <1>1, TransferOfItself
<1> HIDE DEF left, right
<1>5. Reached(Given(i), h) = IF Given(i) = left THEN {right} ELSE IF Given(i) = right THEN {left} ELSE {}
  BY <1>2, <1>3, <1>4
<1> QED
  BY <1>5 DEF left, right

(* The position of an instance of the theorem is the first it has.         *)
LEMMA PositionGiven ==
  ASSUME TypeInv, Unrelated, specialization = theorem.instances, NEW i \in Positions
  PROVE  /\ Position(Given(i)) \in Positions /\ specialization[Position(Given(i))] = Given(i)
         /\ \A j \in Positions : specialization[j] = Given(i) => Position(Given(i)) <= j
<1> DEFINE at == {j \in Positions : Equivalent(Given(i), specialization[j])}
           first == CHOOSE j \in at : \A q \in at : j <= q
<1>1. at = {j \in Positions : specialization[j] = Given(i)} /\ i \in at
  BY EquivalentGiven DEF Positions, Given
<1>2. at \subseteq Nat
  BY DEF TypeInv, Positions
<1>3. Position(Given(i)) = first
  BY <1>1 DEF Position
<1>4. first \in at /\ \A q \in at : first <= q
  <2> HIDE DEF at
  <2>1. \E j \in at : \A q \in at : j <= q
    BY <1>1, <1>2, LeastElement
  <2> QED
    BY <2>1
<1> HIDE DEF first
<1> QED
  BY <1>1, <1>3, <1>4

LEMMA InitShortest == Init /\ Unrelated => Shortest
<1> SUFFICES ASSUME Init, Unrelated PROVE Shortest
  OBVIOUS
<1> DEFINE d == [i \in {theorem.left} |-> 0]
<1>1. /\ DOMAIN predecessors = {} /\ Seen = {theorem.left}
      /\ workque = <<theorem.left>> /\ Len(workque) = 1 /\ pc = "start" /\ hops = <<>>
      /\ specialization = theorem.instances /\ specialization[theorem.left] = Given(theorem.left)
  BY DEF Init, Seen, Given
<1>2. Layers(d, 0, 1)
  <2>1. IsDepth(d)
    BY <1>1 DEF IsDepth
  <2>2. \A j \in 1..Len(workque) : j = 1 /\ workque[j] = theorem.left /\ d[workque[j]] = 0
    BY <1>1
  <2>3. \A x \in Near(0) : \E j \in 1..1 : specialization[workque[j]] = x
    BY <1>1, NearSteps
  <2>4. \A i \in Seen : \E j \in 1..Len(workque) : workque[j] = i
    BY <1>1
  <2> HIDE DEF d
  <2> QED
    BY <1>1, <2>1, <2>2, <2>3, <2>4 DEF Layers
<1>3. FirstOnes /\ Tried
  BY <1>1 DEF FirstOnes, Tried
<1> HIDE DEF d
<1> QED
  BY <1>1, <1>2, <1>3 DEF Shortest

(* Near does not depend on how far the search is, nor do the others as     *)
(* long as what was met stays the same.                                    *)
LEMMA SameMet ==
  ASSUME theorem' = theorem, specialization' = specialization, predecessors' = predecessors
  PROVE  /\ Seen' = Seen /\ Met' = Met /\ Positions' = Positions /\ Links' = Links /\ FirstOnes' = FirstOnes
         /\ \A x : Done(x)' = Done(x)
         /\ \A n : Near(n)' = Near(n)
         /\ \A d : IsDepth(d)' = IsDepth(d)
         /\ \A i : Given(i)' = Given(i)
<1>1. Seen' = Seen /\ Positions' = Positions
  BY DEF Seen, Positions
<1>2. Met' = Met
  BY <1>1 DEF Met
<1>3. Links' = Links /\ \A n : Near(n)' = Near(n)
  BY SameLinks
<1>4. \A i : Given(i)' = Given(i)
  BY DEF Given
<1>5. \A x : Done(x)' = Done(x)
  BY <1>2, <1>3, <1>4 DEF Done
<1>6. \A d : IsDepth(d)' = IsDepth(d)
  BY <1>1 DEF IsDepth
<1>7. FirstOnes' = FirstOnes
  BY <1>1 DEF FirstOnes
<1> QED
  BY <1>1, <1>2, <1>3, <1>4, <1>5, <1>6, <1>7

LEMMA StartShortest == TypeInv /\ Unrelated /\ Shortest /\ Start => Shortest'
<1> SUFFICES ASSUME TypeInv, Unrelated, Shortest, Start PROVE Shortest'
  OBVIOUS
<1>1. UNCHANGED <<theorem, specialization, workque, predecessors, current, hop, hops>> /\ pc = "start"
  BY DEF Start, search
<1>2. Equivalent(Given(theorem.left), Given(theorem.right)) <=> Given(theorem.left) = Given(theorem.right)
  BY TheoremParts, EquivalentGiven DEF TypeInv
<1>3. specialization = theorem.instances /\ hops = <<>> /\ FirstOnes /\ \E d, m, k : Layers(d, m, k)
  BY <1>1 DEF Shortest
<1>4. CASE Given(theorem.left) = Given(theorem.right)
  <2>1. pc' = "proof"
    BY <1>2, <1>4 DEF Start
  <2> QED
    BY <1>1, <1>3, <2>1, SameMet DEF Shortest
<1>5. CASE Given(theorem.left) # Given(theorem.right)
  <2>1. pc' = "visit"
    BY <1>2, <1>5 DEF Start
  <2>2. PICK d, m, k : Layers(d, m, k)
    BY <1>3
  <2>3. Layers(d, m, k)'
    BY <1>1, <2>1, <2>2, SameMet DEF Layers, Expanding
  <2>4. Tried'
    BY <2>1 DEF Tried
  <2> QED
    BY <1>1, <1>3, <1>5, <2>1, <2>3, <2>4, SameMet DEF Shortest
<1> QED
  BY <1>4, <1>5

(* If the first k entries are none, everything m links away is done, and   *)
(* the queue holds what is one link further.                               *)
LEMMA NextLayer ==
  ASSUME TypeInv, pc = "visit", NEW d, NEW m, Layers(d, m, 0)
  PROVE  Layers(d, m + 1, Len(workque))
<1>1. m \in Nat /\ m + 1 \in Nat /\ Len(workque) \in Nat /\ IsDepth(d)
  BY DEF Layers, TypeInv
<1>2. \A x \in Near(m) : Done(x)
  BY DEF Layers
<1>3. \A n \in Nat : n < m + 1 => Given(theorem.right) \notin Near(n)
  <2>1. SUFFICES ASSUME NEW n \in Nat, n < m + 1 PROVE Given(theorem.right) \notin Near(n)
    OBVIOUS
  <2>2. CASE n = m
    BY <2>2, <1>2 DEF Done
  <2>3. CASE n < m
    BY <2>3 DEF Layers
  <2> QED
    BY <1>1, <2>1, <2>2, <2>3
<1>4. \A j \in 1..Len(workque) : d[workque[j]] <= IF j <= Len(workque) THEN m + 1 ELSE (m + 1) + 1
  BY <1>1 DEF Layers
<1>5. ASSUME NEW x \in Near(m + 1)
      PROVE  Done(x) \/ \E j \in 1..Len(workque) : specialization[workque[j]] = x
  <2>1. CASE x \in Near(m)
    BY <2>1, <1>2
  <2>2. CASE x \notin Near(m)
    <3>1. PICK e \in Links : e[1] \in Near(m) /\ x = e[2]
      BY <1>1, <2>2, NearSteps
    <3>2. x \in Met
      BY <1>2, <3>1 DEF Done
    <3>3. PICK i \in Seen : x = specialization[i]
      BY <3>2 DEF Met
    <3> QED
      BY <3>3 DEF Layers, Expanding
  <2> QED
    BY <2>1, <2>2
<1>6. \A i \in Seen : Done(specialization[i]) \/ (\E j \in 1..Len(workque) : workque[j] = i) \/ Expanding(i)
  BY DEF Layers
<1> QED
  BY <1>1, <1>3, <1>4, <1>5, <1>6 DEF Layers

LEMMA VisitShortest == SearchInv /\ Unrelated /\ Shortest /\ Visit => Shortest'
<1> SUFFICES ASSUME SearchInv, Unrelated, Shortest, Visit PROVE Shortest'
  OBVIOUS
<1> DEFINE here == workque[1]
<1>0. TypeInv /\ OnlySeen
  BY DEF SearchInv
<1>1. /\ UNCHANGED <<theorem, specialization, hops>> /\ pc = "visit"
      /\ current' = Head(workque) /\ workque' = Tail(workque) /\ hop' = 1 /\ workque # <<>>
      /\ workque \in Seq(Positions)
  BY <1>0 DEF Visit, TypeInv
<1>2. /\ current' = here /\ here \in Positions /\ here \in Seen
      /\ Len(workque) \in Nat \ {0} /\ Len(workque') = Len(workque) - 1
      /\ \A j \in 1..Len(workque') : j + 1 \in 1..Len(workque) /\ workque'[j] = workque[j + 1]
      /\ \A j \in 2..Len(workque) : j - 1 \in 1..Len(workque') /\ workque[j] = workque'[j - 1]
  BY <1>0, <1>1 DEF OnlySeen
<1> HIDE DEF here
<1>3. /\ hops = <<>> /\ FirstOnes /\ specialization = theorem.instances
      /\ Given(theorem.left) # Given(theorem.right)
  BY <1>1 DEF Shortest
<1>4. PICK d, m, k : Layers(d, m, k) /\ k # 0
  <2>1. PICK d, m, k : Layers(d, m, k)
    BY <1>1 DEF Shortest
  <2>2. CASE k = 0
    <3>1. Layers(d, m + 1, Len(workque))
      BY <1>0, <1>1, <2>1, <2>2, NextLayer
    <3> QED
      BY <3>1, <1>2
  <2> QED
    BY <2>1, <2>2
<1>5. /\ theorem.left \in Positions /\ theorem.right \in Positions
      /\ specialization[theorem.left] = Given(theorem.left) /\ specialization[theorem.right] = Given(theorem.right)
      /\ theorem.left # theorem.right /\ specialization[here] = Given(here)
  BY <1>0, <1>2, <1>3, TheoremParts DEF TypeInv, Positions, Given
<1>6. Compatible(Given(theorem.right), specialization[current']) <=> specialization[here] = Given(theorem.right)
  BY <1>2, <1>3, <1>5, EquivalentGiven DEF Positions
<1>7. IsDepth(d) /\ m \in Nat /\ k \in 1..Len(workque)
  BY <1>2, <1>4 DEF Layers
<1>8. d[here] <= m /\ d[here] \in Nat
  <2>1. 1 \in 1..Len(workque) /\ 1 <= k
    BY <1>2, <1>7
  <2> QED
    BY <1>2, <1>4, <1>7, <2>1 DEF Layers, here, IsDepth
<1>9. CASE specialization[here] # Given(theorem.right)
  <2>1. pc' = "expand" /\ UNCHANGED <<predecessors, path>>
    BY <1>6, <1>9 DEF Visit
  <2>2. Tried'
    <3>1. \A h \in DOMAIN theorem.hops : ~(h < 1)
      BY <1>0, TheoremParts DEF TypeInv
    <3> QED
      BY <1>1, <1>2, <1>9, <2>1, <3>1, SameMet DEF Tried
  <2>3. Layers(d, m, k - 1)'
    <3>1. k - 1 \in 0..Len(workque')
      BY <1>2, <1>7
    <3>2. ASSUME NEW j \in 1..Len(workque')
          PROVE  d[workque'[j]] <= IF j <= k - 1 THEN m ELSE m + 1
      <4>1. /\ j + 1 \in 1..Len(workque) /\ workque'[j] = workque[j + 1]
            /\ d[workque[j + 1]] <= IF j + 1 <= k THEN m ELSE m + 1
        BY <1>2, <1>4 DEF Layers
      <4>2. j + 1 <= k <=> j <= k - 1
        BY <1>2, <1>7
      <4> QED
        BY <4>1, <4>2
    <3>3. ASSUME NEW x \in Near(m)
          PROVE  \/ Done(x)
                 \/ \E j \in 1..(k - 1) : specialization[workque'[j]] = x
                 \/ x = specialization[here]
      <4>1. CASE \E j \in 1..k : specialization[workque[j]] = x
        <5>1. PICK j \in 1..k : specialization[workque[j]] = x
          BY <4>1
        <5>2. CASE j = 1
          BY <5>1, <5>2 DEF here
        <5>3. CASE j # 1
          <6>1. j - 1 \in 1..(k - 1) /\ j \in 2..Len(workque)
            BY <5>3, <1>2, <1>7
          <6>2. workque'[j - 1] = workque[j]
            BY <6>1, <1>2
          <6> QED
            BY <5>1, <6>1, <6>2
        <5> QED
          BY <5>2, <5>3
      <4> QED
        BY <4>1, <1>1, <1>4 DEF Layers
    <3>4. ASSUME NEW i \in Seen
          PROVE  Done(specialization[i]) \/ (\E j \in 1..Len(workque') : workque'[j] = i) \/ i = here
      <4>1. CASE \E j \in 1..Len(workque) : workque[j] = i
        <5>1. PICK j \in 1..Len(workque) : workque[j] = i
          BY <4>1
        <5>2. CASE j = 1
          BY <5>1, <5>2 DEF here
        <5>3. CASE j # 1
          BY <5>1, <5>3, <1>2
        <5> QED
          BY <5>2, <5>3
      <4> QED
        BY <4>1, <1>1, <1>4 DEF Layers, Expanding
    <3>5. \A n \in Nat : n < m => Given(theorem.right) \notin Near(n)
      BY <1>4 DEF Layers
    <3> QED
      BY <1>1, <1>2, <1>7, <1>8, <2>1, <3>1, <3>2, <3>3, <3>4, <3>5, SameMet DEF Layers, Expanding
  <2> QED
    BY <1>1, <1>3, <2>1, <2>2, <2>3, SameMet DEF Shortest
<1>10. CASE specialization[here] = Given(theorem.right)
  <2>1. here # theorem.left /\ here \in DOMAIN predecessors
    BY <1>2, <1>3, <1>5, <1>10 DEF Seen
  <2>2. /\ path' = <<theorem.right>> /\ pc' = "trace"
        /\ predecessors' = Backlinked(theorem.right, predecessors[here])
    BY <1>2, <1>6, <1>10, <2>1 DEF Visit
  <2>3. /\ DOMAIN predecessors' = DOMAIN predecessors \cup {theorem.right}
        /\ \A j \in DOMAIN predecessors : predecessors'[j] = predecessors[j]
        /\ theorem.right \notin DOMAIN predecessors => predecessors'[theorem.right] = predecessors[here]
    BY <2>2 DEF Backlinked
  <2>4. theorem.right \in DOMAIN predecessors => here = theorem.right
    <3>1. SUFFICES ASSUME theorem.right \in DOMAIN predecessors PROVE here = theorem.right
      OBVIOUS
    <3>2. here <= theorem.right /\ theorem.right <= here
      BY <1>2, <1>3, <1>5, <1>10, <2>1, <3>1 DEF FirstOnes
    <3>3. here \in Nat /\ theorem.right \in Nat
      BY <1>0, <1>2, <1>5 DEF TypeInv, Positions
    <3> QED
      BY <3>2, <3>3
  <2>e. PICK e : e = [i \in Seen \cup {theorem.right} |-> IF i \in Seen THEN d[i] ELSE d[here]]
    OBVIOUS
  <2>5. Seen' = Seen \cup {theorem.right}
    BY <1>1, <2>3 DEF Seen
  <2>6. e[theorem.right] <= m /\ e[theorem.right] \in Nat
    <3>1. CASE theorem.right \in Seen
      <4>1. theorem.right = here
        BY <1>5, <2>4, <3>1 DEF Seen
      <4> QED
        BY <1>8, <3>1, <4>1, <2>e
    <3>2. CASE theorem.right \notin Seen
      BY <1>8, <3>2, <2>e
    <3> QED
      BY <3>1, <3>2
  <2>7. IsDepth(e)'
    <3>1. e \in [Seen' -> Nat] /\ e[theorem.left] = 0
      BY <1>7, <1>8, <2>5, <2>e DEF IsDepth, Seen
    <3>2. ASSUME NEW i \in DOMAIN predecessors', i # theorem.left
          PROVE  e[i] = e[predecessors'[i][1]] + 1
      <4>1. CASE i \in DOMAIN predecessors
        <5>1. predecessors'[i] = predecessors[i] /\ i \in Seen /\ predecessors[i][1] \in Seen
          BY <4>1, <2>3, <1>0 DEF Seen, OnlySeen
        <5>2. d[i] = d[predecessors[i][1]] + 1
          BY <4>1, <3>2, <1>7 DEF IsDepth
        <5> QED
          BY <5>1, <5>2, <2>e
      <4>2. CASE i \notin DOMAIN predecessors
        <5>1. i = theorem.right /\ predecessors'[i] = predecessors[here] /\ i \notin Seen
              /\ predecessors[here][1] \in Seen
          BY <4>2, <3>2, <2>1, <2>3, <1>0 DEF Seen, OnlySeen
        <5>2. d[here] = d[predecessors[here][1]] + 1
          BY <2>1, <1>7 DEF IsDepth
        <5> QED
          BY <5>1, <5>2, <2>e
      <4> QED
        BY <4>1, <4>2
    <3> QED
      BY <1>1, <3>1, <3>2 DEF IsDepth
  <2>8. \A n \in Nat : Given(theorem.right) \in Near(n) => Len(hops) + e[theorem.right] <= n
    <3>1. SUFFICES ASSUME NEW n \in Nat, Given(theorem.right) \in Near(n) PROVE Len(hops) + e[theorem.right] <= n
      OBVIOUS
    <3>2. ~(n < m)
      BY <1>4, <3>1 DEF Layers
    <3>3. Len(hops) = 0
      BY <1>3
    <3> QED
      BY <1>7, <2>6, <3>1, <3>2, <3>3
  <2>9. Head(path') = theorem.right
    BY <2>2
  <2>10. (\E d1 : IsDepth(d1) /\ \A n \in Nat : Given(theorem.right) \in Near(n) => Len(hops) + d1[Head(path)] <= n)'
    <3>1. \A n \in Nat : Given(theorem.right)' \in Near(n)' => Len(hops') + e[Head(path')] <= n
      BY <1>1, <2>8, <2>9, SameLinks DEF Given
    <3>2. IsDepth(e)' /\ \A n \in Nat : Given(theorem.right)' \in Near(n)' => Len(hops') + e[Head(path')] <= n
      BY <2>7, <3>1
    <3> QED
      BY <3>2
  <2>11. Given(theorem.left)' # Given(theorem.right)' /\ specialization' = theorem'.instances
    BY <1>1, <1>3 DEF Given
  <2> QED
    BY <1>1, <1>5, <2>2, <2>9, <2>10, <2>11 DEF Shortest
<1> QED
  BY <1>9, <1>10

LEMMA TryHopShortest == SearchInv /\ Unrelated /\ Shortest /\ TryHop => Shortest'
<1> SUFFICES ASSUME SearchInv, Unrelated, Shortest, TryHop PROVE Shortest'
  OBVIOUS
<1> DEFINE from == specialization[current]
           left == Given(Hop(hop).left)
           right == Given(Hop(hop).right)
<1>0. TypeInv /\ OnlySeen
  BY DEF SearchInv
<1>1. /\ UNCHANGED <<theorem, current, path, hops, pc>> /\ hop' = hop + 1 /\ pc = "expand"
      /\ hop \in DOMAIN theorem.hops /\ DOMAIN theorem.hops \subseteq Nat
  <2>1. theorem.hops \in Seq([left : Nat, right : Nat, hybrid : BOOLEAN])
    BY <1>0, TheoremParts DEF TypeInv
  <2>2. DOMAIN theorem.hops = 1..Len(theorem.hops) /\ Len(theorem.hops) \in Nat
    BY <2>1
  <2>3. hop \in Nat \ {0} /\ hop <= Len(theorem.hops)
    BY <1>0 DEF TryHop, TypeInv
  <2>4. hop \in DOMAIN theorem.hops /\ DOMAIN theorem.hops \subseteq Nat
    BY <2>2, <2>3
  <2> QED
    BY <2>4 DEF TryHop
<1>2. /\ hops = <<>> /\ FirstOnes /\ Tried /\ specialization = theorem.instances
      /\ Given(theorem.left) # Given(theorem.right)
  BY <1>1 DEF Shortest
<1>3. PICK d, m, k : Layers(d, m, k)
  BY <1>1 DEF Shortest
<1>4. current \in Seen /\ from = Given(current) /\ current \in DOMAIN theorem.instances
      /\ Seen \subseteq Positions
  <2>1. theorem.left \in DOMAIN theorem.instances
    BY <1>0, TheoremParts DEF TypeInv
  <2> QED
    BY <1>0, <1>2, <2>1 DEF OnlySeen, TypeInv, Positions, Given, Seen
<1>5. Reached(from, hop) = IF from = left THEN {right} ELSE IF from = right THEN {left} ELSE {}
  BY <1>0, <1>1, <1>4, ReachedGiven DEF TypeInv
<1>6. CASE Reached(from, hop) = {} /\ UNCHANGED <<specialization, workque, predecessors>>
  <2>1. from # left /\ from # right
    BY <1>5, <1>6
  <2>2. Tried'
    <3>1. ASSUME NEW h \in DOMAIN theorem.hops, h < hop + 1
          PROVE  /\ Given(Hop(h).left) = from => Given(Hop(h).right) \in Met
                 /\ Given(Hop(h).right) = from => Given(Hop(h).left) \in Met
      <4>1. CASE h = hop
        BY <2>1, <4>1
      <4>2. CASE h # hop
        <5>1. h < hop
          BY <1>1, <3>1, <4>2
        <5> QED
          BY <5>1, <1>1, <1>2 DEF Tried
      <4> QED
        BY <4>1, <4>2
    <3>2. from # Given(theorem.right)
      BY <1>1, <1>2 DEF Tried
    <3> QED
      BY <1>1, <1>6, <3>1, <3>2, SameMet, SameTheorem DEF Tried
  <2>3. Layers(d, m, k)'
    BY <1>1, <1>3, <1>6, SameMet DEF Layers, Expanding
  <2> QED
    BY <1>1, <1>2, <1>6, <2>2, <2>3, SameMet DEF Shortest
<1>7. ASSUME NEW instance \in Reached(from, hop),
             specialization' = IF Position(instance) \in Positions THEN specialization
                               ELSE Append(specialization, instance),
             workque' = IF Position(instance) \in DOMAIN predecessors THEN workque
                        ELSE Append(workque, Position(instance)),
             predecessors' = Backlinked(Position(instance), <<current, hop>>)
      PROVE  Shortest'
  <2>1. PICK next : next = Position(instance)
    OBVIOUS
  <2>2. /\ next \in Positions /\ specialization[next] = instance
        /\ \A j \in Positions : specialization[j] = instance => next <= j
    <3>1. PICK i \in Positions : instance = Given(i)
      BY <1>0, <1>1, <1>2, <1>5, TheoremParts DEF TypeInv, Positions
    <3> QED
      BY <1>0, <1>2, <2>1, <3>1, PositionGiven
  <2>3. /\ UNCHANGED <<specialization, Positions>>
        /\ workque' = IF next \in DOMAIN predecessors THEN workque ELSE Append(workque, next)
        /\ DOMAIN predecessors' = DOMAIN predecessors \cup {next}
        /\ \A j \in DOMAIN predecessors : predecessors'[j] = predecessors[j]
        /\ next \notin DOMAIN predecessors => predecessors'[next] = <<current, hop>>
    BY <1>7, <2>1, <2>2 DEF Backlinked, Positions
  <2>4. Seen' = Seen \cup {next} /\ Met' = Met \cup {instance}
    <3>1. Seen' = Seen \cup {next}
      BY <1>1, <2>3 DEF Seen
    <3> QED
      BY <2>2, <2>3, <3>1 DEF Met
  <2>5. /\ \A x : Done(x) => Done(x)'
        /\ \A n : Near(n)' = Near(n)
        /\ \A i : Given(i)' = Given(i)
        /\ \A h : Hop(h)' = Hop(h)
    <3>1. Links' = Links /\ \A i : Given(i)' = Given(i)
      BY <1>1, SameLinks, SameTheorem
    <3>2. \A x : Done(x) => Done(x)'
      BY <1>1, <2>4, <3>1 DEF Done
    <3> QED
      BY <1>1, <3>2, SameLinks, SameTheorem
  <2>6. FirstOnes'
    <3>1. ASSUME NEW i \in DOMAIN predecessors', NEW j \in Positions, specialization[i] = specialization[j]
          PROVE  i <= j
      BY <1>2, <2>2, <2>3, <3>1 DEF FirstOnes
    <3> QED
      BY <2>3, <3>1 DEF FirstOnes
  <2>7. Tried'
    <3>1. from \in Met
      BY <1>4 DEF Met
    <3>2. ASSUME NEW h \in DOMAIN theorem.hops, h < hop + 1
          PROVE  /\ Given(Hop(h).left) = from => Given(Hop(h).right) \in Met'
                 /\ Given(Hop(h).right) = from => Given(Hop(h).left) \in Met'
      <4>1. CASE h = hop
        BY <1>5, <1>7, <2>4, <3>1, <4>1
      <4>2. CASE h # hop
        <5>1. h < hop
          BY <1>1, <3>2, <4>2
        <5> QED
          BY <5>1, <1>1, <1>2, <2>4 DEF Tried
      <4> QED
        BY <4>1, <4>2
    <3>3. from # Given(theorem.right)
      BY <1>1, <1>2 DEF Tried
    <3> QED
      BY <1>1, <2>3, <2>5, <3>2, <3>3 DEF Tried
  <2>8. PICK e : e = [i \in Seen \cup {next} |-> IF i \in Seen THEN d[i] ELSE d[current] + 1]
    OBVIOUS
  <2>9. IsDepth(d) /\ m \in Nat /\ k \in 0..Len(workque) /\ d[current] <= m /\ d[current] \in Nat
    BY <1>1, <1>3, <1>4 DEF Layers, IsDepth
  <2>10. e \in [Seen' -> Nat] /\ e[theorem.left] = 0 /\ \A i \in Seen : e[i] = d[i]
    BY <2>4, <2>8, <2>9 DEF IsDepth, Seen
  <2>11. IsDepth(e)'
    <3>1. ASSUME NEW i \in DOMAIN predecessors', i # theorem.left
          PROVE  e[i] = e[predecessors'[i][1]] + 1
      <4>1. CASE i \in DOMAIN predecessors
        <5>1. predecessors'[i] = predecessors[i] /\ i \in Seen /\ predecessors[i][1] \in Seen
          BY <4>1, <2>3, <1>0 DEF Seen, OnlySeen
        <5>2. d[i] = d[predecessors[i][1]] + 1
          BY <4>1, <3>1, <2>9 DEF IsDepth
        <5> QED
          BY <5>1, <5>2, <2>10
      <4>2. CASE i \notin DOMAIN predecessors
        <5>1. i = next /\ predecessors'[i][1] = current /\ i \notin Seen
          BY <4>2, <3>1, <2>3 DEF Seen
        <5> QED
          BY <5>1, <1>4, <2>8, <2>10
      <4> QED
        BY <4>1, <4>2
    <3> QED
      BY <1>1, <2>10, <3>1 DEF IsDepth
  <2>12. /\ workque \in Seq(Positions) /\ Len(workque) \in Nat
         /\ \A j \in 1..Len(workque) : workque[j] \in Seen /\ workque'[j] = workque[j] /\ j \in 1..Len(workque')
         /\ \A j \in 1..Len(workque') : j \notin 1..Len(workque) => j = Len(workque) + 1 /\ workque'[j] = next
         /\ next \notin DOMAIN predecessors => Len(workque) + 1 \in 1..Len(workque') /\ workque'[Len(workque) + 1] = next
         /\ Len(workque') \in Nat /\ Len(workque) <= Len(workque')
    <3>1. workque \in Seq(Positions) /\ \A j \in 1..Len(workque) : workque[j] \in Seen
      BY <1>0 DEF TypeInv, OnlySeen
    <3>2. CASE next \in DOMAIN predecessors
      BY <2>3, <3>1, <3>2
    <3>3. CASE next \notin DOMAIN predecessors
      <4>1. workque' = Append(workque, next)
        BY <2>3, <3>3
      <4> HIDE DEF Positions
      <4> QED
        BY <2>2, <3>1, <3>3, <4>1
    <3> QED
      BY <3>2, <3>3
  <2>13. Layers(e, m, k)'
    <3>1. k \in 0..Len(workque')
      BY <2>9, <2>12
    <3>2. ASSUME NEW j \in 1..Len(workque')
          PROVE  e[workque'[j]] <= IF j <= k THEN m ELSE m + 1
      <4>1. CASE j \in 1..Len(workque)
        BY <4>1, <1>3, <2>10, <2>12 DEF Layers
      <4>2. CASE j \notin 1..Len(workque)
        <5>1. workque'[j] = next /\ ~(j <= k)
          BY <4>2, <2>9, <2>12
        <5>2. e[next] <= m + 1
          <6>1. CASE next \in DOMAIN predecessors
            BY <2>3, <2>12, <4>2, <6>1
          <6>2. CASE next \notin DOMAIN predecessors
            <7>1. next \in Seen => next = theorem.left
              BY <6>2 DEF Seen
            <7>2. next \in Seen => e[next] = 0
              BY <7>1, <2>10
            <7>3. next \notin Seen => e[next] = d[current] + 1
              BY <2>8
            <7> QED
              BY <2>9, <7>2, <7>3
          <6> QED
            BY <6>1, <6>2
        <5> QED
          BY <5>1, <5>2
      <4> QED
        BY <4>1, <4>2
    <3>3. ASSUME NEW x \in Near(m)
          PROVE  \/ Done(x)'
                 \/ \E j \in 1..k : specialization[workque'[j]] = x
                 \/ x = from
      <4>1. \/ Done(x)
            \/ \E j \in 1..k : specialization[workque[j]] = x
            \/ x = from
        BY <1>3 DEF Layers
      <4>2. \A j \in 1..k : workque'[j] = workque[j]
        BY <2>9, <2>12
      <4> QED
        BY <4>1, <4>2, <2>5
    <3>4. ASSUME NEW i \in Seen'
          PROVE  Done(specialization[i])' \/ (\E j \in 1..Len(workque') : workque'[j] = i) \/ i = current
      <4>1. CASE i \in Seen
        <5>1. Done(specialization[i]) \/ (\E j \in 1..Len(workque) : workque[j] = i) \/ i = current
          BY <4>1, <1>3 DEF Layers, Expanding
        <5>2. CASE Done(specialization[i])
          <6>1. PICK x : x = specialization[i]
            OBVIOUS
          <6>2. Done(x)'
            BY <5>2, <6>1, <2>5
          <6> QED
            BY <6>1, <6>2, <2>3
        <5> QED
          BY <5>1, <5>2, <2>12
      <4>2. CASE i \notin Seen
        <5>1. i = next /\ next \notin DOMAIN predecessors
          BY <4>2, <2>4 DEF Seen
        <5> QED
          BY <5>1, <2>12
      <4> QED
        BY <4>1, <4>2
    <3>5. \A n \in Nat : n < m => Given(theorem.right) \notin Near(n)
      BY <1>3 DEF Layers
    <3>6. e[current] <= m
      BY <1>4, <2>9, <2>10
    <3> QED
      BY <1>1, <2>3, <2>5, <2>9, <2>11, <3>1, <3>2, <3>3, <3>4, <3>5, <3>6 DEF Layers, Expanding
  <2>14. Given(theorem.left)' # Given(theorem.right)' /\ specialization' = theorem'.instances /\ hops' = <<>>
    BY <1>1, <1>2, <2>3, <2>5
  <2> QED
    BY <1>1, <2>6, <2>7, <2>13, <2>14 DEF Shortest
<1> QED
  BY <1>6, <1>7 DEF TryHop

LEMMA ExpandedShortest == SearchInv /\ Unrelated /\ Shortest /\ Expanded => Shortest'
<1> SUFFICES ASSUME SearchInv, Unrelated, Shortest, Expanded PROVE Shortest'
  OBVIOUS
<1> DEFINE from == specialization[current]
<1>0. TypeInv /\ OnlySeen
  BY DEF SearchInv
<1>1. /\ UNCHANGED <<theorem, specialization, workque, predecessors, current, hop, path, hops>>
      /\ pc = "expand" /\ pc' = "visit" /\ hop > Len(theorem.hops)
  BY DEF Expanded, search
<1>2. /\ hops = <<>> /\ FirstOnes /\ Tried /\ specialization = theorem.instances
      /\ Given(theorem.left) # Given(theorem.right)
  BY <1>1 DEF Shortest
<1>3. PICK d, m, k : Layers(d, m, k)
  BY <1>1 DEF Shortest
<1>4. Done(from)
  <2>1. \A h \in DOMAIN theorem.hops : h < hop
    <3>1. theorem.hops \in Seq([left : Nat, right : Nat, hybrid : BOOLEAN])
      BY <1>0, TheoremParts DEF TypeInv
    <3>2. DOMAIN theorem.hops = 1..Len(theorem.hops) /\ Len(theorem.hops) \in Nat /\ hop \in Nat
      BY <1>0, <3>1 DEF TypeInv
    <3> QED
      BY <1>1, <3>2
  <2>2. ASSUME NEW e \in Links, e[1] = from
        PROVE  e[2] \in Met
    <3>1. PICK h \in DOMAIN theorem.hops : \/ e = <<Given(Hop(h).left), Given(Hop(h).right)>>
                                           \/ e = <<Given(Hop(h).right), Given(Hop(h).left)>>
      BY DEF Links, Symmetric
    <3> QED
      BY <1>1, <1>2, <2>1, <2>2, <3>1 DEF Tried
  <2> QED
    BY <1>1, <1>2, <2>2 DEF Tried, Done
<1>5. Layers(d, m, k)'
  <2>1. \A x \in Near(m) : Done(x) \/ \E j \in 1..k : specialization[workque[j]] = x
    BY <1>3, <1>4 DEF Layers
  <2>2. \A i \in Seen : Done(specialization[i]) \/ \E j \in 1..Len(workque) : workque[j] = i
    BY <1>3, <1>4 DEF Layers, Expanding
  <2> QED
    BY <1>1, <1>3, <2>1, <2>2, SameMet DEF Layers, Expanding
<1>6. Tried'
  BY <1>1 DEF Tried
<1> QED
  BY <1>1, <1>2, <1>5, <1>6, SameMet DEF Shortest

(* With nothing left to visit, what was met is all that can be reached.    *)
LEMMA ExhaustedShortest == SearchInv /\ Unrelated /\ Shortest /\ Exhausted => Shortest'
<1> SUFFICES ASSUME SearchInv, Unrelated, Shortest, Exhausted PROVE Shortest'
  OBVIOUS
<1>1. /\ UNCHANGED <<theorem, specialization, predecessors, path, hops>>
      /\ pc = "visit" /\ pc' = "none" /\ workque = <<>>
  BY DEF Exhausted, search
<1>2. specialization = theorem.instances /\ Given(theorem.left) # Given(theorem.right)
  BY <1>1 DEF Shortest
<1>3. \A i \in Seen : Done(specialization[i])
  <2>1. PICK d, m, k : Layers(d, m, k)
    BY <1>1 DEF Shortest
  <2>2. 1..Len(workque) = {}
    BY <1>1
  <2> QED
    BY <1>1, <2>1, <2>2 DEF Layers, Expanding
<1>4. \A n \in Nat : Near(n) \subseteq Met
  <2> DEFINE S == {n \in Nat : Near(n) \subseteq Met}
  <2>1. 0 \in S
    <3>1. theorem.left \in Seen /\ specialization[theorem.left] = Given(theorem.left)
      BY <1>2 DEF Seen, Given
    <3> QED
      BY <3>1, NearSteps DEF Met
  <2>2. ASSUME NEW n \in Nat, n \in S
        PROVE  n + 1 \in S
    <3>1. Near(n + 1) = Near(n) \cup {e[2] : e \in {x \in Links : x[1] \in Near(n)}}
      BY NearSteps
    <3>2. ASSUME NEW e \in Links, e[1] \in Near(n)
          PROVE  e[2] \in Met
      <4>1. PICK i \in Seen : e[1] = specialization[i]
        BY <2>2, <3>2 DEF Met
      <4> QED
        BY <1>3, <4>1 DEF Done
    <3> QED
      BY <2>2, <3>1, <3>2
  <2>3. Nat \subseteq S
    <3> HIDE DEF S
    <3> QED
      BY <2>1, <2>2, NaturalInduction
  <2> QED
    BY <2>3
<1>5. \A n \in Nat : Given(theorem.right) \notin Near(n)
  BY <1>3, <1>4 DEF Met, Done
<1> QED
  BY <1>1, <1>2, <1>5, SameMet DEF Shortest

LEMMA TraceShortest == SearchInv /\ Unrelated /\ Shortest /\ Trace => Shortest'
<1> SUFFICES ASSUME SearchInv, Unrelated, Shortest, Trace PROVE Shortest'
  OBVIOUS
<1>0. TypeInv /\ OnlySeen
  BY DEF SearchInv
<1>1. PICK here, link : here = Head(path) /\ link = predecessors[here]
  OBVIOUS
<1>2. /\ UNCHANGED <<theorem, specialization, workque, predecessors, current, hop>>
      /\ path' = <<link[1]>> \o path /\ hops' = <<link[2]>> \o hops
      /\ pc = "trace" /\ pc' = IF link[1] = theorem.left THEN "proof" ELSE "trace"
  BY <1>1 DEF Trace, search
<1>3. /\ specialization = theorem.instances /\ Given(theorem.left) # Given(theorem.right)
      /\ here # theorem.left
  BY <1>1, <1>2 DEF Shortest
<1>4. PICK d : IsDepth(d) /\ \A n \in Nat : Given(theorem.right) \in Near(n) => Len(hops) + d[here] <= n
  BY <1>1, <1>2 DEF Shortest
<1>5. here \in DOMAIN predecessors /\ link[1] \in Seen
  BY <1>0, <1>1, <1>2 DEF OnlySeen
<1>6. d[here] = d[link[1]] + 1 /\ d[link[1]] \in Nat
  BY <1>1, <1>3, <1>4, <1>5 DEF IsDepth
<1>7. Len(hops') = Len(hops) + 1 /\ Len(hops) \in Nat /\ Head(path') = link[1]
  <2>1. path \in Seq(Positions) /\ hops \in Seq(DOMAIN theorem.hops)
    BY <1>0 DEF TypeInv
  <2> QED
    BY <1>2, <2>1
<1>8. \A n \in Nat : Given(theorem.right) \in Near(n) => Len(hops') + d[link[1]] <= n
  BY <1>4, <1>6, <1>7
<1>9. CASE link[1] = theorem.left
  <2>1. pc' = "proof" /\ d[link[1]] = 0
    BY <1>2, <1>4, <1>9 DEF IsDepth
  <2>2. \A n \in Nat : Given(theorem.right) \in Near(n) => Len(hops') <= n
    BY <1>7, <1>8, <2>1
  <2> QED
    BY <1>2, <1>3, <2>1, <2>2, SameMet DEF Shortest
<1>10. CASE link[1] # theorem.left
  <2>1. pc' = "trace"
    BY <1>2, <1>10
  <2>2. IsDepth(d)' /\ \A n \in Nat : Given(theorem.right)' \in Near(n)' => Len(hops') + d[Head(path')] <= n
    BY <1>2, <1>4, <1>7, <1>8, SameMet
  <2>3. (\E d1 : IsDepth(d1) /\ \A n \in Nat : Given(theorem.right) \in Near(n) => Len(hops) + d1[Head(path)] <= n)'
    BY <2>2
  <2>4. Given(theorem.left)' # Given(theorem.right)' /\ specialization' = theorem'.instances
        /\ Head(path') # theorem'.left
    BY <1>2, <1>3, <1>7, <1>10 DEF Given
  <2> QED
    BY <2>1, <2>3, <2>4 DEF Shortest
<1> QED
  BY <1>9, <1>10

LEMMA ShortestStep == SearchInv /\ Unrelated /\ Shortest /\ [Next]_vars => Shortest' /\ Unrelated'
<1> SUFFICES ASSUME SearchInv, Unrelated, Shortest, [Next]_vars PROVE Shortest' /\ Unrelated'
  OBVIOUS
<1>0. TypeInv
  BY DEF SearchInv
<1>1. CASE Start
  BY <1>0, <1>1, StartShortest, SameLinks DEF Start
<1>2. CASE Visit
  BY <1>2, VisitShortest, SameLinks DEF Visit
<1>3. CASE Exhausted
  BY <1>3, ExhaustedShortest, SameLinks DEF Exhausted
<1>4. CASE TryHop
  BY <1>4, TryHopShortest, SameLinks DEF TryHop
<1>5. CASE Expanded
  BY <1>5, ExpandedShortest, SameLinks DEF Expanded
<1>6. CASE Trace
  BY <1>6, TraceShortest, SameLinks DEF Trace
<1>7. CASE UNCHANGED vars
  <2>1. UNCHANGED <<theorem, specialization, workque, predecessors, current, hop, path, hops, pc>>
    BY <1>7 DEF vars, search
  <2>2. \A d, m, k : Layers(d, m, k)' = Layers(d, m, k)
    BY <2>1, SameMet DEF Layers, Expanding
  <2>3. Tried' = Tried
    BY <2>1, SameMet, SameTheorem DEF Tried
  <2> QED
    BY <2>1, <2>2, <2>3, SameMet, SameLinks DEF Shortest
<1> QED
  BY <1>1, <1>2, <1>3, <1>4, <1>5, <1>6, <1>7 DEF Next

(* If hops between the instances as they stand already connect the two     *)
(* sides, a proof is found, and it is not longer than that.                *)
THEOREM ProofsAreShortest == Spec => []FindsShortest
<1> DEFINE I == Unrelated => Shortest
<1>1. Init => I
  BY InitShortest
<1>2. SearchInv /\ I /\ [Next]_vars => I'
  <2>1. SUFFICES ASSUME SearchInv, I, [Next]_vars, Unrelated' PROVE Shortest'
    OBVIOUS
  <2>2. theorem' = theorem
    BY <2>1 DEF Next, Start, Visit, Exhausted, TryHop, Expanded, Trace, vars
  <2>3. Unrelated
    BY <2>1, <2>2, SameLinks
  <2> QED
    BY <2>1, <2>3, ShortestStep
<1>3. I => FindsShortest
  <2>1. SUFFICES ASSUME I, pc \in {"proof", "none"}, Unrelated, NEW n \in 0..Len(theorem.hops),
                        Given(theorem.right) \in Near(n)
                 PROVE  pc = "proof" /\ Len(hops) <= n
    BY DEF FindsShortest, Near, Links
  <2>2. n \in Nat
    OBVIOUS
  <2> QED
    BY <2>1, <2>2 DEF Shortest
<1> QED
  BY <1>1, <1>2, <1>3, SearchInvariant, PTL DEF Spec
=============================================================================
