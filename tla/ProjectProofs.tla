----------------------------- MODULE ProjectProofs -----------------------------
(***************************************************************************)
(* Proofs about Project: whatever the files, the command lines and the     *)
(* verdicts of the prover are, a game that was read has all its wires, a   *)
(* theorem that was read has the instances of its hybrid arguments, and a  *)
(* proof that succeeds has confirmed what it was asked for.  How types,    *)
(* expressions and code are read, rewritten and compared is arbitrary      *)
(* here: nothing proved depends on it.                                     *)
(***************************************************************************)
EXTENDS ProofRules, RecursionProofs, SequenceTheorems

(* Lists are sequences of anything.                                        *)
LEMMA ListFacts ==
  ASSUME NEW s, IsList(s)
  PROVE  /\ Len(s) \in Nat
         /\ DOMAIN s = 1..Len(s)
         /\ \A n \in DOMAIN s : s[n] \in Range(s)
<1>1. Len(s) \in Nat /\ DOMAIN s = 1..Len(s)
  BY DEF IsList
<1> QED
  BY <1>1 DEF Range

LEMMA SeqIsList ==
  ASSUME NEW V, NEW s \in Seq(V)
  PROVE  IsList(s)
<1>1. s \in [1..Len(s) -> Range(s)] /\ Len(s) \in Nat
  BY DEF Range
<1> QED
  BY <1>1 DEF IsList

LEMMA FunctionIsSeq ==
  ASSUME NEW V, NEW k \in Nat, NEW s \in [1..k -> V]
  PROVE  s \in Seq(V) /\ Len(s) = k
OBVIOUS

LEMMA FunctionIsList ==
  ASSUME NEW s, NEW k \in Nat, DOMAIN s = 1..k, s = [n \in 1..k |-> s[n]]
  PROVE  IsList(s) /\ Len(s) = k
<1>1. s \in [1..k -> Range(s)]
  BY DEF Range
<1>2. s \in Seq(Range(s))
  BY <1>1
<1> QED
  BY <1>2 DEF IsList

(* Two lists are sequences over one set.                                   *)
LEMMA ListConcat ==
  ASSUME NEW s, NEW t, IsList(s), IsList(t)
  PROVE  /\ IsList(s \o t)
         /\ Len(s \o t) = Len(s) + Len(t)
         /\ \A n \in 1..(Len(s) + Len(t)) :
               (s \o t)[n] = IF n <= Len(s) THEN s[n] ELSE t[n - Len(s)]
<1> DEFINE V == Range(s) \union Range(t)
<1>1. s \in Seq(V) /\ t \in Seq(V)
  <2>1. s \in Seq(Range(s)) /\ Range(s) \subseteq V
    BY DEF IsList
  <2>2. t \in Seq(Range(t)) /\ Range(t) \subseteq V
    BY DEF IsList
  <2> HIDE DEF V
  <2> QED
    BY <2>1, <2>2, SeqMonotonic
<1> HIDE DEF V
<1>2. s \o t \in Seq(V)
  BY <1>1, ConcatProperties
<1> QED
  BY <1>1, <1>2, ConcatProperties, SeqIsList

LEMMA ListAppend ==
  ASSUME NEW s, NEW x, IsList(s)
  PROVE  /\ IsList(Append(s, x))
         /\ Len(Append(s, x)) = Len(s) + 1
         /\ \A n \in 1..Len(s) : Append(s, x)[n] = s[n]
         /\ Append(s, x)[Len(s) + 1] = x
<1> DEFINE V == Range(s) \union {x}
<1>1. s \in Seq(V) /\ x \in V
  <2>1. s \in Seq(Range(s)) /\ Range(s) \subseteq V
    BY DEF IsList
  <2>2. x \in V
    OBVIOUS
  <2> HIDE DEF V
  <2> QED
    BY <2>1, <2>2, SeqMonotonic
<1> HIDE DEF V
<1>2. Append(s, x) \in Seq(V)
  BY <1>1, AppendProperties
<1>3. IsList(Append(s, x))
  BY <1>2, SeqIsList
<1>4. Len(Append(s, x)) = Len(s) + 1
  BY <1>1, AppendProperties
<1>5. \A n \in 1..Len(s) : Append(s, x)[n] = s[n]
  BY <1>1, AppendProperties
<1>6. Append(s, x)[Len(s) + 1] = x
  BY <1>1, AppendProperties
<1> QED
  BY <1>3, <1>4, <1>5, <1>6

-----------------------------------------------------------------------------
(* What FlattenSeq adds up.                                                *)
Flattens(f, ss) ==
  f[0] = <<>> /\ \A n \in Nat : n < Len(ss) => f[n + 1] = f[n] \o ss[n + 1]

LEMMA ListsAreFlattened ==
  ASSUME NEW V, NEW ss \in Seq(Seq(V))
  PROVE  \E f \in [Nat -> Seq(V)] : Flattens(f, ss) /\ FlattenSeq(ss) = f[Len(ss)]
<1> DEFINE joins == [n \in Nat |-> [x \in Seq(V) |-> IF n < Len(ss) THEN x \o ss[n + 1] ELSE x]]
<1>1. Len(ss) \in Nat /\ \A n \in Nat : n < Len(ss) => ss[n + 1] \in Seq(V)
  OBVIOUS
<1>2. joins \in [Nat -> [Seq(V) -> Seq(V)]] /\ <<>> \in Seq(V)
  <2>1. ASSUME NEW n \in Nat, NEW x \in Seq(V)
        PROVE  (IF n < Len(ss) THEN x \o ss[n + 1] ELSE x) \in Seq(V)
    BY <1>1, ConcatProperties
  <2> QED
    BY <2>1
<1>3. PICK f : IteratesFrom(f, Seq(V), <<>>, joins)
  <2> HIDE DEF joins
  <2> QED
    BY <1>2, Iterates
<1>4. f \in [Nat -> Seq(V)] /\ Flattens(f, ss)
  BY <1>3 DEF IteratesFrom, Flattens
<1>5. FlattenSeq(ss) = f[Len(ss)]
  <2>1. CASE Len(ss) = 0
    BY <1>4, <2>1, EmptySeq DEF FlattenSeq, Flattens
  <2>2. CASE Len(ss) # 0
    <3> DEFINE Is(flatten) == flatten = [i \in 1..Len(ss) |-> IF i = 1 THEN ss[i] ELSE flatten[i-1] \o ss[i]]
               b == CHOOSE flatten : Is(flatten)
               g == [n \in 1..Len(ss) |-> f[n]]
    <3>1. f[1] = ss[1]
      <4>1. 0 \in Nat /\ 0 < Len(ss) /\ 0 + 1 = 1
        BY <1>1, <2>2
      <4>2. f[1] = <<>> \o ss[1] /\ ss[1] \in Seq(V)
        BY <1>1, <1>4, <4>1 DEF Flattens
      <4> QED
        BY <4>2, ConcatEmptySeq
    <3>2. Is(g)
      <4> SUFFICES ASSUME NEW i \in 1..Len(ss)
                   PROVE  g[i] = IF i = 1 THEN ss[i] ELSE g[i - 1] \o ss[i]
        OBVIOUS
      <4>1. CASE i = 1
        BY <3>1, <4>1
      <4>2. CASE i # 1
        <5>1. i - 1 \in Nat /\ i - 1 < Len(ss) /\ i - 1 \in 1..Len(ss) /\ (i - 1) + 1 = i
          BY <1>1, <4>2
        <5> QED
          BY <1>4, <4>2, <5>1 DEF Flattens
      <4> QED
        BY <4>1, <4>2
    <3>3. Is(b)
      <4> HIDE DEF Is
      <4> QED
        BY <3>2
    <3>4. FlattenSeq(ss) = b[Len(ss)]
      BY <2>2 DEF FlattenSeq
    <3> HIDE DEF b
    <3> DEFINE A == {n \in Nat : n >= 1 /\ n <= Len(ss) => b[n] = f[n]}
    <3>5. 0 \in A
      OBVIOUS
    <3>6. ASSUME NEW n \in Nat, n \in A
          PROVE  n + 1 \in A
      <4> SUFFICES ASSUME n + 1 <= Len(ss) PROVE b[n + 1] = f[n + 1]
        OBVIOUS
      <4>1. CASE n = 0
        BY <1>1, <2>2, <3>1, <3>3, <4>1
      <4>2. CASE n # 0
        <5>1. n + 1 \in 1..Len(ss) /\ n + 1 # 1 /\ (n + 1) - 1 = n /\ n < Len(ss) /\ n <= Len(ss) /\ n >= 1
          BY <1>1, <4>2
        <5>2. b[n + 1] = b[n] \o ss[n + 1]
          BY <3>3, <5>1
        <5> QED
          BY <1>4, <3>6, <5>1, <5>2 DEF Flattens
      <4> QED
        BY <4>1, <4>2
    <3>7. Nat \subseteq A
      <4> HIDE DEF A
      <4> QED
        BY <3>5, <3>6, NaturalInduction
    <3> QED
      BY <1>1, <2>2, <3>4, <3>7
  <2> QED
    BY <2>1, <2>2
<1> QED
  BY <1>4, <1>5

-----------------------------------------------------------------------------
(* The first pair of a name in a list of pairs.                            *)
FirstAt(s, c, n) == n \in PairsNamed(s, c) /\ \A o \in PairsNamed(s, c) : n <= o

LEMMA FirstExists ==
  ASSUME NEW s, NEW c, IsList(s), c \in Keys(s)
  PROVE  \E n \in DOMAIN s : FirstAt(s, c, n)
<1>1. PairsNamed(s, c) # {} /\ PairsNamed(s, c) \subseteq Nat /\ PairsNamed(s, c) \subseteq DOMAIN s
  BY ListFacts DEF PairsNamed, Keys
<1>2. \E n \in PairsNamed(s, c) : \A o \in PairsNamed(s, c) : n <= o
  BY <1>1, LeastElement
<1> QED
  BY <1>1, <1>2 DEF FirstAt

LEMMA FirstIs ==
  ASSUME NEW s, NEW c, NEW n, IsList(s), FirstAt(s, c, n)
  PROVE  FirstOf(s, c) = s[n][2] /\ c \in Keys(s)
<1> DEFINE k == CHOOSE k \in PairsNamed(s, c) : \A o \in PairsNamed(s, c) : k <= o
<1>1. k \in PairsNamed(s, c) /\ \A o \in PairsNamed(s, c) : k <= o
  BY DEF FirstAt
<1>2. FirstOf(s, c) = s[k][2]
  BY DEF FirstOf
<1>3. PairsNamed(s, c) \subseteq Nat /\ PairsNamed(s, c) \subseteq DOMAIN s
  BY ListFacts DEF PairsNamed
<1> HIDE DEF k
<1>4. k = n
  BY <1>1, <1>3 DEF FirstAt
<1>5. n \in DOMAIN s /\ s[n][1] = c
  BY DEF FirstAt, PairsNamed
<1> QED
  BY <1>2, <1>4, <1>5 DEF Keys

Joined(u, s, t, c) ==
  /\ c \in Keys(u) <=> c \in Keys(s) \/ c \in Keys(t)
  /\ c \in Keys(s) => FirstOf(u, c) = FirstOf(s, c)
  /\ c \notin Keys(s) /\ c \in Keys(t) => FirstOf(u, c) = FirstOf(t, c)

LEMMA FirstOfConcat ==
  ASSUME NEW s, NEW t, NEW c, IsList(s), IsList(t)
  PROVE  Joined(s \o t, s, t, c)
<1> DEFINE u == s \o t
           j == Len(s)
           k == Len(t)
<1>1. /\ IsList(u) /\ j \in Nat /\ k \in Nat
      /\ DOMAIN s = 1..j /\ DOMAIN t = 1..k /\ DOMAIN u = 1..(j + k)
      /\ \A n \in 1..(j + k) : u[n] = IF n <= j THEN s[n] ELSE t[n - j]
  BY ListFacts, ListConcat
<1> HIDE DEF u, j, k
<1>2. \A n \in 1..j : n \in 1..(j + k) /\ u[n] = s[n]
  BY <1>1
<1>3. \A n \in 1..k : n + j \in 1..(j + k) /\ u[n + j] = t[n] /\ ~(n + j <= j)
  BY <1>1
<1>4. \A n \in 1..(j + k) : n \in 1..j \/ (n - j \in 1..k /\ u[n] = t[n - j] /\ n = (n - j) + j)
  BY <1>1
<1>5. c \in Keys(s) \/ c \in Keys(t) => c \in Keys(u)
  <2>1. c \in Keys(s) => c \in Keys(u)
    BY <1>1, <1>2 DEF Keys
  <2>2. ASSUME NEW n \in 1..k, t[n][1] = c
        PROVE  c \in Keys(u)
    BY <1>1, <1>3, <2>2 DEF Keys
  <2> QED
    BY <1>1, <2>1, <2>2 DEF Keys
<1>6. c \in Keys(u) => c \in Keys(s) \/ c \in Keys(t)
  BY <1>1, <1>2, <1>4 DEF Keys
<1>7. ASSUME c \in Keys(s)
      PROVE  FirstOf(u, c) = FirstOf(s, c)
  <2>1. PICK n \in 1..j : FirstAt(s, c, n)
    BY <1>1, <1>7, FirstExists
  <2>2. s[n][1] = c /\ \A o \in 1..j : s[o][1] = c => n <= o
    BY <1>1, <2>1 DEF FirstAt, PairsNamed
  <2>3. ASSUME NEW o \in 1..(j + k), u[o][1] = c
        PROVE  n <= o
    <3>1. CASE o \in 1..j
      BY <1>2, <2>2, <2>3, <3>1
    <3>2. CASE o \notin 1..j
      BY <1>1, <3>2
    <3> QED
      BY <3>1, <3>2
  <2>4. FirstAt(u, c, n)
    BY <1>1, <1>2, <2>2, <2>3 DEF FirstAt, PairsNamed
  <2> QED
    BY <1>1, <1>2, <2>1, <2>4, FirstIs
<1>8. ASSUME c \notin Keys(s), c \in Keys(t)
      PROVE  FirstOf(u, c) = FirstOf(t, c)
  <2>1. PICK n \in 1..k : FirstAt(t, c, n)
    BY <1>1, <1>8, FirstExists
  <2>2. t[n][1] = c /\ \A o \in 1..k : t[o][1] = c => n <= o
    BY <1>1, <2>1 DEF FirstAt, PairsNamed
  <2>3. ASSUME NEW o \in 1..(j + k), u[o][1] = c
        PROVE  n + j <= o
    <3>1. CASE o \in 1..j
      BY <1>1, <1>2, <1>8, <2>3, <3>1 DEF Keys
    <3>2. CASE o \notin 1..j
      <4>1. o - j \in 1..k /\ t[o - j][1] = c
        BY <1>4, <2>3, <3>2
      <4>2. n <= o - j
        BY <2>2, <4>1
      <4> QED
        BY <1>1, <4>2
    <3> QED
      BY <3>1, <3>2
  <2>4. FirstAt(u, c, n + j)
    BY <1>1, <1>3, <2>2, <2>3 DEF FirstAt, PairsNamed
  <2> QED
    BY <1>1, <1>3, <2>1, <2>4, FirstIs
<1> QED
  BY <1>5, <1>6, <1>7, <1>8 DEF u, Joined

(* Selected keeps the first pair of each of the names, and nothing else.   *)
LEMMA SelectedPairs ==
  ASSUME NEW s, NEW names, IsList(s)
  PROVE  /\ IsList(Selected(s, names))
         /\ Keys(Selected(s, names)) = Keys(s) \intersect names
         /\ \A c \in Keys(s) \intersect names : FirstOf(Selected(s, names), c) = FirstOf(s, c)
<1> DEFINE V == Range(s)
           ss == [n \in DOMAIN s |-> IF s[n][1] \in names THEN <<s[n]>> ELSE <<>>]
<1>1. Len(s) \in Nat /\ DOMAIN s = 1..Len(s) /\ \A n \in DOMAIN s : s[n] \in V
  BY ListFacts
<1>2. ss \in Seq(Seq(V)) /\ Len(ss) = Len(s) /\ DOMAIN ss = 1..Len(s)
  <2> HIDE DEF V
  <2>1. \A n \in 1..Len(s) : (IF s[n][1] \in names THEN <<s[n]>> ELSE <<>>) \in Seq(V)
    BY <1>1
  <2>2. ss \in [1..Len(s) -> Seq(V)]
    BY <1>1, <2>1
  <2> HIDE DEF ss
  <2> QED
    BY <1>1, <2>2
<1>3. \A n \in 1..Len(s) : ss[n] = IF s[n][1] \in names THEN <<s[n]>> ELSE <<>>
  BY <1>1
<1> HIDE DEF ss, V
<1>4. PICK f \in [Nat -> Seq(V)] : Flattens(f, ss) /\ FlattenSeq(ss) = f[Len(ss)]
  BY <1>2, ListsAreFlattened
<1> DEFINE Agrees(n) == \A c \in names :
                 /\ (\E k \in 1..n : s[k][1] = c) => c \in Keys(f[n])
                 /\ \A k \in 1..n : s[k][1] = c /\ (\A o \in 1..n : s[o][1] = c => k <= o) =>
                       FirstOf(f[n], c) = s[k][2]
           Within(n) == \A c \in Keys(f[n]) : c \in names /\ \E k \in 1..n : s[k][1] = c
           A == {n \in Nat : n <= Len(s) => Agrees(n) /\ Within(n)}
<1>5. 0 \in A
  BY <1>4 DEF Flattens, Keys
<1>6. ASSUME NEW n \in Nat, n \in A
      PROVE  n + 1 \in A
  <2> HIDE DEF Agrees, Within
  <2> SUFFICES ASSUME n + 1 <= Len(s) PROVE Agrees(n + 1) /\ Within(n + 1)
    OBVIOUS
  <2>1. n < Len(s) /\ n <= Len(s) /\ n + 1 \in 1..Len(s)
    BY <1>1
  <2>0. n + 1 \in 1..(n + 1) /\ \A k \in 1..n : k \in 1..(n + 1) /\ ~(n + 1 <= k)
    OBVIOUS
  <2>2. Agrees(n) /\ Within(n)
    BY <1>6, <2>1
  <2> USE DEF Agrees, Within
  <2>3. f[n + 1] = f[n] \o ss[n + 1]
    BY <1>2, <1>4, <2>1 DEF Flattens
  <2>4. IsList(f[n])
    BY SeqIsList
  <2>5. \A k \in 1..(n + 1) : k \in 1..n \/ k = n + 1
    OBVIOUS
  <2>6. CASE s[n + 1][1] \notin names
    <3>1. f[n + 1] = f[n]
      <4>1. ss[n + 1] = <<>> /\ f[n] \in Seq(V)
        BY <1>3, <2>1, <2>6
      <4> QED
        BY <2>3, <4>1, ConcatEmptySeq
    <3>2. Within(n + 1)
      BY <2>0, <2>2, <3>1
    <3>3. ASSUME NEW c \in names
          PROVE  /\ (\E k \in 1..(n + 1) : s[k][1] = c) => c \in Keys(f[n + 1])
                 /\ \A k \in 1..(n + 1) :
                       s[k][1] = c /\ (\A o \in 1..(n + 1) : s[o][1] = c => k <= o) =>
                         FirstOf(f[n + 1], c) = s[k][2]
      <4>1. \A k \in 1..(n + 1) : s[k][1] = c => k \in 1..n
        BY <2>5, <2>6
      <4>2. (\E k \in 1..(n + 1) : s[k][1] = c) => c \in Keys(f[n])
        BY <2>2, <4>1
      <4>3. ASSUME NEW k \in 1..(n + 1), s[k][1] = c, \A o \in 1..(n + 1) : s[o][1] = c => k <= o
            PROVE  FirstOf(f[n], c) = s[k][2]
        <5>1. k \in 1..n
          BY <4>1, <4>3
        <5>2. \A o \in 1..n : s[o][1] = c => k <= o
          BY <2>0, <4>3
        <5> QED
          BY <2>2, <4>3, <5>1, <5>2
      <4> QED
        BY <3>1, <4>2, <4>3
    <3> QED
      BY <3>2, <3>3
  <2>7. CASE s[n + 1][1] \in names
    <3> DEFINE t == <<s[n + 1]>>
    <3>1. f[n + 1] = f[n] \o t
      BY <1>3, <2>1, <2>3, <2>7
    <3>2. IsList(t)
      <4>1. t \in Seq({s[n + 1]})
        OBVIOUS
      <4> QED
        BY <4>1, SeqIsList
    <3>3. FirstOf(t, s[n + 1][1]) = s[n + 1][2] /\ Keys(t) = {s[n + 1][1]}
      <4>0. DOMAIN t = {1} /\ t[1] = s[n + 1] /\ 1 <= 1
        OBVIOUS
      <4> HIDE DEF t
      <4>1. FirstAt(t, s[n + 1][1], 1) /\ t[1] = s[n + 1]
        BY <4>0 DEF FirstAt, PairsNamed
      <4>2. Keys(t) = {s[n + 1][1]}
        BY <4>0 DEF Keys
      <4> QED
        BY <3>2, <4>1, <4>2, FirstIs
    <3> HIDE DEF t
    <3>4. ASSUME NEW c
          PROVE  /\ c \in Keys(f[n + 1]) <=> c \in Keys(f[n]) \/ c = s[n + 1][1]
                 /\ c \in Keys(f[n]) => FirstOf(f[n + 1], c) = FirstOf(f[n], c)
                 /\ c \notin Keys(f[n]) /\ c = s[n + 1][1] => FirstOf(f[n + 1], c) = s[n + 1][2]
      <4>1. c \in Keys(t) <=> c = s[n + 1][1]
        BY <3>3
      <4>2. /\ c \in Keys(f[n + 1]) <=> c \in Keys(f[n]) \/ c \in Keys(t)
            /\ c \in Keys(f[n]) => FirstOf(f[n + 1], c) = FirstOf(f[n], c)
            /\ c \notin Keys(f[n]) /\ c \in Keys(t) => FirstOf(f[n + 1], c) = FirstOf(t, c)
        <5>1. Joined(f[n] \o t, f[n], t, c)
          BY <2>4, <3>2, FirstOfConcat
        <5> QED
          BY <3>1, <5>1 DEF Joined
      <4> QED
        BY <3>3, <4>1, <4>2
    <3>5. Within(n + 1)
      <4> SUFFICES ASSUME NEW c \in Keys(f[n + 1])
                   PROVE  c \in names /\ \E k \in 1..(n + 1) : s[k][1] = c
        OBVIOUS
      <4>1. CASE c \in Keys(f[n])
        BY <2>0, <2>2, <4>1
      <4>2. CASE c = s[n + 1][1]
        BY <2>0, <2>7, <4>2
      <4> QED
        BY <3>4, <4>1, <4>2
    <3>6. Agrees(n + 1)
      <4> SUFFICES ASSUME NEW c \in names
                   PROVE  /\ (\E k \in 1..(n + 1) : s[k][1] = c) => c \in Keys(f[n + 1])
                          /\ \A k \in 1..(n + 1) :
                                s[k][1] = c /\ (\A o \in 1..(n + 1) : s[o][1] = c => k <= o) =>
                                  FirstOf(f[n + 1], c) = s[k][2]
        OBVIOUS
      <4>1. (\E k \in 1..(n + 1) : s[k][1] = c) => c \in Keys(f[n + 1])
        BY <2>2, <2>5, <3>4
      <4>2. ASSUME NEW k \in 1..(n + 1), s[k][1] = c, \A o \in 1..(n + 1) : s[o][1] = c => k <= o
            PROVE  FirstOf(f[n + 1], c) = s[k][2]
        <5>1. CASE k \in 1..n
          <6>0. \A o \in 1..n : s[o][1] = c => k <= o
            BY <2>0, <4>2
          <6>1. c \in Keys(f[n]) /\ FirstOf(f[n], c) = s[k][2]
            BY <2>2, <4>2, <5>1, <6>0
          <6> QED
            BY <3>4, <6>1
        <5>2. CASE k = n + 1
          <6>1. \A o \in 1..n : s[o][1] # c
            BY <2>0, <4>2, <5>2
          <6>2. c \notin Keys(f[n])
            BY <2>2, <6>1
          <6> QED
            BY <3>4, <4>2, <5>2, <6>2
        <5> QED
          BY <2>5, <5>1, <5>2
      <4> QED
        BY <4>1, <4>2
    <3> QED
      BY <3>5, <3>6
  <2> QED
    BY <2>6, <2>7
<1>7. Agrees(Len(s)) /\ Within(Len(s))
  <2>1. Nat \subseteq A
    <3> HIDE DEF A
    <3> QED
      BY <1>5, <1>6, NaturalInduction
  <2> HIDE DEF Agrees, Within
  <2> QED
    BY <1>1, <2>1
<1>8. Selected(s, names) = f[Len(s)] /\ IsList(f[Len(s)])
  <2>1. Selected(s, names) = FlattenSeq(ss)
    BY DEF Selected, ss
  <2> QED
    BY <1>1, <1>2, <1>4, <2>1, SeqIsList
<1>9. ASSUME NEW c
      PROVE  c \in Keys(f[Len(s)]) <=> c \in Keys(s) /\ c \in names
  <2>1. c \in Keys(s) <=> \E k \in 1..Len(s) : s[k][1] = c
    BY <1>1 DEF Keys
  <2> QED
    BY <1>7, <2>1
<1>10. ASSUME NEW c \in Keys(s) \intersect names
       PROVE  FirstOf(f[Len(s)], c) = FirstOf(s, c)
  <2>1. PICK k \in 1..Len(s) : FirstAt(s, c, k)
    BY <1>1, FirstExists
  <2>2. s[k][1] = c /\ \A o \in 1..Len(s) : s[o][1] = c => k <= o
    BY <1>1, <2>1 DEF FirstAt, PairsNamed
  <2>3. FirstOf(f[Len(s)], c) = s[k][2]
    BY <1>7, <2>2
  <2> QED
    BY <2>1, <2>3, FirstIs
<1> QED
  BY <1>8, <1>9, <1>10

(* A single pair, and no pair at all.                                      *)
LEMMA SinglePair ==
  ASSUME NEW x
  PROVE  IsList(<<x>>) /\ Keys(<<x>>) = {x[1]} /\ FirstOf(<<x>>, x[1]) = x[2]
<1> DEFINE t == <<x>>
<1>1. DOMAIN t = {1} /\ t[1] = x /\ t \in Seq({x})
  OBVIOUS
<1> HIDE DEF t
<1>2. IsList(t)
  BY <1>1, SeqIsList
<1>3. FirstAt(t, x[1], 1)
  <2>1. PairsNamed(t, x[1]) = {1} /\ 1 <= 1
    BY <1>1 DEF PairsNamed
  <2> QED
    BY <2>1 DEF FirstAt
<1>4. Keys(t) = {x[1]}
  BY <1>1 DEF Keys
<1>5. FirstOf(t, x[1]) = x[2]
  BY <1>1, <1>2, <1>3, FirstIs
<1> QED
  BY <1>2, <1>4, <1>5 DEF t

LEMMA NoPair == IsList(<<>>) /\ Keys(<<>>) = {}
<1>1. <<>> \in Seq({}) /\ DOMAIN <<>> = {}
  OBVIOUS
<1>2. Keys(<<>>) = {}
  BY <1>1 DEF Keys
<1> QED
  BY <1>1, <1>2, SeqIsList

(* What patching the values of an instance makes of those it has.          *)
Patched(values, loop, bit, ideal, next, c) ==
  CASE c = loop -> NextIndex(FirstOf(values, loop), next)
    [] c # loop /\ c \in Range(bit) -> <<"bool", ideal, <<>>>>
    [] OTHER -> FirstOf(values, c)

LEMMA PatchedValues ==
  ASSUME NEW values, IsList(values), NEW loop, NEW bit, IsOptional(bit), loop \notin Range(bit),
         NEW ideal, NEW next, NEW c \in Keys(values)
  PROVE  FirstOf(PatchGameInstance(values, loop, bit, ideal, next), c)
           = Patched(values, loop, bit, ideal, next, c)
<1> DEFINE others == Selected(values, Keys(values) \ ({loop} \union Range(bit)))
           looped == <<loop, NextIndex(FirstOf(values, loop), next)>>
           bitted == <<bit[1], <<"bool", ideal, <<>>>>>>
           OfLoop == IF PairsNamed(values, loop) = {} THEN <<>> ELSE <<looped>>
           OfBit  == IF bit = <<>> \/ PairsNamed(values, bit[1]) = {} THEN <<>> ELSE <<bitted>>
<1>1. PatchGameInstance(values, loop, bit, ideal, next) = (others \o OfLoop) \o OfBit
  BY Zenon DEF PatchGameInstance
<1>2. \A d : PairsNamed(values, d) # {} <=> d \in Keys(values)
  BY DEF PairsNamed, Keys
<1>3. /\ IsList(others)
      /\ Keys(others) = Keys(values) \ ({loop} \union Range(bit))
      /\ c \in Keys(others) => FirstOf(others, c) = FirstOf(values, c)
  BY SelectedPairs
<1>4. /\ IsList(OfLoop)
      /\ Keys(OfLoop) = IF loop \in Keys(values) THEN {loop} ELSE {}
      /\ loop \in Keys(values) => FirstOf(OfLoop, loop) = NextIndex(FirstOf(values, loop), next)
  <2>1. looped[1] = loop /\ looped[2] = NextIndex(FirstOf(values, loop), next)
    OBVIOUS
  <2> HIDE DEF looped
  <2>2. CASE loop \in Keys(values)
    <3>1. OfLoop = <<looped>>
      BY <1>2, <2>2
    <3> QED
      BY <2>1, <2>2, <3>1, SinglePair
  <2>3. CASE loop \notin Keys(values)
    <3>1. OfLoop = <<>>
      BY <1>2, <2>3
    <3> QED
      BY <2>3, <3>1, NoPair
  <2> QED
    BY <2>2, <2>3
<1>5. bit = <<>> \/ Range(bit) = {bit[1]}
  <2>1. CASE bit = <<bit[1]>>
    <3> DEFINE b == bit[1]
    <3>1. bit = <<b>>
      BY <2>1
    <3> HIDE DEF b
    <3>2. Range(<<b>>) = {b}
      BY DEF Range
    <3> QED
      BY <3>1, <3>2 DEF b
  <2> QED
    BY <2>1 DEF IsOptional
<1>6. /\ IsList(OfBit)
      /\ Keys(OfBit) = Range(bit) \intersect Keys(values)
      /\ c \in Range(bit) => FirstOf(OfBit, c) = <<"bool", ideal, <<>>>>
  <2>1. bitted[1] = bit[1] /\ bitted[2] = <<"bool", ideal, <<>>>>
    OBVIOUS
  <2> HIDE DEF bitted
  <2>2. CASE bit = <<>>
    <3>1. OfBit = <<>> /\ Range(bit) = {}
      BY <2>2 DEF Range
    <3> QED
      BY <3>1, NoPair
  <2>3. CASE bit # <<>> /\ bit[1] \in Keys(values)
    <3>1. OfBit = <<bitted>>
      BY <1>2, <2>3
    <3> QED
      BY <1>5, <2>1, <2>3, <3>1, SinglePair
  <2>4. CASE bit # <<>> /\ bit[1] \notin Keys(values)
    <3>1. OfBit = <<>>
      BY <1>2, <2>4
    <3> QED
      BY <1>5, <2>4, <3>1, NoPair
  <2> QED
    BY <2>2, <2>3, <2>4
<1> HIDE DEF others, OfLoop, OfBit
<1> DEFINE first == others \o OfLoop
<1>7. IsList(first) /\ Joined(first, others, OfLoop, c)
  BY <1>3, <1>4, ListConcat, FirstOfConcat
<1>8. Joined(first \o OfBit, first, OfBit, c)
  BY <1>6, <1>7, FirstOfConcat
<1> HIDE DEF first
<1>9. FirstOf(first \o OfBit, c) = Patched(values, loop, bit, ideal, next, c)
  <2>1. CASE c = loop
    <3>1. c \notin Keys(others) /\ c \in Keys(OfLoop)
      BY <1>3, <1>4, <2>1
    <3>2. FirstOf(first, c) = NextIndex(FirstOf(values, loop), next) /\ c \in Keys(first)
      BY <1>4, <1>7, <2>1, <3>1 DEF Joined
    <3> QED
      BY <1>8, <2>1, <3>2 DEF Joined, Patched
  <2>2. CASE c # loop /\ c \in Range(bit)
    <3>1. c \notin Keys(others) /\ c \notin Keys(OfLoop) /\ c \in Keys(OfBit)
      BY <1>3, <1>4, <1>6, <2>2
    <3>2. c \notin Keys(first)
      BY <1>7, <3>1 DEF Joined
    <3> QED
      BY <1>6, <1>8, <2>2, <3>1, <3>2 DEF Joined, Patched
  <2>3. CASE c # loop /\ c \notin Range(bit)
    <3>1. c \in Keys(others)
      BY <1>3, <2>3
    <3>2. FirstOf(first, c) = FirstOf(values, c) /\ c \in Keys(first)
      BY <1>3, <1>7, <3>1 DEF Joined
    <3> QED
      BY <1>8, <2>3, <3>2 DEF Joined, Patched
  <2> QED
    BY <2>1, <2>2, <2>3
<1> QED
  BY <1>1, <1>9 DEF first

-----------------------------------------------------------------------------
LEMMA ResultFields ==
  /\ Error.err # "" /\ Panic.err # ""
  /\ \A ty, e : Resolved(ty, e).err = "" /\ Resolved(ty, e).e = e
BY DEF Error, Panic, Resolved

LEMMA ResultIs ==
  ASSUME NEW r, NEW e, r = Resolved(Empty, e)
  PROVE  r.err = "" /\ r.e = e
BY ResultFields

(* A failure of any makes a result that is one.                            *)
Results(rs, k) == k \in Nat /\ DOMAIN rs = 1..k

LEMMA FirstFailureFails ==
  ASSUME NEW rs, NEW k, Results(rs, k), Failures(rs) # {}
  PROVE  FirstFailure(rs).err # ""
<1>1. Failures(rs) \subseteq Nat
  <2>1. 1..k \subseteq Nat
    BY DEF Results
  <2> QED
    BY <2>1 DEF Failures, Results
<1>2. \E n \in Failures(rs) : \A o \in Failures(rs) : n <= o
  BY <1>1, LeastElement
<1> DEFINE n == CHOOSE n \in Failures(rs) : \A o \in Failures(rs) : n <= o
<1>3. n \in Failures(rs) /\ FirstFailure(rs) = rs[n]
  <2>1. n \in Failures(rs)
    BY <1>2
  <2> QED
    BY <2>1 DEF FirstFailure
<1> QED
  BY <1>3 DEF Failures

(* A result is a list of values if it is no failure.                       *)
Listed(r) == r.err = "" => IsList(r.e)

LEMMA NothingIsListed == Listed(Resolved(Empty, <<>>))
BY NoPair, ResultFields DEF Listed

LEMMA CompleteIsListed ==
  ASSUME NEW decls, NEW defs, NEW values, NEW k, IsList(defs), Results(values, k)
  PROVE  Listed(Complete(decls, defs, values))
<1> DEFINE pairs == [n \in DOMAIN defs |-> <<defs[n][1], values[n].e>>]
<1>1. IsList(pairs)
  <2>1. Len(defs) \in Nat /\ DOMAIN defs = 1..Len(defs)
    BY ListFacts
  <2>2. DOMAIN pairs = 1..Len(defs) /\ pairs = [n \in 1..Len(defs) |-> pairs[n]]
    BY <2>1
  <2> HIDE DEF pairs
  <2> QED
    BY <2>1, <2>2, FunctionIsList
<1> HIDE DEF pairs
<1>2. CASE Failures(values) # {}
  <2>1. Complete(decls, defs, values) = FirstFailure(values)
    BY <1>2 DEF Complete
  <2> QED
    BY <1>2, <2>1, FirstFailureFails DEF Listed
<1>3. CASE Failures(values) = {}
  <2>1. Complete(decls, defs, values) \in {Error, Resolved(Empty, pairs)}
    BY <1>3 DEF Complete, pairs
  <2>2. Listed(Error)
    BY ResultFields DEF Listed
  <2>3. Listed(Resolved(Empty, pairs))
    BY <1>1, ResultFields DEF Listed
  <2> QED
    BY <2>1, <2>2, <2>3
<1> QED
  BY <1>2, <1>3

LEMMA ConcatResults ==
  ASSUME NEW r, NEW s, NEW t, NEW k \in Nat, NEW n \in Nat,
         r = s \o t, DOMAIN s = 1..k, DOMAIN t = 1..n,
         s = [i \in 1..k |-> s[i]], t = [i \in 1..n |-> t[i]]
  PROVE  Results(r, k + n)
<1>1. IsList(s) /\ Len(s) = k /\ IsList(t) /\ Len(t) = n
  BY FunctionIsList
<1>2. IsList(r) /\ Len(r) = k + n
  BY <1>1, ListConcat
<1> QED
  BY <1>2, ListFacts DEF Results

LEMMA FullDefsAreListed ==
  ASSUME NEW where, NEW decls, NEW list, IsList(list)
  PROVE  Listed(HandleFullDefs(where, "game", decls, list))
<1> DEFINE ints == Selected(list, IntNames(decls))
           others == Selected(list, Keys(list) \ IntNames(decls))
           intValues == [n \in DOMAIN ints |-> ReadInteger(where, ints[n][2])]
           early == {n \in DOMAIN intValues : intValues[n] = Panic \/ ("game" = "game" /\ intValues[n].err # "")}
           which == CHOOSE n \in early : \A o \in early : n <= o
<1>1. HandleFullDefs(where, "game", decls, list)
        = IF early # {} THEN intValues[which]
          ELSE HandleOtherParams(where, "game", decls, ints, others, intValues)
  BY Zenon DEF HandleFullDefs, HandleParamsWithInts
<1>2. IsList(ints) /\ IsList(others)
  BY SelectedPairs
<1>3. /\ Len(ints) \in Nat /\ DOMAIN ints = 1..Len(ints)
      /\ Len(others) \in Nat /\ DOMAIN others = 1..Len(others)
  BY <1>2, ListFacts
<1> HIDE DEF ints, others
<1>4. CASE early # {}
  <2>1. early \subseteq Nat
    <3>1. DOMAIN intValues = DOMAIN ints /\ 1..Len(ints) \subseteq Nat
      BY <1>3
    <3> HIDE DEF intValues
    <3> QED
      BY <1>3, <3>1
  <2> HIDE DEF early
  <2>2. \E n \in early : \A o \in early : n <= o
    BY <1>4, <2>1, LeastElement
  <2>3. which \in early
    BY <2>2
  <2> HIDE DEF which, intValues
  <2>4. intValues[which].err # ""
    BY <2>3, ResultFields DEF early
  <2> QED
    BY <1>1, <1>4, <2>4 DEF Listed
<1>5. CASE early = {}
  <2> HIDE DEF early, which, intValues
  <2> DEFINE Repeated(defs, n) == \E o \in 1..(n - 1) : defs[o][1] = defs[n][1]
             rules == [p \in Keys(ints) |->
                         LengthFor(FirstOf([n \in DOMAIN ints |-> <<ints[n][1], intValues[n]>>], p))]
             Other(n) ==
               IF others[n][1] \notin Keys(decls) THEN Error
               ELSE IF CannotReplace(rules, FirstOf(decls, others[n][1])) THEN Panic
               ELSE ReadParam(where, WithLengths("game", rules, FirstOf(decls, others[n][1])),
                              others[n], Repeated(others, n))
             IntParam(n) == IF intValues[n].err = "" /\ Repeated(ints, n) THEN Error ELSE intValues[n]
             s == [n \in DOMAIN ints |-> IntParam(n)]
             t == [n \in DOMAIN others |-> Other(n)]
  <2>1. HandleOtherParams(where, "game", decls, ints, others, intValues) = Complete(decls, ints \o others, s \o t)
    BY Zenon DEF HandleOtherParams
  <2>2. Results(s \o t, Len(ints) + Len(others))
    <3> HIDE DEF Other, IntParam
    <3>1. DOMAIN s = 1..Len(ints) /\ s = [i \in 1..Len(ints) |-> s[i]]
      BY <1>3
    <3>2. DOMAIN t = 1..Len(others) /\ t = [i \in 1..Len(others) |-> t[i]]
      BY <1>3
    <3> HIDE DEF s, t
    <3> QED
      BY <1>3, <3>1, <3>2, ConcatResults
  <2> HIDE DEF s, t
  <2>3. IsList(ints \o others)
    BY <1>2, ListConcat
  <2>4. Listed(Complete(decls, ints \o others, s \o t))
    BY <2>2, <2>3, CompleteIsListed
  <2> QED
    BY <1>1, <1>5, <2>1, <2>4
<1> QED
  BY <1>4, <1>5

LEMMA ParamsAreListed ==
  ASSUME NEW where, NEW decls, NEW list, IsList(list)
  PROVE  Listed(HandleParamsDefList(where, "game", decls, list))
<1> DEFINE defs == [n \in DOMAIN list |-> WrittenOut(list[n])]
<1>1. IsList(defs)
  <2>1. Len(list) \in Nat /\ DOMAIN list = 1..Len(list)
    BY ListFacts
  <2>2. DOMAIN defs = 1..Len(list) /\ defs = [n \in 1..Len(list) |-> defs[n]]
    BY <2>1
  <2> HIDE DEF defs
  <2> QED
    BY <2>1, <2>2, FunctionIsList
<1>2. HandleParamsDefList(where, "game", decls, list) \in {Panic, HandleFullDefs(where, "game", decls, defs)}
  BY Zenon DEF HandleParamsDefList
<1> HIDE DEF defs
<1>3. Listed(Panic)
  BY ResultFields DEF Listed
<1>4. Listed(HandleFullDefs(where, "game", decls, defs))
  BY <1>1, FullDefsAreListed
<1> QED
  BY <1>2, <1>3, <1>4

(* The values of an instance are a list, and every constant of the game    *)
(* has one.                                                                *)
BlocksWritten(blocks) == IsList(blocks) /\ \A b \in Range(blocks) : b.b = "params" => IsList(b.list)

LEMMA EveryConstantHasValue ==
  ASSUME NEW where, NEW decls, NEW blocks, BlocksWritten(blocks), NEW v,
         v = HandleInstanceAssignList(where, "game", decls, blocks), v.err = ""
  PROVE  IsList(v.e) /\ Keys(decls) \subseteq Keys(v.e)
<1> DEFINE read == [n \in DOMAIN blocks |-> HandleAssignBlock(where, "game", decls, blocks[n])]
           ss == [n \in DOMAIN read |-> read[n].e]
<1>1. v = JoinBlocks(decls, read)
  BY Zenon DEF HandleInstanceAssignList
<1>2. Len(blocks) \in Nat /\ DOMAIN blocks = 1..Len(blocks)
  BY ListFacts DEF BlocksWritten
<1>3. ASSUME NEW n \in DOMAIN read
      PROVE  Listed(read[n])
  <2> DEFINE b == blocks[n]
  <2>1. b \in Range(blocks)
    BY DEF Range
  <2>2. read[n] = HandleAssignBlock(where, "game", decls, b)
    OBVIOUS
  <2>3. b.b = "params" => IsList(b.list)
    BY <2>1 DEF BlocksWritten
  <2> HIDE DEF b, read
  <2>4. "game" # "const"
    OBVIOUS
  <2>5. CASE b.b = "params" /\ b.list # <<>>
    <3>1. read[n] = HandleParamsDefList(where, "game", decls, b.list)
      BY <2>2, <2>5 DEF HandleAssignBlock
    <3> QED
      BY <2>3, <2>5, <3>1, ParamsAreListed
  <2>6. CASE ~(b.b = "params" /\ b.list # <<>>)
    <3>1. read[n] = Resolved(Empty, <<>>)
      BY <2>2, <2>4, <2>6 DEF HandleAssignBlock
    <3> QED
      BY <3>1, NothingIsListed
  <2> QED
    BY <2>5, <2>6
<1>4. Results(read, Len(blocks))
  BY <1>2 DEF Results
<1> HIDE DEF read
<1>5. Failures(read) = {} /\ v = AllAssigned(decls, FlattenSeq(ss))
  <2>1. CASE Failures(read) # {}
    <3>1. v = FirstFailure(read)
      BY <1>1, <2>1 DEF JoinBlocks
    <3> QED
      BY <1>4, <2>1, <3>1, FirstFailureFails
  <2>2. CASE Failures(read) = {}
    BY <1>1, <2>2 DEF JoinBlocks
  <2> QED
    BY <2>1, <2>2
<1>6. Keys(decls) \subseteq Keys(FlattenSeq(ss)) /\ v.e = FlattenSeq(ss)
  <2>1. CASE Keys(decls) \ Keys(FlattenSeq(ss)) # {}
    <3>1. v = Error
      BY <1>5, <2>1 DEF AllAssigned
    <3> QED
      BY <3>1, ResultFields
  <2>2. CASE Keys(decls) \ Keys(FlattenSeq(ss)) = {}
    <3>1. v = Resolved(Empty, FlattenSeq(ss))
      BY <1>5, <2>2 DEF AllAssigned
    <3> QED
      BY <2>2, <3>1, ResultFields
  <2> QED
    BY <2>1, <2>2
<1>7. IsList(FlattenSeq(ss))
  <2> DEFINE V == UNION {Range(ss[n]) : n \in DOMAIN read}
  <2>1. ASSUME NEW n \in DOMAIN read
        PROVE  ss[n] \in Seq(V)
    <3>1. IsList(ss[n])
      BY <1>3, <1>5 DEF Listed, Failures
    <3>2. Range(ss[n]) \subseteq V
      OBVIOUS
    <3> HIDE DEF ss, V
    <3> QED
      BY <3>1, <3>2, SeqMonotonic DEF IsList
  <2> HIDE DEF V
  <2>2. ss \in Seq(Seq(V)) /\ Len(ss) \in Nat
    <3>1. DOMAIN ss = 1..Len(blocks) /\ ss = [n \in 1..Len(blocks) |-> ss[n]]
      BY <1>4 DEF Results
    <3>2. \A n \in 1..Len(blocks) : ss[n] \in Seq(V)
      BY <1>4, <2>1 DEF Results
    <3> HIDE DEF ss
    <3>3. ss \in [1..Len(blocks) -> Seq(V)]
      BY <3>1, <3>2
    <3>4. ss \in Seq(Seq(V)) /\ Len(ss) = Len(blocks)
      BY <1>2, <3>3, FunctionIsSeq
    <3> QED
      BY <1>2, <3>4
  <2> HIDE DEF ss
  <2>3. PICK f \in [Nat -> Seq(V)] : FlattenSeq(ss) = f[Len(ss)]
    BY <2>2, ListsAreFlattened
  <2>4. f[Len(ss)] \in Seq(V)
    BY <2>2, <2>3
  <2> QED
    BY <2>3, <2>4, SeqIsList
<1> QED
  BY <1>6, <1>7

-----------------------------------------------------------------------------
(* The context of a theorem: no two instances have the same name, and the  *)
(* trees of a hop that is proved have a claim of every name needed.        *)
ScopeOK(s) == s = [entries |-> s.entries, types |-> s.types] /\ IsList(s.entries)
TreesFit(trees) ==
  IsList(trees) /\ \A n \in DOMAIN trees : TargetClaims \subseteq {claim.name : claim \in trees[n].claims}
HopFits(hop) == IsProved(hop) => TreesFit(hop.trees)
Shape(c) ==
  c = [name |-> c.name, scope |-> c.scope, types |-> c.types, consts |-> c.consts,
       insts |-> c.insts, hops |-> c.hops, err |-> c.err]
UniqueNames(insts) == \A n, m \in DOMAIN insts : insts[n].name = insts[m].name => n = m
CtxOK(c) ==
  /\ Shape(c) /\ ScopeOK(c.scope)
  /\ IsList(c.insts) /\ UniqueNames(c.insts)
  /\ IsList(c.hops) /\ \A n \in DOMAIN c.hops : HopFits(c.hops[n])

(* What a handler may make of a context: nothing is lost.                  *)
Keeps(c, d) ==
  /\ CtxOK(d)
  /\ \A n \in DOMAIN c.insts : n \in DOMAIN d.insts /\ d.insts[n] = c.insts[n]

LEMMA KeepsIsTransitive ==
  ASSUME NEW a, NEW b, NEW c, Keeps(a, b), Keeps(b, c)
  PROVE  Keeps(a, c)
BY DEF Keeps

LEMMA FailKeeps ==
  ASSUME NEW c, CtxOK(c), NEW e
  PROVE  Keeps(c, Fail(c, e)) /\ Fail(c, e).err = e /\ Fail(c, e).scope = c.scope
<1> DEFINE d == Fail(c, e)
<1>1. d = [name |-> c.name, scope |-> c.scope, types |-> c.types, consts |-> c.consts,
           insts |-> c.insts, hops |-> c.hops, err |-> e]
  BY DEF Fail, CtxOK, Shape
<1> HIDE DEF d
<1>2. /\ d.name = c.name /\ d.scope = c.scope /\ d.types = c.types /\ d.consts = c.consts
      /\ d.insts = c.insts /\ d.hops = c.hops /\ d.err = e
  BY <1>1
<1>3. Shape(d)
  BY <1>1, <1>2 DEF Shape
<1> QED
  BY <1>2, <1>3 DEF Keeps, CtxOK, d

ScopeSet(c, s, k, d) ==
  d \in {[c EXCEPT !.scope = s], [c EXCEPT !.scope = s, !.consts = k], [c EXCEPT !.consts = k, !.scope = s]}
InstanceSet(c, s, inst, d) == d = [c EXCEPT !.scope = s, !.insts = Append(@, inst)]
Stays(c, s, d) == Keeps(c, d) /\ d.err = c.err /\ d.scope = s
Gains(c, inst, d) == Keeps(c, d) /\ d.err = c.err /\ \E n \in DOMAIN d.insts : d.insts[n] = inst

LEMMA ScopeKeeps ==
  ASSUME NEW c, CtxOK(c), NEW s, ScopeOK(s), NEW k, NEW d, ScopeSet(c, s, k, d)
  PROVE  Stays(c, s, d)
<1>1. PICK l : d = [name |-> c.name, scope |-> s, types |-> c.types, consts |-> l,
                    insts |-> c.insts, hops |-> c.hops, err |-> c.err]
  BY DEF CtxOK, Shape, ScopeSet
<1>2. /\ d.name = c.name /\ d.scope = s /\ d.types = c.types /\ d.consts = l
      /\ d.insts = c.insts /\ d.hops = c.hops /\ d.err = c.err
  BY <1>1
<1>3. Shape(d)
  BY <1>1, <1>2 DEF Shape
<1> QED
  BY <1>2, <1>3 DEF Keeps, CtxOK, Stays

LEMMA InstancesKeep ==
  ASSUME NEW c, CtxOK(c), NEW s, ScopeOK(s), NEW inst, GameInstances(c, inst.name) = {}, NEW d,
         InstanceSet(c, s, inst, d)
  PROVE  Gains(c, inst, d)
<1> DEFINE k == Len(c.insts)
<1>1. d = [name |-> c.name, scope |-> s, types |-> c.types, consts |-> c.consts,
           insts |-> Append(c.insts, inst), hops |-> c.hops, err |-> c.err]
  BY DEF CtxOK, Shape, InstanceSet
<1>2. /\ d.name = c.name /\ d.scope = s /\ d.types = c.types /\ d.consts = c.consts
      /\ d.insts = Append(c.insts, inst) /\ d.hops = c.hops /\ d.err = c.err
  BY <1>1
<1>3. Shape(d)
  BY <1>1, <1>2 DEF Shape
<1>4. /\ IsList(d.insts) /\ Len(d.insts) = k + 1
      /\ \A n \in 1..k : d.insts[n] = c.insts[n]
      /\ d.insts[k + 1] = inst
  BY <1>2, ListAppend DEF CtxOK
<1>5. k \in Nat /\ DOMAIN c.insts = 1..k /\ DOMAIN d.insts = 1..(k + 1)
  BY <1>4, ListFacts DEF CtxOK
<1> HIDE DEF k
<1>6. \A n \in 1..(k + 1) : n \in 1..k \/ n = k + 1
  BY <1>5
<1>7. \A n \in 1..k : n \in 1..(k + 1) /\ c.insts[n].name # inst.name
  BY <1>5 DEF GameInstances
<1>8. UniqueNames(d.insts)
  <2> SUFFICES ASSUME NEW n \in 1..(k + 1), NEW m \in 1..(k + 1), d.insts[n].name = d.insts[m].name
               PROVE  n = m
    BY <1>5 DEF UniqueNames
  <2>1. CASE n \in 1..k /\ m \in 1..k
    BY <1>4, <1>5, <2>1 DEF CtxOK, UniqueNames
  <2>2. CASE n = k + 1 \/ m = k + 1
    BY <1>4, <1>6, <1>7, <2>2
  <2> QED
    BY <1>6, <2>1, <2>2
<1>9. CtxOK(d)
  BY <1>2, <1>3, <1>4, <1>8 DEF CtxOK
<1>10. k + 1 \in DOMAIN d.insts
  BY <1>5
<1> QED
  BY <1>2, <1>4, <1>5, <1>7, <1>9, <1>10 DEF Keeps, Gains

-----------------------------------------------------------------------------
(* Scopes.                                                                 *)
LEMMA DeclareFacts ==
  ASSUME NEW s, ScopeOK(s), NEW id, NEW decl
  PROVE  /\ ScopeOK(Declare(s, id, decl))
         /\ Len(Declare(s, id, decl).entries) = Len(s.entries)
         /\ Len(s.entries) > 0 => Declared(Declare(s, id, decl), id)
<1> DEFINE d == Declare(s, id, decl)
           k == Len(s.entries)
           table == [n \in DOMAIN s.entries[k] \union {id} |-> IF n = id THEN decl ELSE s.entries[k][n]]
           entries == [s.entries EXCEPT ![k] = table]
<1>1. k \in Nat /\ DOMAIN s.entries = 1..k
  BY ListFacts DEF ScopeOK
<1>2. d = [entries |-> entries, types |-> s.types \union {decl}]
  BY DEF Declare
<1>3. DOMAIN entries = 1..k /\ entries = [n \in 1..k |-> entries[n]] /\ (k > 0 => entries[k] = table)
  <2> HIDE DEF table
  <2>1. s.entries = [n \in 1..k |-> s.entries[n]]
    BY <1>1 DEF ScopeOK, IsList
  <2> HIDE DEF k
  <2> QED
    BY <1>1, <2>1
<1>4. id \in DOMAIN table
  OBVIOUS
<1> HIDE DEF entries, table, d
<1>5. IsList(entries) /\ Len(entries) = k
  BY <1>1, <1>3, FunctionIsList
<1>6. d.entries = entries /\ ScopeOK(d)
  BY <1>2, <1>5 DEF ScopeOK
<1>7. ASSUME k > 0
      PROVE  Declared(d, id)
  <2>1. k \in 1..k
    BY <1>1, <1>7
  <2>2. k \in Tables(d, id)
    BY <1>3, <1>4, <1>6, <1>7, <2>1 DEF Tables
  <2> QED
    BY <2>2 DEF Declared
<1> QED
  BY <1>5, <1>6, <1>7 DEF d

LEMMA EnterFacts ==
  ASSUME NEW s, ScopeOK(s)
  PROVE  ScopeOK(Enter(s)) /\ Len(Enter(s).entries) > 0
<1> DEFINE entries == Append(s.entries, <<>>)
<1>1. IsList(entries) /\ Len(entries) = Len(s.entries) + 1 /\ Len(s.entries) \in Nat
  BY ListAppend, ListFacts DEF ScopeOK
<1>2. Enter(s) = [entries |-> entries, types |-> s.types]
  BY DEF Enter, ScopeOK
<1> HIDE DEF entries
<1> QED
  BY <1>1, <1>2 DEF ScopeOK

LEMMA LeaveFacts ==
  ASSUME NEW s, ScopeOK(s)
  PROVE  ScopeOK(Leave(s))
<1> DEFINE entries == Front(s.entries)
<1>1. IsList(entries)
  <2> DEFINE V == Range(s.entries)
  <2>1. s.entries \in Seq(V)
    BY DEF ScopeOK, IsList
  <2> HIDE DEF V
  <2>2. SubSeq(s.entries, 1, Len(s.entries) - 1) \in Seq(V)
    BY <2>1
  <2> QED
    BY <2>2, SeqIsList DEF Front
<1>2. Leave(s) = [entries |-> entries, types |-> s.types]
  BY DEF Leave, ScopeOK
<1> HIDE DEF entries
<1> QED
  BY <1>1, <1>2 DEF ScopeOK

-----------------------------------------------------------------------------
(* Instances by name.                                                      *)
Has(c, name, values) ==
  \E n \in DOMAIN c.insts : c.insts[n].name = name /\ c.insts[n].values = values

LEMMA InstanceHad ==
  ASSUME NEW c, CtxOK(c), NEW name, NEW values, Has(c, name, values)
  PROVE  GameInstances(c, name) # {} /\ InstanceOf(c, name).values = values
<1>1. PICK n \in DOMAIN c.insts : c.insts[n].name = name /\ c.insts[n].values = values
  BY DEF Has
<1>2. GameInstances(c, name) = {n}
  BY <1>1 DEF GameInstances, CtxOK, UniqueNames
<1>3. (CHOOSE m \in GameInstances(c, name) : TRUE) = n
  BY <1>2
<1> QED
  BY <1>1, <1>2, <1>3 DEF InstanceOf

LEMMA InstanceKept ==
  ASSUME NEW c, NEW d, NEW name, CtxOK(c), Keeps(c, d), GameInstances(c, name) # {}
  PROVE  GameInstances(d, name) # {} /\ InstanceOf(d, name) = InstanceOf(c, name)
<1>1. PICK n \in DOMAIN c.insts : c.insts[n].name = name
  BY DEF GameInstances
<1>2. n \in DOMAIN d.insts /\ d.insts[n] = c.insts[n]
  BY <1>1 DEF Keeps
<1>3. GameInstances(c, name) = {n}
  BY <1>1 DEF GameInstances, CtxOK, UniqueNames
<1>4. GameInstances(d, name) = {n}
  BY <1>1, <1>2 DEF GameInstances, Keeps, CtxOK, UniqueNames
<1> QED
  BY <1>2, <1>3, <1>4 DEF InstanceOf

LEMMA SidesKept ==
  ASSUME NEW c, NEW d, NEW h, CtxOK(c), Keeps(c, d), SidesFit(c, h)
  PROVE  SidesFit(d, h)
<1>1. ASSUME NEW name \in {FalseSide(h.name), NextSide(h.name), TrueSide(h.name)}
      PROVE  GameInstances(d, name) # {} /\ InstanceOf(d, name) = InstanceOf(c, name)
  <2>1. GameInstances(c, name) # {}
    BY DEF SidesFit
  <2> QED
    BY <2>1, InstanceKept
<1>2. /\ InstanceOf(d, FalseSide(h.name)) = InstanceOf(c, FalseSide(h.name))
      /\ InstanceOf(d, NextSide(h.name)) = InstanceOf(c, NextSide(h.name))
      /\ InstanceOf(d, TrueSide(h.name)) = InstanceOf(c, TrueSide(h.name))
  BY <1>1
<1> QED
  BY <1>1, <1>2 DEF SidesFit

-----------------------------------------------------------------------------
(* The handlers.                                                           *)
LEMMA KeepsIsReflexive ==
  ASSUME NEW c, CtxOK(c)
  PROVE  Keeps(c, c)
BY DEF Keeps

LEMMA ConstKeeps ==
  ASSUME NEW c, CtxOK(c), NEW spec
  PROVE  Keeps(c, HandleTheoremConst(c, spec))
<1> DEFINE r == ReadType(c, spec.ty)
           s == Declare(c.scope, spec.name, IdentDecl(TheoremConst(c, spec.name, r.ty)))
           k == c.consts \union {spec.name}
           d == HandleTheoremConst(c, spec)
<1>1. d \in {Fail(c, r.err), Fail(c, "error"), [c EXCEPT !.consts = k, !.scope = s]}
  BY DEF HandleTheoremConst
<1>2. ScopeOK(s)
  BY DeclareFacts DEF CtxOK
<1> HIDE DEF r, s, k, d
<1>3. Keeps(c, Fail(c, r.err)) /\ Keeps(c, Fail(c, "error"))
  BY FailKeeps
<1>4. ASSUME d = [c EXCEPT !.consts = k, !.scope = s]
      PROVE  Keeps(c, d)
  <2>1. ScopeSet(c, s, k, d)
    BY <1>4 DEF ScopeSet
  <2> QED
    BY <1>2, <2>1, ScopeKeeps DEF Stays
<1>5. Keeps(c, d)
  BY <1>1, <1>3, <1>4
<1> QED
  BY <1>5 DEF d

(* An instance is added, or the context has failed.                        *)
Adds(c, d, inst) ==
  Keeps(c, d) /\ (d.err = "" => c.err = "" /\ \E n \in DOMAIN d.insts : d.insts[n] = inst)

LEMMA InstanceIsAdded ==
  ASSUME NEW c, CtxOK(c), NEW inst
  PROVE  Adds(c, AddGameInstance(c, inst), inst)
<1> DEFINE s == Declare(c.scope, inst.name, InstanceDecl)
           d == AddGameInstance(c, inst)
<1>1. CASE c.err # ""
  <2>1. d = c
    BY <1>1 DEF AddGameInstance
  <2> QED
    BY <1>1, <2>1, KeepsIsReflexive DEF Adds
<1>2. CASE c.err = ""
  <2>1. \/ d = Fail(c, "error")
        \/ d = Fail(c, "panic")
        \/ GameInstances(c, inst.name) = {} /\ d = [c EXCEPT !.scope = s, !.insts = Append(@, inst)]
    BY <1>2 DEF AddGameInstance
  <2>2. ScopeOK(s)
    BY DeclareFacts DEF CtxOK
  <2> HIDE DEF d, s
  <2>3. ASSUME NEW e \in {"error", "panic"}, d = Fail(c, e)
        PROVE  Adds(c, d, inst)
    <3>1. Keeps(c, d) /\ d.err = e /\ e # ""
      BY <2>3, FailKeeps
    <3> QED
      BY <3>1 DEF Adds
  <2>4. ASSUME GameInstances(c, inst.name) = {}, d = [c EXCEPT !.scope = s, !.insts = Append(@, inst)]
        PROVE  Adds(c, d, inst)
    <3>1. InstanceSet(c, s, inst, d)
      BY <2>4 DEF InstanceSet
    <3>2. Gains(c, inst, d)
      BY <2>2, <2>4, <3>1, InstancesKeep
    <3> QED
      BY <1>2, <3>2 DEF Adds, Gains
  <2>5. Adds(c, d, inst)
    BY <2>1, <2>3, <2>4
  <2> QED
    BY <2>5 DEF d
<1> QED
  BY <1>1, <1>2

LEMMA InstanceDeclKeeps ==
  ASSUME NEW c, CtxOK(c), NEW g, NEW spec
  PROVE  Keeps(c, HandleGameInstanceDecl(c, g, spec))
<1> DEFINE values == HandleInstanceAssignList(c, "game", g[spec.game].consts, spec.blocks)
           inst == NewGameInstance(spec.name, g[spec.game], values.e)
           d == HandleGameInstanceDecl(c, g, spec)
<1>1. d \in {Fail(c, "error"), Fail(c, values.err), AddGameInstance(c, inst)}
  BY DEF HandleGameInstanceDecl, WithGameInstance
<1> HIDE DEF values, inst, d
<1>2. Keeps(c, Fail(c, values.err)) /\ Keeps(c, Fail(c, "error"))
  BY FailKeeps
<1>3. Keeps(c, AddGameInstance(c, inst))
  BY InstanceIsAdded DEF Adds
<1>4. Keeps(c, d)
  BY <1>1, <1>2, <1>3
<1> QED
  BY <1>4 DEF d

LEMMA HybridIsDeclared ==
  ASSUME NEW c, CtxOK(c), Len(c.scope.entries) > 0, NEW name, NEW const, NEW ty,
         NEW d, d = DeclareHybrid(c, name, const, ty)
  PROVE  /\ Keeps(c, d)
         /\ Len(d.scope.entries) > 0
         /\ d.err = "" => c.err = "" /\ MayDeclare(c.scope, name) /\ Declared(d.scope, name)
<1> DEFINE s == Declare(c.scope, name, IdentDecl(TheoremConst(c, const, ty)))
<1>1. ScopeOK(s) /\ Declared(s, name) /\ Len(s.entries) > 0
  BY DeclareFacts DEF CtxOK
<1>2. CASE c.err # ""
  <2>1. d = c
    BY <1>2 DEF DeclareHybrid
  <2> QED
    BY <1>2, <2>1, KeepsIsReflexive
<1>3. CASE c.err = "" /\ ~MayDeclare(c.scope, name)
  <2>1. d = Fail(c, "error")
    BY <1>3 DEF DeclareHybrid
  <2>2. Keeps(c, d) /\ d.err = "error" /\ d.scope = c.scope
    BY <2>1, FailKeeps
  <2> QED
    BY <2>2
<1>4. CASE c.err = "" /\ MayDeclare(c.scope, name)
  <2>1. d = [c EXCEPT !.scope = s]
    BY <1>4 DEF DeclareHybrid
  <2> HIDE DEF s
  <2>2. ScopeSet(c, s, {}, d)
    BY <2>1 DEF ScopeSet
  <2>3. Stays(c, s, d)
    BY <1>1, <2>2, ScopeKeeps
  <2> QED
    BY <1>1, <1>4, <2>3 DEF Stays
<1> QED
  BY <1>2, <1>3, <1>4

LEMMA HybridContextKeeps ==
  ASSUME NEW c, CtxOK(c), NEW loop, NEW bit, IsOptional(bit), NEW d, d = HybridContext(c, loop, bit)
  PROVE  Keeps(c, d) /\ (d.err = "" => loop \notin Range(bit))
<1> DEFINE s == Enter(c.scope)
           k == c.consts \union {"hybrid$loop"}
           entered == [c EXCEPT !.scope = s, !.consts = k]
           looped == DeclareHybrid(entered, loop, "hybrid$loop", Integer)
<1>1. d = IF bit = <<>> THEN looped ELSE DeclareHybrid(looped, bit[1], "hybrid$bit", Boolean)
  BY Zenon DEF HybridContext
<1>2. ScopeOK(s) /\ Len(s.entries) > 0
  BY EnterFacts DEF CtxOK
<1> HIDE DEF s, k
<1>3. Keeps(c, entered) /\ entered.scope = s
  <2>1. ScopeSet(c, s, k, entered)
    BY DEF ScopeSet
  <2> HIDE DEF entered
  <2> QED
    BY <1>2, <2>1, ScopeKeeps DEF Stays
<1> HIDE DEF entered
<1>4. /\ Keeps(entered, looped) /\ Len(looped.scope.entries) > 0
      /\ looped.err = "" => Declared(looped.scope, loop)
  <2>1. CtxOK(entered) /\ Len(entered.scope.entries) > 0
    BY <1>2, <1>3 DEF Keeps
  <2> QED
    BY <2>1, HybridIsDeclared
<1> HIDE DEF looped
<1>5. CASE bit = <<>>
  <2>1. Range(bit) = {}
    BY <1>5 DEF Range
  <2> QED
    BY <1>1, <1>3, <1>4, <1>5, <2>1, KeepsIsTransitive
<1>6. CASE bit # <<>>
  <2> DEFINE b == bit[1]
  <2>1. bit = <<b>>
    BY <1>6 DEF IsOptional
  <2> HIDE DEF b
  <2>2. Range(<<b>>) = {b}
    BY DEF Range
  <2>3. d = DeclareHybrid(looped, b, "hybrid$bit", Boolean)
    BY <1>1, <1>6 DEF b
  <2>4. CtxOK(looped)
    BY <1>4 DEF Keeps
  <2>5. Keeps(looped, d) /\ (d.err = "" => looped.err = "" /\ MayDeclare(looped.scope, b))
    BY <1>4, <2>3, <2>4, HybridIsDeclared
  <2>6. d.err = "" => b # loop
    BY <1>4, <2>5 DEF MayDeclare
  <2>7. Keeps(c, d)
    BY <1>3, <1>4, <2>5, KeepsIsTransitive
  <2> QED
    BY <2>1, <2>2, <2>6, <2>7
<1> QED
  BY <1>5, <1>6

(* One instance of a hybrid argument.                                      *)
SideAdded(c, d, values, name, patched) ==
  Keeps(c, d) /\ (d.err = "" => c.err = "" /\ values.err = "" /\ Has(d, name, patched))

LEMMA SideIsAdded ==
  ASSUME NEW c, CtxOK(c), NEW h, NEW g, NEW values, NEW name, NEW ideal, NEW next
  PROVE  SideAdded(c, AddSide(c, h, g, values, name, ideal, next), values, name,
                   PatchGameInstance(values.e, h.loop, h.bit, ideal, next))
<1> DEFINE patched == PatchGameInstance(values.e, h.loop, h.bit, ideal, next)
           inst == NewGameInstance(name, g, patched)
           d == AddSide(c, h, g, values, name, ideal, next)
<1>1. inst.name = name /\ inst.values = patched
  BY DEF NewGameInstance
<1>2. \/ c.err # "" /\ d = c
      \/ values.err # "" /\ d = Fail(c, values.err)
      \/ values.err = "" /\ d = AddGameInstance(c, inst)
  BY DEF AddSide
<1> SUFFICES SideAdded(c, d, values, name, patched)
  OBVIOUS
<1> HIDE DEF inst, patched, d
<1>3. CASE c.err # "" /\ d = c
  BY <1>3, KeepsIsReflexive DEF SideAdded
<1>4. CASE values.err # "" /\ d = Fail(c, values.err)
  <2>1. Keeps(c, d) /\ d.err # ""
    BY <1>4, FailKeeps
  <2> QED
    BY <2>1 DEF SideAdded
<1>5. CASE values.err = "" /\ d = AddGameInstance(c, inst)
  <2>1. Adds(c, d, inst)
    BY <1>5, InstanceIsAdded
  <2> QED
    BY <1>1, <1>5, <2>1 DEF Adds, SideAdded, Has
<1> QED
  BY <1>2, <1>3, <1>4, <1>5

LEMMA HasKept ==
  ASSUME NEW c, NEW d, NEW name, NEW values, Keeps(c, d), Has(c, name, values)
  PROVE  Has(d, name, values)
BY DEF Keeps, Has

(* What the values of the three instances have in common.                  *)
Agree(v, loop, bit, K) ==
  LET real  == PatchGameInstance(v, loop, bit, FALSE, FALSE)
      step  == PatchGameInstance(v, loop, bit, FALSE, TRUE)
      ideal == PatchGameInstance(v, loop, bit, TRUE, FALSE)
  IN  /\ \A c \in K \ {loop} : FirstOf(real, c) = FirstOf(step, c)
      /\ loop \in K => FirstOf(step, loop) = Add(One, FirstOf(real, loop))
      /\ {c \in K : FirstOf(real, c) # FirstOf(ideal, c)} = Range(bit) \intersect K

LEMMA SidesAgree ==
  ASSUME NEW v, IsList(v), NEW loop, NEW bit, IsOptional(bit), loop \notin Range(bit),
         NEW K, K \subseteq Keys(v)
  PROVE  Agree(v, loop, bit, K)
<1> DEFINE Value(ideal, next, c) == FirstOf(PatchGameInstance(v, loop, bit, ideal, next), c)
<1>1. ASSUME NEW ideal, NEW next, NEW c \in K
      PROVE  Value(ideal, next, c) = Patched(v, loop, bit, ideal, next, c)
  BY PatchedValues
<1> HIDE DEF Value
<1>2. ASSUME NEW ideal, NEW next, NEW c \in K
      PROVE  /\ c = loop => Value(ideal, next, c) = NextIndex(FirstOf(v, loop), next)
             /\ c # loop /\ c \in Range(bit) => Value(ideal, next, c) = <<"bool", ideal, <<>>>>
             /\ c # loop /\ c \notin Range(bit) => Value(ideal, next, c) = FirstOf(v, c)
  <2>1. Value(ideal, next, c) = Patched(v, loop, bit, ideal, next, c)
    BY <1>1
  <2>2. CASE c = loop
    BY <2>1, <2>2 DEF Patched
  <2>3. CASE c # loop /\ c \in Range(bit)
    BY <2>1, <2>3 DEF Patched
  <2>4. CASE c # loop /\ c \notin Range(bit)
    BY <2>1, <2>4 DEF Patched
  <2> QED
    BY <2>2, <2>3, <2>4
<1>3. \A c \in K \ {loop} : Value(FALSE, FALSE, c) = Value(FALSE, TRUE, c)
  BY <1>2
<1>4. loop \in K => Value(FALSE, TRUE, loop) = Add(One, Value(FALSE, FALSE, loop))
  BY <1>2 DEF NextIndex
<1>5. ASSUME NEW c \in K
      PROVE  Value(FALSE, FALSE, c) # Value(TRUE, FALSE, c) <=> c \in Range(bit)
  <2>1. CASE c = loop
    BY <1>2, <2>1 DEF NextIndex
  <2>2. CASE c # loop /\ c \in Range(bit)
    <3>1. <<"bool", TRUE, <<>>>> # <<"bool", FALSE, <<>>>>
      OBVIOUS
    <3>2. Value(FALSE, FALSE, c) = <<"bool", FALSE, <<>>>> /\ Value(TRUE, FALSE, c) = <<"bool", TRUE, <<>>>>
      BY <1>2, <2>2
    <3> QED
      BY <2>2, <3>1, <3>2
  <2>3. CASE c # loop /\ c \notin Range(bit)
    BY <1>2, <2>3
  <2> QED
    BY <2>1, <2>2, <2>3
<1>6. {c \in K : Value(FALSE, FALSE, c) # Value(TRUE, FALSE, c)} = Range(bit) \intersect K
  BY <1>5
<1> QED
  BY <1>3, <1>4, <1>6 DEF Value, Agree

HybridWritten(h) ==
  /\ IsOptional(h.bit) /\ IsList(h.sides) /\ Len(h.sides) \in {1, 2}
  /\ \A n \in DOMAIN h.sides : SideWritten(h.sides[n])

LEMMA HybridFits ==
  ASSUME NEW c, CtxOK(c), NEW h, HybridWritten(h), NEW d, d = HandleHybridInstances(c, games, h)
  PROVE  Keeps(c, d) /\ (d.err = "" => SidesFit(d, h))
<1> DEFINE entered == HybridContext(c, h.loop, h.bit)
           g == games[h.sides[1].game]
           o == games[Last(h.sides).game]
           values == ReadSide(entered, games, h.sides[1])
           real == AddSide(entered, h, g, values, FalseSide(h.name), FALSE, FALSE)
           step == AddSide(real, h, g, values, NextSide(h.name), FALSE, TRUE)
           right == IF Len(h.sides) = 1 THEN values ELSE ReadSide(step, games, h.sides[2])
           ideal == AddSide(step, h, o, right, TrueSide(h.name), TRUE, FALSE)
           Patch(v, i, n) == PatchGameInstance(v.e, h.loop, h.bit, i, n)
<1>1. d = IF ideal.err # "" THEN ideal ELSE [ideal EXCEPT !.scope = Leave(@)]
  BY Zenon DEF HandleHybridInstances
<1>2. Keeps(c, entered) /\ (entered.err = "" => h.loop \notin Range(h.bit))
  BY HybridContextKeeps DEF HybridWritten
<1>3. values.err = "" => /\ entered.err = ""
                         /\ values = HandleInstanceAssignList(entered, "game", g.consts, h.sides[1].blocks)
  BY ResultFields DEF ReadSide
<1> HIDE DEF entered, values, right, o
<1>4. SideAdded(entered, real, values, FalseSide(h.name), Patch(values, FALSE, FALSE))
  BY <1>2, SideIsAdded DEF Keeps
<1> HIDE DEF real
<1>5. SideAdded(real, step, values, NextSide(h.name), Patch(values, FALSE, TRUE))
  BY <1>4, SideIsAdded DEF Keeps, SideAdded
<1> HIDE DEF step
<1>6. SideAdded(step, ideal, right, TrueSide(h.name), Patch(right, TRUE, FALSE))
  BY <1>5, SideIsAdded DEF Keeps, SideAdded
<1> HIDE DEF ideal, g
<1>7. Keeps(ideal, d) /\ d.err = ideal.err
  <2>1. CtxOK(ideal)
    BY <1>6 DEF SideAdded, Keeps
  <2>2. CASE ideal.err # ""
    BY <1>1, <2>1, <2>2, KeepsIsReflexive
  <2>3. CASE ideal.err = ""
    <3> DEFINE s == Leave(ideal.scope)
    <3>1. ScopeOK(s)
      BY <2>1, LeaveFacts DEF CtxOK
    <3>2. d = [ideal EXCEPT !.scope = s]
      BY <1>1, <2>3
    <3> HIDE DEF s
    <3>3. ScopeSet(ideal, s, {}, d)
      BY <3>2 DEF ScopeSet
    <3> QED
      BY <2>1, <3>1, <3>3, ScopeKeeps DEF Stays
  <2> QED
    BY <2>2, <2>3
<1>8. Keeps(c, d)
  BY <1>2, <1>4, <1>5, <1>6, <1>7, KeepsIsTransitive DEF SideAdded
<1>9. ASSUME d.err = ""
      PROVE  SidesFit(d, h)
  <2>1. /\ ideal.err = "" /\ step.err = "" /\ real.err = "" /\ entered.err = "" /\ values.err = ""
        /\ Has(real, FalseSide(h.name), Patch(values, FALSE, FALSE))
        /\ Has(step, NextSide(h.name), Patch(values, FALSE, TRUE))
        /\ Has(ideal, TrueSide(h.name), Patch(right, TRUE, FALSE))
    BY <1>4, <1>5, <1>6, <1>7, <1>9 DEF SideAdded
  <2>2. Keeps(real, d) /\ Keeps(step, d) /\ Keeps(ideal, d) /\ CtxOK(d)
    BY <1>5, <1>6, <1>7, KeepsIsTransitive DEF SideAdded, Keeps
  <2> HIDE DEF Patch
  <2>3. /\ Has(d, FalseSide(h.name), Patch(values, FALSE, FALSE))
        /\ Has(d, NextSide(h.name), Patch(values, FALSE, TRUE))
        /\ Has(d, TrueSide(h.name), Patch(right, TRUE, FALSE))
    BY <2>1, <2>2, HasKept
  <2>4. /\ \A name \in {FalseSide(h.name), NextSide(h.name), TrueSide(h.name)} : GameInstances(d, name) # {}
        /\ InstanceOf(d, FalseSide(h.name)).values = Patch(values, FALSE, FALSE)
        /\ InstanceOf(d, NextSide(h.name)).values = Patch(values, FALSE, TRUE)
        /\ InstanceOf(d, TrueSide(h.name)).values = Patch(right, TRUE, FALSE)
    BY <2>2, <2>3, InstanceHad
  <2>5. IsList(values.e) /\ Keys(g.consts) \subseteq Keys(values.e)
    <3>1. 1 \in DOMAIN h.sides
      BY ListFacts DEF HybridWritten
    <3>2. BlocksWritten(h.sides[1].blocks)
      BY <3>1 DEF HybridWritten, SideWritten, BlocksWritten
    <3>3. values = HandleInstanceAssignList(entered, "game", g.consts, h.sides[1].blocks)
      BY <1>3, <2>1
    <3>4. values.err = ""
      BY <2>1
    <3> DEFINE K == g.consts
               B == h.sides[1].blocks
    <3>5. BlocksWritten(B) /\ values = HandleInstanceAssignList(entered, "game", K, B)
      BY <3>2, <3>3
    <3> HIDE DEF K, B
    <3>6. IsList(values.e) /\ Keys(K) \subseteq Keys(values.e)
      BY <3>4, <3>5, EveryConstantHasValue
    <3> QED
      BY <3>6 DEF K
  <2>6. Agree(values.e, h.loop, h.bit, Keys(g.consts))
    BY <1>2, <2>1, <2>5, SidesAgree DEF HybridWritten
  <2>7. Len(h.sides) = 1 => right = values
    BY DEF right
  <2> QED
    BY <2>4, <2>6, <2>7 DEF SidesFit, Agree, Patch, g
<1> QED
  BY <1>8, <1>9

-----------------------------------------------------------------------------
(* Hops.                                                                   *)
LEMMA HopWithTreesFits ==
  ASSUME NEW kind, NEW l, NEW k, NEW trees, TreesFit(trees) \/ kind \in {"conjecture", "reduction"}
  PROVE  HopFits(EquivalenceHop(kind, l, k, trees))
BY DEF EquivalenceHop, HopFits, IsProved

LEMMA TreeFields ==
  ASSUME NEW t, NEW o, NEW cs, t = [oracle |-> o, claims |-> cs]
  PROVE  t.claims = cs
OBVIOUS

LEMMA TreeHasTargets ==
  ASSUME NEW tree, NEW r, r = HandleEquivalenceOracle(tree), r.err = ""
  PROVE  TargetClaims \subseteq {claim.name : claim \in r.e.claims}
<1> DEFINE claims == Induction!WithDefaults(tree.claims)
<1>1. \A t \in TargetClaims : \E claim \in claims : claim.name = t
  <2> SUFFICES ASSUME NEW t \in TargetClaims
               PROVE  \E claim \in claims : claim.name = t
    OBVIOUS
  <2>1. CASE t \in Induction!Names(tree.claims)
    <3>1. PICK claim \in tree.claims : claim.name = t
      BY <2>1 DEF Induction!Names
    <3> QED
      BY <3>1 DEF Induction!WithDefaults
  <2>2. CASE t \notin Induction!Names(tree.claims)
    <3>1. PICK claim \in Induction!DefaultClaims : claim.name = t
      BY DEF TargetClaims, Induction!DefaultClaims
    <3> QED
      BY <2>2, <3>1 DEF Induction!WithDefaults
  <2> QED
    BY <2>1, <2>2
<1>2. r = Resolved(Empty, [oracle |-> tree.oracle, claims |-> claims])
  BY ResultFields DEF HandleEquivalenceOracle
<1> HIDE DEF claims
<1>3. r.e = [oracle |-> tree.oracle, claims |-> claims]
  BY <1>2, ResultIs
<1>4. r.e.claims = claims
  BY <1>3, TreeFields
<1> QED
  BY <1>1, <1>4

LEMMA EquivalenceFits ==
  ASSUME NEW c, NEW kind, NEW l, NEW k, NEW specs, IsList(specs),
         NEW r, r = HandleEquivalence(c, kind, l, k, specs), r.err = ""
  PROVE  HopFits(r.e)
<1> DEFINE read == [n \in DOMAIN specs |-> HandleEquivalenceOracle(specs[n])]
           trees == [n \in DOMAIN read |-> read[n].e]
<1>1. Failures(read) = {} /\ r = Resolved(Empty, EquivalenceHop(kind, l, k, trees))
  BY ResultFields DEF HandleEquivalence
<1>2. Len(specs) \in Nat /\ DOMAIN specs = 1..Len(specs)
  BY ListFacts
<1>3. ASSUME NEW n \in DOMAIN trees
      PROVE  TargetClaims \subseteq {claim.name : claim \in trees[n].claims}
  <2>1. read[n] = HandleEquivalenceOracle(specs[n]) /\ trees[n] = read[n].e /\ n \in DOMAIN read
    OBVIOUS
  <2>2. read[n].err = ""
    BY <1>1, <2>1 DEF Failures
  <2> HIDE DEF read, trees
  <2> QED
    BY <2>1, <2>2, TreeHasTargets
<1>4. IsList(trees)
  <2>1. DOMAIN trees = 1..Len(specs) /\ trees = [n \in 1..Len(specs) |-> trees[n]]
    BY <1>2
  <2> HIDE DEF trees
  <2> QED
    BY <1>2, <2>1, FunctionIsList
<1> HIDE DEF trees
<1>5. HopFits(EquivalenceHop(kind, l, k, trees))
  BY <1>3, <1>4, HopWithTreesFits DEF TreesFit
<1>6. r.e = EquivalenceHop(kind, l, k, trees)
  BY <1>1, ResultIs
<1> QED
  BY <1>5, <1>6

LEMMA HopIsRead ==
  ASSUME NEW c, NEW hop, HopWritten(hop), NEW r, r = HandleGameHop(c, hop), r.err = ""
  PROVE  HopFits(r.e)
<1>1. CASE hop.kind = "conjecture"
  <2>1. r = Resolved(Empty, EquivalenceHop("conjecture", hop.left, hop.right, <<>>))
    BY <1>1 DEF HandleGameHop
  <2>2. r.e = EquivalenceHop("conjecture", hop.left, hop.right, <<>>)
    BY <2>1, ResultIs
  <2> QED
    BY <2>2, HopWithTreesFits
<1>2. CASE hop.kind = "reduction"
  <2>1. r = Error \/ r = Resolved(Empty, EquivalenceHop("reduction", hop.left, hop.right, <<>>))
    BY <1>2 DEF HandleGameHop, HopWritten
  <2>2. r # Error
    BY ResultFields
  <2>3. r.e = EquivalenceHop("reduction", hop.left, hop.right, <<>>)
    BY <2>1, <2>2, ResultIs
  <2> QED
    BY <2>3, HopWithTreesFits
<1>3. CASE hop.kind = "equivalence"
  <2>1. r = HandleEquivalence(c, hop.kind, hop.left, hop.right, hop.trees)
    BY <1>3 DEF HandleGameHop
  <2> QED
    BY <1>3, <2>1, EquivalenceFits DEF HopWritten
<1>4. CASE hop.kind = "hybrid"
  <2>1. r = Error \/ r = HandleEquivalence(c, hop.kind, TrueSide(hop.name), NextSide(hop.name), hop.trees)
    BY <1>4 DEF HandleGameHop, HopWritten
  <2>2. r # Error
    BY ResultFields
  <2> QED
    BY <1>4, <2>1, <2>2, EquivalenceFits DEF HopWritten
<1> QED
  BY <1>1, <1>2, <1>3, <1>4 DEF HopWritten

LEMMA HopsKeep ==
  ASSUME NEW c, CtxOK(c), NEW hops, IsList(hops), \A n \in DOMAIN hops : HopWritten(hops[n])
  PROVE  Keeps(c, HandleGameHops(c, hops))
<1> DEFINE read == [n \in DOMAIN hops |-> HandleGameHop(c, hops[n])]
           new == [n \in DOMAIN read |-> read[n].e]
           d == HandleGameHops(c, hops)
           k == Len(c.hops)
           m == Len(hops)
<1> SUFFICES Keeps(c, d)
  OBVIOUS
<1>1. CASE Failures(read) # {}
  <2>1. d = Fail(c, "error")
    BY <1>1 DEF HandleGameHops
  <2> HIDE DEF d
  <2> QED
    BY <2>1, FailKeeps
<1>2. CASE Failures(read) = {}
  <2>1. d = [c EXCEPT !.hops = @ \o new]
    BY <1>2 DEF HandleGameHops
  <2>2. m \in Nat /\ DOMAIN hops = 1..m /\ k \in Nat /\ DOMAIN c.hops = 1..k
    BY ListFacts DEF CtxOK
  <2>3. ASSUME NEW n \in 1..m
        PROVE  HopFits(new[n])
    <3>1. read[n] = HandleGameHop(c, hops[n]) /\ new[n] = read[n].e /\ n \in DOMAIN read
      BY <2>2
    <3>2. read[n].err = ""
      BY <1>2, <3>1 DEF Failures
    <3>3. HopWritten(hops[n])
      BY <2>2
    <3> HIDE DEF read, new
    <3> QED
      BY <3>1, <3>2, <3>3, HopIsRead
  <2>4. IsList(new) /\ Len(new) = m
    <3>1. DOMAIN new = 1..m /\ new = [n \in 1..m |-> new[n]]
      BY <2>2
    <3> HIDE DEF new, m
    <3> QED
      BY <2>2, <3>1, FunctionIsList
  <2> HIDE DEF new, read, d, k, m
  <2> DEFINE all == c.hops \o new
  <2>5. /\ IsList(all) /\ DOMAIN all = 1..(k + m)
        /\ \A n \in 1..(k + m) : all[n] = IF n <= k THEN c.hops[n] ELSE new[n - k]
    BY <2>4, ListConcat, ListFacts DEF CtxOK, k
  <2> HIDE DEF all
  <2>6. ASSUME NEW n \in DOMAIN all
        PROVE  HopFits(all[n])
    <3>1. CASE n <= k
      <4>1. n \in DOMAIN c.hops /\ all[n] = c.hops[n]
        BY <2>2, <2>5, <3>1
      <4> QED
        BY <4>1 DEF CtxOK
    <3>2. CASE ~(n <= k)
      <4>1. n - k \in 1..m /\ all[n] = new[n - k]
        BY <2>2, <2>5, <3>2
      <4> QED
        BY <2>3, <4>1
    <3> QED
      BY <3>1, <3>2
  <2>7. d = [name |-> c.name, scope |-> c.scope, types |-> c.types, consts |-> c.consts,
             insts |-> c.insts, hops |-> all, err |-> c.err]
    BY <2>1 DEF CtxOK, Shape, all
  <2>8. /\ d.name = c.name /\ d.scope = c.scope /\ d.types = c.types /\ d.consts = c.consts
        /\ d.insts = c.insts /\ d.hops = all /\ d.err = c.err
    BY <2>7
  <2>9. Shape(d)
    BY <2>7, <2>8 DEF Shape
  <2> QED
    BY <2>5, <2>6, <2>8, <2>9 DEF Keeps, CtxOK
<1> QED
  BY <1>1, <1>2

LEMMA StatedKeeps ==
  ASSUME NEW c, CtxOK(c), NEW pairs
  PROVE  Keeps(c, HandleStated(c, pairs))
BY FailKeeps, KeepsIsReflexive DEF HandleStated

(* A block of a theorem's file.                                            *)
LEMMA BlockKeeps ==
  ASSUME NEW c, CtxOK(c), NEW b, BlockWritten(b), NEW d, d = HandleTheoremSpec(c, games, b)
  PROVE  Keeps(c, d) /\ (b.b = "hybrid" /\ d.err = "" => SidesFit(d, b))
<1>1. CASE b.b = "const"
  BY <1>1, ConstKeeps DEF HandleTheoremSpec
<1>2. CASE b.b = "instance"
  BY <1>2, InstanceDeclKeeps DEF HandleTheoremSpec
<1>3. CASE b.b = "hybrid"
  <2>1. d = HandleHybridInstances(c, games, b) /\ HybridWritten(b)
    BY <1>3 DEF HandleTheoremSpec, BlockWritten, HybridWritten
  <2> QED
    BY <2>1, HybridFits
<1>4. CASE b.b = "stated"
  BY <1>4, StatedKeeps DEF HandleTheoremSpec
<1>5. CASE b.b = "hops"
  BY <1>5, HopsKeep DEF HandleTheoremSpec, BlockWritten
<1> QED
  BY <1>1, <1>2, <1>3, <1>4, <1>5 DEF BlockWritten

LEMMA ContextAtStart ==
  ASSUME NEW name
  PROVE  CtxOK(TheoremContext(name)) /\ TheoremContext(name).err = ""
<1> DEFINE c == TheoremContext(name)
           s == Enter(EmptyScope)
<1>1. c = [name |-> name, scope |-> s, types |-> {}, consts |-> {}, insts |-> <<>>, hops |-> <<>>, err |-> ""]
  BY DEF TheoremContext
<1>2. ScopeOK(s)
  <2>1. ScopeOK(EmptyScope)
    BY NoPair DEF ScopeOK, EmptyScope
  <2> QED
    BY <2>1, EnterFacts
<1> HIDE DEF c, s
<1>3. /\ c.name = name /\ c.scope = s /\ c.types = {} /\ c.consts = {}
      /\ c.insts = <<>> /\ c.hops = <<>> /\ c.err = ""
  BY <1>1
<1>4. Shape(c)
  BY <1>1, <1>3 DEF Shape
<1>5. DOMAIN <<>> = {}
  OBVIOUS
<1> QED
  BY <1>2, <1>3, <1>4, <1>5, NoPair DEF CtxOK, UniqueNames, c

-----------------------------------------------------------------------------
(* The inductive invariant.  Where the reading of the files stands.        *)
Parsing == {"packages", "games", "theorems"}
Position ==
  /\ input \in Inputs /\ file \in Nat /\ block \in Nat
  /\ stage \in Parsing \union {"prove", "done"}
  /\ stage \in Parsing /\ block > 0 => file < Len(Files)
  /\ stage \in {"packages", "games"} => DOMAIN theorems = {}

(* The theorem that is being read has the sides of the hybrid arguments    *)
(* read so far, and keeps them.                                            *)
ContextFits ==
  stage = "theorems" /\ err = "" /\ block > 0 =>
    /\ block <= Len(Current.blocks)
    /\ CtxOK(ctx)
    /\ \A n \in 1..block : Current.blocks[n].b = "hybrid" => SidesFit(ctx, Current.blocks[n])
TheoremsFit == \A t \in DOMAIN theorems : CtxOK(theorems[t])
HybridsFit ==
  stage = "theorems" => \A t \in DOMAIN theorems : \A h \in HybridSpecs(t) : SidesFit(theorems[t], h)
ReadInv == Position /\ ContextFits /\ TheoremsFit /\ HybridsFit

(* Where the proof stands: of a hop that is behind, everything asked for   *)
(* is confirmed.                                                           *)
Proving == {"prove", "done"}
At(t, k) == current = <<t, k>>
Progress ==
  /\ stage \in Proving =>
       /\ command \in input.commands /\ left \subseteq DOMAIN theorems
       /\ current = Nobody \/ \E t \in DOMAIN theorems \ left : \E k \in 0..Len(theorems[t].hops) : At(t, k)
  /\ stage \in Parsing => current = Nobody
  /\ stage = "done" => current = Nobody /\ left = {} /\ err = ""
Behind(t, n) == t \notin left /\ \A k \in Nat : At(t, k) => n <= k
Earned(t, n) ==
  LET hop == theorems[t].hops[n]
  IN  IsProved(hop) /\ Asked(command.theorem, t) /\ Asked(command.hop, n - 1) =>
        /\ Prepare(theorems[t], hop) = ""
        /\ \A o \in Obligations(theorems[t], hop, command) : <<t, n - 1, o[1], o[2]>> \in proved
ProvedSoFar ==
  stage \in Proving /\ err = "" =>
    \A t \in DOMAIN theorems : \A n \in 1..Len(theorems[t].hops) : Behind(t, n) => Earned(t, n)
ProofInv == Progress /\ ProvedSoFar

LEMMA FilesAreListed ==
  ASSUME Position, stage \in Parsing
  PROVE  IsList(Files) /\ Len(Files) \in Nat
<1>1. IsList(Files)
  <2>1. IsList(input.files.packages) /\ IsList(input.files.games) /\ IsList(input.files.theorems)
    BY InputsAssumption DEF Position
  <2>2. stage \in {"packages", "games", "theorems"}
    BY DEF Parsing
  <2> QED
    BY <2>1, <2>2 DEF Files
<1> QED
  BY <1>1, ListFacts

LEMMA CurrentIsWritten ==
  ASSUME Position, Reading("theorems")
  PROVE  /\ Files = input.files.theorems /\ Current = input.files.theorems[file + 1]
         /\ IsList(Current.blocks) /\ Len(Current.blocks) \in Nat
         /\ DOMAIN Current.blocks = 1..Len(Current.blocks)
         /\ \A n \in DOMAIN Current.blocks : BlockWritten(Current.blocks[n])
<1>1. Files = input.files.theorems
  BY DEF Reading, Files
<1>2. IsList(Files) /\ Len(Files) \in Nat /\ stage = "theorems" /\ file < Len(Files) /\ file \in Nat
  BY FilesAreListed DEF Reading, Position, Parsing
<1>3. file + 1 \in DOMAIN Files
  BY <1>2, ListFacts
<1>4. Current \in Range(input.files.theorems)
  BY <1>1, <1>2, <1>3, ListFacts DEF Current
<1>5. IsList(Current.blocks) /\ \A n \in DOMAIN Current.blocks : BlockWritten(Current.blocks[n])
  BY <1>4, InputsAssumption DEF Position
<1> QED
  BY <1>1, <1>5, ListFacts DEF Current

LEMMA SidesOfTheSameGames ==
  ASSUME games' = games, NEW c, NEW h
  PROVE  SidesFit(c, h)' <=> SidesFit(c, h)
BY DEF SidesFit

LEMMA HybridsStay ==
  ASSUME HybridsFit, stage' = stage, input' = input, file' = file, games' = games, theorems' = theorems
  PROVE  HybridsFit'
<1>1. ASSUME NEW t \in DOMAIN theorems
      PROVE  HybridSpecs(t)' = HybridSpecs(t)
  BY DEF HybridSpecs, FileOf, FilesNamed, Files
<1>2. ASSUME stage = "theorems", NEW t \in DOMAIN theorems, NEW h \in HybridSpecs(t)
      PROVE  SidesFit(theorems[t], h)'
  <2>1. PICK c : c = theorems[t]
    OBVIOUS
  <2>2. SidesFit(c, h)
    BY <1>2, <2>1 DEF HybridsFit
  <2>3. SidesFit(c, h)'
    BY <2>2, SidesOfTheSameGames
  <2> QED
    BY <2>1, <2>3
<1> QED
  BY <1>1, <1>2 DEF HybridsFit

(* While the files are read no hop is behind.                              *)
LEMMA NothingIsBehindYet ==
  ASSUME stage' \in Parsing, current' = Nobody
  PROVE  ProofInv'
BY DEF ProofInv, Progress, ProvedSoFar, Parsing, Proving

LEMMA InitiallyRead ==
  ASSUME Init
  PROVE  ReadInv /\ ProofInv
<1>1. DOMAIN theorems = {}
  <2>1. theorems = <<>>
    BY DEF Init, Nothing
  <2>2. DOMAIN <<>> = {}
    OBVIOUS
  <2> QED
    BY <2>1, <2>2
<1>2. stage = "packages" /\ input \in Inputs /\ file = 0 /\ block = 0
  BY DEF Init
<1>3. Position
  BY <1>1, <1>2 DEF Position, Parsing
<1>4. ContextFits /\ TheoremsFit /\ HybridsFit
  BY <1>1, <1>2 DEF ContextFits, TheoremsFit, HybridsFit
<1>5. ProofInv
  BY DEF Init, ProofInv, Progress, ProvedSoFar, Parsing, Proving
<1> QED
  BY <1>3, <1>4, <1>5 DEF ReadInv

LEMMA PackagesAndGames ==
  ASSUME ReadInv, ProofInv,
         ReadPackageBlock \/ ReadGameBlock \/ FinishPackage \/ FinishGameFile
  PROVE  ReadInv' /\ ProofInv'
<1>1. /\ stage \in {"packages", "games"} /\ stage' = stage /\ input' = input /\ theorems' = theorems
      /\ current' = current /\ file < Len(Files)
      /\ (file' = file /\ block' = block + 1) \/ (file' = file + 1 /\ block' = 0)
  BY DEF ReadPackageBlock, ReadGameBlock, FinishPackage, FinishGameFile, ReadBlock, EndOfFile, Reading, NextFile
<1>2. Files' = Files /\ Len(Files) \in Nat /\ file \in Nat /\ block \in Nat
  BY <1>1, FilesAreListed DEF Files, ReadInv, Position, Parsing
<1>3. Position'
  BY <1>1, <1>2 DEF ReadInv, Position, Parsing
<1>4. ContextFits' /\ HybridsFit' /\ TheoremsFit'
  BY <1>1 DEF ReadInv, Position, ContextFits, HybridsFit, TheoremsFit
<1>5. ProofInv'
  BY <1>1, NothingIsBehindYet DEF ProofInv, Progress, Parsing
<1> QED
  BY <1>3, <1>4, <1>5 DEF ReadInv

(* The context of the file that is being read.                             *)
LEMMA ContextSoFar ==
  ASSUME ReadInv, Reading("theorems")
  PROVE  /\ CtxOK(Context) /\ block <= Len(Current.blocks)
         /\ \A n \in 1..block : Current.blocks[n].b = "hybrid" => SidesFit(Context, Current.blocks[n])
<1>1. CASE block = 0
  <2>1. Context = TheoremContext(Current.name)
    BY <1>1 DEF Context, Fresh, Reading
  <2>2. 0 <= Len(Current.blocks) /\ 1..block = {}
    BY <1>1, CurrentIsWritten DEF ReadInv
  <2> QED
    BY <1>1, <2>1, <2>2, ContextAtStart
<1>2. CASE block # 0
  <2>1. Context = ctx /\ block > 0
    BY <1>2 DEF Context, ReadInv, Position
  <2> QED
    BY <2>1 DEF ReadInv, ContextFits, Reading
<1> QED
  BY <1>1, <1>2

LEMMA TheoremBlock ==
  ASSUME ReadInv, ProofInv, ReadTheoremBlock
  PROVE  ReadInv' /\ ProofInv'
<1>1. /\ Reading("theorems") /\ stage = "theorems" /\ block < Len(Current.blocks)
      /\ ctx' = HandleTheoremSpec(Context, games, Block) /\ err' = ctx'.err /\ block' = block + 1
      /\ stage' = stage /\ input' = input /\ theorems' = theorems /\ file' = file
      /\ games' = games /\ current' = current /\ file < Len(Files)
  BY DEF ReadTheoremBlock, ReadBlock, Reading
<1>2. file \in Nat /\ block \in Nat /\ Files' = Files /\ Current' = Current
  BY <1>1 DEF ReadInv, Position, Files, Current
<1>3. Len(Files) \in Nat
  BY <1>1, FilesAreListed DEF ReadInv, Parsing
<1>4. Position'
  BY <1>1, <1>2, <1>3 DEF ReadInv, Position, Parsing
<1>5. ASSUME err' = ""
      PROVE  /\ block' <= Len(Current.blocks) /\ CtxOK(ctx')
             /\ \A n \in 1..block' : Current.blocks[n].b = "hybrid" => SidesFit(ctx, Current.blocks[n])'
  <2>1. PICK c : c = Context
    OBVIOUS
  <2>2. PICK d : d = ctx'
    OBVIOUS
  <2>3. PICK bs : bs = Current.blocks
    OBVIOUS
  <2>4. PICK k \in Nat : k = block
    BY <1>2
  <2>5. Len(bs) \in Nat /\ k < Len(bs) /\ DOMAIN bs = 1..Len(bs)
    BY <1>1, <2>3, <2>4, CurrentIsWritten DEF ReadInv
  <2>6. k + 1 \in 1..Len(bs) /\ block' = k + 1 /\ block' <= Len(bs)
    <3>1. \A m, l \in Nat : m < l => m + 1 \in 1..l /\ m + 1 <= l
      OBVIOUS
    <3>2. k + 1 \in 1..Len(bs) /\ k + 1 <= Len(bs)
      BY <2>4, <2>5, <3>1
    <3>3. block' = k + 1
      BY <1>1, <2>4
    <3> QED
      BY <3>2, <3>3
  <2>7. CtxOK(c) /\ \A n \in 1..k : bs[n].b = "hybrid" => SidesFit(c, bs[n])
    BY <1>1, <2>1, <2>3, <2>4, ContextSoFar
  <2>8. BlockWritten(bs[k + 1])
    BY <1>1, <2>3, <2>5, <2>6, CurrentIsWritten DEF ReadInv
  <2>9. d = HandleTheoremSpec(c, games, bs[k + 1]) /\ d.err = ""
    BY <1>1, <1>5, <2>1, <2>2, <2>3, <2>4 DEF Block
  <2>10. Keeps(c, d) /\ (bs[k + 1].b = "hybrid" => SidesFit(d, bs[k + 1]))
    BY <2>7, <2>8, <2>9, BlockKeeps
  <2>11. CtxOK(d)
    BY <2>10 DEF Keeps
  <2>12. ASSUME NEW n \in 1..(k + 1), bs[n].b = "hybrid"
         PROVE  SidesFit(d, bs[n])
    <3>1. CASE n = k + 1
      BY <2>10, <2>12, <3>1
    <3>2. CASE n \in 1..k
      BY <2>7, <2>10, <2>12, <3>2, SidesKept
    <3> QED
      BY <2>4, <2>12, <3>1, <3>2
  <2>13. ASSUME NEW n \in 1..(k + 1), bs[n].b = "hybrid"
         PROVE  SidesFit(ctx, Current.blocks[n])'
    <3>1. SidesFit(d, bs[n])'
      BY <1>1, <2>12, <2>13, SidesOfTheSameGames
    <3> QED
      BY <1>2, <2>2, <2>3, <3>1
  <2> QED
    BY <2>2, <2>3, <2>6, <2>11, <2>13
<1>6. ContextFits'
  BY <1>2, <1>5 DEF ContextFits
<1>7. TheoremsFit' /\ HybridsFit'
  BY <1>1, HybridsStay DEF ReadInv, TheoremsFit
<1>8. ProofInv'
  BY <1>1, NothingIsBehindYet DEF ProofInv, Progress, Parsing
<1> QED
  BY <1>4, <1>6, <1>7, <1>8 DEF ReadInv

-----------------------------------------------------------------------------
(* The file of a name once another file has been read.                     *)
LEMMA FileIsTheLast ==
  ASSUME file \in Nat, file' = file + 1, stage' = stage, input' = input, NEW name
  PROVE  FileOf(name)' = IF name = Current.name THEN Current ELSE FileOf(name)
<1>1. Files' = Files /\ Current = Files[file + 1]
  BY DEF Files, Current
<1>2. PICK fs : fs = Files
  OBVIOUS
<1> DEFINE F == {n \in 1..(file + 1) : fs[n].name = name}
<1>3. FilesNamed(name)' = F /\ FilesNamed(name) = {n \in 1..file : fs[n].name = name}
  BY <1>1, <1>2 DEF FilesNamed
<1>4. FileOf(name)' = fs[CHOOSE n \in F : \A o \in F : o <= n]
  BY <1>1, <1>2, <1>3 DEF FileOf
<1>5. CASE name = Current.name
  <2> DEFINE P(n) == n \in F /\ \A o \in F : o <= n
  <2>1. file + 1 \in F /\ \A n \in F : n \in Nat /\ n <= file + 1
    BY <1>1, <1>2, <1>5
  <2> HIDE DEF F
  <2>2. P(file + 1) /\ \A n : P(n) => n = file + 1
    BY <2>1
  <2> HIDE DEF P
  <2>3. (CHOOSE n : P(n)) = file + 1
    BY <2>2
  <2>4. (CHOOSE n \in F : \A o \in F : o <= n) = file + 1
    BY <2>3 DEF P
  <2> QED
    BY <1>1, <1>2, <1>4, <1>5, <2>4
<1>6. CASE name # Current.name
  <2>1. F = {n \in 1..file : fs[n].name = name}
    <3>1. 1..(file + 1) = (1..file) \union {file + 1}
      OBVIOUS
    <3> QED
      BY <1>1, <1>2, <1>6, <3>1
  <2> HIDE DEF F
  <2> QED
    BY <1>2, <1>3, <1>4, <1>6, <2>1 DEF FileOf
<1> QED
  BY <1>5, <1>6

LEMMA TheoremIsFinished ==
  ASSUME ReadInv, ProofInv, FinishTheorem
  PROVE  ReadInv' /\ ProofInv'
<1>1. /\ Reading("theorems") /\ stage = "theorems" /\ file < Len(Files)
      /\ block = Len(Current.blocks) /\ file' = file + 1 /\ block' = 0 /\ stage' = stage
      /\ theorems' = Inserted(theorems, Current.name, Context)
      /\ input' = input /\ games' = games /\ current' = current
  BY DEF FinishTheorem, EndOfFile, NextFile, Reading
<1>2. /\ file \in Nat /\ block \in Nat /\ Files = input.files.theorems
      /\ Current = input.files.theorems[file + 1]
  BY <1>1, CurrentIsWritten DEF ReadInv, Position
<1>3. PICK c : c = Context
  OBVIOUS
<1>4. PICK name : name = Current.name
  OBVIOUS
<1>5. PICK bs : bs = Current.blocks
  OBVIOUS
<1>6. CtxOK(c) /\ DOMAIN bs = 1..block
      /\ \A n \in 1..block : bs[n].b = "hybrid" => SidesFit(c, bs[n])
  BY <1>1, <1>3, <1>5, ContextSoFar, CurrentIsWritten DEF ReadInv
<1>7. /\ DOMAIN theorems' = DOMAIN theorems \union {name}
      /\ \A t \in DOMAIN theorems' : theorems'[t] = IF t = name THEN c ELSE theorems[t]
  BY <1>1, <1>3, <1>4 DEF Inserted
<1>8. Position'
  <2>1. stage \in Parsing
    BY <1>1 DEF Parsing
  <2>2. file' \in Nat /\ block' = 0 /\ stage' = stage /\ stage = "theorems" /\ input' = input
    BY <1>1, <1>2
  <2> QED
    BY <2>1, <2>2 DEF ReadInv, Position, Parsing
<1>9. ContextFits'
  <2>1. ~(block' > 0)
    BY <1>1
  <2> QED
    BY <2>1 DEF ContextFits
<1>10. TheoremsFit'
  BY <1>6, <1>7 DEF ReadInv, TheoremsFit
<1>11. HybridSpecs(name)' = {b \in Range(bs) : b.b = "hybrid"}
  <2>1. FileOf(name)' = Current
    BY <1>1, <1>2, <1>4, FileIsTheLast
  <2> QED
    BY <1>5, <2>1 DEF HybridSpecs
<1>12. ASSUME NEW t, t # name
       PROVE  HybridSpecs(t)' = HybridSpecs(t)
  <2>1. FileOf(t)' = FileOf(t)
    BY <1>1, <1>2, <1>4, <1>12, FileIsTheLast
  <2> QED
    BY <2>1 DEF HybridSpecs
<1>13. ASSUME NEW t \in DOMAIN theorems', NEW h \in HybridSpecs(t)'
       PROVE  SidesFit(theorems[t], h)'
  <2>1. PICK d : d = theorems'[t]
    OBVIOUS
  <2>2. CASE t = name
    <3>1. d = c /\ SidesFit(c, h)
      <4>1. PICK n \in DOMAIN bs : h = bs[n]
        BY <1>11, <2>2 DEF Range
      <4>2. h.b = "hybrid"
        BY <1>11, <2>2
      <4> QED
        BY <1>6, <1>7, <2>1, <2>2, <4>1, <4>2
    <3>2. SidesFit(d, h)'
      BY <1>1, <3>1, SidesOfTheSameGames
    <3> QED
      BY <2>1, <3>2
  <2>3. CASE t # name
    <3>1. d = theorems[t] /\ t \in DOMAIN theorems /\ h \in HybridSpecs(t)
      BY <1>7, <1>12, <2>1, <2>3
    <3>2. SidesFit(d, h)
      BY <1>1, <3>1 DEF ReadInv, HybridsFit
    <3>3. SidesFit(d, h)'
      BY <1>1, <3>2, SidesOfTheSameGames
    <3> QED
      BY <2>1, <3>3
  <2> QED
    BY <2>2, <2>3
<1>14. HybridsFit'
  BY <1>13 DEF HybridsFit
<1>15. ProofInv'
  BY <1>1, NothingIsBehindYet DEF ProofInv, Progress, Parsing
<1> QED
  BY <1>8, <1>9, <1>10, <1>14, <1>15 DEF ReadInv

(* What was read stays as it is while the hops are proved.                 *)
LEMMA NothingMoreIsRead ==
  ASSUME ReadInv, stage' \in Proving, input' = input, theorems' = theorems,
         file' \in Nat, block' \in Nat
  PROVE  ReadInv'
<1>1. stage' \notin Parsing /\ stage' \in Parsing \union {"prove", "done"}
  BY DEF Parsing, Proving
<1>2. Position'
  BY <1>1 DEF ReadInv, Position, Parsing
<1> QED
  BY <1>1, <1>2 DEF ReadInv, ContextFits, TheoremsFit, HybridsFit, Parsing

LEMMA StageIsRead ==
  ASSUME ReadInv, ProofInv, NextStage
  PROVE  ReadInv' /\ ProofInv'
<1>1. /\ stage \in Parsing /\ file = Len(Files) /\ file' = 0 /\ block' = block
      /\ input' = input /\ theorems' = theorems /\ current' = current
  BY DEF NextStage, Parsing
<1>2. block = 0
  <2>1. file \in Nat /\ ~(file < Len(Files))
    BY <1>1 DEF ReadInv, Position
  <2> QED
    BY <1>1, <2>1 DEF ReadInv, Position
<1>3. current' = Nobody
  BY <1>1 DEF ProofInv, Progress
<1>4. CASE stage # "theorems"
  <2>1. stage \in {"packages", "games"} /\ stage' \in {"games", "theorems"} /\ DOMAIN theorems = {}
    BY <1>1, <1>4 DEF NextStage, Parsing, ReadInv, Position
  <2>2. Position'
    BY <1>1, <1>2, <2>1 DEF ReadInv, Position, Parsing
  <2>3. ContextFits' /\ TheoremsFit' /\ HybridsFit'
    BY <1>1, <1>2, <2>1 DEF ContextFits, TheoremsFit, HybridsFit
  <2>4. ProofInv'
    BY <1>3, <2>1, NothingIsBehindYet DEF Parsing
  <2> QED
    BY <2>2, <2>3, <2>4 DEF ReadInv
<1>5. CASE stage = "theorems"
  <2>1. stage' = "prove" /\ left' = DOMAIN theorems' /\ command' \in input'.commands
    BY <1>1, <1>5 DEF NextStage
  <2>2. ReadInv'
    BY <1>1, <1>2, <2>1, NothingMoreIsRead DEF Proving
  <2>3. Progress'
    BY <1>3, <2>1 DEF Progress, Proving, Parsing
  <2>4. ProvedSoFar'
    BY <2>1 DEF ProvedSoFar, Behind
  <2> QED
    BY <2>2, <2>3, <2>4 DEF ProofInv
<1> QED
  BY <1>4, <1>5

-----------------------------------------------------------------------------
(* The proof of the hops.                                                  *)
LEMMA EarnedIsKept ==
  ASSUME theorems' = theorems, command' = command, proved \subseteq proved',
         NEW t, NEW n, Earned(t, n)
  PROVE  Earned(t, n)'
BY DEF Earned

(* What a step puts behind is earned.                                      *)
LastStep ==
  \A t \in DOMAIN theorems : \A n \in 1..Len(theorems[t].hops) :
     Behind(t, n)' => Behind(t, n) \/ Earned(t, n)'
Untouched == UNCHANGED <<input, command, file, block, theorems>>

LEMMA StepOfTheProof ==
  ASSUME ReadInv, ProofInv, stage \in Proving, err = "", Untouched, proved \subseteq proved',
         stage' \in Proving, Progress', err' = "" => LastStep
  PROVE  ReadInv' /\ ProofInv'
<1>1. ReadInv'
  BY NothingMoreIsRead DEF Untouched, ReadInv, Position
<1>2. ASSUME err' = "", NEW t \in DOMAIN theorems, NEW n \in 1..Len(theorems[t].hops), Behind(t, n)'
      PROVE  Earned(t, n)'
  <2>1. Behind(t, n) \/ Earned(t, n)'
    BY <1>2 DEF LastStep
  <2>2. Behind(t, n) => Earned(t, n)
    BY DEF ProofInv, ProvedSoFar
  <2> QED
    BY <2>1, <2>2, EarnedIsKept DEF Untouched
<1>3. ProvedSoFar'
  BY <1>2 DEF ProvedSoFar, Untouched
<1> QED
  BY <1>1, <1>3 DEF ProofInv

LEMMA Places ==
  /\ \A t, k : Nobody # <<t, k>>
  /\ \A t, k, u, l : <<t, k>> = <<u, l>> => t = u /\ k = l
  /\ \A t, k : <<t, k>>[1] = t /\ <<t, k>>[2] = k
  /\ \A t, k : [<<t, k>> EXCEPT ![2] = @ + 1] = <<t, k + 1>>
BY DEF Nobody

LEMMA HopsAreCounted ==
  ASSUME ReadInv, NEW t \in DOMAIN theorems
  PROVE  Len(theorems[t].hops) \in Nat
BY ListFacts DEF ReadInv, TheoremsFit, CtxOK

LEMMA TheoremIsStarted ==
  ASSUME ReadInv, ProofInv, StartTheorem
  PROVE  ReadInv' /\ ProofInv'
<1>1. /\ stage = "prove" /\ err = "" /\ current = Nobody /\ Untouched /\ proved' = proved /\ stage' = stage
      /\ err' = err
  BY DEF StartTheorem, Untouched
<1>2. PICK u \in left : current' = <<u, 0>> /\ left' = left \ {u}
  BY DEF StartTheorem
<1>3. Progress'
  <2>1. u \in DOMAIN theorems /\ Len(theorems[u].hops) \in Nat
    BY <1>1, HopsAreCounted DEF ProofInv, Progress, Proving
  <2>2. u \in DOMAIN theorems' \ left' /\ 0 \in 0..Len(theorems'[u].hops)
    <3>1. \A l \in Nat : 0 \in 0..l
      OBVIOUS
    <3>2. theorems' = theorems
      BY <1>1 DEF Untouched
    <3> QED
      BY <1>2, <2>1, <3>1, <3>2
  <2>3. command' \in input'.commands /\ left' \subseteq DOMAIN theorems' /\ stage' = "prove"
    BY <1>1, <1>2 DEF ProofInv, Progress, Proving, Untouched
  <2> QED
    BY <1>2, <2>2, <2>3 DEF Progress, Proving, Parsing, At
<1>4. LastStep
  <2> SUFFICES ASSUME NEW t \in DOMAIN theorems, NEW n \in 1..Len(theorems[t].hops), Behind(t, n)'
               PROVE  Behind(t, n)
    BY DEF LastStep
  <2>1. t # u
    BY <1>2 DEF Behind, At
  <2> QED
    BY <1>1, <1>2, <2>1, Places DEF Behind, At
<1> QED
  BY <1>1, <1>3, <1>4, StepOfTheProof DEF Proving

LEMMA PlaceInTheProof ==
  ASSUME ReadInv, ProofInv, stage = "prove", current # Nobody
  PROVE  \E t \in DOMAIN theorems \ left : \E k \in 0..Len(theorems[t].hops) :
           At(t, k) /\ current[1] = t /\ current[2] = k /\ Theorem = theorems[t]
BY Places DEF ProofInv, Progress, Proving, At, Theorem

LEMMA PlaceIsCounted ==
  ASSUME ReadInv, ProofInv, AtHop
  PROVE  current[2] \in Nat
<1>1. PICK t \in DOMAIN theorems \ left : \E k \in 0..Len(theorems[t].hops) : current[2] = k
  BY PlaceInTheProof DEF AtHop
<1>2. Len(theorems[t].hops) \in Nat
  BY HopsAreCounted
<1> QED
  BY <1>1, <1>2

(* The next hop is behind.                                                 *)
PassesHop(t, k) ==
  /\ AtHop /\ Untouched /\ left' = left /\ stage' = stage /\ proved \subseteq proved'
  /\ current[1] = t /\ current[2] = k
  /\ current' = [current EXCEPT ![2] = @ + 1]
  /\ err' = "" => Earned(t, k + 1)'

LEMMA HopIsPassed ==
  ASSUME ReadInv, ProofInv, NEW t, NEW k \in Nat, PassesHop(t, k)
  PROVE  ReadInv' /\ ProofInv'
<1>1. /\ stage = "prove" /\ err = "" /\ current # Nobody /\ k < Len(Theorem.hops)
      /\ Untouched /\ left' = left /\ stage' = stage /\ proved \subseteq proved'
      /\ current[1] = t /\ current[2] = k
  BY DEF PassesHop, AtHop
<1>2. t \in DOMAIN theorems \ left /\ current = <<t, k>> /\ Theorem = theorems[t]
      /\ k < Len(theorems[t].hops) /\ Len(theorems[t].hops) \in Nat
  <2>1. PICK u \in DOMAIN theorems \ left : \E l \in 0..Len(theorems[u].hops) :
           At(u, l) /\ current[1] = u /\ current[2] = l /\ Theorem = theorems[u]
    BY <1>1, PlaceInTheProof
  <2>2. PICK l \in 0..Len(theorems[u].hops) :
           At(u, l) /\ current[1] = u /\ current[2] = l /\ Theorem = theorems[u]
    BY <2>1
  <2>3. u = t /\ At(t, k) /\ Theorem = theorems[t]
    BY <1>1, <2>2
  <2> QED
    BY <1>1, <2>1, <2>3, HopsAreCounted DEF At
<1>3. current' = <<t, k + 1>> /\ k + 1 \in 0..Len(theorems[t].hops)
  <2>1. \A m, l \in Nat : m < l => m + 1 \in 0..l
    OBVIOUS
  <2>2. current' = <<t, k + 1>>
    <3>1. current' = [<<t, k>> EXCEPT ![2] = @ + 1]
      BY <1>2 DEF PassesHop
    <3> QED
      BY <3>1, Places
  <2> QED
    BY <1>2, <2>1, <2>2
<1>4. Progress'
  BY <1>1, <1>2, <1>3 DEF ProofInv, Progress, Proving, Parsing, Untouched, At
<1>5. ASSUME NEW u \in DOMAIN theorems, NEW n \in 1..Len(theorems[u].hops), Behind(u, n)'
      PROVE  Behind(u, n) \/ (u = t /\ n = k + 1)
  <2>1. u \notin left
    BY <1>1, <1>5 DEF Behind
  <2>2. CASE u # t
    BY <1>2, <2>1, <2>2, Places DEF Behind, At
  <2>3. CASE u = t
    <3>1. n \in Nat /\ n <= k + 1
      BY <1>2, <1>3, <1>5, <2>3 DEF Behind, At
    <3>2. n <= k \/ n = k + 1
      BY <3>1
    <3>3. n <= k => Behind(u, n)
      BY <1>2, <2>1, <2>3, Places DEF Behind, At
    <3> QED
      BY <2>3, <3>2, <3>3
  <2> QED
    BY <2>2, <2>3
<1>6. err' = "" => LastStep
  BY <1>5 DEF LastStep, PassesHop
<1> QED
  BY <1>1, <1>4, <1>6, StepOfTheProof DEF Proving

LEMMA HopIsNotAsked ==
  ASSUME ReadInv, ProofInv, PassHop
  PROVE  ReadInv' /\ ProofInv'
<1>1. AtHop /\ Untouched /\ left' = left /\ stage' = stage /\ proved' = proved /\ theorems' = theorems
      /\ command' = command /\ current' = [current EXCEPT ![2] = @ + 1]
  BY DEF PassHop, Untouched
<1>2. ~(HopAsked /\ IsProved(Hop))
  BY DEF PassHop
<1>3. current[2] \in Nat
  BY <1>1, PlaceIsCounted
<1>4. PICK t : t = current[1]
  OBVIOUS
<1>5. PICK k \in Nat : k = current[2]
  BY <1>3
<1>6. Earned(t, k + 1)
  <2>1. (k + 1) - 1 = k
    BY <1>5
  <2> QED
    BY <1>2, <1>4, <1>5, <2>1 DEF Earned, HopAsked, Hop, Theorem
<1>7. Earned(t, k + 1)'
  BY <1>1, <1>6, EarnedIsKept
<1> QED
  BY <1>1, <1>4, <1>5, <1>7, HopIsPassed DEF PassesHop

LEMMA HopIsProved ==
  ASSUME ReadInv, ProofInv, ProveHop
  PROVE  ReadInv' /\ ProofInv'
<1>1. AtHop /\ Untouched /\ left' = left /\ stage' = stage /\ theorems' = theorems
      /\ command' = command /\ current' = [current EXCEPT ![2] = @ + 1]
  BY DEF ProveHop, Untouched
<1>2. current[2] \in Nat
  BY <1>1, PlaceIsCounted
<1>3. PICK t : t = current[1]
  OBVIOUS
<1>4. PICK k \in Nat : k = current[2]
  BY <1>2
<1> DEFINE prepared == Prepare(Theorem, Hop)
           asked == IF prepared # "" THEN {}
                    ELSE {<<current[1], current[2], o[1], o[2]>> : o \in Obligations(Theorem, Hop, command)}
<1>5. proved' = proved \union Confirmed(asked, command.refuted)
      /\ err' = Verdict(prepared, asked \intersect command.refuted)
  BY DEF ProveHop
<1>6. ASSUME err' = "" PROVE Earned(t, k + 1)'
  <2>1. prepared = "" /\ asked \intersect command.refuted = {}
    BY <1>5, <1>6 DEF Verdict
  <2>2. \A o \in Obligations(Theorem, Hop, command) : <<current[1], current[2], o[1], o[2]>> \in proved'
    <3>1. asked \subseteq proved'
      BY <1>5, <2>1 DEF Confirmed
    <3>2. asked = {<<current[1], current[2], o[1], o[2]>> : o \in Obligations(Theorem, Hop, command)}
      BY <2>1
    <3> QED
      BY <3>1, <3>2
  <2>3. Theorem = theorems[t] /\ Hop = theorems[t].hops[k + 1] /\ (k + 1) - 1 = k
    BY <1>3, <1>4 DEF Theorem, Hop
  <2>4. PICK p : p = proved'
    OBVIOUS
  <2> HIDE DEF prepared, asked
  <2>5. Prepare(theorems[t], theorems[t].hops[k + 1]) = ""
    BY <2>1, <2>3 DEF prepared
  <2>6. \A o \in Obligations(theorems[t], theorems[t].hops[k + 1], command) : <<t, (k + 1) - 1, o[1], o[2]>> \in p
    BY <1>3, <1>4, <2>2, <2>3, <2>4
  <2> QED
    BY <1>1, <2>4, <2>5, <2>6 DEF Earned
<1>7. proved \subseteq proved'
  BY <1>5
<1> HIDE DEF prepared, asked
<1> QED
  BY <1>1, <1>3, <1>4, <1>6, <1>7, HopIsPassed DEF PassesHop

LEMMA TheoremIsProved ==
  ASSUME ReadInv, ProofInv, FinishTheoremProof
  PROVE  ReadInv' /\ ProofInv'
<1>1. /\ stage = "prove" /\ err = "" /\ current # Nobody /\ current[2] = Len(Theorem.hops) /\ current' = Nobody
      /\ Untouched /\ left' = left /\ proved' = proved /\ stage' = stage /\ err' = err
  BY DEF FinishTheoremProof, Untouched
<1>2. Progress'
  BY <1>1 DEF ProofInv, Progress, Proving, Parsing, Untouched
<1>3. LastStep
  <2> SUFFICES ASSUME NEW t \in DOMAIN theorems, NEW n \in 1..Len(theorems[t].hops), Behind(t, n)'
               PROVE  Behind(t, n)
    BY DEF LastStep
  <2>1. t \notin left
    BY <1>1 DEF Behind
  <2>2. ASSUME NEW k \in Nat, At(t, k)
        PROVE  n <= k
    <3>1. k = Len(theorems[t].hops)
      BY <1>1, <2>2, Places DEF At, Theorem
    <3> QED
      BY <3>1
  <2> QED
    BY <2>1, <2>2 DEF Behind
<1> QED
  BY <1>1, <1>2, <1>3, StepOfTheProof DEF Proving

LEMMA EverythingIsProved ==
  ASSUME ReadInv, ProofInv, Done
  PROVE  ReadInv' /\ ProofInv'
<1>1. /\ stage = "prove" /\ err = "" /\ current = Nobody /\ left = {} /\ stage' = "done"
      /\ Untouched /\ left' = left /\ proved' = proved /\ current' = current /\ err' = err
  BY DEF Done, Untouched
<1>2. Progress'
  BY <1>1 DEF ProofInv, Progress, Proving, Parsing, Untouched
<1>3. LastStep
  BY <1>1, Places DEF LastStep, Behind, At
<1> QED
  BY <1>1, <1>2, <1>3, StepOfTheProof DEF Proving

LEMMA NothingHappens ==
  ASSUME ReadInv, ProofInv, UNCHANGED vars
  PROVE  ReadInv' /\ ProofInv'
<1>1. Position' /\ ContextFits' /\ TheoremsFit' /\ HybridsFit'
  <2>1. Position' /\ TheoremsFit'
    BY DEF vars, ReadInv, Position, TheoremsFit, Files
  <2>2. ContextFits'
    <3>1. /\ stage' = stage /\ err' = err /\ block' = block /\ Current' = Current
          /\ ctx' = ctx /\ games' = games
      BY DEF vars, Current, Files
    <3>2. PICK c : c = ctx
      OBVIOUS
    <3>3. PICK bs : bs = Current.blocks
      OBVIOUS
    <3>4. ASSUME NEW n, SidesFit(ctx, Current.blocks[n])
          PROVE  SidesFit(ctx, Current.blocks[n])'
      <4>1. SidesFit(c, bs[n])'
        BY <3>1, <3>2, <3>3, <3>4, SidesOfTheSameGames
      <4> QED
        BY <3>1, <3>2, <3>3, <4>1
    <3> QED
      BY <3>1, <3>4 DEF ReadInv, ContextFits
  <2>3. HybridsFit'
    BY HybridsStay DEF vars, ReadInv
  <2> QED
    BY <2>1, <2>2, <2>3
<1>2. Progress'
  BY DEF vars, ProofInv, Progress, At
<1>3. ProvedSoFar'
  <2>1. stage' = stage /\ err' = err /\ theorems' = theorems /\ command' = command /\ proved' = proved
    BY DEF vars
  <2>2. ASSUME NEW t, NEW n
        PROVE  Behind(t, n)' = Behind(t, n)
    BY DEF vars, Behind, At
  <2>3. ASSUME NEW t, NEW n, Earned(t, n)
        PROVE  Earned(t, n)'
    BY <2>1, <2>3, EarnedIsKept
  <2> QED
    BY <2>1, <2>2, <2>3 DEF ProofInv, ProvedSoFar
<1> QED
  BY <1>1, <1>2, <1>3 DEF ReadInv, ProofInv

-----------------------------------------------------------------------------
(* What the obligations of a hop are.                                      *)
LEMMA TreeOfItsOracle ==
  ASSUME NEW hop, IsList(hop.trees), NEW tree \in Range(hop.trees)
  PROVE  \E m \in DOMAIN hop.trees :
           TreeOf(hop, tree.oracle) = hop.trees[m] /\ hop.trees[m].oracle = tree.oracle
<1> DEFINE T == TreesOf(hop, tree.oracle)
           m == CHOOSE n \in T : \A o \in T : n <= o
<1>1. T # {} /\ T \subseteq Nat
  <2>1. DOMAIN hop.trees \subseteq Nat
    BY ListFacts
  <2>2. \E n \in DOMAIN hop.trees : hop.trees[n] = tree
    BY DEF Range
  <2> QED
    BY <2>1, <2>2 DEF TreesOf
<1>2. \E n \in T : \A o \in T : n <= o
  <2> HIDE DEF T
  <2> QED
    BY <1>1, LeastElement
<1>3. m \in T
  <2> HIDE DEF T
  <2> QED
    BY <1>2 DEF m
<1> QED
  BY <1>3 DEF TreesOf, TreeOf

LEMMA PreparedExports ==
  ASSUME NEW theorem, NEW hop, Prepare(theorem, hop) = ""
  PROVE  /\ ExportNames(theorem, hop.right) = ExportNames(theorem, hop.left)
         /\ ExportNames(theorem, hop.left) = {t.oracle : t \in Range(hop.trees)}
<1>1. VerifyExportsMatch(theorem, hop) = ""
  BY DEF Prepare
<1> QED
  BY <1>1 DEF VerifyExportsMatch

LEMMA AskedOfOracle ==
  ASSUME NEW theorem, NEW hop, NEW flags, NEW o \in ExportNames(theorem, hop.left), Asked(flags.oracle, o),
         NEW c \in OracleClaims(theorem, hop, o, flags)
  PROVE  <<o, c>> \in OfOracles(theorem, hop, flags)
<1> DEFINE Of(p) == {p} \X OracleClaims(theorem, hop, p, flags)
           asked == {p \in ExportNames(theorem, hop.left) : Asked(flags.oracle, p)}
<1>1. <<o, c>> \in Of(o) /\ o \in asked
  OBVIOUS
<1>2. OfOracles(theorem, hop, flags) = UNION {Of(p) : p \in asked}
  BY DEF OfOracles
<1> HIDE DEF Of, asked
<1> QED
  BY <1>1, <1>2

AdmittedIn(hop, o, c) ==
  \E tree \in Range(hop.trees) : tree.oracle = o /\ \E claim \in tree.claims : claim.name = c /\ claim.admitted

LEMMA ObligationsCoverOracles ==
  ASSUME NEW theorem, NEW hop, TreesFit(hop.trees), Prepare(theorem, hop) = "",
         NEW flags, flags.oracle = <<>>, flags.claim = <<>>, flags.only = ""
  PROVE  /\ <<Start, "invariant">> \in Obligations(theorem, hop, flags)
         /\ \A o \in ExportNames(theorem, hop.right) : \A c \in TargetClaims \union Injectivity :
               <<o, c>> \in Obligations(theorem, hop, flags) \/ AdmittedIn(hop, o, c)
<1>1. /\ Obligations(theorem, hop, flags) = AtStart(flags) \union OfOracles(theorem, hop, flags)
      /\ \A x : Asked(flags.oracle, x) /\ ClaimIsAsked(flags.claim, x)
  BY DEF Obligations, Asked, ClaimIsAsked
<1>2. AtStart(flags) = {<<Start, "invariant">>}
  BY <1>1 DEF AtStart
<1>3. ASSUME NEW o \in ExportNames(theorem, hop.right), NEW c \in OracleClaims(theorem, hop, o, flags)
      PROVE  <<o, c>> \in Obligations(theorem, hop, flags)
  <2>1. o \in ExportNames(theorem, hop.left)
    BY PreparedExports
  <2>2. <<o, c>> \in OfOracles(theorem, hop, flags)
    BY <1>1, <1>3, <2>1, AskedOfOracle
  <2> QED
    BY <1>1, <2>2
<1>4. ASSUME NEW o \in ExportNames(theorem, hop.right), NEW c \in TargetClaims \union Injectivity
      PROVE  c \in OracleClaims(theorem, hop, o, flags) \/ AdmittedIn(hop, o, c)
  <2>1. OracleClaims(theorem, hop, o, flags)
          = Injectivity \union {d.name : d \in {d \in TreeOf(hop, o).claims : ~d.admitted}}
    BY <1>1 DEF OracleClaims
  <2>2. PICK tree \in Range(hop.trees) : tree.oracle = o
    <3>1. o \in {t.oracle : t \in Range(hop.trees)}
      BY <1>4, PreparedExports
    <3> QED
      BY <3>1
  <2>3. PICK m \in DOMAIN hop.trees : TreeOf(hop, o) = hop.trees[m] /\ hop.trees[m].oracle = o
    BY <2>2, TreeOfItsOracle DEF TreesFit
  <2>4. CASE c \in TargetClaims
    <3>1. PICK d \in hop.trees[m].claims : d.name = c
      BY <2>4 DEF TreesFit
    <3>2. CASE d.admitted
      BY <2>3, <3>1, <3>2, ListFacts DEF AdmittedIn, TreesFit
    <3>3. CASE ~d.admitted
      BY <2>1, <2>3, <3>1, <3>3
    <3> QED
      BY <3>2, <3>3
  <2> QED
    BY <2>1, <2>4
<1> QED
  BY <1>1, <1>2, <1>3, <1>4

(* Flags that leave nothing.                                               *)
NothingIsNamed(hop, flags) ==
  LET trees == Range(hop.trees)
      Repeated(tree) == \E other \in trees : other # tree /\ other.oracle = tree.oracle
      Lemmas(tree) ==
        IF flags.only = "injective" \/ Repeated(tree) THEN {}
        ELSE {c.name : c \in {c \in tree.claims : ~c.admitted}}
  IN  IF flags.only = "start"
      THEN flags.claim # <<>> /\ "invariant" \notin flags.claim[1]
      ELSE \A tree \in trees :
             \/ flags.oracle \notin {<<>>, <<tree.oracle>>}
             \/ /\ flags.claim # <<>>
                /\ flags.claim[1] \cap (Lemmas(tree) \union Injectivity) = {}

LEMMA NoObligations ==
  ASSUME NEW theorem, NEW hop, IsList(hop.trees), Prepare(theorem, hop) = "",
         NEW flags, Obligations(theorem, hop, flags) = {}
  PROVE  NothingIsNamed(hop, flags)
<1>1. CASE flags.only = "start"
  <2>1. ~ClaimIsAsked(flags.claim, "invariant")
    BY <1>1 DEF Obligations, AtStart
  <2> QED
    BY <1>1, <2>1 DEF ClaimIsAsked, NothingIsNamed
<1>2. CASE flags.only # "start"
  <2>1. OfOracles(theorem, hop, flags) = {}
    BY <1>2 DEF Obligations
  <2> DEFINE Repeated(tree) == \E other \in Range(hop.trees) : other # tree /\ other.oracle = tree.oracle
             Lemmas(tree) ==
               IF flags.only = "injective" \/ Repeated(tree) THEN {}
               ELSE {c.name : c \in {c \in tree.claims : ~c.admitted}}
  <2>2. ASSUME NEW tree \in Range(hop.trees), flags.oracle \in {<<>>, <<tree.oracle>>}
        PROVE  flags.claim # <<>> /\ flags.claim[1] \cap (Lemmas(tree) \union Injectivity) = {}
    <3>1. tree.oracle \in ExportNames(theorem, hop.left) /\ Asked(flags.oracle, tree.oracle)
      BY <2>2, PreparedExports DEF Asked
    <3>2. OracleClaims(theorem, hop, tree.oracle, flags) = {}
      BY <2>1, <3>1, AskedOfOracle
    <3>3. \A c \in Injectivity : ~ClaimIsAsked(flags.claim, c)
      BY <3>2 DEF OracleClaims
    <3>4. flags.claim # <<>>
      BY <3>3 DEF ClaimIsAsked, Injectivity
    <3>5. flags.claim[1] \cap Injectivity = {}
      BY <3>3 DEF ClaimIsAsked
    <3>6. ASSUME NEW c \in Lemmas(tree), c \in flags.claim[1]
          PROVE  FALSE
      <4>1. /\ flags.only # "injective" /\ ~Repeated(tree)
            /\ c \in {d.name : d \in {d \in tree.claims : ~d.admitted}}
        BY <3>6
      <4>2. PICK m \in DOMAIN hop.trees :
               TreeOf(hop, tree.oracle) = hop.trees[m] /\ hop.trees[m].oracle = tree.oracle
        BY TreeOfItsOracle
      <4>3. TreeOf(hop, tree.oracle) = tree
        BY <4>1, <4>2, ListFacts
      <4>4. c \in OracleClaims(theorem, hop, tree.oracle, flags)
        BY <3>6, <4>1, <4>3 DEF OracleClaims, ClaimIsAsked
      <4> QED
        BY <3>2, <4>4
    <3> QED
      BY <3>4, <3>5, <3>6
  <2> HIDE DEF Lemmas
  <2>3. \A tree \in Range(hop.trees) :
           \/ flags.oracle \notin {<<>>, <<tree.oracle>>}
           \/ flags.claim # <<>> /\ flags.claim[1] \cap (Lemmas(tree) \union Injectivity) = {}
    BY <2>2
  <2> QED
    BY <1>2, <2>3 DEF NothingIsNamed, Lemmas
<1> QED
  BY <1>1, <1>2

-----------------------------------------------------------------------------
(* The inductive invariant holds.                                          *)
LEMMA ReadAndProved == Spec => [](ReadInv /\ ProofInv)
<1>1. Init => ReadInv /\ ProofInv
  BY InitiallyRead
<1>2. ReadInv /\ ProofInv /\ [Next]_vars => (ReadInv /\ ProofInv)'
  <2> SUFFICES ASSUME ReadInv, ProofInv, [Next]_vars
               PROVE  ReadInv' /\ ProofInv'
    OBVIOUS
  <2>1. CASE ReadPackageBlock \/ ReadGameBlock \/ FinishPackage \/ FinishGameFile
    BY <2>1, PackagesAndGames
  <2>2. CASE ReadTheoremBlock
    BY <2>2, TheoremBlock
  <2>3. CASE FinishTheorem
    BY <2>3, TheoremIsFinished
  <2>4. CASE NextStage
    BY <2>4, StageIsRead
  <2>5. CASE StartTheorem
    BY <2>5, TheoremIsStarted
  <2>6. CASE PassHop
    BY <2>6, HopIsNotAsked
  <2>7. CASE ProveHop
    BY <2>7, HopIsProved
  <2>8. CASE FinishTheoremProof
    BY <2>8, TheoremIsProved
  <2>9. CASE Done
    BY <2>9, EverythingIsProved
  <2>10. CASE Stop \/ UNCHANGED vars
    BY <2>10, NothingHappens DEF Stop
  <2> QED
    BY <2>1, <2>2, <2>3, <2>4, <2>5, <2>6, <2>7, <2>8, <2>9, <2>10 DEF Next
<1> QED
  BY <1>1, <1>2, PTL DEF Spec

(* The three instances that a hybrid argument generates are in the theorem *)
(* that was read, whatever else its file declares, and differ in nothing   *)
(* but the loop index and the bit (patch_game_instance, parser/theorem.rs).*)
THEOREM HybridsAreRight == Spec => []HybridSides
<1>1. ReadInv /\ ProofInv => HybridSides
  BY DEF ReadInv, HybridsFit, HybridSides, NewTheorems
<1> QED
  BY <1>1, ReadAndProved, PTL

LEMMA EarnedInTheEnd ==
  ASSUME ReadInv, ProofInv, Succeeded, NEW h \in AskedHops
  PROVE  LET hop == theorems[h[1]].hops[h[2]]
         IN  /\ TreesFit(hop.trees) /\ Prepare(theorems[h[1]], hop) = ""
             /\ \A o \in Obligations(theorems[h[1]], hop, command) : ObligationOf(h, o[1], o[2]) \in proved
<1>1. PICK t \in DOMAIN theorems, n \in 1..Len(theorems[h[1]].hops) : h[1] = t /\ h[2] = n
  BY DEF AskedHops
<1>2. n \in 1..Len(theorems[t].hops)
  BY <1>1
<1>3. stage \in Proving /\ err = "" /\ left = {} /\ current = Nobody
  BY DEF Succeeded, ProofInv, Progress, Proving
<1>4. Behind(t, n)
  BY <1>3, Places DEF Behind, At
<1>5. Earned(t, n)
  BY <1>2, <1>3, <1>4 DEF ProofInv, ProvedSoFar
<1>6. IsProved(theorems[t].hops[n]) /\ Asked(command.theorem, t) /\ Asked(command.hop, n - 1)
  BY <1>1 DEF AskedHops
<1>7. TreesFit(theorems[t].hops[n].trees)
  <2>1. CtxOK(theorems[t]) /\ n \in DOMAIN theorems[t].hops
    BY <1>2, ListFacts DEF ReadInv, TheoremsFit, CtxOK
  <2> QED
    BY <1>6, <2>1 DEF CtxOK, HopFits
<1> QED
  BY <1>1, <1>5, <1>6, <1>7 DEF Earned, ObligationOf

(* A proof that succeeded has confirmed what the project asks to be        *)
(* proved, whatever projects, command lines and verdicts there are: without*)
(* flags all of it, with flags something unless they name what is not      *)
(* there (Project::prove, verify_equivalence).                             *)
THEOREM SuccessIsAlwaysEarned == Spec => []SuccessIsEarned
<1>1. ReadInv /\ ProofInv => SuccessCoversOracles
  <2> SUFFICES ASSUME ReadInv, ProofInv, Succeeded, NEW h \in AskedHops,
                      command.oracle = <<>>, command.claim = <<>>, command.only = ""
               PROVE  LET hop == theorems[h[1]].hops[h[2]]
                      IN  /\ ObligationOf(h, Start, "invariant") \in proved
                          /\ \A o \in ExportNames(theorems[h[1]], hop.right) :
                               \A c \in TargetClaims \union Injectivity :
                                 ObligationOf(h, o, c) \in proved \/ AdmittedIn(hop, o, c)
    BY DEF SuccessCoversOracles, AdmittedIn
  <2> DEFINE theorem == theorems[h[1]]
             hop == theorem.hops[h[2]]
  <2>1. /\ TreesFit(hop.trees) /\ Prepare(theorem, hop) = ""
        /\ \A o \in Obligations(theorem, hop, command) : ObligationOf(h, o[1], o[2]) \in proved
    BY EarnedInTheEnd
  <2> HIDE DEF theorem, hop
  <2>2. /\ <<Start, "invariant">> \in Obligations(theorem, hop, command)
        /\ \A o \in ExportNames(theorem, hop.right) : \A c \in TargetClaims \union Injectivity :
              <<o, c>> \in Obligations(theorem, hop, command) \/ AdmittedIn(hop, o, c)
    BY <2>1, ObligationsCoverOracles
  <2>3. \A o, c : <<o, c>> \in Obligations(theorem, hop, command) => ObligationOf(h, o, c) \in proved
    BY <2>1
  <2>4. /\ ObligationOf(h, Start, "invariant") \in proved
        /\ \A o \in ExportNames(theorem, hop.right) : \A c \in TargetClaims \union Injectivity :
              ObligationOf(h, o, c) \in proved \/ AdmittedIn(hop, o, c)
    BY <2>2, <2>3
  <2> QED
    BY <2>4 DEF theorem, hop
<1>2. ReadInv /\ ProofInv => SilentOnlyIfNothingNamed
  <2> SUFFICES ASSUME ReadInv, ProofInv, Succeeded, proved = {}, NEW h \in AskedHops
               PROVE  NothingIsNamed(theorems[h[1]].hops[h[2]], command)
    BY DEF SilentOnlyIfNothingNamed, NothingIsNamed
  <2> DEFINE theorem == theorems[h[1]]
             hop == theorem.hops[h[2]]
  <2>1. /\ TreesFit(hop.trees) /\ Prepare(theorem, hop) = ""
        /\ \A o \in Obligations(theorem, hop, command) : ObligationOf(h, o[1], o[2]) \in proved
    BY EarnedInTheEnd
  <2> HIDE DEF theorem, hop
  <2>2. Obligations(theorem, hop, command) = {} /\ IsList(hop.trees)
    BY <2>1 DEF TreesFit
  <2>3. NothingIsNamed(hop, command)
    BY <2>1, <2>2, NoObligations
  <2> QED
    BY <2>3 DEF theorem, hop
<1>3. ReadInv /\ ProofInv => SuccessIsEarned
  BY <1>1, <1>2 DEF SuccessIsEarned
<1> QED
  BY <1>3, ReadAndProved, PTL

-----------------------------------------------------------------------------
(* Games.  Of a context, its instances and its wires matter.               *)
GameOK(c) ==
  /\ c = [name |-> c.name, scope |-> c.scope, types |-> c.types, consts |-> c.consts,
          insts |-> c.insts, edges |-> c.edges, exports |-> c.exports, err |-> c.err]
  /\ IsList(c.insts) /\ IsList(c.edges)

(* The wires of a context that was read from some of the bodies of a file. *)
BodyAt(bs, p) == bs[p[1]].bodies[p[2]]
BodiesOf(bs, P, instance) == {p \in P : BodyAt(bs, p).src = instance}
SourceOf(c, m) == c.insts[c.edges[m].from].name
Wired(c, bs, P) ==
  /\ GameOK(c)
  /\ \A m \in DOMAIN c.edges : WireLeads(c, c.edges[m]) /\ BodiesOf(bs, P, SourceOf(c, m)) # {}
  /\ \A m, o \in DOMAIN c.edges : Rivals(c, m, o) =>
        \E p, q \in BodiesOf(bs, P, SourceOf(c, m)) : p # q

(* A handler that adds no wire.                                            *)
SameWires(c, d) ==
  /\ GameOK(d) /\ d.edges = c.edges
  /\ \A n \in DOMAIN c.insts : n \in DOMAIN d.insts /\ d.insts[n] = c.insts[n]

LEMMA SourceIsThere ==
  ASSUME NEW c, NEW bs, NEW P, Wired(c, bs, P), NEW m \in DOMAIN c.edges
  PROVE  c.edges[m].from \in DOMAIN c.insts
BY DEF Wired, WireLeads

LEMMA WireStillLeads ==
  ASSUME NEW c, NEW d, NEW edge, WireLeads(c, edge),
         \A n \in DOMAIN c.insts : n \in DOMAIN d.insts /\ d.insts[n] = c.insts[n]
  PROVE  WireLeads(d, edge)
<1>1. {edge.from, edge.to} \subseteq DOMAIN d.insts
  BY DEF WireLeads
<1>2. d.insts[edge.from] = c.insts[edge.from] /\ d.insts[edge.to] = c.insts[edge.to]
  BY DEF WireLeads
<1> QED
  BY <1>1, <1>2 DEF WireLeads

LEMMA WiresStay ==
  ASSUME NEW c, NEW d, NEW bs, NEW P, NEW Q, Wired(c, bs, P), SameWires(c, d), P \subseteq Q
  PROVE  Wired(d, bs, Q)
<1>1. \A m \in DOMAIN d.edges : m \in DOMAIN c.edges /\ d.edges[m] = c.edges[m]
  BY DEF SameWires
<1>2. ASSUME NEW m \in DOMAIN d.edges
      PROVE  SourceOf(d, m) = SourceOf(c, m) /\ BodiesOf(bs, P, SourceOf(c, m)) \subseteq BodiesOf(bs, Q, SourceOf(d, m))
  <2>1. c.edges[m].from \in DOMAIN c.insts
    BY <1>1, SourceIsThere
  <2>2. SourceOf(d, m) = SourceOf(c, m)
    BY <1>1, <2>1 DEF SameWires, SourceOf
  <2> QED
    BY <2>2 DEF BodiesOf
<1>3. ASSUME NEW m \in DOMAIN d.edges
      PROVE  WireLeads(d, d.edges[m])
  BY <1>1, WireStillLeads DEF SameWires, Wired
<1>4. ASSUME NEW m \in DOMAIN d.edges
      PROVE  BodiesOf(bs, Q, SourceOf(d, m)) # {}
  BY <1>1, <1>2 DEF Wired
<1>5. ASSUME NEW m \in DOMAIN d.edges, NEW o \in DOMAIN d.edges, Rivals(d, m, o)
      PROVE  \E p, q \in BodiesOf(bs, Q, SourceOf(d, m)) : p # q
  <2>1. Rivals(c, m, o)
    BY <1>1, <1>5 DEF Rivals
  <2>2. PICK p, q \in BodiesOf(bs, P, SourceOf(c, m)) : p # q
    BY <1>1, <2>1 DEF Wired
  <2> QED
    BY <1>2, <2>2
<1> QED
  BY <1>3, <1>4, <1>5 DEF Wired, SameWires

GameChanged(c, s, k, insts, exports, e, d) ==
  d = [name |-> c.name, scope |-> s, types |-> c.types, consts |-> k,
       insts |-> insts, edges |-> c.edges, exports |-> exports, err |-> e]

LEMMA ChangedFields ==
  ASSUME NEW c, NEW s, NEW k, NEW insts, NEW exports, NEW e, NEW d, GameChanged(c, s, k, insts, exports, e, d),
         GameOK(c), IsList(insts)
  PROVE  GameOK(d) /\ d.insts = insts /\ d.edges = c.edges /\ d.err = e
<1>1. /\ d.name = c.name /\ d.scope = s /\ d.types = c.types /\ d.consts = k /\ d.insts = insts
      /\ d.edges = c.edges /\ d.exports = exports /\ d.err = e
  BY DEF GameChanged
<1>2. d = [name |-> d.name, scope |-> d.scope, types |-> d.types, consts |-> d.consts,
           insts |-> d.insts, edges |-> d.edges, exports |-> d.exports, err |-> d.err]
  BY <1>1 DEF GameChanged
<1> QED
  BY <1>1, <1>2 DEF GameOK

LEMMA OthersKeepWires ==
  ASSUME NEW c, GameOK(c), NEW s, NEW k, NEW exports, NEW e, NEW d,
         GameChanged(c, s, k, c.insts, exports, e, d)
  PROVE  SameWires(c, d)
BY ChangedFields DEF SameWires, GameOK

LEMMA GameFailKeeps ==
  ASSUME NEW c, GameOK(c), NEW e
  PROVE  SameWires(c, Fail(c, e)) /\ Fail(c, e).err = e
<1> DEFINE d == Fail(c, e)
<1>1. GameChanged(c, c.scope, c.consts, c.insts, c.exports, e, d)
  BY DEF Fail, GameOK, GameChanged
<1> HIDE DEF d
<1>2. SameWires(c, d) /\ d.err = e
  BY <1>1, OthersKeepWires, ChangedFields DEF GameOK
<1> QED
  BY <1>2 DEF d

LEMMA GameConstKeeps ==
  ASSUME NEW c, GameOK(c), NEW spec
  PROVE  SameWires(c, HandleGameConst(c, spec))
<1> DEFINE d == HandleGameConst(c, spec)
<1>1. \/ \E e : d = Fail(c, e)
      \/ \E x, s : d = [c EXCEPT !.consts = Append(@, x), !.scope = s]
  BY DEF HandleGameConst
<1> HIDE DEF d
<1>2. ASSUME NEW e, d = Fail(c, e)
      PROVE  SameWires(c, d)
  BY <1>2, GameFailKeeps
<1>3. ASSUME NEW x, NEW s, d = [c EXCEPT !.consts = Append(@, x), !.scope = s]
      PROVE  SameWires(c, d)
  <2>1. PICK k : k = Append(c.consts, x)
    OBVIOUS
  <2>2. GameChanged(c, s, k, c.insts, c.exports, c.err, d)
    BY <1>3, <2>1 DEF GameOK, GameChanged
  <2> QED
    BY <2>2, OthersKeepWires
<1> QED
  BY <1>1, <1>2, <1>3 DEF d

LEMMA GameInstanceKeeps ==
  ASSUME NEW c, GameOK(c), NEW pkgs, NEW spec
  PROVE  SameWires(c, HandleInstanceDecl(c, pkgs, spec))
<1> DEFINE s == Declare(c.scope, spec.name, InstanceDecl)
           b == [c EXCEPT !.scope = Declare(@, spec.name, InstanceDecl)]
           d == HandleInstanceDecl(c, pkgs, spec)
<1>1. GameChanged(c, s, c.consts, c.insts, c.exports, c.err, b)
  BY DEF GameOK, GameChanged
<1>2. d = Fail(c, "error") \/ \E pkg, values : d = AddPackageInstance(b, spec, pkg, values)
  BY DEF HandleInstanceDecl
<1> HIDE DEF b, d, s
<1>3. GameOK(b) /\ b.insts = c.insts /\ b.edges = c.edges
  BY <1>1, ChangedFields DEF GameOK
<1>4. ASSUME NEW pkg, NEW values, d = AddPackageInstance(b, spec, pkg, values)
      PROVE  SameWires(c, d)
  <2>1. d = Fail(b, values.err) \/ \E i : d = [b EXCEPT !.insts = Append(@, i)]
    BY <1>4 DEF AddPackageInstance
  <2>2. CASE d = Fail(b, values.err)
    BY <1>3, <2>2, GameFailKeeps DEF SameWires
  <2>3. ASSUME NEW i, d = [b EXCEPT !.insts = Append(@, i)]
        PROVE  SameWires(c, d)
    <3> DEFINE all == Append(c.insts, i)
    <3>1. GameChanged(b, b.scope, b.consts, all, b.exports, b.err, d)
      BY <1>3, <2>3 DEF GameOK, GameChanged
    <3>2. /\ IsList(all) /\ Len(all) = Len(c.insts) + 1
          /\ \A n \in 1..Len(c.insts) : all[n] = c.insts[n]
      BY ListAppend DEF GameOK
    <3> HIDE DEF all
    <3>3. GameOK(d) /\ d.insts = all /\ d.edges = c.edges
      BY <1>3, <3>1, <3>2, ChangedFields
    <3>4. ASSUME NEW n \in DOMAIN c.insts
          PROVE  n \in DOMAIN d.insts /\ d.insts[n] = c.insts[n]
      <4>1. DOMAIN c.insts = 1..Len(c.insts) /\ Len(c.insts) \in Nat
        BY ListFacts DEF GameOK
      <4>2. DOMAIN d.insts = 1..(Len(c.insts) + 1)
        BY <3>2, <3>3, ListFacts
      <4> QED
        BY <3>2, <3>3, <4>1, <4>2
    <3> QED
      BY <3>3, <3>4 DEF SameWires
  <2> QED
    BY <2>1, <2>2, <2>3
<1> QED
  BY <1>2, <1>4, GameFailKeeps DEF d

LEMMA ExportsKeepWires ==
  ASSUME NEW c, GameOK(c), NEW wires
  PROVE  SameWires(c, HandleExports(c, wires))
<1> DEFINE d == HandleExports(c, wires)
<1>1. (\E e : d = Fail(c, e)) \/ \E x : d = [c EXCEPT !.exports = x]
  BY DEF HandleExports
<1> HIDE DEF d
<1>2. ASSUME NEW x, d = [c EXCEPT !.exports = x]
      PROVE  SameWires(c, d)
  <2>1. GameChanged(c, c.scope, c.consts, c.insts, x, c.err, d)
    BY <1>2 DEF GameOK, GameChanged
  <2> QED
    BY <2>1, OthersKeepWires
<1> QED
  BY <1>1, <1>2, GameFailKeeps DEF d

-----------------------------------------------------------------------------
(* The wires of one body.                                                  *)
LEMMA DestinationFields ==
  ASSUME NEW d, NEW n, NEW s, d = [to |-> n, sig |-> s]
  PROVE  d.to = n /\ d.sig = s
OBVIOUS

EdgeIs(edge, from, to, sig, alias) == edge = [from |-> from, to |-> to, sig |-> sig, alias |-> alias]
LEMMA EdgeFields ==
  ASSUME NEW d, NEW n, NEW m, NEW s, NEW a, EdgeIs(d, n, m, s, a)
  PROVE  d.from = n /\ d.to = m /\ d.sig = s /\ d.alias = a
BY DEF EdgeIs

LEMMA DestinationIs ==
  ASSUME NEW c, NEW wire, NEW dst, dst = Destination(c, wire), dst.err = "", InstanceNamed(c, wire.to) # {}
  PROVE  /\ dst.e.to \in DOMAIN c.insts
         /\ \E o \in DOMAIN c.insts[dst.e.to].pkg.oracles : dst.e.sig = c.insts[dst.e.to].pkg.oracles[o].sig
         /\ dst.e.sig.name = wire.oracle
<1> DEFINE dstIdx == CHOOSE n \in InstanceNamed(c, wire.to) : TRUE
           pkg == c.insts[dstIdx].pkg
           o == CHOOSE n \in OracleNamed(pkg, wire.oracle) : TRUE
           dstSig == pkg.oracles[o].sig
<1>1. dstIdx \in InstanceNamed(c, wire.to)
  OBVIOUS
<1>2. dstIdx \in DOMAIN c.insts
  BY <1>1 DEF InstanceNamed
<1>3. dst # Error
  BY ResultFields
<1>4. OracleNamed(pkg, wire.oracle) # {} /\ dst = Resolved(Empty, [to |-> dstIdx, sig |-> dstSig])
  BY <1>3 DEF Destination
<1>5. o \in OracleNamed(pkg, wire.oracle)
  BY <1>4
<1>6. o \in DOMAIN pkg.oracles /\ dstSig.name = wire.oracle
  BY <1>5 DEF OracleNamed
<1>7. dst.e = [to |-> dstIdx, sig |-> dstSig]
  <2> HIDE DEF dstIdx, dstSig
  <2> QED
    BY <1>4, ResultIs
<1> HIDE DEF dstIdx, dstSig
<1>8. dst.e.to = dstIdx /\ dst.e.sig = dstSig
  BY <1>7, DestinationFields
<1> QED
  BY <1>2, <1>6, <1>8 DEF dstSig

LEMMA MatchingSignatures ==
  ASSUME NEW import, NEW sig, WireMatches(import, sig) = "match"
  PROVE  SigsMatch(sig, import) = "match"
BY DEF WireMatches

WireRead(c, srcIdx, wire, repeated, edge) ==
  WireLeads(c, edge) /\ edge.from = srcIdx /\ NameOf(edge) = ImportOf(wire) /\ ~repeated

LEMMA WireIsRead ==
  ASSUME NEW c, NEW srcIdx \in DOMAIN c.insts, NEW wire, NEW repeated \in BOOLEAN,
         HandleEdge(c, srcIdx, wire, repeated).err = "",
         NEW edge, edge = HandleEdge(c, srcIdx, wire, repeated).e
  PROVE  WireRead(c, srcIdx, wire, repeated, edge)
<1> DEFINE r == HandleEdge(c, srcIdx, wire, repeated)
           name == ImportOf(wire)
           pkg == c.insts[srcIdx].pkg
           dst == Destination(c, wire)
           i == CHOOSE n \in ImportNamed(pkg, name) : TRUE
           matches == WireMatches(pkg.imports[i], dst.e.sig)
           read == [from |-> srcIdx, to |-> dst.e.to, sig |-> dst.e.sig, alias |-> wire.alias]
<1>1. r # Error /\ r # Panic
  BY ResultFields
<1>2. InstanceNamed(c, wire.to) # {} /\ ImportNamed(pkg, name) # {}
  BY <1>1 DEF HandleEdge
<1>3. dst.err = "" /\ matches = "match" /\ ~repeated /\ r = Resolved(Empty, read)
  BY <1>1, <1>2 DEF HandleEdge
<1>4. i \in ImportNamed(pkg, name) /\ SigsMatch(dst.e.sig, pkg.imports[i]) = "match"
  BY <1>2, <1>3, MatchingSignatures
<1>5. /\ dst.e.to \in DOMAIN c.insts
      /\ \E o \in DOMAIN c.insts[dst.e.to].pkg.oracles : dst.e.sig = c.insts[dst.e.to].pkg.oracles[o].sig
      /\ dst.e.sig.name = wire.oracle
  BY <1>2, <1>3, DestinationIs
<1>6. edge = read
  <2> HIDE DEF read
  <2>1. r.e = read
    BY <1>3, ResultIs
  <2> QED
    BY <2>1
<1>7. PICK to, sig : to = dst.e.to /\ sig = dst.e.sig
  OBVIOUS
<1>8. EdgeIs(edge, srcIdx, to, sig, wire.alias)
  BY <1>6, <1>7 DEF EdgeIs
<1>9. \E o \in DOMAIN c.insts[to].pkg.oracles : sig = c.insts[to].pkg.oracles[o].sig
  BY <1>5, <1>7
<1>10. to \in DOMAIN c.insts /\ sig.name = wire.oracle
  BY <1>5, <1>7
<1>11. \E j \in ImportNamed(pkg, name) : SigsMatch(sig, pkg.imports[j]) = "match"
  BY <1>4, <1>7
<1> HIDE DEF dst, r, matches, read
<1>12. edge.from = srcIdx /\ edge.to = to /\ edge.sig = sig /\ edge.alias = wire.alias
  BY <1>8, EdgeFields
<1>13. NameOf(edge) = name
  BY <1>10, <1>12 DEF NameOf, ImportOf
<1>14. WireLeads(c, edge)
  <2> HIDE DEF name
  <2> QED
    BY <1>9, <1>10, <1>11, <1>12, <1>13 DEF WireLeads
<1> QED
  BY <1>3, <1>12, <1>13, <1>14 DEF WireRead

LEMMA OneIsFirst ==
  ASSUME NEW k \in Nat, NEW m \in 1..k, NEW n \in 1..k, m # n
  PROVE  m \in 1..(n - 1) \/ n \in 1..(m - 1)
OBVIOUS

LEMMA InFirstOrSecond ==
  ASSUME NEW j \in Nat, NEW k \in Nat, NEW m \in 1..(j + k)
  PROVE  m \in Nat /\ ((m \in 1..j /\ m <= j) \/ (m - j \in 1..k /\ ~(m <= j)))
OBVIOUS

LEMMA DifferentInSecond ==
  ASSUME NEW j \in Nat, NEW m \in Nat, NEW o \in Nat, m # o
  PROVE  m - j # o - j
OBVIOUS

(* No failure; in a proof with arithmetic the provers do better without    *)
(* the string.                                                             *)
NoError(c) == c.err = ""

(* Wires are added to the others of a context.                             *)
EdgesSet(c, all, d) == d = [c EXCEPT !.edges = all]
LEMMA EdgesAreAdded ==
  ASSUME NEW c, GameOK(c), NEW all, IsList(all), NEW d, EdgesSet(c, all, d)
  PROVE  GameOK(d) /\ d.insts = c.insts /\ d.edges = all
<1>1. d = [name |-> c.name, scope |-> c.scope, types |-> c.types, consts |-> c.consts,
           insts |-> c.insts, edges |-> all, exports |-> c.exports, err |-> c.err]
  BY DEF GameOK, EdgesSet
<1>2. /\ d.name = c.name /\ d.scope = c.scope /\ d.types = c.types /\ d.consts = c.consts
      /\ d.insts = c.insts /\ d.edges = all /\ d.exports = c.exports /\ d.err = c.err
  BY <1>1
<1>3. d = [name |-> d.name, scope |-> d.scope, types |-> d.types, consts |-> d.consts,
           insts |-> d.insts, edges |-> d.edges, exports |-> d.exports, err |-> d.err]
  BY <1>1, <1>2
<1> QED
  BY <1>2, <1>3 DEF GameOK

(* A body of wires that is read without an error.                          *)
BodyRead(c, srcIdx, wires, new) ==
  /\ IsList(new) /\ Len(new) = Len(wires)
  /\ \A n \in 1..Len(wires) :
        WireLeads(c, new[n]) /\ new[n].from = srcIdx /\ NameOf(new[n]) = ImportOf(wires[n])
  /\ \A m, n \in 1..Len(wires) : m # n => ImportOf(wires[m]) # ImportOf(wires[n])

EdgesRead(c, srcIdx, wires, d) ==
  \E new : /\ BodyRead(c, srcIdx, wires, new)
           /\ GameOK(d) /\ d.insts = c.insts /\ d.edges = c.edges \o new

LEMMA EdgesAreRead ==
  ASSUME NEW c, GameOK(c), NEW srcIdx \in DOMAIN c.insts, NEW wires, IsList(wires),
         NEW d, d = HandleEdges(c, srcIdx, wires), d.err = ""
  PROVE  EdgesRead(c, srcIdx, wires, d)
<1> DEFINE k == Len(wires)
           read == [n \in DOMAIN wires |-> HandleEdge(c, srcIdx, wires[n], WireIsRepeated(wires, n))]
           new == [n \in DOMAIN read |-> read[n].e]
<1>1. k \in Nat /\ DOMAIN wires = 1..k
  BY ListFacts
<1>2. Results(read, k)
  BY <1>1 DEF Results
<1>3. Failures(read) = {}
  <2> SUFFICES ASSUME Failures(read) # {}
               PROVE  FALSE
    OBVIOUS
  <2>1. d = Fail(c, FirstFailure(read).err)
    BY DEF HandleEdges
  <2>2. FirstFailure(read).err # ""
    BY <1>2, FirstFailureFails
  <2> HIDE DEF read
  <2> QED
    BY <2>1, <2>2, GameFailKeeps
<1>4. d = [c EXCEPT !.edges = @ \o new]
  BY <1>3 DEF HandleEdges
<1>5. ASSUME NEW n \in 1..k
      PROVE  /\ WireLeads(c, new[n]) /\ new[n].from = srcIdx /\ NameOf(new[n]) = ImportOf(wires[n])
             /\ \A m \in 1..(n - 1) : ImportOf(wires[m]) # ImportOf(wires[n])
  <2>1. HandleEdge(c, srcIdx, wires[n], WireIsRepeated(wires, n)).err = ""
    BY <1>1, <1>3 DEF Failures
  <2>2. new[n] = HandleEdge(c, srcIdx, wires[n], WireIsRepeated(wires, n)).e
    BY <1>1
  <2>3. PICK edge, wire : edge = new[n] /\ wire = wires[n]
    OBVIOUS
  <2>4. WireIsRepeated(wires, n) \in BOOLEAN
    BY DEF WireIsRepeated
  <2>5. PICK repeated \in BOOLEAN : repeated = WireIsRepeated(wires, n)
    BY <2>4
  <2> HIDE DEF new
  <2>6. HandleEdge(c, srcIdx, wire, repeated).err = "" /\ edge = HandleEdge(c, srcIdx, wire, repeated).e
    BY <2>1, <2>2, <2>3, <2>5
  <2>7. WireRead(c, srcIdx, wire, repeated, edge)
    BY <2>6, WireIsRead
  <2>8. ~WireIsRepeated(wires, n)
    BY <2>5, <2>7 DEF WireRead
  <2> QED
    BY <2>3, <2>7, <2>8 DEF WireIsRepeated, WireRead
<1>6. IsList(new) /\ Len(new) = k
  BY <1>1, FunctionIsList
<1>7. ASSUME NEW m \in 1..k, NEW n \in 1..k, m # n
      PROVE  ImportOf(wires[m]) # ImportOf(wires[n])
  <2>1. m \in 1..(n - 1) \/ n \in 1..(m - 1)
    <3> HIDE DEF k
    <3> QED
      BY <1>1, <1>7, OneIsFirst
  <2> HIDE DEF new, k
  <2> QED
    BY <1>5, <2>1
<1> HIDE DEF new
<1>8. BodyRead(c, srcIdx, wires, new)
  BY <1>5, <1>6, <1>7 DEF BodyRead
<1>9. GameOK(d) /\ d.insts = c.insts /\ d.edges = c.edges \o new
  <2>1. PICK all : all = c.edges \o new
    OBVIOUS
  <2>2. IsList(all)
    BY <1>6, <2>1, ListConcat DEF GameOK
  <2>3. EdgesSet(c, all, d)
    BY <1>4, <2>1 DEF EdgesSet
  <2>4. GameOK(d) /\ d.insts = c.insts /\ d.edges = all
    BY <2>2, <2>3, EdgesAreAdded
  <2> QED
    BY <2>1, <2>4
<1> QED
  BY <1>8, <1>9 DEF EdgesRead

LEMMA EdgesAreWired ==
  ASSUME NEW c, NEW bs, NEW P, Wired(c, bs, P), NEW p, p \notin P,
         NEW srcIdx \in DOMAIN c.insts, BodyAt(bs, p).src = c.insts[srcIdx].name,
         NEW wires, IsList(wires), NEW d, d = HandleEdges(c, srcIdx, wires), NoError(d)
  PROVE  Wired(d, bs, P \union {p})
<1> DEFINE Q == P \union {p}
<1>1. GameOK(c)
  BY DEF Wired
<1>2. PICK new : /\ BodyRead(c, srcIdx, wires, new)
                 /\ GameOK(d) /\ d.insts = c.insts /\ d.edges = c.edges \o new
  <2>1. EdgesRead(c, srcIdx, wires, d)
    BY <1>1, EdgesAreRead DEF NoError
  <2> QED
    BY <2>1 DEF EdgesRead
<1>3. Len(c.edges) \in Nat /\ DOMAIN c.edges = 1..Len(c.edges) /\ Len(wires) \in Nat
  BY <1>1, ListFacts DEF GameOK
<1>4. PICK j \in Nat, k \in Nat : j = Len(c.edges) /\ k = Len(wires)
  BY <1>3
<1> HIDE DEF Q
<1>5. /\ IsList(new) /\ Len(new) = k
      /\ \A n \in 1..k : WireLeads(c, new[n]) /\ new[n].from = srcIdx /\ NameOf(new[n]) = ImportOf(wires[n])
      /\ \A m, n \in 1..k : m # n => ImportOf(wires[m]) # ImportOf(wires[n])
  BY <1>2, <1>4 DEF BodyRead
<1>6. DOMAIN c.edges = 1..j
  BY <1>3, <1>4
<1>7. /\ DOMAIN d.edges = 1..(j + k)
      /\ \A m \in 1..(j + k) : d.edges[m] = IF m <= j THEN c.edges[m] ELSE new[m - j]
  <2>1. PICK s, all : s = c.edges /\ all = s \o new
    OBVIOUS
  <2>2. IsList(s) /\ Len(s) = j
    BY <1>1, <1>4, <2>1 DEF GameOK
  <2>3. /\ IsList(s \o new) /\ Len(s \o new) = Len(s) + Len(new)
        /\ \A m \in 1..(Len(s) + Len(new)) : (s \o new)[m] = IF m <= Len(s) THEN s[m] ELSE new[m - Len(s)]
    BY <1>5, <2>2, ListConcat
  <2>4. /\ IsList(all) /\ Len(all) = j + k
        /\ \A m \in 1..(j + k) : all[m] = IF m <= j THEN s[m] ELSE new[m - j]
    BY <1>5, <2>1, <2>2, <2>3
  <2> QED
    BY <1>2, <2>1, <2>4, ListFacts
<1> DEFINE Old(m) == m \in 1..j /\ d.edges[m] = c.edges[m]
           Added(m) == m - j \in 1..k /\ m \in Nat /\ d.edges[m] = new[m - j]
<1>8. ASSUME NEW m \in DOMAIN d.edges
      PROVE  Old(m) \/ Added(m)
  BY <1>7, InFirstOrSecond
<1>9. \A m : Old(m) => m \in DOMAIN c.edges /\ SourceOf(d, m) = SourceOf(c, m)
  BY <1>2, <1>6 DEF SourceOf
<1>10. \A m : Added(m) => /\ d.edges[m].from = srcIdx /\ SourceOf(d, m) = c.insts[srcIdx].name
                         /\ NameOf(d.edges[m]) = ImportOf(wires[m - j]) /\ WireLeads(c, d.edges[m])
  BY <1>2, <1>5 DEF SourceOf
<1>11. BodiesOf(bs, Q, c.insts[srcIdx].name) = BodiesOf(bs, P, c.insts[srcIdx].name) \union {p}
  BY DEF BodiesOf, Q
<1>12. \A name : BodiesOf(bs, P, name) \subseteq BodiesOf(bs, Q, name) /\ p \notin BodiesOf(bs, P, name)
  BY DEF BodiesOf, Q
<1>13. ASSUME NEW m \in DOMAIN d.edges
       PROVE  WireLeads(d, d.edges[m])
  <2>1. WireLeads(c, d.edges[m])
    <3>1. CASE Old(m)
      BY <1>9, <3>1 DEF Wired
    <3>2. CASE Added(m)
      BY <1>10, <3>2
    <3> QED
      BY <1>8, <3>1, <3>2
  <2>2. PICK edge : edge = d.edges[m]
    OBVIOUS
  <2>3. WireLeads(d, edge)
    BY <1>2, <2>1, <2>2, WireStillLeads
  <2> QED
    BY <2>2, <2>3
<1>14. ASSUME NEW m \in DOMAIN d.edges
       PROVE  BodiesOf(bs, Q, SourceOf(d, m)) # {}
  <2>1. CASE Old(m)
    BY <1>9, <1>12, <2>1 DEF Wired
  <2>2. CASE Added(m)
    BY <1>10, <1>11, <2>2
  <2> QED
    BY <1>8, <2>1, <2>2
<1>15. ASSUME NEW m \in DOMAIN d.edges, NEW o \in DOMAIN d.edges, Rivals(d, m, o)
       PROVE  \E q, r \in BodiesOf(bs, Q, SourceOf(d, m)) : q # r
  <2>1. m # o /\ d.edges[m].from = d.edges[o].from /\ NameOf(d.edges[m]) = NameOf(d.edges[o])
    BY <1>15 DEF Rivals
  <2>2. SourceOf(d, m) = SourceOf(d, o)
    BY <2>1 DEF SourceOf
  <2>3. CASE Old(m) /\ Old(o)
    <3>1. Rivals(c, m, o)
      BY <2>1, <2>3 DEF Rivals
    <3>2. m \in DOMAIN c.edges /\ o \in DOMAIN c.edges /\ SourceOf(d, m) = SourceOf(c, m)
      BY <1>9, <2>3
    <3> HIDE DEF Old, Added
    <3>3. PICK q, r \in BodiesOf(bs, P, SourceOf(c, m)) : q # r
      BY <3>1, <3>2 DEF Wired
    <3> QED
      BY <1>12, <3>2, <3>3
  <2> DEFINE Two(name) == \E q, r \in BodiesOf(bs, Q, name) : q # r
  <2>4. ASSUME NEW a, NEW b, Old(a), Added(b), SourceOf(d, a) = SourceOf(d, b)
        PROVE  Two(SourceOf(d, b))
    <3>1. PICK q \in BodiesOf(bs, P, SourceOf(c, a)) : TRUE
      BY <1>9, <2>4 DEF Wired
    <3>2. SourceOf(d, b) = c.insts[srcIdx].name /\ SourceOf(c, a) = SourceOf(d, b)
      BY <1>9, <1>10, <2>4
    <3>3. q # p
      BY <1>12, <3>1
    <3> QED
      BY <1>11, <1>12, <3>1, <3>2, <3>3
  <2>5. ~(Added(m) /\ Added(o))
    <3> SUFFICES ASSUME Added(m), Added(o)
                 PROVE  FALSE
      OBVIOUS
    <3>1. m - j \in 1..k /\ o - j \in 1..k /\ m - j # o - j
      BY <2>1, DifferentInSecond
    <3>2. ImportOf(wires[m - j]) = ImportOf(wires[o - j])
      BY <1>10, <2>1
    <3> QED
      BY <1>5, <3>1, <3>2
  <2>6. CASE Old(m) /\ Added(o)
    <3> HIDE DEF Old, Added, Two
    <3>1. Two(SourceOf(d, o))
      BY <2>2, <2>4, <2>6
    <3> QED
      BY <2>2, <3>1 DEF Two
  <2>7. CASE Old(o) /\ Added(m)
    <3> HIDE DEF Old, Added, Two
    <3>1. Two(SourceOf(d, m))
      BY <2>2, <2>4, <2>7
    <3> QED
      BY <3>1 DEF Two
  <2> HIDE DEF Old, Added
  <2> QED
    BY <1>8, <2>3, <2>5, <2>6, <2>7
<1> QED
  BY <1>2, <1>13, <1>14, <1>15 DEF Wired, Q

LEMMA BodyIsWired ==
  ASSUME NEW c, NEW bs, NEW P, NoError(c) => Wired(c, bs, P), NEW p, p \notin P,
         NEW body, body = BodyAt(bs, p), IsList(body.wires),
         NEW d, d = HandleBody(c, body), NoError(d)
  PROVE  Wired(d, bs, P \union {p})
<1>1. c.err = "" /\ Wired(c, bs, P)
  BY DEF HandleBody, NoError
<1>2. GameOK(c) /\ P \subseteq P \union {p}
  BY <1>1 DEF Wired
<1>3. body.wires # <<>>
  <2> SUFFICES ASSUME body.wires = <<>>
               PROVE  FALSE
    OBVIOUS
  <2>1. d = Fail(c, "panic")
    BY <1>1 DEF HandleBody
  <2>2. Fail(c, "panic").err = "panic"
    BY <1>2, GameFailKeeps
  <2> QED
    BY <2>1, <2>2 DEF NoError
<1>4. CASE body.src = "adversary"
  <2>1. d = HandleExports(c, body.wires)
    BY <1>1, <1>3, <1>4 DEF HandleBody
  <2>2. PICK wires, Q : wires = body.wires /\ Q = P \union {p}
    OBVIOUS
  <2>3. SameWires(c, d)
    BY <1>2, <2>1, <2>2, ExportsKeepWires
  <2>4. Wired(d, bs, Q)
    BY <1>1, <1>2, <2>2, <2>3, WiresStay
  <2> QED
    BY <2>2, <2>4
<1>5. CASE body.src # "adversary"
  <2> DEFINE srcIdx == CHOOSE n \in InstanceNamed(c, body.src) : TRUE
  <2>1. InstanceNamed(c, body.src) # {}
    <3> SUFFICES ASSUME InstanceNamed(c, body.src) = {}
                 PROVE  FALSE
      OBVIOUS
    <3>1. d = Fail(c, "error")
      BY <1>1, <1>3, <1>5 DEF HandleBody
    <3>2. Fail(c, "error").err = "error"
      BY <1>2, GameFailKeeps
    <3> QED
      BY <3>1, <3>2 DEF NoError
  <2>2. d = HandleEdges(c, srcIdx, body.wires)
    BY <1>1, <1>3, <1>5, <2>1 DEF HandleBody
  <2>3. srcIdx \in InstanceNamed(c, body.src)
    BY <2>1
  <2>4. srcIdx \in DOMAIN c.insts /\ c.insts[srcIdx].name = BodyAt(bs, p).src
    BY <2>3 DEF InstanceNamed
  <2>5. PICK wires, idx : wires = body.wires /\ idx = srcIdx
    OBVIOUS
  <2> HIDE DEF srcIdx
  <2>6. idx \in DOMAIN c.insts /\ BodyAt(bs, p).src = c.insts[idx].name
    BY <2>4, <2>5
  <2>7. IsList(wires) /\ d = HandleEdges(c, idx, wires)
    BY <2>2, <2>5
  <2> QED
    BY <1>1, <2>6, <2>7, EdgesAreWired
<1> QED
  BY <1>4, <1>5

(* The bodies of a compose block, one after the other.                     *)
BodiesRun(c, bodies, k, g) ==
  g = [n \in 0..k |-> IF n = 0 THEN c ELSE HandleBody(g[n - 1], bodies[n])]

LEMMA BodiesAreRun ==
  ASSUME NEW c, NEW bodies, NEW k \in Nat
  PROVE  \E g : BodiesRun(c, bodies, k, g)
<1> DEFINE A == {n \in Nat : \E g : BodiesRun(c, bodies, n, g)}
<1>1. 0 \in A
  <2>1. BodiesRun(c, bodies, 0, [n \in 0..0 |-> c])
    BY DEF BodiesRun
  <2> QED
    BY <2>1
<1>2. ASSUME NEW n \in Nat, n \in A
      PROVE  n + 1 \in A
  <2>1. PICK g : BodiesRun(c, bodies, n, g)
    BY <1>2
  <2> DEFINE h == [i \in 0..(n + 1) |-> IF i <= n THEN g[i] ELSE HandleBody(g[n], bodies[n + 1])]
  <2>2. ASSUME NEW i \in 0..(n + 1)
        PROVE  h[i] = IF i = 0 THEN c ELSE HandleBody(h[i - 1], bodies[i])
    <3>1. CASE i = n + 1
      <4>1. h[i] = HandleBody(g[n], bodies[n + 1]) /\ h[i - 1] = g[n] /\ i # 0
        BY <3>1
      <4> HIDE DEF h
      <4> QED
        BY <3>1, <4>1
    <3>2. CASE i # n + 1
      <4>1. h[i] = g[i] /\ i \in 0..n /\ (i # 0 => h[i - 1] = g[i - 1])
        BY <3>2
      <4>2. g[i] = IF i = 0 THEN c ELSE HandleBody(g[i - 1], bodies[i])
        BY <2>1, <4>1 DEF BodiesRun
      <4> HIDE DEF h
      <4> QED
        BY <4>1, <4>2
    <3> QED
      BY <3>1, <3>2
  <2>3. BodiesRun(c, bodies, n + 1, h)
    <3>1. h = [i \in 0..(n + 1) |-> h[i]]
      OBVIOUS
    <3> HIDE DEF h
    <3> QED
      BY <2>2, <3>1 DEF BodiesRun
  <2> QED
    BY <2>3
<1>3. Nat \subseteq A
  <2> HIDE DEF A
  <2> QED
    BY <1>1, <1>2, NaturalInduction
<1> QED
  BY <1>3

LEMMA ComposeRuns ==
  ASSUME NEW c, NEW bodies, IsList(bodies)
  PROVE  \E g : BodiesRun(c, bodies, Len(bodies), g) /\ HandleCompose(c, bodies) = g[Len(bodies)]
<1> DEFINE g == CHOOSE g : BodiesRun(c, bodies, Len(bodies), g)
<1>1. BodiesRun(c, bodies, Len(bodies), g)
  <2>1. Len(bodies) \in Nat
    BY ListFacts
  <2>2. \E h : BodiesRun(c, bodies, Len(bodies), h)
    BY <2>1, BodiesAreRun
  <2> QED
    BY <2>2
<1>2. HandleCompose(c, bodies) = g[Len(bodies)]
  BY DEF HandleCompose, BodiesRun
<1> QED
  BY <1>1, <1>2

NoneIn(P, k) == \A p \in P : p[1] # k
BodiesWritten(bodies) == IsList(bodies) /\ \A n \in DOMAIN bodies : IsList(bodies[n].wires)
PairsTo(k, n) == {<<k, i>> : i \in 1..n}
LEMMA PairsGrow ==
  ASSUME NEW k, NEW n \in Nat
  PROVE  /\ PairsTo(k, 0) = {}
         /\ PairsTo(k, n + 1) = PairsTo(k, n) \union {<<k, n + 1>>}
         /\ <<k, n + 1>> \notin PairsTo(k, n)
<1>1. 1..(n + 1) = (1..n) \union {n + 1} /\ n + 1 \notin 1..n /\ 1..0 = {}
  OBVIOUS
<1> QED
  BY <1>1 DEF PairsTo

LEMMA ComposeIsWired ==
  ASSUME NEW c, NEW bs, NEW P, Wired(c, bs, P), NEW k, NoneIn(P, k),
         NEW bodies, bodies = bs[k].bodies, BodiesWritten(bodies),
         NEW d, d = HandleCompose(c, bodies), NoError(d)
  PROVE  Wired(d, bs, P \union ({k} \X DOMAIN bodies))
<1>1. Len(bodies) \in Nat /\ DOMAIN bodies = 1..Len(bodies)
  BY ListFacts DEF BodiesWritten
<1>2. PICK last \in Nat : last = Len(bodies) /\ DOMAIN bodies = 1..last
  BY <1>1
<1>3. PICK g : BodiesRun(c, bodies, last, g) /\ d = g[last]
  BY <1>2, ComposeRuns DEF BodiesWritten
<1> DEFINE Q(n) == P \union PairsTo(k, n)
           WiredTo(n) == NoError(g[n]) => Wired(g[n], bs, Q(n))
<1>4. WiredTo(0)
  <2>1. g[0] = c
    BY <1>3 DEF BodiesRun
  <2>2. Q(0) = P
    BY PairsGrow
  <2> HIDE DEF Q
  <2> QED
    BY <2>1, <2>2
<1>5. ASSUME NEW n \in Nat, n + 1 <= last, WiredTo(n)
      PROVE  WiredTo(n + 1)
  <2> SUFFICES ASSUME NoError(g[n + 1])
               PROVE  Wired(g[n + 1], bs, Q(n + 1))
    OBVIOUS
  <2>1. n + 1 \in 0..last /\ n + 1 \in 1..last /\ n + 1 # 0 /\ (n + 1) - 1 = n
    BY <1>5
  <2>2. g[n + 1] = HandleBody(g[n], bodies[n + 1])
    BY <1>3, <2>1 DEF BodiesRun
  <2> DEFINE p == <<k, n + 1>>
  <2>3. p \notin P /\ p[1] = k /\ p[2] = n + 1
    BY DEF NoneIn
  <2>4. p \notin Q(n) /\ Q(n + 1) = Q(n) \union {p}
    BY <2>3, PairsGrow
  <2>5. PICK a, b, body, q, S : a = g[n] /\ b = g[n + 1] /\ body = bodies[n + 1] /\ q = p /\ S = Q(n)
    OBVIOUS
  <2>6. NoError(a) => Wired(a, bs, S)
    BY <1>5, <2>5
  <2> HIDE DEF Q, p
  <2>7. body = BodyAt(bs, q) /\ IsList(body.wires) /\ q \notin S
    BY <1>2, <2>1, <2>3, <2>4, <2>5 DEF BodyAt, BodiesWritten
  <2>8. b = HandleBody(a, body) /\ NoError(b)
    BY <2>2, <2>5
  <2>9. Wired(b, bs, S \union {q})
    BY <2>6, <2>7, <2>8, BodyIsWired
  <2> QED
    BY <2>4, <2>5, <2>9
<1> DEFINE A == {n \in Nat : n <= last => WiredTo(n)}
<1> HIDE DEF WiredTo
<1>6. 0 \in A
  BY <1>4
<1>7. ASSUME NEW n \in Nat, n \in A
      PROVE  n + 1 \in A
  <2>1. n + 1 <= last => n <= last
    OBVIOUS
  <2> QED
    BY <1>5, <1>7, <2>1
<1>8. Nat \subseteq A
  <2> HIDE DEF A
  <2> QED
    BY <1>6, <1>7, NaturalInduction
<1>9. WiredTo(last)
  BY <1>8
<1>10. Q(last) = P \union ({k} \X DOMAIN bodies)
  <2>1. PairsTo(k, last) = {k} \X (1..last)
    BY DEF PairsTo
  <2> QED
    BY <1>2, <2>1
<1> HIDE DEF Q
<1> QED
  BY <1>3, <1>9, <1>10 DEF WiredTo

-----------------------------------------------------------------------------
(* The blocks of a file.                                                   *)
LEMMA BodiesOfNextBlock ==
  ASSUME NEW bs, NEW k \in Nat
  PROVE  /\ BodiesUpTo(bs, k) \subseteq BodiesUpTo(bs, k + 1)
         /\ NoneIn(BodiesUpTo(bs, k), k + 1)
         /\ bs[k + 1].b = "compose" =>
              BodiesUpTo(bs, k + 1) = BodiesUpTo(bs, k) \union ({k + 1} \X DOMAIN bs[k + 1].bodies)
<1> DEFINE D(n) == {n} \X DOMAIN bs[n].bodies
<1>1. 1..(k + 1) = (1..k) \union {k + 1} /\ k + 1 \notin 1..k
  OBVIOUS
<1>2. ComposeBlocks(bs, k) \subseteq ComposeBlocks(bs, k + 1) /\ k + 1 \notin ComposeBlocks(bs, k)
  BY <1>1 DEF ComposeBlocks
<1>3. bs[k + 1].b = "compose" => ComposeBlocks(bs, k + 1) = ComposeBlocks(bs, k) \union {k + 1}
  BY <1>1 DEF ComposeBlocks
<1>4. \A i, p : p \in BodiesUpTo(bs, i) <=> \E n \in ComposeBlocks(bs, i) : p \in D(n)
  BY DEF BodiesUpTo
<1>5. \A n : \A p \in D(n) : p[1] = n
  OBVIOUS
<1> HIDE DEF D
<1>6. NoneIn(BodiesUpTo(bs, k), k + 1)
  BY <1>2, <1>4, <1>5 DEF NoneIn
<1>7. BodiesUpTo(bs, k) \subseteq BodiesUpTo(bs, k + 1)
  BY <1>2, <1>4
<1>8. ASSUME bs[k + 1].b = "compose"
      PROVE  BodiesUpTo(bs, k + 1) = BodiesUpTo(bs, k) \union D(k + 1)
  <2>1. ASSUME NEW p
        PROVE  p \in BodiesUpTo(bs, k + 1) <=> p \in BodiesUpTo(bs, k) \/ p \in D(k + 1)
    BY <1>3, <1>4, <1>8
  <2> QED
    BY <2>1
<1> QED
  BY <1>6, <1>7, <1>8 DEF D

LEMMA GameBlockIsWired ==
  ASSUME NEW c, NEW bs, NEW k \in Nat, Wired(c, bs, BodiesUpTo(bs, k)), GameBlockWritten(bs[k + 1]),
         NEW pkgs, NEW d, d = HandleSpec(c, pkgs, bs[k + 1]), NoError(d)
  PROVE  Wired(d, bs, BodiesUpTo(bs, k + 1))
<1>1. PICK P, Q, i, spec : /\ P = BodiesUpTo(bs, k) /\ Q = BodiesUpTo(bs, k + 1)
                           /\ i = k + 1 /\ spec = bs[i]
  OBVIOUS
<1>2. /\ P \subseteq Q /\ NoneIn(P, i)
      /\ spec.b = "compose" => Q = P \union ({i} \X DOMAIN spec.bodies)
  BY <1>1, BodiesOfNextBlock
<1>3. GameOK(c) /\ Wired(c, bs, P) /\ GameBlockWritten(spec) /\ d = HandleSpec(c, pkgs, spec)
  BY <1>1 DEF Wired
<1>4. CASE spec.b = "const"
  <2>1. SameWires(c, d)
    BY <1>3, <1>4, GameConstKeeps DEF HandleSpec
  <2>2. Wired(d, bs, Q)
    BY <1>2, <1>3, <2>1, WiresStay
  <2> QED
    BY <1>1, <2>2
<1>5. CASE spec.b = "instance"
  <2>1. SameWires(c, d)
    BY <1>3, <1>5, GameInstanceKeeps DEF HandleSpec
  <2>2. Wired(d, bs, Q)
    BY <1>2, <1>3, <2>1, WiresStay
  <2> QED
    BY <1>1, <2>2
<1>6. CASE spec.b = "compose"
  <2>1. PICK bodies : bodies = spec.bodies
    OBVIOUS
  <2>2. d = HandleCompose(c, bodies)
    BY <1>3, <1>6, <2>1 DEF HandleSpec
  <2>3. BodiesWritten(bodies)
    BY <1>3, <1>6, <2>1 DEF GameBlockWritten, BodiesWritten
  <2>4. bodies = bs[i].bodies
    BY <1>1, <2>1
  <2>5. Wired(d, bs, P \union ({i} \X DOMAIN bodies))
    BY <1>2, <1>3, <2>2, <2>3, <2>4, ComposeIsWired
  <2> QED
    BY <1>1, <1>2, <1>6, <2>1, <2>5
<1>7. spec.b \in {"const", "instance", "compose"}
  BY <1>3 DEF GameBlockWritten
<1> QED
  BY <1>4, <1>5, <1>6, <1>7

LEMMA NoWiresAtStart ==
  ASSUME NEW name, NEW bs, NEW P
  PROVE  Wired(GameContext(name), bs, P)
<1> DEFINE c == GameContext(name)
<1>1. /\ c.insts = <<>> /\ c.edges = <<>>
      /\ c = [name |-> c.name, scope |-> c.scope, types |-> c.types, consts |-> c.consts,
              insts |-> c.insts, edges |-> c.edges, exports |-> c.exports, err |-> c.err]
  BY DEF GameContext
<1> HIDE DEF c
<1>2. GameOK(c)
  BY <1>1, NoPair DEF GameOK
<1>3. DOMAIN c.edges = {}
  <2>1. DOMAIN <<>> = {}
    OBVIOUS
  <2> QED
    BY <1>1, <2>1
<1>4. Wired(c, bs, P)
  BY <1>2, <1>3 DEF Wired
<1> QED
  BY <1>4 DEF c

(* At the end of the file every import has a wire.                         *)
LEMMA WiresFitInTheEnd ==
  ASSUME NEW c, NEW bs, Wired(c, bs, BodiesUpTo(bs, Len(bs))), NEW d, d = FinishGame(c), NoError(d)
  PROVE  WiresFit(d, bs)
<1>1. GameOK(c)
  BY DEF Wired
<1>2. MissingEdges(c) = {} /\ d = c
  <2>1. Fail(c, "error").err = "error"
    BY <1>1, GameFailKeeps
  <2> QED
    BY <2>1 DEF FinishGame, NoError
<1>3. ASSUME NEW n \in DOMAIN c.insts, NEW import \in Range(c.insts[n].pkg.imports)
      PROVE  \E edge \in Range(c.edges) : edge.from = n /\ NameOf(edge) = import.name
  <2> DEFINE Wanted(i) == {<<i, x.name>> : x \in Range(c.insts[i].pkg.imports)}
             wired == {<<edge.from, NameOf(edge)>> : edge \in Range(c.edges)}
  <2>1. <<n, import.name>> \in wired
    <3>1. (UNION {Wanted(i) : i \in DOMAIN c.insts}) \ wired = {}
      BY <1>2 DEF MissingEdges
    <3>2. <<n, import.name>> \in Wanted(n)
      OBVIOUS
    <3> HIDE DEF Wanted, wired
    <3>3. \A i \in DOMAIN c.insts : Wanted(i) \subseteq wired
      BY <3>1
    <3> QED
      BY <1>3, <3>2, <3>3
  <2>2. PICK edge \in Range(c.edges) : <<n, import.name>> = <<edge.from, NameOf(edge)>>
    BY <2>1
  <2> QED
    BY <2>2
<1>4. ASSUME NEW edge \in Range(c.edges)
      PROVE  WireLeads(c, edge)
  <2>1. PICK m \in DOMAIN c.edges : edge = c.edges[m]
    BY DEF Range
  <2>2. WireLeads(c, c.edges[m])
    BY DEF Wired
  <2> QED
    BY <2>1, <2>2
<1>5. ASSUME NEW m \in DOMAIN c.edges, NEW o \in DOMAIN c.edges, Rivals(c, m, o)
      PROVE  \E p, q \in BodiesFor(bs, Len(bs), c.insts[c.edges[m].from].name) : p # q
  <2>1. \A name : BodiesFor(bs, Len(bs), name) = BodiesOf(bs, BodiesUpTo(bs, Len(bs)), name)
    BY DEF BodiesFor, BodiesOf, BodyAt
  <2>2. \E p, q \in BodiesOf(bs, BodiesUpTo(bs, Len(bs)), SourceOf(c, m)) : p # q
    BY <1>5 DEF Wired
  <2> QED
    BY <2>1, <2>2 DEF SourceOf
<1> QED
  BY <1>2, <1>3, <1>4, <1>5 DEF WiresFit

-----------------------------------------------------------------------------
(* The inductive invariant: the game that is being read has the wires of   *)
(* the blocks read so far, and those that were read are complete.          *)
WiresSoFar ==
  stage = "games" /\ err = "" /\ block > 0 =>
    block <= Len(Current.blocks) /\ Wired(ctx, Current.blocks, BodiesUpTo(Current.blocks, block))
GamesFit ==
  stage = "games" /\ err = "" => \A g \in DOMAIN games : WiresFit(games[g], FileOf(g).blocks)
GamesInv == (stage = "packages" => DOMAIN games = {}) /\ WiresSoFar /\ GamesFit

LEMMA GameIsWritten ==
  ASSUME Position, Reading("games")
  PROVE  /\ IsList(Current.blocks) /\ Len(Current.blocks) \in Nat
         /\ DOMAIN Current.blocks = 1..Len(Current.blocks)
         /\ \A n \in DOMAIN Current.blocks : GameBlockWritten(Current.blocks[n])
<1>1. Files = input.files.games
  BY DEF Reading, Files
<1>2. IsList(Files) /\ Len(Files) \in Nat /\ file < Len(Files) /\ file \in Nat
  BY FilesAreListed DEF Reading, Position, Parsing
<1>3. file + 1 \in DOMAIN Files
  BY <1>2, ListFacts
<1>4. Current \in Range(input.files.games)
  BY <1>1, <1>2, <1>3, ListFacts DEF Current
<1>5. IsList(Current.blocks) /\ \A n \in DOMAIN Current.blocks : GameBlockWritten(Current.blocks[n])
  BY <1>4, InputsAssumption DEF Position
<1> QED
  BY <1>5, ListFacts

LEMMA GameSoFar ==
  ASSUME Position, WiresSoFar, Reading("games")
  PROVE  block \in Nat /\ Wired(Context, Current.blocks, BodiesUpTo(Current.blocks, block))
<1>1. block \in Nat /\ stage = "games" /\ err = ""
  <2>1. block \in Nat
    BY DEF Position
  <2> QED
    BY <2>1 DEF Reading
<1>2. CASE block = 0
  BY <1>1, <1>2, NoWiresAtStart DEF Context, Fresh
<1>3. CASE block # 0
  <2>1. Context = ctx
    BY <1>3 DEF Context
  <2>2. block > 0
    <3>1. block \in Nat
      BY DEF Position
    <3> QED
      BY <1>3, <3>1
  <2> QED
    BY <1>1, <2>1, <2>2 DEF WiresSoFar
<1> QED
  BY <1>1, <1>2, <1>3

LEMMA GamesUnchanged ==
  ASSUME GamesFit, stage' = stage, err' = err, input' = input, file' = file, games' = games
  PROVE  GamesFit'
<1>1. ASSUME NEW g
      PROVE  FileOf(g)' = FileOf(g)
  BY DEF FileOf, FilesNamed, Files
<1> QED
  BY <1>1 DEF GamesFit

LEMMA GameBlockRead ==
  ASSUME Position, GamesInv, ReadGameBlock
  PROVE  GamesInv'
<1>1. /\ Reading("games") /\ stage = "games" /\ err = "" /\ block < Len(Current.blocks)
      /\ ctx' = HandleSpec(Context, packages, Block) /\ err' = ctx'.err /\ block' = block + 1
      /\ stage' = stage /\ input' = input /\ file' = file /\ games' = games
  BY DEF ReadGameBlock, ReadBlock, Reading
<1>2. Current' = Current
  BY <1>1 DEF Current, Files
<1>3. PICK c, d, bs, pkgs : c = Context /\ d = ctx' /\ bs = Current.blocks /\ pkgs = packages
  OBVIOUS
<1>4. block \in Nat /\ Wired(c, bs, BodiesUpTo(bs, block))
  BY <1>1, <1>3, GameSoFar DEF GamesInv
<1>5. PICK k \in Nat : k = block
  BY <1>4
<1>6. k + 1 \in DOMAIN bs /\ k + 1 <= Len(bs)
  <2>1. DOMAIN bs = 1..Len(bs) /\ Len(bs) \in Nat
    BY <1>1, <1>3, GameIsWritten
  <2>2. k < Len(bs)
    BY <1>1, <1>3, <1>5
  <2> QED
    BY <2>1, <2>2
<1>7. GameBlockWritten(bs[k + 1])
  BY <1>1, <1>3, <1>6, GameIsWritten
<1>8. d = HandleSpec(c, pkgs, bs[k + 1])
  BY <1>1, <1>3, <1>5 DEF Block
<1>9. NoError(d) => Wired(d, bs, BodiesUpTo(bs, k + 1))
  BY <1>4, <1>5, <1>7, <1>8, GameBlockIsWired
<1>10. WiresSoFar'
  <2>1. err' = "" => NoError(d)
    BY <1>1, <1>3 DEF NoError
  <2>2. block' = k + 1 /\ Current'.blocks = bs
    BY <1>1, <1>2, <1>3, <1>5
  <2> QED
    BY <1>3, <1>6, <1>9, <2>1, <2>2 DEF WiresSoFar
<1>11. GamesFit'
  <2>1. CASE err' = ""
    BY <1>1, <2>1, GamesUnchanged DEF GamesInv
  <2>2. CASE err' # ""
    BY <2>2 DEF GamesFit
  <2> QED
    BY <2>1, <2>2
<1> QED
  BY <1>1, <1>10, <1>11 DEF GamesInv

LEMMA GameIsFinished ==
  ASSUME Position, GamesInv, FinishGameFile
  PROVE  GamesInv'
<1>1. /\ Reading("games") /\ stage = "games" /\ err = "" /\ block = Len(Current.blocks)
      /\ file' = file + 1 /\ block' = 0 /\ stage' = stage /\ input' = input
      /\ err' = FinishGame(Context).err
      /\ games' = Inserted(games, Current.name, FinishGame(Context))
  BY DEF FinishGameFile, EndOfFile, NextFile, Reading
<1>2. PICK c, d, bs, name : c = Context /\ d = FinishGame(Context) /\ bs = Current.blocks /\ name = Current.name
  OBVIOUS
<1>3. Wired(c, bs, BodiesUpTo(bs, Len(bs)))
  BY <1>1, <1>2, GameSoFar DEF GamesInv
<1>4. NoError(d) => WiresFit(d, bs)
  BY <1>2, <1>3, WiresFitInTheEnd
<1>5. /\ DOMAIN games' = DOMAIN games \union {name}
      /\ \A g \in DOMAIN games' : games'[g] = IF g = name THEN d ELSE games[g]
  BY <1>1, <1>2 DEF Inserted
<1>6. file \in Nat
  BY DEF Position
<1>7. FileOf(name)'.blocks = bs /\ \A g : g # name => FileOf(g)' = FileOf(g)
  BY <1>1, <1>2, <1>6, FileIsTheLast
<1>8. ASSUME err' = "", NEW g \in DOMAIN games'
      PROVE  WiresFit(games'[g], FileOf(g)'.blocks)
  <2>1. CASE g = name
    BY <1>1, <1>2, <1>4, <1>5, <1>7, <1>8, <2>1 DEF NoError
  <2>2. CASE g # name
    <3>1. WiresFit(games[g], FileOf(g).blocks)
      BY <1>1, <1>5, <2>2 DEF GamesInv, GamesFit
    <3> QED
      BY <1>5, <1>7, <2>2, <3>1
  <2> QED
    BY <2>1, <2>2
<1>9. GamesFit'
  BY <1>8 DEF GamesFit
<1>10. WiresSoFar'
  <2>1. block' = 0
    BY <1>1
  <2>2. ~(block' > 0)
    BY <2>1
  <2> QED
    BY <2>2 DEF WiresSoFar
<1> QED
  BY <1>1, <1>9, <1>10 DEF GamesInv

LEMMA OthersKeepGames ==
  ASSUME Position, GamesInv, [Next]_vars, ~ReadGameBlock, ~FinishGameFile
  PROVE  GamesInv'
<1>1. CASE ReadPackageBlock \/ FinishPackage
  <2>1. stage = "packages" /\ stage' = "packages" /\ games' = games
    BY <1>1 DEF ReadPackageBlock, FinishPackage, ReadBlock, EndOfFile, NextFile, Reading
  <2> QED
    BY <2>1 DEF GamesInv, WiresSoFar, GamesFit
<1>2. CASE ReadTheoremBlock \/ FinishTheorem
  <2>1. stage' = "theorems"
    BY <1>2 DEF ReadTheoremBlock, FinishTheorem, ReadBlock, EndOfFile, NextFile, Reading
  <2> QED
    BY <2>1 DEF GamesInv, WiresSoFar, GamesFit
<1>3. CASE NextStage
  <2>1. /\ stage \in Parsing /\ file = Len(Files) /\ games' = games /\ block' = block
        /\ stage' = "games" => stage = "packages"
        /\ stage' # "packages"
    BY <1>3 DEF NextStage, Parsing
  <2>2. ~(block' > 0)
    <3>1. file \in Nat /\ ~(file < Len(Files))
      BY <2>1 DEF Position
    <3> QED
      BY <2>1, <3>1 DEF Position
  <2>3. stage' = "games" => DOMAIN games' = {}
    BY <2>1 DEF GamesInv
  <2> QED
    BY <2>1, <2>2, <2>3 DEF GamesInv, WiresSoFar, GamesFit
<1>4. CASE StartTheorem \/ PassHop \/ ProveHop \/ FinishTheoremProof \/ Done
  <2>1. stage' \in {"prove", "done"}
    BY <1>4 DEF StartTheorem, PassHop, ProveHop, FinishTheoremProof, Done, AtHop
  <2> QED
    BY <2>1 DEF GamesInv, WiresSoFar, GamesFit
<1>5. CASE Stop \/ UNCHANGED vars
  <2>1. /\ stage' = stage /\ err' = err /\ input' = input /\ file' = file /\ games' = games
        /\ block' = block /\ ctx' = ctx
    BY <1>5 DEF Stop, vars
  <2>2. Current' = Current
    BY <2>1 DEF Current, Files
  <2>3. GamesFit' /\ WiresSoFar'
    BY <2>1, <2>2, GamesUnchanged DEF GamesInv, WiresSoFar
  <2> QED
    BY <2>1, <2>3 DEF GamesInv
<1> QED
  BY <1>1, <1>2, <1>3, <1>4, <1>5 DEF Next

(* In every game that was read, whatever files there are, each import of   *)
(* each instance has a wire, every wire leads to an oracle of that         *)
(* signature, and there are two of a name only where two bodies are        *)
(* written (handle_edges_compose_assign_list, handle_comp_spec_list).      *)
THEOREM WiresAreComplete == Spec => []WiresComplete
<1>1. Init => GamesInv
  <2> SUFFICES ASSUME Init
               PROVE  GamesInv
    OBVIOUS
  <2>1. stage = "packages" /\ games = <<>>
    BY DEF Init, Nothing
  <2>2. DOMAIN <<>> = {}
    OBVIOUS
  <2> QED
    BY <2>1, <2>2 DEF GamesInv, WiresSoFar, GamesFit
<1>2. ReadInv /\ GamesInv /\ [Next]_vars => GamesInv'
  BY GameBlockRead, GameIsFinished, OthersKeepGames DEF ReadInv
<1>3. GamesInv => WiresComplete
  BY DEF GamesInv, GamesFit, WiresComplete, NewGames
<1>4. Spec => []ReadInv
  BY ReadAndProved, PTL
<1> QED
  BY <1>1, <1>2, <1>3, <1>4, PTL DEF Spec
=============================================================================
