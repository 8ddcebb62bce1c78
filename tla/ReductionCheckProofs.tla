------------------------ MODULE ReductionCheckProofs ------------------------
(***************************************************************************)
(* Proofs about ReductionCheck, for any games, mapping specs and order of  *)
(* the exports.                                                            *)
(***************************************************************************)
EXTENDS ReductionCheck, RecursionProofs

GameNames == Assumption \cup Constructions
SpecSet == [assumption : GameNames, construction : GameNames, entries : EntrySets]

(* The games that were looked up.                                          *)
TypeInv ==
    /\ specs \in Seq(SpecSet) /\ Len(specs) <= 2
    /\ DOMAIN game \subseteq GameNames
    /\ \A n \in DOMAIN game : IsGame(game[n])
    /\ verdict \in {"checking", "rejected", "panicked", "accepted"}

(* What each mapping spec that was read has passed.                        *)
Passed(s) ==
    /\ NamesFit(s) /\ s.assumption \in DOMAIN game /\ s.construction \in DOMAIN game
    /\ EntriesFit(s) /\ CrossCutWiresExported(s) /\ CrossCutExportsExported(s)
    /\ WiresStayInside(s) /\ WiresOfConstructionKnown(s) /\ WiresOfAssumptionPresent(s)

SpecsPassed == verdict \in {"checking", "accepted"} => \A k \in DOMAIN specs : Passed(specs[k])

(* The comparison has begun, or is over, only for the games of the header. *)
Comparing == verdict = "accepted" \/ (verdict = "checking" /\ (exports # {} \/ pending # <<>>))

Matched ==
    Comparing =>
        /\ Len(specs) = 2
        /\ LeftSpec.construction = LeftName /\ RightSpec.construction = RightName

(* The pairs compared so far, and what follows from them, are alike or     *)
(* still to be compared.                                                   *)
Pairs == (DOMAIN Left.inst) \X (DOMAIN Right.inst)
Alike(p) ==
    \/ p[1] \in Mapped(LeftSpec) /\ p[2] \in Mapped(RightSpec)
    \/ InRests(p) /\ Left.inst[p[1]] = Right.inst[p[2]]
Follows(p, i) == <<Left.wires[p[1]][i].to, Right.wires[p[2]][i].to>>
Begins(x) == <<Left.exports[x].to, Right.exports[x].to>>
IsPending(p) == \E n \in 1..Len(pending) : pending[n] = p

Compared(C) ==
    /\ C \subseteq Pairs /\ \A p \in C : Alike(p)
    /\ \A p \in C : InRests(p) =>
          \A i \in ImportSet(Left, p[1]) : Follows(p, i) \in C \/ IsPending(Follows(p, i))
    /\ \A x \in DOMAIN Left.exports \ exports :
          x \in DOMAIN Right.exports /\ (Begins(x) \in C \/ IsPending(Begins(x)))

Progress ==
    Comparing =>
        /\ exports \subseteq DOMAIN Left.exports /\ pending \in Seq(Pairs)
        /\ verdict = "accepted" => exports = {} /\ pending = <<>> /\ LeftSpec.assumption # RightSpec.assumption
                                                /\ LeftName # RightName
        /\ \E C : Compared(C)

(* In a genuine reduction nothing but what is reached is compared.         *)
OnlyReached == Comparing /\ Genuine => \A n \in 1..Len(pending) : pending[n] \in Reached

(* Why a reduction was refused: for its last mapping spec, or later.       *)
Refused ==
    verdict \in {"rejected", "panicked"} =>
        \/ /\ Len(specs) > 0
           /\ ~(NamesFit(specs[Len(specs)]) /\ MappingVerdict(specs[Len(specs)]) = "checking")
        \/ Len(specs) = 2 /\ ~Genuine

CheckInv == TypeInv /\ SpecsPassed /\ Matched /\ Progress /\ OnlyReached /\ Refused

-----------------------------------------------------------------------------
LEMMA GameParts ==
  ASSUME NEW g, IsGame(g)
  PROVE  /\ IsFiniteSet(DOMAIN g.inst)
         /\ \A i \in DOMAIN g.inst :
              /\ g.inst[i] = [pkg |-> g.inst[i].pkg, params |-> g.inst[i].params]
              /\ g.inst[i].pkg \in DOMAIN Imports
              /\ \A x \in ImportSet(g, i) : /\ g.wires[i][x].to \in DOMAIN g.inst
                                            /\ g.wires[i][x] = [to |-> g.wires[i][x].to, oracle |-> g.wires[i][x].oracle]
         /\ \A x \in DOMAIN g.exports : /\ g.exports[x].to \in DOMAIN g.inst
                                        /\ g.exports[x] = [to |-> g.exports[x].to, oracle |-> g.exports[x].oracle]
BY DEF IsGame, IsWire

(* What is defined from the games and the specs alone stays the same while *)
(* they do.                                                                *)
LEMMA SameGames ==
  ASSUME UNCHANGED <<typing, game, specs>>
  PROVE  /\ Left' = Left /\ Right' = Right /\ LeftSpec' = LeftSpec /\ RightSpec' = RightSpec
         /\ Genuine' = Genuine /\ Reached' = Reached /\ Pairs' = Pairs
         /\ \A s : Passed(s)' = Passed(s) /\ MappingVerdict(s)' = MappingVerdict(s)
         /\ \A p : Alike(p)' = Alike(p) /\ InRests(p)' = InRests(p)
         /\ \A p, i : Follows(p, i)' = Follows(p, i)
         /\ \A x : Begins(x)' = Begins(x)
         /\ \A g, i : ImportSet(g, i)' = ImportSet(g, i)
<1>1. Left' = Left /\ Right' = Right /\ LeftSpec' = LeftSpec /\ RightSpec' = RightSpec
  BY DEF Left, Right, LeftSpec, RightSpec
<1>2. \A p : InRests(p)' = InRests(p)
  BY <1>1 DEF InRests, Mapped
<1>3. Reached' = Reached
  BY <1>1 DEF Reached, ImportSet, InRests, Mapped
<1>4. \A s : Passed(s)' = Passed(s) /\ MappingVerdict(s)' = MappingVerdict(s)
  BY DEF Passed, MappingVerdict, NamesFit, EntriesFit, CrossCutWiresExported, CrossCutExportsExported, WiresStayInside,
         WiresOfConstructionKnown, WiresOfAssumptionPresent, Offers, ImportSet, SamePackage,
         AsAssumption, AsConstruction, Mapped
<1>5. \A s : GenuineCut(s)' = GenuineCut(s)
  BY DEF GenuineCut, NamesFit, EntriesFit, WiredLike, EntersAtExports, ImportSet, SamePackage,
         InAssumption, AsAssumption, Mapped
<1>6. \A v, w : SameEnd(v, w)' = SameEnd(v, w)
  BY <1>1 DEF SameEnd, Mapped, InAssumption, AsAssumption
<1>7. ReachedRests' = ReachedRests
  BY <1>2, <1>3 DEF ReachedRests
<1>8. UnfoldAlike' = UnfoldAlike /\ SharedAlike' = SharedAlike /\ EndAlike' = EndAlike
  BY <1>1, <1>3, <1>6, <1>7 DEF UnfoldAlike, SharedAlike, EndAlike, Mapped, ImportSet
<1>9. Genuine' = Genuine
  BY <1>1, <1>5, <1>8 DEF Genuine
<1>10. \A p : Alike(p)' = Alike(p)
  BY <1>1, <1>2 DEF Alike, Mapped
<1> QED
  BY <1>1, <1>2, <1>3, <1>4, <1>5, <1>9, <1>10 DEF Pairs, Follows, Begins, ImportSet

(* A mapping that cuts its game as it should passes.                       *)
LEMMA EntriesAreUnique ==
  ASSUME NEW s, EntriesFit(s), NEW e \in s.entries
  PROVE  AsAssumption(s, e[2]) = e[1] /\ AsConstruction(s, e[1]) = e[2]
<1>1. (CHOOSE f \in s.entries : f[2] = e[2]) = e
  BY DEF EntriesFit
<1>2. (CHOOSE f \in s.entries : f[1] = e[1]) = e
  BY DEF EntriesFit
<1> QED
  BY <1>1, <1>2 DEF AsAssumption, AsConstruction

LEMMA GenuinePasses ==
  ASSUME NEW s, GenuineCut(s)
  PROVE  MappingVerdict(s) = "checking"
<1> DEFINE ag == game[s.assumption]
           cg == game[s.construction]
<1>1. EntriesFit(s) /\ WiredLike(s) /\ EntersAtExports(s)
  BY DEF GenuineCut
<1>2. \A e \in s.entries : /\ e[1] \in DOMAIN ag.inst /\ e[2] \in DOMAIN cg.inst
                           /\ ag.inst[e[1]].pkg = cg.inst[e[2]].pkg
                           /\ ImportSet(ag, e[1]) = ImportSet(cg, e[2])
  <2>1. \A e \in s.entries : /\ e[1] \in DOMAIN ag.inst /\ e[2] \in DOMAIN cg.inst
                             /\ ag.inst[e[1]].pkg = cg.inst[e[2]].pkg
    BY <1>1 DEF EntriesFit, SamePackage
  <2> QED
    BY <2>1 DEF ImportSet
<1>3. \A w : /\ w.to \in Mapped(s)
             /\ (\E x \in DOMAIN cg.exports : w = cg.exports[x])
                \/ \E r \in DOMAIN cg.inst \ Mapped(s) : \E i \in ImportSet(cg, r) : w = cg.wires[r][i]
             => Offers(s, w)
  <2>1. SUFFICES ASSUME NEW w, w.to \in Mapped(s),
                        \/ \E x \in DOMAIN cg.exports : w = cg.exports[x]
                        \/ \E r \in DOMAIN cg.inst \ Mapped(s) : \E i \in ImportSet(cg, r) : w = cg.wires[r][i]
                 PROVE  Offers(s, w)
    OBVIOUS
  <2>2. w \in {cg.exports[x] : x \in DOMAIN cg.exports}
             \cup UNION {{cg.wires[r][i] : i \in ImportSet(cg, r)} : r \in DOMAIN cg.inst \ Mapped(s)}
    BY <2>1
  <2>3. \E x \in DOMAIN game[s.assumption].exports : game[s.assumption].exports[x] = InAssumption(s, w)
    BY <1>1, <2>1, <2>2 DEF EntersAtExports
  <2> QED
    BY <2>3 DEF Offers, InAssumption
<1>4. CrossCutWiresExported(s) /\ CrossCutExportsExported(s)
  BY <1>3 DEF CrossCutWiresExported, CrossCutExportsExported
<1>5. ASSUME NEW e \in s.entries, NEW i \in ImportSet(cg, e[2])
      PROVE  /\ cg.wires[e[2]][i].oracle = ag.wires[e[1]][i].oracle
             /\ cg.wires[e[2]][i].to \in Mapped(s)
             /\ ag.wires[e[1]][i].to = AsAssumption(s, cg.wires[e[2]][i].to)
             /\ cg.wires[e[2]][i].to = AsConstruction(s, ag.wires[e[1]][i].to)
  <2>1. /\ cg.wires[e[2]][i].oracle = ag.wires[e[1]][i].oracle
        /\ <<ag.wires[e[1]][i].to, cg.wires[e[2]][i].to>> \in s.entries
    BY <1>1 DEF WiredLike
  <2>2. PICK f \in s.entries : f[1] = ag.wires[e[1]][i].to /\ f[2] = cg.wires[e[2]][i].to
    BY <2>1
  <2>3. AsAssumption(s, f[2]) = f[1] /\ AsConstruction(s, f[1]) = f[2]
    BY <1>1, EntriesAreUnique
  <2> QED
    BY <2>1, <2>2, <2>3 DEF Mapped
<1>6. WiresStayInside(s)
  <2>1. ASSUME NEW c \in Mapped(s), NEW i \in ImportSet(cg, c)
        PROVE  cg.wires[c][i].to \in Mapped(s)
    <3>1. PICK e \in s.entries : c = e[2]
      BY DEF Mapped
    <3> QED
      BY <1>5, <2>1, <3>1
  <2> QED
    BY <2>1 DEF WiresStayInside
<1>7. WiresOfConstructionKnown(s)
  BY <1>2, <1>5 DEF WiresOfConstructionKnown
<1>8. WiresOfAssumptionPresent(s)
  BY <1>2, <1>5 DEF WiresOfAssumptionPresent
<1> QED
  BY <1>1, <1>4, <1>6, <1>7, <1>8 DEF MappingVerdict

-----------------------------------------------------------------------------
(* What is reached, level by level.                                        *)
ReachStep(S) ==
    S \cup UNION {{Follows(p, i) : i \in ImportSet(Left, p[1]) \cap ImportSet(Right, p[2])} :
                  p \in {q \in S : InRests(q)}}

Entrances == {Begins(x) : x \in DOMAIN Left.exports \cap DOMAIN Right.exports}
Instances == Cardinality(DOMAIN Left.inst) + Cardinality(DOMAIN Right.inst)

Levels(f) ==
    /\ f[0] = Entrances
    /\ \A n \in Nat : f[n] \subseteq Pairs /\ f[n + 1] = ReachStep(f[n])
    /\ Reached = f[Instances]

LEMMA PairParts ==
  /\ \A p \in Pairs : p[1] \in DOMAIN Left.inst /\ p[2] \in DOMAIN Right.inst /\ p = <<p[1], p[2]>>
  /\ \A l \in DOMAIN Left.inst, r \in DOMAIN Right.inst : <<l, r>> \in Pairs
  /\ DOMAIN Right.inst = {} => Pairs = {}
<1> DEFINE L == DOMAIN Left.inst
           R == DOMAIN Right.inst
<1>1. Pairs = L \X R
  BY DEF Pairs
<1> HIDE DEF L, R
<1>2. /\ \A p \in L \X R : p[1] \in L /\ p[2] \in R /\ p = <<p[1], p[2]>>
      /\ \A l \in L, r \in R : <<l, r>> \in L \X R
      /\ R = {} => L \X R = {}
  OBVIOUS
<1> QED
  BY <1>1, <1>2 DEF L, R

LEMMA StepInPairs ==
  ASSUME IsGame(Left), IsGame(Right)
  PROVE  /\ Entrances \subseteq Pairs
         /\ \A S \in SUBSET Pairs : ReachStep(S) \in SUBSET Pairs
<1>1. Entrances \subseteq Pairs
  <2>1. ASSUME NEW x \in DOMAIN Left.exports \cap DOMAIN Right.exports
        PROVE  Begins(x) \in Pairs
    <3>1. Left.exports[x].to \in DOMAIN Left.inst /\ Right.exports[x].to \in DOMAIN Right.inst
      BY GameParts
    <3> QED
      BY <3>1, PairParts DEF Begins
  <2> QED
    BY <2>1 DEF Entrances
<1>2. ASSUME NEW S \in SUBSET Pairs, NEW p \in S, NEW i \in ImportSet(Left, p[1]) \cap ImportSet(Right, p[2])
      PROVE  Follows(p, i) \in Pairs
  <2>1. p[1] \in DOMAIN Left.inst /\ p[2] \in DOMAIN Right.inst
    BY PairParts
  <2>2. Left.wires[p[1]][i].to \in DOMAIN Left.inst /\ Right.wires[p[2]][i].to \in DOMAIN Right.inst
    BY <2>1, GameParts
  <2> QED
    BY <2>2, PairParts DEF Follows
<1>3. ASSUME NEW S \in SUBSET Pairs
      PROVE  ReachStep(S) \in SUBSET Pairs
  BY <1>2 DEF ReachStep
<1> QED
  BY <1>1, <1>3

LEMMA ReachedLevels ==
  ASSUME IsGame(Left), IsGame(Right)
  PROVE  \E f : Levels(f)
<1> DEFINE V == SUBSET Pairs
           start == Entrances
           next == [n \in Nat |-> [S \in V |-> ReachStep(S)]]
<1>1. start \in V /\ next \in [Nat -> [V -> V]]
  BY StepInPairs
<1>2. PICK f : IteratesFrom(f, V, start, next)
  <2> HIDE DEF V, start, next
  <2> QED
    BY <1>1, Iterates
<1>3. f \in [Nat -> V] /\ f[0] = Entrances /\ \A n \in Nat : f[n + 1] = ReachStep(f[n])
  <2>1. f \in [Nat -> V] /\ f[0] = Entrances /\ \A n \in Nat : f[n + 1] = next[n][f[n]]
    BY <1>2 DEF IteratesFrom
  <2> HIDE DEF V
  <2> QED
    BY <2>1
<1>4. \A n \in Nat : f[n] \subseteq Pairs
  BY <1>3
<1> HIDE DEF V
<1>5. Instances \in Nat
  BY GameParts, FS_CardinalityType DEF Instances
<1>6. Reached = f[Instances]
  <2> DEFINE Is(after) == after = [n \in Nat |-> IF n = 0 THEN Entrances ELSE ReachStep(after[n - 1])]
             b == CHOOSE after : Is(after)
             g == [n \in Nat |-> f[n]]
  <2>1. Is(g)
    <3> SUFFICES ASSUME NEW n \in Nat
                 PROVE  g[n] = IF n = 0 THEN Entrances ELSE ReachStep(g[n - 1])
      OBVIOUS
    <3>1. CASE n = 0
      BY <3>1, <1>3
    <3>2. CASE n # 0
      <4>1. n - 1 \in Nat /\ (n - 1) + 1 = n
        BY <3>2
      <4> QED
        BY <3>2, <4>1, <1>3
    <3> QED
      BY <3>1, <3>2
  <2>2. Is(b)
    <3> HIDE DEF Is
    <3> QED
      BY <2>1
  <2>3. Reached = b[Instances]
    BY DEF Reached, Instances, ReachStep, Entrances, Follows, Begins
  <2> HIDE DEF b
  <2> DEFINE A == {n \in Nat : b[n] = f[n]}
  <2>4. 0 \in A
    BY <2>2, <1>3
  <2>5. ASSUME NEW n \in Nat, n \in A
        PROVE  n + 1 \in A
    <3>1. n + 1 \in Nat /\ n + 1 # 0 /\ (n + 1) - 1 = n
      OBVIOUS
    <3>2. b[n + 1] = ReachStep(b[n])
      BY <2>2, <3>1
    <3> QED
      BY <2>5, <3>1, <3>2, <1>3
  <2>6. Nat \subseteq A
    <3> HIDE DEF A
    <3> QED
      BY <2>4, <2>5, NaturalInduction
  <2> QED
    BY <2>3, <2>6, <1>5
<1> QED
  BY <1>3, <1>4, <1>6 DEF Levels

LEMMA InstancesType ==
  ASSUME IsGame(Left), IsGame(Right)
  PROVE  /\ Cardinality(DOMAIN Left.inst) \in Nat /\ Cardinality(DOMAIN Right.inst) \in Nat
         /\ Instances \in Nat
BY GameParts, FS_CardinalityType DEF Instances

(* Whatever holds the entrances and is closed holds all that is reached.   *)
LEMMA ReachedIsLeast ==
  ASSUME IsGame(Left), IsGame(Right), NEW C, Entrances \subseteq C, ReachStep(C) \subseteq C
  PROVE  Reached \subseteq C
<1>1. PICK f : Levels(f)
  BY ReachedLevels
<1> DEFINE A == {n \in Nat : f[n] \subseteq C}
<1>2. 0 \in A
  BY <1>1 DEF Levels
<1>3. ASSUME NEW n \in Nat, n \in A
      PROVE  n + 1 \in A
  <2>1. ReachStep(f[n]) \subseteq ReachStep(C)
    BY <1>3 DEF ReachStep
  <2> QED
    BY <1>1, <2>1 DEF Levels
<1>4. Nat \subseteq A
  <2> HIDE DEF A
  <2> QED
    BY <1>2, <1>3, NaturalInduction
<1> QED
  BY <1>1, <1>4, InstancesType DEF Levels

(* Where no instance is shared by the paths of one game alone, as many     *)
(* steps as there are instances lead everywhere.                           *)
LEMMA ReachedIsClosed ==
  ASSUME IsGame(Left), IsGame(Right), SharedAlike
  PROVE  Entrances \subseteq Reached /\ ReachStep(Reached) \subseteq Reached
<1>1. PICK f : Levels(f)
  BY ReachedLevels
<1> DEFINE nl == Cardinality(DOMAIN Left.inst)
           nr == Cardinality(DOMAIN Right.inst)
           g == [n \in Nat |-> {p \in f[n] : InRests(p)}]
<1>2. nl \in Nat /\ nr \in Nat /\ Instances = nl + nr /\ IsFiniteSet(DOMAIN Left.inst)
  BY InstancesType, GameParts DEF Instances
<1> HIDE DEF nl, nr
<1>3. \A n \in Nat : f[n] \subseteq f[n + 1] /\ f[n + 1] = ReachStep(f[n]) /\ f[n] \subseteq Pairs
  BY <1>1 DEF Levels, ReachStep
<1>4. \A n, k \in Nat : f[n] \subseteq f[n + k]
  <2> SUFFICES ASSUME NEW n \in Nat PROVE \A k \in Nat : f[n] \subseteq f[n + k]
    OBVIOUS
  <2> DEFINE A == {k \in Nat : f[n] \subseteq f[n + k]}
  <2>1. 0 \in A
    OBVIOUS
  <2>2. ASSUME NEW k \in Nat, k \in A
        PROVE  k + 1 \in A
    <3>1. n + k \in Nat /\ n + (k + 1) = (n + k) + 1
      OBVIOUS
    <3> QED
      BY <2>2, <3>1, <1>3
  <2>3. Nat \subseteq A
    <3> HIDE DEF A
    <3> QED
      BY <2>1, <2>2, NaturalInduction
  <2> QED
    BY <2>3
<1>5. ReachedRests \in SUBSET Pairs /\ \A n \in 0..Instances : g[n] \subseteq ReachedRests
  <2>1. \A n \in 0..Instances : n \in Nat /\ Instances - n \in Nat /\ n + (Instances - n) = Instances
    BY <1>2
  <2>2. \A n \in 0..Instances : f[n] \subseteq f[Instances]
    BY <1>4, <2>1
  <2>3. Reached = f[Instances] /\ Instances \in Nat
    BY <1>1, <1>2 DEF Levels
  <2> QED
    BY <1>3, <2>1, <2>2, <2>3 DEF ReachedRests
<1>6. IsFiniteSet(ReachedRests) /\ Cardinality(ReachedRests) <= nl /\ Cardinality(ReachedRests) \in Nat
  <2> DEFINE left == [p \in ReachedRests |-> p[1]]
  <2>1. left \in Injection(ReachedRests, DOMAIN Left.inst)
    <3>1. \A p \in ReachedRests : p = <<p[1], p[2]>> /\ p[1] \in DOMAIN Left.inst
      BY <1>5, PairParts
    <3>2. \A p, q \in ReachedRests : p[1] = q[1] => p[2] = q[2]
      BY DEF SharedAlike
    <3> HIDE DEF Pairs
    <3>3. \A p, q \in ReachedRests : p[1] = q[1] => p = q
      BY <3>1, <3>2
    <3> QED
      BY <3>1, <3>3 DEF Injection, IsInjective
  <2> HIDE DEF left
  <2>2. IsFiniteSet(ReachedRests) /\ Cardinality(ReachedRests) <= Cardinality(DOMAIN Left.inst)
    BY <1>2, <2>1, FS_Injection
  <2> QED
    BY <2>2, FS_CardinalityType DEF nl
<1>7. \A n \in Nat : g[n] = g[n + 1] => f[(n + 1) + 1] = f[n + 1]
  <2> SUFFICES ASSUME NEW n \in Nat, g[n] = g[n + 1] PROVE f[(n + 1) + 1] = f[n + 1]
    OBVIOUS
  <2>1. n + 1 \in Nat
    OBVIOUS
  <2>2. f[n + 1] = ReachStep(f[n]) /\ f[(n + 1) + 1] = ReachStep(f[n + 1]) /\ f[n] \subseteq f[n + 1]
    BY <1>3, <2>1
  <2>3. {p \in f[n] : InRests(p)} = {p \in f[n + 1] : InRests(p)}
    BY <2>1
  <2> QED
    BY <2>2, <2>3 DEF ReachStep
<1>8. CASE DOMAIN Right.inst = {}
  <2>1. Pairs = {}
    BY <1>8, PairParts
  <2>2. Entrances = {} /\ Reached = {}
    BY <1>1, <1>2, <1>3, <2>1, StepInPairs DEF Levels
  <2> QED
    BY <2>2 DEF ReachStep
<1>9. CASE DOMAIN Right.inst # {}
  <2>1. nr # 0
    BY <1>9, FS_EmptySet, GameParts DEF nr
  <2>2. PICK n \in 0..nl : g[n + 1] = g[n]
    <3> DEFINE N == nl + 1
    <3>1. N \in Nat /\ N - 1 = nl /\ \A n \in 0..N : n \in 0..Instances
      BY <1>2, <2>1
    <3>2. \A n \in 0..N : g[n] \subseteq ReachedRests
      BY <1>5, <3>1
    <3>3. \A n \in 0..(N - 1) : g[n] \subseteq g[n + 1]
      BY <1>3, <1>2
    <3>4. Cardinality(ReachedRests) < N + Cardinality(g[0])
      <4>1. IsFiniteSet(g[0])
        <5>1. g[0] \subseteq ReachedRests
          BY <3>1, <3>2
        <5> HIDE DEF g
        <5> QED
          BY <1>6, <5>1, FS_Subset
      <4> HIDE DEF g
      <4>2. Cardinality(g[0]) \in Nat
        BY <4>1, FS_CardinalityType
      <4> QED
        BY <1>2, <1>6, <4>2
    <3> HIDE DEF N, g
    <3>5. \E n \in 0..(N - 1) : g[n + 1] = g[n]
      BY <1>6, <3>1, <3>2, <3>3, <3>4, GrowthStops
    <3> QED
      BY <3>1, <3>5
  <2>3. n \in Nat /\ n + 1 \in Nat /\ Instances \in Nat /\ n + 1 <= Instances
    BY <1>2, <2>1
  <2>4. f[(n + 1) + 1] = f[n + 1]
    BY <1>7, <2>2, <2>3
  <2>5. \A k \in Nat : f[((n + 1) + k) + 1] = f[(n + 1) + k]
    <3> DEFINE A == {k \in Nat : f[((n + 1) + k) + 1] = f[(n + 1) + k]}
    <3>1. 0 \in A
      BY <2>3, <2>4
    <3>2. ASSUME NEW k \in Nat, k \in A
          PROVE  k + 1 \in A
      <4>1. (n + 1) + k \in Nat /\ (n + 1) + (k + 1) = ((n + 1) + k) + 1 /\ ((n + 1) + k) + 1 \in Nat
        BY <2>3
      <4>2. f[((n + 1) + k) + 1] = f[(n + 1) + k]
        BY <3>2
      <4>3. f[((n + 1) + (k + 1)) + 1] = ReachStep(f[((n + 1) + k) + 1])
        BY <1>3, <4>1
      <4>4. f[((n + 1) + k) + 1] = ReachStep(f[(n + 1) + k])
        BY <1>3, <4>1
      <4>5. f[((n + 1) + (k + 1)) + 1] = f[(n + 1) + (k + 1)]
        BY <4>1, <4>2, <4>3, <4>4
      <4> QED
        BY <4>5
    <3>3. Nat \subseteq A
      <4> HIDE DEF A
      <4> QED
        BY <3>1, <3>2, NaturalInduction
    <3> QED
      BY <3>3
  <2>6. f[Instances + 1] = f[Instances]
    <3>1. PICK k \in Nat : (n + 1) + k = Instances
      <4>1. Instances - (n + 1) \in Nat /\ (n + 1) + (Instances - (n + 1)) = Instances
        BY <2>3
      <4> QED
        BY <4>1
    <3> QED
      BY <2>5, <3>1
  <2>7. ReachStep(Reached) = Reached /\ f[0] \subseteq f[0 + Instances]
    BY <1>1, <1>3, <1>4, <2>3, <2>6 DEF Levels
  <2> QED
    BY <1>1, <2>3, <2>7 DEF Levels
<1> QED
  BY <1>8, <1>9

-----------------------------------------------------------------------------
(* The inductive invariant.                                                *)
LEMMA HeaderGames ==
  ASSUME CheckInv, Comparing
  PROVE  /\ Len(specs) = 2 /\ LeftSpec.construction = LeftName /\ RightSpec.construction = RightName
         /\ {LeftSpec, RightSpec} = {specs[1], specs[2]}
         /\ Passed(LeftSpec) /\ Passed(RightSpec)
         /\ IsGame(Left) /\ IsGame(Right)
<1>1. /\ Len(specs) = 2 /\ LeftSpec.construction = LeftName /\ RightSpec.construction = RightName
  BY DEF CheckInv, Matched
<1>2. specs \in Seq(SpecSet) /\ DOMAIN specs = 1..2
  BY <1>1 DEF CheckInv, TypeInv
<1>3. {LeftSpec, RightSpec} = {specs[1], specs[2]}
  BY <1>1, NamesAssumption DEF LeftSpec, RightSpec
<1>4. Passed(specs[1]) /\ Passed(specs[2])
  BY <1>2 DEF CheckInv, SpecsPassed, Comparing
<1>5. Passed(LeftSpec) /\ Passed(RightSpec)
  BY <1>4 DEF LeftSpec, RightSpec
<1>6. LeftName \in DOMAIN game /\ RightName \in DOMAIN game
  BY <1>1, <1>5 DEF Passed
<1> QED
  BY <1>1, <1>3, <1>5, <1>6 DEF CheckInv, TypeInv, Left, Right

LEMMA HeaderMatches ==
  ASSUME Genuine
  PROVE  /\ LeftSpec.construction = LeftName /\ RightSpec.construction = RightName
         /\ {LeftSpec.assumption, RightSpec.assumption} = Assumption
         /\ LeftSpec.assumption # RightSpec.assumption /\ LeftName # RightName
         /\ GenuineCut(LeftSpec) /\ GenuineCut(RightSpec)
<1>1. /\ LeftName # RightName /\ GenuineCut(specs[1]) /\ GenuineCut(specs[2])
      /\ {specs[1].construction, specs[2].construction} = {LeftName, RightName}
      /\ {specs[1].assumption, specs[2].assumption} = Assumption
  BY DEF Genuine
<1>2. PICK a, b \in Assumption : a # b /\ Assumption = {a, b}
  BY NamesAssumption
<1> QED
  BY <1>1, <1>2, NamesAssumption DEF LeftSpec, RightSpec

LEMMA FinalOfGenuine ==
  ASSUME Genuine
  PROVE  FinalVerdict = "accepted"
BY HeaderMatches DEF FinalVerdict

LEMMA InitCheck ==
  ASSUME Init
  PROVE  CheckInv
<1>1. TypeInv
  BY DEF Init, TypeInv
<1>2. ~Comparing /\ DOMAIN specs = {} /\ verdict = "checking"
  BY DEF Init, Comparing
<1> QED
  BY <1>1, <1>2 DEF CheckInv, SpecsPassed, Matched, Progress, OnlyReached, Refused

LEMMA PassedStays ==
  ASSUME NEW t, Passed(t), UNCHANGED typing,
         \A n \in DOMAIN game : n \in DOMAIN game' /\ game'[n] = game[n]
  PROVE  Passed(t)'
<1>1. /\ t.assumption \in DOMAIN game' /\ t.construction \in DOMAIN game'
      /\ game'[t.assumption] = game[t.assumption] /\ game'[t.construction] = game[t.construction]
      /\ NamesFit(t)
  BY DEF Passed
<1>2. EntriesFit(t)'
  BY <1>1 DEF Passed, EntriesFit, SamePackage
<1>3. \A w : Offers(t, w)' = Offers(t, w)
  BY <1>1 DEF Offers, AsAssumption
<1>4. CrossCutWiresExported(t)'
  BY <1>1, <1>3 DEF Passed, CrossCutWiresExported, ImportSet, Mapped
<1>5. CrossCutExportsExported(t)'
  BY <1>1, <1>3 DEF Passed, CrossCutExportsExported, Mapped
<1>6. WiresStayInside(t)'
  <2>1. WiresStayInside(t)
    BY DEF Passed
  <2>2. PICK cg : cg = game[t.construction] /\ cg = game'[t.construction]
    BY <1>1
  <2>3. \A c \in Mapped(t) : \A i \in ImportSet(cg, c) : cg.wires[c][i].to \in Mapped(t)
    BY <2>1, <2>2 DEF WiresStayInside
  <2> QED
    BY <2>2, <2>3 DEF WiresStayInside
<1>7. WiresOfConstructionKnown(t)'
  <2>1. WiresOfConstructionKnown(t)
    BY DEF Passed
  <2>2. PICK ag, cg : ag = game[t.assumption] /\ cg = game[t.construction]
    OBVIOUS
  <2>3. ag = game'[t.assumption] /\ cg = game'[t.construction]
    BY <1>1, <2>2
  <2>4. \A e \in t.entries : \A i \in ImportSet(cg, e[2]) : \E j \in ImportSet(ag, e[1]) :
            /\ ag.wires[e[1]][j].to = AsAssumption(t, cg.wires[e[2]][i].to)
            /\ typing[cg.wires[e[2]][i].oracle] = typing[ag.wires[e[1]][j].oracle]
    BY <2>1, <2>2 DEF WiresOfConstructionKnown
  <2> QED
    BY <2>3, <2>4 DEF WiresOfConstructionKnown
<1>8. WiresOfAssumptionPresent(t)'
  <2>1. WiresOfAssumptionPresent(t)
    BY DEF Passed
  <2>2. PICK ag, cg : ag = game[t.assumption] /\ cg = game[t.construction]
    OBVIOUS
  <2>3. ag = game'[t.assumption] /\ cg = game'[t.construction]
    BY <1>1, <2>2
  <2>4. \A e \in t.entries : \A j \in ImportSet(ag, e[1]) : \E i \in ImportSet(cg, e[2]) :
            cg.wires[e[2]][i].to = AsConstruction(t, ag.wires[e[1]][j].to)
    BY <2>1, <2>2 DEF WiresOfAssumptionPresent
  <2> QED
    BY <2>3, <2>4 DEF WiresOfAssumptionPresent
<1> QED
  BY <1>1, <1>2, <1>4, <1>5, <1>6, <1>7, <1>8 DEF Passed, NamesFit

LEMMA ReadMappingCheck ==
  ASSUME CheckInv, ReadMapping
  PROVE  CheckInv'
<1>1. PICK a, c \in GameNames, E \in EntrySets :
        LET s == [assumption |-> a, construction |-> c, entries |-> E]
        IN  /\ specs' = Append(specs, s)
            /\ IF NamesFit(s)
               THEN /\ \E ga \in GamesNamed(a), gc \in GamesNamed(c) : game' = LookedUp(a, ga, c, gc)
                    /\ verdict' = MappingVerdict(s)'
               ELSE verdict' = "rejected" /\ UNCHANGED game
  BY DEF ReadMapping, GameNames
<1> DEFINE s == [assumption |-> a, construction |-> c, entries |-> E]
<1>2. /\ verdict = "checking" /\ Len(specs) < 2 /\ UNCHANGED <<typing, exports, pending>>
      /\ specs \in Seq(SpecSet) /\ s \in SpecSet /\ s.assumption = a /\ s.construction = c
  BY DEF ReadMapping, CheckInv, TypeInv, SpecSet
<1>3. ~Comparing
  <2>1. Matched
    BY DEF CheckInv
  <2> QED
    BY <1>2, <2>1 DEF Matched
<1>4. exports = {} /\ pending = <<>>
  BY <1>2, <1>3 DEF Comparing
<1>5. /\ specs' = Append(specs, s)
      /\ NamesFit(s) => /\ \E ga \in GamesNamed(a), gc \in GamesNamed(c) : game' = LookedUp(a, ga, c, gc)
                        /\ verdict' = MappingVerdict(s)'
      /\ ~NamesFit(s) => verdict' = "rejected" /\ UNCHANGED game
  BY <1>1
<1>s. PICK z : z = s
  OBVIOUS
<1> HIDE DEF s
<1>6. /\ specs' \in Seq(SpecSet) /\ Len(specs') = Len(specs) + 1 /\ Len(specs) \in Nat
      /\ specs'[Len(specs')] = s /\ \A k \in DOMAIN specs : specs'[k] = specs[k]
      /\ DOMAIN specs' = DOMAIN specs \cup {Len(specs')}
  BY <1>2, <1>5
<1>7. verdict' \in {"checking", "rejected", "panicked"} /\ (verdict' = "checking" => NamesFit(s) /\ MappingVerdict(s)' = "checking")
  <2>1. MappingVerdict(z)' \in {"checking", "rejected", "panicked"}
    BY DEF MappingVerdict
  <2> QED
    BY <1>5, <1>s, <2>1
<1>8. ~Comparing'
  BY <1>2, <1>4, <1>7 DEF Comparing
<1>9. /\ DOMAIN game \subseteq DOMAIN game' /\ DOMAIN game' \subseteq GameNames
      /\ \A n \in DOMAIN game : n \in DOMAIN game' /\ game'[n] = game[n]
      /\ \A n \in DOMAIN game' : IsGame(game'[n])
      /\ NamesFit(s) => a \in DOMAIN game' /\ c \in DOMAIN game'
  <2>1. CASE ~NamesFit(s)
    BY <1>5, <2>1 DEF CheckInv, TypeInv
  <2>2. CASE NamesFit(s)
    <3>1. PICK ga \in GamesNamed(a), gc \in GamesNamed(c) : game' = LookedUp(a, ga, c, gc)
      BY <1>5, <2>2
    <3>2. (a \notin DOMAIN game => IsGame(ga)) /\ (c \notin DOMAIN game => IsGame(gc))
      BY GamesAssumption DEF GamesNamed, GameNames
    <3>3. DOMAIN game' = DOMAIN game \cup {a, c}
      BY <3>1 DEF LookedUp
    <3>4. \A n \in DOMAIN game' :
             game'[n] = IF n \in DOMAIN game THEN game[n] ELSE IF n = a THEN ga ELSE gc
      BY <3>1 DEF LookedUp
    <3> QED
      BY <3>2, <3>3, <3>4 DEF CheckInv, TypeInv
  <2> QED
    BY <2>1, <2>2
<1>10. TypeInv'
  BY <1>2, <1>6, <1>7, <1>9 DEF TypeInv
<1>11. SpecsPassed'
  <2> SUFFICES ASSUME verdict' = "checking", NEW k \in DOMAIN specs'
               PROVE  Passed(specs[k])'
    BY <1>7 DEF SpecsPassed
  <2>1. PICK t : t = specs'[k]
    OBVIOUS
  <2>2. CASE k \in DOMAIN specs
    <3>1. t = specs[k]
      BY <1>6, <2>1, <2>2
    <3>2. Passed(t)
      BY <1>2, <2>2, <3>1 DEF CheckInv, SpecsPassed
    <3>3. Passed(t)'
      BY <1>2, <1>9, <3>2, PassedStays
    <3> QED
      BY <2>1, <3>3
  <2>3. CASE k = Len(specs')
    <3>1. t = z /\ t.assumption = a /\ t.construction = c
      BY <1>2, <1>6, <1>s, <2>1, <2>3
    <3>2. MappingVerdict(t)' = "checking" /\ NamesFit(t)
      BY <1>7, <1>s, <3>1
    <3>3. Passed(t)'
      BY <1>9, <1>s, <3>1, <3>2 DEF MappingVerdict, Passed, NamesFit
    <3> QED
      BY <2>1, <3>3
  <2> QED
    BY <1>6, <2>2, <2>3
<1>12. Refused'
  <2>1. verdict' # "checking" => ~(NamesFit(z)' /\ MappingVerdict(z)' = "checking")
    BY <1>5, <1>s DEF NamesFit
  <2>2. z = specs'[Len(specs')] /\ Len(specs') > 0
    BY <1>6, <1>s
  <2> QED
    BY <2>1, <2>2 DEF Refused
<1> QED
  BY <1>8, <1>10, <1>11, <1>12 DEF CheckInv, Matched, Progress, OnlyReached

(* The other steps leave what was read as it is.                           *)
LEMMA SpecsStay ==
  ASSUME CheckInv, verdict = "checking", UNCHANGED <<typing, game, specs>>,
         verdict' \in {"checking", "accepted", "rejected", "panicked"}
  PROVE  TypeInv' /\ SpecsPassed'
<1>1. TypeInv'
  BY DEF CheckInv, TypeInv
<1>2. \A k \in DOMAIN specs : Passed(specs[k])
  BY DEF CheckInv, SpecsPassed
<1>3. ASSUME NEW k \in DOMAIN specs
      PROVE  Passed(specs[k])'
  <2>1. PICK t : t = specs[k]
    OBVIOUS
  <2>2. Passed(t)'
    BY <1>2, <2>1, SameGames
  <2> QED
    BY <2>1, <2>2
<1> QED
  BY <1>1, <1>3 DEF SpecsPassed

LEMMA MatchHeaderCheck ==
  ASSUME CheckInv, MatchHeader
  PROVE  CheckInv'
<1>1. /\ verdict = "checking" /\ Len(specs) = 2 /\ exports = {} /\ pending = <<>>
      /\ UNCHANGED <<typing, game, specs, pending>>
  BY DEF MatchHeader
<1>2. /\ Left' = Left /\ Right' = Right /\ LeftSpec' = LeftSpec /\ RightSpec' = RightSpec /\ Genuine' = Genuine
  BY <1>1, SameGames
<1>3. CASE ~(LeftSpec.construction = LeftName /\ RightSpec.construction = RightName)
  <2>1. verdict' = "rejected" /\ exports' = {} /\ pending' = <<>> /\ ~Genuine
    BY <1>1, <1>3, HeaderMatches DEF MatchHeader
  <2>2. ~Comparing' /\ Refused'
    BY <1>1, <1>2, <2>1 DEF Comparing, Refused
  <2> QED
    BY <1>1, <2>1, <2>2, SpecsStay DEF CheckInv, Matched, Progress, OnlyReached
<1>4. CASE LeftSpec.construction = LeftName /\ RightSpec.construction = RightName
  <2>1. /\ exports' = DOMAIN Left.exports /\ pending' = <<>>
        /\ verdict' = IF DOMAIN Left.exports = {} THEN FinalVerdict ELSE verdict
    BY <1>1, <1>4 DEF MatchHeader
  <2>2. verdict' \in {"checking", "accepted", "panicked"}
    BY <1>1, <2>1 DEF FinalVerdict
  <2>3. TypeInv' /\ SpecsPassed'
    BY <1>1, <2>2, SpecsStay
  <2>4. Matched'
    BY <1>1, <1>2, <1>4 DEF Matched
  <2>5. Compared({})'
    BY <1>2, <2>1 DEF Compared
  <2>6. Progress'
    <3>1. <<>> \in Seq(Pairs')
      OBVIOUS
    <3>2. verdict' = "accepted" => exports' = {} /\ LeftSpec.assumption # RightSpec.assumption
                                           /\ LeftName # RightName
      BY <1>1, <1>4, <2>1 DEF FinalVerdict
    <3> QED
      BY <1>2, <2>1, <2>5, <3>1, <3>2 DEF Progress
  <2>7. OnlyReached'
    BY <2>1 DEF OnlyReached
  <2>8. Refused'
    <3>1. verdict' = "panicked" => ~Genuine
      BY <1>1, <2>1, FinalOfGenuine
    <3> QED
      BY <1>1, <1>2, <2>2, <3>1 DEF Refused
  <2> QED
    BY <2>3, <2>4, <2>6, <2>7, <2>8 DEF CheckInv
<1> QED
  BY <1>3, <1>4

LEMMA CompareExportCheck ==
  ASSUME CheckInv, CompareExport
  PROVE  CheckInv'
<1>1. PICK x \in exports :
        IF x \in DOMAIN Right.exports
        THEN /\ pending' = <<Begins(x)>>
             /\ exports' = exports \ {x}
             /\ UNCHANGED verdict
        ELSE verdict' = "panicked" /\ UNCHANGED <<exports, pending>>
  BY DEF CompareExport, Begins
<1>2. verdict = "checking" /\ pending = <<>> /\ UNCHANGED <<typing, game, specs>> /\ Comparing
  BY <1>1 DEF CompareExport, Comparing
<1>3. /\ Left' = Left /\ Right' = Right /\ LeftSpec' = LeftSpec /\ RightSpec' = RightSpec
      /\ Genuine' = Genuine /\ Reached' = Reached /\ Pairs' = Pairs
      /\ \A p : Alike(p)' = Alike(p) /\ InRests(p)' = InRests(p)
      /\ \A p, i : Follows(p, i)' = Follows(p, i)
      /\ \A y : Begins(y)' = Begins(y)
      /\ \A g, i : ImportSet(g, i)' = ImportSet(g, i)
  BY <1>2, SameGames
<1>4. /\ Len(specs) = 2 /\ LeftSpec.construction = LeftName /\ RightSpec.construction = RightName
      /\ IsGame(Left) /\ IsGame(Right)
  BY <1>2, HeaderGames
<1>5. exports \subseteq DOMAIN Left.exports /\ \E C : Compared(C)
  BY <1>2 DEF CheckInv, Progress
<1>6. Matched'
  BY <1>2, <1>3, <1>4 DEF Matched
<1>7. CASE x \notin DOMAIN Right.exports
  <2>1. verdict' = "panicked" /\ ~Genuine
    BY <1>1, <1>5, <1>7 DEF Genuine
  <2>2. ~Comparing' /\ Refused'
    BY <1>2, <1>3, <1>4, <2>1 DEF Comparing, Refused
  <2> QED
    BY <1>2, <1>6, <2>1, <2>2, SpecsStay DEF CheckInv, Progress, OnlyReached
<1>8. CASE x \in DOMAIN Right.exports
  <2>1. pending' = <<Begins(x)>> /\ exports' = exports \ {x} /\ verdict' = "checking"
    BY <1>1, <1>2, <1>8
  <2>2. Begins(x) \in Entrances /\ Begins(x) \in Pairs
    <3>1. Begins(x) \in Entrances
      BY <1>5, <1>8 DEF Entrances
    <3> QED
      BY <1>4, <3>1, StepInPairs
  <2>3. Len(pending') = 1 /\ pending'[1] = Begins(x) /\ Len(pending) = 0
    BY <1>2, <2>1
  <2>4. IsPending(Begins(x))' /\ ~\E p : IsPending(p)
    <3>1. PICK b : b = Begins(x) /\ b = Begins(x)'
      BY <1>3
    <3>2. IsPending(b)'
      BY <2>3, <3>1 DEF IsPending
    <3> QED
      BY <2>3, <3>1, <3>2 DEF IsPending
  <2>5. PICK C : Compared(C)
    BY <1>5
  <2>6. Compared(C)'
    <3>1. /\ C \subseteq Pairs' /\ \A p \in C : Alike(p)'
      BY <1>3, <2>5 DEF Compared
    <3>2. \A p \in C : InRests(p) => \A i \in ImportSet(Left, p[1]) : Follows(p, i) \in C
      BY <2>4, <2>5 DEF Compared
    <3>3. \A y \in DOMAIN Left.exports \ exports : y \in DOMAIN Right.exports /\ Begins(y) \in C
      BY <2>4, <2>5 DEF Compared
    <3>4. \A y \in DOMAIN Left.exports \ exports' :
             y \in DOMAIN Right.exports /\ (Begins(y) \in C \/ y = x)
      BY <1>8, <2>1, <3>3
    <3> QED
      BY <1>3, <2>4, <3>1, <3>2, <3>4 DEF Compared
  <2>7. Progress'
    <3>1. pending' \in Seq(Pairs')
      BY <1>3, <2>1, <2>2
    <3> QED
      BY <1>3, <1>5, <2>1, <2>6, <3>1 DEF Progress
  <2>8. OnlyReached'
    <3>1. Genuine => Begins(x) \in Reached
      BY <1>4, <2>2, ReachedIsClosed DEF Genuine
    <3> QED
      BY <1>3, <2>3, <3>1 DEF OnlyReached
  <2>9. TypeInv' /\ SpecsPassed' /\ Refused'
    BY <1>2, <2>1, SpecsStay DEF Refused
  <2> QED
    BY <1>6, <2>7, <2>8, <2>9 DEF CheckInv
<1> QED
  BY <1>7, <1>8

(* What a pair whose instances are alike makes pending: nothing, or what   *)
(* follows from it.                                                        *)
LEMMA UnfoldsToFollowing ==
  ASSUME IsGame(Left), IsGame(Right), NEW p \in Pairs, Alike(p)
  PROVE  /\ Unfold(p[1], p[2]) \in Seq(Pairs)
         /\ \A n \in 1..Len(Unfold(p[1], p[2])) :
               InRests(p) /\ \E i \in ImportSet(Left, p[1]) \cap ImportSet(Right, p[2]) :
                                Unfold(p[1], p[2])[n] = Follows(p, i)
         /\ InRests(p) => \A i \in ImportSet(Left, p[1]) :
               \E n \in 1..Len(Unfold(p[1], p[2])) : Unfold(p[1], p[2])[n] = Follows(p, i)
<1>1. p[1] \in DOMAIN Left.inst /\ p[2] \in DOMAIN Right.inst
  BY PairParts
<1>2. CASE Boundary(p[1], p[2])
  <2>1. Unfold(p[1], p[2]) = <<>> /\ ~InRests(p)
    BY <1>2 DEF Unfold, Boundary, InRests
  <2>2. <<>> \in Seq(Pairs) /\ Len(<<>>) = 0
    OBVIOUS
  <2> QED
    BY <2>1, <2>2
<1>3. CASE ~Boundary(p[1], p[2])
  <2>1. InRests(p) /\ Left.inst[p[1]] = Right.inst[p[2]]
    BY <1>3 DEF Alike, Boundary
  <2> DEFINE P == Left.inst[p[1]].pkg
  <2>2. P \in DOMAIN Imports /\ Right.inst[p[2]].pkg = P
    BY <1>1, <2>1, GameParts
  <2>3. Len(Imports[P]) \in Nat /\ DOMAIN Imports[P] = 1..Len(Imports[P])
    BY <2>2, GamesAssumption
  <2>4. /\ ImportSet(Left, p[1]) = {Imports[P][n] : n \in DOMAIN Imports[P]}
        /\ ImportSet(Right, p[2]) = ImportSet(Left, p[1])
    BY <2>2 DEF ImportSet
  <2>5. Unfold(p[1], p[2]) = [n \in DOMAIN Imports[P] |-> Follows(p, Imports[P][n])]
    BY <1>3 DEF Unfold, Calls, Follows
  <2> HIDE DEF P
  <2>6. \A n \in DOMAIN Imports[P] : Follows(p, Imports[P][n]) \in Pairs
    <3>1. ASSUME NEW i \in ImportSet(Left, p[1])
          PROVE  Follows(p, i) \in Pairs
      <4>1. Left.wires[p[1]][i].to \in DOMAIN Left.inst
        BY <1>1, GameParts
      <4>2. Right.wires[p[2]][i].to \in DOMAIN Right.inst
        BY <1>1, <2>4, GameParts
      <4> QED
        BY <4>1, <4>2, PairParts DEF Follows
    <3> QED
      BY <2>4, <3>1
  <2>7. /\ Unfold(p[1], p[2]) \in Seq(Pairs) /\ Len(Unfold(p[1], p[2])) = Len(Imports[P])
    <3> DEFINE u == Unfold(p[1], p[2])
               k == Len(Imports[P])
    <3>1. k \in Nat /\ u \in [1..k -> Pairs]
      BY <2>3, <2>5, <2>6
    <3> HIDE DEF u, k
    <3>2. u \in Seq(Pairs) /\ Len(u) = k
      BY <3>1
    <3> QED
      BY <3>2 DEF u, k
  <2>8. \A n \in 1..Len(Imports[P]) : Unfold(p[1], p[2])[n] = Follows(p, Imports[P][n])
    BY <2>3, <2>5
  <2> QED
    BY <2>1, <2>3, <2>4, <2>7, <2>8
<1> QED
  BY <1>2, <1>3

LEMMA ComparePairCheck ==
  ASSUME CheckInv, ComparePair
  PROVE  CheckInv'
<1>h. PICK h : h = Head(pending)
  OBVIOUS
<1> DEFINE next == Unfold(h[1], h[2]) \o Tail(pending)
<1>1. /\ verdict = "checking" /\ pending # <<>> /\ UNCHANGED <<typing, game, specs, exports>> /\ Comparing
  BY DEF ComparePair, Comparing
<1>2. IF Boundary(h[1], h[2]) \/ (Inside(h[1], h[2]) /\ SamePackage(Left, h[1], Right, h[2]))
      THEN /\ pending' = next
           /\ verdict' = IF next = <<>> /\ exports = {} THEN FinalVerdict ELSE verdict
      ELSE verdict' = "rejected" /\ UNCHANGED pending
  BY <1>h DEF ComparePair
<1>3. /\ Left' = Left /\ Right' = Right /\ LeftSpec' = LeftSpec /\ RightSpec' = RightSpec
      /\ Genuine' = Genuine /\ Reached' = Reached /\ Pairs' = Pairs
      /\ \A p : Alike(p)' = Alike(p) /\ InRests(p)' = InRests(p)
      /\ \A p, i : Follows(p, i)' = Follows(p, i)
      /\ \A y : Begins(y)' = Begins(y)
      /\ \A g, i : ImportSet(g, i)' = ImportSet(g, i)
  BY <1>1, SameGames
<1>4. /\ Len(specs) = 2 /\ LeftSpec.construction = LeftName /\ RightSpec.construction = RightName
      /\ IsGame(Left) /\ IsGame(Right)
  BY <1>1, HeaderGames
<1>5. exports \subseteq DOMAIN Left.exports /\ pending \in Seq(Pairs) /\ \E C : Compared(C)
  BY <1>1 DEF CheckInv, Progress
<1>6. Matched'
  BY <1>1, <1>3, <1>4 DEF Matched
<1>7. /\ h \in Pairs /\ Tail(pending) \in Seq(Pairs) /\ Len(pending) \in Nat /\ Len(pending) > 0
      /\ pending[1] = h /\ Len(Tail(pending)) = Len(pending) - 1
      /\ \A n \in 1..Len(Tail(pending)) : Tail(pending)[n] = pending[n + 1]
  <2> HIDE DEF Pairs
  <2> QED
    BY <1>1, <1>5, <1>h
<1>8. h[1] \in DOMAIN Left.inst /\ h[2] \in DOMAIN Right.inst
  BY <1>7, PairParts
<1>9. Genuine => h \in Reached
  <2>1. 1 \in 1..Len(pending)
    BY <1>7
  <2> QED
    BY <1>1, <1>7, <2>1 DEF CheckInv, OnlyReached
<1> HIDE DEF next
<1>10. Boundary(h[1], h[2]) \/ (Inside(h[1], h[2]) /\ SamePackage(Left, h[1], Right, h[2])) <=> Alike(h)
  <2>1. SamePackage(Left, h[1], Right, h[2]) <=> Left.inst[h[1]] = Right.inst[h[2]]
    <3>1. /\ Left.inst[h[1]] = [pkg |-> Left.inst[h[1]].pkg, params |-> Left.inst[h[1]].params]
          /\ Right.inst[h[2]] = [pkg |-> Right.inst[h[2]].pkg, params |-> Right.inst[h[2]].params]
      BY <1>4, <1>8, GameParts
    <3> QED
      BY <3>1 DEF SamePackage
  <2> QED
    BY <2>1 DEF Alike, InRests, Boundary, Inside
<1>11. CASE ~Alike(h)
  <2>1. verdict' = "rejected"
    BY <1>2, <1>10, <1>11
  <2>2. ~Genuine
    BY <1>9, <1>11 DEF Genuine, UnfoldAlike, Alike, ReachedRests, InRests
  <2>3. ~Comparing' /\ Refused'
    BY <1>1, <1>3, <1>4, <2>1, <2>2 DEF Comparing, Refused
  <2> QED
    BY <1>1, <1>6, <2>1, <2>3, SpecsStay DEF CheckInv, Progress, OnlyReached
<1>12. CASE Alike(h)
  <2> DEFINE u == Unfold(h[1], h[2])
  <2>1. /\ pending' = next /\ verdict' = IF next = <<>> /\ exports = {} THEN FinalVerdict ELSE verdict
    BY <1>2, <1>10, <1>12
  <2>2. /\ u \in Seq(Pairs)
        /\ \A n \in 1..Len(u) : InRests(h) /\ \E i \in ImportSet(Left, h[1]) \cap ImportSet(Right, h[2]) : u[n] = Follows(h, i)
        /\ InRests(h) => \A i \in ImportSet(Left, h[1]) : \E n \in 1..Len(u) : u[n] = Follows(h, i)
    BY <1>4, <1>7, <1>12, UnfoldsToFollowing
  <2>3. next = u \o Tail(pending)
    BY DEF next
  <2> HIDE DEF u
  <2>4. /\ next \in Seq(Pairs) /\ Len(next) = Len(u) + Len(Tail(pending))
        /\ Len(u) \in Nat /\ Len(Tail(pending)) \in Nat
        /\ \A n \in 1..Len(u) : next[n] = u[n]
        /\ \A n \in 1..Len(Tail(pending)) : next[n + Len(u)] = Tail(pending)[n]
    <3> DEFINE b == Tail(pending)
    <3>1. b \in Seq(Pairs)
      BY <1>7
    <3> HIDE DEF b, Pairs
    <3>2. /\ u \o b \in Seq(Pairs) /\ Len(u \o b) = Len(u) + Len(b) /\ Len(u) \in Nat /\ Len(b) \in Nat
          /\ \A n \in 1..Len(u) : (u \o b)[n] = u[n]
          /\ \A n \in 1..Len(b) : (u \o b)[n + Len(u)] = b[n]
      BY <2>2, <3>1
    <3> QED
      BY <2>3, <3>2 DEF b
  <2>5. \A p : IsPending(p) => IsPending(p)' \/ p = h
    <3> SUFFICES ASSUME NEW p, IsPending(p), p # h PROVE \E n \in 1..Len(next) : next[n] = p
      BY <2>1 DEF IsPending
    <3>1. PICK n \in 1..Len(pending) : pending[n] = p
      BY DEF IsPending
    <3>2. n # 1 /\ n - 1 \in 1..Len(Tail(pending)) /\ (n - 1) + 1 = n
      BY <1>7, <3>1
    <3>3. next[(n - 1) + Len(u)] = p /\ (n - 1) + Len(u) \in 1..Len(next)
      <4>1. next[(n - 1) + Len(u)] = Tail(pending)[n - 1]
        BY <2>4, <3>2
      <4>2. Tail(pending)[n - 1] = pending[(n - 1) + 1]
        BY <1>7, <3>2
      <4>3. (n - 1) + Len(u) \in 1..Len(next)
        BY <2>4, <3>2
      <4> QED
        BY <3>1, <3>2, <4>1, <4>2, <4>3
    <3> QED
      BY <3>3
  <2>6. InRests(h) => \A i \in ImportSet(Left, h[1]) : IsPending(Follows(h, i))'
    <3> SUFFICES ASSUME InRests(h), NEW i \in ImportSet(Left, h[1]) PROVE IsPending(Follows(h, i))'
      OBVIOUS
    <3>1. PICK n \in 1..Len(u) : u[n] = Follows(h, i)
      BY <2>2
    <3>2. n \in 1..Len(next) /\ next[n] = Follows(h, i)
      BY <2>4, <3>1
    <3>3. PICK q : q = Follows(h, i) /\ q = Follows(h, i)'
      BY <1>3
    <3>4. IsPending(q)'
      BY <2>1, <3>2, <3>3 DEF IsPending
    <3> QED
      BY <3>3, <3>4
  <2>7. PICK C : Compared(C)
    BY <1>5
  <2> DEFINE D == C \cup {h}
  <2>8. Compared(D)'
    <3>1. D \subseteq Pairs' /\ \A p \in D : Alike(p)'
      BY <1>3, <1>7, <1>12, <2>7 DEF Compared
    <3>2. ASSUME NEW p \in D, InRests(p), NEW i \in ImportSet(Left, p[1])
          PROVE  Follows(p, i) \in D \/ IsPending(Follows(p, i))'
      <4>1. CASE p = h
        BY <2>6, <3>2, <4>1
      <4>2. CASE p # h
        <5>1. PICK q : q = Follows(p, i) /\ q = Follows(p, i)'
          BY <1>3
        <5>2. q \in C \/ IsPending(q)
          BY <2>7, <3>2, <4>2, <5>1 DEF Compared
        <5>3. q \in D \/ IsPending(q)'
          BY <2>5, <5>2
        <5> QED
          BY <5>1, <5>3
      <4> QED
        BY <4>1, <4>2
    <3>3. ASSUME NEW y \in DOMAIN Left.exports \ exports
          PROVE  y \in DOMAIN Right.exports /\ (Begins(y) \in D \/ IsPending(Begins(y))')
      <4>1. PICK q : q = Begins(y) /\ q = Begins(y)'
        BY <1>3
      <4>2. y \in DOMAIN Right.exports /\ (q \in C \/ IsPending(q))
        BY <2>7, <4>1 DEF Compared
      <4>3. q \in D \/ IsPending(q)'
        BY <2>5, <4>2
      <4> QED
        BY <4>1, <4>2, <4>3
    <3> HIDE DEF D
    <3> QED
      BY <1>1, <1>3, <3>1, <3>2, <3>3 DEF Compared
  <2>9. verdict' \in {"checking", "accepted", "panicked"}
    BY <1>1, <2>1 DEF FinalVerdict
  <2>10. TypeInv' /\ SpecsPassed'
    BY <1>1, <2>9, SpecsStay
  <2>11. Progress'
    <3>1. verdict' = "accepted" => exports' = {} /\ pending' = <<>> /\ LeftSpec.assumption # RightSpec.assumption
                                           /\ LeftName # RightName
      BY <1>1, <1>4, <2>1 DEF FinalVerdict
    <3>2. pending' \in Seq(Pairs')
      BY <1>3, <2>1, <2>4
    <3> HIDE DEF D
    <3> QED
      BY <1>1, <1>3, <1>5, <2>8, <3>1, <3>2 DEF Progress
  <2>12. OnlyReached'
    <3> SUFFICES ASSUME Genuine, NEW n \in 1..Len(next)
                 PROVE  next[n] \in Reached
      BY <1>3, <2>1 DEF OnlyReached
    <3>1. CASE n \in 1..Len(u)
      <4>1. InRests(h) /\ \E i \in ImportSet(Left, h[1]) \cap ImportSet(Right, h[2]) : next[n] = Follows(h, i)
        BY <2>2, <2>4, <3>1
      <4>2. next[n] \in ReachStep(Reached)
        BY <1>9, <4>1 DEF ReachStep
      <4>3. ReachStep(Reached) \subseteq Reached
        BY <1>4, ReachedIsClosed DEF Genuine
      <4> QED
        BY <4>2, <4>3
    <3>2. CASE n \notin 1..Len(u)
      <4>1. n - Len(u) \in 1..Len(Tail(pending)) /\ (n - Len(u)) + Len(u) = n
        BY <2>4, <3>2
      <4>2. next[n] = pending[(n - Len(u)) + 1] /\ (n - Len(u)) + 1 \in 1..Len(pending)
        <5>1. next[n] = Tail(pending)[n - Len(u)]
          BY <2>4, <4>1
        <5>2. Tail(pending)[n - Len(u)] = pending[(n - Len(u)) + 1]
          BY <1>7, <4>1
        <5>3. (n - Len(u)) + 1 \in 1..Len(pending)
          BY <1>7, <4>1
        <5> QED
          BY <5>1, <5>2, <5>3
      <4> QED
        BY <1>1, <4>2 DEF CheckInv, OnlyReached
    <3> QED
      BY <3>1, <3>2
  <2>13. Refused'
    <3>1. verdict' = "panicked" => ~Genuine
      BY <1>1, <2>1, FinalOfGenuine
    <3> QED
      BY <1>1, <1>3, <1>4, <2>9, <3>1 DEF Refused
  <2> QED
    BY <1>6, <2>10, <2>11, <2>12, <2>13 DEF CheckInv
<1> QED
  BY <1>11, <1>12

LEMMA NothingHappens ==
  ASSUME CheckInv, UNCHANGED vars
  PROVE  CheckInv'
<1>1. /\ UNCHANGED <<typing, game, specs>> /\ UNCHANGED <<exports, pending, verdict>>
  BY DEF vars
<1>2. /\ Left' = Left /\ Right' = Right /\ LeftSpec' = LeftSpec /\ RightSpec' = RightSpec
      /\ Genuine' = Genuine /\ Reached' = Reached /\ Pairs' = Pairs
      /\ \A s : Passed(s)' = Passed(s) /\ MappingVerdict(s)' = MappingVerdict(s)
      /\ \A p : Alike(p)' = Alike(p) /\ InRests(p)' = InRests(p)
      /\ \A p, i : Follows(p, i)' = Follows(p, i)
      /\ \A x : Begins(x)' = Begins(x)
      /\ \A g, i : ImportSet(g, i)' = ImportSet(g, i)
  BY <1>1, SameGames
<1>3. TypeInv' /\ Matched' /\ OnlyReached'
  BY <1>1, <1>2 DEF CheckInv, TypeInv, Matched, OnlyReached, Comparing
<1>4. SpecsPassed'
  <2>1. ASSUME NEW k \in DOMAIN specs, Passed(specs[k])
        PROVE  Passed(specs[k])'
    <3>1. PICK t : t = specs[k]
      OBVIOUS
    <3> QED
      BY <1>1, <1>2, <2>1, <3>1
  <2> QED
    BY <1>1, <2>1 DEF CheckInv, SpecsPassed
<1>5. Progress'
  <2>1. ASSUME NEW C, Compared(C)
        PROVE  Compared(C)'
    <3>1. \A p : IsPending(p)' = IsPending(p)
      BY <1>1 DEF IsPending
    <3>2. ASSUME NEW p, NEW i
          PROVE  IsPending(Follows(p, i))' = IsPending(Follows(p, i))
      <4>1. PICK q : q = Follows(p, i) /\ q = Follows(p, i)'
        BY <1>2
      <4> QED
        BY <3>1, <4>1
    <3>3. ASSUME NEW x
          PROVE  IsPending(Begins(x))' = IsPending(Begins(x))
      <4>1. PICK q : q = Begins(x) /\ q = Begins(x)'
        BY <1>2
      <4> QED
        BY <3>1, <4>1
    <3> QED
      BY <1>1, <1>2, <2>1, <3>2, <3>3 DEF Compared
  <2> QED
    BY <1>1, <1>2, <2>1 DEF CheckInv, Progress, Comparing
<1>6. Refused'
  <2>1. PICK t : t = specs[Len(specs)]
    OBVIOUS
  <2>2. (NamesFit(t) <=> NamesFit(t)') /\ MappingVerdict(t)' = MappingVerdict(t)
    BY <1>2 DEF NamesFit
  <2> QED
    BY <1>1, <1>2, <2>1, <2>2 DEF CheckInv, Refused
<1> QED
  BY <1>3, <1>4, <1>5, <1>6 DEF CheckInv

(* The inductive invariant holds for every game, mapping spec and order of *)
(* the exports.                                                            *)
THEOREM CheckInvariant == Spec => []CheckInv
<1>1. Init => CheckInv
  BY InitCheck
<1>2. CheckInv /\ [Next]_vars => CheckInv'
  BY ReadMappingCheck, MatchHeaderCheck, CompareExportCheck, ComparePairCheck, NothingHappens DEF Next, Decided
<1> QED
  BY <1>1, <1>2, PTL DEF Spec

(* The check never refuses, nor panics on, a reduction that is one, and    *)
(* refuses no first mapping that cuts its game as it should.               *)
THEOREM GenuineReductionsPass == Spec => []GenuineIsAccepted
<1>1. CheckInv => GenuineIsAccepted
  <2> SUFFICES ASSUME CheckInv, verdict \in {"rejected", "panicked"}
               PROVE  IF Len(specs) = 1 THEN ~GenuineCut(specs[1]) ELSE ~Genuine
    BY DEF GenuineIsAccepted
  <2>1. CASE Len(specs) = 2 /\ ~Genuine
    BY <2>1
  <2>2. CASE Len(specs) > 0 /\ ~(NamesFit(specs[Len(specs)]) /\ MappingVerdict(specs[Len(specs)]) = "checking")
    <3>1. ~GenuineCut(specs[Len(specs)])
      BY <2>2, GenuinePasses DEF GenuineCut
    <3>2. Len(specs) = 1 \/ Len(specs) = 2
      <4>1. specs \in Seq(SpecSet) /\ Len(specs) <= 2
        BY DEF CheckInv, TypeInv
      <4>2. Len(specs) \in Nat /\ Len(specs) <= 2
        BY <4>1
      <4>3. \A n \in Nat : n > 0 /\ n <= 2 => n = 1 \/ n = 2
        OBVIOUS
      <4> QED
        BY <2>2, <4>2, <4>3
    <3> QED
      BY <3>1, <3>2 DEF Genuine
  <2> QED
    BY <2>1, <2>2 DEF CheckInv, Refused
<1> QED
  BY <1>1, CheckInvariant, PTL

(* When the comparison is over, what was compared is closed.               *)
LEMMA AcceptedComparison ==
  ASSUME CheckInv, verdict = "accepted"
  PROVE  \E C : /\ Reached \subseteq C /\ \A p \in C : Alike(p)
                /\ DOMAIN Left.exports \subseteq DOMAIN Right.exports
<1>1. Comparing /\ exports = {} /\ pending = <<>>
  BY DEF CheckInv, Progress, Comparing
<1>2. PICK C : Compared(C)
  BY <1>1 DEF CheckInv, Progress
<1>3. IsGame(Left) /\ IsGame(Right)
  BY <1>1, HeaderGames
<1>4. ~\E p : IsPending(p)
  BY <1>1 DEF IsPending
<1>5. \A x \in DOMAIN Left.exports : x \in DOMAIN Right.exports /\ Begins(x) \in C
  BY <1>1, <1>2, <1>4 DEF Compared
<1>6. Entrances \subseteq C
  BY <1>5 DEF Entrances
<1>7. \A p \in C : InRests(p) => \A i \in ImportSet(Left, p[1]) : Follows(p, i) \in C
  BY <1>2, <1>4 DEF Compared
<1>8. ReachStep(C) \subseteq C
  BY <1>7 DEF ReachStep
<1>9. Reached \subseteq C
  BY <1>3, <1>6, <1>8, ReachedIsLeast
<1> QED
  BY <1>2, <1>5, <1>9 DEF Compared

LEMMA AcceptedAlike ==
  ASSUME CheckInv, verdict = "accepted"
  PROVE  UnfoldAlike
<1>1. PICK C : /\ Reached \subseteq C /\ \A p \in C : Alike(p)
               /\ DOMAIN Left.exports \subseteq DOMAIN Right.exports
  BY AcceptedComparison
<1>2. \A p \in Reached : (p[1] \in Mapped(LeftSpec)) <=> (p[2] \in Mapped(RightSpec))
  BY <1>1 DEF Alike, InRests
<1>3. \A p \in ReachedRests : Left.inst[p[1]] = Right.inst[p[2]]
  BY <1>1 DEF Alike, InRests, ReachedRests
<1> QED
  BY <1>1, <1>2, <1>3 DEF UnfoldAlike

LEMMA PassedEnters ==
  ASSUME CheckInv, NEW s, Passed(s)
  PROVE  EntersAtExports(s)
<1> DEFINE ag == game[s.assumption]
           cg == game[s.construction]
           rest == DOMAIN cg.inst \ Mapped(s)
<1>1. /\ CrossCutWiresExported(s) /\ CrossCutExportsExported(s)
      /\ s.assumption \in DOMAIN game /\ s.construction \in DOMAIN game
  BY DEF Passed
<1>2. IsGame(ag) /\ IsGame(cg)
  BY <1>1 DEF CheckInv, TypeInv
<1>3. ASSUME NEW w, w.to \in Mapped(s), Offers(s, w)
      PROVE  \E x \in DOMAIN ag.exports : ag.exports[x] = InAssumption(s, w)
  <2>1. PICK x \in DOMAIN ag.exports : ag.exports[x].to = AsAssumption(s, w.to) /\ ag.exports[x].oracle = w.oracle
    BY <1>3 DEF Offers
  <2>2. ag.exports[x] = [to |-> ag.exports[x].to, oracle |-> ag.exports[x].oracle]
    BY <1>2, GameParts
  <2> QED
    BY <2>1, <2>2 DEF InAssumption
<1>4. ASSUME NEW x \in DOMAIN cg.exports, cg.exports[x].to \in Mapped(s)
      PROVE  Offers(s, cg.exports[x])
  BY <1>1, <1>4 DEF CrossCutExportsExported
<1>5. ASSUME NEW r \in rest, NEW i \in ImportSet(cg, r), cg.wires[r][i].to \in Mapped(s)
      PROVE  Offers(s, cg.wires[r][i])
  BY <1>1, <1>5 DEF CrossCutWiresExported
<1>6. ASSUME NEW w \in {cg.exports[x] : x \in DOMAIN cg.exports}
                       \cup UNION {{cg.wires[r][i] : i \in ImportSet(cg, r)} : r \in rest},
             w.to \in Mapped(s)
      PROVE  \E x \in DOMAIN ag.exports : ag.exports[x] = InAssumption(s, w)
  BY <1>3, <1>4, <1>5, <1>6
<1> QED
  BY <1>6 DEF EntersAtExports

(* In an accepted reduction every wire or export that enters a mapped part *)
(* is one the assumption offers, and the rests cannot be told apart by     *)
(* following wires from the adversary.                                     *)
THEOREM AcceptedRestsAreAlike == Spec => []AcceptedUnfoldsAlike
<1>1. CheckInv => AcceptedUnfoldsAlike
  <2> SUFFICES ASSUME CheckInv, verdict = "accepted"
               PROVE  UnfoldAlike /\ \A s \in {LeftSpec, RightSpec} : EntersAtExports(s)
    BY DEF AcceptedUnfoldsAlike
  <2>1. Passed(LeftSpec) /\ Passed(RightSpec)
    BY HeaderGames DEF Comparing
  <2> QED
    BY <2>1, AcceptedAlike, PassedEnters
<1> QED
  BY <1>1, CheckInvariant, PTL

(* Where no oracle is renamed and types tell imports apart, the mapped     *)
(* part of a spec that passed is wired like the assumption.                *)
LEMMA PassedIsWiredLike ==
  ASSUME CheckInv, NEW s \in SpecSet, Passed(s),
         \A n \in DOMAIN game : TypesTellImports(game[n]) /\ Unaliased(game[n])
  PROVE  WiredLike(s)
<1> DEFINE ag == game[s.assumption]
           cg == game[s.construction]
<1>1. /\ EntriesFit(s) /\ WiresStayInside(s) /\ WiresOfConstructionKnown(s)
      /\ s.assumption \in DOMAIN game /\ s.construction \in DOMAIN game
  BY DEF Passed
<1>2. TypesTellImports(cg) /\ Unaliased(cg) /\ Unaliased(ag)
  BY <1>1
<1>3. SUFFICES ASSUME NEW e \in s.entries, NEW i \in ImportSet(cg, e[2])
               PROVE  /\ cg.wires[e[2]][i].oracle = ag.wires[e[1]][i].oracle
                      /\ <<ag.wires[e[1]][i].to, cg.wires[e[2]][i].to>> \in s.entries
  BY DEF WiredLike
<1>4. /\ e[1] \in DOMAIN ag.inst /\ e[2] \in DOMAIN cg.inst
      /\ ag.inst[e[1]].pkg = cg.inst[e[2]].pkg
  BY <1>1 DEF EntriesFit, SamePackage
<1>5. ImportSet(ag, e[1]) = ImportSet(cg, e[2])
  BY <1>4 DEF ImportSet
<1>6. PICK j \in ImportSet(ag, e[1]) :
        /\ ag.wires[e[1]][j].to = AsAssumption(s, cg.wires[e[2]][i].to)
        /\ typing[cg.wires[e[2]][i].oracle] = typing[ag.wires[e[1]][j].oracle]
  BY <1>1 DEF WiresOfConstructionKnown
<1>7. cg.wires[e[2]][i].oracle = i /\ ag.wires[e[1]][j].oracle = j /\ ag.wires[e[1]][i].oracle = i
  BY <1>2, <1>4, <1>5 DEF Unaliased
<1>8. i = j
  BY <1>2, <1>4, <1>5, <1>6, <1>7 DEF TypesTellImports
<1>9. e[2] \in Mapped(s)
  BY DEF Mapped
<1>10. cg.wires[e[2]][i].to \in Mapped(s)
  BY <1>1, <1>9 DEF WiresStayInside
<1>11. PICK f \in s.entries : f[2] = cg.wires[e[2]][i].to
  BY <1>10 DEF Mapped
<1>12. AsAssumption(s, f[2]) = f[1]
  BY <1>1, EntriesAreUnique
<1>13. f = <<f[1], f[2]>>
  <2>1. s.entries \in EntrySets
    BY DEF SpecSet
  <2> QED
    BY <2>1, GamesAssumption
<1> QED
  BY <1>6, <1>7, <1>8, <1>11, <1>12, <1>13

(* How a pair comes to be reached, given the pairs that were before.       *)
Caused(S, q) ==
    \/ \E x \in DOMAIN Left.exports \cap DOMAIN Right.exports : q = Begins(x)
    \/ \E o \in S : \E i \in ImportSet(Left, o[1]) \cap ImportSet(Right, o[2]) :
          InRests(o) /\ q = Follows(o, i)

SharedIn(S) == \A p, q \in S : InRests(p) /\ InRests(q) => ((p[1] = q[1]) <=> (p[2] = q[2]))

(* Where every instance of the rests has one caller, equal targets have    *)
(* equal callers.                                                          *)
LEMMA CausesAreShared ==
  ASSUME IsGame(Left), IsGame(Right), NothingShared(LeftSpec), NothingShared(RightSpec),
         LeftSpec.construction = LeftName, RightSpec.construction = RightName,
         NEW S \in SUBSET Pairs, SharedIn(S), NEW T \in SUBSET Pairs, \A q \in T : Caused(S, q)
  PROVE  SharedIn(T)
<1>1. SUFFICES ASSUME NEW p \in T, NEW q \in T, InRests(p), InRests(q)
               PROVE  (p[1] = q[1]) <=> (p[2] = q[2])
  BY DEF SharedIn
<1>2. /\ p[1] \in DOMAIN Left.inst \ Mapped(LeftSpec) /\ q[1] \in DOMAIN Left.inst \ Mapped(LeftSpec)
      /\ p[2] \in DOMAIN Right.inst \ Mapped(RightSpec) /\ q[2] \in DOMAIN Right.inst \ Mapped(RightSpec)
  BY <1>1, PairParts DEF InRests
<1>3. /\ \A v, w \in Callers(Left, p[1]) : v = w
      /\ \A v, w \in Callers(Right, p[2]) : v = w
  BY <1>2 DEF NothingShared, Left, Right
<1>4. ASSUME NEW x \in DOMAIN Left.exports \cap DOMAIN Right.exports
      PROVE  /\ <<"export", x>> \in Callers(Left, Begins(x)[1])
             /\ <<"export", x>> \in Callers(Right, Begins(x)[2])
  BY DEF Callers, Begins
<1>5. ASSUME NEW o \in S, NEW i \in ImportSet(Left, o[1]) \cap ImportSet(Right, o[2])
      PROVE  /\ <<"import", o[1], i>> \in Callers(Left, Follows(o, i)[1])
             /\ <<"import", o[2], i>> \in Callers(Right, Follows(o, i)[2])
  <2>1. o[1] \in DOMAIN Left.inst /\ o[2] \in DOMAIN Right.inst
    BY PairParts
  <2>2. Follows(o, i)[1] = Left.wires[o[1]][i].to /\ Follows(o, i)[2] = Right.wires[o[2]][i].to
    BY DEF Follows
  <2>3. <<"import", o[1], i>> \in Callers(Left, Follows(o, i)[1])
    BY <2>1, <2>2 DEF Callers
  <2>4. <<"import", o[2], i>> \in Callers(Right, Follows(o, i)[2])
    BY <2>1, <2>2 DEF Callers
  <2> QED
    BY <2>3, <2>4
<1>6. \A a, b, c : <<"export", a>> # <<"import", b, c>>
  OBVIOUS
<1> HIDE DEF Callers
<1>7. CASE (\E x \in DOMAIN Left.exports \cap DOMAIN Right.exports : p = Begins(x))
  <2>1. PICK x \in DOMAIN Left.exports \cap DOMAIN Right.exports : p = Begins(x)
    BY <1>7
  <2>2. <<"export", x>> \in Callers(Left, p[1]) /\ <<"export", x>> \in Callers(Right, p[2])
    BY <1>4, <2>1
  <2>3. CASE \E y \in DOMAIN Left.exports \cap DOMAIN Right.exports : q = Begins(y)
    <3>1. PICK y \in DOMAIN Left.exports \cap DOMAIN Right.exports : q = Begins(y)
      BY <2>3
    <3>2. <<"export", y>> \in Callers(Left, q[1]) /\ <<"export", y>> \in Callers(Right, q[2])
      BY <1>4, <3>1
    <3>3. p[1] = q[1] \/ p[2] = q[2] => <<"export", x>> = <<"export", y>>
      BY <1>3, <2>2, <3>2
    <3>4. p[1] = q[1] \/ p[2] = q[2] => x = y
      BY <3>3
    <3> QED
      BY <2>1, <3>1, <3>4
  <2>4. CASE \E o \in S : \E i \in ImportSet(Left, o[1]) \cap ImportSet(Right, o[2]) : InRests(o) /\ q = Follows(o, i)
    <3>1. PICK o \in S : \E i \in ImportSet(Left, o[1]) \cap ImportSet(Right, o[2]) : InRests(o) /\ q = Follows(o, i)
      BY <2>4
    <3>2. PICK i \in ImportSet(Left, o[1]) \cap ImportSet(Right, o[2]) : InRests(o) /\ q = Follows(o, i)
      BY <3>1
    <3>3. <<"import", o[1], i>> \in Callers(Left, q[1]) /\ <<"import", o[2], i>> \in Callers(Right, q[2])
      BY <1>5, <3>2
    <3> QED
      BY <1>3, <1>6, <2>2, <3>3
  <2>5. Caused(S, q)
    OBVIOUS
  <2> QED
    BY <2>3, <2>4, <2>5 DEF Caused
<1>8. CASE \E o \in S : \E i \in ImportSet(Left, o[1]) \cap ImportSet(Right, o[2]) : InRests(o) /\ p = Follows(o, i)
  <2>1. PICK o \in S : \E i \in ImportSet(Left, o[1]) \cap ImportSet(Right, o[2]) : InRests(o) /\ p = Follows(o, i)
    BY <1>8
  <2>2. PICK i \in ImportSet(Left, o[1]) \cap ImportSet(Right, o[2]) : InRests(o) /\ p = Follows(o, i)
    BY <2>1
  <2>3. <<"import", o[1], i>> \in Callers(Left, p[1]) /\ <<"import", o[2], i>> \in Callers(Right, p[2])
    BY <1>5, <2>2
  <2>4. CASE \E y \in DOMAIN Left.exports \cap DOMAIN Right.exports : q = Begins(y)
    <3>1. PICK y \in DOMAIN Left.exports \cap DOMAIN Right.exports : q = Begins(y)
      BY <2>4
    <3>2. <<"export", y>> \in Callers(Left, q[1]) /\ <<"export", y>> \in Callers(Right, q[2])
      BY <1>4, <3>1
    <3> QED
      BY <1>3, <1>6, <2>3, <3>2
  <2>5. CASE \E u \in S : \E j \in ImportSet(Left, u[1]) \cap ImportSet(Right, u[2]) : InRests(u) /\ q = Follows(u, j)
    <3>1. PICK u \in S : \E j \in ImportSet(Left, u[1]) \cap ImportSet(Right, u[2]) : InRests(u) /\ q = Follows(u, j)
      BY <2>5
    <3>2. PICK j \in ImportSet(Left, u[1]) \cap ImportSet(Right, u[2]) : InRests(u) /\ q = Follows(u, j)
      BY <3>1
    <3>3. <<"import", u[1], j>> \in Callers(Left, q[1]) /\ <<"import", u[2], j>> \in Callers(Right, q[2])
      BY <1>5, <3>2
    <3>4. /\ p[1] = q[1] => <<"import", o[1], i>> = <<"import", u[1], j>>
          /\ p[2] = q[2] => <<"import", o[2], i>> = <<"import", u[2], j>>
      BY <1>3, <2>3, <3>3
    <3>5. /\ p[1] = q[1] => o[1] = u[1] /\ i = j
          /\ p[2] = q[2] => o[2] = u[2] /\ i = j
      BY <3>4
    <3>6. (o[1] = u[1]) <=> (o[2] = u[2])
      BY <2>2, <3>2 DEF SharedIn
    <3> QED
      BY <2>2, <3>2, <3>5, <3>6 DEF Follows
  <2>6. Caused(S, q)
    OBVIOUS
  <2> QED
    BY <2>4, <2>5, <2>6 DEF Caused
<1>9. Caused(S, p)
  OBVIOUS
<1> QED
  BY <1>7, <1>8, <1>9 DEF Caused

LEMMA OneCallerEach ==
  ASSUME IsGame(Left), IsGame(Right), NothingShared(LeftSpec), NothingShared(RightSpec),
         LeftSpec.construction = LeftName, RightSpec.construction = RightName
  PROVE  SharedAlike
<1>1. PICK f : Levels(f)
  BY ReachedLevels
<1>2. /\ f[0] = Entrances
      /\ \A n \in Nat : f[n] \in SUBSET Pairs /\ f[n + 1] = ReachStep(f[n])
      /\ Reached = f[Instances] /\ Instances \in Nat
  BY <1>1, InstancesType DEF Levels
<1>3. ASSUME NEW n \in Nat, NEW q \in f[n + 1]
      PROVE  q \in f[n] \/ Caused(f[n], q)
  BY <1>2, <1>3 DEF ReachStep, Caused
<1>4. \A n \in Nat : f[n] \subseteq f[n + 1]
  BY <1>2 DEF ReachStep
<1> DEFINE A == {n \in Nat : \A q \in f[n + 1] : Caused(f[n], q)}
           B == {n \in Nat : SharedIn(f[n])}
<1>5. \A q \in f[0] : \A S : Caused(S, q)
  BY <1>2 DEF Entrances, Caused
<1>6. Nat \subseteq A
  <2>1. 0 \in A
    <3>1. \A q \in f[0 + 1] : q \in f[0] \/ Caused(f[0], q)
      BY <1>3
    <3> QED
      BY <1>5, <3>1
  <2>2. ASSUME NEW n \in Nat, n \in A
        PROVE  n + 1 \in A
    <3>1. n + 1 \in Nat /\ f[n] \subseteq f[n + 1]
      BY <1>4
    <3>2. \A q : Caused(f[n], q) => Caused(f[n + 1], q)
      BY <3>1 DEF Caused
    <3>3. \A q \in f[(n + 1) + 1] : q \in f[n + 1] \/ Caused(f[n + 1], q)
      BY <1>3, <3>1
    <3>4. \A q \in f[n + 1] : Caused(f[n], q)
      BY <2>2
    <3> QED
      BY <3>1, <3>2, <3>3, <3>4
  <2> HIDE DEF A
  <2> QED
    BY <2>1, <2>2, NaturalInduction
<1>7. 0 \in B
  <2>1. SharedIn({}) /\ {} \in SUBSET Pairs /\ f[0] \in SUBSET Pairs
    BY <1>2 DEF SharedIn
  <2>2. \A q \in f[0] : Caused({}, q)
    BY <1>5
  <2>3. SharedIn(f[0])
    BY <2>1, <2>2, CausesAreShared
  <2> QED
    BY <2>3
<1>8. ASSUME NEW n \in Nat, n \in B
      PROVE  n + 1 \in B
  <2>1. n + 1 \in Nat /\ f[n] \in SUBSET Pairs /\ f[n + 1] \in SUBSET Pairs /\ SharedIn(f[n])
    BY <1>2, <1>8
  <2>2. \A q \in f[n + 1] : Caused(f[n], q)
    BY <1>6
  <2>3. SharedIn(f[n + 1])
    BY <2>1, <2>2, CausesAreShared
  <2> QED
    BY <2>1, <2>3
<1>9. Nat \subseteq B
  <2> HIDE DEF B
  <2> QED
    BY <1>7, <1>8, NaturalInduction
<1>10. SharedIn(Reached)
  BY <1>2, <1>9
<1> QED
  BY <1>10 DEF SharedIn, SharedAlike, ReachedRests

(* Equal oracles of the assumption are offered under one name on both      *)
(* sides.                                                                  *)
LEMMA EqualOraclesEndAlike ==
  ASSUME Unambiguous, RightSpec.assumption \in Assumption, NEW v, NEW w, v.oracle = w.oracle,
         v.to \in Mapped(LeftSpec) => \E x \in DOMAIN game[LeftSpec.assumption].exports :
                                          game[LeftSpec.assumption].exports[x] = InAssumption(LeftSpec, v),
         w.to \in Mapped(RightSpec) => \E x \in DOMAIN game[RightSpec.assumption].exports :
                                          game[RightSpec.assumption].exports[x] = InAssumption(RightSpec, w)
  PROVE  SameEnd(v, w)
<1> DEFINE lx == game[LeftSpec.assumption].exports
           rx == game[RightSpec.assumption].exports
<1>1. CASE ~(v.to \in Mapped(LeftSpec) /\ w.to \in Mapped(RightSpec))
  BY <1>1 DEF SameEnd
<1>2. CASE v.to \in Mapped(LeftSpec) /\ w.to \in Mapped(RightSpec)
  <2>1. PICK x \in DOMAIN lx : lx[x] = InAssumption(LeftSpec, v)
    BY <1>2
  <2>2. PICK y \in DOMAIN rx : rx[y] = InAssumption(RightSpec, w)
    BY <1>2
  <2>3. lx[x].oracle = v.oracle /\ rx[y].oracle = w.oracle
    BY <2>1, <2>2 DEF InAssumption
  <2>4. x \in DOMAIN rx /\ rx[x].oracle = lx[x].oracle
    <3>1. {<<z, lx[z].oracle>> : z \in DOMAIN lx} = {<<z, rx[z].oracle>> : z \in DOMAIN rx}
      BY DEF Unambiguous
    <3>2. <<x, lx[x].oracle>> \in {<<z, rx[z].oracle>> : z \in DOMAIN rx}
      BY <3>1
    <3> HIDE DEF lx, rx
    <3>3. PICK z \in DOMAIN rx : <<x, lx[x].oracle>> = <<z, rx[z].oracle>>
      BY <3>2
    <3> QED
      BY <3>3
  <2>5. ExportedOnce(game[RightSpec.assumption])
    BY DEF Unambiguous
  <2>6. x = y
    BY <2>3, <2>4, <2>5 DEF ExportedOnce
  <2> QED
    BY <1>2, <2>1, <2>2, <2>4, <2>6 DEF SameEnd
<1> QED
  BY <1>1, <1>2

LEMMA UnambiguousEndsAlike ==
  ASSUME CheckInv, verdict = "accepted", Unambiguous
  PROVE  EndAlike
<1>1. /\ LeftSpec.construction = LeftName /\ RightSpec.construction = RightName
      /\ Passed(LeftSpec) /\ Passed(RightSpec) /\ IsGame(Left) /\ IsGame(Right)
  BY HeaderGames DEF Comparing
<1>2. EntersAtExports(LeftSpec) /\ EntersAtExports(RightSpec) /\ RightSpec.assumption \in Assumption
  BY <1>1, PassedEnters DEF Passed, NamesFit
<1>3. /\ game[LeftSpec.construction] = Left /\ game[RightSpec.construction] = Right
      /\ LeftName \in DOMAIN game /\ RightName \in DOMAIN game
  BY <1>1 DEF Left, Right, Passed
<1>4. ASSUME NEW v, v.to \in Mapped(LeftSpec),
             \/ \E x \in DOMAIN Left.exports : v = Left.exports[x]
             \/ \E r \in DOMAIN Left.inst \ Mapped(LeftSpec) : \E i \in ImportSet(Left, r) : v = Left.wires[r][i]
      PROVE  \E x \in DOMAIN game[LeftSpec.assumption].exports :
                game[LeftSpec.assumption].exports[x] = InAssumption(LeftSpec, v)
  <2>1. v \in {Left.exports[x] : x \in DOMAIN Left.exports}
              \cup UNION {{Left.wires[r][i] : i \in ImportSet(Left, r)} : r \in DOMAIN Left.inst \ Mapped(LeftSpec)}
    BY <1>4
  <2> QED
    BY <1>2, <1>3, <1>4, <2>1 DEF EntersAtExports
<1>5. ASSUME NEW w, w.to \in Mapped(RightSpec),
             \/ \E x \in DOMAIN Right.exports : w = Right.exports[x]
             \/ \E r \in DOMAIN Right.inst \ Mapped(RightSpec) : \E i \in ImportSet(Right, r) : w = Right.wires[r][i]
      PROVE  \E x \in DOMAIN game[RightSpec.assumption].exports :
                game[RightSpec.assumption].exports[x] = InAssumption(RightSpec, w)
  <2>1. w \in {Right.exports[x] : x \in DOMAIN Right.exports}
              \cup UNION {{Right.wires[r][i] : i \in ImportSet(Right, r)} : r \in DOMAIN Right.inst \ Mapped(RightSpec)}
    BY <1>5
  <2> QED
    BY <1>2, <1>3, <1>5, <2>1 DEF EntersAtExports
<1>6. ASSUME NEW x \in DOMAIN Left.exports
      PROVE  SameEnd(Left.exports[x], Right.exports[x])
  <2>1. x \in DOMAIN Right.exports /\ Left.exports[x].oracle = Right.exports[x].oracle
    BY DEF Unambiguous
  <2> QED
    BY <1>2, <1>4, <1>5, <2>1, EqualOraclesEndAlike
<1>7. ASSUME NEW p \in ReachedRests, NEW i \in ImportSet(Left, p[1])
      PROVE  SameEnd(Left.wires[p[1]][i], Right.wires[p[2]][i])
  <2>1. p \in Pairs
    <3>1. PICK f : Levels(f)
      BY <1>1, ReachedLevels
    <3> QED
      BY <1>1, <3>1, InstancesType DEF Levels, ReachedRests
  <2>2. /\ p[1] \in DOMAIN Left.inst \ Mapped(LeftSpec) /\ p[2] \in DOMAIN Right.inst \ Mapped(RightSpec)
        /\ Left.inst[p[1]] = Right.inst[p[2]]
    BY <2>1, PairParts, AcceptedAlike DEF ReachedRests, InRests, UnfoldAlike
  <2>3. i \in ImportSet(Right, p[2])
    BY <2>2 DEF ImportSet
  <2>4. Left.wires[p[1]][i].oracle = i /\ Right.wires[p[2]][i].oracle = i
    BY <1>3, <2>2, <2>3 DEF Unambiguous, Unaliased, Left, Right
  <2> QED
    BY <1>2, <1>4, <1>5, <2>2, <2>3, <2>4, EqualOraclesEndAlike
<1> QED
  BY <1>6, <1>7 DEF EndAlike

(* The check compares the targets of wires but not their oracles, follows  *)
(* paths without noticing that two meet, and tells the imports of a mapped *)
(* package apart by their types.  Where none of this can matter, it        *)
(* accepts nothing but reductions.                                         *)
THEOREM AcceptedAreReductions == Spec => []ExactUnlessAmbiguous
<1>1. CheckInv => ExactUnlessAmbiguous
  <2> SUFFICES ASSUME CheckInv, verdict = "accepted", Unambiguous
               PROVE  Genuine
    BY DEF ExactUnlessAmbiguous
  <2>1. /\ Len(specs) = 2 /\ LeftSpec.construction = LeftName /\ RightSpec.construction = RightName
        /\ {LeftSpec, RightSpec} = {specs[1], specs[2]}
        /\ Passed(LeftSpec) /\ Passed(RightSpec) /\ IsGame(Left) /\ IsGame(Right)
    BY HeaderGames DEF Comparing
  <2>2. specs[1] \in SpecSet /\ specs[2] \in SpecSet
    <3>1. specs \in Seq(SpecSet) /\ DOMAIN specs = 1..2
      BY <2>1 DEF CheckInv, TypeInv
    <3> QED
      BY <3>1
  <2>3. ASSUME NEW s \in {LeftSpec, RightSpec}
        PROVE  GenuineCut(s)
    <3>1. Passed(s) /\ s \in SpecSet
      BY <2>1, <2>2
    <3>2. WiredLike(s)
      BY <3>1, PassedIsWiredLike DEF Unambiguous
    <3>3. EntersAtExports(s)
      BY <3>1, PassedEnters
    <3> QED
      BY <3>1, <3>2, <3>3 DEF GenuineCut, Passed
  <2>4. GenuineCut(specs[1]) /\ GenuineCut(specs[2])
    BY <2>1, <2>3
  <2>5. {specs[1].construction, specs[2].construction} = {LeftName, RightName}
    BY <2>1 DEF LeftSpec, RightSpec
  <2>6. {specs[1].assumption, specs[2].assumption} = Assumption
    <3>1. specs[1].assumption \in Assumption /\ specs[2].assumption \in Assumption
      BY <2>4 DEF GenuineCut, NamesFit
    <3>2. LeftSpec.assumption # RightSpec.assumption
      BY DEF CheckInv, Progress, Comparing
    <3>3. specs[1].assumption # specs[2].assumption
      BY <3>2 DEF LeftSpec, RightSpec
    <3> QED
      BY <3>1, <3>3, NamesAssumption
  <2>7. SharedAlike
    BY <2>1, OneCallerEach DEF Unambiguous
  <2>8. DOMAIN Left.exports = DOMAIN Right.exports /\ LeftName # RightName
    BY DEF Unambiguous, CheckInv, Progress, Comparing
  <2> QED
    BY <2>4, <2>5, <2>6, <2>7, <2>8, AcceptedAlike, UnambiguousEndsAlike DEF Genuine
<1> QED
  BY <1>1, CheckInvariant, PTL

=============================================================================
