---------------------------- MODULE ReductionCheck ----------------------------
(***************************************************************************)
(* The parse-time check of a reduction step (parser/reduction.rs).  A      *)
(* reduction hops from the game instance LeftName to RightName because one *)
(* can be cut into a part shared by both and a part that is an instance of *)
(* one of the two games of an assumption.  Two mapping specs name that     *)
(* part; each is checked on its own, then the rests are compared along     *)
(* their wires, starting from the oracles exported to the adversary.       *)
(*                                                                         *)
(* A game is [inst |-> instance -> [pkg, params], wires |-> instance ->    *)
(* import -> [to, oracle], exports |-> name -> [to, oracle]].  The         *)
(* composition parser wires every import, to an oracle of the same type.   *)
(* Params are the values after resolving the constants of game and         *)
(* theorem.  Undefined names end in errors before anything else happens    *)
(* and are left out.                                                       *)
(***************************************************************************)
EXTENDS Naturals, Sequences, FiniteSets

CONSTANTS
    LeftName, RightName,    \* the header of the reduction
    Assumption,             \* the names of the two games of the assumption
    Imports,                \* package -> sequence of imported oracle names
    Typings,                \* the possible types: oracle name -> type
    GamesOf,                \* instance name -> games it may stand for
    EntrySets               \* the mapping entries: sets of <<assumption, construction>>

(* An assumption is between two games; of the header's that both are the   *)
(* same is only warned about.                                              *)
ASSUME NamesAssumption ==
    /\ \E a, b \in Assumption : a # b /\ Assumption = {a, b}
    /\ {LeftName, RightName} \cap Assumption = {}

VARIABLES
    typing,    \* the type of each oracle
    game,      \* the game of each instance name that the check has looked up
    specs,     \* the mapping specs read so far
    exports,   \* the exports of the left game still to be compared
    pending,   \* the recursive calls of compare_reduction still to be made
    verdict

vars == <<typing, game, specs, exports, pending, verdict>>

Constructions == {LeftName, RightName}

ImportSet(g, i) == {Imports[g.inst[i].pkg][n] : n \in DOMAIN Imports[g.inst[i].pkg]}

(* Every import of an instance and every export of a game leads to one of  *)
(* its instances.                                                          *)
IsWire(g, w) == w = [to |-> w.to, oracle |-> w.oracle] /\ w.to \in DOMAIN g.inst

IsGame(g) ==
    /\ IsFiniteSet(DOMAIN g.inst)
    /\ \A i \in DOMAIN g.inst : /\ g.inst[i] = [pkg |-> g.inst[i].pkg, params |-> g.inst[i].params]
                                /\ g.inst[i].pkg \in DOMAIN Imports
                                /\ \A x \in ImportSet(g, i) : IsWire(g, g.wires[i][x])
    /\ \A x \in DOMAIN g.exports : IsWire(g, g.exports[x])

ASSUME GamesAssumption ==
    /\ \A p \in DOMAIN Imports : Len(Imports[p]) \in Nat /\ DOMAIN Imports[p] = 1..Len(Imports[p])
    /\ \A n \in Assumption \cup Constructions : \A g \in GamesOf[n] : IsGame(g)
    /\ \A E \in EntrySets : \A e \in E : e = <<e[1], e[2]>>

(* The composition parser wires an import only to an oracle of its type.   *)
WellTyped(g) ==
    \A i \in DOMAIN g.inst : \A x \in ImportSet(g, i) : typing[g.wires[i][x].oracle] = typing[x]

GamesNamed(n) ==
    IF n \in DOMAIN game THEN {game[n]} ELSE {g \in GamesOf[n] : WellTyped(g)}

(* package_instances_diff is Same.                                         *)
SamePackage(g, i, h, j) == g.inst[i].pkg = h.inst[j].pkg /\ g.inst[i].params = h.inst[j].params

(***************************************************************************)
(* One mapping spec s = [assumption, construction, entries].               *)
(***************************************************************************)
Mapped(s) == {e[2] : e \in s.entries}
AsAssumption(s, c) == (CHOOSE e \in s.entries : e[2] = c)[1]
AsConstruction(s, a) == (CHOOSE e \in s.entries : e[1] = a)[2]

(* Entries name each instance once, map equal packages, and leave no       *)
(* instance of the assumption out.                                         *)
EntriesFit(s) ==
    LET ag == game[s.assumption]
        cg == game[s.construction]
    IN  /\ \A e, f \in s.entries : e # f => e[1] # f[1] /\ e[2] # f[2]
        /\ \A e \in s.entries : /\ e[1] \in DOMAIN ag.inst
                                /\ e[2] \in DOMAIN cg.inst
                                /\ SamePackage(ag, e[1], cg, e[2])
        /\ \A a \in DOMAIN ag.inst : \E e \in s.entries : e[1] = a

(* Faulty variant: the export is looked up by its alias.                   *)
OffersByAlias(s, wire) ==
    LET offered == game[s.assumption].exports
    IN  wire.oracle \in DOMAIN offered /\ offered[wire.oracle].to = AsAssumption(s, wire.to)

Offers(s, wire) ==
    \E x \in DOMAIN game[s.assumption].exports :
        LET export == game[s.assumption].exports[x]
        IN  export.to = AsAssumption(s, wire.to) /\ export.oracle = wire.oracle

(* Cross-cut wires: what the rest of the construction calls in the mapped  *)
(* part, the assumption exports.                                           *)
CrossCutWiresExported(s) ==
    LET cg == game[s.construction]
    IN  \A r \in DOMAIN cg.inst \ Mapped(s) : \A i \in ImportSet(cg, r) :
            cg.wires[r][i].to \in Mapped(s) => Offers(s, cg.wires[r][i])

(* Cross-cut exports: so with what the adversary calls there directly.     *)
CrossCutExportsExported(s) ==
    LET cg == game[s.construction]
    IN  \A x \in DOMAIN cg.exports :
            cg.exports[x].to \in Mapped(s) => Offers(s, cg.exports[x])

(* The unwrap in the first loop over wires.                                *)
WiresStayInside(s) ==
    LET cg == game[s.construction]
    IN  \A c \in Mapped(s) : \A i \in ImportSet(cg, c) : cg.wires[c][i].to \in Mapped(s)

(* Faulty variant: types are not compared.                                 *)
WiresOfConstructionUntyped(s) ==
    LET ag == game[s.assumption]
        cg == game[s.construction]
    IN  \A e \in s.entries : \A i \in ImportSet(cg, e[2]) : \E j \in ImportSet(ag, e[1]) :
            ag.wires[e[1]][j].to = AsAssumption(s, cg.wires[e[2]][i].to)

(* Assumption wires, first direction: instances and types are compared.    *)
WiresOfConstructionKnown(s) ==
    LET ag == game[s.assumption]
        cg == game[s.construction]
    IN  \A e \in s.entries : \A i \in ImportSet(cg, e[2]) : \E j \in ImportSet(ag, e[1]) :
            /\ ag.wires[e[1]][j].to = AsAssumption(s, cg.wires[e[2]][i].to)
            /\ typing[cg.wires[e[2]][i].oracle] = typing[ag.wires[e[1]][j].oracle]

(* Second direction: only the instances.                                   *)
WiresOfAssumptionPresent(s) ==
    LET ag == game[s.assumption]
        cg == game[s.construction]
    IN  \A e \in s.entries : \A j \in ImportSet(ag, e[1]) : \E i \in ImportSet(cg, e[2]) :
            cg.wires[e[2]][i].to = AsConstruction(s, ag.wires[e[1]][j].to)

NamesFit(s) == s.assumption \in Assumption /\ s.construction \notin Assumption

(* The order of the checks: errors come before the panics of the wires.    *)
MappingVerdict(s) ==
    IF ~(EntriesFit(s) /\ CrossCutWiresExported(s) /\ CrossCutExportsExported(s))
    THEN "rejected"
    ELSE IF WiresStayInside(s) /\ WiresOfConstructionKnown(s) /\ WiresOfAssumptionPresent(s)
         THEN "checking" ELSE "panicked"

(***************************************************************************)
(* Actions.                                                                *)
(***************************************************************************)
Init ==
    /\ typing \in Typings
    /\ game = <<>>
    /\ specs = <<>>
    /\ exports = {}
    /\ pending = <<>>
    /\ verdict = "checking"

(* Each game is looked up once.                                            *)
LookedUp(a, ga, c, gc) ==
    [n \in DOMAIN game \cup {a, c} |->
        IF n \in DOMAIN game THEN game[n] ELSE IF n = a THEN ga ELSE gc]

(* One call of handle_mapspec_assumption.                                  *)
ReadMapping ==
    /\ verdict = "checking" /\ Len(specs) < 2
    /\ UNCHANGED <<typing, exports, pending>>
    /\ \E a, c \in Assumption \cup Constructions, E \in EntrySets :
         LET s == [assumption |-> a, construction |-> c, entries |-> E]
         IN  /\ specs' = Append(specs, s)
             /\ IF NamesFit(s)
                THEN /\ \E ga \in GamesNamed(a), gc \in GamesNamed(c) :
                            game' = LookedUp(a, ga, c, gc)
                     /\ verdict' = MappingVerdict(s)'
                ELSE verdict' = "rejected" /\ UNCHANGED game

LeftSpec  == IF specs[1].construction = RightName THEN specs[2] ELSE specs[1]
RightSpec == IF specs[1].construction = RightName THEN specs[1] ELSE specs[2]

Left  == game[LeftName]
Right == game[RightName]

(* After the last export: the specs must not be for the same game of the   *)
(* assumption, nor for the same construction.  No instance of the          *)
(* assumption is unmapped at this point, so the comparison of those that   *)
(* are has nothing to do.                                                  *)
FinalVerdict ==
    IF \/ LeftSpec.assumption = RightSpec.assumption
       \/ LeftSpec.construction = RightSpec.construction
    THEN "panicked" ELSE "accepted"

(* The specs must be for the two games of the header, in either order.     *)
MatchHeader ==
    /\ verdict = "checking" /\ Len(specs) = 2 /\ exports = {} /\ pending = <<>>
    /\ IF LeftSpec.construction = LeftName /\ RightSpec.construction = RightName
       THEN /\ exports' = DOMAIN Left.exports
            /\ verdict' = IF DOMAIN Left.exports = {} THEN FinalVerdict ELSE verdict
       ELSE verdict' = "rejected" /\ UNCHANGED exports
    /\ UNCHANGED <<typing, game, specs, pending>>

(* The next round of the loop over the exports of the left game, in the    *)
(* order of their declaration, which may be any.                           *)
CompareExport ==
    /\ verdict = "checking" /\ pending = <<>>
    /\ \E x \in exports :
         IF x \in DOMAIN Right.exports
         THEN /\ pending' = <<<<Left.exports[x].to, Right.exports[x].to>>>>
              /\ exports' = exports \ {x}
              /\ UNCHANGED verdict
         ELSE verdict' = "panicked" /\ UNCHANGED <<exports, pending>>
    /\ UNCHANGED <<typing, game, specs>>

(* Faulty variant: one side in the assumption is taken for the boundary.   *)
BoundaryEither(l, r) == l \in Mapped(LeftSpec) \/ r \in Mapped(RightSpec)

(* One call of compare_reduction on the instances l and r, up to its       *)
(* recursive calls: one for each import, in the order of the package.      *)
Boundary(l, r) == l \in Mapped(LeftSpec) /\ r \in Mapped(RightSpec)
Inside(l, r) == l \notin Mapped(LeftSpec) /\ r \notin Mapped(RightSpec)

Calls(l, r) ==
    LET imports == Imports[Left.inst[l].pkg]
    IN  [n \in DOMAIN imports |->
            <<Left.wires[l][imports[n]].to, Right.wires[r][imports[n]].to>>]

Unfold(l, r) == IF Boundary(l, r) THEN <<>> ELSE Calls(l, r)

ComparePair ==
    /\ verdict = "checking" /\ pending # <<>>
    /\ LET l == Head(pending)[1]
           r == Head(pending)[2]
       IN  IF Boundary(l, r) \/ (Inside(l, r) /\ SamePackage(Left, l, Right, r))
           THEN LET next == Unfold(l, r) \o Tail(pending)
                IN  /\ pending' = next
                    /\ verdict' = IF next = <<>> /\ exports = {} THEN FinalVerdict ELSE verdict
           ELSE verdict' = "rejected" /\ UNCHANGED pending
    /\ UNCHANGED <<typing, game, specs, exports>>

Decided == verdict # "checking" /\ UNCHANGED vars

Next == ReadMapping \/ MatchHeader \/ CompareExport \/ ComparePair \/ Decided

Spec == Init /\ [][Next]_vars
-------------------------------------------------------------------------------

(***************************************************************************)
(* What a reduction is, without reference to the check.                    *)
(***************************************************************************)
InRests(p) == p[1] \notin Mapped(LeftSpec) /\ p[2] \notin Mapped(RightSpec)

(* The pairs of instances that equal paths from the adversary lead to.     *)
Reached ==
    LET step(S) == S \cup UNION {{<<Left.wires[p[1]][i].to, Right.wires[p[2]][i].to>> :
                                    i \in ImportSet(Left, p[1]) \cap ImportSet(Right, p[2])} :
                                 p \in {q \in S : InRests(q)}}
        after[n \in Nat] ==
            IF n = 0 THEN {<<Left.exports[x].to, Right.exports[x].to>> :
                             x \in DOMAIN Left.exports \cap DOMAIN Right.exports}
            ELSE step(after[n - 1])
    IN  after[Cardinality(DOMAIN Left.inst) + Cardinality(DOMAIN Right.inst)]

ReachedRests == {p \in Reached : InRests(p)}

(* Both rests unfold to the same tree of packages, cut at the same places. *)
UnfoldAlike ==
    /\ DOMAIN Left.exports \subseteq DOMAIN Right.exports
    /\ \A p \in Reached : (p[1] \in Mapped(LeftSpec)) <=> (p[2] \in Mapped(RightSpec))
    /\ \A p \in ReachedRests : Left.inst[p[1]] = Right.inst[p[2]]

(* An instance shared in one game is shared in the other.                  *)
SharedAlike == \A p, q \in ReachedRests : (p[1] = q[1]) <=> (p[2] = q[2])

(* Two wires end at the same oracle of the rest, or at the same oracle     *)
(* that both games of the assumption export.                               *)
InAssumption(s, wire) == [to |-> AsAssumption(s, wire.to), oracle |-> wire.oracle]

SameEnd(v, w) ==
    IF v.to \in Mapped(LeftSpec) /\ w.to \in Mapped(RightSpec)
    THEN LET lx == game[LeftSpec.assumption].exports
             rx == game[RightSpec.assumption].exports
         IN  \E x \in DOMAIN lx \cap DOMAIN rx : /\ lx[x] = InAssumption(LeftSpec, v)
                                                 /\ rx[x] = InAssumption(RightSpec, w)
    ELSE v.oracle = w.oracle

EndAlike ==
    /\ \A x \in DOMAIN Left.exports : SameEnd(Left.exports[x], Right.exports[x])
    /\ \A p \in ReachedRests :
         \A i \in ImportSet(Left, p[1]) : SameEnd(Left.wires[p[1]][i], Right.wires[p[2]][i])

(* Whatever enters the mapped part, used or not, is an oracle that the     *)
(* assumption exports.                                                     *)
EntersAtExports(s) ==
    LET cg == game[s.construction]
        rest == DOMAIN cg.inst \ Mapped(s)
        entering == {cg.exports[x] : x \in DOMAIN cg.exports}
                    \cup UNION {{cg.wires[r][i] : i \in ImportSet(cg, r)} : r \in rest}
    IN  \A w \in entering : w.to \in Mapped(s) =>
            \E x \in DOMAIN game[s.assumption].exports :
                game[s.assumption].exports[x] = InAssumption(s, w)

(* The mapped part is a copy of the assumption.                            *)
WiredLike(s) ==
    LET ag == game[s.assumption]
        cg == game[s.construction]
    IN  \A e \in s.entries : \A i \in ImportSet(cg, e[2]) :
            /\ cg.wires[e[2]][i].oracle = ag.wires[e[1]][i].oracle
            /\ <<ag.wires[e[1]][i].to, cg.wires[e[2]][i].to>> \in s.entries

GenuineCut(s) == NamesFit(s) /\ EntriesFit(s) /\ WiredLike(s) /\ EntersAtExports(s)

Genuine ==
    /\ LeftName # RightName
    /\ GenuineCut(specs[1]) /\ GenuineCut(specs[2])
    /\ {specs[1].construction, specs[2].construction} = {LeftName, RightName}
    /\ {specs[1].assumption, specs[2].assumption} = Assumption
    /\ DOMAIN Left.exports = DOMAIN Right.exports
    /\ UnfoldAlike /\ SharedAlike /\ EndAlike

(***************************************************************************)
(* Properties.                                                             *)
(***************************************************************************)
(* The check never refuses, nor panics on, a reduction that is one, and    *)
(* refuses no first mapping that cuts its game as it should.               *)
GenuineIsAccepted ==
    verdict \in {"rejected", "panicked"} =>
        IF Len(specs) = 1 THEN ~GenuineCut(specs[1]) ELSE ~Genuine

(* In an accepted reduction every wire or export that enters a mapped part *)
(* is one the assumption offers, and the rests cannot be told apart by     *)
(* following wires from the adversary.                                     *)
AcceptedUnfoldsAlike ==
    verdict = "accepted" =>
        /\ UnfoldAlike
        /\ \A s \in {LeftSpec, RightSpec} : EntersAtExports(s)

(* The check compares the targets of wires but not their oracles, follows  *)
(* paths without noticing that two meet, and tells the imports of a mapped *)
(* package apart by their types.  Where none of this can matter, it        *)
(* accepts nothing but reductions.                                         *)
TypesTellImports(g) ==
    \A i \in DOMAIN g.inst : \A x, y \in ImportSet(g, i) : typing[x] = typing[y] => x = y

Unaliased(g) ==
    \A i \in DOMAIN g.inst : \A x \in ImportSet(g, i) : g.wires[i][x].oracle = x

Callers(g, i) ==
    {<<"export", x>> : x \in {x \in DOMAIN g.exports : g.exports[x].to = i}}
    \cup UNION {{<<"import", j, x>> : x \in {x \in ImportSet(g, j) : g.wires[j][x].to = i}} :
                j \in DOMAIN g.inst}

NothingShared(s) ==
    \A i \in DOMAIN game[s.construction].inst \ Mapped(s) :
        \A x, y \in Callers(game[s.construction], i) : x = y

ExportedOnce(g) ==
    \A x, y \in DOMAIN g.exports : g.exports[x].oracle = g.exports[y].oracle => x = y

Unambiguous ==
    /\ \A n \in DOMAIN game : TypesTellImports(game[n]) /\ Unaliased(game[n])
    /\ NothingShared(LeftSpec) /\ NothingShared(RightSpec)
    /\ \A a \in Assumption : ExportedOnce(game[a])
    /\ {<<x, game[LeftSpec.assumption].exports[x].oracle>> :
            x \in DOMAIN game[LeftSpec.assumption].exports}
       = {<<x, game[RightSpec.assumption].exports[x].oracle>> :
            x \in DOMAIN game[RightSpec.assumption].exports}
    /\ DOMAIN Left.exports = DOMAIN Right.exports
    /\ \A x \in DOMAIN Left.exports : Left.exports[x].oracle = Right.exports[x].oracle

ExactUnlessAmbiguous == verdict = "accepted" /\ Unambiguous => Genuine

(* The comment above the two loops over wires: the assumption subgraph of  *)
(* the construction is wired just like the assumption game.                *)
WiredLikeAssumption ==
    verdict = "accepted" => \A k \in 1..2 : WiredLike(specs[k])
===============================================================================
