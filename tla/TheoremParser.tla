----------------------------- MODULE TheoremParser -----------------------------
(***************************************************************************)
(* Reading a theorem (parser/theorem.rs): constants, game instances, the   *)
(* three instances of a hybrid argument, and game hops, in the order of    *)
(* the file.                                                               *)
(*                                                                         *)
(* A context is [name, scope, types, consts, insts, hops, err].  Whether a *)
(* reduction or a proposition is accepted is a field of its specification: *)
(* modules ReductionCheck and ProofSearch are about that.                  *)
(***************************************************************************)
EXTENDS GameParser, FiniteSets

TheoremContext(name) ==
    [name |-> name, scope |-> Enter(EmptyScope), types |-> {}, consts |-> {},
     insts |-> <<>>, hops |-> <<>>, err |-> ""]

TheoremConst(ctx, name, ty) == TypedIdent("theorem", name, ctx.name, ty)
GameInstances(ctx, name) == {n \in DOMAIN ctx.insts : ctx.insts[n].name = name}

HandleTheoremConst(ctx, spec) ==
    LET r == ReadType(ctx, spec.ty)
    IN  IF r.err # "" THEN Fail(ctx, r.err)
        ELSE IF ~MayDeclare(ctx.scope, spec.name) THEN Fail(ctx, "error")
        ELSE [ctx EXCEPT !.consts = @ \union {spec.name},
                 !.scope = Declare(@, spec.name, IdentDecl(TheoremConst(ctx, spec.name, r.ty)))]

(* An instance whose name a constant has stops the program.                *)
AddGameInstance(ctx, inst) ==
    IF ctx.err # "" THEN ctx
    ELSE IF GameInstances(ctx, inst.name) # {} THEN Fail(ctx, "error")
    ELSE IF ~MayDeclare(ctx.scope, inst.name) THEN Fail(ctx, "panic")
    ELSE [ctx EXCEPT !.scope = Declare(@, inst.name, InstanceDecl),
                     !.insts = Append(@, inst)]

WithGameInstance(ctx, name, game, values) ==
    IF values.err # "" THEN Fail(ctx, values.err)
    ELSE AddGameInstance(ctx, NewGameInstance(name, game, values.e))
HandleGameInstanceDecl(ctx, games, spec) ==
    IF spec.game \notin DOMAIN games THEN Fail(ctx, "error")
    ELSE WithGameInstance(ctx, spec.name, games[spec.game],
             HandleInstanceAssignList(ctx, "game", games[spec.game].consts, spec.blocks))

-----------------------------------------------------------------------------
(* The instances of a hybrid argument.  The constants of the game that     *)
(* have the names of the loop and of the bit are given new values, if      *)
(* there are such constants; SameIndex is a faulty variant of NextIndex.   *)
One == <<"int", 1, <<>>>>
SameIndex(value, next) == value
NextIndex(value, next) == IF next THEN Add(One, value) ELSE value
PatchGameInstance(values, loop, bit, ideal, next) ==
    LET others == Selected(values, Keys(values) \ ({loop} \union Range(bit)))
        OfLoop == IF PairsNamed(values, loop) = {} THEN <<>>
                  ELSE <<<<loop, NextIndex(FirstOf(values, loop), next)>>>>
        OfBit  == IF bit = <<>> \/ PairsNamed(values, bit[1]) = {} THEN <<>>
                  ELSE <<<<bit[1], <<"bool", ideal, <<>>>>>>>>
    IN  others \o OfLoop \o OfBit

FalseSide(name) == name \o "$false$"
NextSide(name)  == name \o "$false$+"
TrueSide(name)  == name \o "$true$"

DeclareHybrid(ctx, name, const, ty) ==
    IF ctx.err # "" THEN ctx
    ELSE IF ~MayDeclare(ctx.scope, name) THEN Fail(ctx, "error")
    ELSE [ctx EXCEPT !.scope =
             Declare(@, name, IdentDecl(TheoremConst(ctx, const, ty)))]
HybridContext(ctx, loop, bit) ==
    LET entered == [ctx EXCEPT !.scope = Enter(@), !.consts = @ \union {"hybrid$loop"}]
        looped  == DeclareHybrid(entered, loop, "hybrid$loop", Integer)
    IN  IF bit = <<>> THEN looped ELSE DeclareHybrid(looped, bit[1], "hybrid$bit", Boolean)

(* The values of a side, and one of its instances.  sides is one game,     *)
(* where the bit tells real from ideal, or two.                            *)
ReadSide(ctx, games, side) ==
    IF ctx.err # "" \/ side.game \notin DOMAIN games THEN Error
    ELSE HandleInstanceAssignList(ctx, "game", games[side.game].consts, side.blocks)
AddSide(ctx, spec, game, values, name, ideal, next) ==
    IF ctx.err # "" THEN ctx
    ELSE IF values.err # "" THEN Fail(ctx, values.err)
    ELSE AddGameInstance(ctx, NewGameInstance(name, game,
             PatchGameInstance(values.e, spec.loop, spec.bit, ideal, next)))
HandleHybridInstances(ctx, games, spec) ==
    LET entered == HybridContext(ctx, spec.loop, spec.bit)
        Game(side) == games[side.game]
        left  == ReadSide(entered, games, spec.sides[1])
        real  == AddSide(entered, spec, Game(spec.sides[1]), left, FalseSide(spec.name), FALSE, FALSE)
        step  == AddSide(real, spec, Game(spec.sides[1]), left, NextSide(spec.name), FALSE, TRUE)
        right == IF Len(spec.sides) = 1 THEN left ELSE ReadSide(step, games, spec.sides[2])
        ideal == AddSide(step, spec, Game(Last(spec.sides)), right, TrueSide(spec.name), TRUE, FALSE)
    IN  IF ideal.err # "" THEN ideal ELSE [ideal EXCEPT !.scope = Leave(@)]

-----------------------------------------------------------------------------
(* The claims of one oracle, checked as in module InductionStep.           *)
ClaimName == {"equal-aborts", "no-abort", "invariant", "same-output", "lemma"}
Induction == INSTANCE InductionStep WITH
    Name <- ClaimName, EqualAborts <- "equal-aborts", NoAbort <- "no-abort",
    Invariant <- "invariant", SameOutput <- "same-output", LemmaLines <- {}, MaxLines <- 0,
    phase <- "", lines <- {}, provable <- {}, progress <- FALSE

(* Every round but the last adds the name of a claim, so that as many      *)
(* rounds as there are claims reach the fixed point.                       *)
Provable(claims) ==
    LET known[n \in 0..Cardinality(claims)] ==
            IF n = 0 THEN Induction!AdmittedNames(claims)
            ELSE LET usable == Induction!Assumable(known[n - 1])
                 IN  usable \union Induction!NewlyProvable(claims, usable)
    IN  known[Cardinality(claims)]
HandleEquivalenceOracle(tree) ==
    LET claims == Induction!WithDefaults(tree.claims)
    IN  IF Induction!Target \subseteq Provable(claims)
        THEN Resolved(Empty, [oracle |-> tree.oracle, claims |-> claims]) ELSE Error

EquivalenceHop(kind, left, right, trees) ==
    [kind |-> kind, left |-> left, right |-> right, trees |-> trees]
HandleEquivalence(ctx, kind, left, right, specs) ==
    LET trees == [n \in DOMAIN specs |-> HandleEquivalenceOracle(specs[n])]
    IN  IF \/ Failures(trees) # {}
           \/ GameInstances(ctx, left) = {} \/ GameInstances(ctx, right) = {}
        THEN Error
        ELSE Resolved(Empty, EquivalenceHop(kind, left, right, [n \in DOMAIN trees |-> trees[n].e]))

(* The ends of a conjecture need not exist.                                *)
HandleGameHop(ctx, hop) ==
    CASE hop.kind = "conjecture" ->
            Resolved(Empty, EquivalenceHop("conjecture", hop.left, hop.right, <<>>))
      [] hop.kind \in {"reduction", "hybrid"} /\ ~hop.accepted -> Error
      [] hop.kind = "reduction" /\ hop.accepted ->
            Resolved(Empty, EquivalenceHop("reduction", hop.left, hop.right, <<>>))
      [] hop.kind = "equivalence" -> HandleEquivalence(ctx, hop.kind, hop.left, hop.right, hop.trees)
      [] hop.kind = "hybrid" /\ hop.accepted ->
            HandleEquivalence(ctx, hop.kind, TrueSide(hop.name), NextSide(hop.name), hop.trees)
HandleGameHops(ctx, hops) ==
    LET read == [n \in DOMAIN hops |-> HandleGameHop(ctx, hops[n])]
    IN  IF Failures(read) # {} THEN Fail(ctx, "error")
        ELSE [ctx EXCEPT !.hops = @ \o [n \in DOMAIN read |-> read[n].e]]

(* Assumptions and propositions name two instances.                        *)
Stateable(ctx, pair) ==
    GameInstances(ctx, pair.left) # {} /\ GameInstances(ctx, pair.right) # {} /\ pair.accepted
HandleStated(ctx, pairs) ==
    IF \A n \in DOMAIN pairs : Stateable(ctx, pairs[n]) THEN ctx ELSE Fail(ctx, "error")

HandleTheoremSpec(ctx, games, spec) ==
    CASE spec.b = "const"    -> HandleTheoremConst(ctx, spec)
      [] spec.b = "instance" -> HandleGameInstanceDecl(ctx, games, spec)
      [] spec.b = "hybrid"   -> HandleHybridInstances(ctx, games, spec)
      [] spec.b = "stated"   -> HandleStated(ctx, spec.pairs)
      [] spec.b = "hops"     -> HandleGameHops(ctx, spec.hops)
=============================================================================
