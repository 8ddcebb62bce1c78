-------------------------- MODULE EquivalenceQuery --------------------------
(***************************************************************************)
(* What the solver is asked about one equivalence:                         *)
(* src/writers/smt/contexts/equivalence/emit.rs, with the relations of     *)
(* writers/smt/patterns/relations and the notations of an invariant file   *)
(* (gamehops/equivalence/smtrewrite.rs).                                   *)
(*                                                                         *)
(* The equivalence eq is a pair of games, left and right, with what the    *)
(* user says about them: the relation of states of each name (states), the *)
(* lemmas, the invariants of the packages and games of one side, and which *)
(* draw on the left is which on the right (randomness, mapping).  A game   *)
(* is its states with an initial one, the sample ids with their sorts and  *)
(* the most draws of a call (offsets), and its oracle, which maps a state, *)
(* an argument and the draws to a state, a value and how often it drew.    *)
(* A claim, as in module InductionStep, is proved if no model of what is   *)
(* emitted for it contradicts it.                                          *)
(***************************************************************************)
EXTENDS Integers

CONSTANTS
  eq,              (* the equivalence                                      *)
  Arg,             (* the arguments of the oracle                          *)
  Values,          (* Values[ty]: what a sample of that sort can be        *)
  Abort,           (* the abort value of an oracle                         *)
  EqualAborts, NoAbort, SameOutput,  (* the relations every equivalence has *)
  Invariant,       (* "invariant"                                          *)
  RelationNames,   (* names that start with "relation"                     *)
  InvariantNames   (* names that start with "invariant"                    *)

-----------------------------------------------------------------------------
(* The draws a call can make: sample ids with an offset.  A call reads the *)
(* random function of its game from the counters in its state on, and      *)
(* leaves the counters behind what it drew.                                *)
Positions(game) == UNION { {id} \X (0..game.offsets[id] - 1) : id \in game.ids }

At(state, p) == <<p[1], state.ctr[p[1]] + p[2]>>

Oracle(game, state, arg, rand) ==
  LET draws == [p \in Positions(game) |-> rand[At(state, p)]]
      ret   == game.oracle[<<state.pkg, arg, draws>>]
  IN  [state |-> [pkg |-> ret.pkg,
                  ctr |-> [id \in game.ids |-> state.ctr[id] + ret.drawn[id]]],
       value |-> ret.value]

(* The random values around a state that a call can come to see. *)
Sampled(game) == UNION { Values[game.type[id]] : id \in game.ids }

Rands(game, state) ==
  { rand \in [ { At(state, p) : p \in Positions(game) } -> Sampled(game) ] :
      \A p \in Positions(game) : rand[At(state, p)] \in Values[game.type[p[1]]] }

-----------------------------------------------------------------------------
(* Which draw on the left is which on the right: the same sample id, at    *)
(* its first draw; none; or what the user writes, who may look at the old  *)
(* states and the arguments.                                               *)
RandomnessMapping(l, r, arg) ==
  CASE eq.randomness = "simple" -> { <<id, id, 0, 0>> : id \in eq.left.ids \cap eq.right.ids }
    [] eq.randomness = "none"   -> {}
    [] eq.randomness = "custom" -> eq.mapping[<<l, r, arg>>]

Candidates ==
  { e \in { <<p[1], q[1], p[2], q[2]>> : p \in Positions(eq.left), q \in Positions(eq.right) } :
      eq.left.type[e[1]] = eq.right.type[e[2]] }

(* The condition emitted for two states with their random functions. *)
Coupled(l, r, arg, randL, randR) ==
  \A e \in Candidates \cap RandomnessMapping(l.pkg, r.pkg, arg) :
    randL[At(l, <<e[1], e[3]>>)] = randR[At(r, <<e[2], e[4]>>)]

(* Neither side of the mapping relates one draw to two. *)
Injective(Mine(_), Other(_)) ==
  \A l \in eq.left.states, r \in eq.right.states, arg \in Arg :
    \A e, f \in RandomnessMapping(l, r, arg) : Other(e) = Other(f) => Mine(e) = Mine(f)
OnLeft(e) == <<e[1], e[3]>>
OnRight(e) == <<e[2], e[4]>>

(* Faulty variant: only the left side is looked at. *)
MappingInjectiveLeft == Injective(OnLeft, OnRight)

MappingInjective == Injective(OnLeft, OnRight) /\ Injective(OnRight, OnLeft)

-----------------------------------------------------------------------------
(* The constants of a query: old states whose counters are zero, arguments *)
(* that are equal on both sides, random functions, and what the two oracle *)
(* functions return of them.                                               *)
OldState(game, pkg) == [pkg |-> pkg, ctr |-> [id \in game.ids |-> 0]]
OldLeft(m) == OldState(eq.left, m.left)
OldRight(m) == OldState(eq.right, m.right)
LeftReturn(m) == Oracle(eq.left, OldLeft(m), m.arg, m.randL)
RightReturn(m) == Oracle(eq.right, OldRight(m), m.arg, m.randR)

Model ==
  UNION { { [left |-> l, right |-> r, arg |-> arg, randL |-> randL, randR |-> randR] :
              arg \in Arg, randL \in Rands(eq.left, OldState(eq.left, l)),
              randR \in Rands(eq.right, OldState(eq.right, r)) } :
          l \in eq.left.states, r \in eq.right.states }

(* The relations every equivalence has. *)
BuildEqualAborts(m) == (LeftReturn(m).value = Abort) <=> (RightReturn(m).value = Abort)
BuildNoAbort(m) == LeftReturn(m).value # Abort /\ RightReturn(m).value # Abort
BuildSameOutput(m) == LeftReturn(m).value = RightReturn(m).value

(* What the user defines: a relation of two states sees no counters, a     *)
(* lemma sees the old states, what was returned and the arguments.         *)
StateRelation(name, l, r) == <<l.pkg, r.pkg>> \in eq.states[name]
Lemma(name, m) ==
  LET l == LeftReturn(m)
      r == RightReturn(m)
  IN  <<m.left, m.right, <<l.state.pkg, l.value>>, <<r.state.pkg, r.value>>, m.arg>> \in eq.lemmas[name]

(* Faulty variant: relations and invariants of the old states. *)
HoldsBefore(name, m) ==
  CASE name = EqualAborts -> BuildEqualAborts(m)
    [] name = NoAbort     -> BuildNoAbort(m)
    [] name = SameOutput  -> BuildSameOutput(m)
    [] name \in RelationNames \cup InvariantNames -> StateRelation(name, OldLeft(m), OldRight(m))
    [] OTHER -> Lemma(name, m)

Holds(name, m) ==
  CASE name = EqualAborts -> BuildEqualAborts(m)
    [] name = NoAbort     -> BuildNoAbort(m)
    [] name = SameOutput  -> BuildSameOutput(m)
    [] name \in RelationNames \cup InvariantNames ->
         StateRelation(name, LeftReturn(m).state, RightReturn(m).state)
    [] OTHER -> Lemma(name, m)

(* The invariants: the relation of that name, and those that the packages  *)
(* and games bring along, which speak of one side.                         *)
InvariantsAt(l, r) ==
  /\ StateRelation(Invariant, l, r)
  /\ l.pkg \in eq.leftInvariant
  /\ r.pkg \in eq.rightInvariant

(* The models that satisfy what every query asserts.  A claim is proved if *)
(* none of them contradicts it.                                            *)
Assumed ==
  { m \in Model :
      /\ InvariantsAt(OldLeft(m), OldRight(m))
      /\ Coupled(OldLeft(m), OldRight(m), m.arg, m.randL, m.randR) }

ClaimHolds(claim, m) == (\A dep \in claim.deps : Holds(dep, m)) => Holds(claim.name, m)

(* Faulty variant: what a package says of its state is not asked again. *)
SideInvariantsUnchecked(m) == TRUE

(* The claims the driver adds for the invariants of one side. *)
SideInvariantsHold(m) ==
  BuildNoAbort(m) =>
    LeftReturn(m).state.pkg \in eq.leftInvariant /\ RightReturn(m).state.pkg \in eq.rightInvariant

(* What is emitted for a dependency exists for lemmas and relations only.  *)
Emittable(claims) == \A c \in claims : c.admitted \/ c.deps \cap InvariantNames = {}

InitialState(game) == OldState(game, game.init)

Proved(claims) ==
  /\ InvariantsAt(InitialState(eq.left), InitialState(eq.right))
  /\ MappingInjective
  /\ \A m \in Assumed :
       /\ SideInvariantsHold(m)
       /\ \A c \in claims : c.admitted \/ ClaimHolds(c, m)
=============================================================================
