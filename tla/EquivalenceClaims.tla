------------------------- MODULE EquivalenceClaims -------------------------
(***************************************************************************)
(* What an equivalence that domino has verified is worth.  The claims the  *)
(* user writes are checked for circles while the theorem file is parsed    *)
(* (module InductionStep), what is asked of the solver for them            *)
(* (EquivalenceQuery) is decided (verify_equivalence), and after a success *)
(* an adversary plays against both games at once.                          *)
(*                                                                         *)
(* The games export one oracle: one with several has a tree of claims for  *)
(* each, which is parsed, emitted and used in the same way.                *)
(***************************************************************************)
EXTENDS InductionStep

CONSTANTS
  World,           (* World[w]: an equivalence, and the lines (lines) its  *)
                   (* lemma block is made of                               *)
  Arg, Values, Abort, RelationNames, InvariantNames,  (* EquivalenceQuery  *)
  MaxCalls         (* bound: how long the adversary plays                  *)

VARIABLES
  world,
  result,          (* what the prover says of the equivalence              *)
  left, right,     (* the states of the two games                          *)
  view,            (* the last two answers                                 *)
  calls

eq == World[world]
gameVars == <<left, right, view, calls>>
claimVars == <<vars, world, result, gameVars>>

Query(e) == INSTANCE EquivalenceQuery WITH eq <- e

ASSUME RelationsAssumption ==
  /\ Invariant \in InvariantNames
  /\ {EqualAborts, NoAbort, SameOutput} \cap (RelationNames \cup InvariantNames) = {}
  /\ EqualAborts # NoAbort /\ EqualAborts # SameOutput /\ NoAbort # SameOutput

(* A game has a number of draws for each of its sample ids, and its oracle *)
(* leads from its states to its states and draws some number of times.     *)
Closed(e, game) ==
  /\ game.init \in game.states
  /\ IsFiniteSet(game.ids)
  /\ \A id \in game.ids : game.offsets[id] \in Nat
  /\ \A pkg \in game.states, arg \in Arg, draws \in [Query(e)!Positions(game) -> Query(e)!Sampled(game)] :
       LET ret == game.oracle[<<pkg, arg, draws>>]
       IN  /\ ret.pkg \in game.states
           /\ \A id \in game.ids : ret.drawn[id] \in Nat

ASSUME WorldAssumption ==
  \A w \in DOMAIN World :
    /\ World[w].lines \subseteq LemmaLines
    /\ Closed(World[w], World[w].left)
    /\ Closed(World[w], World[w].right)

(* Sampling is uniform, so what is sampled from is finite; no sort of the  *)
(* solver is empty.                                                        *)
ASSUME SortsAssumption ==
  \A w \in DOMAIN World : \A game \in {World[w].left, World[w].right} :
    \A id \in game.ids : IsFiniteSet(Values[game.type[id]]) /\ Values[game.type[id]] # {}

-----------------------------------------------------------------------------
ClaimsInit ==
  /\ Init
  /\ world \in DOMAIN World
  /\ result = "none"
  /\ left = Query(eq)!InitialState(eq.left)
  /\ right = Query(eq)!InitialState(eq.right)
  /\ view = <<Abort, Abort>>
  /\ calls = 0

CheckInduction ==
  /\ \/ \E line \in eq.lines : ReadLemmaLine(line)
     \/ StartInduction
     \/ Iterate
     \/ CheckTargets
  /\ UNCHANGED <<world, result, gameVars>>

Verify ==
  /\ phase = "accepted"
  /\ result = "none"
  /\ result' = CASE ~Query(eq)!Emittable(lines) -> "panicked"
                 [] Query(eq)!Emittable(lines) /\ Query(eq)!Proved(lines) -> "verified"
                 [] OTHER -> "refuted"
  /\ UNCHANGED <<vars, world, gameVars>>

(* One call of the adversary.  A call that aborts leaves no trace. *)
Call(arg, randL, randR) ==
  /\ result = "verified"
  /\ calls < MaxCalls
  /\ Query(eq)!Coupled(left, right, arg, randL, randR)
  /\ LET l == Query(eq)!Oracle(eq.left, left, arg, randL)
         r == Query(eq)!Oracle(eq.right, right, arg, randR)
     IN  /\ view' = <<l.value, r.value>>
         /\ left' = IF l.value = Abort THEN left ELSE l.state
         /\ right' = IF r.value = Abort THEN right ELSE r.state
  /\ calls' = calls + 1
  /\ UNCHANGED <<vars, world, result>>

Play ==
  \E arg \in Arg :
    \E randL \in Query(eq)!Rands(eq.left, left), randR \in Query(eq)!Rands(eq.right, right) :
      Call(arg, randL, randR)

ClaimsNext == CheckInduction \/ Verify \/ Play

(* One thread runs the check of the claims to its end. *)
ClaimsSpec ==
  /\ ClaimsInit /\ [][ClaimsNext]_claimVars
  /\ WF_claimVars(StartInduction /\ UNCHANGED <<world, result, gameVars>>)
  /\ WF_claimVars((Iterate \/ CheckTargets) /\ UNCHANGED <<world, result, gameVars>>)

-----------------------------------------------------------------------------
(* Whether what the user admitted without a proof is true. *)
AdmittedHold ==
  \A c \in lines : c.admitted => \A m \in Query(eq)!Assumed : Query(eq)!Holds(c.name, m)

(* After the prover has verified the claims of an accepted tree, and       *)
(* unless the user admitted what is false, the adversary sees the same     *)
(* answers of both games, whatever it asked before and whatever the random *)
(* values are, as long as they are coupled as the randomness mapping says  *)
(* (emit_oracle_claim_assert).                                             *)
ViewsEqual == result = "verified" => view[1] = view[2] \/ ~AdmittedHold

(* And the invariants, proved for a call from counters that are zero       *)
(* (build_rands), hold after every call from counters that are not.        *)
InvariantsKept == result = "verified" => Query(eq)!InvariantsAt(left, right) \/ ~AdmittedHold

(* The coupling is one of two fair games: every choice of random values on *)
(* either side goes with the same number of choices on the other           *)
(* (emit_randomness_mapping_injectivity_check).                            *)
CouplingIsFair ==
  result = "verified" =>
    \A arg \in Arg :
      LET onLeft  == Query(eq)!Rands(eq.left, left)
          onRight == Query(eq)!Rands(eq.right, right)
          pairs   == { p \in onLeft \X onRight : Query(eq)!Coupled(left, right, arg, p[1], p[2]) }
      IN  /\ \A a \in onLeft : Cardinality({ p \in pairs : p[1] = a }) * Cardinality(onLeft) = Cardinality(pairs)
          /\ \A b \in onRight : Cardinality({ p \in pairs : p[2] = b }) * Cardinality(onRight) = Cardinality(pairs)
          /\ pairs # {}
=============================================================================
