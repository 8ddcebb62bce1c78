---------------------- MODULE EquivalenceClaimsProofs ----------------------
(***************************************************************************)
(* Proofs about EquivalenceClaims for every set of equivalences, every     *)
(* lemma block and calls of any number: what the check of the claims and   *)
(* the answers of the solver, taken together, are worth.                   *)
(***************************************************************************)
EXTENDS EquivalenceClaims, InductionStepProofs, RecursionProofs

(* The random values a call sees, moved to where a query has them. *)
Moved(e, game, state, rand) == [p \in Query(e)!Positions(game) |-> rand[Query(e)!At(state, p)]]

(* Where the counters are zero, a draw is at its offset. *)
LEMMA OldPositions ==
  ASSUME NEW e, NEW game, NEW pkg, \A id \in game.ids : game.offsets[id] \in Nat,
         NEW p \in Query(e)!Positions(game)
  PROVE  Query(e)!At(Query(e)!OldState(game, pkg), p) = p
<1>1. PICK id \in game.ids : p \in {id} \X (0..game.offsets[id] - 1)
  BY DEF Query!Positions
<1>2. p = <<id, p[2]>> /\ p[1] = id /\ p[2] \in Int
  BY <1>1
<1>3. Query(e)!OldState(game, pkg).ctr[p[1]] = 0
  BY <1>2 DEF Query!OldState
<1>4. 0 + p[2] = p[2]
  BY <1>2
<1>5. QED
  BY <1>2, <1>3, <1>4 DEF Query!At

(* A call does to a state what the oracle function of a query does to the  *)
(* same state with counters that are zero.                                 *)
LEMMA CallIsQuery ==
  ASSUME NEW e, NEW game, NEW state, NEW arg, NEW rand, \A id \in game.ids : game.offsets[id] \in Nat
  PROVE  LET old == Query(e)!Oracle(game, Query(e)!OldState(game, state.pkg), arg, Moved(e, game, state, rand))
             new == Query(e)!Oracle(game, state, arg, rand)
         IN  old.value = new.value /\ old.state.pkg = new.state.pkg
<1> DEFINE P == Query(e)!Positions(game)
           moved == Moved(e, game, state, rand)
           old == Query(e)!OldState(game, state.pkg)
<1>1. [p \in P |-> moved[Query(e)!At(old, p)]] = [p \in P |-> rand[Query(e)!At(state, p)]]
  BY OldPositions DEF Moved
<1>2. old.pkg = state.pkg
  BY DEF Query!OldState
<1>3. QED
  BY <1>1, <1>2 DEF Query!Oracle

(* The moved values are values a query ranges over. *)
LEMMA MovedIsRandom ==
  ASSUME NEW e, NEW game, NEW state, \A id \in game.ids : game.offsets[id] \in Nat,
         NEW rand \in Query(e)!Rands(game, state)
  PROVE  Moved(e, game, state, rand) \in Query(e)!Rands(game, Query(e)!OldState(game, state.pkg))
<1> DEFINE P == Query(e)!Positions(game)
           moved == Moved(e, game, state, rand)
           old == Query(e)!OldState(game, state.pkg)
<1>1. { Query(e)!At(old, p) : p \in P } = P
  BY OldPositions
<1>2. \A p \in P : rand[Query(e)!At(state, p)] \in Values[game.type[p[1]]]
  BY DEF Query!Rands
<1>3. \A p \in P : rand[Query(e)!At(state, p)] \in Query(e)!Sampled(game)
  BY DEF Query!Rands
<1>4. moved \in [P -> Query(e)!Sampled(game)]
  BY <1>3 DEF Moved
<1>5. \A p \in P : moved[Query(e)!At(old, p)] \in Values[game.type[p[1]]]
  BY <1>2, OldPositions DEF Moved
<1>6. QED
  BY <1>1, <1>4, <1>5 DEF Query!Rands

-----------------------------------------------------------------------------
(* The model of a query that a call corresponds to. *)
ModelOf(e, l, r, arg, randL, randR) ==
  [left |-> l.pkg, right |-> r.pkg, arg |-> arg,
   randL |-> Moved(e, e.left, l, randL), randR |-> Moved(e, e.right, r, randR)]

(* A call in which the invariants hold before and the draws are coupled is *)
(* one of the cases the claims are proved in.                              *)
LEMMA CallIsAssumed ==
  ASSUME NEW e, Closed(e, e.left), Closed(e, e.right),
         NEW l, NEW r, l.pkg \in e.left.states, r.pkg \in e.right.states, Query(e)!InvariantsAt(l, r),
         NEW arg \in Arg, NEW randL \in Query(e)!Rands(e.left, l), NEW randR \in Query(e)!Rands(e.right, r),
         Query(e)!Coupled(l, r, arg, randL, randR)
  PROVE  ModelOf(e, l, r, arg, randL, randR) \in Query(e)!Assumed
<1> DEFINE m == ModelOf(e, l, r, arg, randL, randR)
           oldL == Query(e)!OldState(e.left, l.pkg)
           oldR == Query(e)!OldState(e.right, r.pkg)
           movedL == Moved(e, e.left, l, randL)
           movedR == Moved(e, e.right, r, randR)
<1>1. /\ \A id \in e.left.ids : e.left.offsets[id] \in Nat
      /\ \A id \in e.right.ids : e.right.offsets[id] \in Nat
  BY DEF Closed
<1>2. movedL \in Query(e)!Rands(e.left, oldL) /\ movedR \in Query(e)!Rands(e.right, oldR)
  BY <1>1, MovedIsRandom
<1>3. m \in Query(e)!Model
  <2> DEFINE Models(a, b) ==
               { [left |-> a, right |-> b, arg |-> x, randL |-> y, randR |-> z] :
                   x \in Arg, y \in Query(e)!Rands(e.left, Query(e)!OldState(e.left, a)),
                   z \in Query(e)!Rands(e.right, Query(e)!OldState(e.right, b)) }
  <2>1. m \in Models(l.pkg, r.pkg)
    BY <1>2 DEF ModelOf
  <2>2. Query(e)!Model = UNION { Models(a, b) : a \in e.left.states, b \in e.right.states }
    BY DEF Query!Model
  <2> HIDE DEF Models
  <2>3. QED
    BY <2>1, <2>2
<1>4. /\ Query(e)!OldLeft(m) = oldL /\ Query(e)!OldRight(m) = oldR
      /\ oldL.pkg = l.pkg /\ oldR.pkg = r.pkg
  BY DEF ModelOf, Query!OldLeft, Query!OldRight, Query!OldState
<1>5. Query(e)!InvariantsAt(oldL, oldR)
  BY <1>4 DEF Query!InvariantsAt, Query!StateRelation
<1>6. Query(e)!Coupled(oldL, oldR, arg, movedL, movedR)
  <2>1. SUFFICES ASSUME NEW c \in Query(e)!Candidates \cap Query(e)!RandomnessMapping(oldL.pkg, oldR.pkg, arg)
                 PROVE  movedL[Query(e)!At(oldL, <<c[1], c[3]>>)] = movedR[Query(e)!At(oldR, <<c[2], c[4]>>)]
    BY DEF Query!Coupled
  <2>2. /\ <<c[1], c[3]>> \in Query(e)!Positions(e.left)
        /\ <<c[2], c[4]>> \in Query(e)!Positions(e.right)
    <3>1. PICK p \in Query(e)!Positions(e.left), q \in Query(e)!Positions(e.right) :
            c = <<p[1], q[1], p[2], q[2]>>
      BY DEF Query!Candidates
    <3>2. p = <<p[1], p[2]>> /\ q = <<q[1], q[2]>>
      BY DEF Query!Positions
    <3>3. QED
      BY <3>1, <3>2
  <2>3. randL[Query(e)!At(l, <<c[1], c[3]>>)] = randR[Query(e)!At(r, <<c[2], c[4]>>)]
    BY <1>4 DEF Query!Coupled
  <2>4. /\ movedL[Query(e)!At(oldL, <<c[1], c[3]>>)] = randL[Query(e)!At(l, <<c[1], c[3]>>)]
        /\ movedR[Query(e)!At(oldR, <<c[2], c[4]>>)] = randR[Query(e)!At(r, <<c[2], c[4]>>)]
    BY <1>1, <2>2, OldPositions DEF Moved
  <2>5. QED
    BY <2>3, <2>4
<1>7. QED
  <2>1. m.arg = arg /\ m.randL = movedL /\ m.randR = movedR
    BY DEF ModelOf
  <2>2. QED
    BY <1>3, <1>4, <1>5, <1>6, <2>1 DEF Query!Assumed

(* The names that are true of a model. *)
TrueNames(e, m) == { n \in Name : Query(e)!Holds(n, m) }

(* The claims that are proved or truly admitted leave open no situation    *)
(* but those a model is in.                                                *)
LEMMA ModelIsSupported ==
  ASSUME NEW e, NEW claims \in SUBSET Claim, Query(e)!Proved(claims),
         NEW m \in Query(e)!Assumed, \A c \in claims : c.admitted => Query(e)!Holds(c.name, m)
  PROVE  TrueNames(e, m) \in Supports(claims)
<1>1. ASSUME NEW c \in claims, c.admitted \/ c.deps \subseteq TrueNames(e, m)
      PROVE  c.name \in TrueNames(e, m)
  <2>1. c.name \in Name /\ c.deps \subseteq Name
    BY DEF Claim
  <2>2. CASE c.admitted
    BY <2>1, <2>2 DEF TrueNames
  <2>3. CASE ~c.admitted
    <3>1. \A dep \in c.deps : Query(e)!Holds(dep, m)
      BY <1>1, <2>3 DEF TrueNames
    <3>2. Query(e)!ClaimHolds(c, m)
      BY <2>3 DEF Query!Proved
    <3>3. QED
      BY <2>1, <3>1, <3>2 DEF TrueNames, Query!ClaimHolds
  <2>4. QED
    BY <2>2, <2>3
<1>2. QED
  BY <1>1 DEF Supports, TrueNames

(* What the names mean that the induction step is about. *)
LEMMA BuiltInNames ==
  ASSUME NEW e, NEW m
  PROVE  /\ Query(e)!Holds(EqualAborts, m) <=> Query(e)!BuildEqualAborts(m)
         /\ Query(e)!Holds(NoAbort, m) <=> Query(e)!BuildNoAbort(m)
         /\ Query(e)!Holds(SameOutput, m) <=> Query(e)!BuildSameOutput(m)
         /\ Query(e)!Holds(Invariant, m) <=>
              Query(e)!StateRelation(Invariant, Query(e)!LeftReturn(m).state, Query(e)!RightReturn(m).state)
<1>1. /\ Invariant # EqualAborts /\ Invariant # NoAbort /\ Invariant # SameOutput
      /\ Invariant \in RelationNames \cup InvariantNames
      /\ {EqualAborts, NoAbort, SameOutput} \cap (RelationNames \cup InvariantNames) = {}
      /\ EqualAborts # NoAbort /\ EqualAborts # SameOutput /\ NoAbort # SameOutput
  BY RelationsAssumption
<1>2. QED
  BY <1>1 DEF Query!Holds

(* A call stays within the states of its game. *)
LEMMA CallIsClosed ==
  ASSUME NEW e, NEW game, Closed(e, game), NEW state, state.pkg \in game.states,
         NEW arg \in Arg, NEW rand \in Query(e)!Rands(game, state)
  PROVE  Query(e)!Oracle(game, state, arg, rand).state.pkg \in game.states
<1> DEFINE draws == [p \in Query(e)!Positions(game) |-> rand[Query(e)!At(state, p)]]
<1>1. draws \in [Query(e)!Positions(game) -> Query(e)!Sampled(game)]
  BY DEF Query!Rands
<1>2. game.oracle[<<state.pkg, arg, draws>>].pkg \in game.states
  BY <1>1 DEF Closed
<1>3. QED
  BY <1>2 DEF Query!Oracle

(* The heart of the argument: whatever the counters are, a call on both    *)
(* games is a model of the queries, so that the claims proved about all    *)
(* models leave open only what the induction step allows.                  *)
LEMMA CallIsSafe ==
  ASSUME NEW e, Closed(e, e.left), Closed(e, e.right),
         NEW claims \in SUBSET Claim, Query(e)!Proved(claims),
         \A true \in Supports(claims) : StepHolds(true),
         \A c \in claims : c.admitted => \A m \in Query(e)!Assumed : Query(e)!Holds(c.name, m),
         NEW l, NEW r, l.pkg \in e.left.states, r.pkg \in e.right.states, Query(e)!InvariantsAt(l, r),
         NEW arg \in Arg, NEW randL \in Query(e)!Rands(e.left, l), NEW randR \in Query(e)!Rands(e.right, r),
         Query(e)!Coupled(l, r, arg, randL, randR)
  PROVE  LET a == Query(e)!Oracle(e.left, l, arg, randL)
             b == Query(e)!Oracle(e.right, r, arg, randR)
         IN  a.value = b.value /\ (a.value # Abort => Query(e)!InvariantsAt(a.state, b.state))
<1> DEFINE a == Query(e)!Oracle(e.left, l, arg, randL)
           b == Query(e)!Oracle(e.right, r, arg, randR)
           m == ModelOf(e, l, r, arg, randL, randR)
           lr == Query(e)!LeftReturn(m)
           rr == Query(e)!RightReturn(m)
<1>1. m \in Query(e)!Assumed
  BY CallIsAssumed
<1>2. TrueNames(e, m) \in Supports(claims)
  BY <1>1, ModelIsSupported
<1>3. StepHolds(TrueNames(e, m))
  BY <1>2
<1>4. /\ lr.value = a.value /\ lr.state.pkg = a.state.pkg
      /\ rr.value = b.value /\ rr.state.pkg = b.state.pkg
  <2>1. /\ \A id \in e.left.ids : e.left.offsets[id] \in Nat
        /\ \A id \in e.right.ids : e.right.offsets[id] \in Nat
    BY DEF Closed
  <2>2. /\ lr = Query(e)!Oracle(e.left, Query(e)!OldState(e.left, l.pkg), arg, Moved(e, e.left, l, randL))
        /\ rr = Query(e)!Oracle(e.right, Query(e)!OldState(e.right, r.pkg), arg, Moved(e, e.right, r, randR))
    BY DEF ModelOf, Query!LeftReturn, Query!RightReturn, Query!OldLeft, Query!OldRight
  <2>3. QED
    BY <2>1, <2>2, CallIsQuery
<1>5. (lr.value = Abort) <=> (rr.value = Abort)
  BY <1>3, BuiltInNames DEF StepHolds, TrueNames, Query!BuildEqualAborts
<1>6. CASE a.value = Abort
  BY <1>4, <1>5, <1>6
<1>7. CASE a.value # Abort
  <2>1. Query(e)!BuildNoAbort(m)
    BY <1>4, <1>5, <1>7 DEF Query!BuildNoAbort
  <2>2. NoAbort \in TrueNames(e, m)
    BY <2>1, BuiltInNames, NameAssumption DEF TrueNames
  <2>3. Invariant \in TrueNames(e, m) /\ SameOutput \in TrueNames(e, m)
    BY <1>3, <2>2 DEF StepHolds
  <2>4. lr.value = rr.value
    BY <2>3, BuiltInNames DEF TrueNames, Query!BuildSameOutput
  <2>5. Query(e)!StateRelation(Invariant, lr.state, rr.state)
    BY <2>3, BuiltInNames DEF TrueNames
  <2>6. lr.state.pkg \in e.leftInvariant /\ rr.state.pkg \in e.rightInvariant
    BY <1>1, <2>1 DEF Query!Proved, Query!SideInvariantsHold
  <2>7. Query(e)!InvariantsAt(a.state, b.state)
    BY <1>4, <2>5, <2>6 DEF Query!InvariantsAt, Query!StateRelation
  <2>8. QED
    BY <1>4, <2>4, <2>7
<1>8. QED
  BY <1>6, <1>7

-----------------------------------------------------------------------------
(* The equivalence at hand is one of the given ones. *)
InWorld == world \in DOMAIN World

(* The adversary and the solver leave the check of the claims alone. *)
LEMMA CheckIsInductionStep == ClaimsSpec => Spec
<1>1. ClaimsInit => Init /\ InWorld
  BY DEF ClaimsInit, InWorld
<1>2. InWorld /\ [ClaimsNext]_claimVars => InWorld'
  BY DEF InWorld, ClaimsNext, CheckInduction, Verify, Play, Call, claimVars
<1>3. InWorld /\ [ClaimsNext]_claimVars => [Next]_vars
  <2> SUFFICES ASSUME InWorld, [ClaimsNext]_claimVars PROVE [Next]_vars
    OBVIOUS
  <2>1. CASE CheckInduction
    <3>1. eq.lines \subseteq LemmaLines
      BY WorldAssumption DEF eq, InWorld
    <3>2. QED
      BY <2>1, <3>1 DEF CheckInduction, Next
  <2>2. CASE Verify
    BY <2>2 DEF Verify
  <2>3. CASE Play
    BY <2>3 DEF Play, Call
  <2>4. CASE UNCHANGED claimVars
    BY <2>4 DEF claimVars
  <2>5. QED
    BY <2>1, <2>2, <2>3, <2>4 DEF ClaimsNext
<1>4. QED
  BY <1>1, <1>2, <1>3, PTL DEF ClaimsSpec, Spec

(* What is true of the play: before a success nothing was called; after it *)
(* the claims are those of an accepted tree, the solver proved them, and,  *)
(* unless what was admitted is false, the invariants hold of the states    *)
(* and the answers were equal.                                             *)
GameInv ==
  /\ world \in DOMAIN World
  /\ left.pkg \in eq.left.states /\ right.pkg \in eq.right.states
  /\ result # "verified" =>
       /\ left = Query(eq)!InitialState(eq.left) /\ right = Query(eq)!InitialState(eq.right)
       /\ view[1] = view[2]
  /\ result = "verified" =>
       /\ phase = "accepted" /\ Query(eq)!Proved(lines)
       /\ AdmittedHold => view[1] = view[2] /\ Query(eq)!InvariantsAt(left, right)

LEMMA GameInvariant == ClaimsSpec => []GameInv
<1>1. ClaimsInit => GameInv
  <2> SUFFICES ASSUME ClaimsInit PROVE GameInv
    OBVIOUS
  <2>1. world \in DOMAIN World /\ result = "none" /\ view[1] = view[2]
    BY DEF ClaimsInit
  <2>2. left = Query(eq)!InitialState(eq.left) /\ right = Query(eq)!InitialState(eq.right)
    BY DEF ClaimsInit
  <2>3. eq.left.init \in eq.left.states /\ eq.right.init \in eq.right.states
    BY <2>1, WorldAssumption DEF eq, Closed
  <2>4. left.pkg \in eq.left.states /\ right.pkg \in eq.right.states
    BY <2>2, <2>3 DEF Query!InitialState, Query!OldState
  <2>5. QED
    BY <2>1, <2>2, <2>4 DEF GameInv
<1>2. TypeOK /\ AcceptedIsSound /\ GameInv /\ [ClaimsNext]_claimVars => GameInv'
  <2> SUFFICES ASSUME TypeOK, AcceptedIsSound, GameInv, [ClaimsNext]_claimVars PROVE GameInv'
    OBVIOUS
  <2>1. CASE CheckInduction
    <3>1. phase # "accepted"
      BY <2>1 DEF CheckInduction, ReadLemmaLine, StartInduction, Iterate, CheckTargets
    <3>2. result # "verified"
      BY <3>1 DEF GameInv
    <3>3. world' = world /\ result' = result /\ left' = left /\ right' = right /\ view' = view
      BY <2>1 DEF CheckInduction, gameVars
    <3>4. QED
      BY <3>2, <3>3 DEF GameInv, eq
  <2>2. CASE Verify
    <3>1. /\ phase = "accepted" /\ result # "verified"
          /\ world' = world /\ left' = left /\ right' = right /\ view' = view
          /\ phase' = phase /\ lines' = lines
      BY <2>2 DEF Verify, gameVars, vars
    <3>2. left = Query(eq)!InitialState(eq.left) /\ right = Query(eq)!InitialState(eq.right) /\ view[1] = view[2]
      BY <3>1 DEF GameInv
    <3>3. result' = "verified" => Query(eq)!Proved(lines)
      BY <2>2 DEF Verify
    <3>4. Query(eq)!Proved(lines) => Query(eq)!InvariantsAt(left, right)
      BY <3>2 DEF Query!Proved
    <3>5. QED
      BY <3>1, <3>2, <3>3, <3>4 DEF GameInv, eq
  <2>3. CASE Play
    <3>1. PICK arg \in Arg, randL \in Query(eq)!Rands(eq.left, left), randR \in Query(eq)!Rands(eq.right, right) :
            Call(arg, randL, randR)
      BY <2>3 DEF Play
    <3> DEFINE l == Query(eq)!Oracle(eq.left, left, arg, randL)
               r == Query(eq)!Oracle(eq.right, right, arg, randR)
    <3>2. /\ result = "verified" /\ result' = result /\ world' = world
          /\ phase' = phase /\ lines' = lines
          /\ Query(eq)!Coupled(left, right, arg, randL, randR)
          /\ view' = <<l.value, r.value>>
          /\ left' = IF l.value = Abort THEN left ELSE l.state
          /\ right' = IF r.value = Abort THEN right ELSE r.state
      BY <3>1 DEF Call, vars
    <3>3. Closed(eq, eq.left) /\ Closed(eq, eq.right)
      BY WorldAssumption DEF GameInv, eq
    <3>4. left'.pkg \in eq.left.states /\ right'.pkg \in eq.right.states
      <4>1. l.state.pkg \in eq.left.states
        BY <3>3, CallIsClosed DEF GameInv
      <4>2. r.state.pkg \in eq.right.states
        BY <3>3, CallIsClosed DEF GameInv
      <4>3. QED
        BY <3>2, <4>1, <4>2 DEF GameInv
    <3>5. phase = "accepted" /\ Query(eq)!Proved(lines)
      BY <3>2 DEF GameInv
    <3>6. ASSUME AdmittedHold
          PROVE  view'[1] = view'[2] /\ Query(eq)!InvariantsAt(left', right')
      <4>1. Query(eq)!InvariantsAt(left, right)
        BY <3>2, <3>6 DEF GameInv
      <4>2. \A true \in Supports(lines) : StepHolds(true)
        BY <3>5 DEF AcceptedIsSound
      <4>3. \A c \in lines : c.admitted => \A m \in Query(eq)!Assumed : Query(eq)!Holds(c.name, m)
        BY <3>6 DEF AdmittedHold
      <4>4. lines \in SUBSET Claim /\ left.pkg \in eq.left.states /\ right.pkg \in eq.right.states
        BY DEF TypeOK, GameInv
      <4>5. l.value = r.value /\ (l.value # Abort => Query(eq)!InvariantsAt(l.state, r.state))
        BY <3>2, <3>3, <3>5, <4>1, <4>2, <4>3, <4>4, CallIsSafe
      <4>6. QED
        BY <3>2, <4>1, <4>5
    <3>7. AdmittedHold' <=> AdmittedHold
      BY <3>2 DEF AdmittedHold, eq
    <3>8. QED
      BY <3>2, <3>4, <3>5, <3>6, <3>7 DEF GameInv, eq
  <2>4. CASE UNCHANGED claimVars
    BY <2>4 DEF claimVars, gameVars, vars, GameInv, AdmittedHold, eq
  <2>5. QED
    BY <2>1, <2>2, <2>3, <2>4 DEF ClaimsNext
<1>3. QED
  BY <1>1, <1>2, CheckIsInductionStep, TypeCorrect, Soundness, PTL DEF ClaimsSpec

(* What a verified equivalence is worth: whatever the games, the claims    *)
(* and the randomness mapping are, and however long the adversary plays,   *)
(* both games answer it the same, unless an admitted claim is false.       *)
THEOREM ViewsAreEqual == ClaimsSpec => []ViewsEqual
<1>1. GameInv => ViewsEqual
  BY DEF GameInv, ViewsEqual
<1>2. QED
  BY <1>1, GameInvariant, PTL

(* The invariants of the two games, of their packages and of the pair hold *)
(* between any two calls.                                                  *)
THEOREM InvariantsAreKept == ClaimsSpec => []InvariantsKept
<1>1. GameInv => InvariantsKept
  BY DEF GameInv, InvariantsKept
<1>2. QED
  BY <1>1, GameInvariant, PTL

-----------------------------------------------------------------------------
(* Which choices on the right go with a choice on the left.  If there is a *)
(* way (g) to make any right one fit any left one, and it is one-to-one on *)
(* those that fit the same, then every left one has as many.               *)
MakesFit(g, A, B, R) ==
  /\ R \in SUBSET (A \X B)
  /\ g \in [A -> [B -> B]]
  /\ \A c \in A : \A b \in B : <<c, g[c][b]>> \in R
  /\ \A a \in A : \A c \in A : \A b \in B : \A d \in B :
        <<a, b>> \in R /\ <<a, d>> \in R /\ g[c][b] = g[c][d] => b = d

LEMMA FibresAreAlike ==
  ASSUME NEW A, NEW B, IsFiniteSet(A), IsFiniteSet(B), NEW R, NEW g, MakesFit(g, A, B, R)
  PROVE  \A a \in A : Cardinality({p \in R : p[1] = a}) * Cardinality(A) = Cardinality(R)
<1> SUFFICES ASSUME NEW a \in A
             PROVE  Cardinality({p \in R : p[1] = a}) * Cardinality(A) = Cardinality(R)
  OBVIOUS
<1>0. /\ R \in SUBSET (A \X B)
      /\ g \in [A -> [B -> B]]
      /\ \A c \in A : \A b \in B : <<c, g[c][b]>> \in R
      /\ \A u \in A : \A c \in A : \A b \in B : \A d \in B :
            <<u, b>> \in R /\ <<u, d>> \in R /\ g[c][b] = g[c][d] => b = d
  BY DEF MakesFit
<1> USE <1>0
<1> DEFINE fibre == {p \in R : p[1] = a}
           P == A \X fibre
           out == [q \in P |-> <<q[1], g[q[1]][q[2][2]]>>]
           back == [p \in R |-> <<p[1], <<a, g[a][p[2]]>>>>]
<1>1. \A p \in R : p = <<p[1], p[2]>> /\ p[1] \in A /\ p[2] \in B
  OBVIOUS
<1>2. IsFiniteSet(R)
  BY FS_Product, FS_Subset
<1>3. IsFiniteSet(fibre) /\ IsFiniteSet(P) /\ Cardinality(P) = Cardinality(A) * Cardinality(fibre)
  <2>1. IsFiniteSet(fibre)
    BY <1>2, FS_Subset
  <2> HIDE DEF fibre
  <2> QED
    BY <2>1, FS_Product
<1>4. \A q \in P : q = <<q[1], q[2]>> /\ q[1] \in A /\ q[2] \in R /\ q[2][1] = a /\ q[2][2] \in B
  BY <1>1
<1>5. out \in Injection(P, R)
  <2>1. \A q \in P : out[q] \in R
    BY <1>4
  <2>2. ASSUME NEW q \in P, NEW r \in P, out[q] = out[r]
        PROVE  q = r
    <3>1. q[1] = r[1] /\ g[q[1]][q[2][2]] = g[r[1]][r[2][2]]
      BY <2>2
    <3>2. q[2] = <<a, q[2][2]>> /\ r[2] = <<a, r[2][2]>>
      BY <1>1, <1>4
    <3>3. q[2][2] = r[2][2]
      <4>1. <<a, q[2][2]>> \in R /\ <<a, r[2][2]>> \in R
        <5>1. q[2] \in R /\ r[2] \in R
          BY <1>4
        <5> HIDE DEF P, out
        <5> QED
          BY <3>2, <5>1, Zenon
      <4> QED
        BY <1>4, <3>1, <4>1
    <3>4. q[2] = r[2]
      BY <3>2, <3>3
    <3> QED
      BY <1>4, <3>1, <3>4
  <2>3. DOMAIN out = P /\ out \in [P -> R]
    BY <2>1
  <2> HIDE DEF out, P
  <2> QED
    BY <2>2, <2>3 DEF Injection, IsInjective
<1>6. back \in Injection(R, P)
  <2>1. \A p \in R : back[p] \in P
    <3>1. \A p \in R : <<a, g[a][p[2]]>> \in fibre
      BY <1>1
    <3> QED
      BY <1>1, <3>1
  <2>2. ASSUME NEW p \in R, NEW r \in R, back[p] = back[r]
        PROVE  p = r
    <3>1. p[1] = r[1] /\ g[a][p[2]] = g[a][r[2]]
      <4>1. <<p[1], <<a, g[a][p[2]]>>>> = <<r[1], <<a, g[a][r[2]]>>>>
        BY <2>2
      <4> QED
        BY <4>1
    <3>2. p[2] = r[2]
      <4>1. <<p[1], p[2]>> \in R /\ <<p[1], r[2]>> \in R
        BY <1>1, <3>1
      <4> QED
        BY <1>1, <3>1, <4>1
    <3> QED
      BY <1>1, <3>1, <3>2
  <2>3. DOMAIN back = R /\ back \in [R -> P]
    BY <2>1
  <2> HIDE DEF back, P
  <2> QED
    BY <2>2, <2>3 DEF Injection, IsInjective
<1> HIDE DEF out, back, P, fibre
<1>7. Cardinality(P) <= Cardinality(R) /\ Cardinality(R) <= Cardinality(P)
  BY <1>2, <1>3, <1>5, <1>6, FS_Injection
<1>8. Cardinality(P) \in Nat /\ Cardinality(R) \in Nat /\ Cardinality(A) \in Nat /\ Cardinality(fibre) \in Nat
  BY <1>2, <1>3, FS_CardinalityType
<1> HIDE <1>0
<1>9. Cardinality(fibre) * Cardinality(A) = Cardinality(R)
  <2>1. Cardinality(P) = Cardinality(R)
    BY <1>7, <1>8
  <2>2. \A x \in Nat : \A y \in Nat : x * y = y * x
    OBVIOUS
  <2>3. Cardinality(fibre) * Cardinality(A) = Cardinality(A) * Cardinality(fibre)
    BY <1>8, <2>2, Zenon
  <2> QED
    BY <1>3, <2>1, <2>3, Zenon
<1> QED
  BY <1>9 DEF fibre

(* A relation has as many pairs as its inverse.                            *)
Inverted(R) == {<<p[2], p[1]>> : p \in R}

LEMMA InvertedIsAsLarge ==
  ASSUME NEW A, NEW B, NEW R \in SUBSET (A \X B), IsFiniteSet(R)
  PROVE  Cardinality(Inverted(R)) = Cardinality(R)
<1> DEFINE f == [p \in R |-> <<p[2], p[1]>>]
<1>1. \A p \in R : p = <<p[1], p[2]>>
  OBVIOUS
<1>2. f \in Bijection(R, Inverted(R))
  <2>1. f \in [R -> Inverted(R)] /\ \A q \in Inverted(R) : \E p \in R : f[p] = q
    BY DEF Inverted
  <2>2. ASSUME NEW p \in R, NEW q \in R, f[p] = f[q]
        PROVE  p = q
    BY <1>1, <2>2
  <2>3. DOMAIN f = R
    OBVIOUS
  <2> HIDE DEF f
  <2> QED
    BY <2>1, <2>2, <2>3 DEF Bijection, Injection, Surjection, IsInjective
<1> HIDE DEF f
<1> QED
  BY <1>2, FS_Bijection DEF ExistsBijection

(* Two families of choices, with a relation M of their arguments that      *)
(* relates none on the right to two on the left: what is chosen on the     *)
(* left can be any, and leaves as much to choose on the right.             *)
Agreeing(A, B, M) == {p \in A \X B : \A m \in M : p[1][m[1]] = p[2][m[2]]}

Choosable(D, T) == IsFiniteSet(D) /\ \A x \in D : IsFiniteSet(T[x]) /\ T[x] # {}

Matches(D, T, E, U, M) ==
  /\ M \subseteq D \X E
  /\ \A m \in M : T[m[1]] = U[m[2]]
  /\ \A m, n \in M : m[2] = n[2] => m[1] = n[1]

LEMMA MatchedChoices ==
  ASSUME NEW D, NEW T, NEW E, NEW U, NEW M, Choosable(D, T), Choosable(E, U), Matches(D, T, E, U, M)
  PROVE  LET A == ChoicesFrom(D, T)
             B == ChoicesFrom(E, U)
             R == Agreeing(A, B, M)
         IN  /\ IsFiniteSet(R) /\ R # {}
             /\ \A a \in A : Cardinality({p \in R : p[1] = a}) * Cardinality(A) = Cardinality(R)
<1> DEFINE A == ChoicesFrom(D, T)
           B == ChoicesFrom(E, U)
           R == Agreeing(A, B, M)
           Of(e) == (CHOOSE m \in M : m[2] = e)[1]
           moved(a, b) == [e \in E |-> IF \E m \in M : m[2] = e THEN a[Of(e)] ELSE b[e]]
           g == [a \in A |-> [b \in B |-> moved(a, b)]]
<1>1. IsFiniteSet(A) /\ IsFiniteSet(B)
  BY FiniteChoices DEF Choosable
<1>2. IsFiniteSet(R) /\ R \in SUBSET (A \X B)
  BY <1>1, FS_Product, FS_Subset DEF Agreeing
<1>3. A # {} /\ B # {}
  <2>1. [x \in D |-> CHOOSE v : v \in T[x]] \in A
    <3>1. \A x \in D : (CHOOSE v : v \in T[x]) \in T[x]
      BY DEF Choosable
    <3> QED
      BY <3>1 DEF ChoicesFrom
  <2>2. [x \in E |-> CHOOSE v : v \in U[x]] \in B
    <3>1. \A x \in E : (CHOOSE v : v \in U[x]) \in U[x]
      BY DEF Choosable
    <3> QED
      BY <3>1 DEF ChoicesFrom
  <2> QED
    BY <2>1, <2>2
<1>4. \A m \in M : m[1] \in D /\ m[2] \in E /\ T[m[1]] = U[m[2]] /\ Of(m[2]) = m[1]
  <2> SUFFICES ASSUME NEW m \in M
               PROVE  m[1] \in D /\ m[2] \in E /\ T[m[1]] = U[m[2]] /\ Of(m[2]) = m[1]
    OBVIOUS
  <2>1. m[1] \in D /\ m[2] \in E /\ T[m[1]] = U[m[2]]
    BY DEF Matches
  <2>2. (CHOOSE n \in M : n[2] = m[2]) \in M /\ (CHOOSE n \in M : n[2] = m[2])[2] = m[2]
    OBVIOUS
  <2>3. Of(m[2]) = m[1]
    BY <2>2 DEF Matches
  <2> QED
    BY <2>1, <2>3
<1> HIDE DEF Of
<1>5. ASSUME NEW a \in A, NEW b \in B
      PROVE  moved(a, b) \in B /\ <<a, moved(a, b)>> \in R
  <2>1. \A e \in E : moved(a, b)[e] \in U[e]
    <3> SUFFICES ASSUME NEW e \in E PROVE moved(a, b)[e] \in U[e]
      OBVIOUS
    <3>1. CASE \E m \in M : m[2] = e
      <4>1. PICK m \in M : m[2] = e
        BY <3>1
      <4>2. moved(a, b)[e] = a[m[1]] /\ m[1] \in D /\ T[m[1]] = U[e]
        BY <1>4, <3>1, <4>1
      <4> QED
        BY <4>2 DEF ChoicesFrom
    <3>2. CASE ~\E m \in M : m[2] = e
      BY <3>2 DEF ChoicesFrom
    <3> QED
      BY <3>1, <3>2
  <2>2. moved(a, b) \in B
    BY <2>1 DEF ChoicesFrom
  <2>3. \A m \in M : a[m[1]] = moved(a, b)[m[2]]
    BY <1>4
  <2> HIDE DEF moved, A, B
  <2> QED
    BY <2>2, <2>3 DEF Agreeing
<1>6. ASSUME NEW a \in A, NEW c \in A, NEW b \in B, NEW d \in B,
             <<a, b>> \in R, <<a, d>> \in R, moved(c, b) = moved(c, d)
      PROVE  b = d
  <2>1. \A m \in M : a[m[1]] = b[m[2]] /\ a[m[1]] = d[m[2]]
    BY <1>6 DEF Agreeing
  <2>2. \A e \in E : moved(c, b)[e] = moved(c, d)[e]
    BY <1>6
  <2>3. ASSUME NEW e \in E
        PROVE  b[e] = d[e]
    <3>1. CASE \E m \in M : m[2] = e
      BY <2>1, <3>1
    <3>2. CASE ~\E m \in M : m[2] = e
      BY <2>2, <3>2
    <3> QED
      BY <3>1, <3>2
  <2>4. b = [e \in E |-> b[e]] /\ d = [e \in E |-> d[e]]
    BY DEF ChoicesFrom
  <2> QED
    BY <2>3, <2>4
<1> HIDE DEF moved, A, B, R
<1>7. MakesFit(g, A, B, R)
  <2>1. \A c \in A : \A b \in B : g[c][b] = moved(c, b) /\ moved(c, b) \in B
    BY <1>5
  <2>2. g \in [A -> [B -> B]]
    BY <1>5
  <2>3. \A c \in A : \A b \in B : <<c, g[c][b]>> \in R
    BY <1>5, <2>1
  <2> HIDE DEF g
  <2>4. \A a \in A : \A c \in A : \A b \in B : \A d \in B :
            <<a, b>> \in R /\ <<a, d>> \in R /\ g[c][b] = g[c][d] => b = d
    BY <1>6, <2>1
  <2> QED
    BY <1>2, <2>2, <2>3, <2>4 DEF MakesFit
<1>8. R # {}
  BY <1>3, <1>5
<1> HIDE DEF g
<1>9. \A a \in A : Cardinality({p \in R : p[1] = a}) * Cardinality(A) = Cardinality(R)
  BY <1>1, <1>7, FibresAreAlike
<1> QED
  BY <1>2, <1>8, <1>9 DEF A, B, R

(* One-to-one on both sides, the same can be said from the right.          *)
LEMMA MatchedBothWays ==
  ASSUME NEW D, NEW T, NEW E, NEW U, NEW M, Choosable(D, T), Choosable(E, U),
         Matches(D, T, E, U, M), \A m, n \in M : m[1] = n[1] => m[2] = n[2]
  PROVE  LET A == ChoicesFrom(D, T)
             B == ChoicesFrom(E, U)
             R == Agreeing(A, B, M)
         IN  /\ R # {}
             /\ \A a \in A : Cardinality({p \in R : p[1] = a}) * Cardinality(A) = Cardinality(R)
             /\ \A b \in B : Cardinality({p \in R : p[2] = b}) * Cardinality(B) = Cardinality(R)
<1> DEFINE A == ChoicesFrom(D, T)
           B == ChoicesFrom(E, U)
           R == Agreeing(A, B, M)
           N == Inverted(M)
           Q == Agreeing(B, A, N)
<1>1. /\ IsFiniteSet(R) /\ R # {}
      /\ \A a \in A : Cardinality({p \in R : p[1] = a}) * Cardinality(A) = Cardinality(R)
  BY MatchedChoices
<1>2. \A m \in M : m[1] \in D /\ m[2] \in E /\ T[m[1]] = U[m[2]]
  BY DEF Matches
<1>3. Matches(E, U, D, T, N)
  <2>1. \A n \in N : n[1] \in E /\ n[2] \in D /\ U[n[1]] = T[n[2]] /\ n = <<n[1], n[2]>>
    BY <1>2 DEF Inverted
  <2>2. \A n \in N : \E m \in M : n[1] = m[2] /\ n[2] = m[1]
    BY DEF Inverted
  <2>3. \A m, n \in N : m[2] = n[2] => m[1] = n[1]
    BY <2>2
  <2>4. N \subseteq E \X D
    BY <1>2 DEF Inverted
  <2> HIDE DEF N
  <2> QED
    BY <2>1, <2>3, <2>4 DEF Matches
<1>4. \A b \in B : Cardinality({q \in Q : q[1] = b}) * Cardinality(B) = Cardinality(Q)
  BY <1>3, MatchedChoices
<1>5. R \in SUBSET (A \X B) /\ Q = Inverted(R)
  <2> HIDE DEF A, B
  <2>1. ASSUME NEW a \in A, NEW b \in B
        PROVE  <<b, a>> \in Q <=> <<a, b>> \in R
    <3>1. <<b, a>> \in Q <=> \A n \in N : b[n[1]] = a[n[2]]
      BY DEF Agreeing
    <3>2. <<a, b>> \in R <=> \A m \in M : a[m[1]] = b[m[2]]
      BY DEF Agreeing
    <3>3. (\A n \in N : b[n[1]] = a[n[2]]) <=> \A m \in M : a[m[1]] = b[m[2]]
      <4>1. \A m \in M : <<m[2], m[1]>> \in N
        BY DEF Inverted
      <4>2. \A n \in N : \E m \in M : n[1] = m[2] /\ n[2] = m[1]
        BY DEF Inverted
      <4> HIDE DEF N
      <4>3. ASSUME \A n \in N : b[n[1]] = a[n[2]], NEW m \in M
            PROVE  a[m[1]] = b[m[2]]
        <5>1. b[<<m[2], m[1]>>[1]] = a[<<m[2], m[1]>>[2]]
          BY <4>1, <4>3
        <5> QED
          BY <5>1
      <4> QED
        BY <4>2, <4>3
    <3> QED
      BY <3>1, <3>2, <3>3
  <2>2. Q \subseteq B \X A /\ R \subseteq A \X B
    BY DEF Agreeing
  <2> HIDE DEF Q, R
  <2>3. \A q \in Q : q = <<q[1], q[2]>> /\ q[1] \in B /\ q[2] \in A
    BY <2>2
  <2>4. \A p \in R : p = <<p[1], p[2]>> /\ p[1] \in A /\ p[2] \in B
    BY <2>2
  <2>5. ASSUME NEW q \in Q
        PROVE  q \in Inverted(R)
    <3>1. <<q[2], q[1]>> \in R
      BY <2>1, <2>3
    <3> QED
      BY <2>3, <3>1 DEF Inverted
  <2>6. ASSUME NEW q \in Inverted(R)
        PROVE  q \in Q
    <3>1. PICK p \in R : q = <<p[2], p[1]>>
      BY DEF Inverted
    <3> QED
      BY <2>1, <2>4, <3>1
  <2> QED
    BY <2>2, <2>5, <2>6
<1> HIDE DEF A, B, R, Q
<1>6. ASSUME NEW b \in B
      PROVE  Cardinality({p \in R : p[2] = b}) * Cardinality(B) = Cardinality(R)
  <2> DEFINE F == {p \in R : p[2] = b}
  <2>1. F \in SUBSET R /\ F \in SUBSET (A \X B) /\ IsFiniteSet(F)
    BY <1>1, <1>5, FS_Subset
  <2>2. {q \in Q : q[1] = b} = Inverted(F)
    BY <1>5 DEF Inverted
  <2> HIDE DEF F
  <2>3. Cardinality({q \in Q : q[1] = b}) = Cardinality(F) /\ Cardinality(Q) = Cardinality(R)
    <3>1. Cardinality(Inverted(F)) = Cardinality(F)
      BY <2>1, InvertedIsAsLarge, Zenon
    <3>2. Cardinality(Inverted(R)) = Cardinality(R)
      BY <1>1, <1>5, InvertedIsAsLarge, Zenon
    <3> QED
      BY <1>5, <2>2, <3>1, <3>2, Zenon
  <2> QED
    BY <1>4, <2>3 DEF F
<1> QED
  BY <1>1, <1>6 DEF A, B, R

-----------------------------------------------------------------------------
(* The random values of a call are such a family of choices.               *)
Drawn(e, game, state) == {Query(e)!At(state, p) : p \in Query(e)!Positions(game)}
SortsOf(e, game, state) == [x \in Drawn(e, game, state) |-> Values[game.type[x[1]]]]

LEMMA PositionParts ==
  ASSUME NEW e, NEW game, NEW p \in Query(e)!Positions(game)
  PROVE  p[1] \in game.ids /\ p[2] \in Int /\ p = <<p[1], p[2]>>
BY DEF Query!Positions

LEMMA RandsAreChoices ==
  ASSUME NEW e, NEW game, NEW state
  PROVE  Query(e)!Rands(game, state) = ChoicesFrom(Drawn(e, game, state), SortsOf(e, game, state))
<1> DEFINE D == Drawn(e, game, state)
           T == SortsOf(e, game, state)
           P == Query(e)!Positions(game)
           At(p) == Query(e)!At(state, p)
<1>1. \A p \in P : At(p) \in D /\ At(p)[1] = p[1] /\ T[At(p)] = Values[game.type[p[1]]] /\ p[1] \in game.ids
  <2>1. \A p \in P : At(p) \in D /\ At(p)[1] = p[1] /\ p[1] \in game.ids
    BY PositionParts DEF Drawn, Query!At
  <2> QED
    BY <2>1 DEF SortsOf
<1>2. \A x \in D : \E p \in P : x = At(p)
  BY DEF Drawn
<1>3. \A x \in D : T[x] \subseteq Query(e)!Sampled(game)
  BY <1>1, <1>2 DEF Query!Sampled
<1>4. Query(e)!Rands(game, state)
      = {f \in [D -> Query(e)!Sampled(game)] : \A p \in P : f[At(p)] \in Values[game.type[p[1]]]}
  BY DEF Query!Rands, Drawn
<1> HIDE DEF D, T, P, At
<1>5. ASSUME NEW f \in Query(e)!Rands(game, state)
      PROVE  f \in ChoicesFrom(D, T)
  <2>1. f \in [D -> Query(e)!Sampled(game)] /\ \A x \in D : f[x] \in T[x]
    BY <1>1, <1>2, <1>4
  <2> QED
    BY <2>1 DEF ChoicesFrom
<1>6. ASSUME NEW f \in ChoicesFrom(D, T)
      PROVE  f \in Query(e)!Rands(game, state)
  <2>1. f = [x \in D |-> f[x]] /\ \A x \in D : f[x] \in T[x]
    BY DEF ChoicesFrom
  <2>2. f \in [D -> Query(e)!Sampled(game)]
    BY <1>3, <2>1
  <2> QED
    BY <1>1, <1>4, <2>1, <2>2
<1> QED
  BY <1>5, <1>6 DEF D, T

LEMMA DrawnIsFinite ==
  ASSUME NEW e, NEW game, NEW state, IsFiniteSet(game.ids), \A id \in game.ids : game.offsets[id] \in Nat
  PROVE  IsFiniteSet(Drawn(e, game, state))
<1> DEFINE of == [id \in game.ids |-> {id} \X (0..game.offsets[id] - 1)]
           at == [p \in Query(e)!Positions(game) |-> Query(e)!At(state, p)]
<1>1. \A id \in game.ids : IsFiniteSet(of[id])
  <2> SUFFICES ASSUME NEW id \in game.ids PROVE IsFiniteSet({id} \X (0..game.offsets[id] - 1))
    OBVIOUS
  <2>1. IsFiniteSet({id}) /\ IsFiniteSet(0..game.offsets[id] - 1)
    <3>1. 0 \in Int /\ game.offsets[id] - 1 \in Int
      OBVIOUS
    <3>2. IsFiniteSet(0..game.offsets[id] - 1)
      BY <3>1, FS_Interval
    <3> QED
      BY <3>2, FS_Singleton
  <2> QED
    BY <2>1, FS_Product
<1>2. Query(e)!Positions(game) = UNION {of[id] : id \in game.ids}
  BY DEF Query!Positions
<1>3. IsFiniteSet({of[id] : id \in game.ids}) /\ \A s \in {of[id] : id \in game.ids} : IsFiniteSet(s)
  <2> HIDE DEF of
  <2> QED
    BY <1>1, FiniteImage
<1> HIDE DEF of
<1>4. IsFiniteSet(Query(e)!Positions(game))
  BY <1>2, <1>3, FS_UNION
<1>5. Drawn(e, game, state) = {at[p] : p \in Query(e)!Positions(game)}
  BY DEF Drawn
<1> HIDE DEF at
<1> QED
  BY <1>4, <1>5, FiniteImage

(* The draws that the randomness mapping relates in a call.                *)
Related(e, l, r, arg) ==
  {<<Query(e)!At(l, <<c[1], c[3]>>), Query(e)!At(r, <<c[2], c[4]>>)>> :
     c \in Query(e)!Candidates \cap Query(e)!RandomnessMapping(l.pkg, r.pkg, arg)}

LEMMA MappingMatches ==
  ASSUME NEW e, Query(e)!MappingInjective,
         NEW l, NEW r, l.pkg \in e.left.states, r.pkg \in e.right.states,
         \A id \in e.left.ids : l.ctr[id] \in Nat, \A id \in e.right.ids : r.ctr[id] \in Nat, NEW arg \in Arg
  PROVE  LET M == Related(e, l, r, arg)
         IN  /\ Matches(Drawn(e, e.left, l), SortsOf(e, e.left, l), Drawn(e, e.right, r), SortsOf(e, e.right, r), M)
             /\ \A m, n \in M : m[1] = n[1] => m[2] = n[2]
<1> DEFINE C == Query(e)!Candidates \cap Query(e)!RandomnessMapping(l.pkg, r.pkg, arg)
           M == Related(e, l, r, arg)
           D == Drawn(e, e.left, l)
           E == Drawn(e, e.right, r)
           lt(c) == <<c[1], c[3]>>
           rt(c) == <<c[2], c[4]>>
           al(c) == Query(e)!At(l, lt(c))
           ar(c) == Query(e)!At(r, rt(c))
<1>1. ASSUME NEW c \in C
      PROVE  /\ lt(c) \in Query(e)!Positions(e.left) /\ rt(c) \in Query(e)!Positions(e.right)
             /\ c[1] \in e.left.ids /\ c[2] \in e.right.ids /\ c[3] \in Int /\ c[4] \in Int
             /\ e.left.type[c[1]] = e.right.type[c[2]]
  <2>1. PICK p \in Query(e)!Positions(e.left), q \in Query(e)!Positions(e.right) :
          c = <<p[1], q[1], p[2], q[2]>>
    BY DEF Query!Candidates
  <2>2. e.left.type[c[1]] = e.right.type[c[2]]
    BY DEF Query!Candidates
  <2>3. lt(c) = p /\ rt(c) = q
    BY <2>1, PositionParts
  <2> QED
    BY <2>1, <2>2, <2>3, PositionParts
<1>2. ASSUME NEW c \in C
      PROVE  /\ al(c) = <<c[1], l.ctr[c[1]] + c[3]>> /\ al(c) \in D
             /\ ar(c) = <<c[2], r.ctr[c[2]] + c[4]>> /\ ar(c) \in E
  BY <1>1 DEF Query!At, Drawn
<1>3. ASSUME NEW c \in C, NEW d \in C
      PROVE  (lt(c) = lt(d)) <=> (rt(c) = rt(d))
  <2>1. c \in Query(e)!RandomnessMapping(l.pkg, r.pkg, arg) /\ d \in Query(e)!RandomnessMapping(l.pkg, r.pkg, arg)
    OBVIOUS
  <2> HIDE DEF C
  <2>2. rt(c) = rt(d) => lt(c) = lt(d)
    BY <2>1 DEF Query!MappingInjective, Query!Injective, Query!OnLeft, Query!OnRight
  <2>3. lt(c) = lt(d) => rt(c) = rt(d)
    BY <2>1 DEF Query!MappingInjective, Query!Injective, Query!OnLeft, Query!OnRight
  <2> QED
    BY <2>2, <2>3
<1>4. ASSUME NEW c \in C, NEW d \in C
      PROVE  (al(c) = al(d) => lt(c) = lt(d)) /\ (ar(c) = ar(d) => rt(c) = rt(d))
  <2>1. \A i \in Nat : \A j, k \in Int : i + j = i + k => j = k
    OBVIOUS
  <2>2. l.ctr[c[1]] \in Nat /\ r.ctr[c[2]] \in Nat /\ c[3] \in Int /\ c[4] \in Int /\ d[3] \in Int /\ d[4] \in Int
    BY <1>1
  <2>3. /\ al(c) = <<c[1], l.ctr[c[1]] + c[3]>> /\ al(d) = <<d[1], l.ctr[d[1]] + d[3]>>
        /\ ar(c) = <<c[2], r.ctr[c[2]] + c[4]>> /\ ar(d) = <<d[2], r.ctr[d[2]] + d[4]>>
    BY <1>2
  <2> HIDE DEF al, ar, C
  <2>4. al(c) = al(d) => c[1] = d[1] /\ l.ctr[c[1]] + c[3] = l.ctr[c[1]] + d[3]
    BY <2>3
  <2>5. ar(c) = ar(d) => c[2] = d[2] /\ r.ctr[c[2]] + c[4] = r.ctr[c[2]] + d[4]
    BY <2>3
  <2> QED
    BY <2>1, <2>2, <2>4, <2>5
<1>5. \A m \in M : \E c \in C : m = <<al(c), ar(c)>>
  BY DEF Related
<1>6. ASSUME NEW c \in C
      PROVE  SortsOf(e, e.left, l)[al(c)] = SortsOf(e, e.right, r)[ar(c)]
  <2>1. al(c)[1] = c[1] /\ ar(c)[1] = c[2] /\ al(c) \in D /\ ar(c) \in E
    BY <1>2
  <2>2. e.left.type[c[1]] = e.right.type[c[2]]
    BY <1>1
  <2> HIDE DEF C, al, ar
  <2> QED
    BY <2>1, <2>2 DEF SortsOf
<1> HIDE DEF al, ar, lt, rt, C, D, E, M
<1>7. M \subseteq D \X E
  BY <1>2, <1>5
<1>8. \A m \in M : SortsOf(e, e.left, l)[m[1]] = SortsOf(e, e.right, r)[m[2]]
  BY <1>5, <1>6
<1>9. ASSUME NEW m \in M, NEW n \in M
      PROVE  (m[1] = n[1]) <=> (m[2] = n[2])
  <2>1. PICK c \in C : m = <<al(c), ar(c)>>
    BY <1>5
  <2>2. PICK d \in C : n = <<al(d), ar(d)>>
    BY <1>5
  <2>3. (lt(c) = lt(d)) <=> (rt(c) = rt(d))
    BY <1>3
  <2>4. (al(c) = al(d) => lt(c) = lt(d)) /\ (ar(c) = ar(d) => rt(c) = rt(d))
    BY <1>4
  <2>5. (lt(c) = lt(d) => al(c) = al(d)) /\ (rt(c) = rt(d) => ar(c) = ar(d))
    BY DEF al, ar
  <2> QED
    BY <2>1, <2>2, <2>3, <2>4, <2>5
<1> QED
  BY <1>7, <1>8, <1>9 DEF Matches, M, D, E

(* The counters of the two games are numbers.                              *)
CountersOf(game, state) == \A id \in game.ids : state.ctr[id] \in Nat

CtrInv == CountersOf(eq.left, left) /\ CountersOf(eq.right, right)

LEMMA CallCounts ==
  ASSUME NEW e, NEW game, Closed(e, game), NEW state, state.pkg \in game.states, CountersOf(game, state),
         NEW arg \in Arg, NEW rand \in Query(e)!Rands(game, state)
  PROVE  CountersOf(game, Query(e)!Oracle(game, state, arg, rand).state)
<1> DEFINE draws == [p \in Query(e)!Positions(game) |-> rand[Query(e)!At(state, p)]]
<1>1. draws \in [Query(e)!Positions(game) -> Query(e)!Sampled(game)]
  BY DEF Query!Rands
<1>2. \A id \in game.ids : game.oracle[<<state.pkg, arg, draws>>].drawn[id] \in Nat
  BY <1>1 DEF Closed
<1> QED
  BY <1>2 DEF Query!Oracle, CountersOf

LEMMA CountersAreNumbers == ClaimsSpec => []CtrInv
<1>1. ClaimsInit => CtrInv
  BY DEF ClaimsInit, CtrInv, CountersOf, Query!InitialState, Query!OldState
<1>2. GameInv /\ CtrInv /\ [ClaimsNext]_claimVars => CtrInv'
  <2> SUFFICES ASSUME GameInv, CtrInv, [ClaimsNext]_claimVars PROVE CtrInv'
    OBVIOUS
  <2>1. CASE UNCHANGED <<world, left, right>>
    BY <2>1 DEF CtrInv, CountersOf, eq
  <2>2. CASE Play
    <3>1. PICK arg \in Arg, randL \in Query(eq)!Rands(eq.left, left), randR \in Query(eq)!Rands(eq.right, right) :
            Call(arg, randL, randR)
      BY <2>2 DEF Play
    <3> DEFINE l == Query(eq)!Oracle(eq.left, left, arg, randL)
               r == Query(eq)!Oracle(eq.right, right, arg, randR)
    <3>2. /\ world' = world
          /\ left' = IF l.value = Abort THEN left ELSE l.state
          /\ right' = IF r.value = Abort THEN right ELSE r.state
      BY <3>1 DEF Call
    <3>3. Closed(eq, eq.left) /\ Closed(eq, eq.right)
      BY WorldAssumption DEF GameInv, eq
    <3>4. CountersOf(eq.left, l.state)
      BY <3>3, CallCounts DEF GameInv, CtrInv
    <3>5. CountersOf(eq.right, r.state)
      BY <3>3, CallCounts DEF GameInv, CtrInv
    <3> HIDE DEF l, r
    <3> QED
      BY <3>2, <3>4, <3>5 DEF CtrInv, CountersOf, eq
  <2> QED
    BY <2>1, <2>2 DEF ClaimsNext, CheckInduction, Verify, claimVars, gameVars
<1> QED
  BY <1>1, <1>2, GameInvariant, PTL DEF ClaimsSpec

(* The coupling is one of two fair games: every choice of random values on *)
(* either side goes with the same number of choices on the other, whatever *)
(* the sorts, the sample ids and the counters are                          *)
(* (emit_randomness_mapping_injectivity_check).                            *)
THEOREM CouplingsAreFair == ClaimsSpec => []CouplingIsFair
<1>1. GameInv /\ CtrInv => CouplingIsFair
  <2> SUFFICES ASSUME GameInv, CtrInv, result = "verified", NEW arg \in Arg
               PROVE  LET onLeft  == Query(eq)!Rands(eq.left, left)
                          onRight == Query(eq)!Rands(eq.right, right)
                          pairs   == { p \in onLeft \X onRight : Query(eq)!Coupled(left, right, arg, p[1], p[2]) }
                      IN  /\ \A a \in onLeft : Cardinality({ p \in pairs : p[1] = a }) * Cardinality(onLeft) = Cardinality(pairs)
                          /\ \A b \in onRight : Cardinality({ p \in pairs : p[2] = b }) * Cardinality(onRight) = Cardinality(pairs)
                          /\ pairs # {}
    BY DEF CouplingIsFair
  <2> DEFINE D == Drawn(eq, eq.left, left)
             E == Drawn(eq, eq.right, right)
             T == SortsOf(eq, eq.left, left)
             U == SortsOf(eq, eq.right, right)
             M == Related(eq, left, right, arg)
             onLeft  == Query(eq)!Rands(eq.left, left)
             onRight == Query(eq)!Rands(eq.right, right)
             pairs   == { p \in onLeft \X onRight : Query(eq)!Coupled(left, right, arg, p[1], p[2]) }
  <2>1. /\ world \in DOMAIN World /\ eq = World[world]
        /\ left.pkg \in eq.left.states /\ right.pkg \in eq.right.states /\ Query(eq)!MappingInjective
    BY DEF GameInv, eq, Query!Proved
  <2>2. Closed(eq, eq.left) /\ Closed(eq, eq.right)
    BY <2>1, WorldAssumption
  <2>3. ASSUME NEW game \in {eq.left, eq.right}, NEW state
        PROVE  Choosable(Drawn(eq, game, state), SortsOf(eq, game, state))
    <3>1. IsFiniteSet(Drawn(eq, game, state))
      BY <2>2, DrawnIsFinite DEF Closed
    <3>2. \A id \in game.ids : IsFiniteSet(Values[game.type[id]]) /\ Values[game.type[id]] # {}
      BY <2>1, SortsAssumption
    <3>3. \A x \in Drawn(eq, game, state) : x[1] \in game.ids
      BY PositionParts DEF Drawn, Query!At
    <3> QED
      BY <3>1, <3>2, <3>3 DEF Choosable, SortsOf
  <2>4. Choosable(D, T) /\ Choosable(E, U)
    BY <2>3
  <2>5. Matches(D, T, E, U, M) /\ \A m, n \in M : m[1] = n[1] => m[2] = n[2]
    BY <2>1, MappingMatches DEF CtrInv, CountersOf
  <2>6. onLeft = ChoicesFrom(D, T) /\ onRight = ChoicesFrom(E, U)
    BY RandsAreChoices
  <2>7. pairs = Agreeing(onLeft, onRight, M)
    <3>1. \A a, b : Query(eq)!Coupled(left, right, arg, a, b) <=> \A m \in M : a[m[1]] = b[m[2]]
      <4> DEFINE C == Query(eq)!Candidates \cap Query(eq)!RandomnessMapping(left.pkg, right.pkg, arg)
                 al(c) == Query(eq)!At(left, <<c[1], c[3]>>)
                 ar(c) == Query(eq)!At(right, <<c[2], c[4]>>)
      <4>1. M = {<<al(c), ar(c)>> : c \in C}
        BY DEF Related
      <4>2. \A a, b : Query(eq)!Coupled(left, right, arg, a, b) <=> \A c \in C : a[al(c)] = b[ar(c)]
        BY DEF Query!Coupled
      <4> HIDE DEF M, C, al, ar
      <4>3. \A c \in C : <<al(c), ar(c)>> \in M
        BY <4>1
      <4>4. \A m \in M : \E c \in C : m[1] = al(c) /\ m[2] = ar(c)
        BY <4>1
      <4>5. ASSUME NEW a, NEW b, \A m \in M : a[m[1]] = b[m[2]], NEW c \in C
            PROVE  a[al(c)] = b[ar(c)]
        <5>1. a[<<al(c), ar(c)>>[1]] = b[<<al(c), ar(c)>>[2]]
          BY <4>3, <4>5
        <5> QED
          BY <5>1
      <4> QED
        BY <4>2, <4>4, <4>5
    <3> HIDE DEF M, onLeft, onRight
    <3> QED
      BY <3>1 DEF Agreeing
  <2> HIDE DEF D, E, T, U, M, onLeft, onRight, pairs
  <2>8. /\ pairs # {}
        /\ \A a \in onLeft : Cardinality({p \in pairs : p[1] = a}) * Cardinality(onLeft) = Cardinality(pairs)
        /\ \A b \in onRight : Cardinality({p \in pairs : p[2] = b}) * Cardinality(onRight) = Cardinality(pairs)
    BY <2>4, <2>5, <2>6, <2>7, MatchedBothWays
  <2> QED
    BY <2>8 DEF onLeft, onRight, pairs
<1> QED
  BY <1>1, GameInvariant, CountersAreNumbers, PTL

=============================================================================
