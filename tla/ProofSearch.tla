---------------------------- MODULE ProofSearch ----------------------------
(***************************************************************************)
(* The search for a sequence of game hops that proves a proposition        *)
(* (src/proof.rs): breadth first, over game instances that are specialised *)
(* on the way so that a hop between two parameterised instances can be     *)
(* used for the instances at hand.                                         *)
(*                                                                         *)
(* An instance is a game with a value for each of its constants: a literal *)
(* or a constant of the theorem, which stands for every value.             *)
(***************************************************************************)
EXTENDS Integers, Sequences, FiniteSets, TLC

CONSTANTS
  Params,     (* number of constants of each game                          *)
  Literals,   (* literal values                                            *)
  Consts,     (* constants of the theorem                                  *)
  Loop,       (* hybrid$loop, the index of a hybrid argument               *)
  Theorems    (* the theorems considered                                   *)

Value == Literals \cup Consts \cup {Loop}
Instance == [game : STRING, consts : [1..Params -> Value]]

(* Instances in the order of the file, hops between them, by position, and *)
(* the two sides of the proposition.                                       *)
Theorem ==
  { t \in [instances : Seq(Instance),
           hops : Seq([left : Nat, right : Nat, hybrid : BOOLEAN]),
           left : Nat, right : Nat] :
      LET Names == DOMAIN t.instances
      IN  /\ t.left \in Names /\ t.right \in Names
          /\ \A h \in DOMAIN t.hops : t.hops[h].left \in Names /\ t.hops[h].right \in Names
          /\ \A i, j \in Names :
               t.instances[i].game = t.instances[j].game =>
                 DOMAIN t.instances[i].consts = DOMAIN t.instances[j].consts }

ASSUME SearchAssumption ==
  /\ Params \in Nat
  /\ IsFiniteSet(Literals) /\ IsFiniteSet(Consts)
  /\ Literals \cap (Consts \cup {Loop}) = {} /\ Loop \notin Consts
  /\ Theorems \subseteq Theorem

IsLiteral(val) == val \in Literals
IsConst(val) == val \in Consts \cup {Loop}

-----------------------------------------------------------------------------
(* Faulty variant: one constant may stand for different literals. *)
CompatibleEach(specific, general) ==
  /\ specific.game = general.game
  /\ \A p \in 1..Params :
       LET s == specific.consts[p] g == general.consts[p]
       IN  \/ s = g
           \/ IsConst(s) /\ g = Loop
           \/ IsLiteral(s) /\ IsConst(g)

(* game_is_compatible: the first is a specialisation of the second.  The   *)
(* index of a hybrid argument is not held to one value.                    *)
Compatible(specific, general) ==
  /\ specific.game = general.game
  /\ \A p \in 1..Params :
       LET s == specific.consts[p] g == general.consts[p]
       IN  \/ s = g
           \/ IsConst(s) /\ g = Loop
           \/ /\ IsLiteral(s) /\ IsConst(g)
              /\ g # Loop => \A q \in 1..Params :
                               general.consts[q] = g /\ IsLiteral(specific.consts[q]) =>
                                 specific.consts[q] = s

Equivalent(lhs, rhs) == Compatible(lhs, rhs) /\ Compatible(rhs, lhs)

(* The constants with a literal in the more special instance (assignments) *)
(* and the literal, which is the first one found for it.                   *)
Assigned(specific, general) ==
  {p \in 1..Params : IsConst(general.consts[p]) /\ IsLiteral(specific.consts[p])}

Assignment(specific, general, const) ==
  LET at == {p \in Assigned(specific, general) : general.consts[p] = const}
  IN  specific.consts[CHOOSE p \in at : \A q \in at : p <= q]

(* Faulty variant: the other side is taken as it stands in the file. *)
TransferNothing(specific, match, other) == other

(* The other side of a hop, with what is known from this side. *)
Transfer(specific, match, other) ==
  [other EXCEPT !.consts =
     [p \in 1..Params |->
        IF \E q \in Assigned(specific, match) : match.consts[q] = other.consts[p]
        THEN Assignment(specific, match, other.consts[p])
        ELSE other.consts[p]]]

-----------------------------------------------------------------------------
VARIABLES
  theorem,         (* the instances, the hops and the proposition          *)
  specialization,  (* the instances met, those of the theorem first        *)
  workque,         (* positions in specialization that are to be visited   *)
  predecessors,    (* backlinks: position -> <<position, hop>>             *)
  current,         (* the position visited                                 *)
  hop,             (* the next hop to try from it                          *)
  path,            (* the proof, built from its end: positions             *)
  hops,            (* and the hop before each of them                      *)
  pc               (* "start", "visit", "expand", "trace"; "proof", "none" *)
                   (* or "panic"                                           *)

search == <<specialization, workque, predecessors, current, hop>>
vars == <<theorem, search, path, hops, pc>>

Positions == DOMAIN specialization
Hop(h) == theorem.hops[h]
Given(i) == theorem.instances[i]

Init ==
  /\ theorem \in Theorems
  /\ specialization = theorem.instances
  /\ workque = <<theorem.left>>
  /\ predecessors = <<>>
  /\ current = theorem.left
  /\ hop = 1
  /\ path = <<>> /\ hops = <<>>
  /\ pc = "start"

(* A proposition about equal instances needs no hop. *)
Start ==
  /\ pc = "start"
  /\ IF Equivalent(Given(theorem.left), Given(theorem.right))
     THEN pc' = "proof" /\ path' = <<theorem.left>>
     ELSE pc' = "visit" /\ UNCHANGED path
  /\ UNCHANGED <<theorem, search, hops>>

(* The backlinks with one for i, unless it has one.                        *)
Backlinked(i, link) ==
  [j \in DOMAIN predecessors \cup {i} |->
     IF j \in DOMAIN predecessors THEN predecessors[j] ELSE link]

(* The target is reached when it is a specialisation of the instance at    *)
(* hand; unless it has been met itself, it takes over that one's backlink, *)
(* and the start has none.                                                 *)
Visit ==
  /\ pc = "visit" /\ workque # <<>>
  /\ current' = Head(workque)
  /\ workque' = Tail(workque)
  /\ hop' = 1
  /\ IF Compatible(Given(theorem.right), specialization[current'])
     THEN /\ path' = <<theorem.right>>
          /\ \/ /\ current' \in DOMAIN predecessors
                /\ predecessors' = Backlinked(theorem.right, predecessors[current'])
                /\ pc' = "trace"
             \/ /\ current' \notin DOMAIN predecessors
                /\ pc' = IF theorem.right \in DOMAIN predecessors THEN "trace" ELSE "panic"
                /\ UNCHANGED predecessors
     ELSE pc' = "expand" /\ UNCHANGED <<predecessors, path>>
  /\ UNCHANGED <<theorem, specialization, hops>>

Exhausted ==
  /\ pc = "visit" /\ workque = <<>>
  /\ pc' = "none"
  /\ UNCHANGED <<theorem, search, path, hops>>

(* Faulty variant: hops only lead from left to right. *)
ReachedForwards(instance, h) ==
  LET left == Given(Hop(h).left) right == Given(Hop(h).right)
  IN  IF Compatible(instance, left) THEN {Transfer(instance, left, right)}
      ELSE {}

(* other_game: a hop is used from the side that matches, its left first.   *)
Reached(instance, h) ==
  LET left == Given(Hop(h).left) right == Given(Hop(h).right)
  IN  IF Compatible(instance, left) THEN {Transfer(instance, left, right)}
      ELSE IF Compatible(instance, right) THEN {Transfer(instance, right, left)}
      ELSE {}

(* The position of an instance, which is new if no equal one was met.      *)
Position(instance) ==
  LET at == {i \in Positions : Equivalent(instance, specialization[i])}
  IN  IF at = {} THEN Len(specialization) + 1
      ELSE CHOOSE i \in at : \A j \in at : i <= j

(* Faulty variant: whatever was met before is visited again. *)
TryHopAgain ==
  /\ pc = "expand" /\ hop <= Len(theorem.hops)
  /\ \/ /\ Reached(specialization[current], hop) = {}
        /\ UNCHANGED <<specialization, workque, predecessors>>
     \/ \E instance \in Reached(specialization[current], hop) :
          LET next == Position(instance)
          IN  /\ specialization' = IF next \in Positions THEN specialization
                                   ELSE Append(specialization, instance)
              /\ workque' = Append(workque, next)
              /\ predecessors' = (next :> <<current, hop>>) @@ predecessors
  /\ hop' = hop + 1
  /\ UNCHANGED <<theorem, current, path, hops, pc>>

(* reachable_games and the loop over what it returns, one hop at a time.   *)
TryHop ==
  /\ pc = "expand" /\ hop <= Len(theorem.hops)
  /\ \/ /\ Reached(specialization[current], hop) = {}
        /\ UNCHANGED <<specialization, workque, predecessors>>
     \/ \E instance \in Reached(specialization[current], hop) :
          LET next == Position(instance)
          IN  /\ specialization' = IF next \in Positions THEN specialization
                                   ELSE Append(specialization, instance)
              /\ workque' = IF next \in DOMAIN predecessors THEN workque
                            ELSE Append(workque, next)
              /\ predecessors' = Backlinked(next, <<current, hop>>)
  /\ hop' = hop + 1
  /\ UNCHANGED <<theorem, current, path, hops, pc>>

Expanded ==
  /\ pc = "expand" /\ hop > Len(theorem.hops)
  /\ pc' = "visit"
  /\ UNCHANGED <<theorem, search, path, hops>>

(* The backlinks are followed from the target to the start. *)
Trace ==
  /\ pc = "trace"
  /\ LET link == predecessors[Head(path)]
     IN  /\ path' = <<link[1]>> \o path
         /\ hops' = <<link[2]>> \o hops
         /\ pc' = IF link[1] = theorem.left THEN "proof" ELSE "trace"
  /\ UNCHANGED <<theorem, search>>

Next == Start \/ Visit \/ Exhausted \/ TryHop \/ Expanded \/ Trace

Spec == Init /\ [][Next]_vars
FairSpec == Spec /\ WF_vars(Next)

-----------------------------------------------------------------------------
(* What the hops say: for every value of the theorem's constants, the two  *)
(* instances of a hop are indistinguishable; a hybrid argument says it of  *)
(* any two indices.                                                        *)
Valuation == [Consts \cup {Loop} -> Literals]

Concrete(instance, v) ==
  [instance EXCEPT !.consts =
     [p \in 1..Params |-> IF IsConst(@[p]) THEN v[@[p]] ELSE @[p]]]

Agreeing(h) ==
  { vw \in Valuation \X Valuation : /\ \A c \in Consts : vw[1][c] = vw[2][c]
                                    /\ ~Hop(h).hybrid => vw[1] = vw[2] }

Meant(h) ==
  { <<Concrete(Given(Hop(h).left), vw[1]), Concrete(Given(Hop(h).right), vw[2])>> : vw \in Agreeing(h) }

Symmetric(r) == r \cup {<<e[2], e[1]>> : e \in r}

Known == Symmetric(UNION {Meant(h) : h \in DOMAIN theorem.hops})

(* What can be reached from an instance in at most n links. *)
Ball(links, instance, n) ==
  LET ball[k \in 0..n] ==
        IF k = 0 THEN {instance}
        ELSE LET inner == ball[k - 1]
             IN  inner \cup {e[2] : e \in {x \in links : x[1] \in inner}}
  IN  ball[n]

(* The proof search only says yes to what the hops imply: it finds "a      *)
(* sequence of game hops that proves that the game instance with name      *)
(* left_name is indistinguishable from the game instance with name         *)
(* right_name" (proof.rs:55), whatever the theorem's constants are.        *)
ProofIsValid ==
  pc = "proof" =>
    LET known == Known
    IN  \A v \in Valuation :
          Concrete(Given(theorem.right), v)
            \in Ball(known, Concrete(Given(theorem.left), v), Cardinality(known))

(* It does so if the search starts from an instance without constants, no  *)
(* hop introduces one and no instance of a hop uses the index of a hybrid  *)
(* for two of its constants: then every instance on the way is without     *)
(* constants, and specialising a hop means the same on both of its sides.  *)
ConstsOf(instance) == {c \in Consts \cup {Loop} : \E p \in 1..Params : instance.consts[p] = c}

IndexOnce(instance) ==
  \A p, q \in 1..Params : instance.consts[p] = Loop /\ instance.consts[q] = Loop => p = q

StartsClosed ==
  /\ ConstsOf(Given(theorem.left)) = {}
  /\ \A h \in DOMAIN theorem.hops :
       /\ ConstsOf(Given(Hop(h).left)) = ConstsOf(Given(Hop(h).right))
       /\ IndexOnce(Given(Hop(h).left)) /\ IndexOnce(Given(Hop(h).right))

ClosedProofIsValid == StartsClosed => ProofIsValid

(* If hops between the instances as they stand in the file already connect *)
(* the two sides, a proof is found, and it is not longer than that.  Where *)
(* one instance is a specialisation of another this is not so: a hop that  *)
(* matches from its left side is never tried from its right.               *)
Unrelated ==
  \A i, j \in DOMAIN theorem.instances : Compatible(Given(i), Given(j)) => Given(i) = Given(j)

FindsShortest ==
  pc \in {"proof", "none"} /\ Unrelated =>
    LET links == Symmetric({<<Given(Hop(h).left), Given(Hop(h).right)>> : h \in DOMAIN theorem.hops})
    IN  \A n \in 0..Len(theorem.hops) :
          Given(theorem.right) \in Ball(links, Given(theorem.left), n) =>
            pc = "proof" /\ Len(hops) <= n

(* The search comes to an end although it creates instances as it goes.    *)
Ends == <>(pc \in {"proof", "none", "panic"})
=============================================================================
