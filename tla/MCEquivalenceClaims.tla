------------------------ MODULE MCEquivalenceClaims ------------------------
(* Instance of EquivalenceClaims.  A pair of games that agree on nothing   *)
(* comes with every lemma block of up to three lines over the four         *)
(* built-in names and two lemmas, each line with at most one dependency,   *)
(* so that chains, cycles and restated defaults all occur.  Pairs of small *)
(* games come with a few useful lines, with good and bad invariants and    *)
(* with every mapping of up to two pairs of draws.                         *)
EXTENDS EquivalenceClaims, FiniteSetsExt

MCName == {"equal-aborts", "no-abort", "invariant", "same-output", "lemma1", "lemma2"}
MCRelations == {}
MCInvariants == {"invariant"}

SmallDeps == kSubset(0, MCName) \cup kSubset(1, MCName)
AllLines ==
  [name : MCName, deps : SmallDeps, admitted : {FALSE}]
  \cup [name : MCName, deps : {{}, {"lemma2"}}, admitted : {TRUE}]

Line(name, deps) == [name |-> name, deps |-> deps, admitted |-> FALSE]
UsefulLines ==
  { Line("lemma1", {}), [Line("lemma1", {}) EXCEPT !.admitted = TRUE],
    Line("same-output", {"no-abort", "lemma1"}), Line("invariant", {"no-abort", "lemma1"}),
    Line("same-output", {"no-abort", "invariant"}) }

MCLines == AllLines \cup UsefulLines

MCArg == {0, 1}
MCValues == [bit |-> {0, 1}, key |-> {0, 1}]

-----------------------------------------------------------------------------
(* A game whose oracle is F(state, argument, draws). *)
Unset == 9
States == {Unset, 0, 1}
Game(type, offsets, F(_, _, _)) ==
  LET ids == DOMAIN type
      positions == UNION { {id} \X (0..offsets[id] - 1) : id \in ids }
  IN  [ids |-> ids, type |-> type, offsets |-> offsets, states |-> States, init |-> Unset,
       oracle |-> [x \in States \X MCArg \X [positions -> {0, 1}] |-> F(x[1], x[2], x[3])]]

NoIds == [id \in {} |-> 0]
K(n) == [id \in {"k"} |-> n]
KJ(k, j) == [id \in {"k", "j"} |-> IF id = "k" THEN k ELSE j]
Gives(pkg, value, drawn) == [pkg |-> pkg, value |-> value, drawn |-> drawn]

(* A constant; one that is constant once only; one that starts constant    *)
(* and would not be from other states.                                     *)
One   == Game(NoIds, NoIds, LAMBDA s, a, d : Gives(s, 1, NoIds))
Decay == Game(NoIds, NoIds, LAMBDA s, a, d : Gives(0, IF s = Unset THEN 1 ELSE 0, NoIds))
Stay  == Game(NoIds, NoIds, LAMBDA s, a, d : Gives(s, IF s = Unset THEN 1 ELSE 0, NoIds))

(* A fresh value for each call; the second of two draws; the second of two *)
(* sample ids; a fresh value of another sort.                              *)
Fresh == Game(K("bit"), K(1), LAMBDA s, a, d : Gives(s, d[<<"k", 0>>], K(1)))
Twice == Game(K("bit"), K(2), LAMBDA s, a, d : Gives(s, d[<<"k", 1>>], K(2)))
Other == Game(KJ("bit", "bit"), KJ(1, 1), LAMBDA s, a, d : Gives(s, d[<<"j", 0>>], KJ(1, 1)))
Typed == Game(K("key"), K(1), LAMBDA s, a, d : Gives(s, d[<<"k", 0>>], K(1)))

(* Whether two draws are equal: always, if they are coupled to one.        *)
Match == Game(K("bit"), K(2), LAMBDA s, a, d :
  Gives(s, IF d[<<"k", 0>>] = d[<<"k", 1>>] THEN 1 ELSE 0, K(2)))

(* A value sampled at the first call; the same with a refusal while there  *)
(* is none; one answer and then aborts, with and without the value kept.   *)
Lazy  == Game(K("bit"), K(1), LAMBDA s, a, d :
  IF s = Unset THEN Gives(d[<<"k", 0>>], d[<<"k", 0>>], K(1)) ELSE Gives(s, s, K(0)))
Guard == Game(K("bit"), K(1), LAMBDA s, a, d :
  IF s # Unset THEN Gives(s, s, K(0))
  ELSE IF a = 1 THEN Gives(0, Abort, K(0)) ELSE Gives(d[<<"k", 0>>], d[<<"k", 0>>], K(1)))
Once  == Game(K("bit"), K(1), LAMBDA s, a, d :
  IF s = Unset THEN Gives(d[<<"k", 0>>], d[<<"k", 0>>], K(1)) ELSE Gives(s, Abort, K(0)))
Drop  == Game(K("bit"), K(1), LAMBDA s, a, d :
  IF s = Unset THEN Gives(0, d[<<"k", 0>>], K(1)) ELSE Gives(s, Abort, K(0)))

Games ==
  [One |-> One, Decay |-> Decay, Stay |-> Stay, Fresh |-> Fresh, Twice |-> Twice, Other |-> Other, Typed |-> Typed,
   Match |-> Match, Lazy |-> Lazy, Guard |-> Guard, Once |-> Once, Drop |-> Drop]

Pairs ==
  { <<"One", "Decay">>, <<"One", "Stay">>, <<"Decay", "One">>, <<"One", "Match">>, <<"Match", "One">>,
    <<"Fresh", "Fresh">>, <<"Fresh", "Twice">>, <<"Twice", "Fresh">>, <<"Twice", "Match">>, <<"Fresh", "Other">>, <<"Fresh", "Typed">>,
    <<"Lazy", "Lazy">>, <<"Lazy", "Fresh">>, <<"Guard", "Guard">>, <<"Lazy", "Guard">>, <<"Once", "Drop">>, <<"Drop", "Once">> }

-----------------------------------------------------------------------------
EqualStates == { p \in States \X States : p[1] = p[2] }
BothUnset   == { p \in States \X States : (p[1] = Unset) = (p[2] = Unset) }
AnyStates   == States \X States

Mapped(game) == UNION { {id} \X (0..game.offsets[id] - 1) : id \in game.ids }
Entries(l, r) == { <<p[1], q[1], p[2], q[2]>> : p \in Mapped(l), q \in Mapped(r) }
Relations(l, r) == UNION { kSubset(n, Entries(l, r)) : n \in 0..2 }
Everywhere(relation) == [x \in States \X States \X MCArg |-> relation]
AtFirst(relation) == [x \in States \X States \X MCArg |-> IF x[1] = Unset THEN relation ELSE {}]

(* A randomness mapping: the mode, and the pairs of draws, related in      *)
(* every state or in the initial one only.                                 *)
Randomness(l, r) ==
  { <<"simple", FALSE, {}>>, <<"none", FALSE, {}>> }
  \cup { <<"custom", FALSE, rel>> : rel \in Relations(l, r) }
  \cup { <<"custom", TRUE, rel>> : rel \in kSubset(1, Entries(l, r)) }
Mapping(rand) == IF rand[2] THEN AtFirst(rand[3]) ELSE Everywhere(rand[3])

(* The lemma of the user says that the returned states are equal. *)
ReturnedStates == { p \in ({0, 1, Unset} \X {0, 1, Abort}) \X ({0, 1, Unset} \X {0, 1, Abort}) : p[1][1] = p[2][1] }
Lemmas == [name \in {"lemma1", "lemma2"} |->
  { <<s, t, p[1], p[2], a>> : s \in States, t \in States, p \in ReturnedStates, a \in MCArg }]
NoLemmas == [name \in {"lemma1", "lemma2"} |-> {}]

Invariants == [equal |-> EqualStates, unset |-> BothUnset, any |-> AnyStates]
OfLeft == [any |-> States, unset |-> {Unset}]

Hopeless ==
  [left |-> One, right |-> Fresh, states |-> [name \in {"invariant"} |-> {}],
   leftInvariant |-> States, rightInvariant |-> States, randomness |-> "none", mapping |-> Everywhere({}),
   lemmas |-> NoLemmas, lines |-> AllLines]

Useful(w) ==
  [left |-> Games[w[1][1]], right |-> Games[w[1][2]], states |-> [name \in {"invariant"} |-> Invariants[w[2]]],
   leftInvariant |-> OfLeft[w[3]], rightInvariant |-> States, randomness |-> w[4][1], mapping |-> Mapping(w[4]),
   lemmas |-> Lemmas, lines |-> UsefulLines]

NoWorld == <<<<"One", "Fresh">>, "any", "any", <<"none", FALSE, {}>>>>

(* What a package says of its state matters to the constant games only.    *)
Sides(pair) == IF pair[1] \in {"One", "Decay", "Stay"} THEN {"any", "unset"} ELSE {"any"}

Worlds ==
  UNION { {pair} \X (DOMAIN Invariants) \X Sides(pair) \X Randomness(Games[pair[1]], Games[pair[2]]) : pair \in Pairs }

MCWorld == [w \in {NoWorld} \cup Worlds |-> IF w = NoWorld THEN Hopeless ELSE Useful(w)]
=============================================================================
