------------------------------- MODULE MCProject -------------------------------
(* The projects of the run: one package with every small expression, one   *)
(* package with every short oracle, three packages with many games, two    *)
(* games with many theorems, and one theorem with many command lines.      *)
EXTENDS ProjectRules

NoProbes == [exprs |-> {}, wants |-> {}]
Input(packages_, games_, theorems_, commands, probes) ==
  [files |-> [packages |-> packages_, games |-> games_, theorems |-> theorems_],
   commands |-> commands, probes |-> probes]
File(name, blocks) == [name |-> name, blocks |-> blocks]
List(b, list) == [b |-> b, list |-> list]
Oracle(name, args, ret, code) ==
  [b |-> "oracle", def |-> [name |-> name, args |-> args, ret |-> ret, code |-> code]]

IntLit(n) == <<"int", n, <<>>>>
TrueLit == <<"bool", TRUE, <<>>>>
NoneLit == <<"none", <<>>, <<>>>>
Op(op, args) == <<op, <<>>, args>>
K == Bits(Named("n"))

-----------------------------------------------------------------------------
(* Expressions. *)
ProbeParams == <<<<"n", Integer>>, <<"f", Fn(<<K>>, Maybe(K))>>, <<"b", Boolean>>>>
ProbeState == <<<<"T", Table(Integer, Maybe(K))>>, <<"c", Maybe(Integer)>>, <<"k", K>>>>
Leaves ==
  {IntLit(1), TrueLit, NoneLit, <<"none", Integer, <<>>>>, <<"bits", <<"0", Named("n")>>, <<>>>>}
  \union {Var(x) : x \in {"n", "f", "b", "T", "c", "k"}}
Unary(S) ==
  {Op(op, <<x>>) : op \in {"some", "unwrap", "not", "tuple"}, x \in S}
  \union {<<"get", "T", <<x>>>> : x \in S} \union {<<"call", "f", <<x>>>> : x \in S}
Binary(S, R) ==
  {Op(op, <<x, y>>) : op \in {"add", "sub", "less", "and", "eq", "tuple"}, x \in S, y \in R}
Depth1 == Leaves \union Unary(Leaves)
Exprs == Depth1 \union Unary(Depth1) \union Unary(Unary(Leaves)) \union Unary(Unary(Unary(Leaves)))
         \union Binary(Depth1, Leaves) \union Binary(Leaves, Depth1)
Wants == {<<>>, <<Integer>>, <<Boolean>>, <<Maybe(Integer)>>, <<K>>, <<Maybe(K)>>, <<Maybe(Maybe(K))>>}
ProbeInputs ==
  {Input(<<File("Probe", <<List("params", ProbeParams), List("state", ProbeState)>>)>>, <<>>, <<>>,
         {NoCommand}, [exprs |-> Exprs, wants |-> Wants])}

-----------------------------------------------------------------------------
(* Oracles. *)
CodeBefore == <<List("params", <<<<"b", Boolean>>>>),
                List("state", <<<<"s", Integer>>, <<"T", Table(Integer, Integer)>>>>),
                List("imports", <<[name |-> "I", args |-> <<<<"a", Integer>>>>, ret |-> <<Integer>>]>>)>>
Set(x, e) == Assign(PIdent(x), Expr(e))
Loop(x, y, body) == For(<<x, y>>, IntLit(1), "<=", "<=", Var("s"), body)
Plain ==
  { Set("x", IntLit(1)), Set("x", TrueLit), Set("s", Var("x")), Set("b", TrueLit), Set("i", Var("x")),
    Set("x", Unwrap(NoneLit)), Set("y", <<"get", "T", <<Var("x")>>>>), Set("y", Op("sub", <<TrueLit, TrueLit>>)),
    Assign(PIdent("x"), SampleOf(Integer)), Assign(PIdent("x"), SampleOf(Maybe(Integer))),
    Assign(PTable("T", IntLit(1)), Expr(Some(Var("x")))), Assign(PTable("T", Var("x")), SampleOf(Integer)),
    Assign(PTuple(<<"x", "y">>), Expr(Tuple(<<IntLit(1), TrueLit>>))), Assign(PTuple(<<"x">>), Expr(IntLit(1))),
    Assign(PIdent("x"), Call("I", <<IntLit(1)>>)), Assign(PIdent("y"), Call("I", <<>>)),
    Invoke("I", <<Var("x")>>), Invoke("I", <<IntLit(1), IntLit(1)>>), AssertStmt(Op("eq", <<Var("x"), IntLit(1)>>)),
    Abort, Return(Var("x")), ReturnNone }
Nested ==
  { If(Var("b"), <<Set("x", IntLit(1))>>, <<Set("x", IntLit(2))>>), If(Var("b"), <<Set("x", IntLit(1))>>, <<Abort>>),
    If(Var("b"), <<Set("x", IntLit(1))>>, <<>>), If(Var("x"), <<>>, <<>>),
    If(Var("b"), <<Return(IntLit(1))>>, <<>>), If(Var("b"), <<Return(IntLit(1))>>, <<Set("x", IntLit(1)), Return(Var("x"))>>),
    Loop("i", "i", <<Set("x", Var("i"))>>), Loop("i", "i", <<Set("s", Var("x")), Set("x", Var("i"))>>),
    Loop("i", "j", <<>>), Loop("x", "x", <<If(Var("b"), <<Return(Var("x"))>>, <<Abort>>)>>) }
Bodies ==
  {<<s>> : s \in Plain \union Nested} \union {<<s, t>> : s, t \in Plain \union Nested}
  \union {<<s, t, u>> : s \in Nested \union {Set("x", IntLit(1))}, t \in Plain \union Nested,
                        u \in {Return(Var("x")), If(Var("b"), <<Return(Var("x"))>>, <<ReturnNone>>)}}
Valueless == {<<Set("x", e), t>> : e \in {IntLit(1), TrueLit, Some(IntLit(1))}, t \in Plain \union Nested}
CodePackages ==
  {File("Code", CodeBefore \o <<Oracle("O", <<>>, <<>>, body)>>) : body \in Valueless} \union
  {File("Code", CodeBefore \o <<Oracle("O", <<>>, <<Integer>>, body)>>) : body \in Bodies}
  \union
  {File("Code", Append(CodeBefore \o <<Oracle("O", <<<<arg, Integer>>>>, <<>>, <<Set("x", Var(arg))>>)>>, after)) :
      arg \in {"a", "b", "I", "x"},
      after \in {List("state", <<<<"x", Boolean>>>>), List("params", <<<<"n", Integer>>, <<"s", Boolean>>>>),
                 List("types", <<"U">>), List("imports", <<[name |-> "J", args |-> <<>>, ret |-> <<>>]>>),
                 List("imports", <<[name |-> "I", args |-> <<>>, ret |-> <<>>]>>),
                 List("imports", <<[name |-> "s", args |-> <<>>, ret |-> <<>>]>>),
                 List("state", <<<<"u", UserType("U")>>>>), List("state", <<<<"l", ListOf(Integer)>>>>),
                 Oracle("O", <<>>, <<Integer>>, <<Return(IntLit(1))>>)}}
CodeInputs ==
  {Input(<<p>>, <<>>, <<>>, {NoCommand}, NoProbes) : p \in CodePackages}
  \union {Input(<<File("Code", CodeBefore), File(other, CodeBefore)>>, <<>>, <<>>, {NoCommand}, NoProbes)
            : other \in {"Code", "Other"}}

-----------------------------------------------------------------------------
(* Games: a key package and a protocol that gets the key, over the lengths *)
(* n and m of the game; and packages with functions and with named types.  *)
Sig(name, args, ret) == [name |-> name, args |-> args, ret |-> ret]
Key ==
  File("Key", <<List("params", <<<<"n", Integer>>>>), List("state", <<<<"k", Maybe(K)>>>>),
                Oracle("GET", <<>>, <<K>>, <<Return(Unwrap(Var("k")))>>),
                Oracle("SET", <<<<"new", K>>>>, <<>>, <<Assign(PIdent("k"), Expr(Some(Var("new"))))>>)>>)
Prot ==
  File("Prot", <<List("params", <<<<"n", Integer>>, <<"f", Fn(<<K>>, K)>>>>),
                 List("imports", <<Sig("GET", <<>>, <<K>>)>>),
                 Oracle("RUN", <<>>, <<K>>, <<Assign(PIdent("x"), Call("GET", <<>>)),
                                              Return(<<"call", "f", <<Var("x")>>>>)>>)>>)
Unary1 == Fn(<<Integer>>, Integer)
Apply == File("Apply", <<Oracle("GET", <<<<"g", Unary1>>>>, <<Integer>>, <<Return(IntLit(0))>>)>>)
Applied(ty) ==
  File("Applied", <<List("imports", <<Sig("GET", <<<<"g", ty>>>>, <<Integer>>)>>),
                    Oracle("RUN", <<>>, <<>>, <<>>)>>)
NamedTypes ==
  File("Typed", <<List("types", <<"U">>),
                  Oracle("GET", <<<<"u", UserType("U")>>>>, <<>>, <<>>)>>)

Const(name, ty) == [b |-> "const", name |-> name, ty |-> ty]
Instance(name, pkg, values) ==
  [b |-> "instance", name |-> name, pkg |-> pkg, blocks |-> <<List("params", values)>>]
Compose(bodies) == [b |-> "compose", bodies |-> bodies]
Body(src, wires) == [src |-> src, wires |-> wires]
Wire(oracle, to) == [oracle |-> oracle, to |-> to, alias |-> <<>>]
Alias(oracle, to, alias) == [oracle |-> oracle, to |-> to, alias |-> <<alias>>]

Length(x) == <<<<"n", x>>>>
Lengths == {Var("n"), Var("m"), IntLit(256)}
OddKeys == {<<>>, Length(TrueLit), Length(Add(Var("n"), IntLit(1))), Length(Var("n")) \o Length(Var("m")),
            <<<<"z", IntLit(1)>>>> \o Length(Var("n")), <<<<"m">>>>}
Adversary(wires) == Body("adversary", wires)
Exposed == Adversary(<<Wire("RUN", "p")>>)
Wired == Body("p", <<Wire("GET", "k")>>)
Composes ==
  {<<Compose(<<Wired, Exposed>>)>>, <<Compose(<<Exposed, Wired>>), Compose(<<Wired>>)>>}
OddComposes ==
  {<<>>, <<Compose(<<Exposed>>)>>,
   <<Compose(<<Wired>>), Compose(<<Adversary(<<Wire("RUN", "p"), Alias("GET", "k", "RUN")>>)>>)>>, <<Compose(<<Body("p", <<Wire("GET", "k"), Wire("GET", "k")>>)>>)>>,
   <<Compose(<<Body("p", <<Wire("SET", "k")>>)>>)>>, <<Compose(<<Body("p", <<Alias("SET", "k", "GET")>>)>>)>>,
   <<Compose(<<Body("p", <<Wire("GET", "q")>>)>>)>>, <<Compose(<<Body("p", <<Alias("PUT", "k", "GET")>>)>>)>>,
   <<Compose(<<Body("q", <<Wire("GET", "k")>>), Wired>>)>>, <<Compose(<<Wired, Body("p", <<>>)>>)>>,
   <<Compose(<<Adversary(<<Wire("GET", "q")>>)>>)>>,
   <<Compose(<<Wired, Adversary(<<Alias("GET", "k", "GOT"), Wire("SET", "k"), Wire("RUN", "p")>>)>>)>>}
Lens == <<Const("n", Integer), Const("m", Integer)>>
Over(name, l) == Const(name, Fn(<<Bits(l)>>, Bits(l)))
Funcs == <<Over("hn", Named("n")), Over("hm", Named("m")), Over("h256", Num(256))>>
Game(name, keys, prots, compose) ==
  File(name, Lens \o Funcs \o <<Instance("k", "Key", keys), Instance("p", "Prot", prots)>> \o compose)
Func(l) ==
  Length(l) \o <<<<"f", Var(CASE l = Var("n") -> "hn" [] l = Var("m") -> "hm" [] OTHER -> "h256")>>>>
PlainGame == Game("G", Length(Var("n")), Func(Var("n")), <<Compose(<<Wired, Exposed>>)>>)
TwoBlocks ==
  [PlainGame EXCEPT !.blocks[6].blocks = <<List("params", Length(Var("m"))), List("params", Length(Var("n")))>>]
Games ==
  {Game("G", Length(key), Func(prot), c) : key \in Lengths, prot \in Lengths, c \in Composes}
  \union {Game("G", Length(Var("n")), Func(Var("n")), c) : c \in OddComposes}
  \union {Game("G", key, Func(Var("n")), <<>>) : key \in OddKeys}
  \union {Game("G", <<<<"n">>>>, prot, <<Compose(<<Wired, Exposed>>)>>) :
             prot \in {<<<<"n">>>> \o Tail(Func(Var("n"))), Tail(Func(Var("n")))}}
  \union {TwoBlocks,
           [PlainGame EXCEPT !.blocks[2].name = "n"], [PlainGame EXCEPT !.blocks[2].ty = UserType("U")],
           [PlainGame EXCEPT !.blocks[6].name = "n"], [PlainGame EXCEPT !.blocks[7].pkg = "Other"],
           [PlainGame EXCEPT !.blocks[6].blocks = Append(@, List("types", <<Integer>>))],
           [PlainGame EXCEPT !.blocks[6].blocks = Append(@, List("types", <<>>))],
           [PlainGame EXCEPT !.blocks[6].blocks = Append(@, List("types", <<UserType("U")>>))]}
Bare(pkg, consumer) ==
  File("F", <<[b |-> "instance", name |-> "k", pkg |-> pkg, blocks |-> <<>>],
              [b |-> "instance", name |-> "p", pkg |-> consumer, blocks |-> <<>>],
              Compose(<<Adversary(<<Wire("RUN", "p"), Wire("GET", "k")>>), Wired>>)>>)
GameInputs ==
  {Input(<<Key, Prot>>, <<g>>, <<>>, {NoCommand}, NoProbes) : g \in Games}
  \union {Input(<<Key, Prot>>, <<PlainGame, Game("G", Length(Var("m")), Func(Var("m")), <<Compose(<<Wired>>)>>)>>,
                <<>>, {NoCommand}, NoProbes)}
  \union {Input(<<Apply, Applied(ty)>>, <<Bare("Apply", "Applied")>>, <<>>, {NoCommand}, NoProbes)
            : ty \in {Unary1, Fn(<<Integer, Integer>>, Integer), Fn(<<Boolean>>, Integer), Integer}}
  \union {Input(<<NamedTypes, Applied(Unary1)>>, <<Bare("Typed", "Applied")>>, <<>>, {NoCommand}, NoProbes)}

-----------------------------------------------------------------------------
(* Theorems, over two games: A has a package with a counter and a bit, B   *)
(* has not, and may differ in an exported signature.                       *)
Step ==
  File("Step", <<List("params", <<<<"i", Integer>>, <<"b", Boolean>>>>),
                 Oracle("STEP", <<>>, <<Integer>>,
                        <<If(Var("b"), <<Return(Var("i"))>>, <<Return(IntLit(0))>>)>>)>>)
StepValues == <<<<"i", Var("i")>>, <<"b", Op("not", <<Var("b")>>)>>>>
Func1 == Length(Var("n")) \o <<<<"f", Var("h")>>>>
GameA ==
  File("A", <<Const("n", Integer), Const("h", Fn(<<K>>, K)), Const("i", Integer), Const("b", Boolean),
              Instance("k", "Key", Length(Var("n"))), Instance("p", "Prot", Func1),
              Instance("s", "Step", StepValues),
              Compose(<<Wired, Adversary(<<Wire("RUN", "p"), Wire("STEP", "s")>>)>>)>>)
GameB(exports) ==
  File("B", <<Const("n", Integer), Const("h", Fn(<<K>>, K)), Instance("k", "Key", Length(Var("n"))),
              Instance("p", "Prot", Func1), Compose(<<Wired, Adversary(exports)>>)>>)
TheoremInput(games_, blocks, commands) ==
  Input(<<Key, Prot, Step>>, games_, <<File("T", blocks)>>, commands, NoProbes)
TwoGames == <<GameA, GameB(<<Wire("RUN", "p")>>)>>

Globals == <<Const("N", Integer), Const("M", Integer), Const("B", Boolean),
             Over("HN", Named("N")), Over("HM", Named("M")), Over("H256", Num(256))>>
OfA(l, h, i, b) == <<<<"n", l>>, <<"h", Var(h)>>, <<"i", i>>, <<"b", b>>>>
OfB(l, h) == <<<<"n", l>>, <<"h", Var(h)>>>>
GameInst(name, game, values) ==
  [b |-> "instance", name |-> name, game |-> game, blocks |-> <<List("params", values)>>]
InstN(name) == GameInst(name, "A", OfA(Var("N"), "HN", IntLit(0), Var("B")))
InstanceSpecs ==
  {GameInst("X", "A", OfA(l, h, i, b)) :
      l \in {Var("N"), Var("M"), IntLit(256)}, h \in {"HN", "HM", "H256"},
      i \in {IntLit(0), Var("M")}, b \in {Var("B"), TrueLit, Op("not", <<Var("B")>>)}}
  \union {GameInst("X", "B", OfB(l, h)) : l \in {Var("N"), IntLit(256)}, h \in {"HN", "H256"}}
  \union {GameInst("N", "B", OfB(Var("N"), "HN")), GameInst("X", "C", <<>>), GameInst("X", "B", <<>>),
           GameInst("X", "B", <<<<"n">>, <<"h", Var("HN")>>>>),
           [GameInst("X", "B", OfB(Var("N"), "HN")) EXCEPT !.blocks = Append(@, List("types", <<>>))],
           [GameInst("X", "B", OfB(Var("N"), "HN")) EXCEPT !.blocks = Append(@, List("params", <<>>))]}
Hybrid(loop, bit, sides) == [b |-> "hybrid", name |-> "H", loop |-> loop, bit |-> bit, sides |-> sides]
SideOf(game, values) == [game |-> game, blocks |-> <<List("params", values)>>]
OneSide(i, b) == <<SideOf("A", OfA(Var("N"), "HN", i, b))>>
TwoSides(i) == <<SideOf("A", OfA(Var("N"), "HN", i, TrueLit)), SideOf("B", OfB(Var("N"), "HN"))>>
HybridSpecs_ ==
  {Hybrid(loop, <<bit>>, OneSide(Var(loop), Var(bit))) : loop \in {"i", "j", "N"}, bit \in {"b", "c", "i"}}
  \union {Hybrid("i", <<"b">>, OneSide(Var("i"), TrueLit)), Hybrid("i", <<"b">>, <<SideOf("C", <<>>)>>),
          Hybrid("i", <<"b">>, OneSide(Var("b"), TrueLit))}
  \union {Hybrid(loop, <<>>, TwoSides(Var(loop))) : loop \in {"i", "j"}}
Stated(pairs) == [b |-> "stated", pairs |-> pairs]
Pair(l, r, accepted) == [left |-> l, right |-> r, accepted |-> accepted]
TheoremBodies ==
  {<<spec>> : spec \in InstanceSpecs \union HybridSpecs_}
  \union {<<InstN("X"), InstN("X")>>, <<InstN("X"), [Const("X", Integer) EXCEPT !.name = "N"]>>,
          <<Const("U", UserType("U"))>>, <<Hybrid("i", <<"b">>, OneSide(Var("i"), Var("b"))), InstN("H$true$")>>}
  \union {<<InstN("X"), InstN("Y"), Stated(<<Pair("X", r, a)>>)>> : r \in {"Y", "Z"}, a \in BOOLEAN}
TheoremInputs == {TheoremInput(TwoGames, Globals \o body, {NoCommand}) : body \in TheoremBodies}

-----------------------------------------------------------------------------
(* Proofs. *)
Claim(name, deps, admitted) == [name |-> name, deps |-> deps, admitted |-> admitted]
Tree(oracle, claims) == [oracle |-> oracle, claims |-> claims]
Hops(hops) == [b |-> "hops", hops |-> hops]
Equivalence(l, r, trees) == [kind |-> "equivalence", left |-> l, right |-> r, trees |-> trees]
Lemma(admitted) == {Claim("lemma", {"no-abort"}, admitted),
                    Claim("same-output", {"lemma"}, FALSE)}
Cyclic == {Claim("lemma", {"same-output"}, FALSE), Claim("same-output", {"lemma"}, FALSE)}
InstOf(name, l, h) == GameInst(name, "B", OfB(l, h))
BothB == <<InstOf("X", Var("N"), "HN"), InstOf("Y", Var("N"), "HN")>>
RunTree == <<Tree("RUN", {})>>
HopBodies ==
  {BothB \o <<Hops(<<Equivalence("X", "Y", trees)>>)>> :
      trees \in {<<>>, RunTree, <<Tree("RUN", Lemma(TRUE))>>, <<Tree("RUN", Lemma(FALSE))>>,
                 <<Tree("RUN", Cyclic)>>, <<Tree("GET", {})>>, <<Tree("RUN", Lemma(TRUE)), Tree("RUN", {})>>,
                 <<Tree("RUN", {Claim("same-output", {}, TRUE)})>>}}
  \union {<<InstOf("X", l1, h1), InstOf("Y", l2, h2), Hops(<<Equivalence("X", "Y", RunTree)>>)>> :
             <<l1, h1>> \in {<<Var("N"), "HN">>, <<IntLit(256), "H256">>},
             <<l2, h2>> \in {<<Var("M"), "HM">>, <<IntLit(256), "H256">>}}
  \union {<<InstN("X"), InstOf("Y", Var("N"), "HN"), Hops(<<Equivalence("X", "Y", RunTree)>>)>>,
          <<InstN("X"), Hops(<<Equivalence("X", "Y", RunTree)>>)>>,
          <<Hops(<<[kind |-> "reduction", left |-> "X", right |-> "Y", accepted |-> FALSE]>>)>>}
Refuting(obligations) == [NoCommand EXCEPT !.refuted = obligations]
NothingHolds == {<<"T", 0, "RUN", c>> : c \in TargetClaims \union Injectivity}
(* Packages whose sorts cannot all be named: a length that varies, in the  *)
(* state, in a signature, in what is sampled, in an expression and in what *)
(* is compared; a set; a function that is handed on, or is a variable.     *)
LenState == List("state", <<<<"len", Integer>>>>)
Len_ == Bits(Named("len"))
RunOracle(args, code) == Oracle("RUN", args, <<>>, code)
FuncParam == List("params", <<<<"f", Unary1>>>>)
UnnamedPackages ==
  { <<List("state", <<<<"len", Integer>>, <<"v", Len_>>>>), RunOracle(<<>>, <<>>)>>,
    <<LenState, RunOracle(<<<<"a", Len_>>>>, <<>>)>>,
    <<LenState, RunOracle(<<>>, <<Assign(PIdent("x"), SampleOf(Len_))>>)>>,
    <<LenState, RunOracle(<<>>, <<Set("x", <<"none", TupleType(<<Len_>>), <<>>>>)>>)>>,
    <<LenState, RunOracle(<<>>, <<Set("b", Op("eq", <<<<"none", Len_, <<>>>>, NoneLit>>))>>)>>,
    <<LenState, RunOracle(<<>>, <<Set("x", <<"bits", <<"0", Named("len")>>, <<>>>>)>>)>>,
    <<List("state", <<<<"s", SetOf(Integer)>>>>), RunOracle(<<>>, <<>>)>>,
    <<RunOracle(<<<<"g", Unary1>>>>, <<>>)>>,
    <<RunOracle(<<<<"g", Fn(<<Integer, Integer>>, Integer)>>>>, <<>>)>>,
    <<FuncParam, RunOracle(<<>>, <<Set("g", Var("f")), Set("x", <<"call", "g", <<IntLit(1)>>>>)>>)>>,
    <<FuncParam, RunOracle(<<>>, <<Set("g", Unwrap(Some(Var("f"))))>>)>>,
    <<FuncParam, RunOracle(<<>>, <<Set("g", Var("f")), Set("x", <<"call", "f", <<IntLit(1)>>>>)>>)>> }
OnePackage(file_, blocks) ==
  LET given == IF FuncParam \in Range(blocks) THEN <<<<"f", Var("g1")>>>> ELSE <<>>
  IN  File(file_, <<Const("g1", Unary1), Instance("v", file_, given), Compose(<<Adversary(<<Wire("RUN", "v")>>)>>)>>)
UnnamedInput(left_, right_, consts) ==
  LET Inst(name, game) == GameInst(name, game, <<<<"g1", Var("G1")>>>>)
  IN  Input(<<File("V", left_), File("W", right_)>>, <<OnePackage("V", left_), OnePackage("W", right_)>>,
            <<File("T", <<Const("G1", Unary1)>> \o consts \o
                        <<Inst("X", "V"), Inst("Y", "W"), Hops(<<Equivalence("X", "Y", RunTree)>>)>>)>>,
            {NoCommand}, NoProbes)
FuncArgs == {<<RunOracle(<<<<"g", t>>>>, <<>>)>> : t \in {Unary1, Fn(<<Integer, Integer>>, Integer)}}
NoSorts ==
  {UnnamedInput(p, p, <<>>) : p \in UnnamedPackages}
  \union {UnnamedInput(p, q, <<>>) : p \in FuncArgs, q \in FuncArgs}
  \union {UnnamedInput(p, p, <<Const("C", SetOf(Integer))>>) : p \in {<<RunOracle(<<>>, <<>>)>>}}
SideOfLength(l, h) == <<SideOf("A", OfA(l, h, Var("i"), Var("b")))>>
HybridHop ==
  Hops(<<[kind |-> "hybrid", name |-> "H", accepted |-> TRUE, trees |-> <<Tree("RUN", {}), Tree("STEP", {})>>]>>)
NumberedSide == <<Hybrid("i", <<"b">>, SideOfLength(IntLit(256), "H256")), HybridHop>>
HopInputs ==
  NoSorts \union {TheoremInput(TwoGames, Globals \o NumberedSide, {NoCommand})} \union
  {TheoremInput(TwoGames, Globals \o body, {NoCommand, Refuting(NothingHolds)}) : body \in HopBodies}
  \union {TheoremInput(<<GameA, GameB(exports)>>, Globals \o <<InstN("X"), InstOf("Y", Var("N"), "HN"),
             Hops(<<Equivalence("X", "Y", <<Tree("RUN", {}), Tree("STEP", {})>>)>>)>>, {NoCommand})
            : exports \in {<<Wire("RUN", "p"), Alias("RUN", "p", "STEP")>>,
                           <<Wire("RUN", "p"), Alias("SET", "k", "STEP")>>, <<Alias("RUN", "p", "STEP")>>}}

LongProof ==
  Globals \o <<InstN("X"), InstN("Y"), Hybrid("i", <<"b">>, OneSide(Var("i"), Var("b"))),
    Hops(<<[kind |-> "conjecture", left |-> "X", right |-> "W"],
           [kind |-> "reduction", left |-> "X", right |-> "Y", accepted |-> TRUE],
           Equivalence("X", "Y", <<Tree("STEP", Lemma(TRUE)), Tree("RUN", Lemma(FALSE))>>),
           [kind |-> "hybrid", name |-> "H", accepted |-> TRUE,
            trees |-> <<Tree("RUN", {}), Tree("STEP", {})>>]>>)>>
Patterns ==  (* none, invariant, lemma, lema, in* and *m* *)
  {<<>>, <<{"invariant"}>>, <<{"lemma"}>>, <<{}>>, <<{"invariant"} \union Injectivity>>,
   <<{"lemma", "same-output"} \union Injectivity>>}
Commands ==
  {[f EXCEPT !.oracle = o, !.claim = c] :
      f \in {NoCommand, [NoCommand EXCEPT !.only = "injective"], [NoCommand EXCEPT !.theorem = <<"T">>, !.hop = <<2>>]},
      o \in {<<>>, <<"RUN">>, <<"Q">>}, c \in Patterns}
  \union {[NoCommand EXCEPT !.only = "start", !.claim = c] : c \in Patterns}
  \union {[NoCommand EXCEPT !.theorem = <<t>>, !.hop = h] : t \in {"T", "S"}, h \in {<<>>, <<0>>, <<3>>, <<4>>}}
Refutations ==
  {{}, {<<"T", 3, "STEP", "same-output">>}} \union {{<<"T", 2, o, c>>} : o \in {Start, "RUN"}, c \in {"invariant", "lemma"}}
CommandInputs ==
  {TheoremInput(TwoGames, LongProof, {[f EXCEPT !.refuted = refuted] : f \in Commands, refuted \in Refutations})}

MCInputs == ProbeInputs \union CodeInputs \union GameInputs \union TheoremInputs \union HopInputs
            \union CommandInputs

-----------------------------------------------------------------------------
(* The operators that Project leaves open.  The LETs keep TLC's coverage   *)
(* statistics from following the calls in them, which are too many.        *)
MCReadType(c, t) == LET result == HandleType(c, t) IN result
MCReadExpression(c, e, want) == LET result == HandleExpression(c, e, want) IN result
MCWithLengths(kind, rules, t) == LET result == ReplaceLengths(kind, rules, t) IN result
MCCannotReplace(rules, t) == LET result == StopsReplacing(rules, t) IN result
MCTypeFor(inst, t) == LET result == RewriteType(inst, t) IN result
MCExpressionFor(inst, e) == LET result == RewriteExpression(inst, e) IN result
MCCodeFor(inst, code) == LET result == RewriteCode(inst, code) IN result
MCSameType(t, u) == LET result == TypesMatch(t, u) IN result
MCNamesAType(t) == LET result == HasUserType(t) IN result
MCReadPackageSpec(c, spec) == LET result == HandleBlock(c, spec) IN result
MCSortsAreNamed(theorem, inst) == LET result == EmitsSorts(theorem, inst) IN result
=============================================================================
