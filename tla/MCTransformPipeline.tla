------------------------- MODULE MCTransformPipeline -------------------------
(***************************************************************************)
(* Games of two package instances.  The exported oracle of A is put        *)
(* together from two statements of a list and an ending; B has an oracle   *)
(* that A calls under an alias, and one without a return type.             *)
(***************************************************************************)
EXTENDS TransformPipeline

CONSTANTS Loops    \* which loops the oracle of A may have

a == Ident("arg", "a")
b == Ident("arg", "b")
x == Ident("local", "x")
y == Ident("local", "y")
k == Ident("const", "k")
l == Ident("const", "l")
T == Ident("state", "T")
U == Ident("state", "U")
c == Ident("state", "c")
i == Ident("loop", "i")
j == Ident("loop", "j")

MCEdges == {[from |-> "A", alias |-> "Fetch", to |-> "B", name |-> "Get"],
            [from |-> "A", alias |-> "Put", to |-> "B", name |-> "Put"],
            [from |-> "A", alias |-> "Fetch2", to |-> "B", name |-> "Pair"]}

HalfOpen(id, lo, hi, body) == For(id, lo, "<=", "<", hi, body)

LoopStatements ==
    CASE Loops = "half_open" ->
            {HalfOpen(i, Lit(0), Lit(2), <<Assign(PIdent(x), Sample),
                 Assign(PTable(U, Var(i)), Expr(Some(Add(Var(x), Unwrap(Access(U, Var(i))))))) >>),
             HalfOpen(i, Lit(1), Lit(3), <<HalfOpen(j, Lit(0), Lit(2),
                 <<If(Equals(Var(i), Add(Var(j), Var(c))), <<Assign(PIdent(x), Call("Fetch", <<Var(j)>>))>>, <<>>),
                   Assign(PTable(U, Var(j)), Expr(Some(Var(i))))>>)>>),
             HalfOpen(i, Lit(0), Lit(2), <<If(Equals(Var(i), Var(a)), <<Return(Var(i))>>, <<>>)>>),
             HalfOpen(i, Lit(0), Var(a), <<Assign(PIdent(x), Call("Fetch", <<Var(i)>>))>>)}
      [] Loops = "closed" ->
            {For(i, Lit(1), "<=", "<=", Lit(2), <<Assign(PTable(U, Var(i)), Expr(Some(Var(a))))>>)}

PlainStatements ==
    {Assign(PIdent(x), Expr(Unwrap(Access(U, Unwrap(Access(U, Var(x))))))),
     Assign(PTable(U, Unwrap(Access(U, Var(a)))), Expr(Some(Add(Var(x), Unwrap(Access(U, Var(x))))))),
     Assign(PTable(U, Var(a)), Sample),
     Assign(PTuple(<<x, y>>), Call("Fetch2", <<Unwrap(Access(U, Var(a)))>>)),
     Assign(PIdent(x), Call("Fetch", <<Add(Var(x), Var(k))>>)),
     Invoke("Put", <<Unwrap(Access(U, Var(x)))>>),
     If(Equals(Var(x), Lit(1)), <<Assign(PIdent(c), Sample), Return(Var(c))>>, <<>>),
     If(Equals(Unwrap(Access(U, Var(x))), Lit(1)),
        <<Assign(PIdent(x), Sample), AssertStmt(Equals(Var(x), Var(a)))>>,
        <<Assign(PIdent(c), Call("Fetch", <<Var(a)>>))>>),
     AssertStmt(Equals(Var(c), Var(a)))}

Endings ==
    {<<Return(Var(x))>>,
     <<If(Equals(Var(c), Var(a)), <<Return(Lit(0))>>,
          <<If(Equals(Var(x), Lit(0)), <<Return(Unwrap(Access(U, Var(x))))>>, <<>>), Return(Var(c))>>)>>,
     <<If(Equals(Var(c), Var(a)), <<Return(Lit(0))>>, <<>>)>>,
     <<If(Equals(Var(c), Var(a)), <<Return(Lit(0))>>, <<Abort>>)>>}



Main(body) == [pkg |-> "A", name |-> "Main", args |-> <<"a">>, typed |-> TRUE, code |-> body]
Get  == [pkg |-> "B", name |-> "Get", args |-> <<"b">>, typed |-> TRUE, code |->
          <<If(Equals(Access(T, Var(b)), Some(Lit(1))),
               <<Assign(PIdent(y), Sample), Assign(PTable(T, Var(b)), Expr(Some(Var(y)))), Return(Var(y))>>, <<>>),
            Return(Unwrap(Access(T, Var(b))))>>]
Put  == [pkg |-> "B", name |-> "Put", args |-> <<"b">>, typed |-> FALSE, code |->
          <<AssertStmt(Equals(Var(b), Var(l))), Assign(PIdent(y), Sample),
            Assign(PTable(T, Var(b)), Expr(Some(Add(Var(y), Var(k)))))>>]
Pair == [pkg |-> "B", name |-> "Pair", args |-> <<"b">>, typed |-> TRUE, code |->
          <<Assign(PTable(T, Var(b)), Expr(Some(Var(b)))),
            Return(Tuple(<<Unwrap(Access(T, Lit(1))), Var(b)>>))>>]

Bodies == {<<Assign(PIdent(x), Expr(Var(a))), s, t>> \o e :
             s, t \in PlainStatements \union LoopStatements, e \in Endings}
MCGames == {<<Main(body), Get, Put, Pair>> : body \in Bodies}

(* The constants of the game are given to the instances under other names. *)
MCStateVars == [A |-> <<U, c>>, B |-> <<T>>]
MCGameConsts == <<k, l>>
MCParams == [A |-> <<[const |-> k, value |-> Var(l)]>>,
             B |-> <<[const |-> l, value |-> Var(k)], [const |-> k, value |-> Add(Var(l), Lit(1))]>>]

Table(v0, v1, v2) == [n \in 0..2 |-> CASE n = 0 -> v0 [] n = 1 -> v1 [] n = 2 -> v2]
State(n) == [A |-> (U :> Table(<<1>>, <<2>>, IF n = 1 THEN <<>> ELSE <<0>>)) @@ (c :> n),
             B |-> T :> Table(<<>>, <<1>>, IF n = 1 THEN <<2>> ELSE <<1>>)]
Tape == [n \in 1..16 |-> n % 3]
MCInputs == {[args |-> <<v>>, consts |-> (k :> 1) @@ (l :> v), state |-> State(n), tape |-> Tape] :
               v \in 0..2, n \in 0..1}
=============================================================================
