----------------------------- MODULE PackageRules -----------------------------
(***************************************************************************)
(* What a package that was read must satisfy, stated without the parser:   *)
(* the types of statements, the ways through an oracle, which variables    *)
(* are read, and which names an oracle can see.                            *)
(***************************************************************************)
EXTENDS PackageParser, TypeRules

-----------------------------------------------------------------------------
(* The identifiers and statements of resolved code.                         *)
Assigned(s) ==
    IF s.k # "assign" THEN {}
    ELSE IF s.pat.p = "tuple" THEN Range(s.pat.ids) ELSE {s.pat.id}

(* The identifiers an expression reads.                                    *)
Reads(e) == {x[2] : x \in {x \in Subexpressions(e) : x[1] \in {"var", "get", "call"}}}
StatementReads(s) ==
    UNION {Reads(e) : e \in StatementExprs(s)} \union
    (IF s.k = "assign" /\ s.pat.p = "table" THEN {s.pat.id} ELSE {})

CodeIdents(code) ==
    UNION {Assigned(s) \union StatementReads(s) \union (IF s.k = "for" THEN {s.id} ELSE {})
             : s \in Statements(code)}

-----------------------------------------------------------------------------
(* Typing of resolved code.  An entry of a table may be sampled, or be the *)
(* result of a call, without a Maybe; a call without an argument list and  *)
(* a return without a value are not typed at all.                          *)
StatementTyped(universe, imports, ret, s) ==
    LET env == [id \in CodeIdents(<<s>>) |-> TypeOf(id)]
        Is(e, ty) == ty \in TypesOf(universe, env, e)
        Sig(name) == imports[CHOOSE n \in DOMAIN imports : imports[n].name = name]
        ArgsTyped(call) ==
            call.args = <<>> \/
            /\ Len(call.args) = Len(Sig(call.name).args)
            /\ \A n \in DOMAIN call.args : Is(call.args[n], Sig(call.name).args[n][2])
        Gives(ty) ==
            CASE s.rhs.r = "expr" -> Is(s.rhs.e, ty)
              [] s.rhs.r = "sample" -> s.rhs.ty = ty
              [] s.rhs.r = "invoke" -> ArgsTyped(s.rhs) /\ Sig(s.rhs.name).ret = ty
    IN  CASE s.k = "abort"  -> TRUE
          [] s.k = "return" -> \A e \in Range(s.val) : Is(e, ret)
          [] s.k = "invoke" -> ArgsTyped(s)
          [] s.k = "ite"    -> Is(s.cond, Boolean)
          [] s.k = "for"    -> Is(s.lo, Integer) /\ Is(s.hi, Integer)
          [] s.k = "assign" ->
                CASE s.pat.p = "ident" -> Gives(TypeOf(s.pat.id))
                  [] s.pat.p = "tuple" ->
                        Gives(TupleType([n \in DOMAIN s.pat.ids |-> TypeOf(s.pat.ids[n])]))
                  [] s.pat.p = "table" ->
                        LET table == TypeOf(s.pat.id)
                        IN  /\ table[1] = "Table"
                            /\ Is(s.pat.index, table[3][1])
                            /\ \/ Gives(Maybe(table[3][2]))
                               \/ s.rhs.r # "expr" /\ Gives(table[3][2])

(* Subtraction, multiplication and division of what is not an integer.     *)
LaxArithmetic(universe, env, e) ==
    \E x \in Subexpressions(e) :
        /\ x[1] \in {"sub", "mul", "div"}
        /\ \E n \in DOMAIN x[3] : Integer \notin TypesOf(universe, env, x[3][n])

CodeTyped(universe, imports, oracle) ==
    \A s \in Statements(oracle.code) :
        \/ StatementTyped(universe, imports, oracle.sig.ret, s)
        \/ \E e \in StatementExprs(s) :
               LaxArithmetic(universe, [id \in CodeIdents(<<s>>) |-> TypeOf(id)], e)

-----------------------------------------------------------------------------
(* An untyped None, an Unwrap of an Unwrap or of a call is understood only *)
(* where a type is wanted.                                                 *)
RECURSIVE LosesContext(_, _)
LosesContext(e, wanted) ==
    LET op == e[1]
        Operand(n) ==
            CASE op \in {"add", "eq", "neq"} -> (op = "add" /\ wanted) \/ n > 1
              [] op \in {"sub", "mul", "div", "some", "tuple", "unwrap"} -> wanted
              [] op \in {"list", "set"} -> FALSE
              [] OTHER -> TRUE
    IN  \/ ~wanted /\ op = "none" /\ e[2] = <<>>
        \/ ~wanted /\ op = "unwrap" /\ e[3][1][1] \in {"unwrap", "call"}
        \/ \E n \in DOMAIN e[3] : LosesContext(e[3][n], Operand(n))

-----------------------------------------------------------------------------
(* How a block of code can end.                                            *)
RECURSIVE Ends(_)
Ends(code) ==
    IF code = <<>> THEN {"fall"}
    ELSE LET s == Head(code)
             here == CASE s.k = "return" -> IF s.val = <<>> THEN {"empty"} ELSE {"value"}
                       [] s.k = "abort"  -> {"abort"}
                       [] s.k = "ite"    -> Ends(s.then) \union Ends(s.else)
                       [] s.k = "for"    -> {"fall"} \union Ends(s.body)
                       [] OTHER -> {"fall"}
         IN  IF "fall" \in here THEN (here \ {"fall"}) \union Ends(Tail(code)) ELSE here

(* The local variables that may be read before they are assigned; given is *)
(* what has been assigned on every way so far.                             *)
RECURSIVE AssignedOnEveryWay(_), UnassignedReads(_, _)
AssignedOnEveryWay(s) ==
    IF s.k # "ite" THEN Assigned(s)
    ELSE LET Always(block) == UNION {AssignedOnEveryWay(block[n]) : n \in DOMAIN block}
             ways == {b \in Range(Blocks(s)) : "fall" \in Ends(b)}
         IN  {id \in Always(s.then) \union Always(s.else) : \A b \in ways : id \in Always(b)}
UnassignedReads(code, given) ==
    LET Before(n) == given \union UNION {AssignedOnEveryWay(code[o]) : o \in 1..(n - 1)}
    IN  UNION {({id \in StatementReads(code[n]) : id[1] = "local"} \ Before(n)) \union
               UNION {UnassignedReads(Blocks(code[n])[b], Before(n))
                         : b \in DOMAIN Blocks(code[n])}
                 : n \in DOMAIN code}

BranchesOf(code) ==
    UNION {Range(Blocks(s)) : s \in {s \in Statements(code) : s.k = "ite"}}

(* Two identifiers of one name, of which one is not of a loop's own.       *)
SameName(ids) ==
    {p \in ids \X ids : p[1] # p[2] /\ p[1][2] = p[2][2] /\ p[1][1] \in {"state", "const", "arg"}}

PackageIdents(ctx) ==
    {TypedIdent("const", d[1], "", d[2]) : d \in Range(ctx.params)} \union
    {TypedIdent("state", d[1], "", d[2]) : d \in Range(ctx.state)}
ArgIdents(oracle) ==
    {TypedIdent("arg", a[1], oracle.sig.name, a[2]) : a \in Range(oracle.sig.args)}
=============================================================================
