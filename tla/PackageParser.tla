---------------------------- MODULE PackageParser ----------------------------
(***************************************************************************)
(* Reading a package (parser/package.rs): its blocks in the order of the   *)
(* file, into a package whose code is resolved.                            *)
(*                                                                         *)
(* A context is [types, scope, params, state, imports, oracles, err], with *)
(* err as in TypeInference.  Declarations are pairs <<name, type>>, the    *)
(* signature of an oracle is [name, args, ret].  Code is code of           *)
(* SspLanguage with names in place of identifiers, where a sample also has *)
(* a type.  A parsed result is <<context, what was read>>.                 *)
(***************************************************************************)
EXTENDS TypeInference

SampleOf(ty) == [r |-> "sample", ty |-> ty, id |-> NoId]

(* Reading the elements of a list in turn, up to the first that fails.     *)
ReadAll(Read(_, _), ctx, elements) ==
    FoldLeft(LAMBDA acc, x :
                IF acc[1].err # "" THEN acc
                ELSE LET r == Read(acc[1], x) IN <<r[1], Append(acc[2], r[2])>>,
             <<ctx, <<>>>>, elements)

-----------------------------------------------------------------------------
(* Where an identifier is assigned.  A name that is not declared is a new  *)
(* local variable of the innermost scope; any other identifier is taken,   *)
(* whatever its kind, if it has the type.                                  *)
HandleIdentifierLhs(ctx, name, oracle, ty) ==
    LET new == TypedIdent("local", name, oracle, ty)
    IN  CASE ~Declared(ctx.scope, name) ->
                <<[ctx EXCEPT !.scope = Declare(@, name, IdentDecl(new))], new>>
          [] IsIdent(ctx.scope, name) /\ TypeOf(Lookup(ctx.scope, name).id) = ty ->
                <<ctx, Lookup(ctx.scope, name).id>>
          [] OTHER -> <<Fail(ctx, "error"), <<>>>>

(* An entry of a table is given a value or a Maybe of one.                 *)
HandlePatternTable(ctx, pat, oracle, ty) ==
    LET table == TypeOf(Lookup(ctx.scope, pat.id).id)
        index == HandleExpression(ctx, pat.index, <<table[3][1]>>)
        value == IF ty[1] = "Maybe" THEN ty[3][1] ELSE ty
        lhs   == HandleIdentifierLhs(ctx, pat.id, oracle, Table(index.ty, value))
    IN  IF ~IsIdent(ctx.scope, pat.id) \/ table[1] # "Table" THEN <<Fail(ctx, "error"), pat>>
        ELSE IF index.err # "" THEN <<Fail(ctx, index.err), pat>>
        ELSE <<lhs[1], PTable(lhs[2], index.e)>>

HandlePatternTuple(ctx, pat, oracle, ty) ==
    LET Element(c, n) == HandleIdentifierLhs(c, pat.ids[n], oracle, ty[3][n])
        lhs == ReadAll(Element, ctx, [n \in DOMAIN pat.ids |-> n])
    IN  IF ty[1] # "Tuple" \/ Len(ty[3]) # Len(pat.ids) THEN <<Fail(ctx, "error"), pat>>
        ELSE <<lhs[1], PTuple(lhs[2])>>

HandlePattern(ctx, pat, oracle, ty) ==
    CASE pat.p = "ident" ->
            LET lhs == HandleIdentifierLhs(ctx, pat.id, oracle, ty) IN <<lhs[1], PIdent(lhs[2])>>
      [] pat.p = "table" -> HandlePatternTable(ctx, pat, oracle, ty)
      [] pat.p = "tuple" -> HandlePatternTuple(ctx, pat, oracle, ty)

-----------------------------------------------------------------------------
IsOracle(scope, name) == Declared(scope, name) /\ Lookup(scope, name).d = "oracle"

(* The number of arguments is checked only if there are any.               *)
HandleInvoke(ctx, call) ==
    LET sig  == Lookup(ctx.scope, call.name).sig
        args == [n \in DOMAIN call.args |->
                    HandleExpression(ctx, call.args[n], <<sig.args[n][2]>>)]
    IN  IF ~IsOracle(ctx.scope, call.name) THEN Error
        ELSE IF call.args # <<>> /\ Len(call.args) # Len(sig.args) THEN Error
        ELSE IF Failures(args) # {} THEN FirstFailure(args)
        ELSE Resolved(sig.ret, [call EXCEPT !.args = [n \in DOMAIN args |-> args[n].e]])

HandleSample(ctx, rhs) ==
    LET r == HandleType(ctx, rhs.ty)
    IN  IF r.err # "" THEN r
        ELSE IF r.ty[1] \notin {"Boolean", "Integer", "Bits"} THEN Error
        ELSE Resolved(r.ty, SampleOf(r.ty))

HandleAssignRhs(ctx, rhs, want) ==
    CASE rhs.r = "sample" -> HandleSample(ctx, rhs)
      [] rhs.r = "invoke" -> HandleInvoke(ctx, rhs)
      [] rhs.r = "expr"   -> LET r == HandleExpression(ctx, rhs.e, want)
                             IN  [r EXCEPT !.e = Expr(r.e)]

(* What is assigned to tells the type that is wanted, if it is declared.   *)
ExpectedType(ctx, pat) ==
    IF pat.p = "tuple" \/ ~IsIdent(ctx.scope, pat.id) THEN <<>>
    ELSE LET ty == TypeOf(Lookup(ctx.scope, pat.id).id)
         IN  CASE pat.p = "ident" -> <<ty>>
               [] pat.p = "table" -> IF ty[1] = "Table" THEN <<Maybe(ty[3][2])>> ELSE <<>>

HandleAssign(ctx, s, sig) ==
    LET rhs == GetType(HandleAssignRhs(ctx, s.rhs, ExpectedType(ctx, s.pat)))
        pat == HandlePattern(ctx, s.pat, sig.name, rhs.ty)
    IN  IF s.pat.p = "table" /\ ~IsIdent(ctx.scope, s.pat.id) THEN <<Fail(ctx, "error"), s>>
        ELSE IF rhs.err # "" THEN <<Fail(ctx, rhs.err), s>>
        ELSE <<pat[1], Assign(pat[2], rhs.e)>>

-----------------------------------------------------------------------------
RECURSIVE HandleCode(_, _, _)

(* The branches of a conditional open no scope.                            *)
HandleIte(ctx, s, sig) ==
    LET cond == HandleExpression(ctx, s.cond, <<Boolean>>)
        then == HandleCode(ctx, s.then, sig)
        else == HandleCode(then[1], s.else, sig)
    IN  IF cond.err # "" THEN <<Fail(ctx, cond.err), s>>
        ELSE IF then[1].err # "" THEN then
        ELSE <<else[1], If(cond.e, then[2], else[2])>>

HandleReturn(ctx, s, sig) ==
    LET val == [n \in DOMAIN s.val |-> HandleExpression(ctx, s.val[n], <<sig.ret>>)]
    IN  IF Failures(val) # {} THEN <<Fail(ctx, FirstFailure(val).err), s>>
        ELSE <<ctx, [s EXCEPT !.val = [n \in DOMAIN val |-> val[n].e]]>>

(* The body of a loop has a scope with the loop variable; LeakyLoop is a   *)
(* faulty variant that stays in it.                                        *)
LoopHead(ctx, s) ==
    LET lo == HandleExpression(ctx, s.lo, <<Integer>>)
        hi == HandleExpression(ctx, s.hi, <<Integer>>)
    IN  IF Failures(<<lo, hi>>) # {} THEN FirstFailure(<<lo, hi>>)
        ELSE IF s.id[1] # s.id[2] \/ ~MayDeclare(Enter(ctx.scope), s.id[1]) THEN Panic
        ELSE Resolved(Integer, <<lo.e, hi.e>>)
LoopBody(ctx, s, sig) ==
    HandleCode([ctx EXCEPT !.scope = Declare(Enter(@), s.id[1],
                   IdentDecl(TypedIdent("loop", s.id[1], "", Integer)))], s.body, sig)
LoopRead(s, head, body) ==
    For(TypedIdent("loop", s.id[1], "", Integer), head.e[1], s.loComp, s.hiComp, head.e[2], body)
LeakyLoop(ctx, s, sig) ==
    LET head == LoopHead(ctx, s)
        body == LoopBody(ctx, s, sig)
    IN  IF head.err # "" THEN <<Fail(ctx, head.err), s>>
        ELSE <<body[1], LoopRead(s, head, body[2])>>
HandleFor(ctx, s, sig) ==
    LET head == LoopHead(ctx, s)
        body == LoopBody(ctx, s, sig)
    IN  IF head.err # "" THEN <<Fail(ctx, head.err), s>>
        ELSE IF body[1].err # "" THEN body
        ELSE <<[body[1] EXCEPT !.scope = Leave(@)], LoopRead(s, head, body[2])>>

HandleStatement(ctx, s, sig) ==
    CASE s.k = "abort"  -> <<ctx, s>>
      [] s.k = "assign" -> HandleAssign(ctx, s, sig)
      [] s.k = "ite"    -> HandleIte(ctx, s, sig)
      [] s.k = "return" -> HandleReturn(ctx, s, sig)
      [] s.k = "for"    -> HandleFor(ctx, s, sig)
      [] s.k = "invoke" ->
            LET call == HandleInvoke(ctx, s)
            IN  IF call.err # "" THEN <<Fail(ctx, call.err), s>> ELSE <<ctx, call.e>>

HandleCode(ctx, code, sig) ==
    LET Read(c, s) == HandleStatement(c, s, sig) IN ReadAll(Read, ctx, code)

(* Every way through an oracle that returns a value ends in a return.      *)
RECURSIVE CheckBlock(_)
CheckBlock(code) ==
    /\ code # <<>>
    /\ \/ Last(code).k = "return" /\ Last(code).val # <<>>
       \/ Last(code).k = "ite" /\ CheckBlock(Last(code).then) /\ CheckBlock(Last(code).else)

-----------------------------------------------------------------------------
(* Signatures: the result type is Empty if none is given.                  *)
HandleSig(ctx, sig) ==
    LET types == [n \in DOMAIN sig.args |-> HandleType(ctx, sig.args[n][2])] \o
                 <<IF sig.ret = <<>> THEN Resolved(Empty, <<>>) ELSE HandleType(ctx, sig.ret[1])>>
    IN  IF Failures(types) # {} THEN FirstFailure(types)
        ELSE Resolved(Empty, [name |-> sig.name, ret |-> Last(types).ty,
                args |-> [n \in DOMAIN sig.args |-> <<sig.args[n][1], types[n].ty>>]])

DeclareArg(ctx, arg, oracle) ==
    IF MayDeclare(ctx.scope, arg[1])
    THEN [ctx EXCEPT !.scope =
             Declare(@, arg[1], IdentDecl(TypedIdent("arg", arg[1], oracle, arg[2])))]
    ELSE Fail(ctx, "error")

HandleOracleDef(ctx, def) ==
    LET sig  == HandleSig(ctx, def)
        args == FoldLeft(LAMBDA c, arg : IF c.err # "" THEN c ELSE DeclareArg(c, arg, sig.e.name),
                         [ctx EXCEPT !.scope = Enter(@)], sig.e.args)
        code == HandleCode(args, def.code, sig.e)
    IN  IF sig.err # "" THEN Fail(ctx, sig.err)
        ELSE IF args.err # "" THEN args
        ELSE IF code[1].err # "" THEN code[1]
        ELSE IF sig.e.ret # Empty /\ ~CheckBlock(code[2]) THEN Fail(ctx, "error")
        ELSE [code[1] EXCEPT !.scope = Leave(@),
                             !.oracles = Append(@, [sig |-> sig.e, code |-> code[2]])]

(* A list of parameters or of state variables opens a scope that stays.    *)
HandleDecl(ctx, decl, kind) ==
    LET r == HandleType(ctx, decl[2])
        id == TypedIdent(kind, decl[1], "", r.ty)
        listed == IF kind = "const" THEN [ctx EXCEPT !.params = Append(@, <<decl[1], r.ty>>)]
                                    ELSE [ctx EXCEPT !.state = Append(@, <<decl[1], r.ty>>)]
    IN  IF r.err # "" THEN Fail(ctx, r.err)
        ELSE IF ~MayDeclare(ctx.scope, decl[1]) THEN Fail(ctx, "error")
        ELSE [listed EXCEPT !.scope = Declare(@, decl[1], IdentDecl(id))]
HandleDeclList(ctx, decls, kind) ==
    FoldLeft(LAMBDA c, decl : IF c.err # "" THEN c ELSE HandleDecl(c, decl, kind),
             [ctx EXCEPT !.scope = Enter(@)], decls)

(* An imported oracle whose name is taken by an identifier is a panic.     *)
HandleImport(ctx, import) ==
    LET sig == HandleSig(ctx, import)
    IN  IF sig.err # "" THEN Fail(ctx, sig.err)
        ELSE IF \E n \in DOMAIN ctx.imports : ctx.imports[n].name = import.name THEN Fail(ctx, "error")
        ELSE IF ~MayDeclare(ctx.scope, import.name) THEN Fail(ctx, "panic")
        ELSE [ctx EXCEPT !.imports = Append(@, sig.e),
                         !.scope = Declare(@, import.name, OracleDecl(sig.e))]
HandleImports(ctx, imports) ==
    FoldLeft(LAMBDA c, import : IF c.err # "" THEN c ELSE HandleImport(c, import),
             [ctx EXCEPT !.scope = Enter(@)], imports)

(* One block of the file: [b, list], or an oracle [b, def].                *)
HandleBlock(ctx, block) ==
    CASE block.b = "types"   -> [ctx EXCEPT !.types = @ \union Range(block.list)]
      [] block.b = "params"  -> HandleDeclList(ctx, block.list, "const")
      [] block.b = "state"   -> HandleDeclList(ctx, block.list, "state")
      [] block.b = "imports" -> HandleImports(ctx, block.list)
      [] block.b = "oracle"  -> HandleOracleDef(ctx, block.def)
=============================================================================
