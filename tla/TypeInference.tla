---------------------------- MODULE TypeInference ----------------------------
(***************************************************************************)
(* The types and expressions of oracle code as the parser resolves them    *)
(* (parser/package.rs, parser/common.rs): HandleType and HandleExpression, *)
(* the first of which other parsers use for types, the second for values.  *)
(***************************************************************************)
EXTENDS Parsing, SspLanguage

-----------------------------------------------------------------------------
(* The length of a bit string: any identifier is one, whatever its kind    *)
(* and its type.                                                           *)
HandleCountspec(c, n) ==
    CASE n[1] # "name" -> Resolved(Bits(n), <<>>)
      [] n[1] = "name" /\ IsIdent(c.scope, n[2]) ->
            Resolved(Bits(LengthOf(Lookup(c.scope, n[2]).id)), <<>>)
      [] OTHER -> Error

(* The grammar has list types, for which there is no case.                 *)
RECURSIVE HandleType(_, _)
HandleType(c, t) ==
    LET parts == [n \in DOMAIN t[3] |-> HandleType(c, t[3][n])]
    IN  IF t[1] = "List" THEN Panic
        ELSE IF t[1] = "Bits" THEN HandleCountspec(c, t[2])
        ELSE IF t[1] = "UserDefined" /\ t[2][1] \in c.types THEN Resolved(t, <<>>)
        ELSE IF t[1] = "UserDefined" THEN Error
        ELSE IF Failures(parts) # {} THEN FirstFailure(parts)
        ELSE Resolved(<<t[1], t[2], [n \in DOMAIN parts |-> parts[n].ty]>>, <<>>)

-----------------------------------------------------------------------------
RECURSIVE HasUntyped(_)
HasUntyped(t) == t = Untyped \/ \E n \in DOMAIN t[3] : HasUntyped(t[3][n])

(* A result whose type is asked for.                                       *)
GetType(r) == IF r.err = "" /\ HasUntyped(r.ty) THEN Panic ELSE r

(* The results of the operands make the result of the expression.          *)
Combine(e, operands, ty) ==
    IF Failures(operands) # {} THEN FirstFailure(operands)
    ELSE Resolved(ty, <<e[1], e[2], [n \in DOMAIN operands |-> operands[n].e]>>)

(* Resolving an expression with a type that is wanted, <<>> if none is.    *)
RECURSIVE HandleExpression(_, _, _)
HandleAll(c, es, want) == [n \in DOMAIN es |-> HandleExpression(c, es[n], want)]
HandleEach(c, es, wants) == [n \in DOMAIN es |-> HandleExpression(c, es[n], <<wants[n]>>)]

(* Only an addition looks at its operands.                                 *)
HandleAdd(c, e, want) ==
    LET lhs == GetType(HandleExpression(c, e[3][1], want))
    IN  IF want \notin {<<>>, <<Integer>>} THEN Error
        ELSE IF lhs.err # "" THEN lhs
        ELSE IF lhs.ty # Integer THEN Error
        ELSE Combine(e, <<lhs, HandleExpression(c, e[3][2], <<lhs.ty>>)>>, Integer)
HandleArithmetic(c, e, want) ==
    LET operands == HandleAll(c, e[3], want) IN Combine(e, operands, operands[1].ty)

HandleEquals(c, e) ==
    LET first == GetType(HandleExpression(c, e[3][1], <<>>))
    IN  IF first.err # "" THEN first
        ELSE Combine(e, <<first>> \o HandleAll(c, Tail(e[3]), <<first.ty>>), Boolean)

(* NoneOfAnything is a faulty variant that takes whatever is wanted.       *)
NoneOfAnything(want) ==
    IF want = <<>> THEN Error ELSE Resolved(want[1], <<"none", want[1], <<>>>>)
HandleUntypedNone(want) ==
    IF want = <<>> \/ want[1][1] # "Maybe" \/ want[1] = Maybe(Unknown) THEN Error
    ELSE Resolved(want[1], <<"none", want[1][3][1], <<>>>>)

HandleSome(c, e, want) ==
    LET inner == IF want = <<>> \/ want = <<Maybe(Unknown)>> THEN <<>> ELSE <<want[1][3][1]>>
        content == HandleExpression(c, e[3][1], inner)
    IN  IF want # <<>> /\ want[1][1] # "Maybe" THEN Error
        ELSE Combine(e, <<content>>, Maybe(content.ty))

HandleUnwrap(c, e, want) ==
    LET content == HandleExpression(c, e[3][1],
                       <<Maybe(IF want = <<>> THEN Unknown ELSE want[1])>>)
    IN  Combine(e, <<content>>, IF content.err # "" THEN Unknown ELSE content.ty[3][1])

(* UncheckedIndex is a faulty variant of HandleTableAccess.                *)
UncheckedIndex(c, e, want) ==
    IF ~IsIdent(c.scope, e[2]) THEN Error
    ELSE LET id == Lookup(c.scope, e[2]).id
         IN  IF TypeOf(id)[1] # "Table" THEN Error
             ELSE Combine(<<"get", id, <<>>>>, HandleAll(c, e[3], <<>>), Maybe(TypeOf(id)[3][2]))
HandleTableAccess(c, e, want) ==
    LET id == Lookup(c.scope, e[2]).id
        key == TypeOf(id)[3][1]
        value == TypeOf(id)[3][2]
    IN  IF ~IsIdent(c.scope, e[2]) THEN Error
        ELSE IF TypeOf(id)[1] # "Table" THEN Error
        ELSE IF want \notin {<<>>, <<Maybe(Unknown)>>, <<Maybe(value)>>} THEN Error
        ELSE Combine(<<"get", id, <<>>>>, HandleAll(c, e[3], <<key>>), Maybe(value))

HandleFnCall(c, e, want) ==
    LET id == Lookup(c.scope, e[2]).id
        params == Front(TypeOf(id)[3])
        ret == Last(TypeOf(id)[3])
    IN  IF ~IsIdent(c.scope, e[2]) THEN Error
        ELSE IF TypeOf(id)[1] # "Fn" THEN Error
        ELSE IF want \notin {<<>>, <<ret>>} THEN Error
        ELSE IF Len(params) # Len(e[3]) THEN Error
        ELSE Combine(<<"call", id, <<>>>>, HandleEach(c, e[3], params), ret)

HandleIdentifier(c, name) ==
    CASE ~Declared(c.scope, name) -> Error
      [] IsIdent(c.scope, name) ->
            LET id == Lookup(c.scope, name).id IN Resolved(TypeOf(id), Var(id))
      [] OTHER -> Panic

HandleBits(c, e) ==
    LET r == HandleCountspec(c, e[2][2])
    IN  IF r.err # "" \/ r.ty = Bits(AnyLength) THEN Error
        ELSE Resolved(r.ty, <<"bits", <<e[2][1], r.ty[2]>>, <<>>>>)

HandleTuple(c, e, want) ==
    LET operands == IF want # <<>> THEN HandleEach(c, e[3], want[1][3]) ELSE HandleAll(c, e[3], <<>>)
        untypedOperands == HandleAll(c, e[3], <<>>)
        asked == [n \in DOMAIN e[3] |-> GetType(untypedOperands[n])]
    IN  IF want # <<>> /\ (want[1][1] # "Tuple" \/ Len(want[1][3]) # Len(e[3]))
        THEN IF Failures(asked) # {} THEN FirstFailure(asked) ELSE Error
        ELSE Combine(e, operands, TupleType([n \in DOMAIN operands |-> operands[n].ty]))

(* Expressions that name their type: None as and new Table.                *)
HandleTyped(c, e) ==
    LET r == HandleType(c, e[2])
    IN  IF r.err # "" THEN r
        ELSE Resolved(IF e[1] = "none" THEN Maybe(r.ty) ELSE r.ty, <<e[1], r.ty, <<>>>>)

HandleUnchecked(c, e, want) ==
    LET op == e[1]
        collected == HandleAll(c, e[3], <<>>)
    IN  CASE op = "add" -> HandleAdd(c, e, want)
          [] op \in {"sub", "mul", "div"} -> HandleArithmetic(c, e, want)
          [] op = "less" -> Combine(e, HandleAll(c, e[3], <<Integer>>), Boolean)
          [] op \in {"and", "or", "xor", "not"} -> Combine(e, HandleAll(c, e[3], <<Boolean>>), Boolean)
          [] op \in {"eq", "neq"} -> HandleEquals(c, e)
          [] op = "none" -> IF e[2] = <<>> THEN HandleUntypedNone(want) ELSE HandleTyped(c, e)
          [] op = "some" -> HandleSome(c, e, want)
          [] op = "unwrap" -> HandleUnwrap(c, e, want)
          [] op = "newtable" -> HandleTyped(c, e)
          [] op = "get" -> HandleTableAccess(c, e, want)
          [] op = "call" -> HandleFnCall(c, e, want)
          [] op = "var" -> HandleIdentifier(c, e[2])
          [] op = "bits" -> HandleBits(c, e)
          [] op = "empty-bitstring" -> Resolved(Bits(AnyLength), e)
          [] op = "bool" -> Resolved(Boolean, e)
          [] op = "int" -> Resolved(Integer, e)
          [] op = "emptyset" -> Resolved(Untyped, e)
          [] op = "list" -> Combine(e, collected, ListOf(collected[1].ty))
          [] op = "set" -> Combine(e, collected, SetOf(collected[1].ty))
          [] op = "tuple" -> HandleTuple(c, e, want)

(* The type found must be the one wanted, or some Maybe where nothing more *)
(* is known.                                                               *)
HandleExpression(c, e, want) ==
    LET r == HandleUnchecked(c, e, want)
        got == GetType(r)
    IN  IF r.err # "" \/ want = <<>> THEN r
        ELSE IF got.err # "" THEN got
        ELSE IF got.ty # want[1] /\ ~(want[1] = Maybe(Unknown) /\ got.ty[1] = "Maybe") THEN Error
        ELSE got
=============================================================================
