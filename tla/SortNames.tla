------------------------------- MODULE SortNames -------------------------------
(***************************************************************************)
(* The names of the SMT sorts that are written for a theorem and a game    *)
(* instance before anything is proved (types.rs, identifier.rs,            *)
(* writers/smt, transforms/type_extract.rs): whether all of them exist.    *)
(*                                                                         *)
(* Code that no call can reach counts here; the loops that are unrolled no *)
(* times are not written by the program.  Two instances of one package     *)
(* share the record of its parameters, which here each has.                *)
(***************************************************************************)
EXTENDS Instantiation

(* The sort of a length is named after a constant of the theorem: one that *)
(* stands for anything but a name, or is no constant at all, has none.     *)
(* OneStep is a faulty variant of ResolvedConst.                           *)
OneStep(id) ==
  LET v == ValueOf(id)
  IN  id[1] = "theorem" \/ (v # <<>> /\ v[1][1] = "var" /\ v[1][2][1] = "theorem")
RECURSIVE ResolvedConst(_)
ResolvedConst(id) ==
  LET v == ValueOf(id)
  IN  \/ id[1] = "theorem"
      \/ id[1] \in {"const", "game"} /\ v # <<>> /\ v[1][1] = "var" /\ ResolvedConst(v[1][2])
HasSuffix(n) == n[1] # "id" \/ ResolvedConst(n[2])

(* Functions, sets, lists and named types have no sort.                    *)
SortKinds == {"Bits", "Maybe", "Boolean", "Empty", "Integer", "Table", "Tuple"}
RECURSIVE HasSort(_)
HasSort(t) ==
  /\ t[1] \in SortKinds
  /\ t[1] = "Bits" => HasSuffix(t[2])
  /\ \A n \in DOMAIN t[3] : HasSort(t[3][n])

RECURSIVE ExpressionType(_)
ExpressionType(e) ==
  LET op == e[1]
      part == ExpressionType(e[3][1])
  IN  CASE op = "var" -> TypeOf(e[2])
        [] op = "get" -> Maybe(TypeOf(e[2])[3][2])
        [] op = "call" -> Last(TypeOf(e[2])[3])
        [] op = "none" -> Maybe(e[2])
        [] op = "some" -> Maybe(part)
        [] op = "unwrap" -> part[3][1]
        [] op = "newtable" -> e[2]
        [] op = "bits" -> Bits(e[2][2])
        [] op = "empty-bitstring" -> Bits(AnyLength)
        [] op = "int" -> Integer
        [] op = "emptyset" -> Untyped
        [] op = "list" -> ListOf(part)
        [] op = "set" -> SetOf(part)
        [] op = "tuple" -> TupleType([n \in DOMAIN e[3] |-> ExpressionType(e[3][n])])
        [] op \in {"add", "sub", "mul", "div"} -> part
        [] OTHER -> Boolean

-----------------------------------------------------------------------------
(* What is written of a package, and the values of constants.              *)
CodeOf(pkg) == UNION {Statements(o.code) : o \in Range(pkg.oracles)}
SampledTypes(pkg) ==
  {s.rhs.ty : s \in {s \in CodeOf(pkg) : s.k = "assign" /\ s.rhs.r = "sample"}}
CodeExprs(pkg) == UNION {StatementExprs(s) : s \in CodeOf(pkg)}
ValuesIn(values) == {v[2] : v \in Range(values)}
AllWithin(exprs) == UNION {Subexpressions(e) : e \in exprs}

DeclaredTypes(decls) == {d[2] : d \in Range(decls)}
SignatureTypes(pkg) == UNION {SigTypes(o.sig) : o \in Range(pkg.oracles)}
ImportedTypes(pkg) == UNION {SigTypes(i) : i \in Range(pkg.imports)}
TheoremTypes(theorem) == {TypeOf(d.id) : d \in {d \in theorem.scope.types : d.d = "ident"}}

(* The type an expression is written with, if it is.                       *)
SpelledTypes(e) ==
  CASE e[1] \in {"none", "newtable", "bits"}  -> {ExpressionType(e)}
    [] e[1] \in {"unwrap", "list", "set"}     -> {ExpressionType(e[3][1])}
    [] OTHER -> {}

(* Functions among the constants are declared one by one, with the sorts   *)
(* of their arguments and their value.                                     *)
NoFunctions(types) == {t \in types : t[1] # "Fn"}
FunctionParts(types) == UNION {Range(t[3]) : t \in {t \in types : t[1] = "Fn"}}

PackagesOf(inst) == {p.pkg : p \in Range(inst.game.insts)}
WrittenExprs(inst) ==
  AllWithin(UNION {CodeExprs(pkg) : pkg \in PackagesOf(inst)}
            \union UNION {ValuesIn(p.values) : p \in Range(inst.game.insts)}
            \union ValuesIn(inst.values))
TypesNamed(theorem, inst) ==
  NoFunctions(TheoremTypes(theorem)) \union FunctionParts(TheoremTypes(theorem))
  \union NoFunctions(DeclaredTypes(inst.game.consts))
  \union UNION {SignatureTypes(pkg) \union DeclaredTypes(pkg.state) \union SampledTypes(pkg)
                \union NoFunctions(DeclaredTypes(pkg.params)) : pkg \in PackagesOf(inst)}
  \union UNION {SpelledTypes(e) : e \in WrittenExprs(inst)}

(* Every bit string type that is one of these, and not within another, is  *)
(* declared; those of wires and exports are among the signatures.          *)
RecordedTypes(inst) ==
  DeclaredTypes(inst.game.consts)
  \union UNION {DeclaredTypes(pkg.params) \union ImportedTypes(pkg)
                \union {ExpressionType(e) : e \in CodeExprs(pkg)} : pkg \in PackagesOf(inst)}

(* A function is called by the name of a constant of the theorem.          *)
CallsAreNamed(exprs) == \A e \in exprs : e[1] = "call" => ResolvedConst(e[2])

EmitsSorts(theorem, inst) ==
  /\ \A t \in TypesNamed(theorem, inst) : HasSort(t)
  /\ \A t \in RecordedTypes(inst) : t[1] = "Bits" => HasSuffix(t[2])
  /\ CallsAreNamed(WrittenExprs(inst))
=============================================================================
