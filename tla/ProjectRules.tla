----------------------------- MODULE ProjectRules -----------------------------
(***************************************************************************)
(* What must hold of a project that was read, and of a proof that          *)
(* succeeded, stated on the text of the project and on reference           *)
(* definitions of typing (TypeRules, PackageRules) and of substitution.    *)
(***************************************************************************)
EXTENDS ProofRules, PackageRules, SortNames

-----------------------------------------------------------------------------
(* Packages. *)

(* The declarations of a package as they are written.                      *)
BlocksOf(file_, kinds) == {b \in Range(file_.blocks) : b.b \in kinds}
WrittenTypes(file_) ==
  LET decls == UNION {Range(b.list) : b \in BlocksOf(file_, {"params", "state"})}
  IN  [name \in {d[1] : d \in decls} |-> (CHOOSE d \in decls : d[1] = name)[2]]

WithMaybes(types) == types \union {Maybe(t) : t \in types}
UniverseOf(types) ==
  LET base == {Integer, Boolean} \union types
  IN  WithMaybes(WithMaybes(WithMaybes(WithMaybes(base \union {TupleType(<<t>>) : t \in base}))))

(* Unwrapping twice what is left open has a type only for the parser.      *)
OpenUnwrap == Unwrap(Unwrap(<<"none", <<>>, <<>>>>))

(* An expression is understood, with a type that is wanted or without one, *)
(* exactly if the typing rules give it that type and it does not lose the  *)
(* context it needs (handle_expression, parser/package.rs).                *)
InferenceIsExact ==
  stage = "packages" /\ EndOfFile("packages") =>
    LET env == WrittenTypes(Current)
        universe == UniverseOf(Range(env))
        InContext(t) == HandleType(ctx, t).ty
        Known(e) == OpenUnwrap \in Subexpressions(e) \/ LaxArithmetic(universe, env, e)
    IN  \A e \in input.probes.exprs :
          \/ Known(e)
          \/ LET types == TypesOf(universe, env, e)
             IN  \A want \in input.probes.wants :
                   LET read == HandleExpression(ctx, e, [n \in DOMAIN want |-> InContext(want[n])])
                       wanted == IF want = <<>> THEN types ELSE types \intersect Range(want)
                   IN  IF read.err = ""
                       THEN /\ read.ty \in {InContext(t) : t \in wanted}
                            /\ ~LosesContext(e, want # <<>>)
                       ELSE wanted = {} \/ LosesContext(e, want # <<>>)

(* The packages, where they are new.                                       *)
JustRead == IF stage = "packages" /\ block = 0 THEN Range(packages) ELSE {}
IdentsOf(pkg, oracle) == PackageIdents(pkg) \union ArgIdents(oracle) \union CodeIdents(oracle.code)
TypesIn(pkg, oracle) ==
  {TypeOf(id) : id \in IdentsOf(pkg, oracle)} \union UNION {SigTypes(i) : i \in Range(pkg.imports)}
  \union {oracle.sig.ret}

(* Code that is accepted is typed: the resolved identifiers give every     *)
(* statement the types it needs (handle_code, handle_pattern).             *)
AcceptedIsTyped ==
  \A pkg \in JustRead : \A n \in DOMAIN pkg.oracles :
    CodeTyped(UniverseOf(TypesIn(pkg, pkg.oracles[n])), pkg.imports, pkg.oracles[n])

(* An oracle that returns a value does so, or aborts, on every way through *)
(* its code; a return without a value is not told from one with a value    *)
(* (the check of blocks in handle_oracle_def).                             *)
ValueOnEveryPath ==
  \A pkg \in JustRead : \A n \in DOMAIN pkg.oracles :
    pkg.oracles[n].sig.ret # Empty => "fall" \notin Ends(pkg.oracles[n].code)

(* A local variable that may be read before it is assigned is one that a   *)
(* branch of a conditional assigns: a branch opens no scope (handle_code). *)
ReadsAreAssigned ==
  \A pkg \in JustRead : \A n \in DOMAIN pkg.oracles :
    LET code == pkg.oracles[n].code
    IN  \A id \in UnassignedReads(code, {}) :
          \E branch \in BranchesOf(code) : \E s \in Statements(branch) : id \in Assigned(s)

(* An accepted oracle returns its value or aborts on every way through it, *)
(* and reads no local variable before it is assigned, but for those that a *)
(* branch assigns (handle_oracle_def, handle_code): the solver functions   *)
(* written for it have one value each and bind names before they use them. *)
PathsComplete == ValueOnEveryPath /\ ReadsAreAssigned

(* Within an oracle a name stands for one thing, however far apart it is   *)
(* declared, as the writer of solver code needs, which writes the bare     *)
(* names; unless a declaration comes after the oracle in the file          *)
(* (util/scope.rs, handle_decl_list).                                      *)
LateNames(name) ==
  LET blocks == (CHOOSE f \in Range(input.files.packages) : f.name = name).blocks
      late == {n \in DOMAIN blocks : blocks[n].b \in {"params", "state"} /\
                                     \E o \in 1..(n - 1) : blocks[o].b = "oracle"}
  IN  UNION {Keys(blocks[n].list) : n \in late}
BareNamesUnique ==
  stage = "packages" /\ block = 0 =>
    \A name \in DOMAIN packages : \A n \in DOMAIN packages[name].oracles :
      \A pair \in SameName(IdentsOf(packages[name], packages[name].oracles[n])) :
        pair[1][2] \in LateNames(name)

-----------------------------------------------------------------------------
(* Games. *)

GameFile(name) ==
  LET read  == IF stage = "games" THEN 1..file ELSE DOMAIN input.files.games
      named == {n \in read : input.files.games[n].name = name}
  IN  input.files.games[CHOOSE n \in named : \A o \in named : o <= n]
InstanceSpec(name, instance) ==
  CHOOSE b \in Range(GameFile(name).blocks) : b.b = "instance" /\ b.name = instance
Written(name, instance) == packages[InstanceSpec(name, instance).pkg]

(* A type of a package where its constants stand for their values.         *)
ValueLength(v) == IF v[1] = "int" THEN Num(v[2]) ELSE LengthOf(v[2])
RECURSIVE Substituted(_, _)
Substituted(values, t) ==
  LET constant == t[1] = "Bits" /\ t[2][1] = "id" /\ t[2][2][1] = "const"
  IN  <<t[1], IF constant THEN ValueLength(FirstOf(values, t[2][2][2])) ELSE t[2],
        [n \in DOMAIN t[3] |-> Substituted(values, t[3][n])]>>

(* Equal but for arguments of functions that one of them lacks.            *)
RECURSIVE SameButForArity(_, _)
SameButForArity(l, r) ==
  \/ l = r
  \/ /\ l[1] = r[1] /\ l[2] = r[2]
     /\ IF l[1] = "Fn"
        THEN /\ SameButForArity(Last(l[3]), Last(r[3]))
             /\ \A n \in 1..Len(Front(l[3])) :
                   n > Len(Front(r[3])) \/ SameButForArity(l[3][n], r[3][n])
        ELSE Len(l[3]) = Len(r[3]) /\ \A n \in DOMAIN l[3] : SameButForArity(l[3][n], r[3][n])

(* What an import declares is what the oracle it is wired to provides,     *)
(* with the constants of both packages replaced by their values; functions *)
(* that differ in the number of arguments pass (handle_edges_compose_      *)
(* assign_list, Type::types_match).                                        *)
WiresTyped ==
  \A g \in NewGames : \A edge \in Range(games[g].edges) :
    LET from == games[g].insts[edge.from]
        to   == games[g].insts[edge.to]
        imports == Written(g, from.name).imports
        oracles == Written(g, to.name).oracles
        import == imports[CHOOSE n \in DOMAIN imports : imports[n].name = NameOf(edge)]
        sig == oracles[CHOOSE n \in DOMAIN oracles : oracles[n].sig.name = edge.sig.name].sig
        Same(l, r) == SameButForArity(Substituted(from.values, l), Substituted(to.values, r))
    IN  /\ Same(import.ret, sig.ret)
        /\ Len(import.args) = Len(sig.args)
        /\ \A n \in DOMAIN import.args : Same(import.args[n][2], sig.args[n][2])

-----------------------------------------------------------------------------
(* Theorems. *)

RECURSIVE Flattened(_)
Flattened(e) ==
  IF e[1] = "var" /\ ValueOf(e[2]) # <<>> THEN Flattened(ValueOf(e[2])[1])
  ELSE <<e[1], e[2], [n \in DOMAIN e[3] |-> Flattened(e[3][n])]>>
RECURSIVE InGame(_, _)
InGame(values, e) ==
  IF e[1] = "var" /\ e[2][1] = "game" THEN FirstOf(values, e[2][2])
  ELSE <<e[1], e[2], [n \in DOMAIN e[3] |-> InGame(values, e[3][n])]>>
FlatLength(n) ==
  IF n[1] # "id" THEN <<n>> ELSE Flattened(Var(n[2]))
RECURSIVE FlatType(_)
FlatType(t) ==
  <<t[1], IF t[1] = "Bits" THEN FlatLength(t[2]) ELSE t[2], [n \in DOMAIN t[3] |-> FlatType(t[3][n])]>>

RECURSIVE InInstance(_, _)
InInstance(given, t) ==
  LET constant == t[1] = "Bits" /\ t[2][1] = "id" /\ t[2][2][1] = "const"
  IN  <<t[1], CASE constant -> given[t[2][2][2]]
                [] t[1] = "Bits" /\ ~constant -> FlatLength(t[2])
                [] OTHER -> t[2],
        [n \in DOMAIN t[3] |-> InInstance(given, t[3][n])]>>

(* In a game instance a constant of a package stands for its value in the  *)
(* game, with the constants of the game replaced by theirs: in the types   *)
(* of the state, in the signatures and in the values of the package        *)
(* instance always, in the code unless the value is a compound expression  *)
(* (InstantiationContext, packageinstance.rs).                             *)
InstanceIsSubstitution ==
  \A t \in NewTheorems : \A inst \in Range(theorems[t].insts) : \A n \in DOMAIN inst.game.insts :
    LET p == inst.game.insts[n]
        values == games[inst.game.name].insts[n].values
        raw == Written(inst.game.name, p.name)
        given == [name \in Keys(values) |-> InGame(inst.values, FirstOf(values, name))]
        Same(new, old) == FlatType(new) = InInstance(given, old)
    IN  /\ \A v \in Range(p.values) : Flattened(v[2]) = given[v[1]]
        /\ \A m \in DOMAIN raw.state : Same(p.pkg.state[m][2], raw.state[m][2])
        /\ \A m \in DOMAIN raw.oracles :
              LET new == p.pkg.oracles[m]
                  old == raw.oracles[m]
              IN  /\ Same(new.sig.ret, old.sig.ret)
                  /\ \A a \in DOMAIN old.sig.args : Same(new.sig.args[a][2], old.sig.args[a][2])
                  /\ \A id \in CodeIdents(new.code) :
                        id[1] = "const" /\ FirstOf(values, id[2])[3] = <<>>
                          => Flattened(Var(id)) = given[id[2]]

-----------------------------------------------------------------------------
(* Proofs. *)

(* A proof that succeeds has compared like with like: the two instances of *)
(* a hop that was asked for export the same oracles, with signatures that  *)
(* are equal when all constants are replaced (verify_exports_match).       *)
HopsCompareLike ==
  Succeeded => \A h \in AskedHops :
    LET theorem == theorems[h[1]]
        hop == theorem.hops[h[2]]
        Signature(name, e) ==
          <<NameOf(e), FlatType(e.sig.ret), [n \in DOMAIN e.sig.args |-> FlatType(e.sig.args[n][2])]>>
        Signatures(name) == {Signature(name, e) : e \in Range(Exports(theorem, name))}
    IN  Signatures(hop.left) = Signatures(hop.right)

(* Signatures that meet agree once all constants are replaced: where a     *)
(* call is wired (handle_edges_compose_assign_list) and where two games    *)
(* are compared (verify_exports_match).                                    *)
SignaturesAgree == WiresTyped /\ HopsCompareLike

(* What a package says of types anywhere in its text: those of its         *)
(* constants, and the others.                                              *)
ConstantTypes(pkg) ==
  DeclaredTypes(pkg.params) \union {ExpressionType(e) : e \in AllWithin(CodeExprs(pkg))}
OtherTypes(pkg) ==
  DeclaredTypes(pkg.state) \union ImportedTypes(pkg) \union SignatureTypes(pkg) \union SampledTypes(pkg)
  \union UNION {{TypeOf(id) : id \in CodeIdents(o.code) \ PackageIdents(pkg)} : o \in Range(pkg.oracles)}
RECURSIVE LengthsOf(_)
LengthsOf(t) ==
  (IF t[1] = "Bits" THEN {t[2]} ELSE {}) \union UNION {LengthsOf(t[3][n]) : n \in DOMAIN t[3]}
LengthIdents(types) == {n[2] : n \in {n \in UNION {LengthsOf(t) : t \in types} : n[1] = "id"}}
PackageLengths(pkg) == LengthIdents(ConstantTypes(pkg) \union OtherTypes(pkg))

(* A length of the package is a variable, or a variable is called.         *)
NamesVary(pkg) ==
  LET called == {e[2] : e \in {e \in AllWithin(CodeExprs(pkg)) : e[1] = "call"}}
  IN  \E id \in PackageLengths(pkg) \union called : id[1] # "const"

(* A length of the package, or of the game, is a constant that is given    *)
(* something other than a name, in the game or in the theorem.             *)
GivenNoName(inst, p) ==
  LET Given(c) == FirstOf(p.values, c)
      GivenInTheorem(c) == FirstOf(inst.values, c)
  IN  \E id \in PackageLengths(Written(inst.game.name, p.name)) :
        /\ id[1] = "const"
        /\ Given(id[2])[1] # "var" \/ GivenInTheorem(Given(id[2])[2][2])[1] # "var"
GameGivenNoName(inst) ==
  \E id \in LengthIdents(DeclaredTypes(games[inst.game.name].consts)) :
    FirstOf(inst.values, id[2])[1] # "var"

(* A type that solvers have no sort for: that of a constant may be a       *)
(* function.                                                               *)
RECURSIVE Sortless(_)
Sortless(t) == t[1] \notin SortKinds \/ \E n \in DOMAIN t[3] : Sortless(t[3][n])
ConstantSortless(t) == IF t[1] = "Fn" THEN \E n \in DOMAIN t[3] : Sortless(t[3][n]) ELSE Sortless(t)
HasSortless(pkg) ==
  (\E t \in OtherTypes(pkg) : Sortless(t)) \/ \E t \in ConstantTypes(pkg) : ConstantSortless(t)

(* Before a hop is proved the prover stops only if, in one of its two      *)
(* instances, a length or a function that is called is a variable; or a    *)
(* constant that is a length is given a number, or the sum that the next   *)
(* side of a hybrid argument has; or a type has no sort (resolved_suffix,  *)
(* as_theorem_identifier, From<Type>).                                     *)
HopDone == Theorem.hops[current[2]]
LengthsAreConstants ==
  stage = "prove" /\ err = "panic" =>
    \/ \E t \in TheoremTypes(Theorem) : ConstantSortless(t)
    \/ \E name \in {HopDone.left, HopDone.right} :
         LET inst == InstanceOf(Theorem, name)
             raw  == games[inst.game.name]
         IN  \/ GameGivenNoName(inst)
             \/ \E t \in DeclaredTypes(raw.consts) : ConstantSortless(t)
             \/ \E p \in Range(raw.insts) :
                  \/ NamesVary(Written(raw.name, p.name))
                  \/ HasSortless(Written(raw.name, p.name))
                  \/ GivenNoName(inst, p)
=============================================================================
