------------------------------ MODULE GameParser ------------------------------
(***************************************************************************)
(* Reading a game (parser/composition.rs, parser/common.rs): constants,    *)
(* package instances and the wires between them, in the order of the file. *)
(*                                                                         *)
(* A context is [name, scope, types, consts, insts, edges, exports, err];  *)
(* an edge is [from, to, sig, alias], an export [to, sig, alias], where    *)
(* from and to are positions in insts and alias is <<>> if there is none.  *)
(***************************************************************************)
EXTENDS Instances

(* How a type and an expression are read, how lengths are replaced in the  *)
(* type of a parameter, and when that stops the program, is left open:     *)
(* modules TypeInference and Instantiation say what the code does.         *)
CONSTANTS
  ReadType(_, _),           (* a type in a context                         *)
  ReadExpression(_, _, _),  (* an expression, with the type wanted         *)
  WithLengths(_, _, _),     (* a type where the named lengths are replaced *)
  CannotReplace(_, _)       (* whether replacing them stops the program    *)

GameContext(name) ==
    [name |-> name, scope |-> Enter(EmptyScope), types |-> {}, consts |-> <<>>,
     insts |-> <<>>, edges |-> <<>>, exports |-> <<>>, err |-> ""]

-----------------------------------------------------------------------------
(* The values of parameters.  Those of the integers come first, and every  *)
(* length given by such a parameter is rewritten to its value in the types *)
(* of the others.  An integer can only be a constant or a literal.         *)
LengthFor(v) ==
    IF v.err # "" THEN AnyLength
    ELSE IF v.e[1] = "var" THEN LengthOf(v.e[2]) ELSE Num(v.e[2])
ReadInteger(ctx, e) ==
    LET v == ReadExpression(ctx, e, <<Integer>>)
    IN  IF v.err = "" /\ v.e[1] \notin {"var", "int"} THEN Panic ELSE v

(* decls are the declared parameters, of a package ("const") or of a game  *)
(* ("game"); ctx is where the values are read.                             *)
IntNames(decls) == {name \in Keys(decls) : FirstOf(decls, name) = Integer}
ReadParam(ctx, want, def, repeated) ==
    IF repeated THEN Error ELSE ReadExpression(ctx, def[2], <<want>>)
Complete(decls, defs, values) ==
    IF Failures(values) # {} THEN FirstFailure(values)
    ELSE IF Keys(decls) \ Keys(defs) # {} THEN Error
    ELSE Resolved(Empty, [n \in DOMAIN defs |-> <<defs[n][1], values[n].e>>])

(* Reads the others, given the values of the integers.                     *)
HandleOtherParams(ctx, kind, decls, ints, others, intValues) ==
    LET rules == [p \in Keys(ints) |->
                     LengthFor(FirstOf([n \in DOMAIN ints |-> <<ints[n][1], intValues[n]>>], p))]
        Repeated(defs, n) == \E o \in 1..(n - 1) : defs[o][1] = defs[n][1]
        Other(n) ==
            IF others[n][1] \notin Keys(decls) THEN Error
            ELSE IF CannotReplace(rules, FirstOf(decls, others[n][1])) THEN Panic
            ELSE ReadParam(ctx, WithLengths(kind, rules, FirstOf(decls, others[n][1])),
                           others[n], Repeated(others, n))
        IntParam(n) == IF intValues[n].err = "" /\ Repeated(ints, n) THEN Error ELSE intValues[n]
    IN  Complete(decls, ints \o others, [n \in DOMAIN ints |-> IntParam(n)] \o
                                        [n \in DOMAIN others |-> Other(n)])

(* For a package an integer that stops the program does so before any      *)
(* error is seen.                                                          *)
HandleParamsWithInts(ctx, kind, decls, ints, others, intValues) ==
    LET early == {n \in DOMAIN intValues : intValues[n] = Panic \/ (kind = "game" /\ intValues[n].err # "")}
    IN  IF early # {} THEN intValues[CHOOSE n \in early : \A o \in early : n <= o]
        ELSE HandleOtherParams(ctx, kind, decls, ints, others, intValues)
HandleFullDefs(ctx, kind, decls, defs) ==
    LET ints == Selected(defs, IntNames(decls))
    IN  HandleParamsWithInts(ctx, kind, decls, ints, Selected(defs, Keys(defs) \ IntNames(decls)),
                             [n \in DOMAIN ints |-> ReadInteger(ctx, ints[n][2])])

(* A parameter given by its name alone, <<name>>, has the value of that    *)
(* name where a package is instantiated.  A theorem expects a value with   *)
(* every name and stops at once.                                           *)
IsShort(def) == Len(def) = 1
WrittenOut(def) == IF IsShort(def) THEN <<def[1], Var(def[1])>> ELSE def
HandleParamsDefList(ctx, kind, decls, list) ==
    IF kind = "game" /\ (\E def \in Range(list) : IsShort(def)) THEN Panic
    ELSE HandleFullDefs(ctx, kind, decls, [n \in DOMAIN list |-> WrittenOut(list[n])])

(* The blocks of an instance, each params block complete in itself.  What  *)
(* the types of a package stand for is read and never used; those of a     *)
(* game are not read.                                                      *)
HandleTypesList(ctx, list) ==
    LET types == [n \in DOMAIN list |-> ReadType(ctx, list[n])]
    IN  IF list = <<>> THEN Panic
        ELSE IF Failures(types) # {} THEN FirstFailure(types)
        ELSE Resolved(Empty, <<>>)
HandleAssignBlock(ctx, kind, decls, block) ==
    CASE block.b = "params" /\ block.list # <<>> -> HandleParamsDefList(ctx, kind, decls, block.list)
      [] block.b = "types" /\ kind = "const" -> HandleTypesList(ctx, block.list)
      [] OTHER -> Resolved(Empty, <<>>)
AllAssigned(decls, values) ==
    IF Keys(decls) \ Keys(values) # {} THEN Error ELSE Resolved(Empty, values)
JoinBlocks(decls, read) ==
    IF Failures(read) # {} THEN FirstFailure(read)
    ELSE AllAssigned(decls, FlattenSeq([n \in DOMAIN read |-> read[n].e]))
HandleInstanceAssignList(ctx, kind, decls, blocks) ==
    JoinBlocks(decls, [n \in DOMAIN blocks |-> HandleAssignBlock(ctx, kind, decls, blocks[n])])

(* The values of a package are sorted before the first of each name is     *)
(* taken: literals, by their number, before constants.                     *)
Precedes(v, w) ==
    LET literals == {"int", "bool", "bits"}
    IN  \/ v[2][1] \in literals /\ w[2][1] \notin literals
        \/ v[2][1] = "int" /\ w[2][1] = "int" /\ v[2][2] < w[2][2]
SortParams(values) == SortSeq(values, Precedes)

-----------------------------------------------------------------------------
HandleGameConst(ctx, spec) ==
    LET r == ReadType(ctx, spec.ty)
        id == TypedIdent("game", spec.name, ctx.name, r.ty)
    IN  IF r.err # "" THEN Fail(ctx, r.err)
        ELSE IF ~MayDeclare(ctx.scope, spec.name) THEN Fail(ctx, "error")
        ELSE [ctx EXCEPT !.consts = Append(@, <<spec.name, r.ty>>),
                         !.scope = Declare(@, spec.name, IdentDecl(id))]

AddPackageInstance(ctx, spec, pkg, values) ==
    IF values.err # "" THEN Fail(ctx, values.err)
    ELSE [ctx EXCEPT !.insts = Append(@, NewPackageInstance(spec.name, pkg, SortParams(values.e)))]
HandleInstanceDecl(ctx, pkgs, spec) ==
    LET declared == [ctx EXCEPT !.scope = Declare(@, spec.name, InstanceDecl)]
    IN  IF spec.pkg \notin DOMAIN pkgs \/ ~MayDeclare(ctx.scope, spec.name) THEN Fail(ctx, "error")
        ELSE AddPackageInstance(declared, spec, pkgs[spec.pkg],
                 HandleInstanceAssignList(declared, "const", pkgs[spec.pkg].params, spec.blocks))

InstanceNamed(ctx, name) == {n \in DOMAIN ctx.insts : ctx.insts[n].name = name}
ImportNamed(pkg, name) == {n \in DOMAIN pkg.imports : pkg.imports[n].name = name}

(* The first oracle of that name: a package may have several.              *)
OracleNamed(pkg, name) ==
    LET named == {n \in DOMAIN pkg.oracles : pkg.oracles[n].sig.name = name}
    IN  {n \in named : \A o \in named : n <= o}

(* The destination of one wire: [oracle, to, alias].                       *)
Destination(ctx, wire) ==
    LET to  == CHOOSE n \in InstanceNamed(ctx, wire.to) : TRUE
        pkg == ctx.insts[to].pkg
    IN  IF InstanceNamed(ctx, wire.to) = {} THEN Error
        ELSE IF OracleNamed(pkg, wire.oracle) = {} THEN Error
        ELSE LET sig == pkg.oracles[CHOOSE n \in OracleNamed(pkg, wire.oracle) : TRUE].sig
             IN  Resolved(Empty, [to |-> to, sig |-> sig])

HandleExport(ctx, wire) ==
    LET dst == Destination(ctx, wire)
        sig == InstantiateSig(dst.e.sig)
    IN  IF dst.err # "" THEN dst
        ELSE IF sig.err # "" THEN sig
        ELSE Resolved(Empty, [to |-> dst.e.to, sig |-> sig.e, alias |-> wire.alias])

(* All the exports of a body are read before any of them is added.         *)
HandleExports(ctx, wires) ==
    LET read == [n \in DOMAIN wires |-> HandleExport(ctx, wires[n])]
        exports == ctx.exports \o [n \in DOMAIN read |-> read[n].e]
    IN  IF Failures(read) # {} THEN Fail(ctx, FirstFailure(read).err)
        ELSE IF \E m \in DOMAIN exports : \E n \in 1..(m - 1) : NameOf(exports[n]) = NameOf(exports[m])
        THEN Fail(ctx, "error")
        ELSE [ctx EXCEPT !.exports = exports]

(* A wire of an instance; AnySignature is a faulty variant of WireMatches. *)
AnySignature(import, sig) == "match"
WireMatches(import, sig) ==
    LET instantiated == <<InstantiateSig(sig), InstantiateSig(import)>>
    IN  IF Failures(instantiated) # {} THEN "panic" ELSE SigsMatch(sig, import)
ImportOf(wire) == IF wire.alias = <<>> THEN wire.oracle ELSE wire.alias[1]
HandleEdge(ctx, from, wire, repeated) ==
    LET name == ImportOf(wire)
        pkg == ctx.insts[from].pkg
        dst == Destination(ctx, wire)
        matches == WireMatches(pkg.imports[CHOOSE n \in ImportNamed(pkg, name) : TRUE], dst.e.sig)
    IN  IF InstanceNamed(ctx, wire.to) = {} THEN Error
        ELSE IF ImportNamed(pkg, name) = {} THEN Error
        ELSE IF dst.err # "" THEN dst
        ELSE IF matches = "panic" THEN Panic
        ELSE IF matches # "match" \/ repeated THEN Error
        ELSE Resolved(Empty, [from |-> from, to |-> dst.e.to, sig |-> dst.e.sig, alias |-> wire.alias])

(* Duplicates are looked for within one body of wires only; NeverRepeated  *)
(* is a faulty variant.                                                    *)
NeverRepeated(wires, n) == FALSE
WireIsRepeated(wires, n) == \E o \in 1..(n - 1) : ImportOf(wires[o]) = ImportOf(wires[n])
HandleEdges(ctx, from, wires) ==
    LET read == [n \in DOMAIN wires |-> HandleEdge(ctx, from, wires[n], WireIsRepeated(wires, n))]
    IN  IF Failures(read) # {} THEN Fail(ctx, FirstFailure(read).err)
        ELSE [ctx EXCEPT !.edges = @ \o [n \in DOMAIN read |-> read[n].e]]

(* The bodies of a compose block, each [src, wires], one after the other;  *)
(* one without wires stops the program.                                    *)
HandleBody(ctx, body) ==
    IF ctx.err # "" THEN ctx
    ELSE IF body.wires = <<>> THEN Fail(ctx, "panic")
    ELSE IF body.src = "adversary" THEN HandleExports(ctx, body.wires)
    ELSE IF InstanceNamed(ctx, body.src) = {} THEN Fail(ctx, "error")
    ELSE HandleEdges(ctx, CHOOSE n \in InstanceNamed(ctx, body.src) : TRUE, body.wires)
HandleCompose(ctx, bodies) ==
    LET after[n \in 0..Len(bodies)] == IF n = 0 THEN ctx ELSE HandleBody(after[n - 1], bodies[n])
    IN  after[Len(bodies)]

HandleSpec(ctx, pkgs, spec) ==
    CASE spec.b = "const"    -> HandleGameConst(ctx, spec)
      [] spec.b = "instance" -> HandleInstanceDecl(ctx, pkgs, spec)
      [] spec.b = "compose"  -> HandleCompose(ctx, spec.bodies)

(* At the end of the file every import must have a wire.                   *)
MissingEdges(ctx) ==
    (UNION {{<<n, import.name>> : import \in Range(ctx.insts[n].pkg.imports)} : n \in DOMAIN ctx.insts})
    \ {<<edge.from, NameOf(edge)>> : edge \in Range(ctx.edges)}
FinishGame(ctx) == IF MissingEdges(ctx) # {} THEN Fail(ctx, "error") ELSE ctx
=============================================================================
