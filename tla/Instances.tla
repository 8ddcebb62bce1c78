------------------------------- MODULE Instances -------------------------------
(***************************************************************************)
(* Instances of packages and of games (packageinstance.rs, theorem.rs,     *)
(* types.rs): everything in them is rewritten for the values of the        *)
(* instance, and signatures of two of them are compared.                   *)
(*                                                                         *)
(* How one type, expression or block of code is rewritten or compared is   *)
(* left open: module Instantiation says what the code does.  inst is       *)
(* [src, values]: src is "const" for a package and "game" for a game.      *)
(***************************************************************************)
EXTENDS Parsing

CONSTANTS
  TypeFor(_, _),        (* a type, for an instance                         *)
  ExpressionFor(_, _),  (* an expression, for an instance                  *)
  CodeFor(_, _),        (* a block of code, for an instance                *)
  SameType(_, _),       (* whether two types are the same one              *)
  NamesAType(_)         (* whether a type has a declared name in it        *)

RewriteSig(inst, sig) ==
    [sig EXCEPT !.ret = TypeFor(inst, @),
                !.args = [n \in DOMAIN @ |-> <<@[n][1], TypeFor(inst, @[n][2])>>]]
RewriteDecls(inst, decls) ==
    [n \in DOMAIN decls |-> <<decls[n][1], TypeFor(inst, decls[n][2])>>]
RewritePackage(inst, pkg) ==
    [pkg EXCEPT !.params = RewriteDecls(inst, @), !.state = RewriteDecls(inst, @),
                !.imports = [n \in DOMAIN @ |-> RewriteSig(inst, @[n])],
                !.oracles = [n \in DOMAIN @ |-> [sig |-> RewriteSig(inst, @[n].sig),
                                                 code |-> CodeFor(inst, @[n].code)]]]

(* A package instance, and a game with all its package instances.          *)
NewPackageInstance(name, pkg, values) ==
    [name |-> name, values |-> values,
     pkg |-> RewritePackage([src |-> "const", values |-> values], pkg)]
NewGameInstance(name, game, values) ==
    LET inst == [src |-> "game", values |-> values]
        RewritePkgInst(p) ==
            [p EXCEPT !.pkg = RewritePackage(inst, @),
                      !.values = [n \in DOMAIN @ |-> <<@[n][1], ExpressionFor(inst, @[n][2])>>]]
    IN  [name |-> name, values |-> values,
         game |-> [game EXCEPT
            !.consts  = RewriteDecls(inst, @),
            !.insts   = [n \in DOMAIN @ |-> RewritePkgInst(@[n])],
            !.edges   = [n \in DOMAIN @ |-> [@[n] EXCEPT !.sig = RewriteSig(inst, @)]],
            !.exports = [n \in DOMAIN @ |-> [@[n] EXCEPT !.sig = RewriteSig(inst, @)]]]]

-----------------------------------------------------------------------------
SigsMatch(l, r) ==
    LET args == [n \in DOMAIN l.args |-> SameType(l.args[n][2], r.args[n][2])]
        ret  == SameType(l.ret, r.ret)
    IN  IF ret # "match" THEN ret
        ELSE IF Len(l.args) # Len(r.args) THEN "differ"
        ELSE AllMatch(args)

(* Signatures of a package instance are instantiated once more, which      *)
(* finds nothing to replace and stops the program at a type that is named. *)
InstantiateSig(sig) ==
    IF \E t \in SigTypes(sig) : NamesAType(t) THEN Panic ELSE Resolved(Empty, sig)
=============================================================================
