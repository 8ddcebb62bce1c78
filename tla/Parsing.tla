-------------------------------- MODULE Parsing --------------------------------
(***************************************************************************)
(* What the parsers of packages, games and theorems have in common         *)
(* (types.rs, parser/common.rs, parser/package.rs): types, results and     *)
(* contexts.                                                               *)
(*                                                                         *)
(* A type is a triple <<kind, length or name, component types>>.  In a     *)
(* source text a variable and a length are names; resolving replaces them  *)
(* by identifiers <<kind, name, <<oracle, type>>>>.  Resolving gives       *)
(* [err, ty, e]: err is "" or "error" (a diagnostic) or "panic" (the       *)
(* program stops).                                                         *)
(***************************************************************************)
EXTENDS Scope, Expressions

Integer  == <<"Integer", <<>>, <<>>>>
Boolean  == <<"Boolean", <<>>, <<>>>>
Empty    == <<"Empty", <<>>, <<>>>>
Unknown  == <<"Unknown", <<>>, <<>>>>
Untyped  == <<"todo", <<>>, <<>>>>      \* get_type of an empty set stops the program
Bits(n)  == <<"Bits", n, <<>>>>
Maybe(t) == <<"Maybe", <<>>, <<t>>>>
SetOf(t)  == <<"Set", <<>>, <<t>>>>
ListOf(t) == <<"List", <<>>, <<t>>>>
Table(k, v)    == <<"Table", <<>>, <<k, v>>>>
TupleType(ts)    == <<"Tuple", <<>>, ts>>
Fn(args, ret)  == <<"Fn", <<>>, Append(args, ret)>>
UserType(name) == <<"UserDefined", <<name>>, <<>>>>

(* Lengths: a name in a source text, resolved to an identifier.            *)
AnyLength     == <<"any">>
Named(name)   == <<"name", name>>
Num(n)        == <<"num", n>>
LengthOf(id)  == <<"id", id>>

TypedIdent(kind, name, oracle, ty) == <<kind, name, <<oracle, ty>>>>
TypeOf(id) == id[3][2]

Resolved(ty, e) == [err |-> "", ty |-> ty, e |-> e]
Error == [err |-> "error", ty |-> Unknown, e |-> <<>>]
Panic == [err |-> "panic", ty |-> Unknown, e |-> <<>>]

Failures(rs)     == {n \in DOMAIN rs : rs[n].err # ""}
FirstFailure(rs) == rs[CHOOSE n \in Failures(rs) : \A o \in Failures(rs) : n <= o]

-----------------------------------------------------------------------------
(* The context at the start of a package, and of what cannot go on.        *)
EmptyContext ==
    [types |-> {}, scope |-> Enter(EmptyScope), params |-> <<>>, state |-> <<>>,
     imports |-> <<>>, oracles |-> <<>>, err |-> ""]

Fail(ctx, err) == [ctx EXCEPT !.err = err]

-----------------------------------------------------------------------------
(* Declarations and values are sequences of pairs <<name, type>> and       *)
(* <<name, expression>>; what a name stands for is the first of its pairs. *)
(* Selected keeps the pairs with one of the names, in their order.         *)
PairsNamed(pairs, name) == {n \in DOMAIN pairs : pairs[n][1] = name}
FirstOf(pairs, name) ==
    pairs[CHOOSE n \in PairsNamed(pairs, name) : \A o \in PairsNamed(pairs, name) : n <= o][2]
Keys(pairs) == {pairs[n][1] : n \in DOMAIN pairs}
Selected(pairs, names) ==
    FlattenSeq([n \in DOMAIN pairs |-> IF pairs[n][1] \in names THEN <<pairs[n]>> ELSE <<>>])

(* The name an edge or an export is known by, and the types of a signature. *)
NameOf(wire) == IF wire.alias = <<>> THEN wire.sig.name ELSE wire.alias[1]
SigTypes(sig) == {sig.ret} \union {a[2] : a \in Range(sig.args)}

(* Comparing: "match", "differ" or "panic".                              *)
Match(b) == IF b THEN "match" ELSE "differ"
AllMatch(results) ==
    LET failed == {n \in DOMAIN results : results[n] # "match"}
    IN  IF failed = {} THEN "match" ELSE results[CHOOSE n \in failed : \A o \in failed : n <= o]
=============================================================================
