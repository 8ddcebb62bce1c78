------------------------------- MODULE Scope -------------------------------
(***************************************************************************)
(* The stack of name tables of the parsers (util/scope.rs).  A scope is    *)
(* [entries, types]: the tables, innermost last, and every declaration     *)
(* ever made, those of tables that are gone included.                      *)
(***************************************************************************)
EXTENDS Integers, Sequences, SequencesExt

EmptyScope == [entries |-> <<>>, types |-> {}]

Enter(scope) == [scope EXCEPT !.entries = Append(@, <<>>)]
Leave(scope) == [scope EXCEPT !.entries = Front(@)]

Tables(scope, id) == {n \in DOMAIN scope.entries : id \in DOMAIN scope.entries[n]}
Declared(scope, id) == Tables(scope, id) # {}

(* The declaration in the innermost table that has one.                    *)
Lookup(scope, id) ==
    LET n == CHOOSE n \in Tables(scope, id) : \A o \in Tables(scope, id) : o <= n
    IN  scope.entries[n][id]

(* A name that is visible in any table cannot be declared; ShadowingOuter  *)
(* is a faulty variant that looks at the innermost table only.             *)
ShadowingOuter(scope, id) == Len(scope.entries) \notin Tables(scope, id)
MayDeclare(scope, id) == ~Declared(scope, id)
Declare(scope, id, decl) ==
    [entries |-> [scope.entries EXCEPT ![Len(scope.entries)] =
                     [n \in DOMAIN @ \union {id} |-> IF n = id THEN decl ELSE @[n]]],
     types   |-> scope.types \union {decl}]

IdentDecl(id)    == [d |-> "ident", id |-> id]
OracleDecl(sig)  == [d |-> "oracle", sig |-> sig]
InstanceDecl     == [d |-> "instance"]

IsIdent(scope, name) == Declared(scope, name) /\ Lookup(scope, name).d = "ident"
=============================================================================
