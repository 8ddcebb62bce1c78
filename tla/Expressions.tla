------------------------------ MODULE Expressions ------------------------------
(***************************************************************************)
(* Expressions and identifiers of a project (expressions.rs,               *)
(* identifier.rs).  An expression is a triple <<operator, leaf,            *)
(* arguments>>.                                                            *)
(***************************************************************************)

(* Identifiers: <<kind, name, number>>.  "state" variables belong to the   *)
(* package instance, the others to one call of an oracle; "gen" are those  *)
(* a pass generates.                                                       *)
Ident(kind, name) == <<kind, name, 0>>
Generated(name, n) == <<"gen", name, n>>

Lit(v)      == <<"lit", v, <<>>>>
Var(id)     == <<"var", id, <<>>>>
Some(e)     == <<"some", <<>>, <<e>>>>
Unwrap(e)   == <<"unwrap", <<>>, <<e>>>>
Access(t,e) == <<"get", t, <<e>>>>
Equals(a,b) == <<"eq", <<>>, <<a, b>>>>
Add(a,b)    == <<"add", <<>>, <<a, b>>>>
Tuple(es)   == <<"tuple", <<>>, es>>
===============================================================================
