------------------------------- MODULE TypeRules -------------------------------
(***************************************************************************)
(* What the types of an expression are, stated rule by rule and with no    *)
(* direction of inference: the reference the parser is compared with.      *)
(* TypesOf is taken within a finite set of types, universe; env gives the  *)
(* type of every name that is declared.                                    *)
(***************************************************************************)
EXTENDS TypeInference

RECURSIVE Products(_)
Products(sets) ==
    IF sets = <<>> THEN {<<>>}
    ELSE {<<t>> \o ts : t \in Head(sets), ts \in Products(Tail(sets))}

(* What is left open (None, an empty set) has any type of the universe.    *)
RECURSIVE TypesOf(_, _, _)
TypesOf(universe, env, e) ==
    LET op == e[1]
        args == [n \in DOMAIN e[3] |-> TypesOf(universe, env, e[3][n])]
        each(t) == \A n \in DOMAIN args : t \in args[n]
        Only(t, b) == IF b THEN {t} ELSE {}
        common == {t \in args[1] : each(t)}
        known == e[2] \in DOMAIN env
    IN  CASE op \in {"add", "sub", "mul", "div"} -> Only(Integer, each(Integer))
          [] op = "less" -> Only(Boolean, each(Integer))
          [] op \in {"and", "or", "xor", "not"} -> Only(Boolean, each(Boolean))
          [] op \in {"eq", "neq"} -> Only(Boolean, common # {})
          [] op = "none" -> {Maybe(t) : t \in IF e[2] = <<>> THEN universe ELSE {e[2]}}
          [] op = "some" -> {Maybe(t) : t \in args[1]}
          [] op = "unwrap" -> {t[3][1] : t \in {t \in args[1] : t[1] = "Maybe"}}
          [] op = "newtable" -> {e[2]}
          [] op = "get" -> IF known /\ env[e[2]][1] = "Table"
                           THEN Only(Maybe(env[e[2]][3][2]), each(env[e[2]][3][1])) ELSE {}
          [] op = "call" -> IF known /\ env[e[2]][1] = "Fn"
                            THEN Only(Last(env[e[2]][3]), Front(env[e[2]][3]) \in Products(args))
                            ELSE {}
          [] op = "var" -> IF known THEN {env[e[2]]} ELSE {}
          [] op = "bits" -> {Bits(e[2][2])}
          [] op = "empty-bitstring" -> {Bits(AnyLength)}
          [] op = "bool" -> {Boolean}
          [] op = "int" -> {Integer}
          [] op = "emptyset" -> {SetOf(t) : t \in universe}
          [] op = "list" -> {ListOf(t) : t \in common}
          [] op = "set" -> {SetOf(t) : t \in common}
          [] op = "tuple" -> {TupleType(ts) : ts \in Products(args)}
=============================================================================
