----------------------------- MODULE Instantiation -----------------------------
(***************************************************************************)
(* Giving the constants of a package, and then of a game, their values     *)
(* (packageinstance.rs, theorem.rs, types.rs, identifier.rs).              *)
(*                                                                         *)
(* An identifier that has been given a value carries it:                   *)
(* <<kind, name, <<owner, type, value>>>>.  A constant of a package has    *)
(* kind "const" and an expression over constants of the game as its value, *)
(* a constant of a game has kind "game" and an expression over constants   *)
(* of the theorem.  Values are sequences of pairs <<name, expression>>.    *)
(***************************************************************************)
EXTENDS PackageParser

Valued(id, ty, value) == <<id[1], id[2], <<id[3][1], ty, value>>>>
ValueOf(id) == IF Len(id[3]) = 3 THEN <<id[3][3]>> ELSE <<>>
Retyped(id, ty) == <<id[1], id[2], [id[3] EXCEPT ![2] = ty]>>

-----------------------------------------------------------------------------
(* Instantiating rewrites one level: src is "const" for a package and      *)
(* "game" for a game, values the values of its constants.                  *)
RECURSIVE RewriteType(_, _), RewriteExpression(_, _), RewriteIdentifier(_, _)

(* OneLevel is a faulty variant that leaves values as they are.            *)
OneLevel(inst, n) ==
    IF n[1] = "id" /\ n[2][1] = inst.src
    THEN LengthOf(Valued(n[2], TypeOf(n[2]), FirstOf(inst.values, n[2][2]))) ELSE n
RewriteCountSpec(inst, n) ==
    LET id == n[2]
    IN  CASE n[1] # "id" -> n
          [] n[1] = "id" /\ id[1] = inst.src ->
                LengthOf(Valued(id, TypeOf(id), FirstOf(inst.values, id[2])))
          [] n[1] = "id" /\ id[1] = "const" /\ inst.src = "game" ->
                LengthOf(Valued(id, TypeOf(id), RewriteExpression(inst, ValueOf(id)[1])))
          [] OTHER -> n

RewriteType(inst, t) ==
    <<t[1], IF t[1] = "Bits" THEN RewriteCountSpec(inst, t[2]) ELSE t[2],
      [n \in DOMAIN t[3] |-> RewriteType(inst, t[3][n])]>>

(* Instantiating the game, the value of a constant of the package is       *)
(* rewritten only if it is an identifier.  The type of a constant of the   *)
(* game is left as it is.                                                  *)
RewriteValue(inst, id) ==
    LET v == ValueOf(id)
    IN  CASE id[1] = inst.src -> Valued(id, TypeOf(id), FirstOf(inst.values, id[2]))
          [] id[1] = "const" /\ inst.src = "game" /\ v # <<>> /\ v[1][1] = "var" ->
                Valued(id, TypeOf(id), Var(RewriteIdentifier(inst, v[1][2])))
          [] OTHER -> id
RewriteIdentifier(inst, id) ==
    LET new == RewriteValue(inst, id)
    IN  IF id[1] \in {"game", "loop"} THEN new ELSE Retyped(new, RewriteType(inst, TypeOf(new)))

RewriteLeaf(inst, e) ==
    CASE e[1] \in {"var", "get", "call"} -> RewriteIdentifier(inst, e[2])
      [] e[1] \in {"none", "newtable"} -> RewriteType(inst, e[2])
      [] e[1] = "bits" -> <<e[2][1], RewriteCountSpec(inst, e[2][2])>>
      [] OTHER -> e[2]
RewriteExpression(inst, e) ==
    <<e[1], RewriteLeaf(inst, e), [n \in DOMAIN e[3] |-> RewriteExpression(inst, e[3][n])]>>
RewriteAll(inst, es) == [n \in DOMAIN es |-> RewriteExpression(inst, es[n])]

-----------------------------------------------------------------------------
RewritePattern(inst, pat) ==
    CASE pat.p = "ident" -> PIdent(RewriteIdentifier(inst, pat.id))
      [] pat.p = "table" ->
            PTable(RewriteIdentifier(inst, pat.id), RewriteExpression(inst, pat.index))
      [] pat.p = "tuple" ->
            PTuple([n \in DOMAIN pat.ids |-> RewriteIdentifier(inst, pat.ids[n])])
RewriteRhs(inst, rhs) ==
    CASE rhs.r = "expr"   -> Expr(RewriteExpression(inst, rhs.e))
      [] rhs.r = "sample" -> [rhs EXCEPT !.ty = RewriteType(inst, @)]
      [] rhs.r = "invoke" -> [rhs EXCEPT !.args = RewriteAll(inst, @)]

RECURSIVE RewriteCode(_, _)
RewriteStatement(inst, s) ==
    CASE s.k = "abort"  -> s
      [] s.k = "return" -> [s EXCEPT !.val = RewriteAll(inst, @)]
      [] s.k = "assign" -> Assign(RewritePattern(inst, s.pat), RewriteRhs(inst, s.rhs))
      [] s.k = "invoke" -> [s EXCEPT !.args = RewriteAll(inst, @)]
      [] s.k = "ite"    -> If(RewriteExpression(inst, s.cond),
                              RewriteCode(inst, s.then), RewriteCode(inst, s.else))
      [] s.k = "for"    -> [s EXCEPT !.id = RewriteIdentifier(inst, @),
                                     !.lo = RewriteExpression(inst, @),
                                     !.hi = RewriteExpression(inst, @),
                                     !.body = RewriteCode(inst, @)]
RewriteCode(inst, code) == [n \in DOMAIN code |-> RewriteStatement(inst, code[n])]

-----------------------------------------------------------------------------
(* A type of a parameter where the lengths that rules names are replaced.  *)
RECURSIVE ReplaceLengths(_, _, _)
ReplaceLengths(kind, rules, t) ==
    LET ruled == t[1] = "Bits" /\ t[2][1] = "id" /\ t[2][2][1] = kind /\ t[2][2][2] \in DOMAIN rules
    IN  <<t[1], IF ruled THEN rules[t[2][2][2]] ELSE t[2],
          [n \in DOMAIN t[3] |-> ReplaceLengths(kind, rules, t[3][n])]>>

(* It may name no declared type, and no length that is an integer of a     *)
(* package called n if there is no rule at all.                            *)
RECURSIVE StopsReplacing(_, _)
StopsReplacing(rules, t) ==
    \/ t[1] = "UserDefined"
    \/ /\ t[1] = "Bits" /\ t[2][1] = "id" /\ DOMAIN rules = {}
       /\ t[2][2][1] = "const" /\ t[2][2][2] = "n" /\ TypeOf(t[2][2]) = Integer
    \/ \E n \in DOMAIN t[3] : StopsReplacing(rules, t[3][n])

-----------------------------------------------------------------------------
(* Whether two types are the same one for two instances: "match",          *)
(* "differ" or "panic".  What a constant stands for is compared, up to the *)
(* innermost values that both have; a length that is no constant cannot be *)
(* compared with another.                                                  *)
RECURSIVE IdentifiersMatch(_, _)
IdentifiersMatch(l, r) ==
    LET lv == ValueOf(l)
        rv == ValueOf(r)
        Through(v, id) == IF v[1][1] = "var" THEN IdentifiersMatch(id, v[1][2]) ELSE "differ"
    IN  CASE l[1] = r[1] /\ l[1] \in {"const", "game"} ->
                IF lv = <<>> \/ rv = <<>> THEN Match(l[2] = r[2] /\ l[3][1] = r[3][1])
                ELSE IF lv[1][1] = "var" /\ rv[1][1] = "var"
                     THEN IdentifiersMatch(lv[1][2], rv[1][2]) ELSE Match(lv = rv)
          [] l[1] = "theorem" /\ r[1] = "theorem" -> Match(l[2] = r[2])
          [] l[1] = "const" /\ r[1] = "game" -> Through(lv, r)
          [] l[1] = "game" /\ r[1] = "const" -> Through(rv, l)
          [] OTHER -> "panic"

CountspecsMatch(l, r) ==
    IF l[1] = "id" /\ r[1] = "id" THEN IdentifiersMatch(l[2], r[2]) ELSE Match(l = r)

(* The numbers of arguments of two functions are not compared.  AnyLengths *)
(* is a faulty variant that takes all bit strings for one type.            *)
RECURSIVE AnyLengths(_, _)
AnyLengths(l, r) ==
    Match(/\ l[1] = r[1] /\ Len(l[3]) = Len(r[3])
          /\ \A n \in DOMAIN l[3] : AnyLengths(l[3][n], r[3][n]) = "match")
RECURSIVE TypesMatch(_, _)
TypesMatch(l, r) ==
    LET common == IF Len(l[3]) < Len(r[3]) THEN Len(l[3]) ELSE Len(r[3])
        Parts(size) == [n \in 1..size |-> TypesMatch(l[3][n], r[3][n])]
    IN  IF l[1] # r[1] THEN "differ"
        ELSE IF l[1] = "Bits" THEN CountspecsMatch(l[2], r[2])
        ELSE IF l[1] = "Fn" THEN AllMatch(Append(Parts(common - 1), TypesMatch(Last(l[3]), Last(r[3]))))
        ELSE IF l[2] # r[2] \/ Len(l[3]) # Len(r[3]) THEN "differ" ELSE AllMatch(Parts(common))

RECURSIVE HasUserType(_)
HasUserType(t) == t[1] = "UserDefined" \/ \E n \in DOMAIN t[3] : HasUserType(t[3][n])
=============================================================================
