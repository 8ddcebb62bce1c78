----------------------------- MODULE Transforms -----------------------------
(***************************************************************************)
(* The passes of the equivalence pipeline, as operators on blocks of       *)
(* oracle code.  A pass that numbers what it generates threads a counter   *)
(* through the statements in the order of the program, into the branches   *)
(* of conditionals and the bodies of loops.                                *)
(***************************************************************************)
EXTENDS SspLanguage, FiniteSetsExt

(* Op maps a statement and a counter to the statements that replace it and *)
(* the counter after them.                                                 *)
Thread(Op(_, _), cb, ctr) ==
    FoldLeft(LAMBDA acc, s : LET r == Op(s, acc.ctr)
                             IN  [code |-> acc.code \o r.code, ctr |-> r.ctr],
             [code |-> <<>>, ctr |-> ctr], cb)

Descend(Op(_, _), s, ctr) ==
    CASE s.k = "ite" -> LET t == Thread(Op, s.then, ctr)
                            e == Thread(Op, s.else, t.ctr)
                        IN  [code |-> <<[s EXCEPT !.then = t.code, !.else = e.code]>>,
                             ctr |-> e.ctr]
      [] s.k = "for" -> LET b == Thread(Op, s.body, ctr)
                        IN  [code |-> <<[s EXCEPT !.body = b.code]>>, ctr |-> b.ctr]
      [] OTHER -> [code |-> <<s>>, ctr |-> ctr]

(* The expressions of a statement, those of nested blocks apart, in the    *)
(* order the passes visit them; and the statement with other ones.         *)
PatOperands(pat) == IF pat.p = "table" THEN <<pat.index>> ELSE <<>>
RhsOperands(rhs) == CASE rhs.r = "expr" -> <<rhs.e>>
                      [] rhs.r = "invoke" -> rhs.args
                      [] OTHER -> <<>>
Operands(s) ==
    CASE s.k = "assign" -> PatOperands(s.pat) \o RhsOperands(s.rhs)
      [] s.k = "return" -> s.val
      [] s.k = "invoke" -> s.args
      [] s.k = "ite"    -> <<s.cond>>
      [] s.k = "for"    -> <<s.lo, s.hi>>
      [] s.k = "abort"  -> <<>>

WithOperands(s, es) ==
    CASE s.k = "assign" ->
            LET n == Len(PatOperands(s.pat))
                rest == SubSeq(es, n + 1, Len(es))
            IN  Assign(IF n = 0 THEN s.pat ELSE [s.pat EXCEPT !.index = es[1]],
                       CASE s.rhs.r = "expr" -> Expr(rest[1])
                         [] s.rhs.r = "invoke" -> [s.rhs EXCEPT !.args = rest]
                         [] OTHER -> s.rhs)
      [] s.k = "return" -> [s EXCEPT !.val = es]
      [] s.k = "invoke" -> [s EXCEPT !.args = es]
      [] s.k = "ite"    -> [s EXCEPT !.cond = es[1]]
      [] s.k = "for"    -> [s EXCEPT !.lo = es[1], !.hi = es[2]]
      [] s.k = "abort"  -> s

-----------------------------------------------------------------------------
(* The parser's check of an oracle with a return type.                     *)
RECURSIVE CheckBlock(_)
CheckBlockThen(cb) ==    \* as if the else branch were not looked at
    /\ cb # <<>>
    /\ CASE Last(cb).k = "return" -> Last(cb).val # <<>>
         [] Last(cb).k = "ite" -> CheckBlock(Last(cb).then)
         [] OTHER -> FALSE
CheckBlock(cb) ==
    /\ cb # <<>>
    /\ CASE Last(cb).k = "return" -> Last(cb).val # <<>>
         [] Last(cb).k = "ite" -> CheckBlock(Last(cb).then) /\ CheckBlock(Last(cb).else)
         [] OTHER -> FALSE

(* deconstructinvoke: (a, b) <- invoke O(args) in two steps.               *)
RECURSIVE Split(_, _)
Split(s, ctr) ==
    IF s.k = "assign" /\ s.pat.p = "tuple" /\ s.rhs.r = "invoke"
    THEN LET tmp == Generated("invoke-result", ctr)
         IN  [code |-> <<Assign(PIdent(tmp), s.rhs), Assign(s.pat, Expr(Var(tmp)))>>,
              ctr |-> ctr + 1]
    ELSE Descend(Split, s, ctr)

(* samplify: a sample gets the number of samples before it in the game.    *)
RECURSIVE NumberSamples(_, _)
NumberSamples(s, ctr) ==
    IF s.k = "assign" /\ s.rhs.r = "sample" /\ s.rhs.id = NoId
    THEN [code |-> <<[s EXCEPT !.rhs.id = ctr]>>, ctr |-> ctr + 1]
    ELSE Descend(NumberSamples, s, ctr)

(* unwrapify: every Unwrap of an expression becomes a generated variable   *)
(* that is assigned, innermost first, before the statement.                *)
RECURSIVE ReplaceUnwrap(_, _)
ReplaceUnwrap(e, ctr) ==
    LET args == FoldLeft(
            LAMBDA acc, a : LET h == ReplaceUnwrap(a, acc.ctr)
                            IN  [es |-> Append(acc.es, h.e), before |-> acc.before \o h.before,
                                 ctr |-> h.ctr],
            [es |-> <<>>, before |-> <<>>, ctr |-> ctr], e[3])
        new == <<e[1], e[2], args.es>>
        id  == Generated("unwrap", args.ctr)
    IN  IF e[1] = "unwrap"
        THEN [e |-> Var(id), before |-> Append(args.before, Assign(PIdent(id), Expr(new))),
              ctr |-> args.ctr + 1]
        ELSE [e |-> new, before |-> args.before, ctr |-> args.ctr]

RECURSIVE Unwrapify(_, _)
UnwrapifyTop(s, ctr) ==    \* as if nested blocks were left alone
    LET h == ReplaceUnwrap(Tuple(Operands(s)), ctr)
    IN  [code |-> Append(h.before, WithOperands(s, h.e[3])), ctr |-> h.ctr]
Unwrapify(s, ctr) ==
    LET h == ReplaceUnwrap(Tuple(Operands(s)), ctr)
        r == Descend(Unwrapify, WithOperands(s, h.e[3]), h.ctr)
    IN  [code |-> h.before \o r.code, ctr |-> r.ctr]

(* resolveoracles: an invocation gets the edge of its instance with that   *)
(* alias; it is dropped, and counted as an error, if there is none.        *)
RECURSIVE Resolve(_, _, _)
Resolve(s, errors, table) ==
    LET Resolved(x) == [x EXCEPT !.edge = <<CHOOSE e \in table : e.alias = x.name>>]
        known(x) == \E e \in table : e.alias = x.name
        Op(t, n) == Resolve(t, n, table)
        drop == [code |-> <<>>, ctr |-> errors + 1]
    IN  CASE s.k = "assign" /\ s.rhs.r = "invoke" ->
                IF known(s.rhs) THEN [code |-> <<[s EXCEPT !.rhs = Resolved(@)]>>, ctr |-> errors]
                                ELSE drop
          [] s.k = "invoke" ->
                IF known(s) THEN [code |-> <<Resolved(s)>>, ctr |-> errors] ELSE drop
          [] OTHER -> Descend(Op, s, errors)

(* returnify: a block whose last statement lets control fall off its end   *)
(* gets a return, if the oracle returns nothing; otherwise it is an error. *)
RECURSIVE Returnify(_)
Returnify(cb) ==
    CASE cb = <<>> -> <<ReturnNone>>
      [] cb # <<>> /\ Last(cb).k = "ite" ->
            Append(Front(cb), [Last(cb) EXCEPT !.then = Returnify(@), !.else = Returnify(@)])
      [] cb # <<>> /\ Last(cb).k \in {"return", "abort"} -> cb
      [] OTHER -> Append(cb, ReturnNone)

RECURSIVE MissingReturn(_)
MissingReturn(cb) ==
    \/ cb = <<>>
    \/ /\ Last(cb).k = "ite"
       /\ MissingReturn(Last(cb).then) \/ MissingReturn(Last(cb).else)
    \/ Last(cb).k \notin {"ite", "return", "abort"}

(* loopunroll: a loop with literal bounds becomes its body once per value  *)
(* from the lower bound up to but not including the upper one, with the    *)
(* loop variable renamed to a generated one.                               *)
LoopIdent(id) == Generated(id[2], 0)

RECURSIVE Rename(_, _)
Rename(e, loops) ==
    IF e[1] = "var" /\ e[2] \in loops THEN Var(LoopIdent(e[2]))
    ELSE <<e[1], e[2], [n \in DOMAIN e[3] |-> Rename(e[3][n], loops)]>>

UnrolledValuesClosed(s) ==    \* as if the upper bound were included
    [n \in 1..(s.hi[2] - s.lo[2] + 1) |-> s.lo[2] + n - 1]

UnrolledValues(s) == [n \in 1..(s.hi[2] - s.lo[2]) |-> s.lo[2] + n - 1]

IsLiteralFor(s) == s.k = "for" /\ s.lo[1] = "lit" /\ s.hi[1] = "lit"

RECURSIVE Unroll(_, _)
Unroll(cb, loops) ==
    LET Renamed(s) == WithOperands(s, [n \in DOMAIN Operands(s) |-> Rename(Operands(s)[n], loops)])
        Once(s) ==
            CASE IsLiteralFor(s) ->
                    LET body == Unroll(s.body, loops \union {s.id})
                        Turn(v) == <<Assign(PIdent(LoopIdent(s.id)), Expr(Lit(v)))>> \o body
                    IN  FlattenSeq([n \in DOMAIN UnrolledValues(s) |-> Turn(UnrolledValues(s)[n])])
              [] s.k = "for" /\ ~IsLiteralFor(s) ->
                    <<[Renamed(s) EXCEPT !.body = Unroll(@, loops)]>>
              [] s.k = "ite" ->
                    <<[Renamed(s) EXCEPT !.then = Unroll(@, loops), !.else = Unroll(@, loops)]>>
              [] OTHER -> <<Renamed(s)>>
    IN  FlattenSeq([n \in DOMAIN cb |-> Once(cb[n])])

(* sample_max_counter_extractor: how often each sample can be drawn by one *)
(* call of an oracle, calls of other oracles followed: the sum over a      *)
(* block and the maximum over the branches of a conditional.               *)
Callees(game, S) ==
    LET calls == {s \in S : s.k = "invoke"} \union
                 {s.rhs : s \in {t \in S : t.k = "assign" /\ t.rhs.r = "invoke"}}
    IN  {Target(game, c.edge[1].to, c.edge[1].name) : c \in calls}

RECURSIVE Reaches(_, _)
Reaches(game, at) ==
    {at} \union UNION {Reaches(game, c) : c \in Callees(game, Statements(game[at].code))}

LoopsLeft(game, at) ==
    {s \in UNION {Statements(game[o].code) : o \in Reaches(game, at)} : s.k = "for"}

RECURSIVE Offsets(_, _, _)
OffsetsThen(game, cb, ids) ==    \* as if an else branch drew nothing
    LET Of(edge) == Offsets(game, game[Target(game, edge[1].to, edge[1].name)].code, ids)
        zero == [i \in ids |-> 0]
        Statement(s) ==
            CASE s.k = "assign" /\ s.rhs.r = "sample" -> [zero EXCEPT ![s.rhs.id] = 1]
              [] s.k = "assign" /\ s.rhs.r = "invoke" -> Of(s.rhs.edge)
              [] s.k = "invoke" -> Of(s.edge)
              [] s.k = "ite" -> Offsets(game, s.then, ids)
              [] OTHER -> zero
    IN  FoldLeft(LAMBDA f, s : [i \in ids |-> f[i] + Statement(s)[i]], zero, cb)

Offsets(game, cb, ids) ==
    LET Of(edge) == Offsets(game, game[Target(game, edge[1].to, edge[1].name)].code, ids)
        Sum(f, g) == [i \in ids |-> f[i] + g[i]]
        Larger(f, g) == [i \in ids |-> IF f[i] >= g[i] THEN f[i] ELSE g[i]]
        zero == [i \in ids |-> 0]
        Statement(s) ==
            CASE s.k = "assign" /\ s.rhs.r = "sample" -> [zero EXCEPT ![s.rhs.id] = 1]
              [] s.k = "assign" /\ s.rhs.r = "invoke" -> Of(s.rhs.edge)
              [] s.k = "invoke" -> Of(s.edge)
              [] s.k = "ite" -> Larger(Offsets(game, s.then, ids), Offsets(game, s.else, ids))
              [] OTHER -> zero
    IN  FoldLeft(LAMBDA f, s : Sum(f, Statement(s)), zero, cb)

(* treeify: what follows the first conditional moves into both branches.   *)
RECURSIVE Treeify(_)
Treeify(cb) ==
    LET ites == {n \in DOMAIN cb : cb[n].k = "ite"}
        at == CHOOSE n \in ites : \A m \in ites : n <= m
        Inner(s) == IF s.k = "for" THEN [s EXCEPT !.body = Treeify(@)] ELSE s
        after == [n \in 1..(Len(cb) - at) |-> Inner(cb[at + n])]
    IN  IF ites = {} THEN cb
        ELSE Append([n \in 1..(at - 1) |-> Inner(cb[n])],
                    [cb[at] EXCEPT !.then = Treeify(@ \o after), !.else = Treeify(@ \o after)])
=============================================================================
