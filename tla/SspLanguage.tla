---------------------------- MODULE SspLanguage ----------------------------
(***************************************************************************)
(* Oracle code of a package and its meaning.                               *)
(*                                                                         *)
(* An expression is a triple <<operator, leaf, arguments>>, a statement a  *)
(* record tagged by its kind.  Execute gives the meaning the comments of   *)
(* the grammar (ssp.pest) describe: the passes of module Transforms are    *)
(* compared with it, and it is used by no pass.                            *)
(*                                                                         *)
(* A game is a sequence of oracles, each with the package instance it      *)
(* belongs to.  Types are left out, except whether the oracle returns one. *)
(***************************************************************************)
EXTENDS Integers, Sequences, SequencesExt, Expressions

-----------------------------------------------------------------------------
PIdent(id)   == [p |-> "ident", id |-> id]
PTable(t, e) == [p |-> "table", id |-> t, index |-> e]
PTuple(ids)  == [p |-> "tuple", ids |-> ids]

NoId == -1        \* a sample that samplify has not numbered
NoEdge == <<>>    \* an invocation that resolveoracles has not resolved

Expr(e)         == [r |-> "expr", e |-> e]
Sample          == [r |-> "sample", id |-> NoId]
Call(name, as)  == [r |-> "invoke", name |-> name, args |-> as, edge |-> NoEdge]

Abort           == [k |-> "abort"]
Return(e)       == [k |-> "return", val |-> <<e>>]
ReturnNone      == [k |-> "return", val |-> <<>>]
Assign(pat,rhs) == [k |-> "assign", pat |-> pat, rhs |-> rhs]
Invoke(name,as) == [k |-> "invoke", name |-> name, args |-> as, edge |-> NoEdge]
If(c, t, e)     == [k |-> "ite", cond |-> c, then |-> t, else |-> e]
AssertStmt(c)   == If(c, <<>>, <<Abort>>)
For(id, lo, loComp, hiComp, hi, body) ==
    [k |-> "for", id |-> id, lo |-> lo, loComp |-> loComp, hiComp |-> hiComp,
     hi |-> hi, body |-> body]

Blocks(s) ==
    CASE s.k = "ite" -> <<s.then, s.else>>
      [] s.k = "for" -> <<s.body>>
      [] OTHER -> <<>>

(* All the statements of a block, those in nested blocks included.         *)
RECURSIVE Statements(_)
Statements(cb) ==
    UNION {{cb[n]} \union UNION {Statements(Blocks(cb[n])[b]) : b \in DOMAIN Blocks(cb[n])}
              : n \in DOMAIN cb}

(* The expressions of a statement, without those of its blocks, and all    *)
(* that an expression consists of.                                         *)
StatementExprs(s) ==
    CASE s.k \in {"return"} -> Range(s.val)
      [] s.k = "invoke" -> Range(s.args)
      [] s.k = "ite"    -> {s.cond}
      [] s.k = "for"    -> {s.lo, s.hi}
      [] s.k = "abort"  -> {}
      [] s.k = "assign" ->
            (IF s.pat.p = "table" THEN {s.pat.index} ELSE {}) \union
            (CASE s.rhs.r = "expr" -> {s.rhs.e}
               [] s.rhs.r = "invoke" -> Range(s.rhs.args)
               [] s.rhs.r = "sample" -> {})
RECURSIVE Subexpressions(_)
Subexpressions(e) == {e} \union UNION {Subexpressions(e[3][n]) : n \in DOMAIN e[3]}

-----------------------------------------------------------------------------
(* An oracle is defined in package instance pkg under a name; edges wires  *)
(* the name an instance calls (the alias, if the edge has one) to an       *)
(* oracle of another instance.                                             *)
Target(game, to, name) ==
    CHOOSE n \in DOMAIN game : game[n].pkg = to /\ game[n].name = name

WiredAs(edges, pkg, called) == {e \in edges : e.from = pkg /\ e.alias = called}

(* A value is <<v>>, or <<>> when evaluating it aborts.                    *)
RECURSIVE Eval(_, _)
Eval(e, env) ==
    LET vals == [n \in DOMAIN e[3] |-> Eval(e[3][n], env)]
        v(n) == vals[n][1]
    IN  CASE e[1] = "lit" -> <<e[2]>>
          [] e[1] = "var" -> <<env[e[2]]>>
          [] \E n \in DOMAIN vals : vals[n] = <<>> -> <<>>
          [] OTHER -> CASE e[1] = "some"   -> <<<<v(1)>>>>
                        [] e[1] = "unwrap" -> v(1)
                        [] e[1] = "get"    -> <<env[e[2]][v(1)]>>
                        [] e[1] = "eq"     -> <<v(1) = v(2)>>
                        [] e[1] = "add"    -> <<(v(1) + v(2)) % 3>>
                        [] e[1] = "tuple"  -> <<[n \in DOMAIN vals |-> v(n)]>>

(* A run of oracle code: the state of every instance, the variables of the *)
(* call, the rest of the tape of random values, the samples drawn so far   *)
(* and how the call ended (not yet, aborted, returned).                    *)
Unit == <<>>
Going == <<"run">>
Aborted == <<"abort">>
Returned(v) == <<"ret", v>>

Visible(m, pkg) == m.local @@ m.state[pkg]
Write(m, pkg, id, v) ==
    IF id[1] = "state" THEN [m EXCEPT !.state[pkg][id] = v]
                       ELSE [m EXCEPT !.local = (id :> v) @@ @]

Store(m, pkg, pat, index, v) ==
    CASE pat.p = "ident" -> Write(m, pkg, pat.id, v)
      [] pat.p = "table" ->
             Write(m, pkg, pat.id, [Visible(m, pkg)[pat.id] EXCEPT ![index] = v])
      [] pat.p = "tuple" ->
             FoldLeft(LAMBDA acc, n : Write(acc, pkg, pat.ids[n], v[n]),
                      m, [n \in DOMAIN pat.ids |-> n])

(* The values of a loop variable: the comparisons decide whether each of   *)
(* the bounds is one of them.                                              *)
LoopValues(s, lo, hi) ==
    LET first == IF s.loComp = "<" THEN lo + 1 ELSE lo
        last  == IF s.hiComp = "<" THEN hi - 1 ELSE hi
    IN  [n \in 1..(last - first + 1) |-> first + n - 1]

RECURSIVE Execute(_, _, _, _, _)
Execute(game, edges, at, cb, m) ==
    LET pkg == game[at].pkg
        Args(mm, as) == Eval(Tuple(as), Visible(mm, pkg))
        Callee(x) == IF x.edge # NoEdge THEN Target(game, x.edge[1].to, x.edge[1].name)
                     ELSE LET e == CHOOSE e \in WiredAs(edges, pkg, x.name) : TRUE
                          IN  Target(game, e.to, e.name)
        Called(mm, x) ==    \* the machine after the call, out is what it returned
            LET as == Args(mm, x.args)
                o  == Callee(x)
            IN  IF as = <<>> THEN [mm EXCEPT !.out = Aborted]
                ELSE [Execute(game, edges, o, game[o].code,
                         [mm EXCEPT !.local =
                             [id \in {Ident("arg", a) : a \in Range(game[o].args)} |->
                                 as[1][CHOOSE n \in DOMAIN as[1] : game[o].args[n] = id[2]]]])
                      EXCEPT !.local = mm.local]
        Assigned(mm, s) ==
            LET index == IF s.pat.p = "table" THEN Eval(s.pat.index, Visible(mm, pkg)) ELSE <<0>>
                Put(m2, v) == Store(m2, pkg, s.pat, index[1], v)
                stop == [mm EXCEPT !.out = Aborted]
            IN  CASE index = <<>> -> stop
                  [] index # <<>> /\ s.rhs.r = "expr" ->
                        LET v == Eval(s.rhs.e, Visible(mm, pkg))
                        IN  IF v = <<>> THEN stop ELSE Put(mm, v[1])
                  [] index # <<>> /\ s.rhs.r = "sample" ->
                        LET drawn == [mm EXCEPT !.tape = Tail(@),
                                                !.drawn = Append(@, <<at, s.rhs.id>>)]
                        IN  Put(drawn, IF s.pat.p = "table" THEN <<Head(mm.tape)>>
                                                            ELSE Head(mm.tape))
                  [] index # <<>> /\ s.rhs.r = "invoke" ->
                        LET called == Called(mm, s.rhs)
                        IN  IF called.out = Aborted THEN called
                            ELSE Put([called EXCEPT !.out = Going], called.out[2])
        Step(mm, s) ==
            CASE mm.out # Going -> mm
              [] mm.out = Going /\ s.k = "abort" -> [mm EXCEPT !.out = Aborted]
              [] mm.out = Going /\ s.k = "return" ->
                    LET v == Args(mm, s.val)
                    IN  [mm EXCEPT !.out = IF v = <<>> THEN Aborted ELSE Returned(
                                              IF s.val = <<>> THEN Unit ELSE v[1][1])]
              [] mm.out = Going /\ s.k = "assign" -> Assigned(mm, s)
              [] mm.out = Going /\ s.k = "invoke" ->
                    LET called == Called(mm, s)
                    IN  IF called.out = Aborted THEN called ELSE [called EXCEPT !.out = Going]
              [] mm.out = Going /\ s.k = "ite" ->
                    LET c == Eval(s.cond, Visible(mm, pkg))
                    IN  IF c = <<>> THEN [mm EXCEPT !.out = Aborted]
                        ELSE Execute(game, edges, at, IF c[1] THEN s.then ELSE s.else, mm)
              [] mm.out = Going /\ s.k = "for" ->
                    LET bounds == Args(mm, <<s.lo, s.hi>>)
                        Turn(m2, i) ==
                            IF m2.out # Going THEN m2
                            ELSE Execute(game, edges, at, s.body, Write(m2, pkg, s.id, i))
                    IN  IF bounds = <<>> THEN [mm EXCEPT !.out = Aborted]
                        ELSE FoldLeft(Turn, mm, LoopValues(s, bounds[1][1], bounds[1][2]))
    IN  FoldLeft(Step, m, cb)

(* A call of the oracle at a position of the game.                         *)
Run(game, edges, at, args, state, tape) ==
    LET m == Execute(game, edges, at, game[at].code,
                [state |-> state, local |-> [id \in {Ident("arg", a) : a \in Range(game[at].args)} |->
                     args[CHOOSE n \in DOMAIN args : game[at].args[n] = id[2]]],
                 tape |-> tape, drawn |-> <<>>, out |-> Going])
    IN  [m EXCEPT !.out = IF @ = Going THEN Returned(Unit) ELSE @]
=============================================================================
