------------------------------- MODULE SmtWriter -------------------------------
(***************************************************************************)
(* CompositionSmtWriter: every oracle of a transformed game becomes an SMT *)
(* function from the game state, the game's constants and the arguments to *)
(* a new game state and a return value or abort.                           *)
(*                                                                         *)
(* A term is a triple <<operator, leaf, arguments>>, as an expression is.  *)
(* A datatype with one constructor is the sequence of its fields: "mk"     *)
(* builds a value, "sel" reads a field.  Names of sorts, constructors and  *)
(* functions, and the sorts themselves, are left out.                      *)
(*                                                                         *)
(* What is written is given by w, a record of                              *)
(*   game     the oracles, in the form TransformPipeline leaves            *)
(*   state    for every package instance its state variables, in order     *)
(*   consts   the constants of the game, in order                          *)
(*   params   for every instance, its constants and what they are given    *)
(*   samples  how many sample positions there are                          *)
(***************************************************************************)
EXTENDS SspLanguage

-----------------------------------------------------------------------------
(* Names.  All identifiers of a program become bare names, whichever kind  *)
(* they are of, except generated ones, which are put in angle brackets.    *)
SmtName(id) == IF id[1] = "gen" THEN id ELSE <<"id", id[2], 0>>
GameStateName  == <<"smt", "game-state", 0>>
GameConstsName == <<"smt", "game-consts", 0>>
RetName        == <<"smt", "ret", 0>>

SVar(name)      == <<"var", name, <<>>>>
SLet(bs, body)  == <<"let", [n \in DOMAIN bs |-> bs[n][1]],
                     [n \in DOMAIN bs |-> bs[n][2]] \o <<body>>>>
SIte(c, t, e)   == <<"ite", <<>>, <<c, t, e>>>>
SStore(a, i, v) == <<"store", <<>>, <<a, i, v>>>>
Mk(fields, args)     == <<"mk", fields, args>>
Sel(field, t)        == <<"sel", field, <<t>>>>
Update(fields, field, t, new) ==
    Mk(fields, [n \in DOMAIN fields |-> IF fields[n] = field THEN new ELSE Sel(fields[n], t)])

GameState == SVar(GameStateName)

(* Datatypes: the state of a game has a field for every package instance   *)
(* and a counter for every sample position; an oracle returns a state and  *)
(* a value or abort.                                                       *)
PkgState(inst) == <<"pkgstate", inst, 0>>
Rand(id)       == <<"rand", "", id>>
RetState       == <<"return", "game-state", 0>>
RetValue       == <<"return", "return-value-or-abort", 0>>
ReturnFields   == <<RetState, RetValue>>
Instances(w)   == SetToSeq(DOMAIN w.state)
GameFields(w)  ==
    [n \in DOMAIN Instances(w) |-> PkgState(Instances(w)[n])] \o
    [n \in 1..w.samples |-> Rand(n - 1)]

AbortValue == <<"mk-abort", <<>>, <<>>>>
ReturnTerm(state, v) == Mk(ReturnFields, <<state, <<"mk-return-value", <<>>, <<v>>>>>>)
AbortTerm(state)     == Mk(ReturnFields, <<state, AbortValue>>)
IsAbort(ret)         == <<"eq", <<>>, <<Sel(RetValue, ret), AbortValue>>>>

-----------------------------------------------------------------------------
RECURSIVE SmtExpr(_)
SmtExpr(e) ==
    LET as == [n \in DOMAIN e[3] |-> SmtExpr(e[3][n])]
    IN  CASE e[1] = "var" -> SVar(SmtName(e[2]))
          [] e[1] = "get" -> <<"select", <<>>, <<SVar(SmtName(e[2])), as[1]>>>>
          [] OTHER -> <<e[1], e[2], as>>

PkgStateFromLocals(w, inst) ==
    Mk(w.state[inst], [n \in DOMAIN w.state[inst] |-> SVar(SmtName(w.state[inst][n]))])

NoWriteBack(w, inst) == GameState    \* as if only samples changed the game state

(* The game state with the caller's view of its own variables written back.*)
WriteBack(w, inst) ==
    Update(GameFields(w), PkgState(inst), GameState, PkgStateFromLocals(w, inst))

BuildAbort(w, inst) == SLet(<<<<GameStateName, WriteBack(w, inst)>>>>, AbortTerm(GameState))

BuildReturn(w, inst, val) ==
    ReturnTerm(WriteBack(w, inst), IF val = <<>> THEN Tuple(<<>>) ELSE SmtExpr(val[1]))

IncrementRand(w, id) ==
    Update(GameFields(w), Rand(id), GameState, <<"succ", <<>>, <<Sel(Rand(id), GameState)>>>>)

BuildSample(w, pat, id, result) ==
    LET value == <<"rand", id, <<Sel(Rand(id), GameState)>>>>
        new == IF pat.p = "table" THEN SStore(SVar(SmtName(pat.id)), SmtExpr(pat.index), value)
                                  ELSE value
    IN  SLet(<<<<SmtName(pat.id), new>>>>,
             SLet(<<<<GameStateName, IncrementRand(w, id)>>>>, result))

BuildParse(ids, e, result) ==
    SLet([n \in DOMAIN ids |-> <<SmtName(ids[n]), <<"el", n, <<SmtExpr(e)>>>>>>], result)

(* The call; if it aborts so does the caller, in the state the callee left *)
(* with the caller's own variables written back, else the rest of the code *)
(* runs in that state.  With a table entry as target the store is put      *)
(* around all of this, not around the value.                               *)
BuildInvoke(w, inst, target, args, edge, result) ==
    LET callee == Target(w.game, edge[1].to, edge[1].name)
        ret    == SVar(RetName)
        state  == <<GameStateName, Sel(RetState, ret)>>
        assigned == IF target = <<>> THEN <<>>
                    ELSE <<<<SmtName(target[1].id), <<"return-value", <<>>, <<Sel(RetValue, ret)>>>>>>>>
        call == SLet(<<<<RetName, <<"call", callee,
                    <<GameState, SVar(GameConstsName)>> \o
                    [n \in DOMAIN args |-> SmtExpr(args[n])]>>>>>>,
                 SIte(IsAbort(ret),
                      SLet(<<state>>, AbortTerm(WriteBack(w, inst))),
                      SLet(<<state>> \o assigned, result)))
    IN  IF target # <<>> /\ target[1].p = "table"
        THEN SStore(SVar(SmtName(target[1].id)), SmtExpr(target[1].index), call)
        ELSE call

(* An unwrap is tested first; when there is nothing in it the oracle       *)
(* aborts with the game state as it is, nothing is written back.           *)
BuildAssign(pat, e, result) ==
    LET unwrap == e[1] = "unwrap"
        inner  == SmtExpr(e[3][1])
        value  == IF unwrap THEN <<"maybe-get", <<>>, <<inner>>>> ELSE SmtExpr(e)
        new    == IF pat.p = "table" THEN SStore(SVar(SmtName(pat.id)), SmtExpr(pat.index), value)
                                     ELSE value
        bound  == SLet(<<<<SmtName(pat.id), new>>>>, result)
    IN  IF unwrap THEN SIte(<<"is-none", <<>>, <<inner>>>>, AbortTerm(GameState), bound) ELSE bound

(* A block is written from its last statement, which is a conditional, a   *)
(* return or an abort: where one of them comes earlier, what follows it is *)
(* not written.                                                            *)
RECURSIVE CodeBlock(_, _, _)
CodeBlock(w, inst, cb) ==
    LET Build(s, result) ==
            CASE s.k = "ite" -> SIte(SmtExpr(s.cond), CodeBlock(w, inst, s.then), CodeBlock(w, inst, s.else))
              [] s.k = "return" -> BuildReturn(w, inst, s.val)
              [] s.k = "abort" -> BuildAbort(w, inst)
              [] s.k = "invoke" -> BuildInvoke(w, inst, <<>>, s.args, s.edge, result)
              [] s.k = "assign" /\ s.pat.p = "tuple" -> BuildParse(s.pat.ids, s.rhs.e, result)
              [] s.k = "assign" /\ s.pat.p # "tuple" ->
                    CASE s.rhs.r = "sample" -> BuildSample(w, s.pat, s.rhs.id, result)
                      [] s.rhs.r = "invoke" ->
                            BuildInvoke(w, inst, <<s.pat>>, s.rhs.args, s.rhs.edge, result)
                      [] s.rhs.r = "expr" -> BuildAssign(s.pat, s.rhs.e, result)
    IN  FoldRight(Build, cb, <<"unreachable", <<>>, <<>>>>)

(* The constants of an instance are computed from the constants of the     *)
(* game by a function of their own.                                        *)
ConstMapping(w, inst) ==
    LET ps == w.params[inst]
    IN  SLet([n \in DOMAIN w.consts |->
                  <<SmtName(w.consts[n]), Sel(w.consts[n], SVar(GameConstsName))>>],
             Mk([n \in DOMAIN ps |-> ps[n].const], [n \in DOMAIN ps |-> SmtExpr(ps[n].value)]))

(* The function of an oracle: the package state is bound to local names,   *)
(* then the constants, then the code.                                      *)
OracleFunction(w, at) ==
    LET inst  == w.game[at].pkg
        state == Sel(PkgState(inst), GameState)
        given == <<"pkgconsts", inst, <<SVar(GameConstsName)>>>>
    IN  SLet([n \in DOMAIN w.state[inst] |->
                  <<SmtName(w.state[inst][n]), Sel(w.state[inst][n], state)>>],
             SLet([n \in DOMAIN w.params[inst] |->
                       <<SmtName(w.params[inst][n].const), Sel(w.params[inst][n].const, given)>>],
                  CodeBlock(w, inst, w.game[at].code)))

WriteGame(w) == [at \in DOMAIN w.game |-> OracleFunction(w, at)]

-----------------------------------------------------------------------------
(* What the solver makes of the terms: random is the interpretation of the *)
(* random function, a value for every sample position and counter.         *)
RECURSIVE SmtEval(_, _, _, _, _)
SmtEval(w, funs, random, t, env) ==
    LET Sub(n) == SmtEval(w, funs, random, t[3][n], env)
        Bound(names) == [x \in Range(names) |-> Sub(CHOOSE n \in DOMAIN names : names[n] = x)]
    IN  CASE t[1] = "lit"  -> t[2]
          [] t[1] = "var"  -> env[t[2]]
          [] t[1] = "let"  -> SmtEval(w, funs, random, t[3][Len(t[3])], Bound(t[2]) @@ env)
          [] t[1] = "ite"  -> IF Sub(1) THEN Sub(2) ELSE Sub(3)
          [] t[1] = "some" -> <<Sub(1)>>
          [] t[1] = "maybe-get" -> Sub(1)[1]
          [] t[1] = "is-none" -> Sub(1) = <<>>
          [] t[1] = "eq"   -> Sub(1) = Sub(2)
          [] t[1] = "add"  -> (Sub(1) + Sub(2)) % 3
          [] t[1] = "succ" -> Sub(1) + 1
          [] t[1] = "tuple" -> [n \in DOMAIN t[3] |-> Sub(n)]
          [] t[1] = "el"   -> Sub(1)[t[2]]
          [] t[1] = "select" -> Sub(1)[Sub(2)]
          [] t[1] = "store"  -> [Sub(1) EXCEPT ![Sub(2)] = Sub(3)]
          [] t[1] = "mk"  -> Bound(t[2])
          [] t[1] = "sel" -> Sub(1)[t[2]]
          [] t[1] = "rand" -> random[t[2]][Sub(1)]
          [] t[1] = "mk-return-value" -> Returned(Sub(1))
          [] t[1] = "mk-abort" -> Aborted
          [] t[1] = "return-value" -> Sub(1)[2]
          [] t[1] = "pkgconsts" ->
                SmtEval(w, funs, random, ConstMapping(w, t[2]), GameConstsName :> Sub(1))
          [] t[1] = "call" ->
                LET names == <<GameStateName, GameConstsName>> \o
                             [n \in DOMAIN w.game[t[2]].args |->
                                 SmtName(Ident("arg", w.game[t[2]].args[n]))]
                IN  SmtEval(w, funs, random, funs[t[2]], Bound(names))

(* A term the solver refuses: it stores something that has not the sort of *)
(* the entries of a table, which are optional.                             *)
RECURSIVE IllSorted(_)
IllSorted(t) ==
    \/ t[1] = "store" /\ t[3][3][1] \in {"rand", "let"}
    \/ \E n \in DOMAIN t[3] : IllSorted(t[3][n])
=============================================================================
