-------------------------- MODULE TransformPipeline --------------------------
(***************************************************************************)
(* transform_game_inst: the passes that bring the game of a game instance  *)
(* into the form the SMT writer expects, in their order, one action each,  *)
(* what they leave for the equivalence checker (the positions at which the *)
(* game samples, and how often each can be sampled from), and last the SMT *)
(* functions that are written of its oracles.                              *)
(*                                                                         *)
(* tableinitialize is not an action: it changes an assignment to a table   *)
(* with a generated name only, and no pass or parser rule makes one.       *)
(***************************************************************************)
EXTENDS Transforms, SmtWriter

CONSTANTS
    Edges,      \* records [from, alias, to, name]
    Exports,    \* the positions of the exported oracles in the game
    Games,      \* the games the theorem may instantiate
    StateVars,  \* for every instance its state variables, in order
    GameConsts, \* the constants of the game, in order
    Params,     \* for every instance, records [const, value]: what its constants are given
    Inputs      \* records [args, consts, state, tape]: the calls on which the meaning is compared

VARIABLES
    source,     \* the game as it was parsed
    game,       \* the game after the passes so far
    stage,      \* the last pass, or the error that stopped the pipeline
    positions,  \* the oracle and the target of every numbered sample
    offsets,    \* for an exported oracle, the bound for every sample
    smt         \* the SMT functions of the oracles

vars == <<source, game, stage, positions, offsets, smt>>

Passes == <<"parsed", "split", "sampled", "unwrapped", "resolved", "returning",
            "unrolled", "counted", "tree", "written">>
Failures == {"unresolved", "missing_return", "unbounded"}

Done(pass) == \E n, m \in DOMAIN Passes :
                 Passes[n] = pass /\ Passes[m] = stage /\ n <= m

SampleIds == 0..(Len(positions) - 1)

(* What the parser has checked of an oracle.                               *)
ParserAccepts(g) ==
    /\ \A n \in DOMAIN g : g[n].typed => CheckBlock(g[n].code)
    /\ \A n \in DOMAIN g : \A s \in Statements(g[n].code) :
         LET called == IF s.k = "invoke" THEN {s.name}
                       ELSE IF s.k = "assign" /\ s.rhs.r = "invoke" THEN {s.rhs.name} ELSE {}
         IN  \A o \in called : WiredAs(Edges, g[n].pkg, o) # {}

Init ==
    /\ source \in {g \in Games : ParserAccepts(g)}
    /\ game = source
    /\ stage = "parsed"
    /\ positions = <<>>
    /\ offsets = <<>>
    /\ smt = <<>>

-----------------------------------------------------------------------------
EveryOracle(Pass(_)) == [n \in DOMAIN game |-> [game[n] EXCEPT !.code = Pass(@)]]

DeconstructInvoke ==
    LET Pass(cb) == Thread(Split, cb, 1).code
    IN  /\ stage = "parsed"
        /\ game' = EveryOracle(Pass)
        /\ stage' = "split"
        /\ UNCHANGED <<source, positions, offsets, smt>>

(* The counter runs through all the oracles of the game.                   *)
Samplify ==
    LET Count(n) == Thread(NumberSamples, game[n].code, 0).ctr
        first == [n \in DOMAIN game |->
                    FoldLeft(LAMBDA sum, m : sum + Count(m), 0, [m \in 1..(n - 1) |-> m])]
        Numbered(n) == Thread(NumberSamples, game[n].code, first[n]).code
        Position(n, id) ==
            LET s == CHOOSE s \in Statements(Numbered(n)) :
                        s.k = "assign" /\ s.rhs.r = "sample" /\ s.rhs.id = id
            IN  [oracle |-> n, dst |-> s.pat.id]
    IN  /\ stage = "split"
        /\ game' = [n \in DOMAIN game |-> [game[n] EXCEPT !.code = Numbered(n)]]
        /\ positions' = FlattenSeq([n \in DOMAIN game |->
               [k \in 1..Count(n) |-> Position(n, first[n] + k - 1)]])
        /\ stage' = "sampled"
        /\ UNCHANGED <<source, offsets, smt>>

UnwrapifyGame ==
    LET Pass(cb) == Thread(Unwrapify, cb, 1).code
    IN  /\ stage = "sampled"
        /\ game' = EveryOracle(Pass)
        /\ stage' = "unwrapped"
        /\ UNCHANGED <<source, positions, offsets, smt>>

ResolveOracles ==
    LET Resolved(n) ==
            LET table == {e \in Edges : e.from = game[n].pkg}
                Op(s, errors) == Resolve(s, errors, table)
            IN  Thread(Op, game[n].code, 0)
    IN  /\ stage = "unwrapped"
        /\ game' = [n \in DOMAIN game |-> [game[n] EXCEPT !.code = Resolved(n).code]]
        /\ stage' = IF \A n \in DOMAIN game : Resolved(n).ctr = 0
                    THEN "resolved" ELSE "unresolved"
        /\ UNCHANGED <<source, positions, offsets, smt>>

ReturnifyGame ==
    /\ stage = "resolved"
    /\ game' = EveryOracle(Returnify)
    /\ stage' = IF \E n \in DOMAIN game : game[n].typed /\ MissingReturn(game[n].code)
                THEN "missing_return" ELSE "returning"
    /\ UNCHANGED <<source, positions, offsets, smt>>

LoopUnroll ==
    LET Pass(cb) == Unroll(cb, {})
    IN  /\ stage = "returning"
        /\ game' = EveryOracle(Pass)
        /\ stage' = "unrolled"
        /\ UNCHANGED <<source, positions, offsets, smt>>

(* The only pass that stops the pipeline with an error for the user.       *)
ExtractMaxOffsets ==
    /\ stage = "unrolled"
    /\ IF \E at \in Exports : LoopsLeft(game, at) # {}
       THEN /\ stage' = "unbounded"
            /\ UNCHANGED offsets
       ELSE /\ stage' = "counted"
            /\ offsets' = [at \in Exports |-> Offsets(game, game[at].code, SampleIds)]
    /\ UNCHANGED <<source, game, positions, smt>>

TreeifyGame ==
    /\ stage = "counted"
    /\ game' = EveryOracle(Treeify)
    /\ stage' = "tree"
    /\ UNCHANGED <<source, positions, offsets, smt>>

Written == [game |-> game, state |-> StateVars, consts |-> GameConsts, params |-> Params,
            samples |-> Len(positions)]

WriteSmt ==
    /\ stage = "tree"
    /\ smt' = WriteGame(Written)
    /\ stage' = "written"
    /\ UNCHANGED <<source, game, positions, offsets>>

Next == \/ DeconstructInvoke \/ Samplify \/ UnwrapifyGame \/ ResolveOracles
        \/ ReturnifyGame \/ LoopUnroll \/ ExtractMaxOffsets \/ TreeifyGame
        \/ WriteSmt

Spec == Init /\ [][Next]_vars

-----------------------------------------------------------------------------

(* The state of a call: that of the input, and the constants of every      *)
(* instance, which a game gives it in terms of its own.                    *)
Starting(in) ==
    [p \in DOMAIN in.state |->
        in.state[p] @@ [c \in {Params[p][n].const : n \in DOMAIN Params[p]} |->
            Eval((CHOOSE x \in Range(Params[p]) : x.const = c).value, in.consts)[1]]]

RunOn(g, at, in) == Run(g, Edges, at, in.args, Starting(in), in.tape)

(* No pass changes what an exported oracle does: what it returns or that   *)
(* it aborts, the state it leaves, and how many random values it takes.    *)
MeaningPreserved ==
    stage \notin Failures =>
    \A at \in Exports, in \in Inputs :
        LET before == RunOn(source, at, in)
            now    == RunOn(game, at, in)
        IN  now.out = before.out /\ now.state = before.state /\ now.tape = before.tape

(* In a typed or returnified block every path ends in a return or abort.   *)
RECURSIVE Ends(_)
Ends(cb) ==
    /\ cb # <<>>
    /\ \/ Last(cb).k \in {"return", "abort"}
       \/ Last(cb).k = "ite" /\ Ends(Last(cb).then) /\ Ends(Last(cb).else)

RECURSIVE HasUnwrap(_)
HasUnwrap(e) == e[1] = "unwrap" \/ \E n \in DOMAIN e[3] : HasUnwrap(e[3][n])

(* The only place an Unwrap may be left: alone on the right-hand side of   *)
(* the assignment of a generated variable.                                 *)
UnwrapsIsolated(s) ==
    \/ \A n \in DOMAIN Operands(s) : ~HasUnwrap(Operands(s)[n])
    \/ /\ s.k = "assign" /\ s.pat.p = "ident" /\ s.pat.id[1] = "gen"
       /\ s.rhs.e[1] = "unwrap" /\ ~HasUnwrap(s.rhs.e[3][1])

(* A conditional is the last statement of its block.                       *)
RECURSIVE IsTree(_)
IsTree(cb) == \A n \in DOMAIN cb :
                cb[n].k = "ite" => n = Len(cb) /\ IsTree(cb[n].then) /\ IsTree(cb[n].else)

(* Each pass establishes what the SMT writer relies on, and no later pass  *)
(* undoes it: no tuple is assigned from an invocation, unwraps stand       *)
(* alone, invocations have an edge of the caller, every path ends in a     *)
(* return or an abort, no loop is left, and conditionals come last.        *)
NormalForm ==
    \A n \in DOMAIN game :
        LET S == Statements(game[n].code)
            edgeOK(x) == x.edge # NoEdge /\ x.edge[1].from = game[n].pkg
        IN  /\ Done("split") => \A s \in S :
                 s.k = "assign" /\ s.pat.p = "tuple" => s.rhs.r = "expr"
            /\ Done("unwrapped") => \A s \in S : UnwrapsIsolated(s)
            /\ Done("resolved") => \A s \in S :
                 /\ s.k = "invoke" => edgeOK(s)
                 /\ s.k = "assign" /\ s.rhs.r = "invoke" => edgeOK(s.rhs)
            /\ Done("returning") => Ends(game[n].code)
            /\ Done("unrolled") => \A s \in S : ~IsLiteralFor(s)
            /\ Done("counted") => \A at \in Exports : n \in Reaches(game, at) =>
                 \A s \in S : s.k # "for"
            /\ Done("tree") => IsTree(game[n].code)

(* Sample accounting.  Once samples are numbered, every draw of an         *)
(* execution is at a recorded position of the oracle that draws, through   *)
(* all later passes; and once offsets are computed no execution draws at a *)
(* position more often than its offset: the SMT writer declares random     *)
(* values, and the randomness mapping is checked, only up to there.        *)
SamplesAccounted ==
    Done("sampled") =>
    \A at \in Exports, in \in Inputs :
        LET drawn == RunOn(game, at, in).drawn
            Times(id) == Cardinality({k \in DOMAIN drawn : drawn[k][2] = id})
        IN  /\ \A k \in DOMAIN drawn :
                 /\ drawn[k][2] \in SampleIds
                 /\ positions[drawn[k][2] + 1].oracle = drawn[k][1]
            /\ Done("counted") => \A id \in SampleIds : Times(id) <= offsets[at][id]

(* The passes that panic on an error never see one: what the parser checks *)
(* rules out an unresolved oracle and a missing return (comments of        *)
(* EquivalenceTransformError and of transform_game_inst).                  *)
OnlyLoopsFail == stage \notin {"unresolved", "missing_return"}

(* The SMT function of an exported oracle, applied to a state, returns and *)
(* aborts as the oracle does, and unless it aborts leaves the same state   *)
(* and every sample counter advanced by the number of draws: for every     *)
(* random function that gives the draws their values.  Nothing is said of  *)
(* a game with an ill-sorted term, which the solver refuses; only sampling *)
(* into a table entry, or calling into one, makes one.                     *)
Draws(run, id, upTo) == Cardinality({k \in 1..upTo : run.drawn[k][2] = id})
CounterAtStart(in, id) == (id + in.args[1]) % 2
CounterAtEnd(in, id, run) == CounterAtStart(in, id) + Draws(run, id, Len(run.drawn))

RandomFunction(in, run) ==
    [id \in SampleIds |->
        [k \in CounterAtStart(in, id)..(CounterAtEnd(in, id, run) - 1) |->
            in.tape[CHOOSE d \in DOMAIN run.drawn :
                        run.drawn[d][2] = id /\ CounterAtStart(in, id) + Draws(run, id, d - 1) = k]]]
SmtReturn(at, in, random) ==
    LET state  == [p \in {PkgState(i) : i \in DOMAIN StateVars} |->
                      [v \in Range(StateVars[p[2]]) |-> in.state[p[2]][v]]]
                  @@ [r \in {Rand(id) : id \in SampleIds} |-> CounterAtStart(in, r[3])]
        values == <<state, in.consts>> \o in.args
    IN  SmtEval(Written, smt, random, <<"call", at, [n \in DOMAIN values |-> Lit(values[n])]>>, <<>>)

Agrees(in, ret, before, run) ==
    /\ ret[RetValue] = before.out
    /\ before.out # Aborted =>
         /\ \A i \in DOMAIN StateVars : \A v \in Range(StateVars[i]) :
              ret[RetState][PkgState(i)][v] = before.state[i][v]
         /\ \A id \in SampleIds : ret[RetState][Rand(id)] = CounterAtEnd(in, id, run)
MeansSame(at, in, before, run) == Agrees(in, SmtReturn(at, in, RandomFunction(in, run)), before, run)

SmtMeansSame ==
    stage = "written" =>
    LET targets == {s \in UNION {Statements(game[n].code) : n \in DOMAIN game} :
                       s.k = "assign" /\ s.pat.p = "table" /\ s.rhs.r # "expr"}
    IN  IF \E n \in DOMAIN smt : IllSorted(smt[n]) THEN targets # {}
        ELSE \A at \in Exports, in \in Inputs :
                MeansSame(at, in, RunOn(source, at, in), RunOn(game, at, in))
=============================================================================
