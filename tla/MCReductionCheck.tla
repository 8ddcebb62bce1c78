--------------------------- MODULE MCReductionCheck ---------------------------
(***************************************************************************)
(* The assumption is a module m over two keys, real or ideal by the        *)
(* parameter of m.  A construction adds up to two callers of m, which also *)
(* use a key: one of the assumption, or one of their own, shared or not.   *)
(***************************************************************************)
EXTENDS ReductionCheck, TLC

Inst(pkg, params) == [pkg |-> pkg, params |-> params]
Wire(to, oracle) == [to |-> to, oracle |-> oracle]
Key(params) == Inst("Key", params)
NoWires == [x \in {} |-> Wire("m", "EVAL")]

MCImports == [Key |-> <<>>, Mod |-> <<"GET", "CHECK">>, Red |-> <<"EVAL", "GET">>]

MCTypings == {[GET |-> "bits", CHECK |-> t, EVAL |-> "unit", RUN |-> "unit"] : t \in {"bits", "bool"}}

ModWires(k1, k2) == [GET |-> Wire(k1, "GET"), CHECK |-> Wire(k2, "CHECK")]

AssumptionGame(b, w, more) ==
    [inst |-> [m |-> Inst("Mod", b), k1 |-> Key("p"), k2 |-> Key("p")],
     wires |-> [m |-> w, k1 |-> NoWires, k2 |-> NoWires],
     exports |-> ("EVAL" :> Wire("m", "EVAL")) @@ ("GET" :> Wire("k1", "GET")) @@ more]

GET2 == "GET2" :> Wire("k2", "GET")

Construction(b, p, w, v1, v2, X) ==
    [inst |-> [m |-> Inst("Mod", b), k1 |-> Key("p"), k2 |-> Key("p"),
               r1 |-> Inst("Red", "p"), r2 |-> Inst("Red", "p"), k3 |-> Key("p"), k4 |-> Key(p)],
     wires |-> [m |-> w, r1 |-> v1, r2 |-> v2,
                k1 |-> NoWires, k2 |-> NoWires, k3 |-> NoWires, k4 |-> NoWires],
     exports |-> [x \in X |-> CASE x = "RUN1" -> Wire("r1", "RUN")
                                [] x = "RUN2" -> Wire("r2", "RUN")
                                [] x = "EVAL" -> Wire("m", "EVAL")
                                [] x = "GET" -> Wire("k2", "GET")]]

Caller(key, oracle) == [EVAL |-> Wire("m", "EVAL"), GET |-> Wire(key, oracle)]
ExportSets == {{"RUN1", "RUN2"}, {"RUN1", "RUN2", "EVAL"}, {"RUN1", "GET"}}

LeftGames ==
    {Construction("real", "p", w, v1, v2, X) :
        w \in {ModWires("k1", "k1"), ModWires("k1", "k2")},
        v1 \in {Caller("k1", "GET"), Caller("k3", "GET")},
        v2 \in {Caller(k, "GET") : k \in {"k1", "k2", "k3", "k4"}}, X \in ExportSets}

RightGames ==
    {Construction("ideal", "p", w, v1, v2, X) :
        w \in {ModWires("k1", "k2"), ModWires("k2", "k1"), ModWires("k3", "k1"),
               [GET |-> Wire("k1", "CHECK"), CHECK |-> Wire("k2", "CHECK")]},
        v1 \in {Caller("k1", "GET"), Caller("k3", "GET")},
        v2 \in {Caller("k1", "GET"), Caller("k2", "GET"), Caller("k3", "GET"), Caller("k4", "GET"),
                Caller("k3", "CHECK")},
        X \in ExportSets}
    \cup {Construction("ideal", "q", ModWires("k1", "k2"), v1, Caller("k4", "GET"), X) :
            v1 \in {Caller("k1", "GET"), Caller("k3", "GET")}, X \in ExportSets}

MCGamesOf ==
    [real  |-> {AssumptionGame("real", ModWires("k1", "k1"), GET2),
                AssumptionGame("real", ModWires("k1", "k2"), GET2),
                AssumptionGame("real", ModWires("k1", "k2"), <<>>)},
     ideal |-> {AssumptionGame("ideal", ModWires("k1", "k2"), more) : more \in {<<>>, GET2}},
     left  |-> LeftGames,
     right |-> RightGames]

Identity == {<<"m", "m">>, <<"k1", "k1">>, <<"k2", "k2">>}
MCEntrySets == {Identity, Identity \ {<<"k2", "k2">>}, (Identity \ {<<"k2", "k2">>}) \cup {<<"k2", "k4">>},
                Identity \cup {<<"k2", "k3">>}}
===============================================================================
