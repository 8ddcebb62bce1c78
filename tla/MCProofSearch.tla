--------------------------- MODULE MCProofSearch ---------------------------
(* Small instances of ProofSearch.                                         *)
EXTENDS ProofSearch

Inst(g, a, b) == [game |-> g, consts |-> <<a, b>>]
PlainHop(l, r) == [left |-> l, right |-> r, hybrid |-> FALSE]
HybridHop(l, r) == [left |-> l, right |-> r, hybrid |-> TRUE]

(* Three instances and two hops.  The values of the constants cover all    *)
(* combinations of a literal, another one, a constant and another one.     *)
Pool == {Inst(g, v[1], v[2]) :
           g \in {"G", "H"},
           v \in {<<"0", "0">>, <<"0", "1">>, <<"0", "c">>, <<"c", "c">>, <<"c", "d">>}}

Plain ==
  { [instances |-> is, hops |-> hs, left |-> 1, right |-> 3] :
      is \in {s \in [1..3 -> Pool] : s[1].game = "G" /\ s[3].game = "H"},
      hs \in [1..2 -> {PlainHop(1, 2), PlainHop(2, 3), PlainHop(3, 2), PlainHop(2, 1)}] }

(* A hybrid argument over the first constant, from each start to each end. *)
Hybrids ==
  { [instances |-> <<Inst("G", i, "0"), Inst("G", "loop", "0"), Inst("G", "loop", "1"), Inst("G", j, "1")>>,
     hops |-> <<HybridHop(2, 3)>>, left |-> l, right |-> 5 - l] :
      i \in {"0", "1", "c"}, j \in {"0", "1", "c"}, l \in {1, 4} }

(* Longer chains, in an order and with directions that do not help. *)
Chains ==
  { [instances |-> is, hops |-> hs, left |-> 1, right |-> 4] :
      is \in {s \in [1..4 -> Pool] : s[1].game = "G" /\ s[2].game = "H" /\ s[3].game = "G" /\ s[4].game = "H"},
      hs \in { <<PlainHop(2, 3)>>,
               <<PlainHop(3, 4), PlainHop(2, 3), PlainHop(1, 2)>>,
               <<PlainHop(2, 1), PlainHop(3, 2), PlainHop(4, 3)>>,
               <<PlainHop(1, 2), PlainHop(2, 3), PlainHop(2, 4)>> } }

MCTheorems == Plain \cup Chains \cup Hybrids

(* The smallest theorems: one constant per game. *)
Inst1(g, a) == [game |-> g, consts |-> <<a>>]

Small ==
  { [instances |-> <<Inst1("G", x), Inst1("H", y), Inst1("H", z)>>,
     hops |-> <<PlainHop(1, 2)>>, left |-> 1, right |-> 3] :
      x \in {"0", "c"}, y \in {"0", "c"}, z \in {"0", "c"} }
=============================================================================
