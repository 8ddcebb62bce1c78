------------------------ MODULE MCEquivalenceDriver ------------------------
(* Small instances of EquivalenceDriver: the constants that a .cfg cannot  *)
(* express.                                                                *)
EXTENDS EquivalenceDriver

(* Two lines of the tree of Get are named invariant, as is the claim at    *)
(* the start; in the first instance the second line is admitted.           *)
MCOracles == {"Get"}
MCTree == [o \in MCOracles |-> {"invariant line", "second line"}]
MCName(c) == IF c \in {"invariant line", "second line"} THEN "invariant" ELSE c
MCAdmitted == {<<"Get", "second line">>}
MCInvariants == {"pkg-inv"}
MCInjectivity == {"injective"}

Line(o, cs, s, i) ==
  [oracle |-> o, claims |-> cs, start |-> s, injective |-> i, transcript |-> FALSE]
Saving(r) == [r EXCEPT !.transcript = TRUE]

(* The whole equivalence, and each of the ways to restrict it. *)
MCRequests ==
  { Line(All, ClaimNames, FALSE, FALSE), Line(All, {"pkg-inv"}, FALSE, FALSE),
    Line(All, ClaimNames, TRUE, FALSE), Line(All, ClaimNames, TRUE, TRUE),
    Line("Put", ClaimNames, FALSE, FALSE),
    Line(All, ClaimNames, FALSE, TRUE), Line("Get", {"invariant"}, FALSE, TRUE),
    Saving(Line(All, {"invariant"}, FALSE, FALSE)),
    Saving(Line("Get", ClaimNames, FALSE, FALSE)) }

(* One oracle whose tree has a line twice. *)
MCTwice == { Saving(Line("Get", {"invariant"}, FALSE, FALSE)) }
=============================================================================
