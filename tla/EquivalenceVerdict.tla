------------------------- MODULE EquivalenceVerdict -------------------------
(***************************************************************************)
(* What the verification of one equivalence promises to the prove command, *)
(* whatever the order in which the thread pool checks the claims           *)
(* (EquivalenceSmtDriver::verify_equivalence of                            *)
(* src/gamehops/equivalence/verify_fn.rs, seen from its caller).           *)
(*                                                                         *)
(* Every obligation is decided at most once, nothing is reported before    *)
(* all of them are, and the report names exactly those that failed.        *)
(***************************************************************************)

VARIABLES obligations,   (* what this verification has to check             *)
          outcome,       (* per obligation: "none", "ok" or "err"           *)
          returned,      (* whether the verification is over                *)
          failed         (* the obligations it reports as failed            *)

vars == <<obligations, outcome, returned, failed>>

Init ==
  /\ outcome = [o \in obligations |-> "none"]
  /\ returned = FALSE /\ failed = {}

Decide(o) ==
  /\ outcome[o] = "none"
  /\ \E r \in {"ok", "err"} : outcome' = [outcome EXCEPT ![o] = r]
  /\ UNCHANGED <<obligations, returned, failed>>

Report ==
  /\ ~returned /\ returned' = TRUE
  /\ \A o \in obligations : outcome[o] # "none"
  /\ failed' = {o \in obligations : outcome[o] = "err"}
  /\ UNCHANGED <<obligations, outcome>>

Next == Report \/ \E o \in obligations : Decide(o)

Spec == Init /\ [][Next]_vars
=============================================================================
