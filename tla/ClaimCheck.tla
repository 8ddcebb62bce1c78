----------------------------- MODULE ClaimCheck -----------------------------
(***************************************************************************)
(* What the check of one claim promises, whatever happens between the      *)
(* prover and the solver process: verify_with_solver of                    *)
(* src/gamehops/equivalence/verify_fn.rs, seen from its caller.            *)
(*                                                                         *)
(* The solver may decide the query; the claim counts as proved only if the *)
(* answer to the whole, well-formed query is unsat, it counts as refuted   *)
(* only if that answer is sat or unknown, and in every other case the      *)
(* check can only end as an error of the prover process.                   *)
(***************************************************************************)

VARIABLES answer,   (* the solver's answer to the complete query, if any    *)
          verdict   (* what verify_with_solver returned, if it returned     *)

vars == <<answer, verdict>>

Answer == {"sat", "unsat", "unknown"}
Verdict == {"none", "ok", "failed", "error"}

Init ==
  /\ answer = "none"
  /\ verdict = "none"

Decide ==
  /\ answer = "none"
  /\ answer' \in Answer
  /\ UNCHANGED verdict

Return ==
  /\ verdict = "none"
  /\ verdict' \in { "error" } \cup
                  (IF answer = "unsat" THEN {"ok"} ELSE {}) \cup
                  (IF answer \in {"sat", "unknown"} THEN {"failed"} ELSE {})
  /\ UNCHANGED answer

Next == Decide \/ Return

Spec == Init /\ [][Next]_vars
=============================================================================
