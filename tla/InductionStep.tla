--------------------------- MODULE InductionStep ---------------------------
(***************************************************************************)
(* The check that decides, while a theorem file is parsed, whether the     *)
(* claims given for one oracle of an equivalence can carry the induction   *)
(* step: src/parser/theorem.rs, handle_equivalence_oracle and              *)
(* verify_induction_step.                                                  *)
(*                                                                         *)
(* A claim is a name, the names it may assume and whether it is admitted.  *)
(* The lines of the lemma block are collected, the three default claims    *)
(* are added when the user did not restate them, and the names that can be *)
(* proved are accumulated round by round.  The name no-abort becomes       *)
(* usable only once equal-aborts has been proved without it.               *)
(*                                                                         *)
(* The code keeps the lines in a vector; nothing here depends on their     *)
(* order or on repeated equal lines, so they are a set.  The randomness    *)
(* annotation of the oracle is not kept: nothing in this check reads it.   *)
(***************************************************************************)
EXTENDS Integers, FiniteSets

CONSTANTS
  Name,         (* the names a claim can have or depend on                 *)
  EqualAborts,  (* "equal-aborts"                                          *)
  NoAbort,      (* "no-abort"                                              *)
  Invariant,    (* "invariant"                                             *)
  SameOutput,   (* "same-output"                                           *)
  LemmaLines,   (* the lemma lines a user may write                        *)
  MaxLines      (* bound: how many lines a lemma block has                 *)

Claim == [name : Name, deps : SUBSET Name, admitted : BOOLEAN]

Target == {EqualAborts, Invariant, SameOutput}

ASSUME NameAssumption == Target \cup {NoAbort} \subseteq Name
ASSUME LinesAssumption == LemmaLines \subseteq Claim

VARIABLES
  phase,      (* where the parser is in the oracle's block                 *)
  lines,      (* the claims collected so far                               *)
  provable,   (* the names established so far                              *)
  progress    (* the loop variable of the fixed point                      *)

vars == <<phase, lines, provable, progress>>

Phase == {"reading", "iterating", "accepted", "rejected"}

TypeOK ==
  /\ phase \in Phase
  /\ lines \subseteq Claim
  /\ provable \subseteq Name
  /\ progress \in BOOLEAN

-----------------------------------------------------------------------------
DefaultClaims ==
  { [name |-> EqualAborts, deps |-> {},        admitted |-> FALSE],
    [name |-> SameOutput,  deps |-> {NoAbort}, admitted |-> FALSE],
    [name |-> Invariant,   deps |-> {NoAbort}, admitted |-> FALSE] }

Names(claims) == { c.name : c \in claims }

WithDefaults(claims) ==
  claims \cup { d \in DefaultClaims : d.name \notin Names(claims) }

AdmittedNames(claims) == Names({ c \in claims : c.admitted })

(* Faulty variants, for the mutation runs: no-abort usable from the start, *)
(* no-abort never usable.                                                  *)
AssumableAlways(known) == known \cup {NoAbort}
AssumableNever(known) == known

(* Once equal-aborts is proved, the later claims may assume no-abort. *)
Assumable(known) ==
  IF EqualAborts \in known THEN known \cup {NoAbort} ELSE known

(* The claims one round adds: new ones whose dependencies are all known. *)
NewlyProvable(claims, known) ==
  Names({ c \in claims : c.name \notin known /\ c.deps \subseteq known })

-----------------------------------------------------------------------------
Init ==
  /\ phase = "reading"
  /\ lines = {}
  /\ provable = {}
  /\ progress = TRUE

ReadLemmaLine(line) ==
  /\ phase = "reading"
  /\ Cardinality(lines) < MaxLines
  /\ lines' = lines \cup {line}
  /\ UNCHANGED <<phase, provable, progress>>

StartInduction ==
  /\ phase = "reading"
  /\ phase' = "iterating"
  /\ lines' = WithDefaults(lines)
  /\ provable' = AdmittedNames(lines')
  /\ progress' = TRUE

(* Faulty variant: the loop goes on while anything is provable at all. *)
IterateForever ==
  /\ phase = "iterating"
  /\ progress
  /\ LET known == Assumable(provable)
         new   == NewlyProvable(lines, known)
     IN  /\ provable' = known \cup new
         /\ progress' = (provable' # {})
  /\ UNCHANGED <<phase, lines>>

Iterate ==
  /\ phase = "iterating"
  /\ progress
  /\ LET known == Assumable(provable)
         new   == NewlyProvable(lines, known)
     IN  /\ provable' = known \cup new
         /\ progress' = (new # {})
  /\ UNCHANGED <<phase, lines>>

CheckTargets ==
  /\ phase = "iterating"
  /\ ~progress
  /\ phase' = IF Target \subseteq provable THEN "accepted" ELSE "rejected"
  /\ UNCHANGED <<lines, provable, progress>>

Next ==
  \/ \E line \in LemmaLines : ReadLemmaLine(line)
  \/ StartInduction
  \/ Iterate
  \/ CheckTargets

Spec == Init /\ [][Next]_vars

-----------------------------------------------------------------------------
(* What the claims mean.  A situation is the set of names that are true of *)
(* one call of the oracle on both games.  The prover later establishes     *)
(* every claim that is not admitted, under its dependencies; the admitted  *)
(* ones are taken for granted.  Supports(claims) holds the situations left *)
(* possible by all of that.                                                *)
Supports(claims) ==
  { true \in SUBSET Name :
      \A c \in claims : (c.admitted \/ c.deps \subseteq true) => c.name \in true }

(* What the induction step needs of a call: both games abort or neither    *)
(* does, and a call that does not abort keeps the invariant and answers    *)
(* the same on both sides.                                                 *)
StepHolds(true) ==
  /\ EqualAborts \in true
  /\ NoAbort \in true => {Invariant, SameOutput} \subseteq true

(* Soundness: if the check accepts the claims, then proving each of them   *)
(* does give the induction step, although equal-aborts is itself one of    *)
(* the things proved and no-abort one of the things assumed.               *)
AcceptedIsSound ==
  phase = "accepted" => \A true \in Supports(lines) : StepHolds(true)

(* Exactness: a rejected block really leaves a situation open in which the *)
(* induction step fails, so the check never refuses claims that suffice.   *)
RejectedIsJustified ==
  phase = "rejected" => \E true \in Supports(lines) : ~StepHolds(true)

(* Nothing counts as established before equal-aborts unless it holds on    *)
(* aborting calls too; afterwards it holds on every call without abort.    *)
ProvableIsTrue ==
  phase # "reading" =>
    \A true \in Supports(lines) :
      IF EqualAborts \in provable
      THEN EqualAborts \in true /\ (NoAbort \in true => provable \subseteq true)
      ELSE provable \subseteq true

(* The fixed point is reached whatever cycles the dependencies have. *)
Terminates == (phase = "iterating") ~> (phase \in {"accepted", "rejected"})
=============================================================================
