------------------------ MODULE InductionStepProofs ------------------------
(***************************************************************************)
(* Proofs about InductionStep for every set of names, every set of lemma   *)
(* lines and blocks of any length.                                         *)
(***************************************************************************)
EXTENDS InductionStep, TLAPS

(* Lines collected by the parser are claims, and so are the defaults. *)
LEMMA DefaultsAreClaims ==
  ASSUME NEW claims \in SUBSET Claim
  PROVE  WithDefaults(claims) \in SUBSET Claim
<1>1. DefaultClaims \subseteq Claim
  BY NameAssumption DEF DefaultClaims, Claim, Target
<1>2. QED
  BY <1>1 DEF WithDefaults

(* The names of claims are names. *)
LEMMA NamesAreNames ==
  ASSUME NEW claims \in SUBSET Claim
  PROVE  Names(claims) \subseteq Name
BY DEF Names, Claim

(* Every reachable state is well typed. *)
THEOREM TypeCorrect == Spec => []TypeOK
<1>1. Init => TypeOK
  BY DEF Init, TypeOK, Phase
<1>2. TypeOK /\ [Next]_vars => TypeOK'
  <2> SUFFICES ASSUME TypeOK, [Next]_vars PROVE TypeOK'
    OBVIOUS
  <2>1. ASSUME NEW line \in LemmaLines, ReadLemmaLine(line) PROVE TypeOK'
    BY <2>1, LinesAssumption DEF ReadLemmaLine, TypeOK
  <2>2. CASE StartInduction
    <3>1. lines' \subseteq Claim
      BY <2>2, DefaultsAreClaims DEF StartInduction, TypeOK
    <3>2. { c \in lines' : c.admitted } \in SUBSET Claim
      BY <3>1
    <3>3. provable' \subseteq Name
      BY <2>2, <3>2, NamesAreNames DEF StartInduction, AdmittedNames
    <3>4. QED
      BY <2>2, <3>1, <3>3 DEF StartInduction, TypeOK, Phase
  <2>3. CASE Iterate
    <3>1. Assumable(provable) \subseteq Name
      BY NameAssumption DEF TypeOK, Assumable
    <3>2. NewlyProvable(lines, Assumable(provable)) \subseteq Name
      BY DEF TypeOK, NewlyProvable, Names, Claim
    <3>3. QED
      BY <2>3, <3>1, <3>2 DEF Iterate, TypeOK
  <2>4. CASE CheckTargets
    BY <2>4 DEF CheckTargets, TypeOK, Phase
  <2>5. CASE UNCHANGED vars
    BY <2>5 DEF vars, TypeOK
  <2>6. QED
    BY <2>1, <2>2, <2>3, <2>4, <2>5 DEF Next
<1>3. QED
  BY <1>1, <1>2, PTL DEF Spec

-----------------------------------------------------------------------------
(* What is established in one situation: everything, until equal-aborts is *)
(* there; from then on equal-aborts, and everything if no-abort is true.   *)
Established(known, true) ==
  IF EqualAborts \in known
  THEN EqualAborts \in true /\ (NoAbort \in true => known \subseteq true)
  ELSE known \subseteq true

(* The heart of the argument: one round keeps what is established.  Before *)
(* equal-aborts is known, the round adds only consequences of true names;  *)
(* if equal-aborts is among them it is true as well.  Afterwards only      *)
(* situations without abort matter, and there no-abort may be assumed.     *)
LEMMA RoundKeepsEstablished ==
  ASSUME NEW claims \in SUBSET Claim,
         NEW known \in SUBSET Name,
         NEW true \in Supports(claims),
         Established(known, true)
  PROVE  Established(Assumable(known) \cup NewlyProvable(claims, Assumable(known)), true)
<1> DEFINE base == Assumable(known)
           new  == NewlyProvable(claims, base)
<1>1. base \subseteq true => new \subseteq true
  BY DEF NewlyProvable, Names, Supports
<1>2. CASE EqualAborts \in known
  <2>1. EqualAborts \in true /\ EqualAborts \in base \cup new
    BY <1>2 DEF Established, Assumable
  <2>2. ASSUME NoAbort \in true PROVE base \cup new \subseteq true
    <3>1. base \subseteq true
      BY <1>2, <2>2 DEF Established, Assumable
    <3>2. QED
      BY <1>1, <3>1
  <2>3. QED
    BY <2>1, <2>2 DEF Established
<1>3. CASE EqualAborts \notin known
  <2>1. base \subseteq true
    BY <1>3 DEF Established, Assumable
  <2>2. base \cup new \subseteq true
    BY <1>1, <2>1
  <2>3. QED
    BY <2>2 DEF Established
<1>4. QED
  BY <1>2, <1>3

(* The inductive invariant: the names are established in every situation   *)
(* the lines support; admitted names are always known; and when the loop   *)
(* is about to end, no-abort is known if equal-aborts is and no line can   *)
(* add anything.                                                           *)
IInv ==
  /\ TypeOK
  /\ ProvableIsTrue
  /\ phase # "reading" => AdmittedNames(lines) \subseteq provable
  /\ (phase # "reading" /\ ~progress) =>
       /\ EqualAborts \in provable => NoAbort \in provable
       /\ \A c \in lines : c.deps \subseteq provable => c.name \in provable
  /\ phase = "accepted" => Target \subseteq provable
  /\ phase = "rejected" => ~(Target \subseteq provable) /\ ~progress

LEMMA ProvableIsTrueUnfolded ==
  ProvableIsTrue <=> (phase # "reading" => \A true \in Supports(lines) : Established(provable, true))
BY DEF ProvableIsTrue, Established

LEMMA InductiveInvariant == Spec => []IInv
<1>1. Init => IInv
  BY DEF Init, IInv, TypeOK, Phase, ProvableIsTrue
<1>2. TypeOK /\ TypeOK' /\ IInv /\ [Next]_vars => IInv'
  <2> SUFFICES ASSUME TypeOK, TypeOK', IInv, [Next]_vars PROVE IInv'
    OBVIOUS
  <2>1. ASSUME NEW line \in LemmaLines, ReadLemmaLine(line) PROVE IInv'
    BY <2>1 DEF ReadLemmaLine, IInv, ProvableIsTrue
  <2>2. CASE StartInduction
    <3>1. phase' = "iterating" /\ provable' = AdmittedNames(lines') /\ progress' = TRUE
      BY <2>2 DEF StartInduction
    <3>2. \A true \in Supports(lines') : provable' \subseteq true
      BY <3>1 DEF AdmittedNames, Names, Supports
    <3>3. ProvableIsTrue'
      BY <3>2 DEF ProvableIsTrue
    <3>4. QED
      BY <3>1, <3>3 DEF IInv
  <2>3. CASE Iterate
    <3> DEFINE base == Assumable(provable)
               new  == NewlyProvable(lines, base)
    <3>1. /\ phase = "iterating" /\ phase' = phase /\ lines' = lines
          /\ provable' = base \cup new
          /\ progress' = (new # {})
      BY <2>3 DEF Iterate
    <3>2. ProvableIsTrue'
      <4>1. \A true \in Supports(lines) : Established(provable, true)
        BY <3>1, ProvableIsTrueUnfolded DEF IInv
      <4>2. \A true \in Supports(lines) : Established(base \cup new, true)
        BY <4>1, RoundKeepsEstablished DEF TypeOK
      <4>3. QED
        BY <3>1, <4>2 DEF ProvableIsTrue, Established
    <3>3. AdmittedNames(lines') \subseteq provable'
      BY <3>1 DEF IInv, Assumable
    <3>4. ASSUME ~progress'
          PROVE  /\ EqualAborts \in provable' => NoAbort \in provable'
                 /\ \A c \in lines' : c.deps \subseteq provable' => c.name \in provable'
      <4>1. new = {} /\ provable' = base
        BY <3>1, <3>4
      <4>2. EqualAborts \in base => NoAbort \in base
        BY NameAssumption DEF Assumable
      <4>3. \A c \in lines : c.deps \subseteq base => c.name \in base
        BY <4>1 DEF NewlyProvable, Names
      <4>4. QED
        BY <3>1, <4>1, <4>2, <4>3
    <3>5. QED
      BY <3>1, <3>2, <3>3, <3>4 DEF IInv
  <2>4. CASE CheckTargets
    BY <2>4 DEF CheckTargets, IInv, ProvableIsTrue
  <2>5. CASE UNCHANGED vars
    BY <2>5 DEF vars, IInv, ProvableIsTrue
  <2>6. QED
    BY <2>1, <2>2, <2>3, <2>4, <2>5 DEF Next
<1>3. QED
  BY <1>1, <1>2, TypeCorrect, PTL DEF Spec

(* An accepted block of claims carries the induction step: if every claim  *)
(* that is not admitted is proved under its dependencies, both games abort *)
(* together, and a call without abort keeps the invariant and gives equal  *)
(* outputs.                                                                *)
THEOREM Soundness == Spec => []AcceptedIsSound
<1>1. IInv => AcceptedIsSound
  BY DEF IInv, ProvableIsTrue, AcceptedIsSound, StepHolds, Target
<1>2. QED
  BY <1>1, InductiveInvariant, PTL

(* Every established name is true wherever it is used. *)
THEOREM ProvableCorrect == Spec => []ProvableIsTrue
<1>1. IInv => ProvableIsTrue
  BY DEF IInv
<1>2. QED
  BY <1>1, InductiveInvariant, PTL

(* The check is exact: for a rejected block, the set of established names  *)
(* is itself a situation the claims leave open and in which the induction  *)
(* step fails.                                                             *)
THEOREM Exactness == Spec => []RejectedIsJustified
<1>1. IInv => RejectedIsJustified
  <2> SUFFICES ASSUME IInv, phase = "rejected"
               PROVE  \E true \in Supports(lines) : ~StepHolds(true)
    BY DEF RejectedIsJustified
  <2>1. provable \in Supports(lines)
    <3>1. \A c \in lines : c.admitted => c.name \in provable
      BY DEF IInv, AdmittedNames, Names
    <3>2. \A c \in lines : c.deps \subseteq provable => c.name \in provable
      BY DEF IInv
    <3>3. QED
      BY <3>1, <3>2 DEF Supports, IInv, TypeOK
  <2>2. ~StepHolds(provable)
    BY DEF IInv, StepHolds, Target
  <2>3. QED
    BY <2>1, <2>2
<1>2. QED
  BY <1>1, InductiveInvariant, PTL
=============================================================================
