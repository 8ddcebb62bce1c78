------------------------- MODULE EquivalenceDriver -------------------------
(***************************************************************************)
(* The verification of one equivalence: EquivalenceSmtDriver, its thread   *)
(* pool and the progress display its threads share.                        *)
(*                                                                         *)
(* The obligations come in claim groups: the invariants at the start, and  *)
(* one group per oracle.  The calling thread installs the whole job in a   *)
(* rayon pool.  A pool thread that reaches a parallel iterator waits for   *)
(* its items, and while it waits it runs whatever is pending in the pool,  *)
(* so the frames of unrelated claims and groups pile up on its stack: a    *)
(* frame goes on only when it is back on top.  All of them update the      *)
(* display under one mutex, and each opens a file for its transcript,      *)
(* named after its group and claim.                                        *)
(***************************************************************************)
EXTENDS Integers, Sequences, FiniteSets

CONSTANTS
  Oracles,      (* the exported oracles                                     *)
  Tree,         (* per oracle: the lines of its proof tree                  *)
  Admitted,     (* the admitted ones, as <<oracle, claim>>                  *)
  Invariants,   (* the package and game invariants of both games            *)
  Injectivity,  (* the injectivity checks of the randomness mapping         *)
  Name(_),      (* the name of a claim: two lines of a tree may share one   *)
  Parallel,     (* --parallel                                               *)
  Requests      (* the command lines considered                             *)

Start == "invariant-start"
StartDirectory == "!invariant-start!"
All == "all"

(* The names a claim can be asked for by. *)
ClaimNames ==
  {Name(c) : c \in {"invariant"} \cup Invariants \cup Injectivity \cup UNION {Tree[o] : o \in Oracles}}

(* A command line: --oracle (All: not given), the names that the pattern   *)
(* of --claim matches, --invariant-start, --injective-randmap and          *)
(* --transcript.  The first and the third exclude each other.              *)
Request ==
  { r \in [oracle : STRING, claims : SUBSET ClaimNames, start : BOOLEAN, injective : BOOLEAN,
           transcript : BOOLEAN] :
      r.start => r.oracle = All }

ASSUME DriverAssumption ==
  /\ IsFiniteSet(Oracles) /\ Oracles \cap {Start, StartDirectory, All} = {}
  /\ \A o \in Oracles : IsFiniteSet(Tree[o]) /\ Tree[o] \cap (Invariants \cup Injectivity) = {}
  /\ Admitted \subseteq UNION {{o} \X Tree[o] : o \in Oracles}
  /\ IsFiniteSet(Invariants) /\ IsFiniteSet(Injectivity) /\ Invariants \cap Injectivity = {}
  /\ Parallel \in Nat
  /\ Requests \subseteq Request

(* num_threads(self.parallel + 1). *)
Workers == 1..(Parallel + 1)

Nobody == 0

-----------------------------------------------------------------------------
(* What a command line asks for. *)

OracleSequence(r) == {o \in Oracles : r.oracle \in {All, o}}

(* Faulty variant: the invariants at the start need --invariant-start. *)
GroupsWithoutStart(r) == IF r.start THEN {Start} ELSE OracleSequence(r)

Groups(r) ==
  IF r.start THEN {Start}
  ELSE IF r.oracle # All \/ r.injective THEN OracleSequence(r)
  ELSE {Start} \cup OracleSequence(r)

(* The claims of a group, as announced to the display. *)
Claims(r, g) ==
  IF g = Start THEN {"invariant"} \cup Invariants
  ELSE IF r.injective THEN Injectivity
  ELSE Tree[g] \cup Invariants \cup Injectivity

(* The ones that --claim leaves. *)
Selected(r, g) == {c \in Claims(r, g) : Name(c) \in r.claims}

Obligations(r) == UNION {{g} \X Selected(r, g) : g \in Groups(r)}

(* The file of the transcript of an obligation.  PathOfClaim is a faulty   *)
(* variant that does not tell the groups apart.                            *)
FileSystemName(g) == IF g = Start THEN StartDirectory ELSE g
PathOfClaim(o) == <<Name(o[2])>>
Path(o) == <<FileSystemName(o[1]), Name(o[2])>>

-----------------------------------------------------------------------------
VARIABLES
  request,   (* the command line                                           *)
  pending,   (* the jobs of the pool nobody runs                           *)
  stack,     (* per worker: its frames, the running one last               *)
  ui,        (* who holds the mutex of the display, or Nobody              *)
  bar,       (* the display: per started group its length and position     *)
  steps,     (* the display: claim groups finished, of how many            *)
  files,     (* per transcript: whose entries may be in it                 *)
  outcome,   (* per obligation: "none", "ok" or "err"                      *)
  ended,     (* the jobs that have returned                                *)
  returned,  (* whether verify_equivalence has returned                    *)
  failed     (* the failed claims it returned                              *)

vars == <<request, pending, stack, ui, bar, steps, files, outcome, ended, returned, failed>>

Root == [kind |-> "root"]
GroupJob(g) == [kind |-> "group", group |-> g]
ClaimJob(o) == [kind |-> "claim", group |-> o[1], claim |-> o[2]]
Obligation(job) == <<job.group, job.claim>>

(* The items of its parallel iterator. *)
Children(job) ==
  CASE job.kind = "root" -> {GroupJob(g) : g \in Groups(request)}
    [] job.kind = "group" -> {ClaimJob(<<job.group, c>>) : c \in Selected(request, job.group)}
    [] job.kind = "claim" -> {}

Jobs == {Root} \cup {GroupJob(g) : g \in Groups(request)} \cup {ClaimJob(o) : o \in Obligations(request)}

(* A frame wants the mutex ("begin", "end"), holds it ("beginning",        *)
(* "ending"), or is between the two announcements ("open", "work"): a      *)
(* claim opens its transcript and waits for its solver there, the others   *)
(* wait for their children.                                                *)
Phase == {"begin", "beginning", "open", "work", "end", "ending"}

Idle(w) == stack[w] = <<>>
Top(w) == stack[w][Len(stack[w])]
Below(w) == SubSeq(stack[w], 1, Len(stack[w]) - 1)
Push(w, job, at) == stack' = [stack EXCEPT ![w] = Append(@, [job |-> job, at |-> at])]
GoTo(w, at) == stack' = [stack EXCEPT ![w][Len(stack[w])].at = at]
Running(w, kinds, at) == ~Idle(w) /\ Top(w).at = at /\ Top(w).job.kind \in kinds

Init ==
  /\ request \in Requests
  /\ pending = {Root}
  /\ stack = [w \in Workers |-> <<>>]
  /\ ui = Nobody
  /\ bar = <<>>
  /\ steps = [len |-> Cardinality(OracleSequence(request)) + 1, pos |-> 0]
  /\ files = [p \in {Path(o) : o \in Obligations(request)} |-> {}]
  /\ outcome = [o \in Obligations(request) |-> "none"]
  /\ ended = {}
  /\ returned = FALSE /\ failed = {}

(* A worker without work, or one that waits for the children of its frame. *)
Free(w) == Idle(w) \/ Running(w, {"root", "group"}, "work")

(* It takes the job that installs the others. *)
Install(w) ==
  /\ Free(w) /\ Root \in pending
  /\ pending' = Children(Root)
  /\ Push(w, Root, "work")
  /\ UNCHANGED <<request, ui, bar, steps, files, outcome, ended, returned, failed>>

Take(w, job) ==
  /\ Free(w) /\ job \in pending /\ job # Root
  /\ ~(job.kind = "claim" /\ Obligation(job) \in Admitted)
  /\ pending' = pending \ {job}
  /\ Push(w, job, "begin")
  /\ UNCHANGED <<request, ui, bar, steps, files, outcome, ended, returned, failed>>

(* verify_oracle_claim accepts an admitted claim without a solver. *)
Admit(w, job) ==
  /\ Free(w) /\ job \in pending
  /\ job.kind = "claim" /\ Obligation(job) \in Admitted
  /\ pending' = pending \ {job}
  /\ outcome' = [outcome EXCEPT ![Obligation(job)] = "ok"]
  /\ ended' = ended \cup {job}
  /\ UNCHANGED <<request, stack, ui, bar, steps, files, returned, failed>>

Lock(w) ==
  /\ ui = Nobody
  /\ \/ Running(w, {"group", "claim"}, "begin") /\ GoTo(w, "beginning")
     \/ Running(w, {"group", "claim"}, "end") /\ GoTo(w, "ending")
  /\ ui' = w
  /\ UNCHANGED <<request, pending, bar, steps, files, outcome, ended, returned, failed>>

(* Faulty variant: the guard of the mutex lives as long as the group. *)
StartGroupLocked(w) ==
  /\ Running(w, {"group"}, "beginning")
  /\ LET job == Top(w).job
     IN  /\ bar' = [g \in DOMAIN bar \cup {job.group} |->
                      IF g = job.group
                      THEN [len |-> Cardinality(Claims(request, g)), pos |-> 0] ELSE bar[g]]
         /\ pending' = pending \cup Children(job)
  /\ GoTo(w, "work")
  /\ UNCHANGED <<request, ui, steps, files, outcome, ended, returned, failed>>

(* start_claim_group, and the group's claims enter the pool. *)
StartGroup(w) ==
  /\ Running(w, {"group"}, "beginning")
  /\ LET job == Top(w).job
     IN  /\ bar' = [g \in DOMAIN bar \cup {job.group} |->
                      IF g = job.group
                      THEN [len |-> Cardinality(Claims(request, g)), pos |-> 0] ELSE bar[g]]
         /\ pending' = pending \cup Children(job)
  /\ GoTo(w, "work")
  /\ ui' = Nobody
  /\ UNCHANGED <<request, steps, files, outcome, ended, returned, failed>>

(* start_claim only changes a message. *)
StartClaim(w) ==
  /\ Running(w, {"claim"}, "beginning")
  /\ GoTo(w, IF request.transcript THEN "open" ELSE "work")
  /\ ui' = Nobody
  /\ UNCHANGED <<request, pending, bar, steps, files, outcome, ended, returned, failed>>

(* The transcript is opened with truncate: what others wrote to the file   *)
(* is lost, but those that have it open go on writing.                     *)
Writing(o) == \E v \in Workers : Running(v, {"claim"}, "work") /\ Top(v).job = ClaimJob(o)

OpenTranscript(w) ==
  /\ Running(w, {"claim"}, "open")
  /\ GoTo(w, "work")
  /\ LET own == Obligation(Top(w).job)
         others == {o \in Obligations(request) : Path(o) = Path(own) /\ Writing(o)}
     IN  files' = [files EXCEPT ![Path(own)] = {own} \cup others]
  /\ UNCHANGED <<request, pending, ui, bar, steps, outcome, ended, returned, failed>>

(* verify_with_solver returns: see SolverChannel. *)
Solve(w) ==
  /\ Running(w, {"claim"}, "work")
  /\ \E r \in {"ok", "err"} : outcome' = [outcome EXCEPT ![Obligation(Top(w).job)] = r]
  /\ GoTo(w, "end")
  /\ UNCHANGED <<request, pending, ui, bar, steps, files, ended, returned, failed>>

FinishClaim(w) ==
  /\ Running(w, {"claim"}, "ending")
  /\ bar' = [bar EXCEPT ![Top(w).job.group].pos = @ + 1]
  /\ ended' = ended \cup {Top(w).job}
  /\ stack' = [stack EXCEPT ![w] = Below(w)]
  /\ ui' = Nobody
  /\ UNCHANGED <<request, pending, steps, files, outcome, returned, failed>>

(* Faulty variant: the group only waits until its claims have been taken.  *)
JoinEarly(w) ==
  /\ Running(w, {"group"}, "work")
  /\ Children(Top(w).job) \cap pending = {}
  /\ GoTo(w, "end")
  /\ UNCHANGED <<request, pending, ui, bar, steps, files, outcome, ended, returned, failed>>

(* The parallel iterator of a group has collected its results. *)
Join(w) ==
  /\ Running(w, {"group"}, "work")
  /\ Children(Top(w).job) \subseteq ended
  /\ GoTo(w, "end")
  /\ UNCHANGED <<request, pending, ui, bar, steps, files, outcome, ended, returned, failed>>

FinishGroup(w) ==
  /\ Running(w, {"group"}, "ending")
  /\ steps' = [steps EXCEPT !.pos = @ + 1]
  /\ ended' = ended \cup {Top(w).job}
  /\ stack' = [stack EXCEPT ![w] = Below(w)]
  /\ ui' = Nobody
  /\ UNCHANGED <<request, pending, bar, files, outcome, returned, failed>>

(* Faulty variant: the first failed claim ends the verification. *)
ConcludeAtFirst(w) ==
  /\ Running(w, {"root"}, "work")
  /\ \/ Children(Root) \subseteq ended
     \/ \E o \in DOMAIN outcome : outcome[o] = "err"
  /\ returned' = TRUE
  /\ failed' = {o \in DOMAIN outcome : outcome[o] = "err"}
  /\ ended' = ended \cup {Root}
  /\ stack' = [stack EXCEPT ![w] = Below(w)]
  /\ UNCHANGED <<request, pending, ui, bar, steps, files, outcome>>

(* All groups have returned: install returns and the failures are picked.  *)
Conclude(w) ==
  /\ Running(w, {"root"}, "work")
  /\ Children(Root) \subseteq ended
  /\ returned' = TRUE
  /\ failed' = {o \in DOMAIN outcome : outcome[o] = "err"}
  /\ ended' = ended \cup {Root}
  /\ stack' = [stack EXCEPT ![w] = Below(w)]
  /\ UNCHANGED <<request, pending, ui, bar, steps, files, outcome>>

Work(w) ==
  \/ Install(w)
  \/ \E job \in pending : Take(w, job) \/ Admit(w, job)
  \/ Lock(w) \/ StartGroup(w) \/ StartClaim(w) \/ OpenTranscript(w) \/ Solve(w)
  \/ FinishClaim(w) \/ Join(w) \/ FinishGroup(w) \/ Conclude(w)

Next == \E w \in Workers : Work(w)

Spec == Init /\ [][Next]_vars

(* Every thread is scheduled and every solver answers.  The mutex need not *)
(* be fair: each thread asks for it a bounded number of times.             *)
FairSpec == Spec /\ \A w \in Workers : WF_vars(Work(w))

-----------------------------------------------------------------------------
(* A verification that nothing was excluded from and that returns no       *)
(* failure has seen the solver confirm the invariants at the start and,    *)
(* for every oracle, every claim that is not admitted, every package and   *)
(* game invariant and both injectivity checks.                             *)
Unrestricted ==
  request.oracle = All /\ ClaimNames \subseteq request.claims /\ ~request.start /\ ~request.injective

Proved(g, c) == <<g, c>> \in DOMAIN outcome /\ outcome[<<g, c>>] = "ok"

OkMeansProved ==
  Unrestricted /\ returned /\ failed = {} =>
    /\ \A c \in {"invariant"} \cup Invariants : Proved(Start, c)
    /\ \A o \in Oracles : \A c \in Tree[o] \cup Invariants \cup Injectivity :
         <<o, c>> \in Admitted \/ Proved(o, c)

(* The display is truthful: a group that is shown as finished has no claim *)
(* left in the pool or on any stack, and no bar is ever beyond its length. *)
BarsAreTruthful ==
  /\ steps.pos <= steps.len
  /\ \A g \in DOMAIN bar : bar[g].pos <= bar[g].len
  /\ \A g \in Groups(request) : GroupJob(g) \in ended =>
       \A o \in Obligations(request) : o[1] = g => ClaimJob(o) \in ended

(* The transcript of an answered query holds that query and nothing else,  *)
(* although threads steal from each other, run claims on top of waiting    *)
(* groups and truncate what they open: unless the lemma lines of one       *)
(* oracle repeat a name, for which nothing looks (handle_lemma_line,       *)
(* get_smt_file).                                                          *)
Answered(o) == o \notin Admitted /\ outcome[o] # "none"

NameIsRepeated(o) ==
  \E d \in Obligations(request) \ (Admitted \cup {o}) : d[1] = o[1] /\ Name(d[2]) = Name(o[2])

TranscriptsAreOwn ==
  request.transcript =>
    \A o \in Obligations(request) : Answered(o) /\ ~NameIsRepeated(o) => files[Path(o)] = {o}

(* The documentation knows no exception: "This option saves the SMT2 code  *)
(* that is fed into the SMT solver (cvc5) as files"                        *)
(* (example-projects/kem-dem/kem-dem-cca-ssp/README.md:100).               *)
TranscriptsAreSaved ==
  request.transcript =>
    \A o \in Obligations(request) : Answered(o) => files[Path(o)] = {o}

(* Running a group or another claim on top of a waiting frame never leaves *)
(* all threads waiting for one another or for the mutex: the verification  *)
(* of an equivalence comes to its end.                                     *)
Finishes == <>returned

(* The abstract verification, implemented. *)
Abstract == INSTANCE EquivalenceVerdict WITH obligations <- Obligations(request)

ImplementsVerdict == Abstract!Spec

(* The source reserves one of the parallel + 1 threads: "one process is    *)
(* reserved for the "main" method" (verify_fn.rs:179), so that --parallel  *)
(* solvers run at a time.                                                  *)
SolversWithinParallel ==
  Cardinality({w \in Workers : Running(w, {"claim"}, "work")}) <= Parallel
=============================================================================
