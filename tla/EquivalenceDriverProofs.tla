---------------------- MODULE EquivalenceDriverProofs ----------------------
(***************************************************************************)
(* Proofs about EquivalenceDriver, for any oracles, claims, requests and   *)
(* any number of threads: no job is ever at two places, a verification     *)
(* without failures has proved what it was asked to prove, the display is  *)
(* truthful, and the pool implements EquivalenceVerdict.                   *)
(*                                                                         *)
(* The invariant speaks of the places of a job (in the pool, on a stack in *)
(* a phase, or ended) and not of positions on stacks: three lemmas say     *)
(* what pushing, moving and popping a frame does to the places.            *)
(***************************************************************************)
EXTENDS EquivalenceDriver, FiniteSetTheorems, TLAPS

Frame == [job : Jobs, at : Phase]

(* The job is on a stack, in this phase. *)
Framed(job, at) ==
  \E w \in Workers : \E i \in 1..Len(stack[w]) : stack[w][i].job = job /\ stack[w][i].at = at

OnStack(job) == \E at \in Phase : Framed(job, at)

(* No job is on two stacks, or twice on one. *)
OneFramePerJob ==
  \A v, w \in Workers : \A i \in 1..Len(stack[v]), j \in 1..Len(stack[w]) :
    stack[v][i].job = stack[w][j].job => v = w /\ i = j

(* The claims of a group that its bar has counted. *)
Counted(g) ==
  {c \in Selected(request, g) : <<g, c>> \notin Admitted /\ ClaimJob(<<g, c>>) \in ended}

EndedGroups == {g \in Groups(request) : GroupJob(g) \in ended}

TypeInv ==
  /\ request \in Requests
  /\ pending \subseteq Jobs /\ ended \subseteq Jobs
  /\ stack \in [Workers -> Seq(Frame)]
  /\ outcome \in [Obligations(request) -> {"none", "ok", "err"}]
  /\ returned \in BOOLEAN

(* Before the root is installed nothing else has happened. *)
RootFirst ==
  /\ Root \in pending =>
       pending = {Root} /\ ended = {} /\ DOMAIN bar = {} /\ \A job \in Jobs : ~OnStack(job)
  /\ \A at \in Phase : Framed(Root, at) => at = "work"

(* A job is in the pool, on a stack or ended, never two of them. *)
OnePlace ==
  /\ pending \cap ended = {}
  /\ \A job \in Jobs : OnStack(job) => job \notin pending \cup ended

(* The bar of a group is there before any of its claims, and not before    *)
(* the group has started.                                                  *)
StartedFirst ==
  /\ DOMAIN bar \subseteq Groups(request)
  /\ \A g \in Groups(request) :
       \/ GroupJob(g) \in pending
       \/ Framed(GroupJob(g), "begin")
       \/ Framed(GroupJob(g), "beginning")
       => g \notin DOMAIN bar
  /\ \A o \in Obligations(request) :
       ClaimJob(o) \in pending \cup ended \/ OnStack(ClaimJob(o)) => o[1] \in DOMAIN bar

(* An obligation is decided once its solver has answered, or its claim was *)
(* admitted; an admitted claim never runs.                                 *)
DecidedOnce ==
  \A o \in Obligations(request) :
    /\ outcome[o] # "none" <=>
         \/ ClaimJob(o) \in ended
         \/ Framed(ClaimJob(o), "end")
         \/ Framed(ClaimJob(o), "ending")
    /\ OnStack(ClaimJob(o)) => o \notin Admitted

(* A group goes on when all its claims have ended, the root when all its   *)
(* groups have, and then the failures are those of the outcome.            *)
ChildrenFirst ==
  /\ \A g \in Groups(request) :
       GroupJob(g) \in ended \/ Framed(GroupJob(g), "end") \/ Framed(GroupJob(g), "ending")
       => \A o \in Obligations(request) : o[1] = g => ClaimJob(o) \in ended
  /\ returned => \A g \in Groups(request) : GroupJob(g) \in ended
  /\ returned <=> Root \in ended
  /\ failed = IF returned THEN {o \in Obligations(request) : outcome[o] = "err"} ELSE {}

BarsCount ==
  /\ \A g \in DOMAIN bar :
       bar[g] = [len |-> Cardinality(Claims(request, g)), pos |-> Cardinality(Counted(g))]
  /\ steps = [len |-> Cardinality(OracleSequence(request)) + 1, pos |-> Cardinality(EndedGroups)]

DriverInv ==
  /\ TypeInv /\ OneFramePerJob /\ RootFirst /\ OnePlace /\ StartedFirst
  /\ DecidedOnce /\ ChildrenFirst /\ BarsCount

-----------------------------------------------------------------------------
(* Names, requests and jobs. *)

(* Jobs of different kinds, groups or claims are different jobs. *)
LEMMA JobFacts ==
  /\ Root.kind = "root" /\ Root \in Jobs
  /\ \A g \in Groups(request) : GroupJob(g) \in Jobs
  /\ \A o \in Obligations(request) : ClaimJob(o) \in Jobs
  /\ \A g : GroupJob(g).kind = "group" /\ GroupJob(g).group = g
  /\ \A o : ClaimJob(o).kind = "claim" /\ ClaimJob(o).group = o[1] /\ ClaimJob(o).claim = o[2]
  /\ \A o \in Obligations(request) : o = <<o[1], o[2]>> /\ o[1] \in Groups(request)
                                      /\ o[2] \in Selected(request, o[1])
  /\ \A g \in Groups(request) : \A c \in Selected(request, g) : <<g, c>> \in Obligations(request)
  /\ \A job \in Jobs :
       \/ job = Root
       \/ job.kind = "group" /\ job.group \in Groups(request) /\ job = GroupJob(job.group)
       \/ /\ job.kind = "claim" /\ Obligation(job) \in Obligations(request)
          /\ job = ClaimJob(Obligation(job)) /\ job.group = Obligation(job)[1]
<1>1. \A o \in Obligations(request) : o = <<o[1], o[2]>> /\ o[1] \in Groups(request)
                                       /\ o[2] \in Selected(request, o[1])
  BY DEF Obligations
<1>2. \A g \in Groups(request) : \A c \in Selected(request, g) : <<g, c>> \in Obligations(request)
  BY DEF Obligations
<1>3. ASSUME NEW job \in {ClaimJob(o) : o \in Obligations(request)}
      PROVE  /\ job.kind = "claim" /\ Obligation(job) \in Obligations(request)
             /\ job = ClaimJob(Obligation(job)) /\ job.group = Obligation(job)[1]
  <2>1. PICK o \in Obligations(request) : job = ClaimJob(o)
    OBVIOUS
  <2>2. Obligation(job) = o
    BY <2>1, <1>1 DEF ClaimJob, Obligation
  <2> QED
    BY <2>1, <2>2 DEF ClaimJob
<1>4. ASSUME NEW g \in Groups(request)
      PROVE  GroupJob(g) \in Jobs
  BY DEF Jobs
<1>5. ASSUME NEW o \in Obligations(request)
      PROVE  ClaimJob(o) \in Jobs
  BY DEF Jobs
<1>6. /\ \A g : GroupJob(g).kind = "group" /\ GroupJob(g).group = g
      /\ \A o : ClaimJob(o).kind = "claim" /\ ClaimJob(o).group = o[1] /\ ClaimJob(o).claim = o[2]
      /\ Root.kind = "root" /\ Root \in Jobs
  BY DEF Jobs, Root, GroupJob, ClaimJob
<1>7. ASSUME NEW job \in {GroupJob(g) : g \in Groups(request)}
      PROVE  job.kind = "group" /\ job.group \in Groups(request) /\ job = GroupJob(job.group)
  BY <1>6
<1>8. \A job \in Jobs : \/ job = Root
                        \/ job \in {GroupJob(g) : g \in Groups(request)}
                        \/ job \in {ClaimJob(o) : o \in Obligations(request)}
  BY DEF Jobs
<1> HIDE DEF Jobs
<1> QED
  BY <1>1, <1>2, <1>3, <1>4, <1>5, <1>6, <1>7, <1>8

-----------------------------------------------------------------------------
(* What a step does to the places on the stacks. *)

(* A job is on a stack once, so that the top frame gives its phase. *)
LEMMA TopFrame ==
  ASSUME stack \in [Workers -> Seq(Frame)], NEW w \in Workers, ~Idle(w)
  PROVE  /\ Len(stack[w]) \in 1..Len(stack[w]) /\ Len(stack[w]) \in Nat
         /\ Top(w).job \in Jobs /\ Top(w).at \in Phase
         /\ Framed(Top(w).job, Top(w).at)
         /\ OneFramePerJob => \A p : Framed(Top(w).job, p) => p = Top(w).at
<1>1. Len(stack[w]) \in 1..Len(stack[w]) /\ Len(stack[w]) \in Nat
  BY DEF Idle
<1>2. Top(w) \in Frame
  BY <1>1 DEF Top
<1> QED
  BY <1>1, <1>2 DEF Framed, Frame, Top, OneFramePerJob

LEMMA Pushed ==
  ASSUME stack \in [Workers -> Seq(Frame)], NEW w \in Workers, NEW job \in Jobs, NEW at \in Phase,
         Push(w, job, at)
  PROVE  /\ stack' \in [Workers -> Seq(Frame)]
         /\ \A j, p : Framed(j, p)' <=> Framed(j, p) \/ (j = job /\ p = at)
         /\ OneFramePerJob /\ ~OnStack(job) => OneFramePerJob'
<1> DEFINE new == [job |-> job, at |-> at]
<1>1. new \in Frame
  BY DEF Frame
<1>2. stack' = [stack EXCEPT ![w] = Append(@, new)]
  BY DEF Push
<1>3. stack' \in [Workers -> Seq(Frame)]
  BY <1>1, <1>2
<1>4. \A v \in Workers : v # w => stack'[v] = stack[v]
  BY <1>2
<1>5. /\ Len(stack'[w]) = Len(stack[w]) + 1 /\ Len(stack[w]) \in Nat
      /\ stack'[w][Len(stack[w]) + 1] = new
      /\ \A i \in 1..Len(stack[w]) : stack'[w][i] = stack[w][i]
  BY <1>1, <1>2
<1>6. new.job = job /\ new.at = at
  OBVIOUS
<1> HIDE DEF new
<1>7. \A j, p : Framed(j, p)' <=> Framed(j, p) \/ (j = job /\ p = at)
  <2>1. ASSUME NEW j, NEW p, Framed(j, p)'
        PROVE  Framed(j, p) \/ (j = job /\ p = at)
    <3>1. PICK v \in Workers : \E i \in 1..Len(stack'[v]) : stack'[v][i].job = j /\ stack'[v][i].at = p
      BY <2>1 DEF Framed, Workers
    <3> PICK i \in 1..Len(stack'[v]) : stack'[v][i].job = j /\ stack'[v][i].at = p
      BY <3>1
    <3>2. CASE v # w
      BY <3>2, <1>4 DEF Framed
    <3>3. CASE v = w /\ i = Len(stack[w]) + 1
      BY <3>3, <1>5, <1>6
    <3>4. CASE v = w /\ i # Len(stack[w]) + 1
      <4>1. i \in 1..Len(stack[w])
        BY <3>4, <1>5
      <4> QED
        BY <3>4, <4>1, <1>5 DEF Framed
    <3> QED
      BY <3>2, <3>3, <3>4
  <2>2. ASSUME NEW j, NEW p, Framed(j, p)
        PROVE  Framed(j, p)'
    <3>1. PICK v \in Workers : \E i \in 1..Len(stack[v]) : stack[v][i].job = j /\ stack[v][i].at = p
      BY <2>2 DEF Framed
    <3> PICK i \in 1..Len(stack[v]) : stack[v][i].job = j /\ stack[v][i].at = p
      BY <3>1
    <3>2. i \in 1..Len(stack'[v]) /\ stack'[v][i] = stack[v][i]
      BY <1>4, <1>5
    <3> QED
      BY <3>2 DEF Framed, Workers
  <2>3. Framed(job, at)'
    BY <1>5, <1>6 DEF Framed, Workers
  <2> QED
    BY <2>1, <2>2, <2>3
<1>8. ASSUME OneFramePerJob, ~OnStack(job)
      PROVE  OneFramePerJob'
  <2>1. ASSUME NEW v \in Workers, NEW i \in 1..Len(stack[v])
        PROVE  stack[v][i].job # job
    <3>1. stack[v][i] \in Frame
      OBVIOUS
    <3>2. Framed(stack[v][i].job, stack[v][i].at) /\ stack[v][i].at \in Phase
      BY <3>1 DEF Framed, Frame
    <3> QED
      BY <3>2, <1>8 DEF OnStack
  <2>2. ASSUME NEW v \in Workers, NEW i \in 1..Len(stack'[v])
        PROVE  \/ v = w /\ i = Len(stack[w]) + 1 /\ stack'[v][i] = new
               \/ i \in 1..Len(stack[v]) /\ stack'[v][i] = stack[v][i]
    BY <1>4, <1>5
  <2> SUFFICES ASSUME NEW u \in Workers, NEW v \in Workers,
                      NEW i \in 1..Len(stack'[u]), NEW k \in 1..Len(stack'[v]),
                      stack'[u][i].job = stack'[v][k].job
               PROVE  u = v /\ i = k
    BY DEF OneFramePerJob, Workers
  <2>3. CASE stack'[u][i] = new \/ stack'[v][k] = new
    <3>1. stack'[u][i].job = job /\ stack'[v][k].job = job
      BY <2>3, <1>6
    <3>2. u = w /\ i = Len(stack[w]) + 1
      BY <3>1, <2>1, <2>2
    <3>3. v = w /\ k = Len(stack[w]) + 1
      BY <3>1, <2>1, <2>2
    <3> QED
      BY <3>2, <3>3
  <2>4. CASE stack'[u][i] # new /\ stack'[v][k] # new
    <3>1. /\ i \in 1..Len(stack[u]) /\ k \in 1..Len(stack[v])
          /\ stack[u][i].job = stack[v][k].job
      BY <2>2, <2>4
    <3> QED
      BY <3>1, <1>8 DEF OneFramePerJob
  <2> QED
    BY <2>3, <2>4
<1> QED
  BY <1>3, <1>7, <1>8

LEMMA Moved ==
  ASSUME stack \in [Workers -> Seq(Frame)], OneFramePerJob,
         NEW w \in Workers, NEW at \in Phase, ~Idle(w), GoTo(w, at)
  PROVE  /\ stack' \in [Workers -> Seq(Frame)]
         /\ \A j, p : Framed(j, p)' <=> IF j = Top(w).job THEN p = at ELSE Framed(j, p)
         /\ OneFramePerJob'
<1> DEFINE n == Len(stack[w])
<1>1. n \in 1..Len(stack[w]) /\ n \in Nat /\ Top(w).job \in Jobs
  BY TopFrame
<1>2. /\ \A v \in Workers : v # w => stack'[v] = stack[v]
      /\ stack'[w] = [stack[w] EXCEPT ![n] = [@ EXCEPT !.at = at]]
  BY DEF GoTo
<1>3. /\ Len(stack'[w]) = n
      /\ \A i \in 1..n : i # n => stack'[w][i] = stack[w][i]
      /\ stack'[w][n] = [stack[w][n] EXCEPT !.at = at]
      /\ stack[w] \in Seq(Frame)
  BY <1>1, <1>2
<1>4. stack'[w][n] \in Frame /\ stack'[w][n].job = Top(w).job /\ stack'[w][n].at = at
  <2>1. stack[w][n] \in Frame
    BY <1>1
  <2> QED
    BY <2>1, <1>3 DEF Frame, Top
<1>5. stack'[w] \in Seq(Frame)
  BY <1>1, <1>2, <1>3, <1>4
<1>6. stack' \in [Workers -> Seq(Frame)]
  BY <1>5, <1>2 DEF GoTo
<1>7. \A v \in Workers : Len(stack'[v]) = Len(stack[v])
                         /\ \A i \in 1..Len(stack[v]) : stack'[v][i].job = stack[v][i].job
  BY <1>1, <1>2, <1>3, <1>4 DEF Top
<1>8. \A v \in Workers : \A i \in 1..Len(stack[v]) :
        stack[v][i].job = Top(w).job => v = w /\ i = n
  BY <1>1 DEF OneFramePerJob, Top
<1> HIDE DEF n
<1>9. ASSUME NEW j, NEW p
      PROVE  Framed(j, p)' <=> IF j = Top(w).job THEN p = at ELSE Framed(j, p)
  <2>1. CASE j = Top(w).job
    <3>1. Framed(j, at)'
      <4>1. n \in 1..Len(stack'[w]) /\ stack'[w][n].job = j /\ stack'[w][n].at = at
        BY <2>1, <1>1, <1>3, <1>4
      <4> QED
        BY <4>1 DEF Framed, Workers
    <3>2. \A v \in Workers : \A i \in 1..Len(stack'[v]) :
            stack'[v][i].job = j => stack'[v][i].at = at
      BY <2>1, <1>4, <1>7, <1>8
    <3>3. Framed(j, p)' => p = at
      BY <3>2 DEF Framed, Workers
    <3> QED
      BY <2>1, <3>1, <3>3
  <2>2. CASE j # Top(w).job
    <3>1. \A v \in Workers : \A i \in 1..Len(stack[v]) :
            stack[v][i].job = j => stack'[v][i] = stack[v][i]
      BY <2>2, <1>1, <1>2, <1>3 DEF Top, n
    <3>2. \A v \in Workers : \A i \in 1..Len(stack[v]) :
            stack'[v][i].job = j /\ stack'[v][i].at = p <=> stack[v][i].job = j /\ stack[v][i].at = p
      BY <3>1, <1>7
    <3>3. \A v \in Workers : 1..Len(stack'[v]) = 1..Len(stack[v])
      BY <1>7
    <3>4. Framed(j, p)' <=> Framed(j, p)
      BY <3>2, <3>3 DEF Framed, Workers
    <3> QED
      BY <2>2, <3>4
  <2> QED
    BY <2>1, <2>2
<1>10. OneFramePerJob'
  BY <1>7 DEF OneFramePerJob, Workers
<1> QED
  BY <1>6, <1>9, <1>10

LEMMA Popped ==
  ASSUME stack \in [Workers -> Seq(Frame)], OneFramePerJob,
         NEW w \in Workers, ~Idle(w), stack' = [stack EXCEPT ![w] = Below(w)]
  PROVE  /\ stack' \in [Workers -> Seq(Frame)]
         /\ \A j, p : Framed(j, p)' <=> j # Top(w).job /\ Framed(j, p)
         /\ OneFramePerJob'
<1> DEFINE n == Len(stack[w])
<1>1. n \in 1..Len(stack[w]) /\ n \in Nat
  BY TopFrame
<1>2. /\ \A v \in Workers : v # w => stack'[v] = stack[v]
      /\ stack'[w] = SubSeq(stack[w], 1, n - 1)
  BY DEF Below
<1>3. /\ Len(stack'[w]) = n - 1 /\ stack'[w] \in Seq(Frame)
      /\ \A i \in 1..(n - 1) : stack'[w][i] = stack[w][i]
  BY <1>1, <1>2
<1>4. stack' \in [Workers -> Seq(Frame)]
  BY <1>2, <1>3
<1>5. \A v \in Workers : \A i \in 1..Len(stack[v]) :
        stack[v][i].job = Top(w).job <=> v = w /\ i = n
  BY <1>1 DEF OneFramePerJob, Top
<1>6. \A v \in Workers :
        /\ 1..Len(stack'[v]) \subseteq 1..Len(stack[v])
        /\ \A i \in 1..Len(stack'[v]) : stack'[v][i] = stack[v][i] /\ ~(v = w /\ i = n)
        /\ \A i \in 1..Len(stack[v]) : (v = w /\ i = n) \/ i \in 1..Len(stack'[v])
  BY <1>1, <1>2, <1>3
<1> HIDE DEF n
<1>7. ASSUME NEW j, NEW p
      PROVE  Framed(j, p)' <=> j # Top(w).job /\ Framed(j, p)
  <2>1. ASSUME Framed(j, p)'
        PROVE  j # Top(w).job /\ Framed(j, p)
    <3>1. PICK v \in Workers : \E i \in 1..Len(stack'[v]) : stack'[v][i].job = j /\ stack'[v][i].at = p
      BY <2>1 DEF Framed, Workers
    <3>2. PICK i \in 1..Len(stack'[v]) : stack'[v][i].job = j /\ stack'[v][i].at = p
      BY <3>1
    <3>3. i \in 1..Len(stack[v]) /\ stack[v][i].job = j /\ stack[v][i].at = p /\ ~(v = w /\ i = n)
      BY <1>6, <3>2
    <3> QED
      BY <1>5, <3>3 DEF Framed
  <2>2. ASSUME j # Top(w).job, Framed(j, p)
        PROVE  Framed(j, p)'
    <3>1. PICK v \in Workers : \E i \in 1..Len(stack[v]) : stack[v][i].job = j /\ stack[v][i].at = p
      BY <2>2 DEF Framed
    <3>2. PICK i \in 1..Len(stack[v]) : stack[v][i].job = j /\ stack[v][i].at = p
      BY <3>1
    <3>3. i \in 1..Len(stack'[v]) /\ stack'[v][i] = stack[v][i]
      BY <1>5, <1>6, <2>2, <3>2
    <3> QED
      BY <3>2, <3>3 DEF Framed, Workers
  <2> QED
    BY <2>1, <2>2
<1>8. OneFramePerJob'
  BY <1>6 DEF OneFramePerJob, Workers
<1> QED
  BY <1>4, <1>7, <1>8

-----------------------------------------------------------------------------
(* The invariant holds at the start and every step keeps it. *)

LEMMA SameRequest ==
  ASSUME request' = request
  PROVE  /\ Jobs' = Jobs /\ Frame' = Frame
         /\ Groups(request)' = Groups(request) /\ Obligations(request)' = Obligations(request)
         /\ \A g : Selected(request, g)' = Selected(request, g)
         /\ \A g : Claims(request, g)' = Claims(request, g)
         /\ OracleSequence(request)' = OracleSequence(request)
<1>1. Jobs' = Jobs
  BY DEF Jobs
<1> QED
  BY <1>1 DEF Frame

(* What a bar has counted depends on the claims that ended only. *)
LEMMA SameCount ==
  ASSUME request' = request
  PROVE  /\ \A g : (\A c \in Selected(request, g) : <<g, c>> \notin Admitted =>
                      (ClaimJob(<<g, c>>) \in ended' <=> ClaimJob(<<g, c>>) \in ended))
                   => Counted(g)' = Counted(g)
         /\ (\A g \in Groups(request) : GroupJob(g) \in ended' <=> GroupJob(g) \in ended)
            => EndedGroups' = EndedGroups
BY DEF Counted, EndedGroups

LEMMA InitInv == Init => DriverInv
<1> SUFFICES ASSUME Init PROVE DriverInv
  OBVIOUS
<1> USE DEF Init
<1>1. \A w \in Workers : Len(stack[w]) = 0
  OBVIOUS
<1>2. \A job, at : ~Framed(job, at)
  BY <1>1 DEF Framed
<1>3. DOMAIN bar = {}
  OBVIOUS
<1>4. TypeInv
  <2>1. <<>> \in Seq(Frame)
    OBVIOUS
  <2>2. stack \in [Workers -> Seq(Frame)]
    BY <2>1
  <2>3. outcome \in [Obligations(request) -> {"none", "ok", "err"}]
    OBVIOUS
  <2> QED
    BY <2>2, <2>3, JobFacts DEF TypeInv
<1>5. OneFramePerJob
  BY <1>1 DEF OneFramePerJob
<1>6. RootFirst /\ OnePlace
  BY <1>2, <1>3 DEF RootFirst, OnePlace, OnStack
<1>7. StartedFirst
  BY <1>2, <1>3, JobFacts DEF StartedFirst, OnStack
<1>8. DecidedOnce
  BY <1>2 DEF DecidedOnce, OnStack
<1>9. ChildrenFirst
  BY <1>2 DEF ChildrenFirst
<1>10. BarsCount
  <2>1. EndedGroups = {}
    BY DEF EndedGroups
  <2> QED
    BY <2>1, <1>3, FS_EmptySet DEF BarsCount
<1> QED
  BY <1>4, <1>5, <1>6, <1>7, <1>8, <1>9, <1>10 DEF DriverInv

LEMMA InstallInv ==
  ASSUME DriverInv, NEW w \in Workers, Install(w)
  PROVE  DriverInv'
<1> USE DEF DriverInv
<1>1. /\ pending = {Root} /\ ended = {} /\ DOMAIN bar = {}
      /\ \A job \in Jobs : ~OnStack(job)
  BY DEF Install, RootFirst
<1>2. /\ request' = request /\ pending' = {GroupJob(g) : g \in Groups(request)}
      /\ Push(w, Root, "work")
      /\ ended' = {} /\ bar' = bar /\ outcome' = outcome /\ returned' = returned
      /\ failed' = failed /\ steps' = steps
  BY <1>1 DEF Install, Children, Root
<1>3. /\ stack' \in [Workers -> Seq(Frame)]
      /\ \A j, p : Framed(j, p)' <=> Framed(j, p) \/ (j = Root /\ p = "work")
      /\ OneFramePerJob'
  BY <1>1, <1>2, Pushed, JobFacts DEF TypeInv, Phase
<1>4. \A j \in Jobs, p \in Phase : Framed(j, p)' <=> j = Root /\ p = "work"
  BY <1>1, <1>3 DEF OnStack
<1>5. \A o \in Obligations(request), p \in Phase : ~Framed(ClaimJob(o), p)'
  BY <1>4, JobFacts
<1>6. TypeInv'
  BY <1>1, <1>2, <1>3, SameRequest, JobFacts DEF TypeInv
<1>7. RootFirst'
  BY <1>2, <1>3, <1>4, JobFacts DEF RootFirst
<1>8. OnePlace'
  BY <1>2, <1>4, SameRequest, JobFacts DEF OnePlace, OnStack
<1>9. StartedFirst'
  BY <1>1, <1>2, <1>5, SameRequest, JobFacts DEF StartedFirst, OnStack
<1>10. DecidedOnce'
  BY <1>1, <1>2, <1>5, SameRequest, JobFacts DEF DecidedOnce, OnStack, Phase
<1>11. ChildrenFirst'
  BY <1>1, <1>2, <1>4, SameRequest, JobFacts DEF ChildrenFirst, Phase
<1>12. BarsCount'
  BY <1>1, <1>2, SameRequest, SameCount DEF BarsCount
<1> QED
  BY <1>3, <1>6, <1>7, <1>8, <1>9, <1>10, <1>11, <1>12
LEMMA TakeInv ==
  ASSUME DriverInv, NEW w \in Workers, NEW job \in pending, Take(w, job)
  PROVE  DriverInv'
<1> USE DEF DriverInv
<1>1. /\ request' = request /\ pending' = pending \ {job} /\ Push(w, job, "begin")
      /\ ended' = ended /\ bar' = bar /\ outcome' = outcome /\ returned' = returned
      /\ failed' = failed /\ steps' = steps
      /\ job \in Jobs /\ job # Root /\ ~(job.kind = "claim" /\ Obligation(job) \in Admitted)
  BY DEF Take, TypeInv
<1>2. job \notin ended /\ ~OnStack(job)
  BY <1>1 DEF OnePlace
<1>3. Root \notin pending
  BY <1>1 DEF RootFirst
<1>4. /\ stack' \in [Workers -> Seq(Frame)]
      /\ \A j, p : Framed(j, p)' <=> Framed(j, p) \/ (j = job /\ p = "begin")
      /\ OneFramePerJob'
  BY <1>1, <1>2, Pushed DEF TypeInv, Phase
<1>5. \A j \in Jobs : OnStack(j)' <=> OnStack(j) \/ j = job
  BY <1>4 DEF OnStack, Phase
<1>6. TypeInv'
  BY <1>1, <1>4, SameRequest DEF TypeInv
<1>7. RootFirst'
  BY <1>1, <1>3, <1>4 DEF RootFirst
<1>8. OnePlace'
  BY <1>1, <1>2, <1>5, SameRequest DEF OnePlace
<1>9. StartedFirst'
  BY <1>1, <1>4, <1>5, SameRequest, JobFacts DEF StartedFirst
<1>10. DecidedOnce'
  <2> SUFFICES ASSUME NEW o \in Obligations(request)
               PROVE  /\ outcome[o] # "none" <=>
                           \/ ClaimJob(o) \in ended
                           \/ Framed(ClaimJob(o), "end")'
                           \/ Framed(ClaimJob(o), "ending")'
                      /\ OnStack(ClaimJob(o))' => o \notin Admitted
    BY <1>1, SameRequest DEF DecidedOnce
  <2>1. ClaimJob(o) \in Jobs /\ ClaimJob(o).kind = "claim" /\ Obligation(ClaimJob(o)) = o
    BY JobFacts DEF Obligation
  <2> QED
    BY <2>1, <1>1, <1>4, <1>5 DEF DecidedOnce
<1>11. ChildrenFirst'
  BY <1>1, <1>4, SameRequest, JobFacts DEF ChildrenFirst
<1>12. BarsCount'
  BY <1>1, SameRequest, SameCount DEF BarsCount, StartedFirst
<1> QED
  BY <1>4, <1>6, <1>7, <1>8, <1>9, <1>10, <1>11, <1>12

LEMMA AdmitInv ==
  ASSUME DriverInv, NEW w \in Workers, NEW job \in pending, Admit(w, job)
  PROVE  DriverInv'
<1> USE DEF DriverInv
<1> DEFINE d == Obligation(job)
<1>1. /\ request' = request /\ pending' = pending \ {job} /\ stack' = stack
      /\ ended' = ended \cup {job} /\ bar' = bar /\ outcome' = [outcome EXCEPT ![d] = "ok"]
      /\ returned' = returned /\ failed' = failed /\ steps' = steps
      /\ job \in Jobs /\ job.kind = "claim" /\ d \in Admitted
  BY DEF Admit, TypeInv
<1>2. d \in Obligations(request) /\ job = ClaimJob(d) /\ job # Root
  BY <1>1, JobFacts
<1>3. job \notin ended /\ ~OnStack(job)
  BY <1>1 DEF OnePlace
<1>4. Root \notin pending
  BY <1>2 DEF RootFirst
<1>5. \A j, p : Framed(j, p)' <=> Framed(j, p)
  BY <1>1 DEF Framed, Workers
<1>6. \A o \in Obligations(request) : ClaimJob(o) = job <=> o = d
  BY <1>2, JobFacts DEF Obligation
<1>7. outcome[d] = "none"
  BY <1>2, <1>3 DEF DecidedOnce, OnStack, Phase
<1>8. outcome' \in [Obligations(request) -> {"none", "ok", "err"}] /\ outcome'[d] = "ok"
      /\ \A o \in Obligations(request) : o # d => outcome'[o] = outcome[o]
  BY <1>1, <1>2 DEF TypeInv
<1> HIDE DEF d
<1>9. TypeInv'
  BY <1>1, <1>8, SameRequest DEF TypeInv
<1>10. OneFramePerJob'
  BY <1>1 DEF OneFramePerJob, Workers
<1>11. RootFirst'
  BY <1>1, <1>2, <1>4, <1>5 DEF RootFirst
<1>12. OnePlace'
  BY <1>1, <1>3, <1>5, SameRequest DEF OnePlace, OnStack
<1>13. StartedFirst'
  BY <1>1, <1>5, SameRequest, JobFacts DEF StartedFirst, OnStack
<1>14. DecidedOnce'
  BY <1>1, <1>2, <1>5, <1>6, <1>8, SameRequest DEF DecidedOnce, OnStack
<1>15. ~returned
  <2>1. d[1] \in Groups(request) /\ GroupJob(d[1]) \in Jobs
    BY <1>2, JobFacts
  <2> QED
    BY <2>1, <1>2, <1>3 DEF ChildrenFirst
<1>16. ChildrenFirst'
  BY <1>1, <1>2, <1>5, <1>15, SameRequest, JobFacts DEF ChildrenFirst
<1>17. BarsCount'
  <2>1. \A g \in Groups(request) : \A c \in Selected(request, g) :
          <<g, c>> \notin Admitted => ClaimJob(<<g, c>>) # job
    BY <1>1, <1>6, JobFacts
  <2>2. \A g \in Groups(request) : GroupJob(g) # job
    BY <1>1, JobFacts
  <2> QED
    BY <2>1, <2>2, <1>1, SameRequest, SameCount DEF BarsCount, StartedFirst
<1> QED
  BY <1>9, <1>10, <1>11, <1>12, <1>13, <1>14, <1>16, <1>17

(* A frame that only goes on to its next phase. *)
LEMMA MovedInv ==
  ASSUME DriverInv, NEW w \in Workers, ~Idle(w), NEW at \in Phase, GoTo(w, at),
         UNCHANGED <<request, pending, bar, steps, outcome, ended, returned, failed>>,
         Top(w).job # Root,
         at \in {"begin", "beginning"} => Top(w).at \in {"begin", "beginning"},
         Top(w).job.kind = "claim" => (at \in {"end", "ending"} <=> Top(w).at \in {"end", "ending"}),
         Top(w).job.kind = "group" /\ at \in {"end", "ending"} =>
           \A o \in Obligations(request) : o[1] = Top(w).job.group => ClaimJob(o) \in ended
  PROVE  DriverInv'
<1> USE DEF DriverInv
<1> DEFINE job == Top(w).job
<1>1. job \in Jobs /\ Framed(job, Top(w).at) /\ Top(w).at \in Phase
  BY TopFrame DEF TypeInv
<1>2. /\ stack' \in [Workers -> Seq(Frame)]
      /\ \A j, p : Framed(j, p)' <=> IF j = job THEN p = at ELSE Framed(j, p)
      /\ OneFramePerJob'
  BY Moved DEF TypeInv
<1>3. \A p : Framed(job, p) <=> p = Top(w).at
  BY <1>1, TopFrame DEF TypeInv
<1> HIDE DEF job
<1>4. \A j \in Jobs : OnStack(j)' <=> OnStack(j)
  BY <1>1, <1>2 DEF OnStack
<1>5. TypeInv'
  BY <1>2, SameRequest DEF TypeInv
<1>6. RootFirst'
  BY <1>2, <1>4, SameRequest DEF RootFirst, job
<1>7. OnePlace'
  BY <1>4, SameRequest DEF OnePlace
<1>8. StartedFirst'
  BY <1>2, <1>3, <1>4, SameRequest, JobFacts DEF StartedFirst, job
<1>9. DecidedOnce'
  BY <1>2, <1>3, <1>4, SameRequest, JobFacts DEF DecidedOnce, job
<1>10. ChildrenFirst'
  BY <1>2, <1>3, SameRequest, JobFacts DEF ChildrenFirst, job
<1>11. BarsCount'
  BY SameRequest, SameCount DEF BarsCount, StartedFirst
<1> QED
  BY <1>2, <1>5, <1>6, <1>7, <1>8, <1>9, <1>10, <1>11
LEMMA LockInv ==
  ASSUME DriverInv, NEW w \in Workers, Lock(w)
  PROVE  DriverInv'
<1> DEFINE job == Top(w).job
<1>1. ~Idle(w) /\ job.kind \in {"group", "claim"}
  BY DEF Lock, Running
<1>2. job # Root /\ job \in Jobs /\ Framed(job, Top(w).at)
  BY <1>1, JobFacts, TopFrame DEF DriverInv, TypeInv
<1>3. CASE Top(w).at = "begin" /\ GoTo(w, "beginning")
  BY <1>1, <1>2, <1>3, MovedInv DEF Lock, Phase
<1>4. CASE Top(w).at = "end" /\ GoTo(w, "ending")
  <2>1. job.kind = "group" =>
          \A o \in Obligations(request) : o[1] = job.group => ClaimJob(o) \in ended
    BY <1>2, <1>4, JobFacts DEF DriverInv, ChildrenFirst
  <2> QED
    BY <1>1, <1>2, <1>4, <2>1, MovedInv DEF Lock, Phase
<1> QED
  BY <1>3, <1>4 DEF Lock, Running

LEMMA StartClaimInv ==
  ASSUME DriverInv, NEW w \in Workers, StartClaim(w)
  PROVE  DriverInv'
<1>1. /\ ~Idle(w) /\ Top(w).job.kind = "claim" /\ Top(w).at = "beginning"
      /\ GoTo(w, "open") \/ GoTo(w, "work")
      /\ UNCHANGED <<request, pending, bar, steps, outcome, ended, returned, failed>>
  BY DEF StartClaim, Running
<1> QED
  BY <1>1, MovedInv, JobFacts DEF Phase

LEMMA OpenTranscriptInv ==
  ASSUME DriverInv, NEW w \in Workers, OpenTranscript(w)
  PROVE  DriverInv'
<1>1. /\ ~Idle(w) /\ Top(w).job.kind = "claim" /\ Top(w).at = "open" /\ GoTo(w, "work")
      /\ UNCHANGED <<request, pending, bar, steps, outcome, ended, returned, failed>>
  BY DEF OpenTranscript, Running
<1> QED
  BY <1>1, MovedInv, JobFacts DEF Phase

LEMMA JoinInv ==
  ASSUME DriverInv, NEW w \in Workers, Join(w)
  PROVE  DriverInv'
<1> DEFINE job == Top(w).job
<1>1. /\ ~Idle(w) /\ job.kind = "group" /\ Top(w).at = "work" /\ GoTo(w, "end")
      /\ UNCHANGED <<request, pending, bar, steps, outcome, ended, returned, failed>>
      /\ Children(job) \subseteq ended
  BY DEF Join, Running
<1>2. \A o \in Obligations(request) : o[1] = job.group => ClaimJob(o) \in ended
  <2> SUFFICES ASSUME NEW o \in Obligations(request), o[1] = job.group
               PROVE  ClaimJob(o) \in Children(job)
    BY <1>1
  <2> QED
    BY <1>1, JobFacts DEF Children
<1> QED
  BY <1>1, <1>2, MovedInv, JobFacts DEF Phase

LEMMA SolveInv ==
  ASSUME DriverInv, NEW w \in Workers, Solve(w)
  PROVE  DriverInv'
<1> USE DEF DriverInv
<1> DEFINE job == Top(w).job
           d == Obligation(job)
<1>1. PICK r \in {"ok", "err"} : outcome' = [outcome EXCEPT ![d] = r]
  BY DEF Solve
<1>2. /\ request' = request /\ pending' = pending /\ GoTo(w, "end")
      /\ ended' = ended /\ bar' = bar /\ returned' = returned /\ failed' = failed /\ steps' = steps
      /\ ~Idle(w) /\ job.kind = "claim" /\ Top(w).at = "work"
  BY DEF Solve, Running
<1>3. /\ job \in Jobs /\ OneFramePerJob
      /\ \A p : Framed(job, p) <=> p = "work"
  BY <1>2, TopFrame DEF TypeInv
<1>4. /\ stack' \in [Workers -> Seq(Frame)]
      /\ \A j, p : Framed(j, p)' <=> IF j = job THEN p = "end" ELSE Framed(j, p)
      /\ OneFramePerJob'
  BY <1>2, Moved DEF TypeInv, Phase
<1>5. d \in Obligations(request) /\ job = ClaimJob(d) /\ job # Root
  BY <1>2, <1>3, JobFacts
<1>6. \A o \in Obligations(request) : ClaimJob(o) = job <=> o = d
  BY <1>5, JobFacts DEF Obligation
<1>7. outcome' \in [Obligations(request) -> {"none", "ok", "err"}] /\ outcome'[d] # "none"
      /\ \A o \in Obligations(request) : o # d => outcome'[o] = outcome[o]
  BY <1>1, <1>5 DEF TypeInv
<1> HIDE DEF d, job
<1>8. OnStack(job) /\ job \notin ended /\ \A j : OnStack(j)' <=> OnStack(j)
  BY <1>3, <1>4 DEF OnStack, OnePlace, Phase
<1>9. TypeInv'
  BY <1>2, <1>4, <1>7, SameRequest DEF TypeInv
<1>10. RootFirst'
  BY <1>2, <1>4, <1>5, <1>8, SameRequest DEF RootFirst
<1>11. OnePlace'
  BY <1>2, <1>8, SameRequest DEF OnePlace
<1>12. StartedFirst'
  BY <1>2, <1>4, <1>5, <1>8, SameRequest, JobFacts DEF StartedFirst
<1>13. DecidedOnce'
  BY <1>2, <1>4, <1>5, <1>6, <1>7, <1>8, SameRequest DEF DecidedOnce
<1>14. ~returned
  <2>1. d[1] \in Groups(request)
    BY <1>5, JobFacts
  <2> QED
    BY <2>1, <1>5, <1>8 DEF ChildrenFirst
<1>15. ChildrenFirst'
  BY <1>2, <1>4, <1>5, <1>14, SameRequest, JobFacts DEF ChildrenFirst
<1>16. BarsCount'
  BY <1>2, SameRequest, SameCount DEF BarsCount, StartedFirst
<1> QED
  BY <1>4, <1>9, <1>10, <1>11, <1>12, <1>13, <1>15, <1>16

LEMMA StartGroupInv ==
  ASSUME DriverInv, NEW w \in Workers, StartGroup(w)
  PROVE  DriverInv'
<1> USE DEF DriverInv
<1> DEFINE job == Top(w).job
           g == job.group
<1>1. /\ request' = request /\ pending' = pending \cup Children(job) /\ GoTo(w, "work")
      /\ bar' = [h \in DOMAIN bar \cup {g} |->
                   IF h = g THEN [len |-> Cardinality(Claims(request, h)), pos |-> 0] ELSE bar[h]]
      /\ ended' = ended /\ outcome' = outcome /\ returned' = returned
      /\ failed' = failed /\ steps' = steps
      /\ ~Idle(w) /\ job.kind = "group" /\ Top(w).at = "beginning"
  BY DEF StartGroup, Running
<1>2. /\ job \in Jobs /\ OneFramePerJob
      /\ \A p : Framed(job, p) <=> p = "beginning"
  BY <1>1, TopFrame DEF TypeInv
<1>3. /\ stack' \in [Workers -> Seq(Frame)]
      /\ \A j, p : Framed(j, p)' <=> IF j = job THEN p = "work" ELSE Framed(j, p)
      /\ OneFramePerJob'
  BY <1>1, Moved DEF TypeInv, Phase
<1>4. g \in Groups(request) /\ job = GroupJob(g) /\ job # Root
  BY <1>1, <1>2, JobFacts
<1>5. Children(job) = {ClaimJob(<<g, c>>) : c \in Selected(request, g)}
  BY <1>1 DEF Children
<1>6. ASSUME NEW o \in Obligations(request), o[1] = g
      PROVE  ClaimJob(o) \in Children(job)
  <2>1. o = <<g, o[2]>> /\ o[2] \in Selected(request, g)
    BY <1>6, JobFacts
  <2> QED
    BY <2>1, <1>5
<1>7. g \notin DOMAIN bar
  BY <1>2, <1>4 DEF StartedFirst
<1>8. \A o \in Obligations(request) : o[1] = g =>
        ClaimJob(o) \notin pending \cup ended /\ ~OnStack(ClaimJob(o))
  BY <1>7 DEF StartedFirst
<1>9. /\ DOMAIN bar' = DOMAIN bar \cup {g}
      /\ bar'[g] = [len |-> Cardinality(Claims(request, g)), pos |-> 0]
      /\ \A h \in DOMAIN bar : bar'[h] = bar[h]
  BY <1>1, <1>7
<1>10. ASSUME NEW j \in Children(job)
       PROVE  /\ j # Root /\ j.kind = "claim" /\ j \in Jobs
              /\ \E o \in Obligations(request) : o[1] = g /\ j = ClaimJob(o)
  <2>1. PICK c \in Selected(request, g) : j = ClaimJob(<<g, c>>)
    BY <1>5
  <2>2. <<g, c>> \in Obligations(request)
    BY <1>4, JobFacts
  <2> QED
    BY <2>1, <2>2, JobFacts
<1> HIDE DEF g, job
<1>11. \A j : OnStack(j)' <=> OnStack(j)
  BY <1>2, <1>3 DEF OnStack, Phase
<1>12. TypeInv'
  BY <1>1, <1>3, <1>10, SameRequest DEF TypeInv
<1>13. RootFirst'
  <2>1. Root \notin pending
    BY <1>2, <1>4, JobFacts DEF RootFirst, OnStack, Phase
  <2> QED
    BY <2>1, <1>1, <1>3, <1>4, <1>10 DEF RootFirst
<1>14. OnePlace'
  BY <1>1, <1>8, <1>10, <1>11, SameRequest DEF OnePlace
<1>15. StartedFirst'
  <2>1. DOMAIN bar' \subseteq Groups(request)
    BY <1>4, <1>9 DEF StartedFirst
  <2>2. ASSUME NEW h \in Groups(request),
               \/ GroupJob(h) \in pending'
               \/ Framed(GroupJob(h), "begin")'
               \/ Framed(GroupJob(h), "beginning")'
        PROVE  h \notin DOMAIN bar'
    <3>1. GroupJob(h) \notin Children(job)
      BY <1>10, JobFacts
    <3>2. h # g
      <4>1. job \notin pending
        BY <1>2 DEF OnePlace, OnStack, Phase
      <4> QED
        BY <4>1, <3>1, <2>2, <1>1, <1>3, <1>4
    <3> QED
      BY <3>1, <3>2, <2>2, <1>1, <1>3, <1>4, <1>9, JobFacts DEF StartedFirst
  <2>3. \A o \in Obligations(request) :
          ClaimJob(o) \in pending' \cup ended' \/ OnStack(ClaimJob(o))' => o[1] \in DOMAIN bar'
    BY <1>1, <1>9, <1>10, <1>11, JobFacts DEF StartedFirst, Obligation
  <2> QED
    BY <2>1, <2>2, <2>3, SameRequest, <1>1 DEF StartedFirst
<1>16. DecidedOnce'
  BY <1>1, <1>3, <1>4, <1>11, SameRequest, JobFacts DEF DecidedOnce
<1>17. ChildrenFirst'
  BY <1>1, <1>3, <1>4, SameRequest, JobFacts DEF ChildrenFirst
<1>18. BarsCount'
  <2>1. Counted(g) = {}
    BY <1>4, <1>8, JobFacts DEF Counted
  <2>2. \A h \in DOMAIN bar' : bar'[h] =
          [len |-> Cardinality(Claims(request, h)), pos |-> Cardinality(Counted(h))]
    BY <2>1, <1>9, FS_EmptySet DEF BarsCount
  <2> QED
    BY <2>2, <1>1, SameRequest, SameCount DEF BarsCount
<1> QED
  BY <1>3, <1>12, <1>13, <1>14, <1>15, <1>16, <1>17, <1>18
(* The sets the display counts are finite. *)
LEMMA FiniteNames ==
  ASSUME request \in Requests
  PROVE  /\ \A g \in Groups(request) : IsFiniteSet(Claims(request, g)) /\ IsFiniteSet(Counted(g))
         /\ IsFiniteSet(OracleSequence(request)) /\ IsFiniteSet(Groups(request))
         /\ Groups(request) \subseteq {Start} \cup OracleSequence(request)
<1>1. IsFiniteSet(OracleSequence(request)) /\ OracleSequence(request) \subseteq Oracles
  BY DriverAssumption, FS_Subset DEF OracleSequence
<1>2. Groups(request) \subseteq {Start} \cup OracleSequence(request)
  BY DEF Groups
<1>3. IsFiniteSet(Groups(request))
  <2>1. IsFiniteSet(OracleSequence(request) \cup {Start})
    BY <1>1, FS_AddElement
  <2> QED
    BY <2>1, <1>2, FS_Subset
<1>4. ASSUME NEW g \in Groups(request)
      PROVE  IsFiniteSet(Claims(request, g)) /\ IsFiniteSet(Counted(g))
  <2>1. CASE g = Start
    <3>1. IsFiniteSet(Invariants \cup {"invariant"})
      BY DriverAssumption, FS_AddElement
    <3>2. Claims(request, g) = Invariants \cup {"invariant"}
      BY <2>1 DEF Claims
    <3>3. IsFiniteSet(Claims(request, g))
      BY <3>1, <3>2
    <3> QED
      BY <3>3, FS_Subset DEF Counted, Selected
  <2>2. CASE g # Start
    <3>1. g \in Oracles
      BY <1>1, <1>2, <2>2
    <3>2. IsFiniteSet(Tree[g]) /\ IsFiniteSet(Invariants) /\ IsFiniteSet(Injectivity)
      BY <3>1, DriverAssumption
    <3>3. IsFiniteSet(Tree[g] \cup Invariants)
      BY <3>2, FS_Union
    <3>4. IsFiniteSet((Tree[g] \cup Invariants) \cup Injectivity)
      BY <3>2, <3>3, FS_Union
    <3>5. IsFiniteSet(Claims(request, g))
      BY <3>2, <3>4, <2>2 DEF Claims
    <3> QED
      BY <3>5, FS_Subset DEF Counted, Selected
  <2> QED
    BY <2>1, <2>2
<1> QED
  BY <1>1, <1>2, <1>3, <1>4

LEMMA FinishClaimInv ==
  ASSUME DriverInv, NEW w \in Workers, FinishClaim(w)
  PROVE  DriverInv'
<1> USE DEF DriverInv
<1> DEFINE job == Top(w).job
           d == Obligation(job)
           g == job.group
<1>1. /\ request' = request /\ pending' = pending /\ stack' = [stack EXCEPT ![w] = Below(w)]
      /\ bar' = [bar EXCEPT ![g].pos = @ + 1]
      /\ ended' = ended \cup {job} /\ outcome' = outcome /\ returned' = returned
      /\ failed' = failed /\ steps' = steps
      /\ ~Idle(w) /\ job.kind = "claim" /\ Top(w).at = "ending"
  BY DEF FinishClaim, Running
<1>2. /\ job \in Jobs /\ OneFramePerJob
      /\ \A p : Framed(job, p) <=> p = "ending"
  BY <1>1, TopFrame DEF TypeInv
<1>3. /\ stack' \in [Workers -> Seq(Frame)]
      /\ \A j, p : Framed(j, p)' <=> j # job /\ Framed(j, p)
      /\ OneFramePerJob'
  BY <1>1, Popped DEF TypeInv
<1>4. d \in Obligations(request) /\ job = ClaimJob(d) /\ job # Root /\ g = d[1]
      /\ g \in Groups(request) /\ d[2] \in Selected(request, g) /\ d = <<g, d[2]>>
  <2>1. d \in Obligations(request) /\ job = ClaimJob(d) /\ job # Root /\ g = d[1]
    BY <1>1, <1>2, JobFacts
  <2> QED
    BY <2>1, JobFacts
<1>5. \A o \in Obligations(request) : ClaimJob(o) = job <=> o = d
  BY <1>4, JobFacts DEF Obligation
<1> HIDE DEF d, job, g
<1>6. OnStack(job) /\ job \notin pending /\ job \notin ended /\ Root \notin pending
  BY <1>2 DEF OnStack, OnePlace, RootFirst, Phase
<1>7. \A j : OnStack(j)' <=> OnStack(j) /\ j # job
  BY <1>3 DEF OnStack
<1>8. g \in DOMAIN bar /\ d \notin Admitted
  BY <1>4, <1>6 DEF StartedFirst, DecidedOnce
<1>9. DOMAIN bar' = DOMAIN bar /\ \A h \in DOMAIN bar : h # g => bar'[h] = bar[h]
  BY <1>1
<1>10. TypeInv'
  BY <1>1, <1>2, <1>3, SameRequest DEF TypeInv
<1>11. RootFirst'
  BY <1>1, <1>3, <1>6 DEF RootFirst
<1>12. OnePlace'
  BY <1>1, <1>6, <1>7, SameRequest DEF OnePlace
<1>13. StartedFirst'
  BY <1>1, <1>3, <1>4, <1>6, <1>7, <1>9, SameRequest, JobFacts DEF StartedFirst
<1>14. DecidedOnce'
  BY <1>1, <1>2, <1>3, <1>5, <1>7, SameRequest DEF DecidedOnce
<1>15. ChildrenFirst'
  BY <1>1, <1>3, <1>4, SameRequest, JobFacts DEF ChildrenFirst
<1>16. BarsCount'
  <2> PICK h \in Groups(request), e \in Selected(request, g) : h = g /\ d = <<h, e>>
    BY <1>4
  <2>1. Counted(h)' = Counted(h) \cup {e} /\ e \notin Counted(h)
    <3>1. \A c \in Selected(request, h) : ClaimJob(<<h, c>>) = job <=> c = e
      BY <1>4, <1>5, JobFacts
    <3>2. <<h, e>> \notin Admitted /\ ClaimJob(<<h, e>>) = job /\ job \notin ended
      BY <1>4, <1>6, <1>8
    <3>3. Counted(h)' = {c \in Selected(request, h) :
                           <<h, c>> \notin Admitted /\ ClaimJob(<<h, c>>) \in ended \cup {job}}
      BY <1>1, SameRequest DEF Counted
    <3> QED
      BY <3>1, <3>2, <3>3 DEF Counted
  <2>2. IsFiniteSet(Counted(h))
    BY FiniteNames DEF TypeInv
  <2>3. Cardinality(Counted(h)') = Cardinality(Counted(h)) + 1
    BY <2>1, <2>2, FS_AddElement
  <2>4. bar[h] = [len |-> Cardinality(Claims(request, h)), pos |-> Cardinality(Counted(h))]
    BY <1>8 DEF BarsCount
  <2>5. bar'[h] = [len |-> Cardinality(Claims(request, h)), pos |-> Cardinality(Counted(h)')]
    BY <2>3, <2>4, <1>1, <1>8
  <2>6. \A k \in DOMAIN bar : k # h => Counted(k)' = Counted(k)
    <3>1. \A k, c : k # h => ClaimJob(<<k, c>>) # job
      BY <1>4, JobFacts
    <3> QED
      BY <3>1, <1>1, SameCount
  <2>7. EndedGroups' = EndedGroups
    <3>1. \A x : GroupJob(x) # job
      BY <1>4, JobFacts
    <3> QED
      BY <3>1, <1>1, SameCount
  <2>8. \A k \in DOMAIN bar' : bar'[k] =
          [len |-> Cardinality(Claims(request, k)), pos |-> Cardinality(Counted(k)')]
    BY <2>5, <2>6, <1>9 DEF BarsCount
  <2> QED
    BY <2>7, <2>8, <1>1, SameRequest DEF BarsCount
<1> QED
  BY <1>3, <1>10, <1>11, <1>12, <1>13, <1>14, <1>15, <1>16

LEMMA FinishGroupInv ==
  ASSUME DriverInv, NEW w \in Workers, FinishGroup(w)
  PROVE  DriverInv'
<1> USE DEF DriverInv
<1> DEFINE job == Top(w).job
           g == job.group
<1>1. /\ request' = request /\ pending' = pending /\ stack' = [stack EXCEPT ![w] = Below(w)]
      /\ steps' = [steps EXCEPT !.pos = @ + 1]
      /\ ended' = ended \cup {job} /\ outcome' = outcome /\ returned' = returned
      /\ failed' = failed /\ bar' = bar
      /\ ~Idle(w) /\ job.kind = "group" /\ Top(w).at = "ending"
  BY DEF FinishGroup, Running
<1>2. /\ job \in Jobs /\ OneFramePerJob
      /\ \A p : Framed(job, p) <=> p = "ending"
  BY <1>1, TopFrame DEF TypeInv
<1>3. /\ stack' \in [Workers -> Seq(Frame)]
      /\ \A j, p : Framed(j, p)' <=> j # job /\ Framed(j, p)
      /\ OneFramePerJob'
  BY <1>1, Popped DEF TypeInv
<1>4. job = GroupJob(g) /\ g \in Groups(request) /\ job # Root
  BY <1>1, <1>2, JobFacts
<1> HIDE DEF job, g
<1>5. \A h : GroupJob(h) = job <=> h = g
  BY <1>4, JobFacts
<1>6. \A o : ClaimJob(o) # job
  BY <1>4, JobFacts
<1>7. OnStack(job) /\ job \notin pending /\ job \notin ended /\ Root \notin pending
  BY <1>2 DEF OnStack, OnePlace, RootFirst, Phase
<1>8. \A j : OnStack(j)' <=> OnStack(j) /\ j # job
  BY <1>3 DEF OnStack
<1>9. TypeInv'
  BY <1>1, <1>2, <1>3, SameRequest DEF TypeInv
<1>10. RootFirst'
  BY <1>1, <1>3, <1>7 DEF RootFirst
<1>11. OnePlace'
  BY <1>1, <1>7, <1>8, SameRequest DEF OnePlace
<1>12. StartedFirst'
  BY <1>1, <1>3, <1>6, <1>8, SameRequest DEF StartedFirst
<1>13. DecidedOnce'
  BY <1>1, <1>3, <1>6, <1>8, SameRequest DEF DecidedOnce
<1>14. ChildrenFirst'
  BY <1>1, <1>2, <1>3, <1>4, <1>5, <1>6, SameRequest DEF ChildrenFirst
<1>15. BarsCount'
  <2>1. EndedGroups' = EndedGroups \cup {g} /\ g \notin EndedGroups
    BY <1>1, <1>4, <1>5, <1>7 DEF EndedGroups
  <2>2. IsFiniteSet(EndedGroups)
    BY FiniteNames, FS_Subset DEF TypeInv, EndedGroups
  <2>3. Cardinality(EndedGroups') = Cardinality(EndedGroups) + 1
    BY <2>1, <2>2, FS_AddElement
  <2>4. steps' = [len |-> Cardinality(OracleSequence(request)) + 1,
                  pos |-> Cardinality(EndedGroups')]
    BY <2>3, <1>1 DEF BarsCount
  <2>5. \A h \in DOMAIN bar : Counted(h)' = Counted(h)
    BY <1>1, <1>6, SameCount
  <2> QED
    BY <2>4, <2>5, <1>1, SameRequest DEF BarsCount
<1> QED
  BY <1>3, <1>9, <1>10, <1>11, <1>12, <1>13, <1>14, <1>15

LEMMA ConcludeInv ==
  ASSUME DriverInv, NEW w \in Workers, Conclude(w)
  PROVE  DriverInv'
<1> USE DEF DriverInv
<1> DEFINE job == Top(w).job
<1>1. /\ request' = request /\ pending' = pending /\ stack' = [stack EXCEPT ![w] = Below(w)]
      /\ ended' = ended \cup {Root} /\ outcome' = outcome /\ returned' = TRUE
      /\ failed' = {o \in DOMAIN outcome : outcome[o] = "err"} /\ bar' = bar /\ steps' = steps
      /\ ~Idle(w) /\ job.kind = "root" /\ Top(w).at = "work"
      /\ \A g \in Groups(request) : GroupJob(g) \in ended
  BY DEF Conclude, Running, Children, Root
<1>2. /\ job \in Jobs /\ OneFramePerJob
      /\ \A p : Framed(job, p) <=> p = "work"
  BY <1>1, TopFrame DEF TypeInv
<1>3. /\ stack' \in [Workers -> Seq(Frame)]
      /\ \A j, p : Framed(j, p)' <=> j # job /\ Framed(j, p)
      /\ OneFramePerJob'
  BY <1>1, Popped DEF TypeInv
<1>4. job = Root
  BY <1>1, <1>2, JobFacts
<1> HIDE DEF job
<1>5. (\A o : ClaimJob(o) # Root) /\ \A g : GroupJob(g) # Root
  BY JobFacts
<1>6. Root \notin pending /\ Root \in Jobs
  BY <1>2, <1>4 DEF OnStack, OnePlace, Phase
<1>7. \A j : OnStack(j)' <=> OnStack(j) /\ j # Root
  BY <1>3, <1>4 DEF OnStack
<1>8. TypeInv'
  BY <1>1, <1>3, <1>6, SameRequest DEF TypeInv
<1>9. RootFirst'
  BY <1>1, <1>3, <1>4, <1>6 DEF RootFirst
<1>10. OnePlace'
  BY <1>1, <1>6, <1>7, SameRequest DEF OnePlace
<1>11. StartedFirst'
  BY <1>1, <1>3, <1>4, <1>5, <1>7, SameRequest DEF StartedFirst
<1>12. DecidedOnce'
  BY <1>1, <1>3, <1>4, <1>5, <1>7, SameRequest DEF DecidedOnce
<1>13. ChildrenFirst'
  BY <1>1, <1>3, <1>4, <1>5, SameRequest DEF ChildrenFirst, TypeInv
<1>14. BarsCount'
  BY <1>1, <1>5, SameRequest, SameCount DEF BarsCount
<1> QED
  BY <1>3, <1>8, <1>9, <1>10, <1>11, <1>12, <1>13, <1>14
LEMMA StutterInv == DriverInv /\ UNCHANGED vars => DriverInv'
<1> SUFFICES ASSUME DriverInv, UNCHANGED vars PROVE DriverInv'
  OBVIOUS
<1> USE DEF DriverInv, vars
<1>1. \A j, p : Framed(j, p)' <=> Framed(j, p)
  BY DEF Framed, Workers
<1>2. \A j : OnStack(j)' <=> OnStack(j)
  BY <1>1 DEF OnStack
<1>3. TypeInv' /\ OneFramePerJob'
  BY SameRequest DEF TypeInv, OneFramePerJob, Workers
<1>4. RootFirst' /\ OnePlace' /\ StartedFirst'
  BY <1>1, <1>2, SameRequest DEF RootFirst, OnePlace, StartedFirst
<1>5. DecidedOnce' /\ ChildrenFirst'
  BY <1>1, <1>2, SameRequest DEF DecidedOnce, ChildrenFirst
<1>6. BarsCount'
  BY SameRequest, SameCount DEF BarsCount
<1> QED
  BY <1>3, <1>4, <1>5, <1>6

(* The invariant of the pool: every job is in the pool, on one stack or    *)
(* ended, a claim only after its group has announced itself, a group only  *)
(* after its claims, and the display counts what has ended.                *)
THEOREM PoolInvariant == Spec => []DriverInv
<1>1. DriverInv /\ [Next]_vars => DriverInv'
  <2> SUFFICES ASSUME DriverInv, [Next]_vars PROVE DriverInv'
    OBVIOUS
  <2>1. ASSUME NEW w \in Workers, Work(w) PROVE DriverInv'
    <3>1. ASSUME NEW job \in pending, Take(w, job) \/ Admit(w, job) PROVE DriverInv'
      BY <3>1, TakeInv, AdmitInv
    <3> QED
      BY <2>1, <3>1, InstallInv, LockInv, StartGroupInv, StartClaimInv, OpenTranscriptInv,
         SolveInv, FinishClaimInv, JoinInv, FinishGroupInv, ConcludeInv DEF Work
  <2> QED
    BY <2>1, StutterInv DEF Next
<1> QED
  BY <1>1, InitInv, PTL DEF Spec

-----------------------------------------------------------------------------
(* What the invariant says. *)

(* The transcripts.  An opened obligation has its file for itself: whoever *)
(* opens or still writes a file of its path is itself, since the path      *)
(* tells the groups and the names apart.                                   *)
Opened(o) ==
  \/ Framed(ClaimJob(o), "work") \/ Framed(ClaimJob(o), "end") \/ Framed(ClaimJob(o), "ending")
  \/ ClaimJob(o) \in ended

TranscriptInv ==
  /\ \E Content : files \in [{Path(o) : o \in Obligations(request)} -> Content]
  /\ request.transcript =>
       \A o \in Obligations(request) \ Admitted :
         Opened(o) /\ ~NameIsRepeated(o) => files[Path(o)] = {o}

(* A step that opens no transcript. *)
LEMMA NothingOpened ==
  ASSUME TranscriptInv, UNCHANGED <<request, files>>,
         request.transcript => \A o \in Obligations(request) \ Admitted : Opened(o)' => Opened(o)
  PROVE  TranscriptInv'
<1>1. /\ Obligations(request)' = Obligations(request)
      /\ \A o : NameIsRepeated(o)' = NameIsRepeated(o)
  BY SameRequest DEF NameIsRepeated
<1> QED
  BY <1>1 DEF TranscriptInv

(* Obligations of one path are of one group and have one name. *)
LEMMA PathTellsGroups ==
  ASSUME NEW o \in Obligations(request), NEW d \in Obligations(request), Path(o) = Path(d)
  PROVE  o[1] = d[1] /\ Name(o[2]) = Name(d[2])
<1>1. FileSystemName(o[1]) = FileSystemName(d[1]) /\ Name(o[2]) = Name(d[2])
  BY DEF Path
<1>2. o[1] \in Oracles \cup {Start} /\ d[1] \in Oracles \cup {Start}
  BY JobFacts DEF Groups, OracleSequence
<1>3. StartDirectory \notin Oracles
  BY DriverAssumption
<1> QED
  BY <1>1, <1>2, <1>3 DEF FileSystemName

LEMMA OpenTranscriptKeeps ==
  ASSUME DriverInv, TranscriptInv, NEW w \in Workers, OpenTranscript(w)
  PROVE  TranscriptInv'
<1> USE DEF DriverInv
<1> DEFINE job == Top(w).job
           own == Obligation(job)
           others == {o \in Obligations(request) : Path(o) = Path(own) /\ Writing(o)}
           Paths == {Path(o) : o \in Obligations(request)}
<1>1. /\ request' = request /\ ended' = ended /\ GoTo(w, "work")
      /\ files' = [files EXCEPT ![Path(own)] = {own} \cup others]
      /\ ~Idle(w) /\ job.kind = "claim" /\ Top(w).at = "open"
  BY DEF OpenTranscript, Running
<1>2. /\ job \in Jobs /\ Framed(job, "open")
      /\ \A j, p : Framed(j, p)' <=> IF j = job THEN p = "work" ELSE Framed(j, p)
  BY <1>1, TopFrame, Moved DEF TypeInv, Phase
<1>3. own \in Obligations(request) /\ job = ClaimJob(own)
  BY <1>1, <1>2, JobFacts
<1>4. own \notin Admitted
  BY <1>2, <1>3 DEF DecidedOnce, OnStack, Phase
<1>5. \A o \in Obligations(request) : ClaimJob(o) = job <=> o = own
  BY <1>3, JobFacts DEF Obligation
<1>6. ASSUME NEW o \in others PROVE o \in Obligations(request) \ Admitted /\ Path(o) = Path(own)
  <2>1. PICK v \in Workers : ~Idle(v) /\ Top(v).job = ClaimJob(o)
    BY <1>6 DEF Writing, Running
  <2>2. OnStack(ClaimJob(o))
    BY <2>1, TopFrame DEF TypeInv, OnStack
  <2> QED
    BY <1>6, <2>2 DEF DecidedOnce
<1>7. PICK Content : files \in [Paths -> Content]
  BY DEF TranscriptInv
<1> HIDE DEF job, own
<1>8. Path(own) \in Paths
  BY <1>3
<1>9. /\ files'[Path(own)] = {own} \cup others
      /\ \A o \in Obligations(request) : Path(o) # Path(own) => files'[Path(o)] = files[Path(o)]
  BY <1>1, <1>7, <1>8
<1>10. files' \in [Paths -> Content \cup {{own} \cup others}]
  BY <1>1, <1>7
<1> HIDE DEF others, Paths
<1>11. ASSUME NEW o \in Obligations(request) \ Admitted, request.transcript,
              Opened(o)', ~NameIsRepeated(o)
       PROVE  files'[Path(o)] = {o}
  <2>1. \A d \in Obligations(request) \ Admitted : Path(d) = Path(o) => d = o
    BY <1>11, PathTellsGroups DEF NameIsRepeated
  <2>2. CASE Path(o) = Path(own)
    <3>1. own = o /\ others \subseteq {o}
      BY <2>1, <2>2, <1>3, <1>4, <1>6 DEF others
    <3> QED
      BY <3>1, <1>9
  <2>3. CASE Path(o) # Path(own)
    <3>1. Opened(o)
      BY <2>3, <1>1, <1>2, <1>5, <1>11 DEF Opened
    <3> QED
      BY <3>1, <2>3, <1>9, <1>11 DEF TranscriptInv
  <2> QED
    BY <2>2, <2>3
<1>12. /\ Obligations(request)' = Obligations(request)
       /\ \A o : NameIsRepeated(o)' = NameIsRepeated(o)
  BY <1>1, SameRequest DEF NameIsRepeated
<1> QED
  BY <1>1, <1>10, <1>11, <1>12 DEF TranscriptInv, Paths

(* The frames on the stacks are those before the step, the one on top      *)
(* excepted: it appears, goes on to another phase, or goes away.           *)
LEMMA OtherStepsKeep ==
  ASSUME DriverInv, TranscriptInv, NEW w \in Workers, Work(w), ~OpenTranscript(w)
  PROVE  TranscriptInv'
<1> USE DEF DriverInv, TypeInv
<1> DEFINE Same == request' = request /\ files' = files
<1>1. ASSUME NEW o \in Obligations(request) PROVE ClaimJob(o) # Root
  BY JobFacts
<1>2. CASE Install(w)
  <2>1. Same /\ ended' = ended /\ Push(w, Root, "work")
    BY <1>2 DEF Install
  <2>2. \A j, p : Framed(j, p)' <=> Framed(j, p) \/ (j = Root /\ p = "work")
    BY <2>1, Pushed, JobFacts DEF Phase
  <2> QED
    BY <2>1, <2>2, <1>1, NothingOpened DEF Opened
<1>3. ASSUME NEW job \in pending, Take(w, job) PROVE TranscriptInv'
  <2>1. Same /\ ended' = ended /\ Push(w, job, "begin") /\ job \in Jobs
    BY <1>3 DEF Take
  <2>2. \A j, p : Framed(j, p)' <=> Framed(j, p) \/ (j = job /\ p = "begin")
    BY <2>1, Pushed DEF Phase
  <2> QED
    BY <2>1, <2>2, NothingOpened DEF Opened
<1>4. ASSUME NEW job \in pending, Admit(w, job) PROVE TranscriptInv'
  <2>1. Same /\ ended' = ended \cup {job} /\ stack' = stack
        /\ job.kind = "claim" /\ Obligation(job) \in Admitted
    BY <1>4 DEF Admit
  <2>2. ASSUME NEW o \in Obligations(request) \ Admitted PROVE ClaimJob(o) # job
    <3>1. Obligation(ClaimJob(o)) = o
      BY JobFacts DEF Obligation
    <3> QED
      BY <3>1, <2>1
  <2>3. \A j, p : Framed(j, p)' <=> Framed(j, p)
    BY <2>1 DEF Framed, Workers
  <2> QED
    BY <2>1, <2>2, <2>3, NothingOpened DEF Opened
<1>5. ASSUME ~Idle(w), NEW at \in Phase, GoTo(w, at), Same, ended' = ended,
             \/ Top(w).job.kind = "group"
             \/ at \notin {"work", "end", "ending"}
             \/ Top(w).at \in {"work", "end"}
             \/ ~request.transcript
      PROVE  TranscriptInv'
  <2>1. Framed(Top(w).job, Top(w).at)
    BY <1>5, TopFrame
  <2>2. \A j, p : Framed(j, p)' <=> IF j = Top(w).job THEN p = at ELSE Framed(j, p)
    BY <1>5, Moved
  <2>3. Top(w).job.kind = "group" => \A o \in Obligations(request) : ClaimJob(o) # Top(w).job
    BY JobFacts
  <2> QED
    BY <2>1, <2>2, <2>3, <1>5, NothingOpened DEF Opened
<1>6. CASE Lock(w) \/ StartGroup(w) \/ StartClaim(w) \/ Solve(w) \/ Join(w)
  BY <1>5, <1>6 DEF Lock, StartGroup, StartClaim, Solve, Join, Running, Phase
<1>7. CASE FinishClaim(w) \/ FinishGroup(w) \/ Conclude(w)
  <2>1. /\ Same /\ ~Idle(w) /\ stack' = [stack EXCEPT ![w] = Below(w)]
        /\ ended' = ended \cup {Top(w).job} \/ ended' = ended \cup {Root}
        /\ ended' = ended \cup {Top(w).job} /\ Top(w).job.kind = "claim" => Top(w).at = "ending"
    BY <1>7, JobFacts DEF FinishClaim, FinishGroup, Conclude, Running
  <2>2. Framed(Top(w).job, Top(w).at)
    BY <2>1, TopFrame
  <2>3. \A j, p : Framed(j, p)' <=> j # Top(w).job /\ Framed(j, p)
    BY <2>1, Popped
  <2>4. \A o \in Obligations(request) : ClaimJob(o).kind = "claim"
    BY JobFacts
  <2> QED
    BY <2>1, <2>2, <2>3, <2>4, <1>1, NothingOpened DEF Opened
<1> QED
  BY <1>2, <1>3, <1>4, <1>6, <1>7 DEF Work

(* With --transcript the file of an answered query holds that query and    *)
(* nothing else, whatever the threads steal and truncate, for any oracles, *)
(* lines and number of threads: exactly a name repeated in one proof tree  *)
(* is the exception (verify_with_solver, get_smt_file).                    *)
THEOREM TranscriptsOfOneQuery == Spec => []TranscriptsAreOwn
<1>1. Init => TranscriptInv
  <2> SUFFICES ASSUME Init PROVE TranscriptInv
    OBVIOUS
  <2>1. \A job, at : ~Framed(job, at)
    BY DEF Init, Framed
  <2>2. files \in [{Path(o) : o \in Obligations(request)} -> {{}}]
    BY DEF Init
  <2> QED
    BY <2>1, <2>2 DEF TranscriptInv, Opened, Init
<1>2. DriverInv /\ TranscriptInv /\ [Next]_vars => TranscriptInv'
  <2> SUFFICES ASSUME DriverInv, TranscriptInv, [Next]_vars PROVE TranscriptInv'
    OBVIOUS
  <2>1. CASE UNCHANGED vars
    <3>1. \A j, p : Framed(j, p)' <=> Framed(j, p)
      BY <2>1 DEF vars, Framed, Workers
    <3> QED
      BY <2>1, <3>1, NothingOpened DEF vars, Opened
  <2> QED
    BY <2>1, OpenTranscriptKeeps, OtherStepsKeep DEF Next
<1>3. DriverInv /\ TranscriptInv => TranscriptsAreOwn
  BY DEF DriverInv, DecidedOnce, TranscriptInv, TranscriptsAreOwn, Answered, Opened
<1> QED
  BY <1>1, <1>2, <1>3, PoolInvariant, PTL DEF Spec

(* When verify_equivalence returns without failures and nothing was        *)
(* excluded, every claim that is not admitted has been proved.             *)
THEOREM NoFailuresMeansProved == Spec => []OkMeansProved
<1>1. DriverInv => OkMeansProved
  <2> SUFFICES ASSUME DriverInv, Unrestricted, returned, failed = {}
               PROVE  /\ \A c \in {"invariant"} \cup Invariants : Proved(Start, c)
                      /\ \A o \in Oracles : \A c \in Tree[o] \cup Invariants \cup Injectivity :
                           Proved(o, c)
    BY DEF OkMeansProved
  <2> USE DEF DriverInv
  <2>1. ASSUME NEW o \in Obligations(request) PROVE outcome[o] = "ok"
    <3>1. o[1] \in Groups(request)
      BY JobFacts
    <3>2. ClaimJob(o) \in ended
      BY <3>1 DEF ChildrenFirst
    <3>3. outcome[o] # "none" /\ outcome[o] # "err"
      BY <3>2 DEF DecidedOnce, ChildrenFirst
    <3> QED
      BY <3>3 DEF TypeInv
  <2>2. Groups(request) = {Start} \cup Oracles
    BY DEF Unrestricted, Groups, OracleSequence
  <2>3. ASSUME NEW g \in Groups(request), NEW c \in Claims(request, g) PROVE Proved(g, c)
    <3>1. Name(c) \in ClaimNames
      BY <2>2, DriverAssumption DEF Claims, ClaimNames, Unrestricted
    <3>2. <<g, c>> \in Obligations(request)
      BY <3>1, JobFacts DEF Selected, Unrestricted
    <3> QED
      BY <3>2, <2>1 DEF Proved, TypeInv
  <2>4. /\ Claims(request, Start) = {"invariant"} \cup Invariants
        /\ \A o \in Oracles : Claims(request, o) = Tree[o] \cup Invariants \cup Injectivity
    BY DriverAssumption DEF Claims, Unrestricted
  <2> QED
    BY <2>2, <2>3, <2>4
<1> QED
  BY <1>1, PoolInvariant, PTL

(* A group shown as finished has no claim left in the pool or on a stack,  *)
(* and no bar ever runs beyond its length (the display of ui/mod.rs as     *)
(* verify_equivalence drives it).                                          *)
THEOREM DisplayIsTruthful == Spec => []BarsAreTruthful
<1>1. DriverInv => BarsAreTruthful
  <2> SUFFICES ASSUME DriverInv PROVE BarsAreTruthful
    OBVIOUS
  <2> USE DEF DriverInv
  <2>1. steps.pos <= steps.len
    <3>1. IsFiniteSet(OracleSequence(request)) /\ EndedGroups \subseteq OracleSequence(request) \cup {Start}
      BY FiniteNames DEF TypeInv, EndedGroups
    <3>2. /\ IsFiniteSet(OracleSequence(request) \cup {Start})
          /\ Cardinality(OracleSequence(request) \cup {Start}) <= Cardinality(OracleSequence(request)) + 1
          /\ Cardinality(OracleSequence(request)) \in Nat
      BY <3>1, FS_AddElement, FS_CardinalityType
    <3>3. Cardinality(EndedGroups) <= Cardinality(OracleSequence(request) \cup {Start})
      BY <3>1, <3>2, FS_Subset
    <3>4. IsFiniteSet(EndedGroups) /\ Cardinality(EndedGroups) \in Nat
          /\ Cardinality(OracleSequence(request) \cup {Start}) \in Nat
      BY <3>1, <3>2, FS_Subset, FS_CardinalityType
    <3> QED
      BY <3>2, <3>3, <3>4 DEF BarsCount
  <2>2. ASSUME NEW g \in DOMAIN bar PROVE bar[g].pos <= bar[g].len
    <3>1. g \in Groups(request)
      BY DEF StartedFirst
    <3>2. IsFiniteSet(Claims(request, g)) /\ Counted(g) \subseteq Claims(request, g)
      BY <3>1, FiniteNames DEF TypeInv, Counted, Selected
    <3>3. Cardinality(Counted(g)) <= Cardinality(Claims(request, g))
      BY <3>2, FS_Subset
    <3> QED
      BY <3>3 DEF BarsCount
  <2> QED
    BY <2>1, <2>2 DEF BarsAreTruthful, ChildrenFirst
<1> QED
  BY <1>1, PoolInvariant, PTL
-----------------------------------------------------------------------------
(* The pool implements the abstract verification of EquivalenceVerdict:    *)
(* an admitted claim or an answer of a solver decides an obligation that   *)
(* was open, the return reports, and all else is internal.                 *)

LEMMA Decides ==
  ASSUME DriverInv, NEW d \in Obligations(request), NEW r \in {"ok", "err"},
         outcome[d] = "none", outcome' = [outcome EXCEPT ![d] = r],
         UNCHANGED <<request, returned, failed>>
  PROVE  Abstract!Next
<1>1. Abstract!Decide(d)
  BY SameRequest DEF Abstract!Decide
<1> QED
  BY <1>1 DEF Abstract!Next

LEMMA AdmitDecides ==
  ASSUME DriverInv, NEW w \in Workers, NEW job \in pending, Admit(w, job)
  PROVE  Abstract!Next
<1>1. job \in Jobs /\ job.kind = "claim" /\ job \notin ended /\ ~OnStack(job)
  BY DEF Admit, DriverInv, TypeInv, OnePlace
<1>2. Obligation(job) \in Obligations(request) /\ job = ClaimJob(Obligation(job))
  BY <1>1, JobFacts
<1>3. outcome[Obligation(job)] = "none"
  BY <1>1, <1>2 DEF DriverInv, DecidedOnce, OnStack, Phase
<1> QED
  BY <1>2, <1>3, Decides DEF Admit

LEMMA SolveDecides ==
  ASSUME DriverInv, NEW w \in Workers, Solve(w)
  PROVE  Abstract!Next
<1> DEFINE job == Top(w).job
<1>1. ~Idle(w) /\ job.kind = "claim" /\ Top(w).at = "work"
  BY DEF Solve, Running
<1>2. job \in Jobs /\ \A p : Framed(job, p) <=> p = "work"
  BY <1>1, TopFrame DEF DriverInv, TypeInv
<1> PICK d \in Obligations(request) : d = Obligation(job) /\ job = ClaimJob(d)
  BY <1>1, <1>2, JobFacts
<1>3. outcome[d] = "none"
  BY <1>2 DEF DriverInv, DecidedOnce, OnePlace, OnStack, Phase
<1>4. \E r \in {"ok", "err"} : outcome' = [outcome EXCEPT ![d] = r]
  BY DEF Solve
<1> QED
  BY <1>3, <1>4, Decides DEF Solve

LEMMA ConcludeReports ==
  ASSUME DriverInv, NEW w \in Workers, Conclude(w)
  PROVE  Abstract!Next
<1>1. ~Idle(w) /\ Top(w).job.kind = "root"
      /\ \A g \in Groups(request) : GroupJob(g) \in ended
  BY DEF Conclude, Running, Children, Root
<1>2. Top(w).job = Root /\ Root \notin ended
  <2>1. Top(w).job \in Jobs /\ Top(w).at \in Phase /\ Framed(Top(w).job, Top(w).at)
    BY <1>1, TopFrame DEF DriverInv, TypeInv
  <2>2. Top(w).job = Root
    BY <1>1, <2>1, JobFacts
  <2> QED
    BY <2>1, <2>2 DEF DriverInv, OnePlace, OnStack
<1>3. ~returned
  BY <1>2 DEF DriverInv, ChildrenFirst
<1>4. \A o \in Obligations(request) : outcome[o] # "none"
  BY <1>1, JobFacts DEF DriverInv, ChildrenFirst, DecidedOnce
<1>5. failed' = {o \in Obligations(request) : outcome[o] = "err"}
  BY DEF Conclude, DriverInv, TypeInv
<1>6. Abstract!Report
  BY <1>3, <1>4, <1>5, SameRequest DEF Abstract!Report, Conclude
<1> QED
  BY <1>6 DEF Abstract!Next

LEMMA OtherwiseSame ==
  ASSUME UNCHANGED <<request, outcome, returned, failed>>
  PROVE  UNCHANGED Abstract!vars
BY SameRequest DEF Abstract!vars

(* verify_equivalence, whatever the order in which its threads take and    *)
(* nest the claims, is the abstract verification: each obligation decided  *)
(* at most once, the report only after all of them, naming those that      *)
(* failed.                                                                 *)
THEOREM DriverImplementsVerdict == Spec => ImplementsVerdict
<1>1. Init => Abstract!Init
  BY DEF Init, Abstract!Init
<1>2. DriverInv /\ [Next]_vars => [Abstract!Next]_(Abstract!vars)
  <2> SUFFICES ASSUME DriverInv, [Next]_vars PROVE [Abstract!Next]_(Abstract!vars)
    OBVIOUS
  <2>1. CASE UNCHANGED vars
    BY <2>1, OtherwiseSame DEF vars
  <2>2. ASSUME NEW w \in Workers, Work(w)
        PROVE  Abstract!Next \/ UNCHANGED <<request, outcome, returned, failed>>
    <3>1. ASSUME NEW job \in pending, Take(w, job) \/ Admit(w, job)
          PROVE  Abstract!Next \/ UNCHANGED <<request, outcome, returned, failed>>
      BY <3>1, AdmitDecides DEF Take
    <3>2. CASE Solve(w) \/ Conclude(w)
      BY <3>2, SolveDecides, ConcludeReports
    <3>3. CASE \/ Install(w) \/ Lock(w) \/ StartGroup(w) \/ StartClaim(w) \/ OpenTranscript(w)
               \/ FinishClaim(w) \/ Join(w) \/ FinishGroup(w)
      BY <3>3 DEF Install, Lock, StartGroup, StartClaim, OpenTranscript, FinishClaim, Join,
                   FinishGroup
    <3> QED
      BY <2>2, <3>1, <3>2, <3>3 DEF Work
  <2> QED
    BY <2>1, <2>2, OtherwiseSame DEF Next
<1> QED
  BY <1>1, <1>2, PoolInvariant, PTL DEF Spec, ImplementsVerdict, Abstract!Spec
=============================================================================
