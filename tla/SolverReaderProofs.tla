-------------------------- MODULE SolverReaderProofs --------------------------
(***************************************************************************)
(* Proofs about SolverReader: whatever the number of declarations, the     *)
(* room in the pipes, the sizes of replies and the chunks they are read in *)
(* are, and whenever the solver dies, the verdict on a claim is the answer *)
(* to the query the caller wrote, and the caller's buffer has room for     *)
(* whatever the solver writes.                                             *)
(***************************************************************************)
EXTENDS SolverReader, RecursionProofs, SequenceTheorems

(* The buffer by itself.  Its inductive invariant: it never shrinks below  *)
(* the size from which a tenth of it is at least a byte.                   *)
BufferInv ==
  /\ BufferTypeOK
  /\ WithinBuffer
  /\ AlwaysRoom
  /\ len >= 10

(* After maybe_resize there is room, and what was in use still fits. *)
LEMMA ResizeMakesRoom ==
  ASSUME NEW l \in Nat, l >= 10, pos \in Nat, pos <= l
  PROVE  /\ MaybeResize(l) \in Nat
         /\ MaybeResize(l) >= l
         /\ MaybeResize(l) - pos > 0
<1>1. l \div 10 \in Nat /\ l \div 10 >= 1 /\ l \div 10 <= l
  OBVIOUS
<1>2. CASE l - pos < l \div 10
  <2>1. MaybeResize(l) = l * 2
    BY <1>2 DEF MaybeResize
  <2> QED
    BY <2>1
<1>3. CASE ~(l - pos < l \div 10)
  <2>1. MaybeResize(l) = l
    BY <1>3 DEF MaybeResize
  <2> QED
    BY <2>1, <1>1, <1>3
<1> QED
  BY <1>2, <1>3

LEMMA BufferIsInductive ==
  ASSUME BufferInv, [BufferNext]_bufferVars
  PROVE  BufferInv'
<1> USE DEF BufferInv, BufferTypeOK, WithinBuffer, AlwaysRoom
<1>1. /\ MaybeResize(len) \in Nat
      /\ MaybeResize(len) >= len
      /\ MaybeResize(len) - pos > 0
  BY ResizeMakesRoom
<1>2. ASSUME NEW n \in 0..MaxPending, Read(n)
      PROVE  BufferInv'
  BY <1>1, <1>2, BufferAssumption DEF Read
<1>3. ASSUME NEW n \in 0..MaxPending, NEW rest \in 0..MaxPending, ReadReply(n, rest)
      PROVE  BufferInv'
  BY <1>1, <1>3, BufferAssumption DEF ReadReply
<1>4. CASE UNCHANGED bufferVars
  BY <1>4 DEF bufferVars
<1> QED
  BY <1>2, <1>3, <1>4 DEF BufferNext

(* Every read of the solver's output has room for at least one byte and    *)
(* stays within the buffer.                                                *)
THEOREM ReadsHaveRoom == BufferSpec => [](BufferTypeOK /\ WithinBuffer /\ AlwaysRoom)
<1>1. BufferInit => BufferInv
  BY BufferAssumption DEF BufferInit, BufferInv, BufferTypeOK, WithinBuffer, AlwaysRoom
<1>2. BufferInv /\ [BufferNext]_bufferVars => BufferInv'
  BY BufferIsInductive
<1>3. BufferInv => BufferTypeOK /\ WithinBuffer /\ AlwaysRoom
  BY DEF BufferInv
<1> QED
  BY <1>1, <1>2, <1>3, PTL DEF BufferSpec
-----------------------------------------------------------------------------
LEMMA Counts ==
  /\ Decls \in Nat /\ InCap \in Nat /\ OutCap \in Nat
  /\ CheckSat \in Nat /\ GetModel \in Nat /\ CheckSat = Decls + 1 /\ GetModel = Decls + 2
  /\ Entry = 1..GetModel
BY CapAssumption DEF CheckSat, GetModel, Entry

(* What a chunk does is one of three things the caller does.               *)
LEMMA ChunkCases ==
  ASSUME NEW k, ReadChunk(k)
  PROVE  \E n \in 0..Len(stdout) : Accumulate(n) \/ (n # 0 /\ (ReadAnswer(n) \/ ReadModel(n)))
BY DEF ReadChunk

-----------------------------------------------------------------------------
(* The entries on their way.  Those in the solver's pipe follow what it    *)
(* has processed and those in the channel follow them, up to the next one  *)
(* to be written; a thread that failed has lost the rest.  The transcript  *)
(* is one ahead while an entry is being forwarded.                         *)
Wire ==
  /\ \A i \in 1..Len(stdin) : stdin[i] = taken + i
  /\ taken + Len(stdin) <= next - 1
  /\ writer # "failed" =>
       /\ taken + Len(stdin) + Len(chan) = next - 1
       /\ \A i \in 1..Len(chan) : chan[i] = taken + Len(stdin) + i
       /\ logged = taken + Len(stdin) + (IF writer = "holds" THEN 1 ELSE 0)
  /\ writer = "holds" => chan # <<>>
  /\ taken + Len(stdin) <= logged
  /\ pc = "write" => next <= CheckSat
  /\ pc = "await_answer" => next = GetModel

WInv == TypeOK /\ Wire

LEMMA WriteKeepsWire == WInv /\ WriteEntry => WInv'
<1> SUFFICES ASSUME WInv, WriteEntry PROVE WInv'
  OBVIOUS
<1> USE Counts
<1>1. /\ next \in 1..GetModel /\ next' = next + 1
      /\ chan' = Append(chan, next)
      /\ pc' = IF next = CheckSat THEN "await_answer" ELSE pc
      /\ pc \in {"write", "await_model"} /\ writer # "failed"
      /\ UNCHANGED <<verdict, buf, open, forwarder, stdin, stdout, process>>
  BY DEF WriteEntry, WInv, TypeOK
<1>2. UNCHANGED <<verdict, buf, open, writer, logged, stdin, stdout, solver, taken, bad, answer>>
  BY <1>1 DEF forwarder, process
<1>3. chan' \in Seq(Entry) /\ Len(chan') = Len(chan) + 1
      /\ \A i \in 1..Len(chan') : chan'[i] = IF i = Len(chan) + 1 THEN next ELSE chan[i]
  BY <1>1 DEF WInv, TypeOK
<1>4. TypeOK'
  BY <1>1, <1>2, <1>3 DEF WInv, TypeOK
<1>5. Wire'
  <2>1. /\ taken + Len(stdin) + Len(chan) = next - 1
        /\ \A i \in 1..Len(chan) : chan[i] = taken + Len(stdin) + i
        /\ Len(chan) \in Nat /\ Len(stdin) \in Nat /\ taken \in Nat
    BY <1>1 DEF WInv, TypeOK, Wire
  <2>2. \A i \in 1..Len(chan') : chan'[i] = taken' + Len(stdin') + i
    <3> SUFFICES ASSUME NEW i \in 1..Len(chan') PROVE chan'[i] = taken + Len(stdin) + i
      BY <1>2
    <3>1. CASE i = Len(chan) + 1
      BY <1>1, <1>3, <2>1, <3>1
    <3>2. CASE i # Len(chan) + 1
      BY <1>3, <2>1, <3>2
    <3>3. QED
      BY <3>1, <3>2
  <2>3. taken' + Len(stdin') + Len(chan') = next' - 1
    BY <1>1, <1>2, <1>3, <2>1
  <2>4. chan' # <<>>
    BY <1>3, <2>1
  <2>5. (pc' = "write" => next' <= CheckSat) /\ (pc' = "await_answer" => next' = GetModel)
    BY <1>1 DEF WInv, Wire
  <2>6. taken' + Len(stdin') <= next' - 1
    BY <1>2, <2>1, <2>3, <1>3
  <2>7. QED
    BY <1>1, <1>2, <2>2, <2>3, <2>4, <2>5, <2>6 DEF WInv, Wire
<1>6. QED
  BY <1>4, <1>5 DEF WInv

(* The caller's reads leave the entries alone. *)
LEMMA ReadKeepsWire ==
  ASSUME WInv, NEW n \in 0..Len(stdout), Accumulate(n) \/ (n # 0 /\ (ReadAnswer(n) \/ ReadModel(n)))
  PROVE  WInv'
<1>1. /\ stdout \in Seq(Reply) /\ Len(stdout) <= OutCap /\ buf \in Seq(Reply)
      /\ n \in Nat /\ n <= Len(stdout) /\ Len(stdout) \in Nat /\ OutCap \in Nat
  BY Counts DEF WInv, TypeOK
<1>2. /\ SubSeq(stdout, 1, n) \in Seq(Reply) /\ Len(SubSeq(stdout, 1, n)) = n
      /\ SubSeq(stdout, n + 1, Len(stdout)) \in Seq(Reply)
      /\ Len(SubSeq(stdout, n + 1, Len(stdout))) <= OutCap
  BY <1>1
<1> DEFINE data == buf \o SubSeq(stdout, 1, n)
<1>3. data \in Seq(Reply) /\ (n # 0 => Tail(data) \in Seq(Reply))
  <2>1. data \in Seq(Reply) /\ Len(data) = Len(buf) + n
    BY <1>1, <1>2
  <2>2. n # 0 => data # <<>>
    BY <1>1, <2>1
  <2>3. QED
    BY <2>1, <2>2
<1>4. /\ buf' \in Seq(Reply) /\ stdout' \in Seq(Reply) /\ Len(stdout') <= OutCap
      /\ pc' \in {pc, "await_model", "done"} /\ verdict' \in {verdict, "ok", "failed", "error"}
      /\ open' \in {open, FALSE}
      /\ UNCHANGED <<next, chan, writer, logged, stdin, solver, taken, bad, answer>>
  <2>1. CASE Accumulate(n)
    BY <1>2, <1>3, <2>1 DEF Accumulate, First, forwarder, process
  <2>2. CASE n # 0 /\ ReadAnswer(n)
    <3>1. /\ buf' \in {data, Tail(data), <<>>} /\ stdout' = SubSeq(stdout, n + 1, Len(stdout))
          /\ pc' \in {pc, "await_model", "done"} /\ verdict' \in {verdict, "ok", "failed", "error"}
          /\ open' \in {open, FALSE}
          /\ UNCHANGED <<next, chan, forwarder, stdin, process>>
      BY <2>2 DEF ReadAnswer, ReturnWith
    <3>2. buf' \in Seq(Reply)
      <4>1. <<>> \in Seq(Reply)
        OBVIOUS
      <4>2. QED
        BY <1>3, <2>2, <3>1, <4>1
    <3>3. QED
      BY <1>2, <3>1, <3>2 DEF forwarder, process
  <2>3. CASE n # 0 /\ ReadModel(n)
    BY <1>2, <1>3, <2>3 DEF ReadModel, ReturnWith, forwarder, process
  <2>4. QED
    BY <2>1, <2>2, <2>3
<1>5. TypeOK'
  BY <1>4 DEF WInv, TypeOK
<1>6. Wire'
  BY <1>4 DEF WInv, Wire
<1>7. QED
  BY <1>5, <1>6 DEF WInv

LEMMA ForwarderKeepsWire == WInv /\ Forwarder => WInv'
<1> SUFFICES ASSUME WInv, Forwarder PROVE WInv'
  OBVIOUS
<1>1. /\ chan \in Seq(Entry) /\ stdin \in Seq(Entry) /\ Len(chan) \in Nat /\ Len(stdin) \in Nat
      /\ taken \in Nat /\ logged \in Nat /\ next \in Nat /\ next <= GetModel + 1
      /\ InCap \in Nat /\ GetModel \in Nat
  BY Counts DEF WInv, TypeOK
<1>2. CASE Greet
  <2>1. /\ writer = "start" /\ writer' \in {"idle", "failed"}
        /\ chan' \in Seq(Entry) /\ (writer' = "idle" => chan' = chan)
        /\ UNCHANGED <<pc, next, verdict, buf, open, logged, stdin, stdout, solver, taken, bad, answer>>
    <3>1. <<>> \in Seq(Entry)
      OBVIOUS
    <3>2. QED
      BY <1>1, <1>2, <3>1 DEF Greet, ForwardingFails, caller, process
  <2>2. TypeOK'
    BY <2>1 DEF WInv, TypeOK
  <2>3. Wire'
    BY <2>1 DEF WInv, Wire
  <2>4. QED
    BY <2>2, <2>3 DEF WInv
<1>2a. CASE TakeAndLog /\ ForwardingFails /\ UNCHANGED logged
  <2>1. /\ writer' = "failed" /\ chan' \in Seq(Entry)
        /\ UNCHANGED <<pc, next, verdict, buf, open, logged, stdin, stdout, solver, taken, bad, answer>>
    <3>1. <<>> \in Seq(Entry)
      OBVIOUS
    <3>2. QED
      BY <1>1, <1>2a, <3>1 DEF TakeAndLog, ForwardingFails, caller, process
  <2>2. TypeOK'
    BY <2>1 DEF WInv, TypeOK
  <2>3. Wire'
    BY <2>1 DEF WInv, Wire
  <2>4. QED
    BY <2>2, <2>3 DEF WInv
<1>3. CASE TakeAndLog /\ writer' = "holds" /\ logged' = logged + 1 /\ UNCHANGED chan
  <2>1. /\ writer = "idle" /\ writer' = "holds" /\ logged' = logged + 1 /\ chan # <<>>
        /\ UNCHANGED <<pc, next, verdict, buf, chan, open, stdin, stdout, solver, taken, bad, answer>>
    BY <1>3 DEF TakeAndLog, caller, process
  <2>2. Len(chan) # 0
    BY <1>1, <2>1
  <2>3. logged = taken + Len(stdin) /\ taken + Len(stdin) + Len(chan) = next - 1
    BY <1>1, <2>1 DEF WInv, Wire
  <2>4. logged' \in 0..GetModel /\ logged' = taken + Len(stdin) + 1
    BY <1>1, <2>1, <2>2, <2>3
  <2>5. TypeOK'
    BY <2>1, <2>4 DEF WInv, TypeOK
  <2>6. Wire'
    BY <1>1, <2>1, <2>4 DEF WInv, Wire
  <2>7. QED
    BY <2>5, <2>6 DEF WInv
<1>4. CASE Forward
  <2>1. /\ writer = "holds" /\ chan # <<>>
        /\ UNCHANGED <<pc, next, verdict, buf, open, logged, stdout, solver, taken, bad, answer>>
    BY <1>4 DEF Forward, caller, process, WInv, Wire
  <2>2. CASE solver = "running" /\ Len(stdin) < InCap /\ writer' = "idle"
             /\ stdin' = Append(stdin, Head(chan)) /\ chan' = Tail(chan)
    <3>1. /\ chan' \in Seq(Entry) /\ Len(chan') = Len(chan) - 1
          /\ \A i \in 1..Len(chan') : chan'[i] = chan[i + 1]
          /\ Head(chan) = chan[1] /\ Head(chan) \in Entry /\ Len(chan) # 0
      BY <1>1, <2>1, <2>2
    <3>2. /\ stdin' \in Seq(Entry) /\ Len(stdin') = Len(stdin) + 1
          /\ \A i \in 1..Len(stdin') : stdin'[i] = IF i = Len(stdin) + 1 THEN chan[1] ELSE stdin[i]
      BY <1>1, <2>2, <3>1
    <3>3. /\ taken + Len(stdin) + Len(chan) = next - 1
          /\ \A i \in 1..Len(chan) : chan[i] = taken + Len(stdin) + i
          /\ logged = taken + Len(stdin) + 1
          /\ \A i \in 1..Len(stdin) : stdin[i] = taken + i
      BY <2>1 DEF WInv, Wire
    <3>4. TypeOK'
      BY <1>1, <2>1, <2>2, <3>1, <3>2 DEF WInv, TypeOK
    <3>5. /\ taken + Len(stdin') + Len(chan') = next - 1
          /\ logged = taken + Len(stdin') /\ taken + Len(stdin') <= next - 1
      BY <1>1, <3>1, <3>2, <3>3
    <3>6. \A i \in 1..Len(chan') : chan'[i] = taken + Len(stdin') + i
      <4> SUFFICES ASSUME NEW i \in 1..Len(chan') PROVE chan'[i] = taken + Len(stdin') + i
        OBVIOUS
      <4>1. i + 1 \in 1..Len(chan)
        BY <1>1, <3>1
      <4>2. QED
        BY <1>1, <3>1, <3>2, <3>3, <4>1
    <3>7. \A i \in 1..Len(stdin') : stdin'[i] = taken + i
      <4> SUFFICES ASSUME NEW i \in 1..Len(stdin') PROVE stdin'[i] = taken + i
        OBVIOUS
      <4>1. CASE i = Len(stdin) + 1
        <5>1. chan[1] = taken + Len(stdin) + 1
          BY <1>1, <3>1, <3>3
        <5>2. QED
          BY <1>1, <3>2, <4>1, <5>1
      <4>2. CASE i # Len(stdin) + 1
        <5>1. i \in 1..Len(stdin)
          BY <1>1, <3>2, <4>2
        <5>2. QED
          BY <3>2, <3>3, <4>2, <5>1
      <4>3. QED
        BY <4>1, <4>2
    <3>8. Wire'
      BY <1>1, <2>1, <2>2, <3>5, <3>6, <3>7 DEF WInv, Wire
    <3>9. QED
      BY <3>4, <3>8 DEF WInv
  <2>3. CASE solver = "dead" /\ writer' = "failed" /\ chan' = <<>> /\ UNCHANGED stdin
    BY <1>1, <2>1, <2>3 DEF WInv, TypeOK, Wire
  <2>4. QED
    BY <1>4, <2>2, <2>3 DEF Forward, ForwardingFails
<1>5. CASE StopForwarding
  BY <1>5 DEF StopForwarding, WInv, TypeOK, Wire, caller, process
<1>6. QED
  BY <1>2, <1>3, <1>4, <1>5, <1>2a DEF Forwarder, TakeAndLog

LEMMA SolverKeepsWire == WInv /\ Solver => WInv'
<1> SUFFICES ASSUME WInv, Solver PROVE WInv'
  OBVIOUS
<1>1. CASE SolverEnds
  BY <1>1 DEF SolverEnds, WInv, TypeOK, Wire, caller, forwarder
<1>2. CASE SolverStep
  <2>1. /\ stdin # <<>> /\ stdin' = Tail(stdin) /\ taken' = taken + 1
        /\ UNCHANGED <<pc, next, verdict, buf, chan, open, writer, logged, solver, bad>>
    BY <1>2 DEF SolverStep, caller, forwarder
  <2>2. /\ stdin \in Seq(Entry) /\ Len(stdin) \in Nat /\ Len(chan) \in Nat /\ taken \in Nat /\ logged \in Nat
        /\ next \in Nat /\ next <= GetModel + 1 /\ GetModel \in Nat /\ InCap \in Nat /\ OutCap \in Nat
        /\ stdout \in Seq(Reply) /\ Len(stdout) <= OutCap /\ Len(stdin) <= InCap
    BY Counts DEF WInv, TypeOK
  <2>3. /\ stdin' \in Seq(Entry) /\ Len(stdin') = Len(stdin) - 1 /\ Len(stdin) # 0
        /\ \A i \in 1..Len(stdin') : stdin'[i] = stdin[i + 1]
    BY <2>1, <2>2
  <2>4. answer' \in Answer \cup {"none"} /\ stdout' \in Seq(Reply) /\ Len(stdout') <= OutCap
    <3>1. \/ UNCHANGED <<stdout, answer>>
          \/ SolverReplies("error") /\ UNCHANGED answer
          \/ answer' \in Answer /\ SolverReplies(answer')
          \/ UNCHANGED answer /\ \E r \in {"model", "error"} : SolverReplies(r)
      BY <1>2 DEF SolverStep
    <3>2. ASSUME NEW r \in Reply, SolverReplies(r) PROVE stdout' \in Seq(Reply) /\ Len(stdout') <= OutCap
      BY <2>2, <3>2 DEF SolverReplies
    <3>3. {"error", "model"} \cup Answer \subseteq Reply
      BY DEF Reply
    <3>4. answer \in Answer \cup {"none"}
      BY DEF WInv, TypeOK
    <3>5. QED
      BY <2>2, <3>1, <3>2, <3>3, <3>4
  <2>5. taken + Len(stdin) <= next - 1 /\ taken' + Len(stdin') = taken + Len(stdin)
    BY <2>1, <2>2, <2>3 DEF WInv, Wire
  <2>6. taken' \in 0..GetModel /\ Len(stdin') <= InCap
    BY <2>1, <2>2, <2>3, <2>5
  <2>7. TypeOK'
    BY <2>1, <2>3, <2>4, <2>6 DEF WInv, TypeOK
  <2>8. \A i \in 1..Len(stdin') : stdin'[i] = taken' + i
    <3> SUFFICES ASSUME NEW i \in 1..Len(stdin') PROVE stdin'[i] = taken + 1 + i
      BY <2>1
    <3>1. i + 1 \in 1..Len(stdin)
      BY <2>2, <2>3
    <3>2. stdin[i + 1] = taken + (i + 1)
      BY <3>1 DEF WInv, Wire
    <3>3. QED
      BY <2>2, <2>3, <3>2
  <2>9. Wire'
    <3>1. \A i \in 1..Len(chan) : chan[i] = taken + Len(stdin) + i => chan[i] = taken' + Len(stdin') + i
      BY <2>5
    <3>2. writer # "failed" =>
            /\ taken' + Len(stdin') + Len(chan) = next - 1
            /\ \A i \in 1..Len(chan) : chan[i] = taken' + Len(stdin') + i
            /\ logged = taken' + Len(stdin') + (IF writer = "holds" THEN 1 ELSE 0)
      BY <2>5, <3>1 DEF WInv, Wire
    <3>3. QED
      BY <2>1, <2>5, <2>8, <3>2 DEF WInv, Wire
  <2>10. QED
    BY <2>7, <2>9 DEF WInv
<1>3. QED
  BY <1>1, <1>2 DEF Solver

LEMMA WireInvariant == ReaderSpec => []WInv
<1>1. ReaderInit => WInv
  <2> SUFFICES ASSUME ReaderInit PROVE WInv
    OBVIOUS
  <2>1. TypeOK
    BY Counts DEF ReaderInit, Init, TypeOK
  <2>2. Wire
    BY Counts DEF ReaderInit, Init, Wire
  <2>3. QED
    BY <2>1, <2>2 DEF WInv
<1>2. WInv /\ [ReaderNext]_readerVars => WInv'
  <2> SUFFICES ASSUME WInv, [ReaderNext]_readerVars PROVE WInv'
    OBVIOUS
  <2>1. CASE WriteEntry
    BY <2>1, WriteKeepsWire
  <2>2. CASE WriteFails
    <3>1. /\ pc' = "done" /\ verdict' \in {"error", "failed"} /\ open' = FALSE /\ stdout' = <<>>
          /\ UNCHANGED <<next, buf, chan, writer, logged, stdin, solver, taken, bad, answer>>
      BY <2>2 DEF WriteFails, ReturnWith, forwarder, process
    <3>2. stdout' \in Seq(Reply) /\ Len(stdout') <= OutCap
      BY <3>1, Counts
    <3>3. QED
      BY <3>1, <3>2 DEF WInv, TypeOK, Wire
  <2>3. ASSUME NEW k \in 1..MaxPending, ReadChunk(k) PROVE WInv'
    BY <2>3, ChunkCases, ReadKeepsWire
  <2>4. CASE Forwarder
    BY <2>4, ForwarderKeepsWire
  <2>5. CASE Solver
    BY <2>5, SolverKeepsWire
  <2>6. CASE UNCHANGED vars
    BY <2>6 DEF vars, caller, forwarder, process, WInv, TypeOK, Wire
  <2>7. CASE DrainOutput
    <3>1. /\ stdout' = <<>>
          /\ UNCHANGED <<pc, next, verdict, buf, chan, open, writer, logged, stdin, solver, taken, bad, answer>>
      BY <2>7 DEF DrainOutput, caller, forwarder, process
    <3>2. stdout' \in Seq(Reply) /\ Len(stdout') <= OutCap
      BY <3>1, Counts
    <3>3. QED
      BY <3>1, <3>2 DEF WInv, TypeOK, Wire
  <2>8. ASSUME NEW k \in 1..MaxPending, ReadGarbled(k) PROVE WInv'
    <3>1. /\ pc' = "done" /\ verdict' \in {"error", "failed"} /\ open' = FALSE
          /\ UNCHANGED <<next, buf, chan, writer, logged, stdin, stdout, solver, taken, bad, answer>>
      BY <2>8 DEF ReadGarbled, ReturnWith, forwarder, process
    <3>2. QED
      BY <3>1 DEF WInv, TypeOK, Wire
  <2>9. QED
    BY <2>1, <2>2, <2>3, <2>4, <2>5, <2>6, <2>7, <2>8 DEF ReaderNext, ReaderCaller, ReadNothing, readerVars
<1>3. QED
  BY <1>1, <1>2, PTL DEF ReaderSpec

(* Every reachable state of the channel is well typed. *)
THEOREM ChannelTypeCorrect == ReaderSpec => []TypeOK
<1>1. WInv => TypeOK
  BY DEF WInv
<1>2. QED
  BY <1>1, WireInvariant, PTL

(* The transcript never misses an entry the solver has received            *)
(* (Communicator::new_from_cmd).                                           *)
THEOREM TranscriptCorrect == ReaderSpec => []TranscriptIsComplete
<1>1. WInv => TranscriptIsComplete
  BY DEF WInv, Wire, TranscriptIsComplete
<1>2. QED
  BY <1>1, WireInvariant, PTL

(* What the caller writes reaches the solver in order, none of it lost or  *)
(* repeated (Communicator::new_from_cmd, write_str).                       *)
THEOREM OrderKept == ReaderSpec => []InOrder
<1>1. WInv => InOrder
  <2> SUFFICES ASSUME WInv, writer # "failed"
               PROVE  [i \in 1..taken |-> i] \o stdin \o chan = [i \in 1..(next - 1) |-> i]
    BY DEF InOrder
  <2> DEFINE processed == [i \in 1..taken |-> i]
             received == processed \o stdin
             written == [i \in 1..(next - 1) |-> i]
  <2>1. /\ stdin \in Seq(Entry) /\ chan \in Seq(Entry) /\ Len(stdin) \in Nat /\ Len(chan) \in Nat
        /\ taken \in Nat /\ next \in Nat /\ next - 1 \in Nat
        /\ stdin \in Seq(Nat) /\ chan \in Seq(Nat)
    BY Counts DEF WInv, TypeOK
  <2>2. processed \in Seq(Nat) /\ Len(processed) = taken /\ written \in Seq(Nat) /\ Len(written) = next - 1
    BY <2>1, IsASeq
  <2>3. /\ received \in Seq(Nat) /\ Len(received) = taken + Len(stdin)
        /\ \A i \in 1..Len(received) : received[i] = IF i <= taken THEN i ELSE stdin[i - taken]
    BY <2>1, <2>2
  <2>4. \A i \in 1..Len(received) : received[i] = i
    BY <2>1, <2>3 DEF WInv, Wire
  <2>5. /\ received \o chan \in Seq(Nat) /\ Len(received \o chan) = next - 1
        /\ \A i \in 1..Len(received \o chan) :
             (received \o chan)[i] = IF i <= Len(received) THEN received[i] ELSE chan[i - Len(received)]
    BY <2>1, <2>3 DEF WInv, Wire
  <2>6. \A i \in 1..(next - 1) : (received \o chan)[i] = i
    BY <2>1, <2>3, <2>4, <2>5 DEF WInv, Wire
  <2>7. QED
    BY <2>2, <2>5, <2>6, SeqEqual
<1>2. QED
  BY <1>1, WireInvariant, PTL

-----------------------------------------------------------------------------
(* The replies on their way, as far as they decide the verdict: the first  *)
(* one that the caller has not consumed.                                   *)
Complained == \E d \in bad : d <= taken
FirstReply == IF buf # <<>> THEN buf[1] ELSE stdout[1]
NoReply == buf = <<>> /\ stdout = <<>>

(* Until the caller has the answer, the first reply is the first error the *)
(* solver had, or else its answer; there is none before.  It is thrown     *)
(* away where the caller can no longer write.  The caller asks for a model *)
(* only if the answer is for a whole query and not unsat.                  *)
CannotWrite == pc = "write" /\ writer = "failed"
Output ==
  /\ answer \in Answer <=> taken >= CheckSat
  /\ pc \in {"write", "await_answer"} /\ ~CannotWrite =>
       /\ Complained => ~NoReply /\ FirstReply = "error"
       /\ ~Complained /\ taken >= CheckSat => ~NoReply /\ FirstReply = answer
       /\ ~Complained /\ taken < CheckSat => NoReply
  /\ pc = "await_model" => bad = {} /\ answer \in {"sat", "unknown"}
  /\ verdict = "none" <=> pc # "done"

AInv == Output /\ VerdictIsAnswer

LEMMA AnswersAreNotNone == "none" \notin Answer /\ "error" \notin Answer /\ "model" \notin Answer
BY DEF Answer

(* The first reply stays the first when a chunk is read.                   *)
LEMMA ChunkKeepsFirst ==
  ASSUME WInv, NEW n \in 0..Len(stdout)
  PROVE  LET data == buf \o SubSeq(stdout, 1, n)
             rest == SubSeq(stdout, n + 1, Len(stdout))
         IN  /\ data \in Seq(Reply) /\ rest \in Seq(Reply)
             /\ (data = <<>> /\ rest = <<>>) <=> NoReply
             /\ ~NoReply => (IF data # <<>> THEN data[1] ELSE rest[1]) = FirstReply
             /\ n # 0 => data # <<>> /\ ~NoReply
<1> DEFINE chunk == SubSeq(stdout, 1, n)
           data == buf \o chunk
           rest == SubSeq(stdout, n + 1, Len(stdout))
<1>1. /\ stdout \in Seq(Reply) /\ buf \in Seq(Reply)
      /\ n \in Nat /\ n <= Len(stdout) /\ Len(stdout) \in Nat /\ Len(buf) \in Nat
  BY DEF WInv, TypeOK
<1>2. /\ chunk \in Seq(Reply) /\ Len(chunk) = n
      /\ n # 0 => chunk[1] = stdout[1]
      /\ rest \in Seq(Reply) /\ Len(rest) = Len(stdout) - n
      /\ n = 0 => rest = stdout
  BY <1>1
<1>3. /\ data \in Seq(Reply) /\ Len(data) = Len(buf) + n
      /\ buf # <<>> => data[1] = buf[1]
      /\ buf = <<>> => data = chunk
  BY <1>1, <1>2
<1>4. /\ buf = <<>> <=> Len(buf) = 0
      /\ stdout = <<>> <=> Len(stdout) = 0
      /\ data = <<>> <=> Len(data) = 0
      /\ rest = <<>> <=> Len(rest) = 0
  <2> USE EmptySeq
  <2>1. \A S, s : s \in Seq(S) => (s = <<>> <=> Len(s) = 0)
    OBVIOUS
  <2>2. QED
    BY <1>1, <1>2, <1>3, <2>1
<1>5. (data = <<>> /\ rest = <<>>) <=> NoReply
  <2> HIDE DEF data, rest, chunk
  <2>0. /\ Len(data) = Len(buf) + n /\ Len(rest) = Len(stdout) - n
        /\ n \in Nat /\ n <= Len(stdout) /\ Len(stdout) \in Nat /\ Len(buf) \in Nat
    BY <1>1, <1>2, <1>3, Zenon
  <2>1. (Len(data) = 0 /\ Len(rest) = 0) <=> (Len(buf) = 0 /\ Len(stdout) = 0)
    BY <2>0
  <2>2. QED
    BY <1>4, <2>1 DEF NoReply
<1>6. ASSUME ~NoReply PROVE (IF data # <<>> THEN data[1] ELSE rest[1]) = FirstReply
  <2>1. CASE buf # <<>>
    BY <1>1, <1>3, <1>4, <2>1 DEF FirstReply
  <2>2. CASE buf = <<>>
    BY <1>1, <1>2, <1>3, <1>4, <2>2 DEF FirstReply
  <2>3. QED
    BY <2>1, <2>2
<1>7. n # 0 => data # <<>> /\ ~NoReply
  <2> HIDE DEF data, rest, chunk
  <2>1. n # 0 => Len(data) # 0
    BY <1>1, <1>3
  <2>2. QED
    BY <1>4, <1>5, <2>1
<1>8. QED
  BY <1>2, <1>3, <1>5, <1>6, <1>7

LEMMA ReadKeepsAnswer ==
  ASSUME WInv, AInv, NEW n \in 0..Len(stdout),
         Reads, Accumulate(n) \/ (n # 0 /\ (ReadAnswer(n) \/ ReadModel(n)))
  PROVE  AInv'
<1> DEFINE data == buf \o SubSeq(stdout, 1, n)
           rest == SubSeq(stdout, n + 1, Len(stdout))
<1>1. /\ (data = <<>> /\ rest = <<>>) <=> NoReply
      /\ ~NoReply => (IF data # <<>> THEN data[1] ELSE rest[1]) = FirstReply
      /\ n # 0 => data # <<>> /\ ~NoReply
  BY ChunkKeepsFirst
<1>2. Complained => bad # {}
  BY DEF Complained
<1>3. ASSUME buf' = data, stdout' = rest, UNCHANGED <<pc, verdict, writer, taken, bad, answer>>
      PROVE  AInv'
  <2>1. NoReply' <=> NoReply
    BY <1>1, <1>3 DEF NoReply
  <2>2. ~NoReply => FirstReply' = FirstReply
    BY <1>1, <1>3 DEF FirstReply
  <2>3. Complained' <=> Complained
    BY <1>3 DEF Complained
  <2>4. QED
    BY <1>3, <2>1, <2>2, <2>3 DEF AInv, Output, CannotWrite, VerdictIsAnswer
<1>4. CASE Accumulate(n)
  BY <1>3, <1>4 DEF Accumulate, First, forwarder, process
<1>5. CASE n # 0 /\ ReadModel(n)
  <2>1. /\ pc = "await_model" /\ stdout' = rest /\ UNCHANGED <<writer, taken, bad, answer>>
    BY <1>5 DEF ReadModel, forwarder, process
  <2>2. CASE pc' = "done" /\ verdict' = "failed"
    BY <2>1, <2>2 DEF AInv, Output, CannotWrite, VerdictIsAnswer
  <2>3. CASE buf' = data /\ UNCHANGED <<pc, verdict>>
    BY <1>3, <2>1, <2>3
  <2>4. QED
    BY <1>5, <2>2, <2>3 DEF ReadModel, ReturnWith
<1>6. CASE n # 0 /\ ReadAnswer(n)
  <2>1. /\ pc = "await_answer" /\ stdout' = rest /\ UNCHANGED <<writer, taken, bad, answer>>
        /\ data[1] = FirstReply /\ ~NoReply
    BY <1>1, <1>6 DEF ReadAnswer, forwarder, process
  <2>2. ASSUME data[1] \in Answer
        PROVE  bad = {} /\ taken >= CheckSat /\ answer = data[1]
    <3> HIDE DEF data
    <3>1. ~Complained /\ taken >= CheckSat /\ answer = data[1]
      <4>1. FirstReply \in Answer /\ FirstReply # "error"
        BY <2>1, <2>2, AnswersAreNotNone
      <4>2. taken \in Nat /\ CheckSat \in Nat
        BY Counts DEF WInv, TypeOK
      <4>3. taken >= CheckSat \/ taken < CheckSat
        BY <4>2
      <4>4. QED
        BY <2>1, <4>1, <4>3 DEF AInv, Output, CannotWrite
    <3>2. bad \subseteq 1..Decls /\ taken \in Nat
      BY DEF WInv, TypeOK
    <3>3. \A d \in bad : d <= taken
      BY <3>1, <3>2, Counts
    <3>4. QED
      BY <3>1, <3>3 DEF Complained
  <2>3. Response(data) \in Answer => Response(data) = data[1]
    BY AnswersAreNotNone DEF Response, Answer
  <2>4. CASE Response(data) = "unsat" /\ pc' = "done" /\ verdict' = "ok"
    BY <2>1, <2>2, <2>3, <2>4 DEF AInv, Output, CannotWrite, VerdictIsAnswer, Answer
  <2>5. CASE Response(data) \in {"sat", "unknown"} /\ pc' = "await_model" /\ verdict' = verdict
    BY <2>1, <2>2, <2>3, <2>5 DEF AInv, Output, CannotWrite, VerdictIsAnswer, Answer
  <2>6. CASE pc' = "done" /\ verdict' = "error"
    BY <2>1, <2>6 DEF AInv, Output, CannotWrite, VerdictIsAnswer
  <2>7. CASE buf' = data /\ UNCHANGED <<pc, verdict>>
    BY <1>3, <2>1, <2>7
  <2>8. QED
    BY <1>6, <2>4, <2>5, <2>6, <2>7 DEF ReadAnswer, ReturnWith
<1>7. QED
  BY <1>4, <1>5, <1>6

(* A reply is put behind those that are there. *)
LEMMA ReplyIsLast ==
  ASSUME WInv, NEW r \in Reply, SolverReplies(r), UNCHANGED buf
  PROVE  /\ ~NoReply' /\ (NoReply => FirstReply' = r)
         /\ ~NoReply => FirstReply' = FirstReply
<1>1. stdout \in Seq(Reply) /\ stdout' = Append(stdout, r) /\ buf' = buf /\ Len(stdout) \in Nat
  BY DEF SolverReplies, WInv, TypeOK
<1>2. /\ stdout' # <<>> /\ (stdout = <<>> => stdout'[1] = r)
      /\ stdout # <<>> => stdout'[1] = stdout[1]
  BY <1>1
<1>3. QED
  BY <1>1, <1>2 DEF NoReply, FirstReply

LEMMA SolverKeepsAnswer == WInv /\ AInv /\ Solver => AInv'
<1> SUFFICES ASSUME WInv, AInv, Solver PROVE AInv'
  OBVIOUS
<1>1. CASE SolverEnds
  BY <1>1 DEF SolverEnds, AInv, Output, CannotWrite, VerdictIsAnswer, Complained, FirstReply, NoReply, caller,
              forwarder
<1>2. CASE SolverStep
  <2> DEFINE e == Head(stdin)
  <2>1. /\ stdin # <<>> /\ taken' = taken + 1
        /\ UNCHANGED <<pc, next, verdict, buf, writer, bad>>
    BY <1>2 DEF SolverStep, caller, forwarder
  <2>2. /\ taken \in Nat /\ CheckSat \in Nat /\ Decls \in Nat /\ bad \subseteq 1..Decls
        /\ CheckSat = Decls + 1 /\ GetModel = CheckSat + 1
    BY Counts DEF WInv, TypeOK
  <2>3. e = taken + 1 /\ taken + 1 <= next - 1 /\ next \in Nat
    <3>1. stdin \in Seq(Entry) /\ Len(stdin) \in Nat /\ next \in Nat
      BY Counts DEF WInv, TypeOK
    <3>2. Len(stdin) # 0 /\ e = stdin[1] /\ 1 \in 1..Len(stdin)
      BY <2>1, <3>1
    <3>3. e = taken + 1
      BY <3>2 DEF WInv, Wire
    <3>4. QED
      BY <2>2, <3>1, <3>2, <3>3 DEF WInv, Wire
  <2>4. Complained' <=> Complained \/ e \in bad
    <3>1. \A d \in bad : d <= taken + 1 <=> d <= taken \/ d = taken + 1
      BY <2>2
    <3>2. QED
      BY <2>1, <2>3, <3>1 DEF Complained
  <2>5. pc = "await_answer" => next = CheckSat + 1
    BY <2>2 DEF WInv, Wire
  <2>6. pc = "write" => next <= CheckSat
    BY DEF WInv, Wire
  <2>7. CASE e \in 1..Decls \ bad /\ UNCHANGED <<stdout, answer>>
    <3>1. taken < CheckSat /\ taken' < CheckSat
      BY <2>1, <2>2, <2>3, <2>7
    <3>2. (taken >= CheckSat <=> taken' >= CheckSat) /\ (Complained' <=> Complained)
      BY <2>1, <2>2, <2>4, <2>7, <3>1
    <3>3. QED
      BY <2>1, <2>2, <2>7, <3>1, <3>2 DEF AInv, Output, CannotWrite, VerdictIsAnswer, FirstReply, NoReply
  <2>8. CASE e \in bad /\ SolverReplies("error") /\ UNCHANGED answer
    <3>1. taken < CheckSat /\ taken' < CheckSat /\ ~(taken >= CheckSat) /\ ~(taken' >= CheckSat)
      BY <2>1, <2>2, <2>3, <2>8
    <3>2. ~NoReply' /\ (NoReply => FirstReply' = "error") /\ (~NoReply => FirstReply' = FirstReply)
      BY <2>1, <2>8, ReplyIsLast DEF Reply
    <3>3. pc \in {"write", "await_answer"} /\ ~CannotWrite => FirstReply' = "error"
      BY <3>1, <3>2 DEF AInv, Output
    <3>4. bad # {}
      BY <2>8
    <3>5. QED
      BY <2>1, <2>4, <2>8, <3>1, <3>2, <3>3, <3>4 DEF AInv, Output, CannotWrite, VerdictIsAnswer
  <2>9. CASE e = CheckSat /\ answer' \in Answer /\ SolverReplies(answer')
    <3>1. taken < CheckSat /\ taken' >= CheckSat /\ ~(taken >= CheckSat) /\ ~(taken' < CheckSat)
      BY <2>1, <2>2, <2>3, <2>9
    <3>2. ~NoReply' /\ (NoReply => FirstReply' = answer') /\ (~NoReply => FirstReply' = FirstReply)
      BY <2>1, <2>9, ReplyIsLast DEF Reply
    <3>3. Complained' <=> Complained
      BY <2>2, <2>4, <2>9
    <3>4. answer \notin Answer
      BY <3>1 DEF AInv, Output
    <3>5. pc # "await_model" /\ verdict \notin {"ok", "failed"}
      BY <3>1, <3>4 DEF AInv, Output, CannotWrite, VerdictIsAnswer, Answer
    <3>6. QED
      BY <2>1, <2>9, <3>1, <3>2, <3>3, <3>4, <3>5 DEF AInv, Output, CannotWrite, VerdictIsAnswer
  <2>10. CASE e = GetModel /\ UNCHANGED answer
    <3>1. taken >= CheckSat /\ taken' >= CheckSat
      BY <2>1, <2>2, <2>3, <2>10
    <3>2. pc \notin {"write", "await_answer"}
      BY <2>2, <2>3, <2>5, <2>6, <2>10
    <3>3. QED
      BY <2>1, <2>10, <3>1, <3>2 DEF AInv, Output, CannotWrite, VerdictIsAnswer
  <2>11. QED
    BY <1>2, <2>7, <2>8, <2>9, <2>10 DEF SolverStep
<1>3. QED
  BY <1>1, <1>2 DEF Solver

LEMMA AnswerInvariant == ReaderSpec => []AInv
<1>1. ReaderInit => AInv
  <2> SUFFICES ASSUME ReaderInit PROVE AInv
    OBVIOUS
  <2>1. /\ pc = "write" /\ verdict = "none" /\ buf = <<>> /\ stdout = <<>> /\ taken = 0 /\ answer = "none"
        /\ bad \subseteq 1..Decls
    BY DEF ReaderInit, Init
  <2>2. ~Complained /\ NoReply /\ ~(taken >= CheckSat)
    BY <2>1, Counts DEF Complained, NoReply
  <2>3. QED
    BY <2>1, <2>2, AnswersAreNotNone DEF AInv, Output, CannotWrite, VerdictIsAnswer
<1>2. WInv /\ AInv /\ [ReaderNext]_readerVars => AInv'
  <2> SUFFICES ASSUME WInv, AInv, [ReaderNext]_readerVars PROVE AInv'
    OBVIOUS
  <2>1. CASE WriteEntry
    <3>1. /\ UNCHANGED <<verdict, buf, writer, stdout, taken, bad, answer>>
          /\ pc \in {"write", "await_model"} /\ next <= GetModel /\ writer # "failed"
          /\ pc' = IF next = CheckSat THEN "await_answer" ELSE pc
      BY <2>1 DEF WriteEntry, forwarder, process
    <3>2. ASSUME pc = "await_model", next = CheckSat PROVE FALSE
      <4>1. taken <= next - 1 /\ taken >= CheckSat /\ taken \in Nat /\ CheckSat \in Nat
        <5>1. taken >= CheckSat
          BY <3>2 DEF AInv, Output, Answer
        <5>2. taken \in Nat /\ Len(stdin) \in Nat /\ next \in Nat
          BY DEF WInv, TypeOK
        <5>3. QED
          BY <5>1, <5>2, Counts DEF WInv, Wire
      <4>2. QED
        BY <3>2, <4>1
    <3>3. pc' = pc \/ (pc = "write" /\ pc' = "await_answer")
      BY <3>1, <3>2
    <3>4. QED
      BY <3>1, <3>3 DEF AInv, Output, CannotWrite, VerdictIsAnswer, Complained, FirstReply, NoReply
  <2>2. CASE WriteFails
    <3>1. /\ pc \in {"write", "await_model"} /\ pc' = "done" /\ UNCHANGED <<taken, bad, answer>>
          /\ verdict' = IF pc = "write" THEN "error" ELSE "failed"
      BY <2>2 DEF WriteFails, ReturnWith, process
    <3>2. QED
      BY <3>1 DEF AInv, Output, CannotWrite, VerdictIsAnswer
  <2>3. ASSUME NEW k \in 1..MaxPending, ReadChunk(k) PROVE AInv'
    <3>1. Reads
      BY <2>3 DEF ReadChunk
    <3>2. QED
      BY <2>3, <3>1, ChunkCases, ReadKeepsAnswer
  <2>4. CASE Forwarder
    <3>1. /\ UNCHANGED <<pc, verdict, buf, stdout, taken, bad, answer>>
          /\ writer # "failed"
      BY <2>4 DEF Forwarder, Greet, TakeAndLog, Forward, StopForwarding, caller, process
    <3>2. QED
      BY <3>1 DEF AInv, Output, CannotWrite, VerdictIsAnswer, Complained, FirstReply, NoReply
  <2>5. CASE Solver
    BY <2>5, SolverKeepsAnswer
  <2>6. CASE UNCHANGED vars
    BY <2>6 DEF vars, caller, forwarder, process, AInv, Output, CannotWrite, VerdictIsAnswer, Complained, FirstReply,
                NoReply
  <2>7. CASE DrainOutput
    <3>1. pc = "await_model" \/ (CannotWrite /\ CannotWrite')
      BY <2>7 DEF DrainOutput, CannotWrite, caller, forwarder
    <3>2. UNCHANGED <<pc, verdict, taken, bad, answer>>
      BY <2>7 DEF DrainOutput, caller, process
    <3>3. QED
      BY <3>1, <3>2 DEF AInv, Output, VerdictIsAnswer
  <2>8. ASSUME NEW k \in 1..MaxPending, ReadGarbled(k) PROVE AInv'
    <3>1. /\ pc \in {"await_answer", "await_model"} /\ pc' = "done" /\ UNCHANGED <<taken, bad, answer>>
          /\ verdict' = IF pc = "await_answer" THEN "error" ELSE "failed"
      BY <2>8 DEF ReadGarbled, Reads, ReturnWith, process
    <3>2. QED
      BY <3>1 DEF AInv, Output, CannotWrite, VerdictIsAnswer
  <2>9. QED
    BY <2>1, <2>2, <2>3, <2>4, <2>5, <2>6, <2>7, <2>8 DEF ReaderNext, ReaderCaller, ReadNothing, readerVars
<1>3. QED
  BY <1>1, <1>2, WireInvariant, PTL DEF ReaderSpec

(* A claim counts as proved, or as refuted, only if that is the solver's   *)
(* answer to the whole query and it had nothing to complain about          *)
(* (check_sat, verify_with_solver).                                        *)
THEOREM VerdictCorrect == ReaderSpec => []VerdictIsAnswer
<1>1. AInv => VerdictIsAnswer
  BY DEF AInv
<1>2. QED
  BY <1>1, AnswerInvariant, PTL

-----------------------------------------------------------------------------
(* Only a solver that has accepted every declaration gives an answer that  *)
(* counts, it gives it once, and the caller returns once.                  *)
LEMMA StepsAreAbstract ==
  WInv /\ AInv /\ WInv' /\ AInv' /\ [ReaderNext]_readerVars => [Abstract!Next]_(Abstract!vars)
<1> SUFFICES ASSUME WInv, AInv, WInv', AInv', [ReaderNext]_readerVars
             PROVE  [Abstract!Next]_(Abstract!vars)
  OBVIOUS
<1> DEFINE counts == IF bad = {} THEN answer ELSE "none"
<1>1. ASSUME UNCHANGED <<answer, bad>>, verdict # "none" => UNCHANGED verdict
      PROVE  [Abstract!Next]_(Abstract!vars)
  <2>1. CASE verdict' = verdict
    BY <1>1, <2>1 DEF Abstract!vars
  <2>2. CASE verdict' # verdict
    <3>1. verdict = "none" /\ verdict' \in {"none", "ok", "failed", "error"}
      BY <1>1, <2>2 DEF WInv, TypeOK
    <3>2. /\ verdict' = "ok" => counts = "unsat"
          /\ verdict' = "failed" => counts \in {"sat", "unknown"}
      BY <1>1 DEF AInv, VerdictIsAnswer
    <3>3. Abstract!Return
      BY <1>1, <2>2, <3>1, <3>2 DEF Abstract!Return
    <3>4. QED
      BY <3>3 DEF Abstract!Next
  <2>3. QED
    BY <2>1, <2>2
<1>2. verdict # "none" => pc = "done"
  BY DEF AInv, Output
<1>3. CASE WriteEntry
  BY <1>1, <1>3 DEF WriteEntry, process
<1>4. CASE WriteFails
  BY <1>1, <1>2, <1>4 DEF WriteFails, process
<1>4a. CASE DrainOutput
  BY <1>1, <1>4a DEF DrainOutput, caller, process
<1>4b. ASSUME NEW k \in 1..MaxPending, ReadGarbled(k) PROVE [Abstract!Next]_(Abstract!vars)
  BY <1>1, <1>2, <1>4b DEF ReadGarbled, Reads, process
<1>5. ASSUME NEW k \in 1..MaxPending, ReadChunk(k) PROVE [Abstract!Next]_(Abstract!vars)
  <2>1. Reads
    BY <1>5 DEF ReadChunk
  <2>2. verdict = "none"
    BY <1>2, <2>1 DEF Reads
  <2>3. UNCHANGED <<answer, bad>>
    BY <1>5, ChunkCases DEF Accumulate, ReadAnswer, ReadModel, process
  <2>4. QED
    BY <1>1, <2>2, <2>3
<1>6. CASE Forwarder
  BY <1>1, <1>6 DEF Forwarder, Greet, TakeAndLog, Forward, StopForwarding, caller, process
<1>7. CASE SolverEnds
  BY <1>1, <1>7 DEF SolverEnds, caller
<1>8. CASE SolverStep
  <2>1. UNCHANGED <<verdict, bad>> /\ taken' = taken + 1
    BY <1>8 DEF SolverStep, caller
  <2>2. CASE answer' = answer
    BY <1>1, <2>1, <2>2
  <2>3. CASE Head(stdin) = CheckSat /\ answer' \in Answer
    <3>1. taken < CheckSat
      <4>1. stdin # <<>> /\ stdin \in Seq(Entry) /\ Len(stdin) \in Nat /\ taken \in Nat /\ CheckSat \in Nat
        BY <1>8, Counts DEF SolverStep, WInv, TypeOK
      <4>2. 1 \in 1..Len(stdin) /\ Head(stdin) = stdin[1]
        BY <4>1
      <4>3. CheckSat = taken + 1
        BY <2>3, <4>2 DEF WInv, Wire
      <4>4. QED
        BY <4>1, <4>3
    <3>2. answer = "none"
      <4>1. ~(taken >= CheckSat)
        BY <3>1, Counts DEF WInv, TypeOK
      <4>2. QED
        BY <4>1 DEF AInv, Output, WInv, TypeOK
    <3>3. CASE bad = {}
      BY <2>1, <2>3, <3>2, <3>3 DEF Abstract!Next, Abstract!Decide, Abstract!Answer, Answer
    <3>4. CASE bad # {}
      BY <2>1, <3>4 DEF Abstract!vars
    <3>5. QED
      BY <3>3, <3>4
  <2>4. QED
    BY <1>8, <2>2, <2>3 DEF SolverStep
<1>9. CASE UNCHANGED vars
  BY <1>1, <1>9 DEF vars, caller, process
<1>10. QED
  BY <1>3, <1>4, <1>5, <1>6, <1>7, <1>8, <1>9, <1>4a, <1>4b
  DEF ReaderNext, ReaderCaller, ReadNothing, Solver, readerVars

(* Whatever happens between the prover and the solver, the check of a      *)
(* claim keeps the promise of module ClaimCheck (verify_with_solver).      *)
THEOREM CheckKeepsPromise == ReaderSpec => ImplementsClaimCheck
<1>1. ReaderInit => Abstract!Init
  BY DEF ReaderInit, Init, Abstract!Init
<1>2. QED
  BY <1>1, StepsAreAbstract, WireInvariant, AnswerInvariant, PTL
  DEF ReaderSpec, ImplementsClaimCheck, Abstract!Spec

-----------------------------------------------------------------------------
(* The buffer of the caller.                                               *)
(* A chunk is one turn of a read loop of the buffer.                       *)
LEMMA ChunkIsRead ==
  ASSUME BufferTypeOK, NEW k \in 1..MaxPending, ReadChunk(k)
  PROVE  BufferNext
<1>1. k \in 0..MaxPending
  BY BufferAssumption
<1>2. CASE pc' = pc
  <2>1. Read(k)
    BY <1>2 DEF ReadChunk
  <2> QED
    BY <1>1, <2>1 DEF BufferNext
<1>3. CASE pc' # pc
  <2>1. PICK rest : ReadReply(k, rest)
    BY <1>3 DEF ReadChunk
  <2>2. rest \in 0..MaxPending
    BY <2>1, BufferAssumption DEF ReadReply, BufferTypeOK
  <2> QED
    BY <1>1, <2>1, <2>2 DEF BufferNext
<1> QED
  BY <1>2, <1>3

(* Every step of the caller, of the forwarding thread and of the solver    *)
(* is a step of the buffer or leaves it alone.                             *)
LEMMA StepOfBuffer ==
  ASSUME BufferTypeOK, [ReaderNext]_readerVars
  PROVE  [BufferNext]_bufferVars
<1>1. ASSUME NEW k \in 1..MaxPending, ReadChunk(k)
      PROVE  BufferNext
  BY <1>1, ChunkIsRead
<1>2. CASE ReadNothing
  BY <1>2, BufferAssumption DEF ReadNothing, BufferNext
<1>2a. ASSUME NEW k \in 1..MaxPending, ReadGarbled(k)
      PROVE  BufferNext
  BY <1>2a, BufferAssumption DEF ReadGarbled, BufferNext
<1>3. CASE Elsewhere
  BY <1>3 DEF Elsewhere
<1>4. CASE UNCHANGED readerVars
  BY <1>4 DEF readerVars
<1> QED
  BY <1>1, <1>2, <1>3, <1>4, <1>2a DEF ReaderNext, ReaderCaller

(* The caller's reads of the solver's output always have room for at least *)
(* one byte and stay within the buffer (Communicator::read_until_pred,     *)
(* read_model).                                                            *)
THEOREM ReaderHasRoom == ReaderSpec => [](WithinBuffer /\ AlwaysRoom)
<1>1. ReaderInit => BufferInv
  BY BufferAssumption DEF ReaderInit, BufferInit, BufferInv, BufferTypeOK, WithinBuffer, AlwaysRoom
<1>2. BufferInv /\ [ReaderNext]_readerVars => BufferInv'
  BY StepOfBuffer, BufferIsInductive DEF BufferInv
<1>3. BufferInv => WithinBuffer /\ AlwaysRoom
  BY DEF BufferInv
<1> QED
  BY <1>1, <1>2, <1>3, PTL DEF ReaderSpec

-----------------------------------------------------------------------------
(* What the bytes in use stand for.                                        *)
LEMMA SizesAreNumbers == \A reply \in Reply : Size(reply) \in Nat
<1>1. /\ AnswerSize \in Nat /\ ErrorSize \in Nat /\ ModelSize \in Nat
      /\ "error" \notin Answer /\ "model" \notin Answer /\ "error" # "model"
  BY SizeAssumption DEF Answer
<1>2. \A reply \in Answer : Size(reply) = AnswerSize
  BY <1>1 DEF Size
<1>3. Size("error") = ErrorSize /\ Size("model") = ModelSize
  BY <1>1 DEF Size
<1> QED
  BY <1>1, <1>2, <1>3 DEF Reply

(* f sums up the sizes of the replies.                                     *)
SumsUp(f, replies) ==
  /\ f[0] = 0
  /\ \A n \in Nat : f[n] \in Nat
  /\ \A n \in Nat : n < Len(replies) => f[n + 1] = f[n] + Size(replies[n + 1])

LEMMA BytesAreSummed ==
  ASSUME NEW s \in Seq(Reply)
  PROVE  \E f : SumsUp(f, s) /\ Bytes(s) = f[Len(s)]
<1> DEFINE adds == [n \in Nat |-> [x \in Nat |-> IF n < Len(s) THEN x + Size(s[n + 1]) ELSE x]]
<1>1. Len(s) \in Nat /\ \A n \in Nat : n < Len(s) => s[n + 1] \in Reply
  OBVIOUS
<1>2. adds \in [Nat -> [Nat -> Nat]] /\ 0 \in Nat
  <2>1. ASSUME NEW n \in Nat, NEW x \in Nat
        PROVE  (IF n < Len(s) THEN x + Size(s[n + 1]) ELSE x) \in Nat
    <3>1. n < Len(s) => Size(s[n + 1]) \in Nat
      BY <1>1, SizesAreNumbers
    <3> QED
      BY <3>1
  <2> QED
    BY <2>1
<1>3. PICK f : IteratesFrom(f, Nat, 0, adds)
  <2> HIDE DEF adds
  <2> QED
    BY <1>2, Iterates
<1>4. /\ f[0] = 0 /\ \A n \in Nat : f[n] \in Nat
      /\ \A n \in Nat : n < Len(s) => f[n + 1] = f[n] + Size(s[n + 1])
  BY <1>3 DEF IteratesFrom
<1> HIDE DEF adds
<1> DEFINE Is(upto) == upto = [n \in 0..Len(s) |-> IF n = 0 THEN 0 ELSE upto[n - 1] + Size(s[n])]
           b == CHOOSE upto : Is(upto)
           g == [n \in 0..Len(s) |-> f[n]]
<1>5. Is(g)
  <2> SUFFICES ASSUME NEW n \in 0..Len(s)
               PROVE  g[n] = IF n = 0 THEN 0 ELSE g[n - 1] + Size(s[n])
    OBVIOUS
  <2>1. CASE n = 0
    BY <1>4, <2>1
  <2>2. CASE n # 0
    <3>1. n - 1 \in Nat /\ n - 1 < Len(s) /\ n - 1 \in 0..Len(s) /\ (n - 1) + 1 = n
      BY <1>1, <2>2
    <3> QED
      BY <1>4, <2>2, <3>1
  <2> QED
    BY <2>1, <2>2
<1>6. Is(b)
  <2> HIDE DEF Is
  <2> QED
    BY <1>5
<1>7. Bytes(s) = b[Len(s)]
  BY DEF Bytes
<1> HIDE DEF b
<1> DEFINE A == {n \in Nat : n <= Len(s) => b[n] = f[n]}
<1>8. 0 \in A
  BY <1>1, <1>4, <1>6
<1>9. ASSUME NEW n \in Nat, n \in A
      PROVE  n + 1 \in A
  <2> SUFFICES ASSUME n + 1 <= Len(s) PROVE b[n + 1] = f[n + 1]
    OBVIOUS
  <2>1. n + 1 \in 0..Len(s) /\ n + 1 # 0 /\ (n + 1) - 1 = n /\ n < Len(s) /\ n <= Len(s)
    BY <1>1
  <2>2. b[n + 1] = b[n] + Size(s[n + 1])
    BY <1>6, <2>1
  <2> QED
    BY <1>4, <1>9, <2>1, <2>2
<1>10. Nat \subseteq A
  <2> HIDE DEF A
  <2> QED
    BY <1>8, <1>9, NaturalInduction
<1>11. b[Len(s)] = f[Len(s)]
  BY <1>1, <1>10
<1> QED
  BY <1>4, <1>7, <1>11 DEF SumsUp

(* The first m replies of t stand in s behind its first k.                 *)
Follow(s, k, t, m) ==
  /\ k + m <= Len(s) /\ m <= Len(t)
  /\ \A n \in Nat : n < m => s[(k + n) + 1] = t[n + 1]

(* Replies that follow others add their sum to that of the others.         *)
LEMMA SumsAgree ==
  ASSUME NEW s \in Seq(Reply), NEW t \in Seq(Reply), NEW f, NEW g, SumsUp(f, s), SumsUp(g, t),
         NEW k \in Nat, NEW m \in Nat, Follow(s, k, t, m)
  PROVE  f[k + m] = f[k] + g[m]
<1> DEFINE A == {n \in Nat : n <= m => f[k + n] = f[k] + g[n]}
<1>1. 0 \in A
  <2>1. k + 0 = k /\ f[k] \in Nat /\ g[0] = 0
    BY DEF SumsUp
  <2> QED
    BY <2>1
<1>2. ASSUME NEW n \in Nat, n \in A
      PROVE  n + 1 \in A
  <2> SUFFICES ASSUME n + 1 <= m PROVE f[k + (n + 1)] = f[k] + g[n + 1]
    OBVIOUS
  <2>1. Len(s) \in Nat /\ Len(t) \in Nat
    OBVIOUS
  <2>2. n <= m /\ n < m /\ n < Len(t) /\ k + n < Len(s) /\ k + n \in Nat /\ k + (n + 1) = (k + n) + 1
    BY <2>1 DEF Follow
  <2>3. f[(k + n) + 1] = f[k + n] + Size(s[(k + n) + 1]) /\ g[n + 1] = g[n] + Size(t[n + 1])
    BY <2>2 DEF SumsUp
  <2>4. s[(k + n) + 1] = t[n + 1] /\ Size(t[n + 1]) \in Nat
    <3>1. t[n + 1] \in Reply
      BY <2>1, <2>2
    <3> QED
      BY <2>2, <3>1, SizesAreNumbers DEF Follow
  <2>5. f[k + n] = f[k] + g[n] /\ f[k] \in Nat /\ g[n] \in Nat
    BY <1>2, <2>2 DEF SumsUp
  <2> QED
    BY <2>2, <2>3, <2>4, <2>5
<1>3. Nat \subseteq A
  <2> HIDE DEF A
  <2> QED
    BY <1>1, <1>2, NaturalInduction
<1> QED
  BY <1>3

LEMMA BytesOfBoth ==
  ASSUME NEW s \in Seq(Reply), NEW t \in Seq(Reply)
  PROVE  Bytes(s \o t) = Bytes(s) + Bytes(t) /\ Bytes(s) \in Nat /\ Bytes(t) \in Nat
<1> DEFINE u == s \o t
           k == Len(s)
           m == Len(t)
<1>1. /\ u \in Seq(Reply) /\ k \in Nat /\ m \in Nat /\ Len(u) = k + m
      /\ \A n \in Nat : n < k => u[(0 + n) + 1] = s[n + 1]
      /\ \A n \in Nat : n < m => u[(k + n) + 1] = t[n + 1]
  OBVIOUS
<1> HIDE DEF u
<1>2. PICK f : SumsUp(f, s) /\ Bytes(s) = f[k]
  BY BytesAreSummed
<1>3. PICK g : SumsUp(g, t) /\ Bytes(t) = g[m]
  BY BytesAreSummed
<1>4. PICK h : SumsUp(h, u) /\ Bytes(u) = h[Len(u)]
  BY <1>1, BytesAreSummed
<1> HIDE DEF k, m
<1>5. h[0 + k] = h[0] + f[k]
  <2>1. Follow(u, 0, s, k) /\ 0 \in Nat
    BY <1>1 DEF k, Follow
  <2> QED
    BY <1>1, <1>2, <1>4, <2>1, SumsAgree
<1>6. h[k + m] = h[k] + g[m]
  <2>1. Follow(u, k, t, m)
    BY <1>1 DEF m, Follow
  <2> QED
    BY <1>1, <1>3, <1>4, <2>1, SumsAgree
<1>7. h[0] = 0 /\ f[k] \in Nat /\ g[m] \in Nat /\ 0 + k = k
  BY <1>1, <1>2, <1>3, <1>4 DEF SumsUp
<1> QED
  BY <1>1, <1>2, <1>3, <1>4, <1>5, <1>6, <1>7 DEF u

PInv == BufferIsPending /\ part \in Nat /\ pos \in Nat

LEMMA ChunkKeepsPending ==
  ASSUME WInv, PInv, NEW k \in 1..MaxPending, ReadChunk(k)
  PROVE  PInv'
<1>1. PICK n \in 0..Len(stdout) :
        LET cut == part + k - Bytes(First(n))
            hidden == cut > 0 /\ (buf \o First(n))[1] = "error"
        IN  /\ cut >= 0
            /\ part' = cut
            /\ IF n = 0 \/ hidden THEN Accumulate(n) ELSE ReadAnswer(n) \/ ReadModel(n)
            /\ IF pc' = pc THEN Read(k) ELSE ReadReply(k, Bytes(buf') + cut)
  BY DEF ReadChunk
<1> DEFINE data == buf \o First(n)
<1>2. /\ stdout \in Seq(Reply) /\ buf \in Seq(Reply) /\ pc \in {"await_answer", "await_model"}
  BY DEF WInv, TypeOK, ReadChunk, Reads
<1>3. First(n) \in Seq(Reply)
  BY <1>2 DEF First
<1>4. Bytes(data) = Bytes(buf) + Bytes(First(n)) /\ Bytes(buf) \in Nat /\ Bytes(First(n)) \in Nat
  BY <1>2, <1>3, BytesOfBoth
<1>5. k \in Nat /\ part \in Nat /\ pos = Bytes(buf) + part
  BY <1>2, BufferAssumption DEF PInv, BufferIsPending
<1>6. part' = part + k - Bytes(First(n)) /\ part' \in Nat
  BY <1>1, <1>4, <1>5
<1>7. CASE pc' = pc
  <2>1. buf' = data
    BY <1>1, <1>2, <1>7 DEF Accumulate, ReadAnswer, ReadModel, ReturnWith, First
  <2>2. pos' = pos + k
    BY <1>1, <1>7 DEF Read
  <2>3. Bytes(buf') = Bytes(data)
    BY <2>1
  <2>4. pos' = Bytes(buf') + part' /\ pos' \in Nat
    BY <1>4, <1>5, <1>6, <2>2, <2>3
  <2> QED
    BY <1>6, <2>4 DEF PInv, BufferIsPending
<1>8. CASE pc' # pc
  <2>1. pos' = Bytes(buf') + part' /\ pos' \in 0..(pos + k)
    BY <1>1, <1>8 DEF ReadReply
  <2> QED
    BY <1>5, <1>6, <2>1 DEF PInv, BufferIsPending
<1> QED
  BY <1>7, <1>8

(* The bytes in use are those of the replies that were read and not        *)
(* consumed and of the reply that is being read: an answer never starts    *)
(* with what is left of the reply before it (read_until_pred, read_model). *)
THEOREM BufferHoldsPending == ReaderSpec => []BufferIsPending
<1>1. ReaderInit => PInv
  <2> SUFFICES ASSUME ReaderInit PROVE PInv
    OBVIOUS
  <2>1. buf = <<>> /\ part = 0 /\ pos = 0
    BY DEF ReaderInit, Init, BufferInit
  <2>2. <<>> \in Seq(Reply) /\ Len(<<>>) = 0
    OBVIOUS
  <2>3. PICK f : SumsUp(f, <<>>) /\ Bytes(<<>>) = f[Len(<<>>)]
    BY <2>2, BytesAreSummed
  <2>4. Bytes(buf) = 0
    BY <2>1, <2>2, <2>3 DEF SumsUp
  <2> QED
    BY <2>1, <2>4 DEF PInv, BufferIsPending
<1>2. WInv /\ PInv /\ [ReaderNext]_readerVars => PInv'
  <2> SUFFICES ASSUME WInv, PInv, [ReaderNext]_readerVars PROVE PInv'
    OBVIOUS
  <2>1. CASE \E k \in 1..MaxPending : ReadChunk(k)
    BY <2>1, ChunkKeepsPending
  <2>2. CASE ReadNothing
    <3>1. pos' = pos + 0 /\ UNCHANGED <<pc, buf, part>>
      BY <2>2 DEF ReadNothing, Read, vars, caller
    <3> QED
      BY <3>1 DEF PInv, BufferIsPending
  <2>3. CASE Elsewhere /\ (WriteEntry \/ WriteFails \/ DrainOutput \/ Forwarder \/ Solver)
    <3>1. buf' = buf /\ pos' = pos /\ part' = part /\ (pc' # "done" => pc # "done")
      BY <2>3 DEF Elsewhere, bufferVars, WriteEntry, WriteFails, DrainOutput, ReturnWith, Forwarder, Greet, TakeAndLog, Forward,
                  StopForwarding, Solver, SolverStep, SolverEnds, caller
    <3> QED
      BY <3>1 DEF PInv, BufferIsPending
  <2>4. CASE UNCHANGED readerVars
    BY <2>4 DEF readerVars, vars, caller, bufferVars, PInv, BufferIsPending
  <2>5. ASSUME NEW k \in 1..MaxPending, ReadGarbled(k) PROVE PInv'
    <3>1. k \in Nat /\ pos' = pos + k /\ pc' = "done" /\ UNCHANGED part
      BY <2>5, BufferAssumption DEF ReadGarbled, ReturnWith, Read
    <3> QED
      BY <3>1 DEF PInv, BufferIsPending
  <2> QED
    BY <2>1, <2>2, <2>3, <2>4, <2>5 DEF ReaderNext, ReaderCaller
<1> QED
  BY <1>1, <1>2, WireInvariant, PTL DEF ReaderSpec, PInv
=============================================================================
