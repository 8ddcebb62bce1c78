------------------------------ MODULE SolverReader ------------------------------
(***************************************************************************)
(* The caller of module SolverChannel reading into the buffer of module    *)
(* ReadBuffer: a read returns any number of bytes for which there is room, *)
(* so a chunk may end within a reply, and a reply may be longer than the   *)
(* buffer.  What was read is acted upon when a reply is complete.          *)
(***************************************************************************)
EXTENDS SolverChannel, ReadBuffer

CONSTANTS
  AnswerSize, ErrorSize, ModelSize   (* the bytes of a reply               *)

ASSUME SizeAssumption == {AnswerSize, ErrorSize, ModelSize} \subseteq Nat \ {0}

VARIABLE part   (* bytes read of the first reply that is in stdout         *)

readerVars == <<vars, bufferVars, part>>

ReaderInit == Init /\ BufferInit /\ part = 0

-----------------------------------------------------------------------------
Size(reply) ==
  CASE reply \in Answer  -> AnswerSize
    [] reply = "error"   -> ErrorSize
    [] reply = "model"   -> ModelSize
Bytes(replies) ==
  LET upto[n \in 0..Len(replies)] == IF n = 0 THEN 0 ELSE upto[n - 1] + Size(replies[n])
  IN  upto[Len(replies)]
First(n) == SubSeq(stdout, 1, n)

Reads == pc = "await_answer" \/ (pc = "await_model" /\ next > GetModel)

(* No complete reply, or the beginning of the next one hides how the data  *)
(* ends, which tells a complete error.                                     *)
Accumulate(n) ==
  /\ buf' = buf \o First(n)
  /\ stdout' = SubSeq(stdout, n + 1, Len(stdout))
  /\ UNCHANGED <<pc, next, verdict, chan, open, forwarder, stdin, process>>

(* A read of k bytes, which completes n replies and goes on for cut bytes  *)
(* of the next one.                                                        *)
ReadChunk(k) ==
  /\ Reads /\ k <= Bytes(stdout) - part
  /\ \E n \in 0..Len(stdout) :
       LET cut == part + k - Bytes(First(n))
           hidden == cut > 0 /\ (buf \o First(n))[1] = "error"
       IN  /\ cut >= 0
           /\ n < Len(stdout) => cut < Size(stdout[n + 1])
           /\ part' = cut
           /\ IF n = 0 \/ hidden THEN Accumulate(n) ELSE ReadAnswer(n) \/ ReadModel(n)
           /\ IF pc' = pc THEN Read(k) ELSE ReadReply(k, Bytes(buf') + cut)

(* A read that reaches into an error or a model and leaves data that is no *)
(* UTF-8: the solver wrote none, or the read ends within a character.      *)
(* That is an error, which is only recorded when it is the model's.        *)
ReadGarbled(k) ==
  /\ Reads /\ k <= Bytes(stdout) - part
  /\ \E n \in 1..Len(stdout) : stdout[n] \notin Answer /\ part + k > Bytes(First(n - 1))
  /\ ReturnWith(IF pc = "await_answer" THEN "error" ELSE "failed")
  /\ Read(k)
  /\ UNCHANGED <<next, buf, chan, forwarder, stdin, stdout, process, part>>

(* A read that returns nothing: at the end of the output, or because the   *)
(* buffer has no room for a byte.                                          *)
ReadNothing ==
  /\ Reads
  /\ Read(0)
  /\ (solver = "dead" /\ stdout = <<>>) \/ room' = 0
  /\ UNCHANGED <<vars, part>>

Elsewhere == UNCHANGED <<bufferVars, part>>

ReaderCaller ==
  \/ WriteEntry /\ Elsewhere
  \/ WriteFails /\ Elsewhere
  \/ DrainOutput /\ Elsewhere
  \/ \E k \in 1..MaxPending : ReadChunk(k) \/ ReadGarbled(k)
  \/ ReadNothing

ReaderNext ==
  \/ ReaderCaller
  \/ Forwarder /\ Elsewhere
  \/ Solver /\ Elsewhere

(* Threads are scheduled, and a running solver works through its input and *)
(* ends behind it; nothing says that it ever dies by itself.               *)
ReaderSpec ==
  /\ ReaderInit /\ [][ReaderNext]_readerVars
  /\ WF_readerVars(ReaderCaller)
  /\ WF_readerVars(Forwarder /\ Elsewhere)
  /\ WF_readerVars(SolverStep /\ Elsewhere)
  /\ WF_readerVars(EndOfInput /\ SolverEnds /\ Elsewhere)

-----------------------------------------------------------------------------
(* The bytes in use are those of the replies that were read and not        *)
(* consumed and of the reply that is being read: an answer never starts    *)
(* with what is left of the reply before it (read_until_pred, read_model). *)
BufferIsPending == pc # "done" => pos = Bytes(buf) + part
=============================================================================
