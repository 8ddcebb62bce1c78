--------------------------- MODULE SolverChannel ---------------------------
(***************************************************************************)
(* One claim sent to one solver process: the calling thread                *)
(* (verify_with_solver, check_sat, get_model), the thread that forwards    *)
(* its text (Communicator::new_from_cmd) and the solver at the other end   *)
(* of two pipes.                                                           *)
(*                                                                         *)
(* The caller never writes to the solver itself.  It sends each entry over *)
(* an unbounded channel; the forwarding thread takes entries out of it,    *)
(* logs them in the transcript and writes them to the solver's stdin.  The *)
(* caller reads the solver's stdout in chunks of arbitrary size, appends   *)
(* them to a buffer and looks at the buffer after each chunk.              *)
(*                                                                         *)
(* Entries are numbered in the order the caller writes them: 1..Decls are  *)
(* the declarations and assertions, then (check-sat), then (get-model).    *)
(* The solver's output is a sequence of whole replies.  Module             *)
(* SolverReader says which chunks of it are read and completes the         *)
(* specification.                                                          *)
(***************************************************************************)
EXTENDS Integers, Sequences

CONSTANTS
  Decls,      (* number of entries before (check-sat)                      *)
  InCap,      (* entries the solver's stdin pipe holds                     *)
  OutCap,     (* replies the solver's stdout pipe holds                    *)
  MayCrash    (* whether the solver process may die on its own             *)

ASSUME CapAssumption ==
  /\ Decls \in Nat /\ InCap \in Nat \ {0} /\ OutCap \in Nat \ {0}
  /\ MayCrash \in BOOLEAN

CheckSat == Decls + 1
GetModel == Decls + 2
Entry == 1..GetModel

Answer == {"sat", "unsat", "unknown"}
Reply == Answer \cup {"error", "model"}

VARIABLES
  pc,        (* the caller: "write", "await_answer", "await_model", "done" *)
  next,      (* the next entry the caller writes                           *)
  verdict,   (* what verify_with_solver returned                           *)
  buf,       (* replies read and not consumed                              *)
  chan,      (* entries in the channel                                     *)
  open,      (* the sending half of the channel exists                     *)
  writer,    (* forwarding thread: "start", "idle", "holds", "failed", "ended" *)
  logged,    (* entries in the transcript                                  *)
  stdin,     (* entries in the solver's stdin pipe                         *)
  stdout,    (* replies in the solver's stdout pipe                        *)
  solver,    (* "running" or "dead"                                        *)
  taken,     (* entries the solver has processed                           *)
  bad,       (* the declarations the solver will not accept                *)
  answer     (* its answer to (check-sat)                                  *)

caller == <<pc, next, verdict, buf>>
forwarder == <<writer, logged>>
process == <<solver, taken, bad, answer>>
vars == <<caller, chan, open, forwarder, stdin, stdout, process>>

TypeOK ==
  /\ pc \in {"write", "await_answer", "await_model", "done"}
  /\ next \in 1..(GetModel + 1)
  /\ verdict \in {"none", "ok", "failed", "error"}
  /\ buf \in Seq(Reply)
  /\ chan \in Seq(Entry)
  /\ open \in BOOLEAN
  /\ writer \in {"start", "idle", "holds", "failed", "ended"}
  /\ logged \in 0..GetModel
  /\ stdin \in Seq(Entry) /\ Len(stdin) <= InCap
  /\ stdout \in Seq(Reply) /\ Len(stdout) <= OutCap
  /\ solver \in {"running", "dead"}
  /\ taken \in 0..GetModel
  /\ bad \subseteq 1..Decls
  /\ answer \in Answer \cup {"none"}

Init ==
  /\ pc = "write" /\ next = 1 /\ verdict = "none" /\ buf = <<>>
  /\ chan = <<>> /\ open = TRUE
  /\ writer = "start" /\ logged = 0
  /\ stdin = <<>> /\ stdout = <<>>
  /\ solver = "running" /\ taken = 0 /\ answer = "none"
  /\ bad \in SUBSET (1..Decls)

-----------------------------------------------------------------------------
(* The caller. *)

(* Returning drops the Communicator: its sender and the read end of stdout. *)
ReturnWith(v) ==
  /\ pc' = "done"
  /\ verdict' = v
  /\ open' = FALSE

(* Faulty variant: a channel with room for one entry. *)
WriteEntryBounded ==
  /\ pc \in {"write", "await_model"} /\ next <= GetModel
  /\ pc = "write" => next <= CheckSat
  /\ writer # "failed"
  /\ chan = <<>>
  /\ chan' = Append(chan, next)
  /\ next' = next + 1
  /\ pc' = IF next = CheckSat THEN "await_answer" ELSE pc
  /\ UNCHANGED <<verdict, buf, open, forwarder, stdin, stdout, process>>

(* write_str finds the forwarding thread alive and hands it the entry. *)
WriteEntry ==
  /\ pc \in {"write", "await_model"} /\ next <= GetModel
  /\ pc = "write" => next <= CheckSat
  /\ writer # "failed"
  /\ chan' = Append(chan, next)
  /\ next' = next + 1
  /\ pc' = IF next = CheckSat THEN "await_answer" ELSE pc
  /\ UNCHANGED <<verdict, buf, open, forwarder, stdin, stdout, process>>

(* Faulty variant: every failed write counts as a refuted claim. *)
WriteFailsAlike ==
  /\ pc \in {"write", "await_model"} /\ next <= GetModel
  /\ pc = "write" => next <= CheckSat
  /\ writer = "failed"
  /\ solver = "dead"
  /\ ReturnWith("failed")
  /\ stdout' = <<>>
  /\ UNCHANGED <<next, buf, chan, forwarder, stdin, process>>

(* write_str finds the thread finished with an error, or the channel       *)
(* without receiver: it joins the thread, drains stdout to its end and     *)
(* fails.  Before the answer this is an error; when asking for the model   *)
(* the failure is only recorded in the refuted claim.                      *)
WriteFails ==
  /\ pc \in {"write", "await_model"} /\ next <= GetModel
  /\ pc = "write" => next <= CheckSat
  /\ writer = "failed"
  /\ solver = "dead"
  /\ ReturnWith(IF pc = "write" THEN "error" ELSE "failed")
  /\ stdout' = <<>>
  /\ UNCHANGED <<next, buf, chan, forwarder, stdin, process>>

(* Until the solver has ended, what it still says is thrown away.           *)
DrainOutput ==
  /\ pc \in {"write", "await_model"} /\ next <= GetModel
  /\ writer = "failed"
  /\ stdout # <<>>
  /\ stdout' = <<>>
  /\ UNCHANGED <<caller, chan, open, forwarder, stdin, process>>

(* The text of an error and of a model ends with ")" and a line break. *)
EndsLikeError(data) == data[Len(data)] \in {"error", "model"}

(* Faulty variant: the error is only recognised by how the data ends. *)
ResponseAtEnd(data) ==
  LET last == data[Len(data)]
  IN  IF last \in Answer THEN last
      ELSE IF EndsLikeError(data) THEN "solver error" ELSE "more"

(* The predicate of check_sat on the data read so far. *)
Response(data) ==
  CASE data[1] \in Answer -> data[1]
    [] data[1] = "error" /\ EndsLikeError(data) -> "solver error"
    [] OTHER -> "more"

(* Faulty variant: what was read last is returned whatever it is. *)
ReadAnswerAfresh(n) ==
  /\ pc = "await_answer"
  /\ n \in 1..Len(stdout)
  /\ stdout' = SubSeq(stdout, n + 1, Len(stdout))
  /\ buf' = <<>>
  /\ ReturnWith(Response(SubSeq(stdout, 1, n)))
  /\ UNCHANGED <<next, chan, forwarder, stdin, process>>

(* read_until_pred in check_sat: one read of a chunk of any size, then the *)
(* predicate.  A read at the end of file returns nothing and the loop goes *)
(* round, which changes nothing.                                           *)
ReadAnswer(n) ==
  /\ pc = "await_answer"
  /\ n \in 1..Len(stdout)
  /\ stdout' = SubSeq(stdout, n + 1, Len(stdout))
  /\ LET data == buf \o SubSeq(stdout, 1, n)
         resp == Response(data)
     IN  \/ /\ resp = "unsat"
            /\ ReturnWith("ok")
            /\ buf' = Tail(data)
         \/ /\ resp \in {"sat", "unknown"}
            /\ pc' = "await_model"
            /\ buf' = Tail(data)
            /\ UNCHANGED <<verdict, open>>
         \/ /\ resp = "solver error"
            /\ ReturnWith("error")
            /\ buf' = <<>>
         \/ /\ resp = "more"
            /\ buf' = data
            /\ UNCHANGED <<pc, verdict, open>>
  /\ UNCHANGED <<next, chan, forwarder, stdin, process>>

(* read_model: the loop ends when the data starts with a model. *)
ReadModel(n) ==
  /\ pc = "await_model" /\ next > GetModel
  /\ n \in 1..Len(stdout)
  /\ stdout' = SubSeq(stdout, n + 1, Len(stdout))
  /\ LET data == buf \o SubSeq(stdout, 1, n)
     IN  IF data[1] = "model"
         THEN ReturnWith("failed") /\ buf' = Tail(data)
         ELSE buf' = data /\ UNCHANGED <<pc, verdict, open>>
  /\ UNCHANGED <<next, chan, forwarder, stdin, process>>

-----------------------------------------------------------------------------
(* The forwarding thread. *)

(* A write to the solver or to the transcript fails: the thread ends, and  *)
(* what waits in the channel is lost with its receiver.                    *)
ForwardingFails == writer' = "failed" /\ chan' = <<>>

(* It first writes an empty line to both. *)
Greet ==
  /\ writer = "start"
  /\ \/ solver = "running" /\ writer' = "idle" /\ UNCHANGED chan
     \/ ForwardingFails
  /\ UNCHANGED <<caller, open, logged, stdin, stdout, process>>

(* Faulty variant: the transcript is only written when more is waiting. *)
TakeAndLogLate ==
  /\ writer = "idle" /\ chan # <<>>
  /\ writer' = "holds"
  /\ logged' = IF Len(chan) > 1 THEN logged + 1 ELSE logged
  /\ UNCHANGED <<caller, chan, open, stdin, stdout, process>>

TakeAndLog ==
  /\ writer = "idle" /\ chan # <<>>
  /\ \/ writer' = "holds" /\ logged' = logged + 1 /\ UNCHANGED chan
     \/ ForwardingFails /\ UNCHANGED logged
  /\ UNCHANGED <<caller, open, stdin, stdout, process>>

(* Faulty variant: the latest entry is forwarded first. *)
ForwardLatest ==
  /\ writer = "holds"
  /\ solver = "running" /\ Len(stdin) < InCap
  /\ stdin' = Append(stdin, chan[Len(chan)])
  /\ chan' = SubSeq(chan, 1, Len(chan) - 1)
  /\ writer' = "idle"
  /\ UNCHANGED <<caller, open, logged, stdout, process>>

Forward ==
  /\ writer = "holds"
  /\ \/ /\ solver = "running" /\ Len(stdin) < InCap
        /\ stdin' = Append(stdin, Head(chan))
        /\ chan' = Tail(chan)
        /\ writer' = "idle"
     \/ /\ solver = "dead"
        /\ ForwardingFails
        /\ UNCHANGED stdin
  /\ UNCHANGED <<caller, open, logged, stdout, process>>

(* The channel is empty and its sender gone: the loop over it ends. *)
StopForwarding ==
  /\ writer = "idle" /\ chan = <<>> /\ ~open
  /\ writer' = "ended"
  /\ UNCHANGED <<caller, chan, open, logged, stdin, stdout, process>>

-----------------------------------------------------------------------------
(* The solver (external).  It handles its input in order, reports an error *)
(* about an entry it cannot accept and goes on, as z3 does, and answers    *)
(* (check-sat) and (get-model).                                            *)

SolverReplies(r) ==
  /\ pc # "done" /\ Len(stdout) < OutCap
  /\ stdout' = Append(stdout, r)

SolverStep ==
  /\ solver = "running" /\ stdin # <<>>
  /\ LET e == Head(stdin)
     IN  \/ e \in 1..Decls \ bad /\ UNCHANGED <<stdout, answer>>
         \/ e \in bad /\ SolverReplies("error") /\ UNCHANGED answer
         \/ /\ e = CheckSat
            /\ answer' \in Answer
            /\ SolverReplies(answer')
         \/ /\ e = GetModel
            /\ \E r \in {"model", "error"} : SolverReplies(r)
            /\ UNCHANGED answer
  /\ stdin' = Tail(stdin)
  /\ taken' = taken + 1
  /\ UNCHANGED <<caller, chan, open, forwarder, solver, bad>>

(* It ends on its own, at the end of its input, or when nobody reads it. *)
EndOfInput == stdin = <<>> /\ writer \in {"failed", "ended"}
SolverEnds ==
  /\ solver = "running"
  /\ MayCrash \/ EndOfInput \/ pc = "done"
  /\ solver' = "dead"
  /\ UNCHANGED <<caller, chan, open, forwarder, stdin, stdout, taken, bad, answer>>

-----------------------------------------------------------------------------
Forwarder == Greet \/ TakeAndLog \/ Forward \/ StopForwarding
Solver == SolverStep \/ SolverEnds

-----------------------------------------------------------------------------
(* A claim is only reported proved if the solver has worked through every  *)
(* entry, has complained about none of them and has answered unsat to this *)
(* very query; it is only reported refuted if the answer was another one.  *)
(* Chunks may join replies, so it matters where in the data they are       *)
(* looked for.                                                             *)
VerdictIsAnswer ==
  /\ verdict = "ok" => taken >= CheckSat /\ bad = {} /\ answer = "unsat"
  /\ verdict = "failed" => bad = {} /\ answer \in {"sat", "unknown"}

(* Nothing the caller writes is lost, repeated or reordered on its way:    *)
(* what the solver has processed, what is in its pipe and what waits in    *)
(* the channel is, in this order, what was written.                        *)
InOrder ==
  solver = "running" /\ writer # "failed" =>
    [i \in 1..taken |-> i] \o stdin \o chan = [i \in 1..(next - 1) |-> i]

(* The transcript never misses an entry the solver has received, so it can *)
(* be replayed to reproduce what the solver did.                           *)
TranscriptIsComplete == taken + Len(stdin) <= logged

(* The abstract promise, implemented. *)
Abstract == INSTANCE ClaimCheck
              WITH answer <- IF bad = {} THEN answer ELSE "none"

ImplementsClaimCheck == Abstract!Spec

(* The reasons for which a check can go on for ever: the solver has died,  *)
(* or an error and the answer after it arrived in one chunk, or the solver *)
(* answered (get-model) with an error.                                     *)
Abandoned ==
  \/ solver = "dead"
  \/ pc = "await_answer" /\ buf # <<>> /\ buf[1] = "error"
  \/ pc = "await_model" /\ buf # <<>> /\ buf[1] = "error"

(* Otherwise it ends.  In particular a solver that is blocked on a full    *)
(* stdout never blocks the caller from reaching its reads: the channel is  *)
(* unbounded and the forwarding thread does the blocking writes.           *)
Ends == <>(verdict # "none" \/ Abandoned)
=============================================================================
