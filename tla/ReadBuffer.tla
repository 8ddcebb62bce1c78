----------------------------- MODULE ReadBuffer -----------------------------
(***************************************************************************)
(* The buffer in which Communicator (src/util/process.rs) collects the     *)
(* solver's output.  Before each read it is enlarged if little room is     *)
(* left; a read fills at most the room there is; when a reply is complete  *)
(* its bytes are removed and the rest moves to the front.                  *)
(***************************************************************************)
EXTENDS Integers

CONSTANTS
  InitialSize,   (* 1 << 10 in the source                                  *)
  MaxPending     (* the longest run of bytes without a complete reply      *)

(* The code grows the buffer when less than a tenth of it is free, so it   *)
(* must be at least ten bytes long for a tenth to be a byte.               *)
ASSUME BufferAssumption ==
  /\ InitialSize \in Nat /\ InitialSize >= 10
  /\ MaxPending \in Nat

VARIABLES
  len,    (* buf.len()                                                     *)
  pos,    (* bytes of it in use                                            *)
  room    (* the room the last read had                                    *)

bufferVars == <<len, pos, room>>

BufferTypeOK == len \in Nat /\ pos \in Nat /\ room \in Int

BufferInit ==
  /\ len = InitialSize
  /\ pos = 0
  /\ room = InitialSize

(* Faulty variant: the buffer is only enlarged when it has been overrun. *)
MaybeResizeLate(l) == IF l - pos < 0 THEN l * 2 ELSE l

MaybeResize(l) == IF l - pos < l \div 10 THEN l * 2 ELSE l

(* One turn of a read loop: no complete reply yet. *)
Read(n) ==
  /\ len' = MaybeResize(len)
  /\ n <= len' - pos
  /\ pos + n <= MaxPending
  /\ pos' = pos + n
  /\ room' = len' - pos

(* Faulty variant: the position also counts what was removed.              *)
ReadReplyKeepingPos(n, rest) ==
  /\ len' = MaybeResize(len)
  /\ n <= len' - pos /\ pos + n <= MaxPending /\ rest <= pos + n
  /\ pos' = pos + n + rest
  /\ room' = len' - pos

(* The same, and a reply is complete: rest bytes after it are left. *)
ReadReply(n, rest) ==
  /\ len' = MaybeResize(len)
  /\ n <= len' - pos
  /\ pos + n <= MaxPending
  /\ rest \in 0..(pos + n)
  /\ pos' = rest
  /\ room' = len' - pos

BufferNext ==
  \E n \in 0..MaxPending : Read(n) \/ \E rest \in 0..MaxPending : ReadReply(n, rest)

BufferSpec == BufferInit /\ [][BufferNext]_bufferVars

-----------------------------------------------------------------------------
(* What is in the buffer is within it: the slices the read loops take of   *)
(* it never panic.                                                         *)
WithinBuffer == pos <= len

(* A read always has room.  A read into an empty slice would return        *)
(* nothing and the loop around it would spin for ever on a solver that has *)
(* more to say.                                                            *)
AlwaysRoom == room > 0
=============================================================================
