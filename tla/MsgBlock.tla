------------------------------ MODULE MsgBlock ------------------------------
(***************************************************************************)
(* The message blocks that host and micro-controller exchange, and the two *)
(* directions of the wire between them (a CAN bus on this printer).        *)
(*                                                                         *)
(* A block carries only a sequence number modulo SeqMod, its length and    *)
(* some payload.  The payload is abstracted to `id', the host's 64 bit     *)
(* send_seq at the time the block was built: code never looks at it, the   *)
(* properties do.  A block that the CRC check rejects is a block with      *)
(* ok = FALSE.  `sync' marks a block that a MESSAGE_SYNC byte precedes.    *)
(***************************************************************************)
EXTENDS Integers, Sequences

CONSTANTS
  SeqMod,      \* MESSAGE_SEQ_MASK + 1 (16): sequence numbers on the wire
  MaxPending,  \* MAX_PENDING_BLOCKS (12): unacknowledged blocks of the host
  MsgMax,      \* MESSAGE_MAX (64): longest block
  ProbeMax,    \* longest block that asks for identification (under 12)
  Lens,        \* the block lengths that are explored
  RcvWindow,   \* RECEIVE_WINDOW: size of the micro-controller's receive_buf
  TxQueueLen,  \* blocks the kernel's CAN transmit queue holds
  TransmitCap  \* frames the micro-controller's transmit_buf holds

ASSUME SeqAssumption  == SeqMod \in Nat /\ MaxPending \in Nat
                         /\ 0 < MaxPending /\ MaxPending < SeqMod
ASSUME SizeAssumption == /\ MsgMax \in Nat /\ Lens \subseteq 1..MsgMax
                         /\ ProbeMax \in Nat /\ RcvWindow \in Nat
                         /\ 2 * MsgMax <= RcvWindow
                         /\ (MaxPending + 1) * ProbeMax <= RcvWindow
ASSUME WireAssumption == TxQueueLen \in Nat /\ TransmitCap \in Nat

VARIABLES
  h2m,   \* blocks under way to the micro-controller, oldest first
  m2h    \* frames under way to the host, oldest first

wireVars == <<h2m, m2h>>

Block == [ok : BOOLEAN, sync : BOOLEAN, id : Nat, seq : 0..(SeqMod - 1),
          len : Nat]

\* What is left of a block of which l bytes arrive in no usable form.
Bad(l) == [ok |-> FALSE, sync |-> FALSE, id |-> 0, seq |-> 0, len |-> l]

(***************************************************************************)
(* A frame to the host: the micro-controller's next_sequence, and whether  *)
(* it is an empty ack/nak or carries a response.  `done' and `src' are not *)
(* on the wire: how far the micro-controller had got, and the block whose  *)
(* commands produced the response (0 when a timer or a task did).          *)
(***************************************************************************)
Frame == [seq : 0..(SeqMod - 1), ack : BOOLEAN, done : Nat, src : Nat]

\* The number of bytes that a sequence of blocks occupies.
Bytes(q) ==
  LET upto[i \in 0..Len(q)] == IF i = 0 THEN 0 ELSE upto[i - 1] + q[i].len
  IN  upto[Len(q)]
=============================================================================
