----------------------------- MODULE McuConsole -----------------------------
(***************************************************************************)
(* The micro-controller's end of the serial protocol: command.c and the    *)
(* console of generic/canserial.c.  The receive interrupt fills            *)
(* receive_buf while the console task takes one block at a time from it.   *)
(***************************************************************************)
EXTENDS MsgBlock

VARIABLES
  next_sequence,  \* the sequence number expected next, modulo SeqMod
  need_valid,     \* sync_state & CF_NEED_VALID: corruption was nak'ed
  receive_buf,    \* blocks received and not yet removed
  dispatching,    \* the block whose commands are running, 0 when none is
  delivered,      \* history: the blocks dispatched, in order
  base            \* history: the first block this session can deliver

mcuVars == <<next_sequence, need_valid, receive_buf, dispatching, delivered,
             base>>

\* Every block before this one is dispatched (or precedes the session).
NextId == base + Len(delivered)

McuTypeOK ==
  /\ next_sequence \in 0..(SeqMod - 1)
  /\ need_valid \in BOOLEAN
  /\ receive_buf \in Seq(Block)
  /\ dispatching \in Nat
  /\ delivered \in Seq(Nat)
  /\ base \in 1..SeqMod

(***************************************************************************)
(* A session starts with whatever next_sequence an earlier session left:   *)
(* nothing resets it but a restart of the micro-controller.  base is the   *)
(* first 64 bit sequence number that it can stand for.                     *)
(***************************************************************************)
McuInit ==
  /\ base \in 1..SeqMod
  /\ next_sequence = base % SeqMod
  /\ need_valid \in BOOLEAN
  /\ receive_buf = <<>> /\ delivered = <<>>
  /\ dispatching = 0

\* console_sendf: a frame that does not fit into transmit_buf is dropped.
console_sendf(ack, seq, done) ==
  LET f == [seq |-> seq, ack |-> ack, done |-> done,
            src |-> IF ack THEN 0 ELSE dispatching]
  IN  m2h' = IF Len(m2h) < TransmitCap THEN Append(m2h, f) ELSE m2h

\* canserial_process_data: CAN frames that find no room are dropped, so of
\* a block that does not fit only some unusable bytes may remain.
canserial_process_data ==
  /\ h2m # <<>>
  /\ h2m' = Tail(h2m)
  /\ LET room == RcvWindow - Bytes(receive_buf) IN
     \/ /\ Head(h2m).len <= room
        /\ receive_buf' = Append(receive_buf, Head(h2m))
     \/ /\ Head(h2m).len > room
        /\ \/ receive_buf' = receive_buf
           \/ \E part \in 1..Head(h2m).len :
                /\ part <= room
                /\ receive_buf' = Append(receive_buf, Bad(part))
  /\ UNCHANGED <<next_sequence, need_valid, dispatching, delivered, base, m2h>>

(***************************************************************************)
(* command_find_block, bytes that are no block: nak once, then skip to the *)
(* next MESSAGE_SYNC.  The damage may include the sync byte that ends the  *)
(* block, and then the block behind it is skipped as well, unless it has a *)
(* sync byte in front.                                                     *)
(***************************************************************************)
find_garbage ==
  /\ dispatching = 0 /\ receive_buf # <<>> /\ ~Head(receive_buf).ok
  /\ \E skip \in 1..2 :
       /\ skip <= Len(receive_buf)
       /\ skip = 2 => ~receive_buf[2].sync
       /\ receive_buf' = SubSeq(receive_buf, skip + 1, Len(receive_buf))
  /\ need_valid' = TRUE
  /\ IF need_valid THEN m2h' = m2h
     ELSE console_sendf(TRUE, next_sequence, NextId)
  /\ UNCHANGED <<next_sequence, dispatching, delivered, base, h2m>>

\* command_find_block, a block other than the one expected: nak.
find_unexpected ==
  /\ dispatching = 0 /\ receive_buf # <<>> /\ Head(receive_buf).ok
  /\ Head(receive_buf).seq # next_sequence
  /\ receive_buf' = Tail(receive_buf)
  /\ need_valid' = FALSE
  /\ console_sendf(TRUE, next_sequence, NextId)
  /\ UNCHANGED <<next_sequence, dispatching, delivered, base, h2m>>

\* Mistakes in command_dispatch, for mutation runs: the counter is not
\* masked, or a block is accepted whatever its sequence number.
command_dispatch_unmasked ==
  /\ dispatching = 0 /\ receive_buf # <<>> /\ Head(receive_buf).ok
  /\ Head(receive_buf).seq = next_sequence
  /\ next_sequence' = next_sequence + 1
  /\ need_valid' = FALSE
  /\ dispatching' = Head(receive_buf).id
  /\ delivered' = Append(delivered, Head(receive_buf).id)
  /\ UNCHANGED <<receive_buf, base, wireVars>>
command_dispatch_any_seq ==
  /\ dispatching = 0 /\ receive_buf # <<>> /\ Head(receive_buf).ok
  /\ next_sequence' = (Head(receive_buf).seq + 1) % SeqMod
  /\ need_valid' = FALSE
  /\ dispatching' = Head(receive_buf).id
  /\ delivered' = Append(delivered, Head(receive_buf).id)
  /\ UNCHANGED <<receive_buf, base, wireVars>>

\* command_find_block, the expected block: command_dispatch begins.
command_dispatch ==
  /\ dispatching = 0 /\ receive_buf # <<>> /\ Head(receive_buf).ok
  /\ Head(receive_buf).seq = next_sequence
  /\ next_sequence' = (next_sequence + 1) % SeqMod
  /\ need_valid' = FALSE
  /\ dispatching' = Head(receive_buf).id
  /\ delivered' = Append(delivered, Head(receive_buf).id)
  /\ UNCHANGED <<receive_buf, base, wireVars>>

\* sendf: a command handler, a task or an interrupt sends a response.
sendf ==
  /\ console_sendf(FALSE, next_sequence, NextId)
  /\ UNCHANGED <<mcuVars, h2m>>

\* The console task removes the block and acknowledges it.
command_send_ack ==
  /\ dispatching # 0
  /\ receive_buf' = Tail(receive_buf)
  /\ dispatching' = 0
  /\ console_sendf(TRUE, next_sequence, NextId)
  /\ UNCHANGED <<next_sequence, need_valid, delivered, base, h2m>>

\* shutdown() in a command handler leaves command_dispatch by longjmp: the
\* block stays in receive_buf and no acknowledgement is sent.
dispatch_shutdown ==
  /\ dispatching # 0
  /\ dispatching' = 0
  /\ UNCHANGED <<next_sequence, need_valid, receive_buf, delivered, base,
                 wireVars>>
=============================================================================
