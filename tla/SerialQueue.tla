---------------------------- MODULE SerialQueue ----------------------------
(***************************************************************************)
(* The host's end of the serial protocol: klippy/chelper/serialqueue.c.    *)
(* Its background thread runs one callback at a time (command_event,       *)
(* retransmit_event, input_event), so each is one action.  Times are       *)
(* abstracted: a timer is "never", "now" or "armed" (some time in the      *)
(* future, and it may fire at any moment, which covers every value of rto).*)
(***************************************************************************)
EXTENDS MsgBlock

CONSTANT MaxSeq       \* bound: no block is built once send_seq exceeds it
ASSUME MaxSeqAssumption == MaxSeq \in Nat

VARIABLES
  send_seq, receive_seq,          \* next block to build, oldest not acked
  sent_queue,                     \* built and not acknowledged
  ignore_nak_seq, last_ack_seq, retransmit_seq,
  last_ack_bytes,
  retransmit_timer,               \* timer SQPT_RETRANSMIT
  notify_queue,                   \* blocks whose sender waits for an ack
  identify,                       \* serialhdl: progress of _start_session
  last_write_fail_time,           \* TRUE: the last CAN write failed
  must_exit                       \* the background thread was told to stop

hostVars == <<send_seq, receive_seq, sent_queue, ignore_nak_seq,
              last_ack_seq, retransmit_seq, last_ack_bytes,
              retransmit_timer, notify_queue, identify,
              last_write_fail_time, must_exit>>

HostTypeOK ==
  /\ send_seq \in Nat \ {0} /\ receive_seq \in Nat \ {0}
  /\ sent_queue \in Seq(Block)
  /\ ignore_nak_seq \in Nat /\ last_ack_seq \in Nat /\ retransmit_seq \in Nat
  /\ last_ack_bytes \in Nat
  /\ retransmit_timer \in {"never", "armed", "now"}
  /\ notify_queue \in Seq(Nat \ {0})
  /\ identify \in {"asked", "answered", "done"}
  /\ last_write_fail_time \in BOOLEAN /\ must_exit \in BOOLEAN

\* serialqueue_alloc
HostInit ==
  /\ send_seq = 1 /\ receive_seq = 1
  /\ sent_queue = <<>> /\ notify_queue = <<>>
  /\ ignore_nak_seq = 0 /\ last_ack_seq = 0 /\ retransmit_seq = 0
  /\ last_ack_bytes = 0
  /\ retransmit_timer = "never"
  /\ identify = "asked"
  /\ last_write_fail_time = FALSE /\ must_exit = FALSE

-----------------------------------------------------------------------------
(***************************************************************************)
(* do_write: the blocks go out in order until the transmit queue is full.  *)
(* The rest is dropped, although part of the first block dropped may have  *)
(* gone out, and the failure is remembered.  A failure that follows        *)
(* another one, with no successful write in between, stops the background  *)
(* thread when it comes more than ten seconds later.                       *)
(***************************************************************************)
do_write(blocks) ==
  LET room    == TxQueueLen - Len(h2m)
      written == IF Len(blocks) <= room THEN Len(blocks)
                 ELSE IF room > 0 THEN room ELSE 0
      failed  == written < Len(blocks)
      out     == h2m \o SubSeq(blocks, 1, written)
  IN  /\ last_write_fail_time' = failed
      /\ \/ h2m' = out /\ must_exit' = must_exit
         \/ /\ failed /\ room >= 0
            /\ h2m' = Append(out, Bad(blocks[written + 1].len))
            /\ must_exit' = must_exit
         \/ /\ failed /\ written = 0 /\ last_write_fail_time
            /\ h2m' = out /\ must_exit' = TRUE

\* need_ack_bytes, which the code keeps in step with sent_queue.
need_ack_bytes == Bytes(sent_queue)

\* Plausible mistakes in check_send_command, for mutation runs: one block
\* too many, and the window without the block acknowledged last.
check_send_command_one_more ==
  send_seq - receive_seq <= MaxPending
check_send_command_no_ack_bytes ==
  /\ send_seq - receive_seq < MaxPending
  /\ identify = "done" /\ send_seq > receive_seq =>
       need_ack_bytes + MsgMax <= RcvWindow

(***************************************************************************)
(* check_send_command: whether one more block may go out.  The receive     *)
(* window is known (and checked) once identification is complete.          *)
(***************************************************************************)
check_send_command ==
  /\ send_seq - receive_seq < MaxPending
  /\ identify = "done" /\ send_seq > receive_seq =>
       need_ack_bytes + MsgMax
         + (IF last_ack_seq < receive_seq THEN last_ack_bytes ELSE 0)
           <= RcvWindow

(***************************************************************************)
(* Until the micro-controller has identified itself the host only asks it  *)
(* to, with short blocks, and waits for the acknowledgement of each before *)
(* the next (_get_identify_data, SerialRetryCommand, raw_send_wait_ack).   *)
(***************************************************************************)
IdentifyDiscipline(len, notify) ==
  identify # "done" => /\ notify_queue = <<>>
                       /\ notify
                       /\ len <= ProbeMax

\* _start_session: all identify data is there, so is the receive window.
start_session ==
  /\ identify = "answered" /\ notify_queue = <<>>
  /\ identify' = "done"
  /\ UNCHANGED <<send_seq, receive_seq, sent_queue, ignore_nak_seq,
                 last_ack_seq, retransmit_seq, last_ack_bytes,
                 retransmit_timer, notify_queue, last_write_fail_time,
                 must_exit, wireVars>>

\* build_and_send_command and the write that follows it in command_event
command_event(len, notify) ==
  LET b == [ok |-> TRUE, sync |-> FALSE, id |-> send_seq,
            seq |-> send_seq % SeqMod, len |-> len]
  IN  /\ ~must_exit
      /\ send_seq <= MaxSeq
      /\ check_send_command
      /\ IdentifyDiscipline(len, notify)
      /\ notify_queue' = IF notify THEN Append(notify_queue, send_seq)
                         ELSE notify_queue
      /\ retransmit_timer' = IF sent_queue = <<>> THEN "armed"
                             ELSE retransmit_timer
      /\ send_seq' = send_seq + 1
      /\ sent_queue' = Append(sent_queue, b)
      /\ do_write(<<b>>)
      /\ UNCHANGED <<receive_seq, ignore_nak_seq, last_ack_seq,
                     retransmit_seq, last_ack_bytes, identify, m2h>>

(***************************************************************************)
(* retransmit_event: everything unacknowledged goes out again, behind a    *)
(* MESSAGE_SYNC.  Which naks are still obeyed afterwards depends on what   *)
(* caused the retransmission.                                              *)
(***************************************************************************)
resend ==
  [i \in 1..Len(sent_queue) |-> [sent_queue[i] EXCEPT !.sync = (i = 1)]]

retransmit_event ==
  /\ ~must_exit
  /\ retransmit_timer # "never"
  /\ do_write(resend)
  /\ ignore_nak_seq' =
       IF retransmit_timer = "armed" THEN send_seq
       ELSE IF receive_seq < retransmit_seq THEN retransmit_seq
            ELSE receive_seq
  /\ retransmit_seq' = send_seq
  /\ retransmit_timer' = "armed"
  /\ UNCHANGED <<send_seq, receive_seq, sent_queue, last_ack_seq,
                 last_ack_bytes, notify_queue, identify, m2h>>

-----------------------------------------------------------------------------
\* A mistake in Rseq: an unchanged sequence number counts as a full round.
Rseq_full_round(f) == receive_seq + 1 + ((f.seq - receive_seq - 1) % SeqMod)

\* The 64 bit sequence number that a frame stands for.
Rseq(f) == receive_seq + ((f.seq - receive_seq) % SeqMod)

(***************************************************************************)
(* update_receive_seq: drop what is acknowledged from the sent_queue.      *)
(* When the queue runs out first the micro-controller is further than this *)
(* session can explain ("must be connection init") and the host follows.   *)
(***************************************************************************)
update_receive_seq(rseq) ==
  LET acked == rseq - receive_seq IN
  /\ receive_seq' = rseq
  /\ \/ /\ acked <= Len(sent_queue)
        /\ sent_queue' = SubSeq(sent_queue, acked + 1, Len(sent_queue))
        /\ last_ack_bytes' = sent_queue[acked].len
        /\ send_seq' = send_seq
     \/ /\ acked > Len(sent_queue)
        /\ sent_queue' = <<>>
        /\ last_ack_bytes' = last_ack_bytes
        /\ send_seq' = rseq

\* A mistake in Wakes: a response wakes the sender of its own block.
Wakes_early(n, rseq, f) == n <= rseq - 1

\* Whether block n's sender is woken by a frame.  The code computes
\* rseq - 1 - (1 if the frame carries data) in 64 unsigned bits: for the
\* first data frame of a connection (rseq = 1) that wraps around.
Wakes(n, rseq, f) ==
  LET wake_seq == rseq - 1 - (IF f.ack THEN 0 ELSE 1)
  IN  wake_seq < 0 \/ n <= wake_seq

\* Mistakes in the retransmit timer: it outlives the last block, or an
\* acknowledgement of some blocks stops it for the others.
RetransmitTimer_kept(rseq, f) ==
  IF rseq = receive_seq THEN retransmit_timer ELSE "armed"
RetransmitTimer_stopped(rseq, f) ==
  IF rseq = receive_seq THEN retransmit_timer ELSE "never"

\* Ack/nak processing after update_receive_seq has run.
RetransmitTimerAfter(rseq, f) ==
  IF f.ack /\ last_ack_seq >= rseq
     /\ rseq > ignore_nak_seq /\ sent_queue' # <<>>
  THEN "now"
  ELSE IF rseq = receive_seq THEN retransmit_timer
  ELSE IF sent_queue' = <<>> THEN "never" ELSE "armed"

\* input_event on a well formed block: handle_message
handle_message ==
  /\ ~must_exit
  /\ m2h # <<>>
  /\ m2h' = Tail(m2h)
  /\ LET f    == Head(m2h)
         rseq == Rseq(f)
     IN  \/ /\ rseq > send_seq /\ receive_seq # 1
            /\ UNCHANGED <<send_seq, receive_seq, sent_queue, last_ack_seq,
                           last_ack_bytes, retransmit_timer, notify_queue,
                           identify>>
         \/ /\ rseq <= send_seq \/ receive_seq = 1
            /\ IF rseq # receive_seq
               THEN update_receive_seq(rseq)
               ELSE UNCHANGED <<receive_seq, send_seq, sent_queue,
                                last_ack_bytes>>
            /\ \E k \in 0..Len(notify_queue) :
                 /\ \A i \in 1..k : Wakes(notify_queue[i], rseq, f)
                 /\ k < Len(notify_queue) =>
                      ~Wakes(notify_queue[k + 1], rseq, f)
                 /\ notify_queue' = SubSeq(notify_queue, k + 1,
                                           Len(notify_queue))
            /\ last_ack_seq' = IF f.ack /\ last_ack_seq < rseq THEN rseq
                               ELSE last_ack_seq
            /\ retransmit_timer' = RetransmitTimerAfter(rseq, f)
            /\ identify' = IF identify = "asked" /\ f.src # 0
                           THEN "answered" ELSE identify
  /\ UNCHANGED <<ignore_nak_seq, retransmit_seq, h2m,
                 last_write_fail_time, must_exit>>
=============================================================================
