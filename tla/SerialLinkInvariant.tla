------------------------ MODULE SerialLinkInvariant ------------------------
(***************************************************************************)
(* The inductive invariant of SerialLink.  The host is Synced when its     *)
(* receive_seq belongs to the numbering that the micro-controller uses.    *)
(***************************************************************************)
EXTENDS SerialLink

Synced == base <= receive_seq

\* Where the host and the micro-controller stand relative to each other.
\* Before the first frame the host has built at most the first request for
\* identification, and waits for it.
PositionsInv ==
  /\ Synced => receive_seq <= NextId /\ NextId <= send_seq
  /\ ~Synced => /\ receive_seq = 1 /\ NextId = base
                /\ dispatching = 0
                /\ identify = "asked"
                /\ send_seq <= 2
                /\ send_seq = 2 => notify_queue # <<>>

\* The micro-controller's modular counter tracks the number of dispatches.
CounterInv ==
  /\ next_sequence = NextId % SeqMod
  /\ \A i \in 1..Len(delivered) : delivered[i] = base + i - 1
  /\ dispatching # 0 => receive_buf # <<>>

\* A block on its way to the console, when the host is about to build block
\* `limit' and the micro-controller to dispatch block `next': its number is
\* near enough to `next' to be recovered from seq.
BlockOK(b, limit, next) ==
  b.ok => /\ b.seq = b.id % SeqMod
          /\ 1 <= b.id /\ b.id < limit
          /\ next < b.id + SeqMod
PipeInv ==
  /\ \A i \in 1..Len(receive_buf) : BlockOK(receive_buf[i], send_seq, NextId)
  /\ \A i \in 1..Len(h2m) : BlockOK(h2m[i], send_seq, NextId)

\* No block is much older than a block in front of it.
Near(b, c) == b.ok /\ c.ok => b.id < c.id + MaxPending
OrderInv ==
  /\ \A i, j \in 1..Len(receive_buf) :
       i < j => Near(receive_buf[i], receive_buf[j])
  /\ \A i, j \in 1..Len(h2m) : i < j => Near(h2m[i], h2m[j])
  /\ \A i \in 1..Len(receive_buf), j \in 1..Len(h2m) :
       Near(receive_buf[i], h2m[j])

\* Frames report the micro-controller's progress in order, never less than
\* the host already knows.
FrameInv ==
  /\ \A i \in 1..Len(m2h) :
       /\ m2h[i].seq = m2h[i].done % SeqMod
       /\ base <= m2h[i].done /\ m2h[i].done <= NextId
       /\ Synced => receive_seq <= m2h[i].done
       /\ ~Synced => m2h[i].src = 0
  /\ \A i, j \in 1..Len(m2h) : i < j => m2h[i].done <= m2h[j].done

IInv ==
  /\ TypeOK
  /\ SentQueueComplete
  /\ PositionsInv
  /\ CounterInv
  /\ PipeInv
  /\ OrderInv
  /\ FrameInv
\* The responses of the block that is dispatched leave before its
\* acknowledgement: a frame that carries one of them reports that the block
\* is dispatched, and no acknowledgement of the block is ahead of it.
\* ResponsesInv adds this to IInv for the wakeups of handle_message.
ResponsesInv ==
  /\ dispatching # 0 => NextId = dispatching + 1
  /\ \A i \in 1..Len(m2h) :
       /\ m2h[i].src # 0 => ~m2h[i].ack /\ m2h[i].done = m2h[i].src + 1
       /\ dispatching # 0 /\ m2h[i].ack => m2h[i].done <= dispatching
  /\ \A i, j \in 1..Len(m2h) :
       i < j /\ m2h[i].ack /\ m2h[j].src # 0 => m2h[i].done <= m2h[j].src
  /\ identify # "asked" => receive_seq > 1

-----------------------------------------------------------------------------
(* The receive window *)

\* The blocks under way, oldest first, or what is left of them.
Pipe == receive_buf \o h2m

\* While nothing is sent twice every block under way has a number of its
\* own: the one it carries, or base - 1 for the request that the host sends
\* before it knows the micro-controller's numbers.  Limit is the number of
\* the next block, LenOf(x) the length of the block that had number x.
Limit == IF Synced THEN send_seq ELSE base
LenOf(x) == IF x < receive_seq THEN last_ack_bytes
            ELSE sent_queue[x - receive_seq + 1].len

\* What the host and the frames on their way to it know of block b when its
\* number is x: no acknowledgement that removed it from receive_buf.
NumberOK(b, x) ==
  /\ last_ack_seq <= x
  /\ b.ok /\ base <= b.id => x = b.id
  /\ \A i \in 1..Len(m2h) : m2h[i].ack => m2h[i].done <= x
  /\ x < base \/ b.len <= LenOf(x)
Numbers(n) ==
  /\ \A i, j \in 1..Len(Pipe) : i < j => n[i] < n[j]
  /\ \A i \in 1..Len(Pipe) : NumberOK(Pipe[i], n[i])
NumbersInv ==
  \E n \in [1..Len(Pipe) -> (NextId - 1)..(Limit - 1)] : Numbers(n)

\* Until the session is set up there are only short blocks; when the host has
\* been answered it knows where the micro-controller is.
SessionInv ==
  /\ identify # "done" => \A i \in 1..Len(Pipe) : Pipe[i].len <= ProbeMax
  /\ identify # "asked" => base < receive_seq
  /\ dispatching # 0 => base <= dispatching
  /\ \A i \in 1..Len(m2h) : m2h[i].src # 0 => base <= m2h[i].src
  /\ ~Synced /\ send_seq = 1 =>
       Pipe = <<>> /\ \A i \in 1..Len(m2h) : ~m2h[i].ack
  /\ last_ack_seq <= receive_seq
  /\ \A i \in 1..Len(sent_queue) : sent_queue[i].len <= MsgMax
  /\ last_ack_bytes <= MsgMax

\* Together with IInv and ResponsesInv this is inductive: the window holds
\* until the host first sends something again.
WindowInv ==
  retransmit_seq = 0 =>
    /\ NumbersInv
    /\ SessionInv
    /\ Bytes(Pipe) <= RcvWindow
=============================================================================
