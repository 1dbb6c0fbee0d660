--------------------------- MODULE CommandQueues ---------------------------
(***************************************************************************)
(* The queues in front of the serial link: the command queues of           *)
(* src/klipper/klippy/chelper/serialqueue.c, from serialqueue_send_batch   *)
(* to the blocks that command_event builds.  A message waits in the        *)
(* upcoming_queue of its command queue until its min_clock, then in the    *)
(* ready_queue until MIN_REQTIME_DELTA before its req_clock.               *)
(* Clocks of the micro-controller and times of the host count the same     *)
(* unit; the estimate of the one from the other is off by clock_adj.       *)
(***************************************************************************)
EXTENDS Integers, Sequences, SequencesExt, FiniteSetsExt

CONSTANTS
  CQ,          \* the command queues
  MaxPending,  \* MAX_PENDING_BLOCKS and the receive window
  BlockCap,    \* messages that fit into a block
  ReqDelta,    \* MIN_REQTIME_DELTA
  ClockHalf,   \* 2^31: how far clocks can be told apart
  MAX_CLOCK,   \* no clock (and PR_NEVER, no time)
  BACKGROUND_PRIORITY_CLOCK

ASSUME QueueAssumption ==
  /\ IsFiniteSet(CQ)
  /\ MaxPending \in Nat \ {0} /\ BlockCap \in Nat \ {0}
  /\ ReqDelta \in Nat /\ ClockHalf \in Nat \ {0}
  /\ MAX_CLOCK \in Nat /\ BACKGROUND_PRIORITY_CLOCK \in Nat
  /\ BACKGROUND_PRIORITY_CLOCK < MAX_CLOCK

VARIABLES
  now,               \* the host's clock (CLOCK_MONOTONIC)
  clock_adj,         \* the estimate ce, as its distance from `now'
  est_freq,          \* whether there is an estimate yet
  upcoming_queue, ready_queue,  \* of each command queue
  pending_queues,    \* the command queues that are not empty, in order
  need_kick_clock,   \* a message before it has to wake the thread
  block,             \* the block that is being built: <<queue, message>>...
  pending,           \* blocks built by command_event but not yet written
  send_seq, receive_seq,
  line_busy,         \* whether idle_time, the end of the last block, is `now'
  notify_queue       \* messages that want to know of their acknowledgement

queueVars == <<upcoming_queue, ready_queue, pending_queues>>
blockVars == <<block, pending, send_seq, line_busy, notify_queue>>

QueueMessages(ids) ==
  [id : ids, min_clock : Nat, req_clock : Nat, notify : BOOLEAN]

QueuesInit ==
  /\ now = 1 /\ clock_adj = 0 /\ est_freq = FALSE
  /\ upcoming_queue = [q \in CQ |-> <<>>]
  /\ ready_queue = [q \in CQ |-> <<>>]
  /\ pending_queues = <<>>
  /\ need_kick_clock = MAX_CLOCK
  /\ block = <<>> /\ pending = 0
  /\ send_seq = 1 /\ receive_seq = 1
  /\ line_busy = FALSE
  /\ notify_queue = <<>>

\* clock_from_time; without an estimate every time is clock 0.
clock_from_time(t) == IF est_freq THEN t + clock_adj ELSE 0

\* What waits in a command queue, oldest first.
Queued(q) == ready_queue[q] \o upcoming_queue[q]

-----------------------------------------------------------------------------
\* A message must not be sent so early that its clock, of which the
\* micro-controller gets 32 bits, would be taken for a time in the past.
WithMinClock_as_given(m) == m   \* a mistake, for mutation runs
WithMinClock(m) ==
  IF m.min_clock + ClockHalf < m.req_clock
     /\ m.req_clock # BACKGROUND_PRIORITY_CLOCK
  THEN [m EXCEPT !.min_clock = m.req_clock - ClockHalf] ELSE m

\* Whether the thread has to be told of a batch.
MustWake(batch) == WithMinClock(Head(batch)).min_clock < need_kick_clock

\* The part of serialqueue_send_batch that holds the lock.
send_batch(q, batch) ==
  /\ pending_queues' = IF Queued(q) = <<>> THEN Append(pending_queues, q)
                       ELSE pending_queues
  /\ upcoming_queue' = [upcoming_queue EXCEPT
                          ![q] = @ \o [i \in DOMAIN batch |->
                                         WithMinClock(batch[i])]]
  /\ need_kick_clock' = IF MustWake(batch) THEN 0 ELSE need_kick_clock
  /\ UNCHANGED <<ready_queue, receive_seq>>
  /\ UNCHANGED blockVars

-----------------------------------------------------------------------------
(***************************************************************************)
(* check_send_command.  Time on the line is not counted: what is written   *)
(* keeps it busy until the clock moves on.                                 *)
(***************************************************************************)
WindowOpen == send_seq - receive_seq < MaxPending
ack_clock == clock_from_time(now)

\* How many messages of an upcoming_queue may go.
Stalls(m) == ack_clock < m.min_clock
Movable(q) ==
  Max({n \in 0..Len(upcoming_queue[q]) :
         \A i \in 1..n : ~Stalls(upcoming_queue[q][i])})

upcoming1 == [q \in CQ |-> SubSeq(upcoming_queue[q], Movable(q) + 1,
                                  Len(upcoming_queue[q]))]
ready1 == [q \in CQ |-> ready_queue[q] \o SubSeq(upcoming_queue[q], 1,
                                                 Movable(q))]

ReadyCount(rq) == Cardinality(UNION {{q} \X DOMAIN rq[q] : q \in CQ})

\* A message of background priority goes when the line has been idle.
BackgroundClock ==
  IF pending > 0 \/ line_busy THEN ack_clock + ReqDelta + 1 ELSE ack_clock
ReqClock(m) == IF m.req_clock = BACKGROUND_PRIORITY_CLOCK
               THEN BackgroundClock ELSE m.req_clock

min_ready_clock ==
  Min({MAX_CLOCK} \union {ReqClock(Head(ready1[q])) :
                            q \in {p \in CQ : ready1[p] # <<>>}})
min_stalled_clock ==
  Min({MAX_CLOCK} \union {Head(upcoming1[q]).min_clock :
                            q \in {p \in CQ : upcoming1[p] # <<>>}})

SendNow ==
  \/ ReadyCount(ready1) >= BlockCap
  \/ ~est_freq /\ ReadyCount(ready1) > 0
  \/ est_freq /\ min_ready_clock <= ack_clock + ReqDelta

\* When the next message has to be looked at.
wantclock ==
  IF ~est_freq THEN MAX_CLOCK
  ELSE Min({min_stalled_clock, IF min_ready_clock = MAX_CLOCK THEN MAX_CLOCK
                               ELSE min_ready_clock - ReqDelta})

\* The host's time at a clock that lies ahead.
TimeAt(c) == IF c = MAX_CLOCK THEN MAX_CLOCK ELSE now + (c - ack_clock)

-----------------------------------------------------------------------------
(***************************************************************************)
(* build_and_send_command: messages of the lowest req_clock first, until   *)
(* the block is full or nothing is ready.                                  *)
(***************************************************************************)
\* The first of the pending queues whose head comes first.
Earliest(rq) ==
  LET heads == {i \in DOMAIN pending_queues : rq[pending_queues[i]] # <<>>}
      clock(i) == Head(rq[pending_queues[i]]).req_clock
  IN  pending_queues[Min({i \in heads :
                            \A j \in heads : clock(i) <= clock(j)})]

\* A mistake in taking a message off its queue: the newest one goes.
Off_newest(rq, q) == [rq EXCEPT ![q] = Front(@)]
Off(rq, q) == [rq EXCEPT ![q] = Tail(@)]

\* list_del of a command queue that has run empty.
Unlisted(q) ==
  IF Len(Queued(q)) = 1
  THEN RemoveAt(pending_queues,
                CHOOSE i \in DOMAIN pending_queues : pending_queues[i] = q)
  ELSE pending_queues

\* A message that wants a notification remembers the block it is part of.
Notifying(m) == IF m.notify
                THEN Append(notify_queue, [id |-> m.id, seq |-> send_seq])
                ELSE notify_queue

append_message ==
  LET q == Earliest(ready_queue)
      m == Head(ready_queue[q])
  IN  /\ Len(block) < BlockCap
      /\ ReadyCount(ready_queue) > 0
      /\ block' = Append(block, <<q, m>>)
      /\ ready_queue' = Off(ready_queue, q)
      /\ pending_queues' = Unlisted(q)
      /\ notify_queue' = Notifying(m)
      /\ UNCHANGED <<upcoming_queue, need_kick_clock, pending, send_seq,
                     receive_seq, line_busy>>

finish_block ==
  /\ Len(block) = BlockCap \/ ReadyCount(ready_queue) = 0
  /\ block' = <<>>
  /\ send_seq' = send_seq + 1
  /\ pending' = pending + 1
  /\ UNCHANGED queueVars
  /\ UNCHANGED <<need_kick_clock, receive_seq, line_busy, notify_queue>>
=============================================================================
