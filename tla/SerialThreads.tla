--------------------------- MODULE SerialThreads ---------------------------
(***************************************************************************)
(* The threads around a serialqueue: its background thread, which sleeps   *)
(* in poll() (chelper/pollreactor.c), builds blocks and takes in frames;   *)
(* the threads that send (klippy's main thread and the fast readers of     *)
(* other micro-controllers) and wake it through a pipe; the Python thread  *)
(* of klippy/serialhdl.py that pulls what was received; and disconnect().  *)
(* The link is without loss here, SerialLink has what loss does to it; the *)
(* retransmit timer, which could only wake the thread more often, is left  *)
(* out.  A step is what runs under the lock, or a system call.             *)
(***************************************************************************)
EXTENDS CommandQueues

CONSTANTS
  Senders,     \* threads that send: "main" and fast readers
  PollCap,     \* one second: poll() returns after it in any case
  PipeCap,     \* what the pipe holds before write() fails
  Scenarios    \* bounds: messages sent, their <<min_clock, req_clock>>, and
               \* until when; responses; how far the clock goes and how much
               \* its estimate is corrected; whether the connection may end

ASSUME ThreadsAssumption ==
  /\ "main" \in Senders
  /\ PollCap \in Nat \ {0} /\ PipeCap \in Nat \ {0}
  /\ Scenarios \subseteq [msgs : Nat, resps : Nat, adj : Nat, ends : BOOLEAN,
                          clocks : SUBSET (Nat \X Nat), send : Nat,
                          time : Nat \ {0}]
  /\ \A sc \in Scenarios :
       sc.time + sc.adj + ReqDelta < BACKGROUND_PRIORITY_CLOCK

VARIABLES
  scenario,          \* one of the Scenarios, chosen at the start
  bg,                \* where the background thread is
  command_time,      \* its timer SQPT_COMMAND
  poll_until,        \* when the current poll() ends
  revents,           \* what the last poll() returned
  must_exit,         \* pollreactor's flag
  pipe,              \* bytes in the pipe
  sender,            \* sender[s]: "idle" or about to kick
  puller,            \* where serialhdl._bg_thread is
  receive_waiting, receive_queue,
  main,              \* how far disconnect() is
  pending_notifications,   \* of serialhdl: whose completions are open
  executed, m2h,     \* the micro-controller, and frames under way from it
  nmsg, nresp,       \* messages and responses so far
  taken,             \* history: what left each command queue
  handled,           \* history: responses that Python has handled
  asked,             \* history: the block of each message to be notified of
  source,            \* history: the block that each response came from, or 0
  early,             \* history: messages whose sender was woken at the start
                     \* of the connection, before any acknowledgement
  completed          \* history: how often each completion was completed

threadVars == <<bg, command_time, poll_until, revents>>
pullVars   == <<puller, receive_waiting, receive_queue, handled, completed>>
clockVars  == <<now, clock_adj, est_freq>>
countVars  == <<nmsg, nresp, scenario>>
histVars   == <<asked, source, early>>
mcuVars    == <<executed, m2h>>
serialhdl  == <<main, pending_notifications>>
allQueues  == <<queueVars, blockVars, need_kick_clock, receive_seq, taken>>
vars == <<clockVars, allQueues, threadVars, must_exit, pipe, sender, pullVars,
          serialhdl, mcuVars, countVars, histVars>>

Clocks == scenario.clocks
Ids == UNION {1..sc.msgs : sc \in Scenarios}
Received == [kind : {"notify"}, id : Ids] \union [kind : {"data"}, id : Nat]

TypeOK ==
  /\ scenario \in Scenarios
  /\ now \in 1..scenario.time /\ clock_adj \in 0..scenario.adj
  /\ est_freq \in BOOLEAN
  /\ upcoming_queue \in [CQ -> Seq(QueueMessages(Ids))]
  /\ ready_queue \in [CQ -> Seq(QueueMessages(Ids))]
  /\ IsInjective(pending_queues)
  /\ ToSet(pending_queues) = {q \in CQ : Queued(q) # <<>>}
  /\ need_kick_clock \in Nat /\ line_busy \in BOOLEAN
  /\ block \in Seq(CQ \X QueueMessages(Ids))
  /\ pending \in 0..MaxPending
  /\ receive_seq <= send_seq - pending /\ send_seq <= receive_seq + MaxPending
  /\ \A i \in DOMAIN notify_queue : notify_queue[i] \in [id : Ids, seq : Nat]
  /\ bg \in {"timers", "command", "poll", "input", "kick", "leave", "exited"}
  /\ command_time \in Nat /\ poll_until \in Nat
  /\ revents \subseteq {"serial", "pipe"}
  /\ must_exit \in BOOLEAN /\ pipe \in 0..PipeCap
  /\ sender \in [Senders -> {"idle", "kick"}]
  /\ puller \in {"pull", "waiting", "exited"} /\ receive_waiting \in BOOLEAN
  /\ receive_queue \in Seq(Received)
  /\ main \in {"running", "exit_kick", "join", "join_python", "done"}
  /\ pending_notifications \subseteq Ids
  /\ executed \in 1..(send_seq - pending)

Init ==
  /\ scenario \in Scenarios
  /\ QueuesInit
  /\ bg = "timers" /\ command_time = MAX_CLOCK /\ poll_until = 0
  /\ revents = {"serial"}
  /\ must_exit = FALSE /\ pipe = 0
  /\ sender = [s \in Senders |-> "idle"]
  /\ puller = "pull" /\ receive_waiting = FALSE /\ receive_queue = <<>>
  /\ main = "running" /\ pending_notifications = {}
  /\ executed = 1 /\ m2h = <<>>
  /\ nmsg = 0 /\ nresp = 0
  /\ taken = [q \in CQ |-> <<>>]
  /\ asked = [i \in Ids |-> 0] /\ source = <<>> /\ early = {}
  /\ handled = <<>> /\ completed = [i \in Ids |-> 0]

\* command_event and the other short sections hold the lock.
Locked == bg = "command"

kick_bg_thread == pipe' = IF pipe < PipeCap THEN pipe + 1 ELSE pipe

-----------------------------------------------------------------------------
(***************************************************************************)
(* Senders.  Before there is an estimate of the clock only messages        *)
(* without one are sent.  A batch of several comes from steppersync_flush, *)
(* in the order of its clocks; the main thread alone asks for              *)
(* notifications (raw_send_wait_ack).                                      *)
(***************************************************************************)
NewMessage(id, c, notify) ==
  [id |-> id, min_clock |-> c[1], req_clock |-> c[2], notify |-> notify]

MoveClocks == {p \in Clocks \X Clocks :
                 /\ 0 < p[1][2] /\ p[1][2] <= p[2][2]
                 /\ p[2][2] # BACKGROUND_PRIORITY_CLOCK}
Batches ==
  {<<NewMessage(nmsg + 1, p[1], p[2])>> : p \in Clocks \X BOOLEAN} \union
  {<<NewMessage(nmsg + 1, p[1], FALSE), NewMessage(nmsg + 2, p[2], FALSE)>> :
     p \in MoveClocks}

SendBatch(s) ==
  /\ ~Locked /\ sender[s] = "idle" /\ now <= scenario.send
  /\ s = "main" => main = "running"
  /\ \E q \in CQ, batch \in Batches :
       /\ nmsg + Len(batch) <= scenario.msgs
       /\ batch[1].notify => s = "main"
       /\ ~est_freq => \A i \in DOMAIN batch :
                          batch[i].min_clock = 0 /\ batch[i].req_clock = 0
       /\ send_batch(q, batch)
       /\ nmsg' = nmsg + Len(batch)
       /\ sender' = [sender EXCEPT ![s] = IF MustWake(batch) THEN "kick"
                                          ELSE "idle"]
       /\ pending_notifications' =
            IF batch[1].notify
            THEN pending_notifications \union {batch[1].id}
            ELSE pending_notifications
  /\ UNCHANGED <<clockVars, threadVars, must_exit, pipe, pullVars, main,
                  mcuVars, nresp, scenario, taken, histVars>>

\* The lock has been released: write to the pipe.
Kick(s) ==
  /\ sender[s] = "kick"
  /\ kick_bg_thread
  /\ sender' = [sender EXCEPT ![s] = "idle"]
  /\ UNCHANGED <<clockVars, allQueues, threadVars, must_exit, pullVars,
                  serialhdl, mcuVars, countVars, histVars>>

\* serialqueue_set_clock_est: the thread is not told.
SetClockEst ==
  /\ ~Locked /\ main = "running"
  /\ clock_adj' \in 0..scenario.adj
  /\ est_freq' = TRUE
  /\ <<clock_adj, est_freq>>' # <<clock_adj, est_freq>>
  /\ UNCHANGED <<now, allQueues, threadVars, must_exit, pipe, sender, pullVars,
                  serialhdl, mcuVars, countVars, histVars>>

-----------------------------------------------------------------------------
(***************************************************************************)
(* The background thread: pollreactor_run.                                 *)
(***************************************************************************)
CheckTimers ==
  /\ bg = "timers"
  /\ \/ must_exit /\ bg' = "leave"
        /\ UNCHANGED <<command_time, poll_until>>
     \/ ~must_exit /\ now >= command_time
        /\ bg' = "command" /\ command_time' = 0 /\ poll_until' = poll_until
     \/ ~must_exit /\ now < command_time
        /\ bg' = "poll" /\ command_time' = command_time
        /\ poll_until' = IF revents # {} THEN now
                         ELSE Min({command_time, now + PollCap})
  /\ revents' = {}
  /\ UNCHANGED <<clockVars, allQueues, must_exit, pipe, sender, pullVars,
                  serialhdl, mcuVars, countVars, histVars>>

Asked(m) == IF m.notify THEN [asked EXCEPT ![m.id] = send_seq] ELSE asked

\* command_event, while check_send_command finds something to send now: what
\* has become ready is moved, and the first message goes into a new block.
CommandStart ==
  /\ bg = "command" /\ block = <<>>
  /\ WindowOpen /\ SendNow
  /\ LET q == Earliest(ready1)
         m == Head(ready1[q])
     IN  /\ block' = <<<<q, m>>>>
         /\ upcoming_queue' = upcoming1
         /\ ready_queue' = Off(ready1, q)
         /\ pending_queues' = Unlisted(q)
         /\ notify_queue' = Notifying(m)
         /\ asked' = Asked(m)
         /\ taken' = [taken EXCEPT ![q] = Append(@, m.id)]
  /\ UNCHANGED <<clockVars, need_kick_clock, pending, send_seq, receive_seq,
                  line_busy, threadVars, must_exit, pipe, sender, pullVars,
                  serialhdl, mcuVars, source, early, countVars>>

\* The next message of the block.
CommandAppend ==
  /\ bg = "command" /\ block # <<>>
  /\ append_message
  /\ LET new == Last(block') IN
     /\ taken' = [taken EXCEPT ![new[1]] = Append(@, new[2].id)]
     /\ asked' = Asked(new[2])
  /\ UNCHANGED <<clockVars, threadVars, must_exit, pipe, sender, pullVars,
                  serialhdl, mcuVars, source, early, countVars>>

CommandFinish ==
  /\ bg = "command" /\ block # <<>>
  /\ finish_block
  /\ UNCHANGED <<clockVars, taken, threadVars, must_exit, pipe, sender,
                  pullVars, serialhdl, mcuVars, countVars, histVars>>

\* need_kick_clock while the thread sleeps; a mistake leaves it as it was.
KickClock_kept(c) == need_kick_clock
KickClock(c) == c

\* command_event ends: the blocks are written, the timer is set to when the
\* next message is due.  While blocks are unacknowledged it is not set at all:
\* their acknowledgement will.
CommandWait ==
  /\ bg = "command" /\ block = <<>>
  /\ \/ /\ ~WindowOpen
        /\ command_time' = MAX_CLOCK
        /\ UNCHANGED <<upcoming_queue, ready_queue, need_kick_clock>>
     \/ /\ WindowOpen /\ ~SendNow
        /\ command_time' = TimeAt(wantclock)
        /\ need_kick_clock' = KickClock(wantclock)
        /\ upcoming_queue' = upcoming1 /\ ready_queue' = ready1
  /\ pending' = 0
  /\ line_busy' = (line_busy \/ pending > 0)
  /\ bg' = "poll" /\ poll_until' = now
  /\ UNCHANGED <<clockVars, pending_queues, block, send_seq, receive_seq,
                  notify_queue, taken, revents, must_exit, pipe, sender,
                  pullVars, serialhdl, mcuVars, countVars, histVars>>

\* poll() returns what is readable, or when its time is over.
Readable == {x \in {"serial", "pipe"} : \/ x = "serial" /\ m2h # <<>>
                                        \/ x = "pipe" /\ pipe > 0}
AfterInput(r) == IF "pipe" \in r THEN "kick" ELSE "timers"
Poll ==
  /\ bg = "poll"
  /\ Readable # {} \/ now >= poll_until
  /\ revents' = Readable /\ poll_until' = 0
  /\ bg' = IF "serial" \in Readable THEN "input" ELSE AfterInput(Readable)
  /\ UNCHANGED <<clockVars, allQueues, command_time, must_exit, pipe, sender,
                  pullVars, serialhdl, mcuVars, countVars, histVars>>

\* check_wake_receive
check_wake_receive ==
  /\ receive_waiting' = FALSE
  /\ puller' = IF receive_waiting /\ puller = "waiting" THEN "pull" ELSE puller

\* must_wake: whether the puller is woken for what was received; a mistake
\* does so for notifications only.
must_wake_notify(new) == \E i \in DOMAIN new : new[i].kind = "notify"
must_wake(new) == new # <<>>

AfterAck == 0

\* wake_seq: a data frame comes before the acknowledgement of its block.  The
\* code computes it in 64 unsigned bits: below 0 it wraps around, which a data
\* frame before the first acknowledgement (rseq = 1) brings about, and the
\* senders of all blocks that are under way are woken.
wake_seq(f) == f.rseq - 1 - (IF f.data = 0 THEN 0 ELSE 1)
Wraps(f) == wake_seq(f) < 0
Wakes(n, f) == Wraps(f) \/ n <= wake_seq(f)

\* input_event and handle_message: one frame.
InputEvent ==
  /\ bg = "input"
  /\ LET f    == Head(m2h)
         k    == Cardinality({i \in DOMAIN notify_queue :
                                Wakes(notify_queue[i].seq, f)})
         new  == [i \in 1..k |-> [kind |-> "notify",
                                  id |-> notify_queue[i].id]]
                   \o (IF f.data = 0 THEN <<>>
                       ELSE <<[kind |-> "data", id |-> f.data]>>)
     IN  /\ receive_seq' = f.rseq
         /\ command_time' = IF f.rseq # receive_seq THEN AfterAck
                            ELSE command_time
         /\ notify_queue' = SubSeq(notify_queue, k + 1, Len(notify_queue))
         /\ receive_queue' = receive_queue \o new
         /\ early' = IF Wraps(f)
                     THEN early \union {notify_queue[i].id : i \in 1..k}
                     ELSE early
         /\ IF must_wake(new) THEN check_wake_receive
            ELSE UNCHANGED <<receive_waiting, puller>>
  /\ m2h' = Tail(m2h)
  /\ bg' = AfterInput(revents)
  /\ UNCHANGED <<clockVars, queueVars, block, pending, send_seq, line_busy,
                  need_kick_clock, taken, poll_until, revents, must_exit, pipe,
                  sender, handled, completed, serialhdl, executed, countVars,
                  asked, source>>

\* read() fails: the CAN interface has gone.
InputError ==
  /\ bg = "poll" /\ scenario.ends
  /\ must_exit' = TRUE
  /\ revents' = {"serial"} \union Readable /\ poll_until' = 0
  /\ bg' = AfterInput(Readable)
  /\ UNCHANGED <<clockVars, allQueues, command_time, pipe, sender, pullVars,
                  serialhdl, mcuVars, countVars, histVars>>

\* kick_event empties the pipe.
KickEvent ==
  /\ bg = "kick"
  /\ pipe' = 0
  /\ command_time' = 0
  /\ bg' = "timers"
  /\ UNCHANGED <<clockVars, allQueues, poll_until, revents, must_exit, sender,
                  pullVars, serialhdl, mcuVars, countVars, histVars>>

\* background_thread, after pollreactor_run.
Leave ==
  /\ bg = "leave"
  /\ check_wake_receive
  /\ bg' = "exited"
  /\ UNCHANGED <<clockVars, allQueues, command_time, poll_until, revents,
                  must_exit, pipe, sender, receive_queue, handled, completed,
                  serialhdl, mcuVars, countVars, histVars>>

-----------------------------------------------------------------------------
(***************************************************************************)
(* serialqueue_pull, called by serialhdl._bg_thread in a loop.  Whether    *)
(* there is something and whether the thread is to exit is read again      *)
(* after each wake-up, also after one that nobody caused.                  *)
(***************************************************************************)
Pull ==
  /\ puller = "pull" /\ ~Locked
  /\ \/ /\ receive_queue # <<>>
        /\ LET r == Head(receive_queue) IN
           \/ /\ r.kind = "notify"
              /\ completed' = [completed EXCEPT ![r.id] = @ + 1]
              /\ pending_notifications' = pending_notifications \ {r.id}
              /\ handled' = handled
           \/ /\ r.kind = "data"
              /\ handled' = Append(handled, r.id)
              /\ UNCHANGED <<completed, pending_notifications>>
        /\ receive_queue' = Tail(receive_queue)
        /\ UNCHANGED <<puller, receive_waiting>>
     \/ /\ receive_queue = <<>> /\ must_exit
        /\ puller' = "exited"
        /\ UNCHANGED <<receive_waiting, receive_queue, handled, completed,
                        pending_notifications>>
     \/ /\ receive_queue = <<>> /\ ~must_exit
        /\ puller' = "waiting" /\ receive_waiting' = TRUE
        /\ UNCHANGED <<receive_queue, handled, completed,
                        pending_notifications>>
  /\ UNCHANGED <<clockVars, allQueues, threadVars, must_exit, pipe, sender,
                  main, mcuVars, countVars, histVars>>

SpuriousWakeup ==
  /\ puller = "waiting"
  /\ puller' = "pull"
  /\ UNCHANGED <<clockVars, allQueues, threadVars, must_exit, pipe, sender,
                  receive_waiting, receive_queue, handled, completed,
                  serialhdl, mcuVars, countVars, histVars>>

-----------------------------------------------------------------------------
(***************************************************************************)
(* serialhdl.disconnect in the main thread: serialqueue_exit sets the flag *)
(* without the lock, kicks the thread and joins it; then the Python thread *)
(* is joined and open completions end without a result.                    *)
(***************************************************************************)
DoExit ==
  /\ main = "running" /\ sender["main"] = "idle" /\ scenario.ends
  /\ must_exit' = TRUE
  /\ main' = "exit_kick"
  /\ UNCHANGED <<clockVars, allQueues, threadVars, pipe, sender, pullVars,
                  pending_notifications, mcuVars, countVars, histVars>>

ExitKick ==
  /\ main = "exit_kick"
  /\ kick_bg_thread
  /\ main' = "join"
  /\ UNCHANGED <<clockVars, allQueues, threadVars, must_exit, sender, pullVars,
                  pending_notifications, mcuVars, countVars, histVars>>

Join ==
  /\ main = "join" /\ bg = "exited"
  /\ main' = "join_python"
  /\ UNCHANGED <<clockVars, allQueues, threadVars, must_exit, pipe, sender,
                  pullVars, pending_notifications, mcuVars, countVars,
                  histVars>>

\* A mistake: the Python thread is not waited for.
PythonJoined_not_waited == TRUE
PythonJoined == puller = "exited"

CompletePending ==
  /\ main = "join_python" /\ PythonJoined
  /\ main' = "done"
  /\ completed' = [i \in Ids |-> IF i \in pending_notifications
                                THEN completed[i] + 1 ELSE completed[i]]
  /\ pending_notifications' = {}
  /\ UNCHANGED <<clockVars, allQueues, threadVars, must_exit, pipe, sender,
                  puller, receive_waiting, receive_queue, handled, mcuVars,
                  countVars, histVars>>

-----------------------------------------------------------------------------
(***************************************************************************)
(* The micro-controller executes a block, may send a response on the way,  *)
(* and acknowledges it; or it sends a report on its own.                   *)
(***************************************************************************)
Response(n) == [rseq |-> executed + n, data |-> nresp + 1]
McuExecute ==
  /\ executed < send_seq - pending
  /\ \E respond \in BOOLEAN :
       /\ respond => nresp < scenario.resps
       /\ nresp' = IF respond THEN nresp + 1 ELSE nresp
       /\ source' = IF respond THEN Append(source, executed) ELSE source
       /\ m2h' = (IF respond THEN Append(m2h, Response(1)) ELSE m2h)
                   \o <<[rseq |-> executed + 1, data |-> 0]>>
  /\ executed' = executed + 1
  /\ UNCHANGED <<clockVars, allQueues, threadVars, must_exit, pipe, sender,
                  pullVars, serialhdl, nmsg, scenario, asked, early>>

McuReport ==
  /\ nresp < scenario.resps
  /\ nresp' = nresp + 1
  /\ source' = Append(source, 0)
  /\ m2h' = Append(m2h, Response(0))
  /\ UNCHANGED <<clockVars, allQueues, threadVars, must_exit, pipe, sender,
                  pullVars, serialhdl, executed, nmsg, scenario, asked, early>>

\* The threads are prompt: time passes only while they wait.
Tick ==
  /\ now < scenario.time
  /\ bg = "poll" /\ Readable = {} /\ now < poll_until
  /\ \A s \in Senders : sender[s] = "idle"
  /\ now' = now + 1
  /\ line_busy' = FALSE
  /\ UNCHANGED <<clock_adj, est_freq, queueVars, block, pending, send_seq,
                  notify_queue, need_kick_clock, receive_seq, taken,
                  threadVars, must_exit, pipe, sender, pullVars, serialhdl,
                  mcuVars, countVars, histVars>>

Background == \/ CheckTimers \/ CommandStart \/ CommandAppend \/ CommandFinish
              \/ CommandWait \/ Poll \/ InputEvent \/ KickEvent \/ Leave
Disconnect == DoExit \/ ExitKick \/ Join \/ CompletePending
Next == \/ Background \/ InputError
        \/ \E s \in Senders : SendBatch(s) \/ Kick(s)
        \/ SetClockEst \/ Pull \/ SpuriousWakeup \/ Disconnect
        \/ McuExecute \/ McuReport \/ Tick

Spec == Init /\ [][Next]_vars

(***************************************************************************)
(* The scheduler runs every thread, the micro-controller executes what it  *)
(* gets and time passes; nobody has to send, and poll() need not fail.     *)
(***************************************************************************)
FairSpec ==
  /\ Spec
  /\ WF_vars(Background) /\ WF_vars(Pull) /\ WF_vars(McuExecute)
  /\ \A s \in Senders : WF_vars(Kick(s))
  /\ WF_vars(ExitKick) /\ WF_vars(Join) /\ WF_vars(CompletePending)
  /\ WF_vars(Tick)

-----------------------------------------------------------------------------
\* Each command queue is a mailbox: what is sent leaves it once and in order,
\* whichever thread sent it and whatever the priorities.
EverPut(q) ==
  taken[q] \o [i \in DOMAIN Queued(q) |-> Queued(q)[i].id]
Boxes == INSTANCE Mailboxes WITH Queues <- CQ,
           put  <- [q \in CQ |-> EverPut(q)],
           gone <- [q \in CQ |-> Len(taken[q])]
ImplementsMailboxes == Boxes!BoxSpec

\* No kick is lost: time does not pass while a message that is due waits in
\* front of its queue and the window is open, although the thread is asleep
\* when the message comes and is told only if it does not wake up in time by
\* itself (need_kick_clock).  A correction of the clock estimate, of which the
\* thread is not told, may delay a message by as much as it corrects.
Due(m) ==
  IF m.req_clock = BACKGROUND_PRIORITY_CLOCK
  THEN ~line_busy /\ ack_clock >= m.min_clock + scenario.adj
  ELSE /\ ack_clock >= m.min_clock + scenario.adj
       /\ ack_clock >= m.req_clock - ReqDelta + scenario.adj
NoLostKick ==
  [][now' > now /\ WindowOpen /\ ~must_exit =>
       \A q \in CQ : Queued(q) # <<>> => ~Due(Head(Queued(q)))]_vars

\* No message is sent so early that the micro-controller would take its clock
\* for one that has passed (serialqueue_send_batch sets min_clock for it).
NotTooEarly ==
  \A i \in DOMAIN block :
    LET m == block[i][2] IN
    est_freq /\ m.req_clock # BACKGROUND_PRIORITY_CLOCK =>
      m.req_clock - ack_clock <= ClockHalf + scenario.adj

\* When the main thread is notified of a message's acknowledgement, the
\* micro-controller has executed its block and every response of the block has
\* been handled in Python: SerialRetryCommand takes a notification without a
\* response for a response that is lost.  The exception are the senders that
\* wait for a block when a data frame comes before the first acknowledgement of
\* the connection: they are woken at once (wake_seq wraps around).
HandledBeforeNotified ==
  \A i \in Ids \ early :
    completed[i] = 1 /\ main # "done" =>
      /\ asked[i] < executed
      /\ \A r \in 1..nresp : asked[i] = source[r] => r \in ToSet(handled)

\* The completion of a waiting sender ends exactly once, by the notification
\* or by disconnect(), also when a notification is on its way to the puller at
\* that time; no one who waits is left behind.
CompletedOnce ==
  \A i \in Ids : /\ completed[i] <= 1
                 /\ i \in pending_notifications => completed[i] = 0
                 /\ main = "done" => /\ i \notin pending_notifications
                                     /\ [kind |-> "notify", id |-> i]
                                          \in ToSet(receive_queue)
                                        => completed[i] = 1

\* Every message is sent, unless the connection ends.
SomeQueued == \E q \in CQ : Queued(q) # <<>>
EverythingSent == SomeQueued ~> (~SomeQueued \/ must_exit)

\* Every response reaches its handler, unless the connection ends.
EverythingHandled ==
  Len(handled) < nresp ~> (Len(handled) = nresp \/ must_exit)

\* disconnect() returns: it does not wait for ever for a thread that sleeps in
\* poll() or waits for a message.
DisconnectReturns == (main = "exit_kick") ~> (main = "done")

\* A sender that waits for its acknowledgement (raw_send_wait_ack has no
\* timeout) gets it, or learns of the disconnect; only when the thread has
\* left by itself does it wait until somebody disconnects.
WaiterReturns ==
  pending_notifications # {} ~>
    (pending_notifications = {} \/ (must_exit /\ main = "running"))

\* Messages leave no sooner, and senders hear of them no sooner, than the
\* serialqueue promises.
InDueTime == TypeOK /\ NotTooEarly /\ HandledBeforeNotified

\* No message, response, sender or disconnect() waits for ever: the kicks
\* through the pipe, the condition variable and the exit of the thread reach
\* whoever sleeps.
NobodyWaitsForEver ==
  EverythingSent /\ EverythingHandled /\ DisconnectReturns /\ WaiterReturns
=============================================================================
