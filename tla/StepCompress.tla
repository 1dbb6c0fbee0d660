---------------------------- MODULE StepCompress ----------------------------
(***************************************************************************)
(* The host's side of stepping: chelper/stepcompress.c.                    *)
(*                                                                         *)
(* struct stepcompress turns the step times of one motor into queue_step   *)
(* and set_next_step_dir commands and remembers where the motor was when.  *)
(* struct steppersync merges the commands of all motors of one             *)
(* micro-controller and tells, for each, the earliest clock at which the   *)
(* micro-controller has room for it.  The operators take and return a      *)
(* record that stands for the C structure.  compress_bisect_add chooses    *)
(* how many steps one command covers; here it is any number of steps that  *)
(* the command reproduces exactly (check_line, with max_error 0), so the   *)
(* operators that flush the queue give the set of possible results.        *)
(***************************************************************************)
EXTENDS Integers, Sequences, SequencesExt, FiniteSets, FiniteSetsExt, TLC

CONSTANTS ClockDiffMax,  \* CLOCK_DIFF_MAX
          SdsFilter,     \* SDS_FILTER_TIME, in ticks
          Forever        \* UINT64_MAX, later than any clock

ASSUME StepCompressAssumption ==
    ClockDiffMax \in Nat /\ SdsFilter \in Nat /\ Forever \in Nat

NewStepCompress(invert) ==
    [queue |-> <<>>, next_step_clock |-> 0, next_step_dir |-> 0, sdir |-> -1,
     last_step_clock |-> 0, last_position |-> 0, invert_sdir |-> invert,
     msg_queue |-> <<>>, history |-> <<>>]

\* Clock of step n of a move, counted from the clock of the step before it.
StepOffset(m, n) == n * m.interval + m.add * ((n * (n - 1)) \div 2)

-----------------------------------------------------------------------------
(* Messages for the micro-controller *)

Message(kind, arg, min_clock, req_clock) ==
    [kind |-> kind, arg |-> arg, min_clock |-> min_clock, req_clock |-> req_clock]

\* add_move: the command, and its entry in the history.
HistoryOf(sc, first_clock, m) ==
    [first_clock |-> first_clock,
     last_clock |-> first_clock + StepOffset(m, m.count) - m.interval,
     start_position |-> sc.last_position,
     interval |-> m.interval, add |-> m.add,
     step_count |-> IF sc.sdir # 0 THEN m.count ELSE -m.count]

add_move(sc, first_clock, m) ==
    LET hs  == HistoryOf(sc, first_clock, m)
        far == m.count = 1 /\ first_clock >= sc.last_step_clock + ClockDiffMax
        req == IF far THEN first_clock ELSE sc.last_step_clock
    IN  [sc EXCEPT !.msg_queue = Append(@,
                       Message("queue_step", m, sc.last_step_clock, req)),
                   !.last_step_clock = hs.last_clock,
                   !.last_position = @ + hs.step_count,
                   !.history = <<hs>> \o @]

\* The moves that reproduce the first steps of the queue.  first, the clock
\* of the first step, is not sent: the link's deadlines refer to it.
Lines(sc) ==
    LET from == sc.last_step_clock
        q    == sc.queue
        Move(n) == LET i == q[1] - from
                   IN  [first |-> q[1], interval |-> i, count |-> n,
                        add |-> IF n = 1 THEN 0 ELSE q[2] - from - 2 * i]
    IN  {m \in {Move(n) : n \in DOMAIN q} :
            \A n \in 1..m.count : from + StepOffset(m, n) = q[n]}

Compress(sc) ==
    {[add_move(sc, sc.queue[1], m) EXCEPT
          !.queue = SubSeq(@, m.count + 1, Len(@))] : m \in Lines(sc)}

queue_flush(sc, move_clock) ==
    LET Flushed(x) == x.queue = <<>> \/ x.last_step_clock >= move_clock
        after[k \in 0..Len(sc.queue)] ==
            IF k = 0 THEN {sc}
            ELSE UNION {IF Flushed(x) THEN {x} ELSE Compress(x) : x \in after[k - 1]}
    IN  after[Len(sc.queue)]

DirMessage(sc, dir) ==
    Message("set_next_step_dir",
            IF sc.invert_sdir = 1 THEN 1 - dir ELSE dir, 0, sc.last_step_clock)

set_next_step_dir(sc, dir) ==
    IF sc.sdir = dir THEN {sc}
    ELSE {[x EXCEPT !.sdir = dir, !.msg_queue = Append(@, DirMessage(x, dir))] :
              x \in queue_flush(sc, Forever)}

\* queue_append_far: a step far after the last one goes in a move of its own.
queue_append_far(sc) ==
    LET clock == sc.next_step_clock
        far(x) == clock >= x.last_step_clock + ClockDiffMax
        alone(x) == [first |-> clock, interval |-> clock - x.last_step_clock,
                     count |-> 1, add |-> 0]
    IN  {IF far(x) THEN add_move(x, clock, alone(x))
         ELSE [x EXCEPT !.queue = Append(@, clock)] :
             x \in queue_flush([sc EXCEPT !.next_step_clock = 0],
                               clock - ClockDiffMax + 1)}

queue_append(sc) ==
    UNION {IF x.next_step_clock >= x.last_step_clock + ClockDiffMax
           THEN queue_append_far(x)
           ELSE {[x EXCEPT !.queue = Append(@, x.next_step_clock),
                           !.next_step_clock = 0]} :
               x \in set_next_step_dir(sc, sc.next_step_dir)}

\* stepcompress_append: a step back right after a step forth cancels it.
stepcompress_append(sc, dir, clock) ==
    LET pending == sc.next_step_clock # 0
    IN  IF pending /\ dir # sc.next_step_dir /\ clock - sc.next_step_clock < SdsFilter
        THEN {[sc EXCEPT !.next_step_clock = 0, !.next_step_dir = dir]}
        ELSE {[x EXCEPT !.next_step_clock = clock, !.next_step_dir = dir] :
                  x \in IF pending THEN queue_append(sc) ELSE {sc}}

stepcompress_flush(sc, move_clock) ==
    IF sc.next_step_clock # 0 /\ move_clock >= sc.next_step_clock
    THEN UNION {queue_flush(x, move_clock) : x \in queue_append(sc)}
    ELSE queue_flush(sc, move_clock)

stepcompress_reset(sc, clock) ==
    {[x EXCEPT !.last_step_clock = clock, !.sdir = -1] :
        x \in stepcompress_flush(sc, Forever)}

stepcompress_queue_msg(sc, kind, arg) ==
    {[x EXCEPT !.msg_queue = Append(@, Message(kind, arg, 0, x.last_step_clock))] :
        x \in stepcompress_flush(sc, Forever)}

Marker(clock, position) ==
    [first_clock |-> clock, last_clock |-> clock, start_position |-> position,
     interval |-> 0, add |-> 0, step_count |-> 0]

stepcompress_set_last_position(sc, clock, position) ==
    {[x EXCEPT !.last_position = position,
               !.history = <<Marker(clock, position)>> \o @] :
        x \in stepcompress_flush(sc, Forever)}

-----------------------------------------------------------------------------
(* The past: the newest entry that began at or before the clock tells. *)

Size(hs) == IF hs.step_count < 0 THEN -hs.step_count ELSE hs.step_count

StepsBy(hs, clock) ==
    Cardinality({n \in 1..Size(hs) :
        hs.first_clock - hs.interval + StepOffset(hs, n) <= clock})

\* A mistake takes an entry for over when its first step is.
PositionIn_first(hs, clock) ==
    IF clock >= hs.first_clock THEN hs.start_position + hs.step_count
    ELSE hs.start_position

PositionIn(hs, clock) ==
    IF clock >= hs.last_clock THEN hs.start_position + hs.step_count
    ELSE IF hs.step_count < 0 THEN hs.start_position - StepsBy(hs, clock)
    ELSE hs.start_position + StepsBy(hs, clock)

stepcompress_find_past_position(sc, clock) ==
    LET began == {i \in DOMAIN sc.history : sc.history[i].first_clock <= clock}
    IN  IF began # {} THEN PositionIn(sc.history[Min(began)], clock)
        ELSE IF sc.history = <<>> THEN sc.last_position
        ELSE Last(sc.history).start_position

-----------------------------------------------------------------------------
(* steppersync: the clocks at which the nodes of the micro-controller come *)
(* free form a binary heap, the earliest at its root.                      *)

heap_replace(mc, clock) ==
    LET Clock(p) == IF p \in DOMAIN mc THEN mc[p] ELSE Forever
        path[p \in DOMAIN mc] ==
            IF clock <= Clock(2 * p) /\ clock <= Clock(2 * p + 1) THEN <<p>>
            ELSE <<p>> \o path[IF Clock(2 * p) < Clock(2 * p + 1)
                               THEN 2 * p ELSE 2 * p + 1]
        on == path[1]
    IN  [p \in DOMAIN mc |->
            IF ~Contains(on, p) THEN mc[p]
            ELSE IF p = Last(on) THEN clock
            ELSE mc[on[1 + SelectInSeq(on, LAMBDA q : q = p)]]]

\* The state of the merge: the queues left, the heap, the messages merged.
\* The next message is the one with the lowest req_clock, the first such
\* stepper's in a tie.
Waiting(st) == {o \in DOMAIN st.sc : st.sc[o].msg_queue # <<>>}
ReqClock(st, o) == Head(st.sc[o].msg_queue).req_clock

NextStepper(st) ==
    Min({o \in Waiting(st) : \A p \in Waiting(st) : ReqClock(st, o) <= ReqClock(st, p)})

MergeDone(st, move_clock) ==
    \/ Waiting(st) = {}
    \/ LET qm == Head(st.sc[NextStepper(st)].msg_queue)
       IN  qm.min_clock # 0 /\ qm.req_clock > move_clock

\* A mistake lets a command wait for the node it will give back.
MergeOne_own(st) ==
    LET o  == NextStepper(st)
        qm == Head(st.sc[o].msg_queue)
    IN  [sc |-> [st.sc EXCEPT ![o].msg_queue = Tail(@)],
         move_clocks |-> IF qm.min_clock # 0
                         THEN heap_replace(st.move_clocks, qm.min_clock)
                         ELSE st.move_clocks,
         msgs |-> Append(st.msgs, [kind |-> qm.kind, arg |-> qm.arg, oid |-> o,
                                   min_clock |-> 0])]

MergeOne(st) ==
    LET o  == NextStepper(st)
        qm == Head(st.sc[o].msg_queue)
    IN  [sc |-> [st.sc EXCEPT ![o].msg_queue = Tail(@)],
         move_clocks |-> IF qm.min_clock # 0
                         THEN heap_replace(st.move_clocks, qm.min_clock)
                         ELSE st.move_clocks,
         msgs |-> Append(st.msgs, [kind |-> qm.kind, arg |-> qm.arg, oid |-> o,
                                   min_clock |-> st.move_clocks[1]])]

Merge(scs, move_clocks, move_clock) ==
    LET total == MapThenSumSet(LAMBDA o : Len(scs[o].msg_queue), DOMAIN scs)
        after[k \in 0..total] ==
            IF k = 0 THEN [sc |-> scs, move_clocks |-> move_clocks, msgs |-> <<>>]
            ELSE IF MergeDone(after[k - 1], move_clock) THEN after[k - 1]
            ELSE MergeOne(after[k - 1])
    IN  after[total]

\* The functions whose value at o is a member of F[o].
EachOf(F) ==
    {x \in [DOMAIN F -> UNION {F[o] : o \in DOMAIN F}] :
        \A o \in DOMAIN F : x[o] \in F[o]}

\* steppersync_flush: the results of a flush up to move_clock.
steppersync_flush(scs, move_clocks, move_clock) ==
    {Merge(x, move_clocks, move_clock) :
        x \in EachOf([o \in DOMAIN scs |-> stepcompress_flush(scs[o], move_clock)])}
=============================================================================
