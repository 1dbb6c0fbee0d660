------------------------------ MODULE Stepper ------------------------------
(***************************************************************************)
(* Stepper motor pulses in the micro-controller: stepper.c, with the pool  *)
(* of move nodes of basecmd.c that every queue of the firmware shares.     *)
(*                                                                         *)
(* A stepper runs one move at a time out of a queue of moves.  It keeps    *)
(* its position as a W-bit word whose top bit says that the motor is       *)
(* moving backwards, so that a change of direction is one negation.  The   *)
(* module also keeps the level of the step and direction pins and motor,   *)
(* the place the pulses on them really brought the shaft to: the code has  *)
(* no such variable, and the properties compare the code's idea with it.   *)
(***************************************************************************)
EXTENDS Integers, Sequences, SequencesExt, FiniteSets, FiniteSetsExt

CONSTANTS W,            \* width of position in bits
          Bias,         \* POSITION_BIAS
          MoveCount,    \* nodes in the pool: move_count
          Pulse,        \* step_pulse_ticks
          MaxPast,      \* timer_from_us(1000)
          TooCloseMax   \* late timers that sched_add_timer tolerates

ASSUME StepperAssumption ==
    /\ W \in Nat \ {0} /\ 2^(W - 1) \in Nat \ {0} /\ 2^W = 2 * 2^(W - 1)
    /\ Bias \in 1..(2^W - 1)
    /\ MoveCount \in Nat \ {0} /\ Pulse \in Nat \ {0} /\ MaxPast \in Nat
    /\ TooCloseMax \in Nat

VARIABLES stepper,      \* oid -> struct stepper
          free,         \* number of nodes on move_free_list
          fault,        \* "none" or the reason of the shutdown
          too_close,    \* too_close_c: late timers tolerated so far
          held          \* motors whose timer waits behind the list's head

stepperVars == <<stepper, free, fault, too_close, held>>

Word(x) == x % (2^W)
TopBit == 2^(W - 1)

\* config_stepper; single is SF_SINGLE_SCHED (a step on every edge).
NewStepper(single) ==
    [interval |-> 0, add |-> 0, count |-> 0, next_step_time |-> 0,
     waketime |-> 0, active |-> FALSE, position |-> Word(-Bias),
     mq |-> <<>>, last_dir |-> 0, next_dir |-> 0, need_reset |-> FALSE,
     single |-> single, step_pin |-> 0, dir_pin |-> 0, motor |-> 0]

StepperInit(single, Oids) ==
    /\ stepper = [o \in Oids |-> NewStepper(single)]
    /\ free = MoveCount
    /\ fault = "none"
    /\ too_close \in 0..TooCloseMax
    /\ held = {}

\* A mistake forgets the moves' steps that are still to come.
GetPosition_planned(s) ==
    IF s.position >= TopBit THEN Word(-s.position) ELSE s.position

\* stepper_get_position: the steps not yet taken come off the position,
\* and the sign flag is resolved.
GetPosition(s) ==
    LET p == Word(s.position - (IF s.single THEN s.count ELSE s.count \div 2))
    IN  IF p >= TopBit THEN Word(-p) ELSE p

\* The value stepper_position reports.
Reported(s) == GetPosition(s) - Bias

\* gpio_out_toggle of the step pin, and what the driver chip makes of it.
ToggleStep(s) ==
    LET steps == s.single \/ s.step_pin = 0
        dir   == IF s.dir_pin = 1 THEN 1 ELSE -1
    IN  [s EXCEPT !.step_pin = 1 - @, !.motor = IF steps THEN @ + dir ELSE @]

\* stepper_load_next, and the node it gives back.
LoadFreed(s) == IF s.mq = <<>> THEN 0 ELSE 1

LoadTime(s, m) ==
    IF s.single
    THEN [s EXCEPT !.waketime = @ + m.interval, !.count = m.count]
    ELSE [s EXCEPT !.next_step_time = @ + m.interval,
                   !.waketime = s.next_step_time + m.interval,
                   !.count = 2 * m.count]

\* The direction of a move, which turns the position's sign.
LoadDir(s, m) ==
    IF m.dir
    THEN [s EXCEPT !.position = Word(m.count - @), !.dir_pin = 1 - @]
    ELSE [s EXCEPT !.position = Word(@ + m.count)]

LoadNext(s) ==
    IF s.mq = <<>>
    THEN [s EXCEPT !.count = 0, !.active = FALSE]
    ELSE LET m == Head(s.mq)
         IN  LoadDir(LoadTime([s EXCEPT !.mq = Tail(@), !.add = m.add,
                                        !.interval = m.interval + m.add], m), m)

-----------------------------------------------------------------------------
(* Stopping *)

\* A mistake forgets that commands of the old move are still under way.
Stopped_ready(s) ==
    [s EXCEPT !.active = FALSE, !.next_step_time = 0, !.waketime = 0,
              !.position = Word(-GetPosition(s)), !.count = 0,
              !.last_dir = 0, !.next_dir = 0,
              !.dir_pin = 0, !.step_pin = IF s.single THEN @ ELSE 0,
              !.mq = <<>>]

\* A mistake leaves the direction of the old move selected.
Stopped_dir(s) ==
    [s EXCEPT !.active = FALSE, !.next_step_time = 0, !.waketime = 0,
              !.position = Word(-GetPosition(s)), !.count = 0,
              !.need_reset = TRUE,
              !.dir_pin = 0, !.step_pin = IF s.single THEN @ ELSE 0,
              !.mq = <<>>]

Stopped(s) ==
    [s EXCEPT !.active = FALSE, !.next_step_time = 0, !.waketime = 0,
              !.position = Word(-GetPosition(s)), !.count = 0,
              !.last_dir = 0, !.next_dir = 0, !.need_reset = TRUE,
              !.dir_pin = 0, !.step_pin = IF s.single THEN @ ELSE 0,
              !.mq = <<>>]

\* stepper_stop, the callback of the trsync signal.
StepperStop(o) ==
    /\ free' = free + Len(stepper[o].mq)
    /\ stepper' = [stepper EXCEPT ![o] = Stopped(@)]
    /\ held' = held \ {o}

\* A mistake gives the queued nodes back twice.
StepperShutdown_twice(reason) ==
    /\ stepper' = [o \in DOMAIN stepper |-> Stopped(stepper[o])]
    /\ free' = MoveCount + FoldFunction(LAMBDA s, n : n + Len(s.mq), 0, stepper)
    /\ fault' = reason
    /\ held' = {} /\ UNCHANGED too_close

\* The shutdown handlers: stepper_shutdown clears the queues without giving
\* the nodes back, and move_reset puts every node on the free list.
StepperShutdown(reason) ==
    /\ stepper' = [o \in DOMAIN stepper |-> Stopped([stepper[o] EXCEPT !.mq = <<>>])]
    /\ free' = MoveCount
    /\ fault' = reason
    /\ held' = {} /\ UNCHANGED too_close

-----------------------------------------------------------------------------
(* The timer callback *)

StepperEventEdge(o) ==
    LET s == ToggleStep(stepper[o])
    IN  /\ s.single
        /\ IF s.count > 1
           THEN /\ stepper' = [stepper EXCEPT ![o] =
                       [s EXCEPT !.count = @ - 1, !.waketime = @ + s.interval,
                                 !.interval = @ + s.add]]
                /\ UNCHANGED free
           ELSE /\ stepper' = [stepper EXCEPT ![o] = LoadNext(s)]
                /\ free' = free + LoadFreed(s)
        /\ held' = held \ {o} /\ UNCHANGED <<fault, too_close>>

\* stepper_event_full at clock curtime: every step takes two events, and no
\* event comes less than Pulse ticks after the one before.
StepperEventFull(o, curtime) ==
    LET s    == [ToggleStep(stepper[o]) EXCEPT !.count = @ - 1]
        min  == curtime + Pulse
        next == s.next_step_time + s.interval
        l    == LoadNext(s)
        late(t) == t < min
        Set(r)  == /\ stepper' = [stepper EXCEPT ![o] = r]
                   /\ held' = held \ {o} /\ UNCHANGED too_close
    IN  /\ ~s.single
        /\ \/ /\ s.count % 2 = 1
              /\ Set([s EXCEPT !.waketime = min])
              /\ UNCHANGED <<free, fault>>
           \/ /\ s.count % 2 = 0 /\ s.count > 0
              /\ Set([s EXCEPT !.next_step_time = next, !.interval = @ + s.add,
                               !.waketime = IF late(next) THEN min ELSE next])
              /\ UNCHANGED <<free, fault>>
           \/ /\ s.count = 0 /\ (~l.active \/ ~late(l.waketime))
              /\ Set(l)
              /\ free' = free + LoadFreed(s)
              /\ UNCHANGED fault
           \/ /\ s.count = 0 /\ l.active /\ late(l.waketime)
              /\ IF l.waketime - min < -MaxPast
                 THEN StepperShutdown("Stepper too far in past")
                 ELSE /\ Set([l EXCEPT !.waketime = min])
                      /\ free' = free + LoadFreed(s)
                      /\ UNCHANGED fault

\* timer_dispatch_many: timers have kept the processor for too long, and the
\* one that is next is more than MaxPast late.
RescheduledInPast(o, curtime) ==
    /\ stepper[o].waketime - curtime < -MaxPast
    /\ StepperShutdown("Rescheduled timer in the past")

StepperEvent(o, curtime) ==
    \/ StepperEventEdge(o)
    \/ StepperEventFull(o, curtime)
    \/ RescheduledInPast(o, curtime)

-----------------------------------------------------------------------------
(* Commands *)

\* The move that queue_step builds: MF_DIR when the direction changes.
WithDir(s, m) ==
    [interval |-> m.interval, count |-> m.count, add |-> m.add,
     dir |-> s.last_dir # s.next_dir]

Pushed(s, m) ==
    [s EXCEPT !.last_dir = s.next_dir, !.mq = Append(@, WithDir(s, m))]

\* sched_add_timer, at clock curtime, of motor o's timer; s is the motor.  A
\* late timer that is not before the head of the timer list is called at once.
\* One that is gets the present clock and is linked behind the head, which
\* is called first, a while later; once TooCloseMax timers of any part of the
\* firmware have been, the next is a shutdown.  What the head is depends on
\* those parts.
AddTimer(o, s, curtime) ==
    LET late == s.waketime < curtime
    IN  \/ /\ stepper' = [stepper EXCEPT ![o] = s]
           /\ UNCHANGED <<free, fault, too_close, held>>
        \/ /\ late /\ too_close < TooCloseMax
           /\ stepper' = [stepper EXCEPT ![o] = [s EXCEPT !.waketime = curtime]]
           /\ too_close' = too_close + 1 /\ held' = held \cup {o}
           /\ UNCHANGED <<free, fault>>
        \/ /\ late /\ too_close = TooCloseMax
           /\ StepperShutdown("Timer too close")

\* queue_step at clock curtime.
QueueStep(o, m, curtime) ==
    LET s == stepper[o]
        started == [LoadNext(Pushed(s, m)) EXCEPT !.active = TRUE]
    IN  IF free = 0 THEN StepperShutdown("Move queue overflow")
        ELSE \/ /\ s.count > 0
                /\ stepper' = [stepper EXCEPT ![o] = Pushed(s, m)]
                /\ free' = free - 1
                /\ UNCHANGED <<fault, too_close, held>>
             \/ /\ s.count = 0 /\ s.need_reset
                /\ UNCHANGED stepperVars
             \/ /\ s.count = 0 /\ ~s.need_reset
                /\ AddTimer(o, started, curtime)

SetNextStepDir(o, dir) ==
    /\ stepper' = [stepper EXCEPT ![o].next_dir = dir]
    /\ UNCHANGED <<free, fault, too_close, held>>

ResetStepClock(o, clock) ==
    IF stepper[o].count > 0
    THEN StepperShutdown("Can't reset time when stepper active")
    ELSE /\ stepper' = [stepper EXCEPT ![o].next_step_time = clock,
                                       ![o].waketime = clock,
                                       ![o].need_reset = FALSE]
         /\ UNCHANGED <<free, fault, too_close, held>>
=============================================================================
