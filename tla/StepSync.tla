------------------------------ MODULE StepSync ------------------------------
(***************************************************************************)
(* The motors of one micro-controller, from the step times the kinematics  *)
(* produce to the pulses on the pins.                                      *)
(*                                                                         *)
(* The host generates steps, flushes them now and then (toolhead.py,       *)
(* stepcompress.c), and sends the commands down one ordered command queue, *)
(* each not before its min_clock.  The micro-controller executes a command *)
(* when it arrives and a step when its timer is due (stepper.c).  In a     *)
(* homing move a trsync stops all motors at some instant; the host learns  *)
(* of it later, discards what it had planned and asks for the positions    *)
(* (stepper.py note_homing_end).  Time is the micro-controller's clock.    *)
(***************************************************************************)
EXTENDS Stepper, StepCompress

CONSTANTS Scenarios,     \* the instances: see Init
          Horizon,       \* last clock of a behaviour
          Transit        \* least ticks a command is under way

\* steppersync takes a node for free when the last step of the move before
\* is due; the firmware frees it Pulse ticks later, with the pulse's end.
ASSUME TransitAssumption == Transit \in Nat /\ Transit > Pulse

\* No motor is moved further than Bias steps from where it is at power-up,
\* nor so far that a position reaches the sign bit (Bias is 2^30, W is 32).
ASSUME ScenariosAssumption ==
    /\ Horizon \in Nat \ {0} /\ Horizon < Forever
    /\ \A s \in Scenarios :
          /\ s.single \in BOOLEAN /\ s.invert \in {0, 1}
          /\ s.homing \in BOOLEAN /\ s.punctual \in BOOLEAN
          /\ s.plan \in Seq(Seq([gap : Nat \ {0}, dir : {0, 1}]))
          /\ \A o \in DOMAIN s.plan :
                Len(s.plan[o]) < Bias /\ Bias + Len(s.plan[o]) < TopBit

VARIABLES scenario,      \* the instance
          now,           \* clock
          sc,            \* oid -> struct stepcompress
          move_clocks,   \* steppersync's heap
          wire,          \* the command queue, oldest command first
          flushed,       \* last_flush_time
          generated,     \* oid -> clock of the last step generated
          steps,         \* oid -> number of steps generated
          phase,         \* "homing", "querying", "done"
          stop,          \* clock of the trigger, or 0
          synced,        \* clock of the position query's answer, or 0
          past           \* oid -> the motor's place at the end of each clock

hostVars == <<sc, move_clocks, flushed, generated, steps, phase, synced>>
vars == <<stepperVars, hostVars, scenario, now, wire, stop, past>>

Oids == DOMAIN stepper
Sign(o) == IF sc[o].invert_sdir = 1 THEN -1 ELSE 1

\* scenario: whether the motors step on every edge, whether their direction
\* is inverted, whether the move is a homing move, whether the host is never
\* late, and each motor's plan: the direction of every step and the ticks
\* between it and the one before.
Init ==
    /\ scenario \in Scenarios
    /\ StepperInit(scenario.single, DOMAIN scenario.plan)
    /\ scenario.punctual => too_close = 0
    /\ sc = [o \in DOMAIN scenario.plan |-> NewStepCompress(scenario.invert)]
    /\ move_clocks = [p \in 1..MoveCount |-> 0]
    /\ wire = <<>> /\ now = 1 /\ flushed = 0
    /\ generated = [o \in DOMAIN scenario.plan |-> 1]
    /\ steps = [o \in DOMAIN scenario.plan |-> 0]
    /\ phase = IF scenario.homing THEN "homing" ELSE "done"
    /\ stop = 0 /\ synced = 0
    /\ past = [o \in DOMAIN scenario.plan |-> <<>>]

-----------------------------------------------------------------------------
(* Host *)

\* itersolve_generate_steps: the next n steps of a motor's plan, each after
\* what was flushed.
StepClock(o, n) ==
    Max({generated[o], flushed, now})
        + FoldSet(LAMBDA k, sum : sum + scenario.plan[o][steps[o] + k].gap, 0, 1..n)

Generate(o, n) ==
    LET after[k \in 0..n] ==
            IF k = 0 THEN {sc[o]}
            ELSE UNION {stepcompress_append(x, scenario.plan[o][steps[o] + k].dir,
                                            StepClock(o, k)) : x \in after[k - 1]}
    IN  after[n]

\* ToolHead._advance_flush_time: steps are generated beyond flush_time, then
\* the commands up to flush_time are sent (flush_moves).  A call that
\* changes nothing but last_flush_time is left out.
AdvanceFlushTime ==
    /\ fault = "none"
    /\ \E n \in [Oids -> 0..Max({Len(scenario.plan[o]) : o \in Oids})] :
          /\ \A o \in Oids : /\ steps[o] + n[o] <= Len(scenario.plan[o])
                             /\ n[o] > 0 => phase # "querying"
          /\ generated' = [o \in Oids |-> IF n[o] = 0 THEN generated[o]
                                          ELSE StepClock(o, n[o])]
          /\ \A o \in Oids : generated'[o] <= Horizon
          /\ steps' = [o \in Oids |-> steps[o] + n[o]]
          /\ \E flush_time \in UNION {{generated'[o] - 1, generated'[o]} : o \in Oids} :
                /\ flush_time \in flushed..Horizon
                /\ flushed' = flush_time
                /\ \E x \in EachOf([o \in Oids |-> Generate(o, n[o])]) :
                   \E st \in steppersync_flush(x, move_clocks, flush_time) :
                      /\ st.sc # sc
                      /\ sc' = st.sc
                      /\ move_clocks' = st.move_clocks
                      /\ wire' = wire \o st.msgs
    /\ UNCHANGED <<stepperVars, phase, synced, scenario, now, stop, past>>

\* MCU_stepper.note_homing_end, up to the query it waits for.
NoteHomingEnd ==
    LET Reset(o) == UNION {stepcompress_queue_msg(y, "reset_step_clock", 0) :
                              y \in stepcompress_reset(sc[o], 0)}
    IN  /\ fault = "none" /\ phase = "homing" /\ stop # 0
        /\ phase' = "querying"
        /\ sc' \in EachOf([o \in Oids |-> Reset(o)])
        /\ UNCHANGED <<stepperVars, move_clocks, flushed, generated, steps, synced,
                       scenario, now, wire, stop, past>>

\* The answer to stepper_get_position arrives: _query_mcu_position.
QueryAnswered ==
    LET Known(o) == stepcompress_set_last_position(sc[o], now,
                        Sign(o) * Reported(stepper[o]))
    IN  /\ fault = "none" /\ phase = "querying"
        /\ phase' = "done" /\ synced' = now
        /\ sc' \in EachOf([o \in Oids |-> Known(o)])
        /\ UNCHANGED <<stepperVars, move_clocks, flushed, generated, steps,
                       scenario, now, wire, stop, past>>

-----------------------------------------------------------------------------
(* Micro-controller *)

\* The first command of the queue arrives, not before its min_clock.
Deliver ==
    /\ fault = "none"
    /\ wire # <<>> /\ now >= Head(wire).min_clock + Transit
    /\ wire' = Tail(wire)
    /\ LET m == Head(wire)
       IN  \/ m.kind = "queue_step" /\ QueueStep(m.oid, m.arg, now)
           \/ m.kind = "set_next_step_dir" /\ SetNextStepDir(m.oid, m.arg)
           \/ m.kind = "reset_step_clock" /\ ResetStepClock(m.oid, m.arg)
    /\ UNCHANGED <<hostVars, scenario, now, stop, past>>

Due(o) == stepper[o].active /\ stepper[o].waketime <= now

Step(o) ==
    /\ fault = "none"
    /\ Due(o)
    /\ StepperEvent(o, now)
    /\ UNCHANGED <<hostVars, scenario, now, wire, stop, past>>

\* trsync_do_trigger calls stepper_stop for every motor, with interrupts off.
Trigger ==
    /\ fault = "none"
    /\ phase = "homing" /\ stop = 0
    /\ stop' = now
    /\ stepper' = [o \in Oids |-> Stopped(stepper[o])]
    /\ free' = free + MapThenSumSet(LAMBDA o : Len(stepper[o].mq), Oids)
    /\ held' = {}
    /\ UNCHANGED <<fault, too_close, hostVars, scenario, now, wire, past>>

-----------------------------------------------------------------------------
(* Time *)

\* The commands for a motor that have not arrived.
Undelivered(o) == SelectSeq(wire, LAMBDA m : m.oid = o) \o sc[o].msg_queue
IsReset(m) == m.kind = "reset_step_clock"
Resets(o) ==
    {i \in DOMAIN Undelivered(o) : IsReset(Undelivered(o)[i])}

\* The motor has been stopped and reset_step_clock has not arrived since.
AwaitsReset(o) ==
    /\ stop # 0
    /\ \/ phase = "homing"
       \/ \E i \in DOMAIN wire : wire[i].oid = o /\ IsReset(wire[i])
       \/ \E i \in DOMAIN sc[o].msg_queue : IsReset(sc[o].msg_queue[i])

\* The commands that have not arrived and are not obsolete.
Pending(o) ==
    IF Resets(o) # {}
    THEN SubSeq(Undelivered(o), Max(Resets(o)) + 1, Len(Undelivered(o)))
    ELSE IF AwaitsReset(o) THEN <<>>
    ELSE Undelivered(o)

\* The steps that have not arrived.
Unsent(o) ==
    {Pending(o)[i].arg.first :
        i \in {j \in DOMAIN Pending(o) : Pending(o)[j].kind = "queue_step"}}
    \cup IF phase = "homing" /\ AwaitsReset(o) THEN {}
         ELSE Range(sc[o].queue) \cup ({sc[o].next_step_clock} \ {0})

InTime == \A o \in Oids : \A clock \in Unsent(o) : clock > now

\* Timers run when they are due, unless they wait behind another one.
Tick ==
    /\ fault = "none"
    /\ now < Horizon
    /\ \A o \in Oids \ held : ~Due(o)
    /\ scenario.punctual => InTime
    /\ now' = now + 1
    /\ past' = [o \in Oids |-> Append(past[o], stepper[o].motor)]
    /\ UNCHANGED <<stepperVars, hostVars, scenario, wire, stop>>

Next ==
    \/ AdvanceFlushTime
    \/ NoteHomingEnd
    \/ QueryAnswered
    \/ Deliver
    \/ \E o \in Oids : Step(o)
    \/ Trigger
    \/ Tick

Spec == Init /\ [][Next]_vars

-----------------------------------------------------------------------------
(* Properties *)

TypeOK ==
    /\ now \in 1..Horizon /\ flushed \in 0..Horizon /\ stop \in 0..Horizon
    /\ free \in Nat /\ phase \in {"homing", "querying", "done"}
    /\ fault \in {"none", "Move queue overflow", "Timer too close",
                 "Stepper too far in past", "Rescheduled timer in the past",
                 "Can't reset time when stepper active"}
    /\ too_close \in 0..TooCloseMax /\ held \subseteq Oids
    /\ \A o \in Oids :
          /\ stepper[o].count \in Nat /\ stepper[o].position \in 0..(2^W - 1)
          /\ stepper[o].waketime \in Int /\ stepper[o].step_pin \in {0, 1}
          /\ sc[o].next_step_clock \in 0..Horizon /\ sc[o].sdir \in {-1, 0, 1}

\* The position the firmware computes, from a count of steps planned, a
\* count of half steps left and a sign bit, is the place the pulses brought
\* the motor to: in every state, within a move, after a change of direction
\* and after a stop between the two edges of a pulse.
PositionIsTheMotors == \A o \in Oids : Reported(stepper[o]) = stepper[o].motor

\* No node of the pool is lost or freed twice: neither a stop, nor a move
\* dropped because the motor was stopped, nor a shutdown loses one.
NodesConserved ==
    free + MapThenSumSet(LAMBDA o : Len(stepper[o].mq), Oids) = MoveCount

\* A motor whose timer is off has no moves left: queue_step tells by the
\* step count whether the timer runs.
NoMoveStranded ==
    \A o \in Oids : /\ stepper[o].active <=> stepper[o].count > 0
                    /\ stepper[o].count = 0 => stepper[o].mq = <<>>

\* A host that is on time causes no shutdown, in a homing move either: its
\* account of the pool is right, so that the micro-controller has a node for
\* every move that arrives, no step is too late, and reset_step_clock never
\* finds the motor running.
NoFaultOnTime == scenario.punctual => fault = "none"

\* From a stop until reset_step_clock arrives no step is taken, whatever
\* commands of the abandoned move still arrive.
StandsStill ==
    [][\A o \in Oids : AwaitsReset(o) /\ AwaitsReset(o)'
                          => stepper'[o].motor = stepper[o].motor]_vars

\* Compression, flushes at any point and changes of direction lose no step:
\* the host's position, with the steps it has not compressed yet, is the sum
\* of the plan.  A step back that cancels a step forth counts as both.
NoStepLost ==
    stop = 0 =>
        \A o \in Oids :
            LET dir(d) == IF d = 1 THEN 1 ELSE -1
            IN  sc[o].last_position + dir(sc[o].sdir) * Len(sc[o].queue)
                   + (IF sc[o].next_step_clock = 0 THEN 0 ELSE dir(sc[o].next_step_dir))
                = FoldSet(LAMBDA k, sum : sum + dir(scenario.plan[o][k].dir), 0,
                          1..steps[o])

\* When everything generated has been sent and executed, the host's position
\* of a motor is the motor's, also after a homing move that was cut short.
HostKnowsPosition ==
    \A o \in Oids :
        (/\ phase = "done" /\ fault = "none" /\ wire = <<>>
         /\ sc[o].msg_queue = <<>> /\ sc[o].queue = <<>>
         /\ sc[o].next_step_clock = 0 /\ stepper[o].count = 0)
            => sc[o].last_position = Sign(o) * stepper[o].motor

\* Where the host says a motor was at an earlier clock, there it was: before
\* the trigger of a homing move (that is how the trigger position is found)
\* and after the position was queried.  The history of the time between
\* holds the steps that were planned and not taken.
PastPositionIsTrue ==
    (scenario.punctual /\ fault = "none")
        => \A o \in Oids : \A clock \in 1..now - 1 :
              (stop = 0 \/ clock < stop \/ (synced # 0 /\ clock >= synced))
                 => stepcompress_find_past_position(sc[o], clock)
                        = Sign(o) * past[o][clock]

\* The pool and the queues that share it stay whole.
PoolInv == TypeOK /\ NodesConserved /\ NoMoveStranded

\* Planned, compressed and real positions agree.
PositionsAgree == NoStepLost /\ HostKnowsPosition
=============================================================================
