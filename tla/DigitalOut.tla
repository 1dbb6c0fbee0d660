----------------------------- MODULE DigitalOut -----------------------------
(***************************************************************************)
(* A digital output of the micro-controller with software PWM and a safety *)
(* limit: gpiocmds.c.                                                      *)
(*                                                                         *)
(* The host queues settings, each with the clock at which it takes effect. *)
(* One timer serves two callbacks: digital_load_event applies the next     *)
(* setting, digital_toggle_event turns the pin on and off within a cycle.  *)
(* Unless a setting brings the pin to its default level, the next one must *)
(* take effect within max_duration, or the firmware shuts down.            *)
(***************************************************************************)
EXTENDS Integers, Sequences

CONSTANTS CycleTime,      \* cycle_time
          MaxDuration,    \* max_duration
          DefaultOn,      \* DF_DEFAULT_ON
          Slots,          \* move nodes reserved for the pin
          HeadWait,       \* longest time to the list's next timer: 100 ms
          TooCloseMax     \* late timers that sched_add_timer tolerates

ASSUME DigitalOutAssumption ==
    /\ CycleTime \in Nat \ {0} /\ MaxDuration \in Nat /\ Slots \in Nat \ {0}
    /\ DefaultOn \in BOOLEAN /\ HeadWait \in Nat /\ TooCloseMax \in Nat

VARIABLES pin,            \* struct digital_out_s and the level of the pin
          shut,           \* "none" or the reason of the shutdown
          too_close,      \* too_close_c: late timers tolerated so far
          held            \* does the pin's timer wait behind the list's head?

digitalVars == <<pin, shut, too_close, held>>

\* config_digital_out with value = default_value, as a pin with a
\* max_duration must have.
PinInit ==
    /\ pin = [active |-> FALSE, func |-> "load", waketime |-> 0,
              on_duration |-> 0, off_duration |-> 0, end_time |-> 0,
              mq |-> <<>>, on |-> DefaultOn, toggling |-> FALSE,
              check_end |-> FALSE, level |-> DefaultOn]
    /\ shut = "none"
    /\ too_close \in 0..TooCloseMax /\ held = FALSE

\* digital_out_shutdown; the shutdown also stops every timer.
PinShutdown(reason) ==
    /\ pin' = [pin EXCEPT !.level = DefaultOn, !.on = DefaultOn, !.mq = <<>>,
                          !.toggling = FALSE, !.check_end = FALSE,
                          !.active = FALSE]
    /\ shut' = reason
    /\ held' = FALSE /\ UNCHANGED too_close

\* digital_toggle_event.
ToggleEvent ==
    LET on   == ~pin.on
        next == pin.waketime + (IF on THEN pin.on_duration ELSE pin.off_duration)
        end  == pin.check_end /\ next >= pin.end_time
    IN  /\ pin.func = "toggle"
        /\ pin' = [pin EXCEPT !.level = ~@, !.on = on,
                              !.func = IF end THEN "load" ELSE @,
                              !.waketime = IF end THEN pin.end_time ELSE next]
        /\ held' = FALSE /\ UNCHANGED <<shut, too_close>>

\* A mistake: a power between none and full has no limit.
Limited_full(m) ==
    /\ MaxDuration # 0
    /\ m.on_duration = 0 \/ m.on_duration >= CycleTime
    /\ (m.on_duration > 0) # DefaultOn

\* Has a setting an end, when nothing is queued behind it?  It has unless
\* it leaves the pin at its default level.
Limited(m) ==
    LET steady == m.on_duration = 0 \/ m.on_duration >= CycleTime
    IN  /\ MaxDuration # 0
        /\ ~(steady /\ ((m.on_duration > 0) = DefaultOn))

\* digital_load_event: the setting m is applied and the timer prepared.
LoadEvent ==
    LET m     == Head(pin.mq)
        rest  == Tail(pin.mq)
        on    == m.on_duration > 0
        pwm   == on /\ m.on_duration < CycleTime
        limit == pin.waketime + MaxDuration
        end   == IF rest # <<>> THEN Head(rest).waketime
                 ELSE IF Limited(m) THEN limit ELSE 0
        check == rest # <<>> \/ Limited(m)
        wake  == pin.waketime + m.on_duration
        loaded == [pin EXCEPT !.level = on, !.on = on, !.mq = rest,
                              !.end_time = end, !.check_end = check,
                              !.toggling = pwm]
    IN  /\ pin.func = "load"
        /\ IF pin.mq = <<>>
           THEN PinShutdown("Missed scheduling of next digital out event")
           ELSE IF rest # <<>> /\ Limited(m) /\ limit < Head(rest).waketime
           THEN PinShutdown("Scheduled digital out event will exceed max_duration")
           ELSE /\ pin' = IF pwm /\ (~check \/ wake < end)
                          THEN [loaded EXCEPT !.func = "toggle", !.waketime = wake,
                                              !.on_duration = m.on_duration,
                                              !.off_duration = CycleTime - m.on_duration]
                          ELSE IF check THEN [loaded EXCEPT !.waketime = end]
                          ELSE [loaded EXCEPT !.active = FALSE]
                /\ held' = FALSE /\ UNCHANGED <<shut, too_close>>

PinEvent(now) ==
    /\ pin.active /\ pin.waketime <= now
    /\ ToggleEvent \/ LoadEvent

\* A mistake: a toggling pin waits for the new setting without toggling.
GoesOn_never(m) == FALSE

\* A pin that toggles goes on doing so: the toggle event loads the setting m
\* when its time has come.
GoesOn(m) == pin.toggling /\ pin.waketime < m.waketime

\* sched_add_timer, at clock now, of the pin's timer; p is the pin.  A late
\* timer that is not before the head of the timer list, which is a timer of
\* some other part, is called at once.  One that is gets the present clock and
\* is linked behind the head, which is called first; once TooCloseMax timers
\* of any part of the firmware have been, the next is a shutdown.
AddTimer(p, now) ==
    LET late == p.waketime < now
    IN  \/ /\ pin' = p /\ held' = FALSE
           /\ UNCHANGED <<shut, too_close>>
        \/ /\ late /\ too_close < TooCloseMax
           /\ pin' = [p EXCEPT !.waketime = now] /\ held' = TRUE
           /\ too_close' = too_close + 1
           /\ UNCHANGED shut
        \/ /\ late /\ too_close = TooCloseMax
           /\ PinShutdown("Timer too close")

\* queue_digital_out at clock now.
QueueDigitalOut(m, now) ==
    LET queued == [pin EXCEPT !.mq = Append(@, m)]
        first  == [queued EXCEPT !.end_time = m.waketime, !.check_end = TRUE]
        Put(p) == pin' = p /\ UNCHANGED <<shut, too_close, held>>
    IN  IF Len(pin.mq) >= Slots THEN PinShutdown("Move queue overflow")
        ELSE IF pin.mq # <<>> THEN Put(queued)
        ELSE IF pin.check_end /\ pin.end_time < m.waketime
        THEN PinShutdown("Scheduled digital out event will exceed max_duration")
        ELSE IF GoesOn(m) THEN Put(first)
        ELSE AddTimer([first EXCEPT !.active = TRUE, !.func = "load",
                                    !.waketime = m.waketime], now)
=============================================================================
