----------------------------- MODULE HeaterLoop -----------------------------
(***************************************************************************)
(* A heater: the temperature reports of the micro-controller, the host's   *)
(* control of the power (heaters.py, MCU_pwm of mcu.py) and the heater pin *)
(* (DigitalOut).  The host may stop at any instant and start again; the    *)
(* micro-controller keeps running.  Time is the micro-controller's clock,  *)
(* a power is the number of ticks of a cycle the pin is on.                *)
(***************************************************************************)
EXTENDS DigitalOut, SequencesExt, FiniteSets, FiniteSetsExt

CONSTANTS ReportTime,     \* REPORT_TIME, which is also pwm_delay
          KeepTime,       \* 0.75 * MAX_HEAT_TIME
          Significant,    \* least change of the power worth a command (0.05)
          ConnectDelay,   \* the 0.200 of MCU_pwm._build_config
          RestartTime,    \* least time the host needs to start again
          Changes,        \* bound: changes of the target
          LatePowers,     \* bound: powers that a host asks for that may be late
          Horizon         \* bound: last clock of a behaviour

ASSUME HeaterAssumption ==
    /\ {ReportTime, KeepTime, Significant, RestartTime, Horizon} \subseteq Nat \ {0}
    /\ {ConnectDelay, Changes} \subseteq Nat /\ LatePowers \subseteq 0..CycleTime

Powers == 0..CycleTime

VARIABLES punctual,       \* is the host never late?
          now,
          reports,        \* read times of the reports on their way
          alive,          \* is the host running?
          since,          \* clock of the crash or of the restart, or 0
          target,         \* is target_temp above zero?
          off_since,      \* clock at which the target of a punctual host became 0
          changes,        \* changes of the target so far
          last_pwm_value, next_pwm_time, last_clock,
          wire,           \* the pin's command queue
          settings,       \* settings delivered, from the one in force on
          late,           \* has a setting come after its time?
          applied         \* clock at which the pin took its last setting, or 0

hostVars == <<alive, since, target, off_since, changes, last_pwm_value,
              next_pwm_time, last_clock>>
pastVars == <<settings, late, applied>>
vars == <<digitalVars, hostVars, pastVars, punctual, now, reports, wire>>

Abs(i) == IF i < 0 THEN -i ELSE i
Setting(clock, power) == [waketime |-> clock, on_duration |-> power]

Init ==
    /\ PinInit
    /\ punctual \in BOOLEAN /\ (punctual => too_close = 0)
    /\ now = 1 /\ reports = <<>> /\ wire = <<>>
    /\ settings = <<>> /\ late = FALSE /\ applied = 0
    /\ alive = TRUE /\ since = 0
    /\ target = FALSE /\ off_since = 0 /\ changes = 0
    /\ last_pwm_value = 0 /\ next_pwm_time = 0 /\ last_clock = 0

-----------------------------------------------------------------------------
(* Host *)

\* off_since is asked for only of a host that is never late.
Noted(clock) == IF punctual THEN clock ELSE off_since

\* Heater.set_temp: a command, or TURN_OFF_HEATERS.
SetTemp ==
    /\ shut = "none" /\ alive /\ changes < Changes
    /\ changes' = changes + 1
    /\ target' = ~target
    /\ off_since' = Noted(now)
    /\ UNCHANGED <<digitalVars, alive, since, last_pwm_value, next_pwm_time,
                   last_clock, punctual, now, reports, wire, pastVars>>

\* MCU_pwm.set_pwm: no command leaves before the one before has taken effect.
SendPwm(clock, power) ==
    /\ wire' = Append(wire, [setting |-> Setting(clock, power), min_clock |-> last_clock])
    /\ last_clock' = clock

\* A mistake: an unchanged power is never sent again.
Suppressed_always(read_time, power) == Abs(power - last_pwm_value) < Significant

\* Heater.set_pwm: a power that hardly changes is sent again only to keep the
\* pin on.
Suppressed(read_time, power) ==
    /\ read_time < next_pwm_time \/ last_pwm_value = 0
    /\ Abs(power - last_pwm_value) < Significant

SetPwm(read_time, power) ==
    LET pwm_time == read_time + ReportTime
    IN  IF Suppressed(read_time, power)
        THEN UNCHANGED <<next_pwm_time, last_pwm_value, last_clock, wire>>
        ELSE /\ next_pwm_time' = pwm_time + KeepTime
             /\ last_pwm_value' = power
             /\ SendPwm(pwm_time, power)

\* No power without a target.
Wanted(power) == IF target THEN power ELSE 0

\* Heater.temperature_callback: the control algorithm asks for some power.
TemperatureCallback ==
    /\ shut = "none" /\ alive /\ reports # <<>>
    /\ reports' = Tail(reports)
    /\ \E power \in (IF punctual THEN Powers ELSE LatePowers) :
          SetPwm(Head(reports), Wanted(power))
    /\ UNCHANGED <<digitalVars, alive, since, target, off_since, changes,
                   punctual, now, pastVars>>

\* The host process dies.  Commands that wait for their min_clock die with
\* it, and so may others.
Crash ==
    /\ shut = "none" /\ alive /\ since = 0
    /\ alive' = FALSE /\ since' = now
    /\ \E n \in 0..Len(wire) :
          /\ \A i \in 1..n : wire[i].min_clock < now
          /\ wire' = SubSeq(wire, 1, n)
    /\ reports' = <<>>
    /\ UNCHANGED <<digitalVars, target, off_since, changes, last_pwm_value,
                   next_pwm_time, last_clock, punctual, now, pastVars>>

\* A mistake: the init command is not sent to a configured micro-controller.
InitCommand_none(clock) == wire

\* The init command that MCU_pwm._build_config registers.
InitCommand(clock) == Append(wire, [setting |-> Setting(clock, 0), min_clock |-> 0])

\* It starts again and finds the micro-controller configured: only
\* the init commands are sent, and they switch the pin off.
Restart ==
    /\ shut = "none" /\ ~alive /\ now >= since + RestartTime
    /\ alive' = TRUE /\ since' = now
    /\ target' = FALSE /\ off_since' = Noted(now)
    /\ last_pwm_value' = 0 /\ next_pwm_time' = 0
    /\ last_clock' = now + ConnectDelay
    /\ wire' = InitCommand(now + ConnectDelay)
    /\ UNCHANGED <<digitalVars, changes, punctual, now, reports, pastVars>>

-----------------------------------------------------------------------------
(* Micro-controller *)

\* The settings from the one in force on; only these matter any more.
InForce(s, clock) ==
    LET begun == {i \in DOMAIN s : s[i].waketime <= clock}
    IN  IF begun = {} THEN s ELSE SubSeq(s, Max(begun), Len(s))

\* A late setting whose timer has to wait is a setting for the present clock.
Deliver ==
    LET m == Head(wire).setting
        Waits == held' /\ ~held
    IN  /\ shut = "none" /\ wire # <<>> /\ Head(wire).min_clock < now
        /\ wire' = Tail(wire)
        /\ QueueDigitalOut(m, now)
        /\ late' = (late \/ m.waketime < now)
        /\ settings' = InForce(Append(settings,
                           IF Waits THEN [m EXCEPT !.waketime = now] ELSE m), now)
        /\ UNCHANGED <<hostVars, applied, punctual, now, reports>>

PinTimer ==
    /\ shut = "none"
    /\ PinEvent(now)
    /\ applied' = IF pin.func = "load" /\ shut' = "none" THEN now ELSE applied
    /\ UNCHANGED <<hostVars, settings, late, punctual, now, reports, wire>>

\* The firmware shuts down for a reason of its own, also because a timer is
\* too far in the past, or on emergency_stop.
OtherShutdown ==
    /\ shut = "none"
    /\ PinShutdown("other")
    /\ UNCHANGED <<hostVars, pastVars, punctual, now, reports, wire>>

-----------------------------------------------------------------------------
(* Time.  analog_in_event and analog_in_task report a reading every        *)
(* ReportTime ticks.  A punctual host works off a report before the next,  *)
(* and its commands arrive before they are to take effect.  A timer that   *)
(* is due runs, and one that waits behind the list's head HeadWait ticks   *)
(* later at the latest: the head is never after periodic_timer.            *)

Prompt ==
    /\ alive => \A i \in DOMAIN reports : now + 1 < reports[i] + ReportTime
    /\ \A i \in DOMAIN wire : now < wire[i].setting.waketime

Tick ==
    /\ shut = "none" /\ now < Horizon
    /\ ~(pin.active /\ pin.waketime + (IF held THEN HeadWait ELSE 0) <= now)
    /\ punctual => Prompt
    /\ now' = now + 1
    /\ reports' = IF alive /\ now' % ReportTime = 0 THEN Append(reports, now')
                  ELSE reports
    /\ Len(reports') <= 2
    /\ settings' = InForce(settings, now')
    /\ UNCHANGED <<digitalVars, hostVars, late, applied, punctual, wire>>

Next ==
    \/ SetTemp
    \/ TemperatureCallback
    \/ Crash
    \/ Restart
    \/ Deliver
    \/ PinTimer
    \/ OtherShutdown
    \/ Tick

Spec == Init /\ [][Next]_vars

-----------------------------------------------------------------------------
(* Properties *)

\* The variables hold values of their kind, and the pin has a timer whenever
\* it holds a queue or toggles (gpiocmds.c keeps them in one struct).
TypeOK ==
    /\ pin.level \in BOOLEAN /\ pin.on = pin.level
    /\ pin.func \in {"load", "toggle"}
    /\ Len(pin.mq) <= Slots
    /\ pin.mq # <<>> \/ pin.toggling \/ pin.check_end => pin.active
    /\ pin.on_duration \in Powers /\ pin.off_duration \in Powers
    /\ last_pwm_value \in Powers
    /\ now \in 1..Horizon

Due == pin.active /\ pin.waketime <= now

\* The setting in force: the last one delivered whose time has come.
Begun == {i \in DOMAIN settings : settings[i].waketime <= now}
Current == settings[Max(Begun)]

\* The level the setting in force asks for at this clock.
Demanded ==
    IF Begun = {} THEN DefaultOn
    ELSE (now - Current.waketime) % CycleTime < Current.on_duration

\* The pin has, at every clock, the level that the setting in force asks for,
\* whenever the settings arrive between the events of digital_toggle_event
\* and digital_load_event, and however they replace a cycle under way
\* (queue_digital_out leaves a toggling timer alone or takes it over).  A
\* late setting is in force from its own clock as soon as it comes, or, if its
\* timer has to wait, from the clock at which it came, once that wait is over.
PinFollowsSettings == shut = "none" /\ ~Due => pin.level = Demanded

\* A heater without fresh commands is switched off: MAX_HEAT_TIME after the
\* pin took its last setting at the latest it is at its default level,
\* whatever becomes of the host or of its messages.  Only a setting that comes
\* late may keep it on for longer, for as long as its timer has to wait.
OffAfterSilence ==
    pin.level # DefaultOn =>
        /\ applied # 0
        /\ now <= applied + MaxDuration + (IF held THEN HeadWait ELSE 0)

\* As long as the host is on time and does not stop, the safety limit, the
\* one slot in the move queue and the clocks of the settings never shut the
\* firmware down: what Heater.set_pwm leaves unsent is sent before
\* max_duration ends, and min_clock keeps the pin's queue short.
NoSpuriousShutdown ==
    punctual /\ alive /\ since = 0 => shut \in {"none", "other"}

\* A restarted host that is on time switches a pin off that the one before
\* left on: after the init command's clock no more than an insignificant
\* power is in force until the target is set again.
OffAfterRestart ==
    /\ punctual /\ alive /\ since # 0 /\ shut = "none" /\ ~Due
    /\ ~target /\ off_since = since /\ now > since + ConnectDelay
    => pin.level = DefaultOn

\* Two reports after the target became zero the host, if on time, has the
\* power below the significant one, and once the power in force had to be
\* renewed the pin is off.
OffWhenTargetZero ==
    punctual /\ alive /\ shut = "none" /\ ~Due /\ ~target /\ Begun # {} =>
        /\ now > off_since + 2 * ReportTime => Current.on_duration < Significant
        /\ now > off_since + KeepTime + 3 * ReportTime => pin.level = DefaultOn

\* The pin and the settings it was sent agree at every clock.
PinInv == TypeOK /\ PinFollowsSettings

\* A punctual host gets a heater off that nobody wants on, also one that the
\* host before it left on.
OffWhenUnwanted == OffWhenTargetZero /\ OffAfterRestart
=============================================================================
