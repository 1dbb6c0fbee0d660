------------------------------- MODULE Trsync -------------------------------
(***************************************************************************)
(* Synchronised stop of the steppers of several micro-controllers: the     *)
(* micro-controllers' part (src/klipper/src/trsync.c, endstop.c and        *)
(* stepper_stop).  A trsync stops its steppers when the endstop triggers,  *)
(* when the host says so, or when the host has not extended its timeout.   *)
(* All clocks are read off one discrete time `now': the host's estimate of *)
(* a micro-controller's clock is taken as exact.                           *)
(***************************************************************************)
EXTENDS Integers, Sequences

CONSTANTS
  Mcus,          \* the micro-controllers that take part in a homing
  Main,          \* the one that has the endstop
  ReportTicks,   \* interval of the status reports
  MaxTime,       \* bound: time stops here
  MaxLost        \* bound on the reports that find transmit_buf full

ASSUME McusAssumption == Main \in Mcus
ASSUME TicksAssumption == ReportTicks \in Nat \ {0} /\ MaxTime \in Nat
                          /\ MaxLost \in Nat

Never == -1
Time  == Nat \union {Never}
Reasons == {"none", "endstop_hit", "comms_timeout", "host_request",
            "past_end_time"}

VARIABLES
  now,
  flags,            \* per trsync: subset of {"can_trigger", "report"}
  trigger_reason,
  report_time, expire_time,   \* when the two timers fire, or Never
  signal,           \* whether the steppers are registered to be stopped
  triggered_at,       \* history: when the trsync was triggered
  homing,           \* history: the homing that trsync_start began last
  endstop,          \* "off", "homing" or "done"
  endstop_clock,    \* when the endstop is looked at first
  cmdq,             \* commands under way to each micro-controller
  rspq,             \* responses and acknowledgements under way to the host
  lost              \* reports lost so far

mcuVars == <<flags, trigger_reason, report_time, expire_time, signal,
             triggered_at, homing, endstop, endstop_clock, lost>>
linkVars == <<cmdq, rspq>>

\* `round' counts homings.  The code does not transmit it.
Command == [op : {"trsync_start", "stepper_stop_on_trigger",
                  "trsync_set_timeout", "trsync_trigger", "trsync_query",
                  "endstop_home", "endstop_off"},
            clock : Time, reason : Reasons, round : Nat]
Response == [ack : BOOLEAN, can_trigger : BOOLEAN, trigger_reason : Reasons,
             clock : Time, round : Nat]

McuTypeOK ==
  /\ now \in Nat
  /\ flags \in [Mcus -> SUBSET {"can_trigger", "report"}]
  /\ trigger_reason \in [Mcus -> Reasons]
  /\ report_time \in [Mcus -> Time] /\ expire_time \in [Mcus -> Time]
  /\ signal \in [Mcus -> BOOLEAN]
  /\ triggered_at \in [Mcus -> Time] /\ homing \in [Mcus -> Nat]
  /\ endstop \in {"off", "homing", "done"} /\ endstop_clock \in Time
  /\ cmdq \in [Mcus -> Seq(Command)]
  /\ rspq \in [Mcus -> Seq(Response)]
  /\ lost \in 0..MaxLost

McuInit ==
  /\ now = 0
  /\ flags = [m \in Mcus |-> {}]
  /\ trigger_reason = [m \in Mcus |-> "none"]
  /\ report_time = [m \in Mcus |-> Never]
  /\ expire_time = [m \in Mcus |-> Never]
  /\ signal = [m \in Mcus |-> FALSE]
  /\ triggered_at = [m \in Mcus |-> Never] /\ homing = [m \in Mcus |-> 0]
  /\ endstop = "off" /\ endstop_clock = Never
  /\ cmdq = [m \in Mcus |-> <<>>] /\ rspq = [m \in Mcus |-> <<>>]
  /\ lost = 0

-----------------------------------------------------------------------------
\* trsync_do_trigger: the first reason stays, and the steppers stop.
trsync_do_trigger(m, reason) ==
  IF "can_trigger" \in flags[m]
  THEN /\ trigger_reason' = [trigger_reason EXCEPT ![m] = reason]
       /\ triggered_at' = [triggered_at EXCEPT ![m] = now]
       /\ signal' = [signal EXCEPT ![m] = FALSE]
  ELSE UNCHANGED <<trigger_reason, triggered_at, signal>>
\* (a mutated form: a trigger is not reported)
FlagsAfterTrigger_quiet(m) ==
  IF "can_trigger" \in flags[m] THEN {} ELSE flags[m]
FlagsAfterTrigger(m) ==
  IF "can_trigger" \in flags[m] THEN {"report"} ELSE flags[m]

Due(t) == t # Never /\ t <= now

\* trsync_expire_event
ExpireEvent(m) ==
  /\ Due(expire_time[m])
  /\ expire_time' = [expire_time EXCEPT ![m] = Never]
  /\ trsync_do_trigger(m, "comms_timeout")
  /\ flags' = [flags EXCEPT ![m] = FlagsAfterTrigger(m)]
  /\ UNCHANGED <<now, report_time, homing, endstop, endstop_clock, lost,
                 linkVars>>

\* trsync_report_event
ReportEvent(m) ==
  /\ Due(report_time[m])
  /\ report_time' = [report_time EXCEPT ![m] = @ + ReportTicks]
  /\ flags' = [flags EXCEPT ![m] = @ \union {"report"}]
  /\ UNCHANGED <<now, trigger_reason, expire_time, signal, triggered_at,
                 homing, endstop, endstop_clock, lost, linkVars>>

\* endstop_event and endstop_oversample_event: the switch may be found
\* closed at any time from endstop_clock on.
EndstopEvent ==
  /\ endstop = "homing" /\ Due(endstop_clock)
  /\ endstop' = "done"
  /\ trsync_do_trigger(Main, "endstop_hit")
  /\ flags' = [flags EXCEPT ![Main] = FlagsAfterTrigger(Main)]
  /\ UNCHANGED <<now, report_time, expire_time, homing, endstop_clock, lost,
                 linkVars>>

\* trsync_report: a response that finds no room is dropped.
Report(m, more, can, reason, clock, round) ==
  LET r == [ack |-> FALSE, can_trigger |-> can, trigger_reason |-> reason,
            clock |-> clock, round |-> round]
  IN  \/ rspq' = [rspq EXCEPT ![m] = @ \o <<r>> \o more] /\ lost' = lost
      \/ /\ lost < MaxLost
         /\ rspq' = [rspq EXCEPT ![m] = @ \o more] /\ lost' = lost + 1

\* trsync_task: the clock is read before the flags, so a report that the
\* trsync can still trigger never claims more than it knows.  A clock of an
\* earlier report would: (a mutated form)
ReportClock_previous(m) == report_time[m] - 2 * ReportTicks
ReportClock(m) == now
ReportTask(m) ==
  /\ "report" \in flags[m]
  /\ flags' = [flags EXCEPT ![m] = @ \ {"report"}]
  /\ Report(m, <<>>, "can_trigger" \in flags[m], trigger_reason[m],
            ReportClock(m), homing[m])
  /\ UNCHANGED <<now, trigger_reason, report_time, expire_time, signal,
                 triggered_at, homing, endstop, endstop_clock, cmdq>>

-----------------------------------------------------------------------------
NextCommand(m, op) == cmdq[m] # <<>> /\ Head(cmdq[m]).op = op
Consume(m) == cmdq' = [cmdq EXCEPT ![m] = Tail(@)]

\* command_trsync_start
TrsyncStart(m) ==
  /\ NextCommand(m, "trsync_start") /\ Consume(m)
  /\ flags' = [flags EXCEPT ![m] = {"can_trigger"}]
  /\ trigger_reason' = [trigger_reason EXCEPT ![m] = "none"]
  /\ report_time' = [report_time EXCEPT ![m] = Head(cmdq[m]).clock]
  /\ expire_time' = [expire_time EXCEPT ![m] = Never]
  /\ signal' = [signal EXCEPT ![m] = FALSE]
  /\ triggered_at' = [triggered_at EXCEPT ![m] = Never]
  /\ homing' = [homing EXCEPT ![m] = Head(cmdq[m]).round]
  /\ UNCHANGED <<now, endstop, endstop_clock, lost, rspq>>

\* command_stepper_stop_on_trigger
StopOnTrigger(m) ==
  /\ NextCommand(m, "stepper_stop_on_trigger") /\ Consume(m)
  /\ signal' = [signal EXCEPT ![m] = TRUE]
  /\ UNCHANGED <<now, flags, trigger_reason, report_time, expire_time,
                 triggered_at, homing, endstop, endstop_clock, lost, rspq>>

\* command_trsync_set_timeout
SetTimeout(m) ==
  /\ NextCommand(m, "trsync_set_timeout") /\ Consume(m)
  /\ expire_time' = IF "can_trigger" \in flags[m]
                    THEN [expire_time EXCEPT ![m] = Head(cmdq[m]).clock]
                    ELSE expire_time
  /\ UNCHANGED <<now, flags, trigger_reason, report_time, signal, triggered_at,
                 homing, endstop, endstop_clock, lost, rspq>>

\* command_trsync_trigger.  A query is the same command with a sender that
\* waits for the acknowledgement, which follows the response.
TrsyncTrigger(m) ==
  LET c   == Head(cmdq[m])
      ack == [ack |-> TRUE, can_trigger |-> FALSE, trigger_reason |-> "none",
              clock |-> 0, round |-> c.round]
  IN  /\ NextCommand(m, "trsync_trigger") \/ NextCommand(m, "trsync_query")
      /\ Consume(m)
      /\ trsync_do_trigger(m, c.reason)
      /\ flags' = [flags EXCEPT ![m] = {}]
      /\ report_time' = [report_time EXCEPT ![m] = Never]
      /\ expire_time' = [expire_time EXCEPT ![m] = Never]
      /\ Report(m, IF c.op = "trsync_query" THEN <<ack>> ELSE <<>>,
                FALSE, trigger_reason'[m], 0, c.round)
      /\ UNCHANGED <<now, homing, endstop, endstop_clock>>

\* command_endstop_home
EndstopHome(m) ==
  /\ NextCommand(m, "endstop_home") \/ NextCommand(m, "endstop_off")
  /\ Consume(m)
  /\ endstop' = IF Head(cmdq[m]).op = "endstop_home" THEN "homing" ELSE "off"
  /\ endstop_clock' = Head(cmdq[m]).clock
  /\ UNCHANGED <<now, flags, trigger_reason, report_time, expire_time, signal,
                 triggered_at, homing, lost, rspq>>

\* Time passes when no timer is due.
Tick ==
  /\ now < MaxTime
  /\ \A m \in Mcus : ~Due(report_time[m]) /\ ~Due(expire_time[m])
  /\ now' = now + 1
  /\ UNCHANGED <<mcuVars, linkVars>>
=============================================================================
