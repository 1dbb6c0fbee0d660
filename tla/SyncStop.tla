------------------------------ MODULE SyncStop ------------------------------
(***************************************************************************)
(* What trdispatch and the micro-controllers do between home_start and the *)
(* end of a homing, as a real-time protocol: reports travel to the host's  *)
(* serial threads and extensions of the timeouts travel back, with any     *)
(* delays, while the endstop may trigger and the timeouts may run out.     *)
(* The rest of the host (Homing) appears as the trsync_trigger command     *)
(* that ends the move, which it may send at any time.                      *)
(***************************************************************************)
EXTENDS TrDispatch, FiniteSets

CONSTANTS
  Steppers,     \* the micro-controllers that have steppers to be stopped
  FirstReport,  \* when the others report first: home_start staggers them
  LateTime,     \* bound: time stops here if messages are delayed
  MaxFlight     \* bound on the messages under way while time passes

ASSUME SyncStopAssumption ==
  /\ Steppers \subseteq Mcus /\ LateTime \in Nat /\ MaxFlight \in Nat
  /\ FirstReport \subseteq 0..ReportTicks

VARIABLE prompt   \* do messages arrive and tasks run before time passes on?

vars == <<prompt, now, mcuVars, linkVars, trdispatchVars>>

TypeOK == McuTypeOK /\ TrDispatchTypeOK /\ prompt \in BOOLEAN

\* home_start is done and its commands have been executed, at the print
\* time, which is 0 here.
Init ==
  /\ prompt \in BOOLEAN
  /\ now = 0
  /\ flags = [m \in Mcus |-> {"can_trigger"}]
  /\ trigger_reason = [m \in Mcus |-> "none"]
  /\ report_time \in [Mcus -> FirstReport \union {0}]
  /\ report_time[Main] = 0 /\ \A m \in Mcus \ {Main} : report_time[m] \in FirstReport
  /\ expire_time = [m \in Mcus |-> ExpireTicks]
  /\ signal = [m \in Mcus |-> m \in Steppers]
  /\ triggered_at = [m \in Mcus |-> Never]
  /\ homing = [m \in Mcus |-> 1]
  /\ endstop = "homing" /\ endstop_clock = 0
  /\ cmdq = [m \in Mcus |-> <<>>] /\ rspq = [m \in Mcus |-> <<>>]
  /\ lost = 0
  /\ can_trigger = TRUE
  /\ last_status_clock = [m \in Mcus |-> 0]
  /\ expire_clock = [m \in Mcus |-> ExpireTicks]
  /\ fastreaders = Mcus /\ dispatching = [m \in Mcus |-> <<>>]

\* A serial thread takes in a report and calls the fast reader.  That the
\* two are separate matters to the end of a homing only: see Homing.
SerialInput(m) ==
  /\ rspq[m] # <<>>
  /\ rspq' = [rspq EXCEPT ![m] = Tail(@)]
  /\ handle_trsync_state(Head(rspq[m]), m)
  /\ UNCHANGED <<now, mcuVars, fastreaders, dispatching>>

\* MCU_trsync._handle_trsync_state finds the end of the move reached.
PastEndTime ==
  /\ "can_trigger" \in flags[Main]
  /\ \A i \in DOMAIN cmdq[Main] : cmdq[Main][i].op # "trsync_trigger"
  /\ Send(Main, <<[op |-> "trsync_trigger", clock |-> 0, round |-> 1,
                   reason |-> "past_end_time"]>>)
  /\ UNCHANGED <<now, mcuVars, rspq, trdispatchVars>>

NothingLate ==
  \A m \in Mcus : rspq[m] = <<>> /\ cmdq[m] = <<>> /\ "report" \notin flags[m]

TimePasses ==
  /\ Tick
  /\ IF prompt THEN NothingLate
     ELSE /\ now < LateTime
          /\ \A m \in Mcus : Len(rspq[m]) <= MaxFlight /\ Len(cmdq[m]) <= MaxFlight
  /\ UNCHANGED trdispatchVars

Deliver(m) ==
  \/ SerialInput(m)
  \/ (SetTimeout(m) \/ TrsyncTrigger(m)) /\ UNCHANGED trdispatchVars

Work(m) ==
  /\ ExpireEvent(m) \/ ReportEvent(m) \/ ReportTask(m)
  /\ UNCHANGED trdispatchVars

Next ==
  /\ \/ TimePasses
     \/ EndstopEvent /\ UNCHANGED trdispatchVars
     \/ PastEndTime
     \/ \E m \in Mcus : Deliver(m) \/ Work(m)
  /\ UNCHANGED prompt

Spec == Init /\ [][Next]_vars

-----------------------------------------------------------------------------
(***************************************************************************)
(* The steppers of one micro-controller do not move on for longer than     *)
(* expire_ticks after the trsync of another one has triggered, however     *)
(* late the messages are: trdispatch.c lets a timeout count from reports   *)
(* that the other micro-controllers sent before they triggered.            *)
(***************************************************************************)
StopsTogether ==
  \A i, j \in Mcus :
    triggered_at[i] # Never /\ signal[j] => now <= triggered_at[i] + ExpireTicks

(***************************************************************************)
(* When messages are prompt nothing times out: the reports, their stagger  *)
(* and min_extend_ticks renew every timeout before it runs out.            *)
(***************************************************************************)
NoSpuriousTimeout ==
  prompt => \A m \in Mcus : trigger_reason[m] # "comms_timeout"

(***************************************************************************)
(* handle_trsync_state never shortens a timeout: what arrives at a micro-  *)
(* controller is in ascending order, although the code compares the        *)
(* extension with min_extend_ticks unsigned.                               *)
(***************************************************************************)
SetTimeouts(m) ==
  {i \in DOMAIN cmdq[m] : cmdq[m][i].op = "trsync_set_timeout"}
TimeoutsAscend ==
  \A m \in Mcus : \A i \in SetTimeouts(m) :
    /\ cmdq[m][i].clock >= expire_time[m] /\ cmdq[m][i].clock <= expire_clock[m]
    /\ \A j \in SetTimeouts(m) : i < j => cmdq[m][i].clock <= cmdq[m][j].clock

(***************************************************************************)
(* What the host concludes from is true: a report that says can_trigger    *)
(* carries a time at which the trsync had not triggered, and the reports   *)
(* of a micro-controller are in ascending order of their times.            *)
(***************************************************************************)
NotTriggeredAt(m, t) ==
  0 <= t /\ t <= now /\ (triggered_at[m] # Never => t <= triggered_at[m])
GoodReports(m) == {i \in DOMAIN rspq[m] : rspq[m][i].can_trigger}
ReportsSound ==
  \A m \in Mcus :
    /\ NotTriggeredAt(m, last_status_clock[m])
    /\ \A i \in GoodReports(m) :
         /\ NotTriggeredAt(m, rspq[m][i].clock)
         /\ last_status_clock[m] <= rspq[m][i].clock
         /\ \A j \in GoodReports(m) : i < j => rspq[m][i].clock <= rspq[m][j].clock

\* A timeout counts from reports of the others that the host has.
TimeoutsJustified ==
  \A m \in Mcus :
    /\ expire_time[m] <= expire_clock[m]
    /\ \A o \in Others(m) : expire_clock[m] <= last_status_clock[o] + ExpireTicks

\* A trsync that can trigger has a timeout, which has not been missed; one
\* that has triggered does not have its steppers move on.
TimeoutSet ==
  \A m \in Mcus :
    /\ signal[m] => "can_trigger" \in flags[m]
    /\ "can_trigger" \in flags[m] <=> triggered_at[m] = Never
    /\ "can_trigger" \in flags[m] => expire_time[m] # Never /\ now <= expire_time[m]

\* Timeouts only ever move forward, whatever handle_trsync_state makes of
\* reports that are late or come in bunches, and always count from a time
\* at which all the others had not triggered.
TimeoutsInv ==
  TypeOK /\ TimeoutsAscend /\ ReportsSound /\ TimeoutsJustified /\ TimeoutSet
=============================================================================
