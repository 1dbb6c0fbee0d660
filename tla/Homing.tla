------------------------------- MODULE Homing -------------------------------
(***************************************************************************)
(* Homing with steppers on several micro-controllers: MCU_endstop and      *)
(* MCU_trsync of klippy/mcu.py drive trdispatch (TrDispatch) and the       *)
(* micro-controllers (Trsync).  One process per thread: the reactor runs   *)
(* home_start and home_wait; for each micro-controller a serial thread     *)
(* takes in its responses and a background thread handles them; and the    *)
(* micro-controllers run their timers, tasks and commands.                 *)
(*                                                                         *)
(* The commands that set a homing up are assumed to arrive before the      *)
(* homing's print time, as the look-ahead of the motion queue intends.     *)
(* What a micro-controller does with a timer that arrives late is the      *)
(* subject of Sched.                                                       *)
(***************************************************************************)
EXTENDS TrDispatch, FiniteSets, SequencesExt

CONSTANTS
  Lead,        \* how far ahead of now the print time of a homing lies
  MoveTicks,   \* duration of the homing move
  Retries,     \* retries of a query whose response does not come
  MaxRound,    \* bound on the homings
  MaxPull,     \* bound on the messages that wait for a background thread
  Steppers     \* the micro-controllers that have steppers to be stopped

ASSUME HomingAssumption == Lead \in Nat /\ MoveTicks \in Nat /\ Retries \in Nat
                           /\ MaxRound \in Nat /\ MaxPull \in Nat \ {0}
                           /\ Steppers \subseteq Mcus /\ IsFiniteSet(Mcus)

N == Cardinality(Mcus)
\* MCU_endstop._trsyncs: the endstop's micro-controller comes first.
trsyncs == CHOOSE s \in [1..N -> Mcus] :
             s[1] = Main /\ \A i, j \in 1..N : s[i] = s[j] => i = j

VARIABLES
  pc, k, round,        \* where home_start or home_wait is, and in which trsync
  home_clock,          \* print_time of the homing
  handler,             \* who gets trsync_state messages: SerialReader.handlers
  trigger_completion,  \* the trsyncs that still hold the completion
  completed,           \* whether the completion is complete
  home_end,            \* per trsync: _home_end_clock
  pyq,                 \* receive_queue of each serialqueue
  acked, last_params, retries_left,    \* the query under way
  res, result          \* reasons found by stop(), and what home_wait returned

pyVars == <<pc, k, round, home_clock, handler, trigger_completion, completed,
            home_end, acked, last_params, retries_left, res, result>>
vars == <<now, mcuVars, linkVars, trdispatchVars, pyVars, pyq>>

NoParams == <<>>

TypeOK ==
  /\ McuTypeOK /\ TrDispatchTypeOK
  /\ pc \in {"idle", "start", "dispatch", "add", "endstop", "moving", "wait",
             "remove", "stop", "ack"}
  /\ k \in 1..N /\ round \in 0..MaxRound /\ home_clock \in Nat
  /\ handler \in [Mcus -> {"none", "trsync", "query"}]
  /\ trigger_completion \subseteq Mcus /\ completed \in BOOLEAN
  /\ home_end \in [Mcus -> Time]
  /\ pyq \in [Mcus -> Seq(Response)]
  /\ acked \in BOOLEAN /\ retries_left \in 0..Retries
  /\ last_params \in {NoParams} \union {<<r>> : r \in Reasons}
  /\ res \in [Mcus -> Reasons]
  /\ result \in {"none", "hit", "no_trigger", "timeout", "error"}

Init ==
  /\ McuInit /\ TrDispatchInit
  /\ pc = "idle" /\ k = 1 /\ round = 0 /\ home_clock = 0
  /\ handler = [m \in Mcus |-> "none"]
  /\ trigger_completion = {} /\ completed = FALSE
  /\ home_end = [m \in Mcus |-> Never]
  /\ pyq = [m \in Mcus |-> <<>>]
  /\ acked = FALSE /\ last_params = NoParams /\ retries_left = 0
  /\ res = [m \in Mcus |-> "none"] /\ result = "none"

-----------------------------------------------------------------------------
(***************************************************************************)
(* The reactor: home_start                                                 *)
(***************************************************************************)
Cmd(op, clock, reason) ==
  [op |-> op, clock |-> clock, reason |-> reason, round |-> round]

\* The next trsync, or the step that follows the last one.
NextTrsync(here, then) ==
  /\ pc' = IF k < N THEN here ELSE then
  /\ k' = IF k < N THEN k + 1 ELSE 1

HomeStart ==
  /\ pc = "idle" /\ round < MaxRound
  /\ pc' = "start" /\ round' = round + 1
  /\ home_clock' = now + Lead
  /\ completed' = FALSE /\ result' = "none"
  /\ res' = [m \in Mcus |-> "none"]
  /\ UNCHANGED <<k, handler, trigger_completion, home_end, acked, last_params,
                 retries_left, now, mcuVars, linkVars, trdispatchVars, pyq>>

\* MCU_trsync.start; reports of the micro-controllers are staggered.
StartTrsync ==
  LET m == trsyncs[k]
      report_clock == home_clock
                      + (2 * ReportTicks * (k - 1) + N) \div (2 * N)
  IN  /\ pc = "start"
      /\ trigger_completion' = trigger_completion \union {m}
      /\ home_end' = [home_end EXCEPT ![m] = Never]
      /\ trdispatch_mcu_setup(m, home_clock)
      /\ handler' = [handler EXCEPT ![m] = "trsync"]
      /\ Send(m, <<Cmd("trsync_start", report_clock, "none")>>
                 \o (IF m \in Steppers
                     THEN <<Cmd("stepper_stop_on_trigger", 0, "none")>>
                     ELSE <<>>)
                 \o <<Cmd("trsync_set_timeout", home_clock + ExpireTicks,
                          "none")>>)
      /\ NextTrsync("start", "dispatch")
      /\ UNCHANGED <<round, home_clock, completed, acked, last_params,
                     retries_left, res, result, now, mcuVars, rspq, pyq>>

\* trdispatch_start.  Homings follow each other, so is_active is clear here.
trdispatch_start ==
  /\ pc = "dispatch" /\ pc' = "add"
  /\ can_trigger' = TRUE
  /\ UNCHANGED <<k, round, home_clock, handler, trigger_completion, completed,
                 home_end, acked, last_params, retries_left, res, result, now,
                 mcuVars, linkVars, last_status_clock, expire_clock,
                 fastreaders, dispatching, pyq>>

AddFastreader ==
  /\ pc = "add" /\ NextTrsync("add", "endstop")
  /\ add_fastreader(trsyncs[k])
  /\ UNCHANGED <<round, home_clock, handler, trigger_completion, completed,
                 home_end, acked, last_params, retries_left, res, result, now,
                 mcuVars, linkVars, can_trigger, last_status_clock,
                 expire_clock, dispatching, pyq>>

SendEndstopHome ==
  /\ pc = "endstop" /\ pc' = "moving"
  /\ Send(Main, <<Cmd("endstop_home", home_clock, "none")>>)
  /\ UNCHANGED <<k, round, home_clock, handler, trigger_completion, completed,
                 home_end, acked, last_params, retries_left, res, result, now,
                 mcuVars, rspq, trdispatchVars, pyq>>

(***************************************************************************)
(* The reactor: home_wait.  It may begin at any time of the move, since    *)
(* the moves are generated ahead and stop early when the completion is.    *)
(***************************************************************************)
HomeWait ==
  /\ pc = "moving" /\ pc' = "wait"
  /\ home_end' = [home_end EXCEPT ![Main] = home_clock + MoveTicks]
  /\ UNCHANGED <<k, round, home_clock, handler, trigger_completion, completed,
                 acked, last_params, retries_left, res, result, now, mcuVars,
                 linkVars, trdispatchVars, pyq>>

EndstopOff ==
  /\ pc = "wait" /\ completed /\ pc' = "remove"
  /\ Send(Main, <<Cmd("endstop_off", 0, "none")>>)
  /\ UNCHANGED <<k, round, home_clock, handler, trigger_completion, completed,
                 home_end, acked, last_params, retries_left, res, result, now,
                 mcuVars, rspq, trdispatchVars, pyq>>

\* trdispatch_stop
RemoveFastreader ==
  /\ pc = "remove" /\ NextTrsync("remove", "stop")
  /\ rm_fastreader(trsyncs[k])
  /\ UNCHANGED <<round, home_clock, handler, trigger_completion, completed,
                 home_end, acked, last_params, retries_left, res, result, now,
                 mcuVars, linkVars, can_trigger, last_status_clock,
                 expire_clock, dispatching, pyq>>

\* MCU_trsync.stop up to the wait for the acknowledgement of the query
StopTrsync ==
  LET m == trsyncs[k] IN
  /\ pc = "stop" /\ pc' = "ack"
  /\ handler' = [handler EXCEPT ![m] = "query"]
  /\ trigger_completion' = trigger_completion \ {m}
  /\ acked' = FALSE /\ last_params' = NoParams /\ retries_left' = Retries
  /\ Send(m, <<Cmd("trsync_query", 0, "host_request")>>)
  /\ UNCHANGED <<k, round, home_clock, completed, home_end, res, result, now,
                 mcuVars, rspq, trdispatchVars, pyq>>

\* What home_wait makes of the reasons (the mutated form looks for a timeout
\* of the first trsync only)
HomeWaitResult_first(reasons) ==
  IF reasons[Main] = "comms_timeout" THEN "timeout"
  ELSE IF reasons[Main] # "endstop_hit" THEN "no_trigger" ELSE "hit"
HomeWaitResult(reasons) ==
  IF \E m \in Mcus : reasons[m] = "comms_timeout" THEN "timeout"
  ELSE IF reasons[Main] # "endstop_hit" THEN "no_trigger" ELSE "hit"

\* SerialRetryCommand.get_response: the response is whatever trsync_state
\* message was handled last.
QueryAnswered ==
  /\ pc = "ack" /\ acked /\ last_params # NoParams
  /\ res' = [res EXCEPT ![trsyncs[k]] = last_params[1]]
  /\ handler' = [handler EXCEPT ![trsyncs[k]] = "none"]
  /\ NextTrsync("stop", "idle")
  /\ result' = IF k < N THEN "none" ELSE HomeWaitResult(res')
  /\ UNCHANGED <<round, home_clock, trigger_completion, completed, home_end,
                 acked, last_params, retries_left, now, mcuVars, linkVars,
                 trdispatchVars, pyq>>

QueryRetry ==
  /\ pc = "ack" /\ acked /\ last_params = NoParams /\ retries_left > 0
  /\ retries_left' = retries_left - 1 /\ acked' = FALSE
  /\ Send(trsyncs[k], <<Cmd("trsync_query", 0, "host_request")>>)
  /\ UNCHANGED <<pc, k, round, home_clock, handler, trigger_completion,
                 completed, home_end, last_params, res, result, now, mcuVars,
                 rspq, trdispatchVars, pyq>>

\* The error leaves home_wait: the other trsyncs are not stopped.
QueryFailed ==
  /\ pc = "ack" /\ acked /\ last_params = NoParams /\ retries_left = 0
  /\ handler' = [handler EXCEPT ![trsyncs[k]] = "none"]
  /\ pc' = "idle" /\ k' = 1 /\ result' = "error"
  /\ UNCHANGED <<round, home_clock, trigger_completion, completed, home_end,
                 acked, last_params, retries_left, res, now, mcuVars, linkVars,
                 trdispatchVars, pyq>>

-----------------------------------------------------------------------------
(***************************************************************************)
(* The serial thread takes in a response: it goes to the receive queue,    *)
(* and a fast reader gets it too once the serialqueue's lock is dropped.   *)
(***************************************************************************)
HostInput(m) ==
  LET r == Head(rspq[m]) IN
  /\ rspq[m] # <<>> /\ dispatching[m] = <<>> /\ Len(pyq[m]) < MaxPull
  /\ rspq' = [rspq EXCEPT ![m] = Tail(@)]
  /\ pyq' = [pyq EXCEPT ![m] = Append(@, r)]
  /\ dispatching' = IF ~r.ack /\ m \in fastreaders
                    THEN [dispatching EXCEPT ![m] = <<r>>] ELSE dispatching
  /\ UNCHANGED <<now, mcuVars, cmdq, can_trigger, last_status_clock,
                 expire_clock, fastreaders, pyVars>>

\* MCU_trsync._handle_trsync_state
PyHandleTrsyncState(m, r) ==
  IF ~r.can_trigger
  THEN /\ trigger_completion' = trigger_completion \ {m}
       /\ completed' = (completed \/ m \in trigger_completion)
       /\ UNCHANGED <<home_end, cmdq>>
  ELSE /\ IF home_end[m] # Never /\ r.clock >= home_end[m]
          THEN /\ home_end' = [home_end EXCEPT ![m] = Never]
               /\ Send(m, <<Cmd("trsync_trigger", 0, "past_end_time")>>)
          ELSE UNCHANGED <<home_end, cmdq>>
       /\ UNCHANGED <<trigger_completion, completed>>

\* The background thread hands a response to the handler registered now, or
\* to nobody, and completes a query that waits for the acknowledgement.
PyHandle(m) ==
  LET r == Head(pyq[m]) IN
  /\ pyq[m] # <<>>
  /\ pyq' = [pyq EXCEPT ![m] = Tail(@)]
  /\ acked' = (acked \/ r.ack)
  /\ last_params' = IF ~r.ack /\ handler[m] = "query"
                    THEN <<r.trigger_reason>> ELSE last_params
  /\ IF ~r.ack /\ handler[m] = "trsync" THEN PyHandleTrsyncState(m, r)
     ELSE UNCHANGED <<trigger_completion, completed, home_end, cmdq>>
  /\ UNCHANGED <<pc, k, round, home_clock, handler, retries_left, res, result,
                 now, mcuVars, rspq, trdispatchVars>>

-----------------------------------------------------------------------------
StartOps == {"trsync_start", "stepper_stop_on_trigger", "endstop_home"}
\* The homing is set up on the micro-controllers.
SetUp ==
  /\ pc \notin {"start", "dispatch", "add", "endstop"}
  /\ \A m \in Mcus : /\ \A i \in DOMAIN cmdq[m] : cmdq[m][i].op \notin StartOps
                     /\ signal[m] => expire_time[m] # Never

TimePasses ==
  /\ Tick
  /\ now < home_clock \/ SetUp
  /\ UNCHANGED <<trdispatchVars, pyVars, pyq>>

McuStep(m) ==
  \/ ExpireEvent(m) \/ ReportEvent(m) \/ ReportTask(m)
  \/ TrsyncStart(m) \/ StopOnTrigger(m) \/ SetTimeout(m) \/ TrsyncTrigger(m)
  \/ EndstopHome(m)

HostStep ==
  \/ HomeStart \/ StartTrsync \/ trdispatch_start \/ AddFastreader
  \/ SendEndstopHome \/ HomeWait \/ EndstopOff \/ RemoveFastreader
  \/ StopTrsync \/ QueryAnswered \/ QueryRetry \/ QueryFailed

Next ==
  \/ TimePasses
  \/ HostStep
  \/ \E m \in Mcus : \/ HostInput(m)
                     \/ PyHandle(m)
                     \/ FastRead(m) /\ UNCHANGED <<pyVars, pyq>>
                     \/ /\ McuStep(m) \/ (m = Main /\ EndstopEvent)
                        /\ UNCHANGED <<trdispatchVars, pyVars, pyq>>

Spec == Init /\ [][Next]_vars

\* Every thread and every micro-controller goes on with what it has to do.
\* Nothing makes time pass, the switch close or another homing begin.
Fairness ==
  /\ WF_vars(HostStep /\ round' = round)
  /\ \A m \in Mcus :
       /\ WF_vars(HostInput(m))
       /\ WF_vars(PyHandle(m))
       /\ WF_vars(FastRead(m) /\ UNCHANGED <<pyVars, pyq>>)
       /\ WF_vars(McuStep(m) /\ UNCHANGED <<trdispatchVars, pyVars, pyq>>)
FairSpec == Spec /\ Fairness

-----------------------------------------------------------------------------
(***************************************************************************)
(* Nothing of an earlier homing reaches the present one: not a report to   *)
(* the fast reader or to _handle_trsync_state, nor a command behind the    *)
(* trsync_start of the present one.                                        *)
(***************************************************************************)
NoStaleMessages ==
  \A m \in Mcus :
    /\ can_trigger => \A i \in DOMAIN dispatching[m] :
                        dispatching[m][i].round = round
    /\ handler[m] # "none" => \A i \in DOMAIN pyq[m] : pyq[m][i].round = round
    /\ \A i, j \in DOMAIN cmdq[m] :
         i < j => cmdq[m][i].round <= cmdq[m][j].round

(***************************************************************************)
(* home_wait reports a hit only if the endstop was hit and no trsync had   *)
(* stopped its steppers for want of messages before.                       *)
(***************************************************************************)
HitIsSound ==
  pc = "idle" /\ result = "hit" =>
    /\ trigger_reason[Main] = "endstop_hit"
    /\ \A m \in Mcus : trigger_reason[m] # "comms_timeout"

(***************************************************************************)
(* After home_wait returns nothing of the homing is left to act: no armed  *)
(* stepper, timer or endstop, and no command on its way that sets one.     *)
(***************************************************************************)
QuietAfterHoming ==
  pc = "idle" /\ result \in {"hit", "no_trigger", "timeout"} =>
    /\ endstop # "homing" /\ trigger_completion = {} /\ fastreaders = {}
    /\ \A m \in Mcus : /\ flags[m] = {} /\ ~signal[m]
                       /\ report_time[m] = Never /\ expire_time[m] = Never
                       /\ cmdq[m] = <<>>

(***************************************************************************)
(* home_wait waits for the completion without a timeout of its own: once a *)
(* trsync of the homing has triggered, its report wakes home_wait up,      *)
(* unless a report is lost.                                                *)
(***************************************************************************)
HomeWaitWoken ==
  (pc = "wait" /\ \E m \in Mcus : homing[m] = round /\ "can_trigger" \notin flags[m])
  ~> (pc # "wait" \/ lost > 0)

\* No homing leaves anything behind: neither while the next one runs nor when
\* home_wait has returned.
NothingLeftOver == TypeOK /\ NoStaleMessages /\ QuietAfterHoming
=============================================================================
