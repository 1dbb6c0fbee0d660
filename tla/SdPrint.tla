------------------------------ MODULE SdPrint ------------------------------
(***************************************************************************)
(* Printing a file: the scripts that requests of the clients and the lines *)
(* of the file run in the interpreter (gcode.py, pause_resume.py and the   *)
(* macros of src/config), the mutex they share, and what this firmware     *)
(* adds to cancel a print that heats up or moves.  Scripts and the worker  *)
(* are greenlets: a step ends where the code lets another greenlet run.    *)
(* No request comes and no script begins while a poll of do_pause could    *)
(* end: the polls are a millisecond apart.                                 *)
(***************************************************************************)
EXTENDS VirtualSd, FiniteSets

CONSTANTS Clients,    \* greenlets that run the requests of the API server
          Requests,   \* scripts the clients ask for
          MaxRequests \* bound: requests in a behaviour

ASSUME ClientsAssumption ==
    /\ IsFiniteSet(Clients) /\ "worker" \notin Clients
    /\ Requests \subseteq {"start", "recover", "pause", "resume", "cancel",
                           "reset", "heat"}
    /\ MaxRequests \in Nat
    \* A file that cancels its own print is left out.
    /\ \A n \in 1..Len(Lines) : Lines[n] # "cancel"

Greenlets == Clients \cup {"worker"}

VARIABLES pc,            \* where the script of a greenlet is
          script,        \* and which script it is
          mutex,         \* its holder, then the greenlets that wait for it
          pause_resume,  \* the fields of PauseResume
          stop_heating,  \* gcode_move's: moves are left out
          homed,         \* is x homed?
          hot,           \* has the temperature waited for been reached?
          stuck,         \* history: the last CANCEL_PRINT has failed on its
                         \* way, or a recovery homed with its flag still set
          shutdown, requests

scriptVars == <<pc, script>>
vars == <<fileVars, scriptVars, mutex, pause_resume, stop_heating, homed, hot,
          stuck, shutdown, requests>>

TypeOK ==
    /\ FileTypeOK
    /\ pc \in [Greenlets -> {"idle", "closing", "begin", "pausing", "resetting",
                             "heat", "restore", "homing",
                             "recancel", "done", "error"}]
    /\ mutex \in Seq(Greenlets)
    /\ \A i, j \in 1..Len(mutex) : mutex[i] = mutex[j] => i = j
    /\ {g \in Greenlets : pc[g] \notin {"idle", "closing"}}
         = {mutex[i] : i \in 1..Len(mutex)}
    /\ pc["worker"] # "idle" <=> cmd_from_sd
    /\ pause_resume \in [is_paused : BOOLEAN, sd_paused : BOOLEAN,
                         sent : BOOLEAN]
    /\ {stop_heating, homed, hot, stuck, shutdown} \subseteq BOOLEAN
    /\ requests \in 0..MaxRequests

NotPaused == [is_paused |-> FALSE, sd_paused |-> FALSE, sent |-> FALSE]

Init ==
    /\ FileInit
    /\ pc = [g \in Greenlets |-> "idle"]
    /\ script = [g \in Greenlets |-> "none"]
    /\ mutex = <<>>
    /\ pause_resume = NotPaused
    /\ stop_heating = FALSE /\ homed \in BOOLEAN /\ hot = FALSE
    /\ stuck = FALSE /\ shutdown = FALSE /\ requests = 0

-----------------------------------------------------------------------------
(* run_script *)

\* A mistake: the flag of a cancelled print is never taken back.
ClearedIfNotHomed_not(flag) == flag
\* While x is not homed, running any script takes stop_heating back.
ClearedIfNotHomed(flag) == flag /\ homed

Holds(g) == mutex # <<>> /\ Head(mutex) = g
Queue(g) == mutex' = Append(mutex, g)
Goto(g, label) == pc' = [pc EXCEPT ![g] = label]

\* A script is over, without or with an error.
Ends(g) == Goto(g, "done")
Fails(g) == Goto(g, "error")

\* The mutex goes to the greenlet that has waited longest.
Leave(g) ==
    /\ Goto(g, "idle")
    /\ script' = [script EXCEPT ![g] = "none"]
    /\ mutex' = Tail(mutex)

\* do_pause has returned to a greenlet that polls, or can.
PollEnds(g) == pc[g] \in {"closing", "pausing", "resetting", "recancel"}
               /\ Stopped

PollsArePrompt == \A c \in Clients : ~PollEnds(c)

\* A request: its script waits for the mutex.
Request(g, s) ==
    /\ pc[g] = "idle" /\ requests < MaxRequests
    /\ PollsArePrompt
    /\ requests' = requests + 1
    /\ script' = [script EXCEPT ![g] = s]
    /\ \/ /\ s # "cancel"
          /\ stop_heating' = ClearedIfNotHomed(stop_heating)
          /\ Goto(g, "begin") /\ Queue(g)
          /\ UNCHANGED fileVars
       \/ /\ s = "cancel" /\ ~(sd.loaded /\ ~Stopped)   \* do_cancel at once
          /\ stop_heating' = ClearedIfNotHomed(TRUE)
          /\ CancelFile(IF sd.loaded THEN AskPause ELSE sd)
          /\ Goto(g, "begin") /\ Queue(g)
          /\ UNCHANGED <<worker, begun>>
       \/ /\ s = "cancel" /\ sd.loaded /\ ~Stopped
          /\ stop_heating' = TRUE
          /\ sd' = AskPause
          /\ Goto(g, "closing")
          /\ UNCHANGED <<worker, print_stats, begun, mutex>>
    /\ UNCHANGED <<pause_resume, homed, hot, stuck, shutdown>>

\* current_file is None where a file is to be closed: an internal error.
Crash(g) ==
    /\ PollEnds(g) /\ pc[g] # "pausing" /\ ~sd.loaded
    /\ shutdown' = TRUE
    /\ UNCHANGED <<fileVars, scriptVars, mutex, pause_resume, stop_heating,
                   homed, hot, stuck, requests>>

\* The do_cancel of run_script goes on when the worker has stopped.
CloseFile(g) ==
    /\ pc[g] = "closing" /\ PollEnds(g) /\ sd.loaded
    /\ CancelFile(sd)
    /\ stop_heating' = ClearedIfNotHomed(stop_heating)
    /\ Goto(g, "begin") /\ Queue(g)
    /\ UNCHANGED <<worker, begun, script, pause_resume, homed, hot, stuck,
                   shutdown, requests>>

\* The request is answered.
Answer(g) ==
    /\ g \in Clients /\ pc[g] \in {"done", "error"}
    /\ Leave(g)
    /\ UNCHANGED <<fileVars, pause_resume, stop_heating, homed, hot,
                   stuck, shutdown, requests>>

-----------------------------------------------------------------------------
(* Scripts.  Each begins when its greenlet holds the mutex *)

Begins(g, scripts) ==
    pc[g] = "begin" /\ Holds(g) /\ script[g] \in scripts /\ PollsArePrompt

\* do_resume, where the worker is known to be gone, and the greenlet goes on.
StartWorker(s) ==
    /\ worker' = "due"
    /\ sd' = [s EXCEPT !.must_pause = FALSE]

\* A mistake: a new print leaves the pause of the last one alone.
ResumesFirst_not == FALSE
\* _load_file resumes a paused print before it starts the one loaded.
ResumesFirst == pause_resume.is_paused

\* SDCARD_PRINT_FILE, and with Z=1 the recovery after a loss of power.
PrintFile(g) ==
    /\ Begins(g, {"start", "recover"})
    /\ LET position == IF script[g] = "recover" THEN Pose ELSE 0
           file     == Loaded(position, script[g] = "recover")
       IN  \/ /\ work_timer                      \* SD busy
              /\ Fails(g)
              /\ UNCHANGED fileVars
           \/ /\ ~work_timer
              /\ print_stats' = StatsReset
              /\ begun' = <<position>>
              /\ IF ResumesFirst
                 THEN Goto(g, "restore") /\ sd' = file /\ UNCHANGED worker
                 ELSE Ends(g) /\ StartWorker(file)
    /\ UNCHANGED <<script, mutex, pause_resume, stop_heating, homed, hot,
                   stuck, shutdown, requests>>

\* After the move of RESTORE_GCODE_STATE: send_resume_command, which resumes
\* the file just loaded when a file was paused, so that do_resume then fails.
Restored(g) ==
    /\ pc[g] = "restore"
    /\ IF pause_resume.sd_paused THEN Fails(g) ELSE Ends(g)
    /\ StartWorker(sd)
    /\ pause_resume' = NotPaused
    /\ print_stats' = StatsReset
    /\ UNCHANGED <<begun, script, mutex, stop_heating, homed, hot, stuck,
                   shutdown, requests>>

\* SDCARD_RESET_FILE.
ResetFileCommand(g) ==
    /\ Begins(g, {"reset"})
    /\ \/ cmd_from_sd /\ Fails(g) /\ UNCHANGED fileVars
       \/ /\ sd.loaded /\ ~Stopped
          /\ Goto(g, "resetting")
          /\ sd' = AskPause
          /\ UNCHANGED <<worker, print_stats, begun>>
       \/ /\ ~cmd_from_sd /\ (sd.loaded => Stopped)
          /\ Ends(g)
          /\ ResetFile(sd)
          /\ UNCHANGED <<worker, begun>>
    /\ UNCHANGED <<script, mutex, pause_resume, stop_heating, homed, hot,
                   stuck, shutdown, requests>>

ResetDone(g) ==
    /\ pc[g] = "resetting" /\ PollEnds(g) /\ sd.loaded
    /\ Ends(g)
    /\ ResetFile(sd)
    /\ UNCHANGED <<worker, begun, script, mutex, pause_resume, stop_heating,
                   homed, hot, stuck, shutdown, requests>>

\* PAUSE: send_pause_command, then is_paused.
Pause(g) ==
    /\ Begins(g, {"pause"})
    /\ \/ /\ pause_resume.is_paused
          /\ Ends(g)
          /\ UNCHANGED <<fileVars, pause_resume>>
       \/ /\ ~pause_resume.is_paused /\ ~pause_resume.sent /\ ~Stopped
          /\ Goto(g, "pausing")
          /\ sd' = AskPause
          /\ pause_resume' = [pause_resume EXCEPT !.sd_paused = TRUE]
          /\ UNCHANGED <<worker, print_stats, begun>>
       \/ /\ ~pause_resume.is_paused /\ (pause_resume.sent \/ Stopped)
          /\ Ends(g)
          /\ sd' = IF pause_resume.sent THEN sd ELSE AskPause
          /\ pause_resume' =
               [is_paused |-> TRUE, sent |-> TRUE,
                sd_paused |-> IF pause_resume.sent THEN pause_resume.sd_paused
                              ELSE work_timer]
          /\ UNCHANGED <<worker, print_stats, begun>>
    /\ UNCHANGED <<script, mutex, stop_heating, homed, hot, stuck, shutdown,
                   requests>>

PauseDone(g) ==
    /\ pc[g] = "pausing" /\ PollEnds(g)
    /\ Ends(g)
    /\ pause_resume' = [pause_resume EXCEPT !.sent = TRUE, !.is_paused = TRUE]
    /\ UNCHANGED <<fileVars, script, mutex, stop_heating, homed, hot, stuck,
                   shutdown, requests>>

\* M109, on its own or as RESUME begins with it: the target is set.
Heat(g) ==
    /\ Begins(g, {"heat", "resume"})
    /\ Goto(g, "heat")
    /\ hot' = FALSE
    /\ UNCHANGED <<fileVars, script, mutex, pause_resume, stop_heating, homed,
                   stuck, shutdown, requests>>

TemperatureReached ==
    /\ \E g \in Greenlets : pc[g] = "heat"
    /\ ~hot
    /\ hot' = TRUE
    /\ UNCHANGED <<fileVars, scriptVars, mutex, pause_resume, stop_heating,
                   homed, stuck, shutdown, requests>>

\* A mistake, left as a comment in the code: a wait ends while the flag of a
\* cancelled print is set.
Cancelled_flag == stop_heating
\* check_busy: a print was cancelled while it heats up.
Cancelled == (work_timer \/ pause_resume.sd_paused) /\ ~sd.loaded

\* _wait_for_temperature looks once a second; RESUME goes on to cmd_RESUME.
HeatDone(g) ==
    /\ pc[g] = "heat"
    /\ Cancelled \/ hot
    /\ stop_heating' = (stop_heating /\ ~Cancelled)
    /\ \/ /\ script[g] = "heat" \/ ~pause_resume.is_paused
          /\ Ends(g)
          /\ UNCHANGED <<worker, sd, pause_resume>>
       \/ /\ script[g] = "resume" /\ pause_resume.is_paused
          /\ pause_resume.sd_paused /\ work_timer      \* SD busy
          /\ Fails(g)
          /\ UNCHANGED <<worker, sd, pause_resume>>
       \/ /\ script[g] = "resume" /\ pause_resume.is_paused
          /\ pause_resume.sd_paused => ~work_timer
          /\ Ends(g)
          /\ IF pause_resume.sd_paused THEN StartWorker(sd)
             ELSE UNCHANGED <<worker, sd>>
          /\ pause_resume' = NotPaused
    /\ UNCHANGED <<print_stats, begun, script, mutex, homed, hot, stuck,
                   shutdown, requests>>

-----------------------------------------------------------------------------
(* The macro CANCEL_PRINT *)

CancelMacro(g) ==
    /\ Begins(g, {"cancel"})
    /\ Goto(g, "homing")
    /\ UNCHANGED <<fileVars, script, mutex, pause_resume, stop_heating, homed,
                   hot, stuck, shutdown, requests>>

\* G1 Z2, or G28 which then turns the motors off: the macro ends here.
HomingFails(g) ==
    /\ pc[g] = "homing" /\ homed
    /\ Fails(g)
    /\ homed' \in BOOLEAN
    /\ stuck' = TRUE
    /\ UNCHANGED <<fileVars, script, mutex, pause_resume, stop_heating, hot,
                   shutdown, requests>>

\* CLEAR_PAUSE, then M84.
AfterCancel(g) ==
    /\ Ends(g)
    /\ pause_resume' = [pause_resume EXCEPT !.is_paused = FALSE,
                                            !.sent = FALSE]
    /\ homed' = FALSE
    /\ stuck' = FALSE

\* CANCEL_PRINT_BASE, whose do_cancel finds a file only when one was started
\* after that of run_script.
CancelBase(g) ==
    /\ pc[g] = "homing"
    /\ LET cancels == (work_timer \/ pause_resume.sd_paused) /\ sd.loaded
       IN  \/ /\ cancels /\ ~Stopped
              /\ Goto(g, "recancel")
              /\ sd' = AskPause
              /\ UNCHANGED <<print_stats, pause_resume, homed, stuck>>
           \/ /\ cancels => Stopped
              /\ AfterCancel(g)
              /\ IF cancels THEN CancelFile(AskPause)
                 ELSE UNCHANGED <<sd, print_stats>>
    /\ UNCHANGED <<worker, begun, script, mutex, stop_heating, hot, shutdown,
                   requests>>

Recancelled(g) ==
    /\ pc[g] = "recancel" /\ PollEnds(g) /\ sd.loaded
    /\ AfterCancel(g)
    /\ CancelFile(sd)
    /\ UNCHANGED <<worker, begun, script, mutex, stop_heating, hot, shutdown,
                   requests>>

-----------------------------------------------------------------------------
(* Lines of the file *)

RunLine ==
    /\ TakeLine
    /\ mutex = <<>>
    /\ mutex' = <<"worker">>
    /\ pc' = [pc EXCEPT !["worker"] = "begin"]
    /\ script' = [script EXCEPT !["worker"] = Lines[Head(sd.lines)]]
    /\ stop_heating' = ClearedIfNotHomed(stop_heating)
    /\ UNCHANGED <<pause_resume, homed, hot, stuck, shutdown, requests>>

\* A move or a homing move, which may fail: G28 then turns the motors off.
Move ==
    /\ Begins("worker", {"move", "home"})
    /\ \/ Ends("worker") /\ homed' = (homed \/ script["worker"] = "home")
       \/ Fails("worker") /\ homed' = (homed /\ script["worker"] # "home")
    /\ UNCHANGED <<fileVars, script, mutex, pause_resume, stop_heating, hot,
                   stuck, shutdown, requests>>

EndLine ==
    /\ pc["worker"] = "done" /\ script["worker"] # "cancel"
    /\ LineDone
    /\ Leave("worker")
    /\ UNCHANGED <<pause_resume, stop_heating, homed, hot, stuck,
                   shutdown, requests>>

\* on_error_gcode, which is CANCEL_PRINT, waits for the mutex again.
Requeue == Append(Tail(mutex), "worker")

OnError ==
    /\ pc["worker"] = "error" /\ script["worker"] # "cancel"
    /\ stop_heating' = ClearedIfNotHomed(TRUE)
    /\ CancelFile(IF sd.loaded THEN AskPause ELSE sd)
    /\ script' = [script EXCEPT !["worker"] = "cancel"]
    /\ Goto("worker", "begin")
    /\ mutex' = Requeue
    /\ UNCHANGED <<worker, begun, pause_resume, homed, hot, stuck, shutdown,
                   requests>>

EndOnError ==
    /\ pc["worker"] \in {"done", "error"} /\ script["worker"] = "cancel"
    /\ ExitWorker(Finish("error"))
    /\ Leave("worker")
    /\ UNCHANGED <<begun, pause_resume, stop_heating, homed, hot,
                   stuck, shutdown, requests>>

\* The recovery is over.  Its commands (plr.sh) home x and y, and G28 turns the
\* motors off when it fails.  They bypass run_script: a stop_heating that was
\* left over while x was not homed is not taken back before they home it.
Recovery ==
    /\ PlrDone
    /\ homed' \in IF worker' = "top" THEN {TRUE} ELSE BOOLEAN
    /\ stuck' = (stuck \/ (stop_heating /\ ~homed /\ homed'))
    /\ UNCHANGED <<scriptVars, mutex, pause_resume, stop_heating, hot, shutdown,
                   requests>>

WorkerStep ==
    \/ /\ WorkHandler \/ PauseWork \/ ReadMore
       /\ UNCHANGED <<scriptVars, mutex, pause_resume, stop_heating, homed,
                      hot, stuck, shutdown, requests>>
    \/ /\ GiveWay /\ mutex # <<>>
       /\ UNCHANGED <<scriptVars, mutex, pause_resume, stop_heating, homed,
                      hot, stuck, shutdown, requests>>
    \/ Recovery \/ RunLine \/ Move \/ EndLine \/ OnError \/ EndOnError

ScriptStep(g) ==
    \/ CloseFile(g) \/ Answer(g)
    \/ PrintFile(g) \/ Restored(g) \/ ResetFileCommand(g) \/ ResetDone(g)
    \/ Pause(g) \/ PauseDone(g) \/ Heat(g) \/ HeatDone(g)
    \/ CancelMacro(g) \/ HomingFails(g) \/ CancelBase(g) \/ Recancelled(g)
    \/ Crash(g)

\* While the worker has not paused, nothing else runs.
Others ==
    /\ worker # "next"
    /\ \/ \E c \in Clients, s \in Requests : Request(c, s)
       \/ \E g \in Greenlets : ScriptStep(g)
       \/ TemperatureReached

Next == ~shutdown /\ (WorkerStep \/ Others)

Spec == Init /\ [][Next]_vars

\* Every greenlet is run again when its timer is due, and heaters heat.
Fairness ==
    /\ WF_vars(~shutdown /\ WorkerStep)
    /\ WF_vars(~shutdown /\ worker # "next" /\ TemperatureReached)
    /\ \A g \in Greenlets :
         WF_vars(~shutdown /\ worker # "next" /\ ScriptStep(g))

FairSpec == Spec /\ Fairness

-----------------------------------------------------------------------------
(* Properties *)

\* From where it starts, a print begins each line once and in order, over
\* pauses, errors and the recovery after a loss of power.
LinesInOrder ==
    \A n \in 2..Len(begun) : begun[n] = begun[n - 1] + 1

\* What Moonraker is told agrees with the worker: a print is "printing" while
\* lines of its file are run and only then, and complete with its last line.
StatsAgree ==
    /\ print_stats.state = "printing" => work_timer
    /\ worker \in {"next", "top", "plr", "line"} /\ sd.loaded =>
         print_stats.state = "printing"
    /\ ~work_timer /\ sd.loaded => print_stats.state \in {"standby", "paused"}
    /\ print_stats.state = "complete" => begun[Len(begun)] = Len(Lines)

\* A printer that says it is paused runs no more lines, the one with the
\* PAUSE excepted.
PausedStandsStill == pause_resume.is_paused => ~work_timer \/ sd.must_pause

\* No line begins once the file was closed: a cancelled print goes on for at
\* most the line under way, although run_script cancels without the mutex.
NoLineAfterCancel == [][RunLine => sd.loaded]_vars

\* Once a print has come to a line that waits for a temperature, none of its
\* lines begins before that is reached: a wait is cut short only for a print
\* that is cancelled.
NoColdLine ==
    [][RunLine /\ (\E n \in 2..Len(begun) : Lines[begun[n]] = "heat") => hot]_vars

\* Moves are left out only between CANCEL_PRINT and the motors' being turned
\* off, or when the macro has failed on its way, or when a recovery that was
\* asked for while a print was being cancelled homes the axes before any script
\* has taken the flag back.
MovesCarriedOut ==
    stop_heating => \/ ~homed \/ stuck
                    \/ \E g \in Greenlets :
                         script[g] = "cancel" /\ pc[g] # "idle"

\* Every request is answered, unless an internal error shuts Klippy down: the
\* clients, the mutex and the worker do not wait for each other in a circle.
RequestsAnswered ==
    \A c \in Clients : pc[c] # "idle" ~> pc[c] = "idle" \/ shutdown

\* What clients are told of the print is true of the worker.
StatusIsTrue == TypeOK /\ StatsAgree /\ PausedStandsStill
=============================================================================
