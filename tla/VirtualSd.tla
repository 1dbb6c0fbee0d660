----------------------------- MODULE VirtualSd -----------------------------
(***************************************************************************)
(* The file that is printed (virtual_sdcard.py) and the statistics of the  *)
(* print (print_stats.py): the operations other code calls, and the steps  *)
(* of the worker greenlet that feeds the lines of the file to the          *)
(* interpreter.  A position counts lines.                                  *)
(***************************************************************************)
EXTENDS Naturals, Sequences

CONSTANTS Lines,      \* the file: the script of each of its lines
          Chunk,      \* lines that one read of the file returns
          Pose        \* position in /tmp/pose after a loss of power

ASSUME FileAssumption ==
    /\ Lines \in Seq(STRING) /\ Len(Lines) > 1
    /\ Chunk \in Nat \ {0} /\ Pose \in 1..(Len(Lines) - 1)

VARIABLES worker,        \* where work_handler is: "none" and "line" are
                         \* work_timer is None and cmd_from_sd
          sd,            \* the fields of VirtualSD, and the worker's buffer
          print_stats,
          begun          \* start position, then the lines begun since

fileVars == <<worker, sd, print_stats, begun>>

Workers == {"none", "due", "next", "top", "plr", "line"}
States  == {"standby", "printing", "paused", "complete", "cancelled", "error"}

FileTypeOK ==
    /\ worker \in Workers
    /\ sd \in [loaded : BOOLEAN, position : 0..Len(Lines),
               next : 0..Len(Lines), must_pause : BOOLEAN, z : BOOLEAN,
               offset : 0..Len(Lines),
               lines : UNION {[1..n -> 1..Len(Lines)] : n \in 0..Chunk}]
    /\ print_stats \in [state : States, started : BOOLEAN]
    /\ begun \in Seq(0..Len(Lines)) /\ begun # <<>>

FileInit ==
    /\ worker = "none"
    /\ sd = [loaded |-> FALSE, position |-> 0, next |-> 0,
             must_pause |-> FALSE, z |-> FALSE, offset |-> 0, lines |-> <<>>]
    /\ print_stats = [state |-> "standby", started |-> FALSE]
    /\ begun = <<0>>

-----------------------------------------------------------------------------
(* print_stats.py *)

note_start == [state |-> "printing", started |-> TRUE]
note_pause == [print_stats EXCEPT !.state =
                 IF @ = "error" THEN @ ELSE "paused"]
\* _note_finish: note_complete, note_error and note_cancel.
Finish(state) ==
    IF print_stats.started THEN [state |-> state, started |-> FALSE]
    ELSE print_stats
StatsReset == [state |-> "standby", started |-> FALSE]

-----------------------------------------------------------------------------
(* Operations of VirtualSD *)

work_timer  == worker # "none"
cmd_from_sd == worker = "line"

\* A mistake: nobody tells the worker.
AskPause_not == sd
\* do_pause asks the worker to stop ...
AskPause == [sd EXCEPT !.must_pause = @ \/ work_timer]
\* A mistake: a command of the file waits for its own end.
Stopped_always_waits == ~work_timer
\* ... and polls every millisecond until it has, or is the one that asks.
Stopped == ~work_timer \/ cmd_from_sd

Closed(s) == [s EXCEPT !.loaded = FALSE, !.position = 0]
Loaded(position, z) ==
    [sd EXCEPT !.loaded = TRUE, !.position = position, !.z = z]

\* What do_cancel does once do_pause has returned.
CancelFile(s) ==
    /\ sd' = Closed(s)
    /\ print_stats' = IF s.loaded THEN Finish("cancelled") ELSE print_stats
\* _reset_file likewise.
ResetFile(s) ==
    /\ sd' = Closed(s)
    /\ print_stats' = StatsReset

-----------------------------------------------------------------------------
(* The worker: a step from one reactor.pause to the next *)

\* Where the loop is left, and the lines read with it.
ExitWorker(stats) ==
    /\ worker' = "none"
    /\ print_stats' = stats
    /\ sd' = [sd EXCEPT !.lines = <<>>]

\* A mistake: the file is read on from where it was left.
Seek_not == sd.offset
Seek == sd.position

\* The timer that do_resume registered runs work_handler.
WorkHandler ==
    /\ worker = "due"
    /\ \/ /\ ~sd.loaded       \* seek fails
          /\ ExitWorker(print_stats)
       \/ /\ sd.loaded
          /\ worker' = "next"
          /\ sd' = [sd EXCEPT !.offset = Seek, !.lines = <<>>]
          /\ print_stats' = note_start
    /\ UNCHANGED begun

\* At the head of the loop, after a reactor.pause or without one.
Looping == worker \in {"top", "next"}

PauseWork ==
    /\ Looping /\ sd.must_pause
    /\ ExitWorker(IF sd.loaded THEN note_pause ELSE Finish("complete"))
    /\ UNCHANGED begun

\* A line whose end lies in the next 8192 bytes is read with it.
Upcoming ==
    LET last == IF sd.offset + Chunk > Len(Lines) THEN Len(Lines)
                ELSE sd.offset + Chunk
    IN  [n \in 1..(last - sd.offset) |-> sd.offset + n]
Filled == [sd EXCEPT !.lines = Upcoming, !.offset = @ + Len(Upcoming)]

\* Reading, after a loss of power with the commands of run_plr; the end of
\* the file, or of one that another greenlet has closed.
ReadMore ==
    /\ Looping /\ ~sd.must_pause /\ sd.lines = <<>>
    /\ LET recovers == sd.loaded /\ sd.position > 0 /\ sd.z
           ends     == ~sd.loaded \/ Upcoming = <<>>
       IN  \/ /\ recovers
              /\ worker' = "plr"
              /\ sd' = [sd EXCEPT !.z = FALSE]
              /\ UNCHANGED print_stats
           \/ /\ ~recovers /\ ~ends
              /\ worker' = "top"
              /\ sd' = Filled
              /\ UNCHANGED print_stats
           \/ /\ ~recovers /\ ends
              /\ worker' = "none"
              /\ sd' = [sd EXCEPT !.loaded = FALSE]
              /\ print_stats' = Finish("complete")
    /\ UNCHANGED begun

\* run_plr is over, or one of its commands has failed.  What they do to the
\* axes is in Recovery of SdPrint.
PlrDone ==
    /\ worker = "plr"
    /\ \/ /\ worker' = "top"
          /\ sd' = Filled
          /\ UNCHANGED print_stats
       \/ ExitWorker(note_pause)
    /\ UNCHANGED begun

\* A script is under way or waits: the worker lets it go first.
GiveWay ==
    /\ worker = "next" /\ ~sd.must_pause /\ sd.lines # <<>>
    /\ worker' = "top"
    /\ UNCHANGED <<sd, print_stats, begun>>

\* The worker takes a line; the interpreter then runs it.
TakeLine ==
    /\ Looping /\ ~sd.must_pause /\ sd.lines # <<>>
    /\ worker' = "line"
    /\ sd' = [sd EXCEPT !.lines = Tail(@), !.next = sd.position + 1]
    /\ begun' = Append(begun, Head(sd.lines))
    /\ UNCHANGED print_stats

LineDone ==
    /\ worker' = "next"
    /\ sd' = [sd EXCEPT !.position = sd.next]
    /\ UNCHANGED <<print_stats, begun>>
=============================================================================
