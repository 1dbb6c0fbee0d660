---------------------------- MODULE SdPrintProofs ----------------------------
(***************************************************************************)
(* Proofs about SdPrint, for any number of clients and requests and any    *)
(* file.                                                                   *)
(***************************************************************************)
EXTENDS SdPrint, TLAPS

-----------------------------------------------------------------------------
(* The inductive invariant *)

Polls == {"closing", "pausing", "resetting", "recancel"}
Running == worker \in {"next", "top", "plr", "line"}

\* Who is past the beginning of a script holds the mutex, and only who runs a
\* script has asked for it.
Labels == {"idle", "closing", "begin", "pausing", "resetting", "heat", "restore",
           "homing", "recancel", "done", "error"}

MutexInv ==
    /\ pc \in [Greenlets -> Labels]
    /\ mutex \in Seq(Greenlets)
    /\ \A i, j \in 1..Len(mutex) : mutex[i] = mutex[j] => i = j
    /\ {g \in Greenlets : pc[g] \notin {"idle", "closing"}}
         = {mutex[i] : i \in 1..Len(mutex)}
    /\ \A g \in Greenlets : pc[g] \notin {"idle", "closing", "begin"} => Holds(g)

Scripts == Requests \cup {Lines[n] : n \in 1..Len(Lines)} \cup {"none", "cancel"}

\* A script is at a place of its own, and the worker never polls for itself.
ScriptInv ==
    /\ script \in [Greenlets -> Scripts]
    /\ pc["worker"] \notin Polls
    /\ pc["worker"] # "idle" <=> cmd_from_sd
    /\ pc["worker"] # "idle" =>
         IF script["worker"] = "cancel" THEN ~sd.loaded ELSE Holds("worker")
    /\ \A g \in Greenlets :
         /\ pc[g] \in {"closing", "homing", "recancel"} => script[g] = "cancel"
         /\ pc[g] = "pausing" => script[g] = "pause"
         /\ pc[g] = "resetting" => script[g] = "reset"
         /\ pc[g] = "heat" => script[g] \in {"heat", "resume"}
         /\ pc[g] = "restore" => script[g] \in {"start", "recover"}

\* What the worker has read are the lines from its position on; once its file
\* is closed it has been asked to stop, and the print has been finished.
ReaderInv ==
    LET at == IF worker = "line" THEN sd.position + 1 ELSE sd.position
    IN  /\ sd.loaded => begun[Len(begun)] = at
        /\ Running /\ sd.loaded =>
             /\ sd.offset = at + Len(sd.lines)
             /\ \A i \in 1..Len(sd.lines) : sd.lines[i] = at + i
             /\ worker = "line" => sd.next = at
             /\ worker = "plr" => sd.lines = <<>>
        /\ Running /\ ~sd.loaded => sd.must_pause /\ ~print_stats.started

StatsInv ==
    /\ StatsAgree
    /\ print_stats.state = "printing" => Running /\ print_stats.started

\* No worker is started while somebody polls for the end of the last one.
PauseInv ==
    /\ pause_resume.sent = pause_resume.is_paused
    /\ pause_resume.is_paused =>
         ~work_timer \/ (worker \in {"line", "next"} /\ sd.must_pause)
    /\ pause_resume.is_paused /\ worker = "next" =>
         \A g \in Greenlets : pc[g] \in {"idle", "closing", "begin"}
    /\ \A g \in Greenlets : pc[g] \in Polls /\ work_timer => sd.must_pause
    /\ \A g \in Greenlets :
         pc[g] = "restore" \/ (pc[g] = "heat" /\ pause_resume.is_paused /\ ~work_timer) =>
           ~work_timer /\ \A c \in Clients : pc[c] \notin Polls

\* The flag that leaves moves out outlives a script that cancels only when
\* x is not homed, and a line that homes takes it back before.
Cancelling == \E g \in Greenlets : script[g] = "cancel" /\ pc[g] # "idle"
MovesInv ==
    /\ MovesCarriedOut
    /\ \A g \in Greenlets :
         script[g] = "cancel" /\ pc[g] \in {"done", "error"} /\ stop_heating =>
           \/ ~homed \/ stuck
           \/ \E h \in Greenlets \ {g} : script[h] = "cancel" /\ pc[h] # "idle"
    /\ pc["worker"] = "begin" /\ script["worker"] = "home" /\ stop_heating =>
         homed \/ stuck \/ Cancelling

HeatBegun == \E n \in 2..Len(begun) : Lines[begun[n]] = "heat"
HeatInv ==
    sd.loaded /\ HeatBegun =>
      \/ hot
      \/ \E g \in Greenlets : pc[g] = "heat"
      \/ pc["worker"] = "begin" /\ script["worker"] = "heat"

PauseTypeOK ==
    pause_resume \in [is_paused : BOOLEAN, sd_paused : BOOLEAN, sent : BOOLEAN]
FlagsTypeOK ==
    /\ {stop_heating, homed, hot, stuck, shutdown} \subseteq BOOLEAN
    /\ requests \in 0..MaxRequests

FileInv == FileTypeOK /\ ReaderInv /\ StatsInv /\ LinesInOrder

IInv ==
    /\ PauseTypeOK /\ FlagsTypeOK
    /\ FileInv /\ MutexInv /\ ScriptInv /\ PauseInv /\ MovesInv /\ HeatInv

-----------------------------------------------------------------------------
(* The mutex *)

LEMMA MutexStays ==
  ASSUME MutexInv, NEW g \in Greenlets, Holds(g),
         NEW l \in Labels \ {"idle", "closing"}, Goto(g, l), mutex' = mutex
  PROVE  MutexInv'
<1>1. pc[g] \notin {"idle", "closing"}
  BY DEF MutexInv, Holds
<1>2. {h \in Greenlets : pc'[h] \notin {"idle", "closing"}}
        = {h \in Greenlets : pc[h] \notin {"idle", "closing"}}
  BY <1>1 DEF MutexInv, Goto
<1> QED BY <1>2 DEF MutexInv, Goto, Holds

LEMMA MutexAsked ==
  ASSUME MutexInv, NEW g \in Greenlets, pc[g] \in {"idle", "closing"},
         Goto(g, "begin"), Queue(g)
  PROVE  MutexInv'
<1>1. /\ mutex' \in Seq(Greenlets) /\ Len(mutex') = Len(mutex) + 1
      /\ mutex'[Len(mutex) + 1] = g
      /\ \A i \in 1..Len(mutex) : mutex'[i] = mutex[i]
  BY DEF MutexInv, Queue
<1>2. \A i \in 1..Len(mutex) : mutex[i] # g
  BY DEF MutexInv
<1>3. \A i, j \in 1..Len(mutex') : mutex'[i] = mutex'[j] => i = j
  BY <1>1, <1>2 DEF MutexInv
<1>4. {mutex'[i] : i \in 1..Len(mutex')} = {mutex[i] : i \in 1..Len(mutex)} \cup {g}
  BY <1>1 DEF MutexInv
<1>5. {h \in Greenlets : pc'[h] \notin {"idle", "closing"}}
        = {h \in Greenlets : pc[h] \notin {"idle", "closing"}} \cup {g}
  BY DEF MutexInv, Goto, Labels
<1>6. \A h \in Greenlets : Holds(h) => Holds(h)'
  BY <1>1 DEF MutexInv, Holds
<1>7. pc' \in [Greenlets -> Labels]
  BY DEF MutexInv, Goto, Labels
<1> QED BY <1>1, <1>3, <1>4, <1>5, <1>6, <1>7 DEF MutexInv, Goto

LEMMA MutexLeft ==
  ASSUME MutexInv, NEW g \in Greenlets, Holds(g), Leave(g)
  PROVE  MutexInv'
<1>1. /\ mutex' \in Seq(Greenlets) /\ Len(mutex') = Len(mutex) - 1
      /\ mutex # <<>> /\ mutex[1] = g
      /\ \A i \in 1..Len(mutex') : mutex'[i] = mutex[i + 1]
  BY DEF MutexInv, Leave, Holds
<1>2. \A i, j \in 1..Len(mutex') : mutex'[i] = mutex'[j] => i = j
  BY <1>1 DEF MutexInv
<1>3. {mutex'[i] : i \in 1..Len(mutex')} = {mutex[i] : i \in 1..Len(mutex)} \ {g}
  <2>1. ASSUME NEW i \in 1..Len(mutex), mutex[i] # g
        PROVE  i - 1 \in 1..Len(mutex') /\ mutex'[i - 1] = mutex[i]
    BY <1>1, <2>1
  <2>2. ASSUME NEW i \in 1..Len(mutex') PROVE mutex'[i] = mutex[i + 1] /\ mutex[i + 1] # g
    BY <1>1 DEF MutexInv
  <2>3. Len(mutex) \in Nat /\ Len(mutex') \in Nat
    BY <1>1 DEF MutexInv
  <2> QED BY <1>1, <2>1, <2>2, <2>3
<1>4. {h \in Greenlets : pc'[h] \notin {"idle", "closing"}}
        = {h \in Greenlets : pc[h] \notin {"idle", "closing"}} \ {g}
  BY DEF MutexInv, Leave, Goto, Labels
<1>5. \A h \in Greenlets : pc'[h] \in {"idle", "closing", "begin"}
  BY DEF MutexInv, Leave, Goto, Holds
<1>6. pc' \in [Greenlets -> Labels]
  BY DEF MutexInv, Leave, Goto, Labels
<1> QED BY <1>1, <1>2, <1>3, <1>4, <1>5, <1>6 DEF MutexInv

LEMMA MutexRequeued ==
  ASSUME MutexInv, NEW g \in Greenlets, Holds(g), g = "worker",
         Goto(g, "begin"), mutex' = Requeue
  PROVE  MutexInv'
<1>1. /\ mutex' \in Seq(Greenlets) /\ Len(mutex') = Len(mutex)
      /\ Len(mutex) \in Nat \ {0} /\ mutex[1] = g /\ mutex'[Len(mutex)] = g
      /\ \A i \in 1..(Len(mutex) - 1) : mutex'[i] = mutex[i + 1]
  <2>1. /\ Tail(mutex) \in Seq(Greenlets) /\ Len(Tail(mutex)) = Len(mutex) - 1
        /\ Len(mutex) \in Nat \ {0} /\ mutex[1] = g
        /\ \A i \in 1..(Len(mutex) - 1) : Tail(mutex)[i] = mutex[i + 1]
    BY DEF MutexInv, Holds
  <2> QED BY <2>1 DEF Requeue
<1> DEFINE before(i) == IF i = Len(mutex) THEN 1 ELSE i + 1
           after(i) == IF i = 1 THEN Len(mutex) ELSE i - 1
<1>0. /\ \A i \in 1..Len(mutex') :
           before(i) \in 1..Len(mutex) /\ mutex'[i] = mutex[before(i)]
      /\ \A i, j \in 1..Len(mutex') : before(i) = before(j) => i = j
      /\ \A i \in 1..Len(mutex) :
           after(i) \in 1..Len(mutex') /\ mutex[i] = mutex'[after(i)]
  <2>1. ASSUME NEW i \in 1..Len(mutex')
        PROVE  before(i) \in 1..Len(mutex) /\ mutex'[i] = mutex[before(i)]
    BY <1>1
  <2>2. ASSUME NEW i \in 1..Len(mutex), i # 1
        PROVE  after(i) \in 1..Len(mutex') /\ mutex[i] = mutex'[after(i)]
    <3>1. i - 1 \in 1..(Len(mutex) - 1) /\ (i - 1) + 1 = i
      BY <1>1, <2>2
    <3> QED BY <1>1, <2>2, <3>1
  <2>3. after(1) \in 1..Len(mutex') /\ mutex[1] = mutex'[after(1)]
    BY <1>1
  <2>4. \A i, j \in 1..Len(mutex') : before(i) = before(j) => i = j
    BY <1>1
  <2> QED BY <2>1, <2>2, <2>3, <2>4
<1> HIDE DEF before, after
<1>2. ASSUME NEW i \in 1..Len(mutex'), NEW j \in 1..Len(mutex'), mutex'[i] = mutex'[j]
      PROVE  i = j
  <2>1. \A k, l \in 1..Len(mutex) : mutex[k] = mutex[l] => k = l
    BY DEF MutexInv
  <2>2. before(i) \in 1..Len(mutex) /\ before(j) \in 1..Len(mutex)
        /\ mutex[before(i)] = mutex[before(j)]
    BY <1>0, <1>2
  <2>3. before(i) = before(j)
    BY <2>1, <2>2
  <2> QED BY <1>0, <2>3
<1>3. {mutex'[i] : i \in 1..Len(mutex')} = {mutex[i] : i \in 1..Len(mutex)}
  <2>1. ASSUME NEW i \in 1..Len(mutex')
        PROVE  mutex'[i] \in {mutex[k] : k \in 1..Len(mutex)}
    BY <1>0
  <2>2. ASSUME NEW i \in 1..Len(mutex)
        PROVE  mutex[i] \in {mutex'[k] : k \in 1..Len(mutex')}
    BY <1>0
  <2> QED BY <2>1, <2>2
<1>4. {h \in Greenlets : pc'[h] \notin {"idle", "closing"}}
        = {h \in Greenlets : pc[h] \notin {"idle", "closing"}}
  BY <1>1 DEF MutexInv, Goto, Labels
<1>5. \A h \in Greenlets : pc'[h] \in {"idle", "closing", "begin"}
  BY DEF MutexInv, Goto, Holds
<1>6. pc' \in [Greenlets -> Labels]
  BY DEF MutexInv, Goto, Labels
<1> QED BY <1>1, <1>2, <1>3, <1>4, <1>5, <1>6 DEF MutexInv

LEMMA OnlyHolder ==
  ASSUME MutexInv, NEW g \in Greenlets, Holds(g)
  PROVE  \A h \in Greenlets : h # g => pc[h] \in {"idle", "closing", "begin"}
  BY DEF MutexInv, Holds

LEMMA NobodyRuns ==
  ASSUME MutexInv, mutex = <<>>
  PROVE  \A h \in Greenlets : pc[h] \in {"idle", "closing"}
  BY DEF MutexInv

-----------------------------------------------------------------------------
(* What a step leaves alone *)

LEMMA FileAlone ==
  ASSUME FileInv, UNCHANGED fileVars
  PROVE  FileInv'
  BY DEF FileInv, FileTypeOK, ReaderInv, StatsInv, StatsAgree, LinesInOrder,
     fileVars, Running, work_timer

(* A step of the script of g that keeps the mutex, to the place l. *)
LEMMA ScriptGoesOn ==
  ASSUME MutexInv, ScriptInv, NEW g \in Greenlets, Holds(g),
         NEW l \in Labels \ {"idle", "closing"}, Goto(g, l), script' = script,
         mutex' = mutex, l \in Polls => g # "worker",
         l \in {"homing", "recancel"} => script[g] = "cancel",
         l = "pausing" => script[g] = "pause",
         l = "resetting" => script[g] = "reset",
         l = "heat" => script[g] \in {"heat", "resume"},
         l = "restore" => script[g] \in {"start", "recover"},
         cmd_from_sd' <=> cmd_from_sd, sd.loaded' => sd.loaded \/ ~cmd_from_sd
  PROVE  ScriptInv'
<1>1. /\ "worker" \in Greenlets /\ pc[g] # "idle"
      /\ pc'["worker"] # "idle" <=> pc["worker"] # "idle"
  BY DEF MutexInv, Goto, Greenlets, Holds
<1>2. pc'["worker"] \notin Polls
  BY <1>1 DEF MutexInv, ScriptInv, Goto
<1>3. ASSUME NEW h \in Greenlets
      PROVE  /\ pc'[h] \in {"closing", "homing", "recancel"} => script[h] = "cancel"
             /\ pc'[h] = "pausing" => script[h] = "pause"
             /\ pc'[h] = "resetting" => script[h] = "reset"
             /\ pc'[h] = "heat" => script[h] \in {"heat", "resume"}
             /\ pc'[h] = "restore" => script[h] \in {"start", "recover"}
  BY DEF MutexInv, ScriptInv, Goto
<1> QED BY <1>1, <1>2, <1>3 DEF ScriptInv, Holds

LEMMA MovesGoOn ==
  ASSUME MutexInv, MovesInv, NEW g \in Greenlets, Holds(g),
         NEW l \in Labels \ {"idle", "closing", "begin"}, Goto(g, l), script' = script,
         l \in {"done", "error"} => script[g] # "cancel",
         UNCHANGED <<stop_heating, homed, stuck>>
  PROVE  MovesInv'
<1>1. \A h \in Greenlets : h # g => pc'[h] = pc[h]
  BY DEF MutexInv, Goto
<1>2. pc[g] # "idle" /\ pc'[g] = l
  BY DEF MutexInv, Goto, Holds
<1>3. Cancelling' <=> Cancelling
  BY <1>1, <1>2 DEF Cancelling
<1>4. "worker" \in Greenlets /\ (pc'["worker"] = "begin" => pc["worker"] = "begin")
  BY <1>1, <1>2 DEF Greenlets
<1>5. MovesCarriedOut'
  BY <1>3 DEF MovesInv, MovesCarriedOut, Cancelling
<1> QED BY <1>1, <1>2, <1>3, <1>4, <1>5 DEF MovesInv

LEMMA HeatGoesOn ==
  ASSUME MutexInv, HeatInv, NEW g \in Greenlets, Holds(g),
         NEW l \in Labels, Goto(g, l), script' = script,
         pc[g] # "heat",
         pc[g] = "begin" => script[g] # "heat",
         UNCHANGED <<begun, hot>>, sd.loaded' => sd.loaded
  PROVE  HeatInv'
<1>1. \A h \in Greenlets : h # g => pc'[h] = pc[h]
  BY DEF MutexInv, Goto
<1>2. "worker" \in Greenlets
  BY DEF Greenlets
<1>3. HeatBegun' <=> HeatBegun
  BY DEF HeatBegun
<1> QED BY <1>1, <1>2, <1>3 DEF HeatInv

(* The clause that matters when a script goes on to the place l; the worker
   waits meanwhile, or goes on with its line. *)
LEMMA PauseGoesOn ==
  ASSUME MutexInv, PauseInv, NEW g \in Greenlets,
         NEW l \in Labels, Goto(g, l), worker # "next", worker' = worker,
         pause_resume'.is_paused => pause_resume.is_paused,
         pause_resume' = pause_resume \/ pause_resume'.sent = pause_resume'.is_paused,
         sd.must_pause => sd'.must_pause,
         l \in Polls /\ work_timer => sd'.must_pause,
         l \in Polls => g \notin Clients \/ work_timer,
         l \in {"restore", "heat"} => PollsArePrompt /\ pc[g] \notin Polls,
         l = "restore" => ~work_timer
  PROVE  PauseInv'
<1>1. pc'[g] = l /\ \A h \in Greenlets : h # g => pc'[h] = pc[h]
  BY DEF MutexInv, Goto
<1>2. work_timer' <=> work_timer
  BY DEF work_timer
<1>3. Clients \subseteq Greenlets
  BY DEF Greenlets
<1>4. ~work_timer /\ PollsArePrompt => \A c \in Clients : pc[c] \notin Polls
  BY DEF PollsArePrompt, PollEnds, Stopped, Polls
<1>5. ASSUME NEW h \in Greenlets, pc'[h] \in Polls /\ work_timer'
      PROVE  sd'.must_pause
  BY <1>1, <1>2, <1>5 DEF PauseInv
<1>6. ASSUME NEW h \in Greenlets,
             pc'[h] = "restore" \/ (pc'[h] = "heat" /\ pause_resume'.is_paused /\ ~work_timer')
      PROVE  ~work_timer' /\ \A c \in Clients : pc'[c] \notin Polls
  <2>1. CASE h = g
    BY <1>1, <1>2, <1>3, <1>4, <1>6, <2>1 DEF Polls
  <2>2. CASE h # g
    BY <1>1, <1>2, <1>3, <1>6, <2>2 DEF PauseInv
  <2> QED BY <2>1, <2>2
<1> QED BY <1>1, <1>2, <1>5, <1>6 DEF PauseInv, Polls

-----------------------------------------------------------------------------
(* The file *)

Records == [loaded : BOOLEAN, position : 0..Len(Lines),
            next : 0..Len(Lines), must_pause : BOOLEAN, z : BOOLEAN,
            offset : 0..Len(Lines),
            lines : UNION {[1..n -> 1..Len(Lines)] : n \in 0..Chunk}]

LEMMA StopAsked ==
  ASSUME FileInv, sd' = AskPause, UNCHANGED <<worker, print_stats, begun>>
  PROVE  FileInv'
<1>1. sd \in Records
  BY DEF FileInv, FileTypeOK, Records
<1>2. /\ sd' \in Records /\ (sd.must_pause => sd'.must_pause)
      /\ sd'.loaded = sd.loaded /\ sd'.position = sd.position /\ sd'.next = sd.next
      /\ sd'.offset = sd.offset /\ sd'.lines = sd.lines
  BY <1>1 DEF Records, AskPause, work_timer
<1> QED BY <1>2 DEF FileInv, FileTypeOK, ReaderInv, StatsInv, StatsAgree, LinesInOrder,
     Running, work_timer, Records

LEMMA FileClosed ==
  ASSUME FileInv, NEW s, s \in {sd, AskPause}, sd' = Closed(s),
         UNCHANGED <<worker, begun>>,
         Running /\ sd.loaded => s.must_pause,
         \/ print_stats' = StatsReset
         \/ print_stats' = IF s.loaded THEN Finish("cancelled") ELSE print_stats
  PROVE  FileInv'
<1>1. sd \in Records
  BY DEF FileInv, FileTypeOK, Records
<1>2. /\ s \in Records /\ (sd.must_pause => s.must_pause) /\ s.loaded = sd.loaded
  BY <1>1 DEF Records, AskPause, work_timer
<1>3. sd' \in Records /\ sd'.loaded = FALSE /\ sd'.must_pause = s.must_pause
  <2>1. 0 \in 0..Len(Lines)
    BY FileAssumption
  <2> QED BY <1>1, <1>2, <2>1 DEF Records, Closed
<1>4. print_stats' \in [state : States, started : BOOLEAN]
  <2>1. /\ StatsReset \in [state : States, started : BOOLEAN]
        /\ [state |-> "cancelled", started |-> FALSE] \in [state : States, started : BOOLEAN]
    BY DEF StatsReset, States
  <2>2. print_stats \in [state : States, started : BOOLEAN]
    BY DEF FileInv, FileTypeOK
  <2> QED BY <2>1, <2>2 DEF Finish
<1>5. FileTypeOK'
  BY <1>3, <1>4 DEF FileInv, FileTypeOK, Records
<1>6. print_stats'.started => print_stats.started /\ ~sd.loaded
  BY <1>2 DEF Finish, StatsReset, FileInv, FileTypeOK
<1>7. ReaderInv'
  BY <1>2, <1>3, <1>6 DEF FileInv, ReaderInv, Running
<1>8. /\ print_stats'.state = "printing" => print_stats' = print_stats
      /\ print_stats'.state = "complete" => print_stats' = print_stats
  BY DEF Finish, StatsReset, FileInv, FileTypeOK, StatsInv, StatsAgree
<1>9. StatsInv'
  BY <1>3, <1>8 DEF FileInv, StatsInv, StatsAgree, Running, work_timer
<1> QED BY <1>5, <1>7, <1>9 DEF FileInv, LinesInOrder

LEMMA WorkerStarted ==
  ASSUME FileInv, ~work_timer, StartWorker(sd), UNCHANGED begun,
         print_stats' = print_stats \/ print_stats' = StatsReset
  PROVE  FileInv'
<1>1. sd \in Records
  BY DEF FileInv, FileTypeOK, Records
<1>2. /\ sd' \in Records /\ worker' = "due"
      /\ sd'.loaded = sd.loaded /\ sd'.position = sd.position
  BY <1>1 DEF Records, StartWorker
<1>3. FileTypeOK'
  <2>1. StatsReset \in [state : States, started : BOOLEAN]
    BY DEF StatsReset, States
  <2>2. print_stats \in [state : States, started : BOOLEAN] /\ worker' \in Workers
    BY <1>2 DEF FileInv, FileTypeOK, Workers
  <2> QED BY <1>2, <2>1, <2>2 DEF FileInv, FileTypeOK, Records
<1>4. ReaderInv'
  BY <1>2 DEF FileInv, ReaderInv, Running, work_timer
<1>5. StatsInv'
  BY <1>2 DEF FileInv, StatsInv, StatsAgree, Running, work_timer, StatsReset
<1> QED BY <1>3, <1>4, <1>5 DEF FileInv, LinesInOrder

-----------------------------------------------------------------------------
(* Scripts *)

LEMMA PauseStep ==
  ASSUME IInv, worker # "next", NEW g \in Greenlets, Pause(g)
  PROVE  IInv'
<1>0. /\ PauseTypeOK /\ FlagsTypeOK /\ FileInv /\ MutexInv /\ ScriptInv /\ PauseInv
      /\ MovesInv /\ HeatInv
  BY DEF IInv
<1>1. /\ pc[g] = "begin" /\ Holds(g) /\ script[g] = "pause"
      /\ UNCHANGED <<script, mutex, stop_heating, homed, hot, stuck, shutdown, requests>>
  BY DEF Pause, Begins
<1> DEFINE l == IF ~pause_resume.is_paused /\ ~pause_resume.sent /\ ~Stopped
                THEN "pausing" ELSE "done"
<1>2. /\ Goto(g, l) /\ UNCHANGED <<worker, print_stats, begun>>
      /\ sd' = sd \/ sd' = AskPause
  BY DEF Pause, Ends, fileVars
<1>3. l \in {"pausing", "done"} /\ (l = "pausing" => g # "worker" /\ work_timer)
  BY <1>0, <1>1 DEF Stopped, ScriptInv
<1>4. FileInv'
  BY <1>0, <1>2, FileAlone, StopAsked DEF fileVars
<1>5. /\ (sd.must_pause => sd'.must_pause) /\ sd'.loaded = sd.loaded
      /\ cmd_from_sd' <=> cmd_from_sd
      /\ sd' = AskPause /\ work_timer => sd'.must_pause
  BY <1>0, <1>2 DEF FileInv, FileTypeOK, AskPause, cmd_from_sd, work_timer
<1>6. /\ l = "pausing" => sd' = AskPause
      /\ PauseTypeOK'
  <2>1. work_timer \in BOOLEAN
    BY DEF work_timer
  <2> DEFINE p == IF pause_resume.sent THEN pause_resume.sd_paused ELSE work_timer
  <2>2. p \in BOOLEAN
    BY <1>0, <2>1 DEF PauseTypeOK
  <2>3. \/ pause_resume' = pause_resume
        \/ pause_resume' = [pause_resume EXCEPT !.sd_paused = TRUE]
        \/ pause_resume' = [is_paused |-> TRUE, sent |-> TRUE, sd_paused |-> p]
    BY DEF Pause
  <2> HIDE DEF p
  <2>4. PauseTypeOK'
    <3> DEFINE T == [is_paused : BOOLEAN, sd_paused : BOOLEAN, sent : BOOLEAN]
    <3>1. [is_paused |-> TRUE, sent |-> TRUE, sd_paused |-> p] \in T
      BY <2>2
    <3>2. pause_resume \in T
      BY <1>0 DEF PauseTypeOK
    <3>3. [pause_resume EXCEPT !.sd_paused = TRUE] \in T
      BY <3>2
    <3>4. pause_resume' \in T
      BY <2>3, <3>1, <3>2, <3>3
    <3> QED BY <3>4 DEF PauseTypeOK
  <2> QED BY <2>4 DEF Pause
<1>a. l \in Labels \ {"idle", "closing", "begin"}
  BY <1>3 DEF Labels
<1> HIDE DEF l
<1>b. MutexInv'
  BY <1>0, <1>1, <1>2, <1>a, MutexStays
<1>c. ScriptInv'
  BY <1>0, <1>1, <1>2, <1>3, <1>5, <1>a, ScriptGoesOn DEF Polls
<1>d. MovesInv'
  BY <1>0, <1>1, <1>2, <1>a, MovesGoOn
<1>e. HeatInv'
  BY <1>0, <1>1, <1>2, <1>5, <1>a, HeatGoesOn
<1>7. MutexInv' /\ ScriptInv' /\ MovesInv' /\ HeatInv'
  BY <1>b, <1>c, <1>d, <1>e
<1>8. PauseInv'
  <2>1. CASE pause_resume'.is_paused = pause_resume.is_paused
             /\ pause_resume'.sent = pause_resume.sent
    <3>1. pause_resume'.sent = pause_resume'.is_paused
      BY <1>0, <2>1 DEF PauseInv
    <3> QED BY <1>0, <1>1, <1>2, <1>3, <1>5, <1>6, <1>a, <2>1, <3>1, PauseGoesOn DEF Polls
  <2>2. CASE ~pause_resume.is_paused /\ (pause_resume.sent \/ Stopped)
    <3>1. pause_resume'.is_paused /\ pause_resume'.sent /\ ~pause_resume.sent /\ sd' = AskPause /\ Stopped
      BY <1>0, <2>2 DEF Pause, PauseInv
    <3> QED BY <1>0, <1>1, <1>2, <1>3, <1>5, <3>1, OnlyHolder DEF PauseInv, MutexInv, Goto, Stopped, work_timer, cmd_from_sd, Polls
  <2> QED BY <1>0, <2>1, <2>2 DEF Pause, PauseTypeOK, PauseInv
<1> QED BY <1>0, <1>1, <1>4, <1>6, <1>7, <1>8 DEF IInv, FlagsTypeOK

LEMMA PauseDoneStep ==
  ASSUME IInv, worker # "next", NEW g \in Greenlets, PauseDone(g)
  PROVE  IInv'
<1>0. /\ PauseTypeOK /\ FlagsTypeOK /\ FileInv /\ MutexInv /\ ScriptInv /\ PauseInv
      /\ MovesInv /\ HeatInv
  BY DEF IInv
<1>1. /\ pc[g] = "pausing" /\ Holds(g) /\ script[g] = "pause" /\ Stopped
      /\ Goto(g, "done")
      /\ pause_resume' = [pause_resume EXCEPT !.sent = TRUE, !.is_paused = TRUE]
      /\ UNCHANGED <<fileVars, script, mutex, stop_heating, homed, hot, stuck, shutdown,
                     requests>>
  BY <1>0 DEF PauseDone, PollEnds, MutexInv, ScriptInv, Ends
<1>2. UNCHANGED <<worker, sd, begun>>
  BY <1>1 DEF fileVars
<1>3. "done" \in Labels \ {"idle", "closing", "begin"} /\ "done" \notin Polls
  BY DEF Labels, Polls
<1>4. cmd_from_sd' <=> cmd_from_sd
  BY <1>2 DEF cmd_from_sd
<1>5. FileInv'
  BY <1>0, <1>1, FileAlone
<1>6. MutexInv'
  BY <1>0, <1>1, <1>3, MutexStays
<1>7. ScriptInv'
  BY <1>0, <1>1, <1>2, <1>3, <1>4, ScriptGoesOn
<1>8. MovesInv'
  BY <1>0, <1>1, <1>3, MovesGoOn
<1>9. HeatInv'
  BY <1>0, <1>1, <1>2, <1>3, HeatGoesOn
<1>10. PauseInv'
  BY <1>0, <1>1, <1>2, OnlyHolder
     DEF PauseInv, MutexInv, Goto, Stopped, work_timer, cmd_from_sd, Polls, PauseTypeOK
<1>11. PauseTypeOK'
  BY <1>0, <1>1 DEF PauseTypeOK
<1> QED BY <1>0, <1>1, <1>5, <1>6, <1>7, <1>8, <1>9, <1>10, <1>11 DEF IInv, FlagsTypeOK

LEMMA HeatStep ==
  ASSUME IInv, worker # "next", NEW g \in Greenlets, Heat(g)
  PROVE  IInv'
<1>0. /\ PauseTypeOK /\ FlagsTypeOK /\ FileInv /\ MutexInv /\ ScriptInv /\ PauseInv
      /\ MovesInv /\ HeatInv
  BY DEF IInv
<1>1. /\ pc[g] = "begin" /\ Holds(g) /\ script[g] \in {"heat", "resume"}
      /\ PollsArePrompt /\ Goto(g, "heat")
      /\ UNCHANGED <<fileVars, script, mutex, pause_resume, stop_heating, homed, stuck,
                     shutdown, requests>>
  BY DEF Heat, Begins
<1>2. UNCHANGED <<worker, sd, begun>>
  BY <1>1 DEF fileVars
<1>3. "heat" \in Labels \ {"idle", "closing", "begin"} /\ "heat" \notin Polls
      /\ pc[g] \notin Polls
  BY <1>1 DEF Labels, Polls
<1>4. cmd_from_sd' <=> cmd_from_sd
  BY <1>2 DEF cmd_from_sd
<1>5. FileInv'
  BY <1>0, <1>1, FileAlone
<1>6. MutexInv'
  BY <1>0, <1>1, <1>3, MutexStays
<1>7. ScriptInv'
  BY <1>0, <1>1, <1>2, <1>3, <1>4, ScriptGoesOn
<1>8. MovesInv'
  BY <1>0, <1>1, <1>3, MovesGoOn
<1>9. HeatInv'
  BY <1>0, <1>1 DEF HeatInv, MutexInv, Goto
<1>10. PauseInv'
  BY <1>0, <1>1, <1>2, <1>3, PauseGoesOn
<1>11. PauseTypeOK' /\ FlagsTypeOK'
  BY <1>0, <1>1 DEF PauseTypeOK, FlagsTypeOK, Heat
<1> QED BY <1>5, <1>6, <1>7, <1>8, <1>9, <1>10, <1>11 DEF IInv

LEMMA ResetFileStep ==
  ASSUME IInv, worker # "next", NEW g \in Greenlets, ResetFileCommand(g)
  PROVE  IInv'
<1>0. /\ PauseTypeOK /\ FlagsTypeOK /\ FileInv /\ MutexInv /\ ScriptInv /\ PauseInv
      /\ MovesInv /\ HeatInv
  BY DEF IInv
<1>1. /\ pc[g] = "begin" /\ Holds(g) /\ script[g] = "reset"
      /\ UNCHANGED <<worker, begun, script, mutex, pause_resume, stop_heating, homed, hot,
                     stuck, shutdown, requests>>
  BY DEF ResetFileCommand, Begins, fileVars
<1>2. PICK l \in {"error", "resetting", "done"} :
        /\ Goto(g, l)
        /\ \/ l # "resetting" /\ UNCHANGED fileVars
           \/ l = "resetting" /\ ~Stopped /\ sd' = AskPause /\ UNCHANGED print_stats
           \/ l = "done" /\ ~cmd_from_sd /\ (sd.loaded => Stopped) /\ ResetFile(sd)
  BY DEF ResetFileCommand, Fails, Ends
<1>3. /\ l \in Labels \ {"idle", "closing", "begin"}
      /\ l \in Polls => l = "resetting" /\ g # "worker" /\ work_timer /\ sd' = AskPause
  BY <1>0, <1>1, <1>2 DEF Labels, Polls, Stopped, ScriptInv
<1>4. cmd_from_sd' <=> cmd_from_sd
  BY <1>1 DEF cmd_from_sd
<1>5. sd \in Records
  BY <1>0 DEF FileInv, FileTypeOK, Records
<1>6. /\ sd'.loaded => sd.loaded
      /\ sd.must_pause => sd'.must_pause
      /\ l \in Polls => sd'.must_pause
  BY <1>2, <1>3, <1>5 DEF fileVars, AskPause, Closed, ResetFile, Records
<1>7. FileInv'
  <2>1. CASE UNCHANGED fileVars
    BY <1>0, <2>1, FileAlone
  <2>2. CASE sd' = AskPause /\ UNCHANGED print_stats
    BY <1>0, <1>1, <2>2, StopAsked
  <2>3. CASE ~cmd_from_sd /\ (sd.loaded => Stopped) /\ ResetFile(sd)
    <3>1. ~(Running /\ sd.loaded)
      BY <2>3 DEF Running, Stopped, work_timer, cmd_from_sd
    <3> QED BY <1>0, <1>1, <2>3, <3>1, FileClosed DEF ResetFile
  <2> QED BY <1>2, <2>1, <2>2, <2>3
<1>8. MutexInv'
  BY <1>0, <1>1, <1>2, <1>3, MutexStays
<1>9. ScriptInv'
  BY <1>0, <1>1, <1>2, <1>3, <1>4, <1>6, ScriptGoesOn
<1>10. MovesInv'
  BY <1>0, <1>1, <1>2, <1>3, MovesGoOn
<1>11. HeatInv'
  BY <1>0, <1>1, <1>2, <1>3, <1>6, HeatGoesOn
<1>12. PauseInv'
  BY <1>0, <1>1, <1>2, <1>3, <1>6, PauseGoesOn
<1> QED BY <1>0, <1>1, <1>7, <1>8, <1>9, <1>10, <1>11, <1>12 DEF IInv, PauseTypeOK, FlagsTypeOK

LEMMA ResetDoneStep ==
  ASSUME IInv, worker # "next", NEW g \in Greenlets, ResetDone(g)
  PROVE  IInv'
<1>0. /\ PauseTypeOK /\ FlagsTypeOK /\ FileInv /\ MutexInv /\ ScriptInv /\ PauseInv
      /\ MovesInv /\ HeatInv
  BY DEF IInv
<1>1. /\ pc[g] = "resetting" /\ Holds(g) /\ script[g] = "reset"
      /\ Goto(g, "done") /\ ResetFile(sd)
      /\ UNCHANGED <<worker, begun, script, mutex, pause_resume, stop_heating, homed, hot,
                     stuck, shutdown, requests>>
  BY <1>0 DEF ResetDone, Ends, MutexInv, ScriptInv
<1>2. "done" \in Labels \ {"idle", "closing", "begin"} /\ "done" \notin Polls
      /\ pc[g] \in Polls
  BY <1>1 DEF Labels, Polls
<1>3. cmd_from_sd' <=> cmd_from_sd
  BY <1>1 DEF cmd_from_sd
<1>4. sd \in Records
  BY <1>0 DEF FileInv, FileTypeOK, Records
<1>5. ~sd'.loaded /\ sd'.must_pause = sd.must_pause
  BY <1>1, <1>4 DEF Closed, ResetFile, Records
<1>6. FileInv'
  <2>1. Running => sd.must_pause
    BY <1>0, <1>2 DEF Running, PauseInv, work_timer
  <2> QED BY <1>0, <1>1, <2>1, FileClosed DEF ResetFile
<1>7. MutexInv'
  BY <1>0, <1>1, <1>2, MutexStays
<1>8. ScriptInv'
  BY <1>0, <1>1, <1>2, <1>3, <1>5, ScriptGoesOn
<1>9. MovesInv'
  BY <1>0, <1>1, <1>2, MovesGoOn
<1>10. HeatInv'
  BY <1>0, <1>1, <1>2, <1>5, HeatGoesOn
<1>11. PauseInv'
  BY <1>0, <1>1, <1>2, <1>5, PauseGoesOn
<1> QED BY <1>0, <1>1, <1>6, <1>7, <1>8, <1>9, <1>10, <1>11 DEF IInv, PauseTypeOK, FlagsTypeOK

LEMMA CancelMacroStep ==
  ASSUME IInv, worker # "next", NEW g \in Greenlets, CancelMacro(g)
  PROVE  IInv'
<1>0. /\ PauseTypeOK /\ FlagsTypeOK /\ FileInv /\ MutexInv /\ ScriptInv /\ PauseInv
      /\ MovesInv /\ HeatInv
  BY DEF IInv
<1>1. /\ pc[g] = "begin" /\ Holds(g) /\ script[g] = "cancel" /\ Goto(g, "homing")
      /\ UNCHANGED <<fileVars, script, mutex, pause_resume, stop_heating, homed, hot,
                     stuck, shutdown, requests>>
  BY DEF CancelMacro, Begins
<1>2. UNCHANGED <<worker, sd, begun>>
  BY <1>1 DEF fileVars
<1>3. "homing" \in Labels \ {"idle", "closing", "begin"} /\ "homing" \notin Polls
  BY DEF Labels, Polls
<1>4. cmd_from_sd' <=> cmd_from_sd
  BY <1>2 DEF cmd_from_sd
<1>5. FileInv'
  BY <1>0, <1>1, FileAlone
<1>6. MutexInv'
  BY <1>0, <1>1, <1>3, MutexStays
<1>7. ScriptInv'
  BY <1>0, <1>1, <1>2, <1>3, <1>4, ScriptGoesOn
<1>8. MovesInv'
  BY <1>0, <1>1, <1>3, MovesGoOn
<1>9. HeatInv'
  BY <1>0, <1>1, <1>2, <1>3, HeatGoesOn
<1>10. PauseInv'
  BY <1>0, <1>1, <1>2, <1>3, PauseGoesOn
<1> QED BY <1>0, <1>1, <1>5, <1>6, <1>7, <1>8, <1>9, <1>10 DEF IInv, PauseTypeOK, FlagsTypeOK

LEMMA HomingFailsStep ==
  ASSUME IInv, worker # "next", NEW g \in Greenlets, HomingFails(g)
  PROVE  IInv'
<1>0. /\ PauseTypeOK /\ FlagsTypeOK /\ FileInv /\ MutexInv /\ ScriptInv /\ PauseInv
      /\ MovesInv /\ HeatInv
  BY DEF IInv
<1>1. /\ pc[g] = "homing" /\ Holds(g) /\ script[g] = "cancel" /\ Goto(g, "error")
      /\ homed' \in BOOLEAN /\ stuck' = TRUE
      /\ UNCHANGED <<fileVars, script, mutex, pause_resume, stop_heating, hot, shutdown,
                     requests>>
  BY <1>0 DEF HomingFails, Fails, MutexInv, ScriptInv
<1>2. UNCHANGED <<worker, sd, begun>>
  BY <1>1 DEF fileVars
<1>3. "error" \in Labels \ {"idle", "closing", "begin"} /\ "error" \notin Polls
  BY DEF Labels, Polls
<1>4. cmd_from_sd' <=> cmd_from_sd
  BY <1>2 DEF cmd_from_sd
<1>5. FileInv'
  BY <1>0, <1>1, FileAlone
<1>6. MutexInv'
  BY <1>0, <1>1, <1>3, MutexStays
<1>7. ScriptInv'
  BY <1>0, <1>1, <1>2, <1>3, <1>4, ScriptGoesOn
<1>8. MovesInv'
  BY <1>1 DEF MovesInv, MovesCarriedOut
<1>9. HeatInv'
  BY <1>0, <1>1, <1>2, <1>3, HeatGoesOn
<1>10. PauseInv'
  BY <1>0, <1>1, <1>2, <1>3, PauseGoesOn
<1> QED BY <1>0, <1>1, <1>5, <1>6, <1>7, <1>8, <1>9, <1>10 DEF IInv, PauseTypeOK, FlagsTypeOK

(* What both ends of the macro CANCEL_PRINT have in common. *)
LEMMA CancelEnds ==
  ASSUME IInv, worker # "next", NEW g \in Greenlets, Holds(g), AfterCancel(g),
         pc[g] \in {"homing", "recancel"}, FileInv', sd'.loaded => sd.loaded,
         sd.must_pause => sd'.must_pause,
         UNCHANGED <<worker, begun, script, mutex, stop_heating, hot, shutdown, requests>>
  PROVE  IInv'
<1>0. /\ PauseTypeOK /\ FlagsTypeOK /\ FileInv /\ MutexInv /\ ScriptInv /\ PauseInv
      /\ MovesInv /\ HeatInv
  BY DEF IInv
<1>1. /\ Goto(g, "done") /\ homed' = FALSE /\ stuck' = FALSE /\ script[g] = "cancel"
      /\ pause_resume' = [pause_resume EXCEPT !.is_paused = FALSE, !.sent = FALSE]
  BY <1>0 DEF AfterCancel, Ends, ScriptInv
<1>2. "done" \in Labels \ {"idle", "closing", "begin"} /\ "done" \notin Polls
  BY DEF Labels, Polls
<1>3. cmd_from_sd' <=> cmd_from_sd
  BY DEF cmd_from_sd
<1>4. PauseTypeOK' /\ pause_resume'.is_paused = FALSE /\ pause_resume'.sent = FALSE
  BY <1>0, <1>1 DEF PauseTypeOK
<1>5. MutexInv'
  BY <1>0, <1>1, <1>2, MutexStays
<1>6. ScriptInv'
  BY <1>0, <1>1, <1>2, <1>3, ScriptGoesOn
<1>7. pc'[g] = "done" /\ Cancelling'
  BY <1>0, <1>1 DEF Cancelling, MutexInv, Goto
<1>8. MovesInv'
  BY <1>1, <1>7 DEF MovesInv, MovesCarriedOut
<1>9. HeatInv'
  BY <1>0, <1>1, <1>2, HeatGoesOn
<1>10. PauseInv'
  BY <1>0, <1>1, <1>2, <1>4, PauseGoesOn
<1> QED BY <1>0, <1>1, <1>4, <1>5, <1>6, <1>8, <1>9, <1>10 DEF IInv, FlagsTypeOK

LEMMA CancelBaseStep ==
  ASSUME IInv, worker # "next", NEW g \in Greenlets, CancelBase(g)
  PROVE  IInv'
<1>0. /\ PauseTypeOK /\ FlagsTypeOK /\ FileInv /\ MutexInv /\ ScriptInv /\ PauseInv
      /\ MovesInv /\ HeatInv
  BY DEF IInv
<1>1. /\ pc[g] = "homing" /\ Holds(g) /\ script[g] = "cancel"
      /\ UNCHANGED <<worker, begun, script, mutex, stop_heating, hot, shutdown, requests>>
  BY <1>0 DEF CancelBase, MutexInv, ScriptInv
<1>2. sd \in Records
  BY <1>0 DEF FileInv, FileTypeOK, Records
<1>3. CASE /\ ~Stopped /\ Goto(g, "recancel") /\ sd' = AskPause
           /\ UNCHANGED <<print_stats, pause_resume, homed, stuck>>
  <2>1. "recancel" \in Labels \ {"idle", "closing", "begin"} /\ "recancel" \in Polls
    BY DEF Labels, Polls
  <2>2. cmd_from_sd' <=> cmd_from_sd
    BY <1>1 DEF cmd_from_sd
  <2>3. work_timer /\ g # "worker" /\ sd'.must_pause /\ sd'.loaded = sd.loaded
    BY <1>0, <1>1, <1>2, <1>3 DEF Stopped, ScriptInv, AskPause, Records
  <2>4. FileInv'
    BY <1>0, <1>1, <1>3, StopAsked
  <2>5. MutexInv'
    BY <1>0, <1>1, <1>3, <2>1, MutexStays
  <2>6. ScriptInv'
    BY <1>0, <1>1, <1>3, <2>1, <2>2, <2>3, ScriptGoesOn
  <2>7. MovesInv'
    BY <1>0, <1>1, <1>3, <2>1, MovesGoOn
  <2>8. HeatInv'
    BY <1>0, <1>1, <1>3, <2>1, <2>3, HeatGoesOn
  <2>9. PauseInv'
    BY <1>0, <1>1, <1>3, <2>1, <2>3, PauseGoesOn
  <2> QED BY <1>0, <1>1, <1>3, <2>4, <2>5, <2>6, <2>7, <2>8, <2>9
          DEF IInv, PauseTypeOK, FlagsTypeOK
<1>4. CASE AfterCancel(g) /\ UNCHANGED <<sd, print_stats>>
  BY <1>0, <1>1, <1>4, CancelEnds, FileAlone DEF fileVars
<1>5. CASE AfterCancel(g) /\ Stopped /\ CancelFile(AskPause)
  <2>1. /\ Running => AskPause.must_pause
        /\ sd.must_pause => AskPause.must_pause
        /\ sd'.must_pause = AskPause.must_pause /\ sd'.loaded = FALSE
    BY <1>2, <1>5 DEF Running, AskPause, work_timer, Records, CancelFile, Closed
  <2>2. FileInv'
    BY <1>0, <1>1, <1>5, <2>1, FileClosed DEF CancelFile
  <2> QED BY <1>1, <1>5, <2>1, <2>2, CancelEnds
<1> QED BY <1>3, <1>4, <1>5 DEF CancelBase

LEMMA RecancelledStep ==
  ASSUME IInv, worker # "next", NEW g \in Greenlets, Recancelled(g)
  PROVE  IInv'
<1>0. /\ FileInv /\ MutexInv /\ ScriptInv /\ PauseInv
  BY DEF IInv
<1>1. /\ pc[g] = "recancel" /\ Holds(g) /\ AfterCancel(g) /\ CancelFile(sd)
      /\ UNCHANGED <<worker, begun, script, mutex, stop_heating, hot, shutdown, requests>>
  BY <1>0 DEF Recancelled, MutexInv
<1>2. sd \in Records
  BY <1>0 DEF FileInv, FileTypeOK, Records
<1>3. Running => sd.must_pause
  BY <1>0, <1>1 DEF Running, PauseInv, work_timer, Polls
<1>4. sd'.must_pause = sd.must_pause /\ sd'.loaded = FALSE
  BY <1>1, <1>2 DEF CancelFile, Closed, Records
<1>5. FileInv'
  BY <1>0, <1>1, <1>3, FileClosed DEF CancelFile
<1> QED BY <1>1, <1>4, <1>5, CancelEnds

(* A worker is started while the script of g ends. *)
LEMMA PauseEnds ==
  ASSUME MutexInv, ScriptInv, NEW g \in Greenlets, Holds(g),
         NEW l \in {"done", "error"}, Goto(g, l),
         \A c \in Clients : c # g => pc[c] \notin Polls,
         PauseTypeOK', ~pause_resume'.is_paused, ~pause_resume'.sent
  PROVE  PauseInv'
<1>1. pc'[g] = l /\ \A h \in Greenlets : h # g => pc'[h] = pc[h]
  BY DEF MutexInv, Goto
<1>2. \A h \in Greenlets : h # g => pc'[h] \in {"idle", "closing", "begin"}
  BY <1>1, OnlyHolder
<1>3. \A h \in Greenlets : pc'[h] \notin Polls
  BY <1>1 DEF Polls, Greenlets, ScriptInv
<1>4. \A h \in Greenlets : pc'[h] \notin {"restore", "heat"}
  BY <1>1, <1>2
<1>5. pause_resume'.sent = pause_resume'.is_paused
  BY DEF PauseTypeOK
<1> QED BY <1>3, <1>4, <1>5 DEF PauseInv

LEMMA FileLoaded ==
  ASSUME FileInv, ~work_timer, NEW position \in 0..Len(Lines), NEW z \in BOOLEAN,
         \/ sd' = Loaded(position, z) /\ worker' = worker
         \/ StartWorker(Loaded(position, z)),
         print_stats' = StatsReset, begun' = <<position>>
  PROVE  FileInv'
<1>1. sd \in Records
  BY DEF FileInv, FileTypeOK, Records
<1>2. /\ sd' \in Records /\ sd'.loaded /\ sd'.position = position
      /\ worker' \in {"none", "due"}
  BY <1>1 DEF Records, StartWorker, Loaded, work_timer
<1>3. /\ begun' \in Seq(0..Len(Lines)) /\ begun' # <<>> /\ Len(begun') = 1
      /\ begun'[1] = position
  OBVIOUS
<1>4. StatsReset \in [state : States, started : BOOLEAN] /\ StatsReset.state = "standby"
  BY DEF StatsReset, States
<1>5. FileTypeOK'
  BY <1>2, <1>3, <1>4 DEF FileTypeOK, Records, Workers
<1>6. ReaderInv' /\ LinesInOrder'
  <2>1. \A n \in 2..Len(begun') : FALSE
    BY <1>3
  <2>2. begun'[Len(begun')] = sd'.position /\ worker' # "line" /\ ~Running'
    BY <1>2, <1>3 DEF Running
  <2> QED BY <2>1, <2>2 DEF ReaderInv, LinesInOrder
<1>7. StatsInv'
  BY <1>2, <1>3, <1>4 DEF StatsInv, StatsAgree, Running, work_timer
<1> QED BY <1>5, <1>6, <1>7 DEF FileInv

LEMMA PrintFileStep ==
  ASSUME IInv, worker # "next", NEW g \in Greenlets, PrintFile(g)
  PROVE  IInv'
<1>0. /\ PauseTypeOK /\ FlagsTypeOK /\ FileInv /\ MutexInv /\ ScriptInv /\ PauseInv
      /\ MovesInv /\ HeatInv
  BY DEF IInv
<1>1. /\ pc[g] = "begin" /\ Holds(g) /\ script[g] \in {"start", "recover"}
      /\ PollsArePrompt
      /\ UNCHANGED <<script, mutex, pause_resume, stop_heating, homed, hot, stuck,
                     shutdown, requests>>
  BY DEF PrintFile, Begins
<1>2. {"error", "done", "restore"} \subseteq Labels \ {"idle", "closing", "begin"}
      /\ {"error", "done", "restore"} \cap Polls = {} /\ pc[g] \notin Polls
  BY <1>1 DEF Labels, Polls
<1>3. CASE work_timer /\ Goto(g, "error") /\ UNCHANGED fileVars
  <2>1. UNCHANGED <<worker, sd, begun>> /\ (cmd_from_sd' <=> cmd_from_sd)
    BY <1>3 DEF fileVars, cmd_from_sd
  <2>2. FileInv'
    BY <1>0, <1>3, FileAlone
  <2>3. MutexInv'
    BY <1>0, <1>1, <1>2, <1>3, MutexStays
  <2>4. ScriptInv'
    BY <1>0, <1>1, <1>2, <1>3, <2>1, ScriptGoesOn
  <2>5. MovesInv'
    BY <1>0, <1>1, <1>2, <1>3, MovesGoOn
  <2>6. HeatInv'
    BY <1>0, <1>1, <1>2, <1>3, <2>1, HeatGoesOn
  <2>7. PauseInv'
    BY <1>0, <1>1, <1>2, <1>3, <2>1, PauseGoesOn
  <2> QED BY <1>0, <1>1, <2>2, <2>3, <2>4, <2>5, <2>6, <2>7
          DEF IInv, PauseTypeOK, FlagsTypeOK
<1>4. CASE ~work_timer
  <2> DEFINE position == IF script[g] = "recover" THEN Pose ELSE 0
             z == script[g] = "recover"
  <2>1. position \in 0..Len(Lines) /\ z \in BOOLEAN
    BY FileAssumption
  <2>2. PICK l \in {"done", "restore"} :
          /\ Goto(g, l) /\ print_stats' = StatsReset /\ begun' = <<position>>
          /\ \/ /\ l = "restore" /\ sd' = Loaded(position, z) /\ worker' = worker
             \/ /\ l = "done" /\ ~pause_resume.is_paused /\ StartWorker(Loaded(position, z))
    BY <1>4 DEF PrintFile, Ends, ResumesFirst
  <2> HIDE DEF position, z
  <2>3. /\ ~cmd_from_sd /\ ~cmd_from_sd'
        /\ sd'.must_pause = sd.must_pause \/ l = "done"
    BY <1>0, <1>4, <2>2 DEF cmd_from_sd, work_timer, StartWorker, Loaded, FileInv, FileTypeOK
  <2>4. FileInv'
    BY <1>0, <1>4, <2>1, <2>2, FileLoaded
  <2>5. MutexInv'
    BY <1>0, <1>1, <1>2, <2>2, MutexStays
  <2>6. ScriptInv'
    BY <1>0, <1>1, <1>2, <2>2, <2>3, ScriptGoesOn
  <2>7. MovesInv'
    BY <1>0, <1>1, <1>2, <2>2, MovesGoOn
  <2>8. HeatInv'
    BY <2>2 DEF HeatInv, HeatBegun
  <2>9. \A c \in Clients : pc[c] \notin Polls
    BY <1>1, <1>4 DEF PollsArePrompt, PollEnds, Stopped, Polls
  <2>10. PauseInv'
    <3>1. CASE l = "restore"
      BY <1>0, <1>1, <1>2, <1>4, <2>2, <2>3, <3>1, PauseGoesOn
    <3>2. CASE l = "done"
      BY <1>0, <1>1, <2>2, <2>9, <3>2, PauseEnds DEF PauseInv, PauseTypeOK
    <3> QED BY <3>1, <3>2
  <2> QED BY <1>0, <1>1, <2>4, <2>5, <2>6, <2>7, <2>8, <2>10
          DEF IInv, PauseTypeOK, FlagsTypeOK
<1> QED BY <1>3, <1>4 DEF PrintFile, Fails

LEMMA RestoredStep ==
  ASSUME IInv, worker # "next", NEW g \in Greenlets, Restored(g)
  PROVE  IInv'
<1>0. /\ PauseTypeOK /\ FlagsTypeOK /\ FileInv /\ MutexInv /\ ScriptInv /\ PauseInv
      /\ MovesInv /\ HeatInv
  BY DEF IInv
<1>1. /\ pc[g] = "restore" /\ Holds(g) /\ script[g] \in {"start", "recover"}
      /\ StartWorker(sd) /\ pause_resume' = NotPaused /\ print_stats' = StatsReset
      /\ UNCHANGED <<begun, script, mutex, stop_heating, homed, hot, stuck, shutdown,
                     requests>>
  BY <1>0 DEF Restored, MutexInv, ScriptInv
<1>2. PICK l \in {"done", "error"} : Goto(g, l)
  BY DEF Restored, Fails, Ends
<1>3. l \in Labels \ {"idle", "closing", "begin"} /\ l \notin Polls
  BY <1>2 DEF Labels, Polls
<1>4. ~work_timer /\ \A c \in Clients : pc[c] \notin Polls
  BY <1>0, <1>1 DEF PauseInv
<1>5. ~cmd_from_sd /\ ~cmd_from_sd' /\ sd'.loaded = sd.loaded
  BY <1>0, <1>1, <1>4 DEF cmd_from_sd, work_timer, StartWorker, FileInv, FileTypeOK
<1>6. PauseTypeOK' /\ ~pause_resume'.is_paused /\ ~pause_resume'.sent
  BY <1>1 DEF PauseTypeOK, NotPaused
<1>7. FileInv'
  BY <1>0, <1>1, <1>4, WorkerStarted
<1>8. MutexInv'
  BY <1>0, <1>1, <1>2, <1>3, MutexStays
<1>9. ScriptInv'
  BY <1>0, <1>1, <1>2, <1>3, <1>5, ScriptGoesOn
<1>10. MovesInv'
  BY <1>0, <1>1, <1>2, <1>3, MovesGoOn
<1>11. HeatInv'
  BY <1>0, <1>1, <1>2, <1>3, <1>5, HeatGoesOn
<1>12. PauseInv'
  BY <1>0, <1>1, <1>2, <1>4, <1>6, PauseEnds
<1> QED BY <1>0, <1>1, <1>6, <1>7, <1>8, <1>9, <1>10, <1>11, <1>12 DEF IInv, FlagsTypeOK

LEMMA HeatDoneStep ==
  ASSUME IInv, worker # "next", NEW g \in Greenlets, HeatDone(g)
  PROVE  IInv'
<1>0. /\ PauseTypeOK /\ FlagsTypeOK /\ FileInv /\ MutexInv /\ ScriptInv /\ PauseInv
      /\ MovesInv /\ HeatInv
  BY DEF IInv
<1>1. /\ pc[g] = "heat" /\ Holds(g) /\ script[g] \in {"heat", "resume"}
      /\ Cancelled \/ hot
      /\ stop_heating' = (stop_heating /\ ~Cancelled)
      /\ UNCHANGED <<print_stats, begun, script, mutex, homed, hot, stuck, shutdown,
                     requests>>
  BY <1>0 DEF HeatDone, MutexInv, ScriptInv
<1> DEFINE starts == /\ pause_resume.is_paused /\ ~work_timer /\ StartWorker(sd)
                     /\ pause_resume' = NotPaused
<1>2. PICK l \in {"done", "error"} :
        /\ Goto(g, l)
        /\ \/ starts
           \/ UNCHANGED <<worker, sd>> /\ pause_resume' \in {pause_resume, NotPaused}
  BY DEF HeatDone, Fails, Ends
<1>3. l \in Labels \ {"idle", "closing", "begin"} /\ l \notin Polls
  BY <1>2 DEF Labels, Polls
<1>4. /\ sd'.loaded = sd.loaded /\ (cmd_from_sd' <=> cmd_from_sd)
  BY <1>0, <1>2 DEF cmd_from_sd, work_timer, StartWorker, FileInv, FileTypeOK
<1>5. PauseTypeOK' /\ FlagsTypeOK'
  <2>1. NotPaused \in [is_paused : BOOLEAN, sd_paused : BOOLEAN, sent : BOOLEAN]
    BY DEF NotPaused
  <2>2. stop_heating' \in BOOLEAN
    BY <1>1
  <2> QED BY <1>0, <1>1, <1>2, <2>1, <2>2 DEF PauseTypeOK, FlagsTypeOK
<1>6. FileInv'
  BY <1>0, <1>1, <1>2, FileAlone, WorkerStarted DEF fileVars
<1>7. MutexInv'
  BY <1>0, <1>1, <1>2, <1>3, MutexStays
<1>8. ScriptInv'
  BY <1>0, <1>1, <1>2, <1>3, <1>4, ScriptGoesOn
<1>9. MovesInv'
  <2>1. /\ \A h \in Greenlets : h # g => pc'[h] = pc[h]
        /\ pc[g] # "idle" /\ pc'[g] # "idle" /\ pc'[g] # "begin"
    BY <1>0, <1>1, <1>2 DEF MutexInv, Goto
  <2>2. /\ Cancelling' <=> Cancelling
        /\ stop_heating' => stop_heating
    BY <1>1, <2>1 DEF Cancelling
  <2>3. MovesCarriedOut'
    BY <1>0, <1>1, <2>2 DEF MovesInv, MovesCarriedOut, Cancelling
  <2>4. "worker" \in Greenlets
    BY DEF Greenlets
  <2> QED BY <1>0, <1>1, <2>1, <2>2, <2>3, <2>4 DEF MovesInv
<1>10. HeatInv'
  BY <1>0, <1>1, <1>4 DEF HeatInv, HeatBegun, Cancelled
<1>11. PauseInv'
  <2>1. CASE starts
    <3>1. \A c \in Clients : pc[c] \notin Polls
      BY <1>0, <1>1, <2>1 DEF PauseInv
    <3>2. ~pause_resume'.is_paused /\ ~pause_resume'.sent
      BY <2>1 DEF NotPaused
    <3> QED BY <1>0, <1>1, <1>2, <1>5, <3>1, <3>2, PauseEnds
  <2>2. CASE UNCHANGED <<worker, sd>> /\ pause_resume' \in {pause_resume, NotPaused}
    <3>1. /\ pause_resume'.is_paused => pause_resume.is_paused
          /\ pause_resume' = pause_resume \/ pause_resume'.sent = pause_resume'.is_paused
      <4>1. CASE pause_resume' = pause_resume
        BY <4>1
      <4>2. CASE pause_resume' = NotPaused
        BY <4>2 DEF NotPaused
      <4> QED BY <2>2, <4>1, <4>2
    <3> QED BY <1>0, <1>1, <1>2, <1>3, <2>2, <3>1, PauseGoesOn
  <2> QED BY <1>2, <2>1, <2>2
<1> QED BY <1>5, <1>6, <1>7, <1>8, <1>9, <1>10, <1>11 DEF IInv

(* Steps of a script that leave every place alone. *)
LEMMA CrashStep ==
  ASSUME IInv, NEW g \in Greenlets, Crash(g)
  PROVE  IInv'
<1>0. /\ PauseTypeOK /\ FlagsTypeOK /\ FileInv /\ MutexInv /\ ScriptInv /\ PauseInv
      /\ MovesInv /\ HeatInv
  BY DEF IInv
<1>1. /\ UNCHANGED <<fileVars, scriptVars, mutex, pause_resume, stop_heating, homed, hot,
                     stuck, requests>>
      /\ shutdown' = TRUE
  BY DEF Crash
<1>2. UNCHANGED <<worker, sd, begun, print_stats, pc, script>>
  BY <1>1 DEF fileVars, scriptVars
<1>3. FileInv'
  BY <1>0, <1>1, FileAlone
<1>4. MutexInv' /\ ScriptInv'
  BY <1>0, <1>1, <1>2 DEF MutexInv, Holds, ScriptInv, cmd_from_sd
<1>5. PauseInv' /\ PauseTypeOK' /\ FlagsTypeOK'
  BY <1>0, <1>1, <1>2 DEF PauseInv, work_timer, PauseTypeOK, FlagsTypeOK
<1>6. MovesInv' /\ HeatInv'
  BY <1>0, <1>1, <1>2 DEF MovesInv, MovesCarriedOut, Cancelling, HeatInv, HeatBegun
<1> QED BY <1>3, <1>4, <1>5, <1>6 DEF IInv

LEMMA TemperatureStep ==
  ASSUME IInv, TemperatureReached
  PROVE  IInv'
<1>0. /\ PauseTypeOK /\ FlagsTypeOK /\ FileInv /\ MutexInv /\ ScriptInv /\ PauseInv
      /\ MovesInv /\ HeatInv
  BY DEF IInv
<1>1. /\ UNCHANGED <<fileVars, scriptVars, mutex, pause_resume, stop_heating, homed,
                     stuck, shutdown, requests>>
      /\ hot' = TRUE
  BY DEF TemperatureReached
<1>2. UNCHANGED <<worker, sd, begun, print_stats, pc, script>>
  BY <1>1 DEF fileVars, scriptVars
<1>3. FileInv'
  BY <1>0, <1>1, FileAlone
<1>4. MutexInv' /\ ScriptInv'
  BY <1>0, <1>1, <1>2 DEF MutexInv, Holds, ScriptInv, cmd_from_sd
<1>5. PauseInv' /\ PauseTypeOK' /\ FlagsTypeOK'
  BY <1>0, <1>1, <1>2 DEF PauseInv, work_timer, PauseTypeOK, FlagsTypeOK
<1>6. MovesInv' /\ HeatInv'
  BY <1>0, <1>1, <1>2 DEF MovesInv, MovesCarriedOut, Cancelling, HeatInv
<1> QED BY <1>3, <1>4, <1>5, <1>6 DEF IInv

-----------------------------------------------------------------------------
(* Requests *)

LEMMA AnswerStep ==
  ASSUME IInv, worker # "next", NEW g \in Greenlets, Answer(g)
  PROVE  IInv'
<1>0. /\ PauseTypeOK /\ FlagsTypeOK /\ FileInv /\ MutexInv /\ ScriptInv /\ PauseInv
      /\ MovesInv /\ HeatInv
  BY DEF IInv
<1>1. /\ g # "worker" /\ pc[g] \in {"done", "error"} /\ Holds(g) /\ Leave(g)
      /\ UNCHANGED <<fileVars, pause_resume, stop_heating, homed, hot, stuck, shutdown,
                     requests>>
  BY <1>0, ClientsAssumption DEF Answer, MutexInv
<1>2. UNCHANGED <<worker, sd, begun, print_stats>>
  BY <1>1 DEF fileVars
<1>3. /\ pc'[g] = "idle" /\ script'[g] = "none" /\ script' \in [Greenlets -> Scripts]
      /\ \A h \in Greenlets : h # g => pc'[h] = pc[h] /\ script'[h] = script[h]
      /\ "worker" \in Greenlets
  <2>1. pc' = [pc EXCEPT ![g] = "idle"] /\ script' = [script EXCEPT ![g] = "none"]
    BY <1>1 DEF Leave, Goto
  <2>2. DOMAIN pc = Greenlets /\ script \in [Greenlets -> Scripts] /\ "none" \in Scripts
    BY <1>0 DEF MutexInv, ScriptInv, Scripts
  <2> QED BY <2>1, <2>2 DEF Greenlets
<1>4. pc["worker"] # "idle" => script["worker"] = "cancel"
  BY <1>0, <1>1 DEF ScriptInv, Holds
<1>5. FileInv'
  BY <1>0, <1>1, FileAlone
<1>6. MutexInv'
  BY <1>0, <1>1, MutexLeft
<1>7. ScriptInv'
  BY <1>0, <1>1, <1>2, <1>3, <1>4 DEF ScriptInv, cmd_from_sd
<1>8. MovesInv'
  <2>1. \A h \in Greenlets : h # g => pc[h] \notin {"done", "error"}
    BY <1>0, <1>1, OnlyHolder
  <2>2. \A h \in Greenlets : pc'[h] \notin {"done", "error"}
    BY <1>3, <2>1
  <2>3. ASSUME stop_heating, homed, ~stuck
        PROVE  \E h \in Greenlets : script'[h] = "cancel" /\ pc'[h] # "idle"
    <3>1. \E h \in Greenlets \ {g} : script[h] = "cancel" /\ pc[h] # "idle"
      BY <1>0, <1>1, <2>3 DEF MovesInv, MovesCarriedOut
    <3> QED BY <1>3, <3>1
  <2>4. pc'["worker"] # "begin" \/ script'["worker"] # "home"
    BY <1>3, <1>4
  <2> QED BY <1>1, <2>2, <2>3, <2>4 DEF MovesInv, MovesCarriedOut, Cancelling
<1>9. HeatInv'
  BY <1>0, <1>1, <1>2, <1>3 DEF HeatInv, HeatBegun
<1>10. PauseInv' /\ PauseTypeOK' /\ FlagsTypeOK'
  BY <1>0, <1>1, <1>2, <1>3
     DEF PauseInv, work_timer, PauseTypeOK, FlagsTypeOK, Polls, Greenlets
<1> QED BY <1>5, <1>6, <1>7, <1>8, <1>9, <1>10 DEF IInv

(* The script of g asks for the mutex. *)
LEMMA ScriptAsks ==
  ASSUME IInv, worker # "next", NEW g \in Greenlets, g # "worker",
         pc[g] \in {"idle", "closing"}, Goto(g, "begin"), Queue(g),
         script' = script \/ \E s \in Requests : script' = [script EXCEPT ![g] = s],
         FileInv', UNCHANGED <<worker, begun, pause_resume, homed, hot, stuck, shutdown>>,
         sd'.loaded => sd.loaded, sd.must_pause => sd'.must_pause,
         requests' \in 0..MaxRequests,
         \/ script'[g] = "cancel" /\ stop_heating' \in BOOLEAN
         \/ script[g] # "cancel" /\ stop_heating' = ClearedIfNotHomed(stop_heating)
         \/ pc[g] = "idle" /\ stop_heating' = ClearedIfNotHomed(stop_heating)
  PROVE  IInv'
<1>0. /\ PauseTypeOK /\ FlagsTypeOK /\ FileInv /\ MutexInv /\ ScriptInv /\ PauseInv
      /\ MovesInv /\ HeatInv
  BY DEF IInv
<1>1. /\ pc'[g] = "begin" /\ script' \in [Greenlets -> Scripts]
      /\ \A h \in Greenlets : h # g => pc'[h] = pc[h] /\ script'[h] = script[h]
      /\ "worker" \in Greenlets
  <2>1. pc' = [pc EXCEPT ![g] = "begin"]
    BY DEF Goto
  <2>2. DOMAIN pc = Greenlets /\ script \in [Greenlets -> Scripts]
    BY <1>0 DEF MutexInv, ScriptInv
  <2>3. \A s \in Requests : s \in Scripts
    BY DEF Scripts
  <2> QED BY <2>1, <2>2, <2>3 DEF Greenlets
<1>2. Holds("worker") => Holds("worker")'
  BY <1>0 DEF MutexInv, Holds, Queue
<1>3. MutexInv'
  BY <1>0, MutexAsked
<1>4. ScriptInv'
  BY <1>0, <1>1, <1>2 DEF ScriptInv, cmd_from_sd
<1>5. HeatInv'
  BY <1>0, <1>1 DEF HeatInv, HeatBegun
<1>6. PauseInv'
  BY <1>0, <1>1 DEF PauseInv, work_timer, Polls, Greenlets
<1>7. stop_heating' \in BOOLEAN
  BY <1>0 DEF FlagsTypeOK, ClearedIfNotHomed
<1>8. MovesInv'
  <2>1. CASE script'[g] = "cancel"
    BY <1>0, <1>1, <2>1 DEF MovesInv, MovesCarriedOut, Cancelling
  <2>2. CASE script'[g] # "cancel" /\ stop_heating' = ClearedIfNotHomed(stop_heating)
    <3>1. Cancelling => Cancelling' \/ (script[g] = "cancel" /\ pc[g] # "idle")
      BY <1>1 DEF Cancelling
    <3>2. stop_heating' => stop_heating /\ homed
      BY <1>0, <2>2 DEF ClearedIfNotHomed
    <3> QED BY <1>0, <1>1, <2>2, <3>1, <3>2 DEF MovesInv, MovesCarriedOut, Cancelling
  <2> QED BY <2>1, <2>2
<1>9. PauseTypeOK' /\ FlagsTypeOK'
  BY <1>0, <1>7 DEF PauseTypeOK, FlagsTypeOK
<1> QED BY <1>3, <1>4, <1>5, <1>6, <1>8, <1>9 DEF IInv

LEMMA CloseFileStep ==
  ASSUME IInv, worker # "next", NEW g \in Greenlets, CloseFile(g)
  PROVE  IInv'
<1>0. /\ FileInv /\ ScriptInv /\ PauseInv /\ FlagsTypeOK
  BY DEF IInv
<1>1. /\ pc[g] = "closing" /\ g # "worker" /\ script[g] = "cancel" /\ CancelFile(sd)
      /\ stop_heating' = ClearedIfNotHomed(stop_heating)
      /\ Goto(g, "begin") /\ Queue(g)
      /\ UNCHANGED <<worker, begun, script, pause_resume, homed, hot, stuck, shutdown,
                     requests>>
  BY <1>0 DEF CloseFile, ScriptInv, Polls
<1>2. sd \in Records
  BY <1>0 DEF FileInv, FileTypeOK, Records
<1>3. Running => sd.must_pause
  BY <1>0, <1>1 DEF Running, PauseInv, work_timer, Polls
<1>4. sd'.must_pause = sd.must_pause /\ sd'.loaded = FALSE
  BY <1>1, <1>2 DEF CancelFile, Closed, Records
<1>5. FileInv'
  BY <1>0, <1>1, <1>3, FileClosed DEF CancelFile
<1>6. stop_heating' \in BOOLEAN /\ requests' \in 0..MaxRequests
  BY <1>0, <1>1 DEF ClearedIfNotHomed, FlagsTypeOK
<1>7. pc[g] \in {"idle", "closing"} /\ script'[g] = "cancel"
  BY <1>1
<1> QED BY <1>1, <1>4, <1>5, <1>6, <1>7, ScriptAsks

LEMMA RequestStep ==
  ASSUME IInv, worker # "next", NEW g \in Clients, NEW s \in Requests, Request(g, s)
  PROVE  IInv'
<1>0. /\ PauseTypeOK /\ FlagsTypeOK /\ FileInv /\ MutexInv /\ ScriptInv /\ PauseInv
      /\ MovesInv /\ HeatInv
  BY DEF IInv
<1>1. /\ g \in Greenlets /\ g # "worker" /\ pc[g] = "idle" /\ pc[g] \in {"idle", "closing"}
      /\ script' = [script EXCEPT ![g] = s] /\ script'[g] = s
      /\ UNCHANGED <<pause_resume, homed, hot, stuck, shutdown>>
  BY <1>0, ClientsAssumption DEF Request, Greenlets, ScriptInv
<1>2. requests' \in 0..MaxRequests
  BY <1>0, ClientsAssumption DEF Request, FlagsTypeOK
<1>3. sd \in Records
  BY <1>0 DEF FileInv, FileTypeOK, Records
<1>4. CASE /\ s # "cancel"
           /\ stop_heating' = ClearedIfNotHomed(stop_heating)
           /\ Goto(g, "begin") /\ Queue(g) /\ UNCHANGED fileVars
  <2>1. FileInv'
    BY <1>0, <1>4, FileAlone
  <2>2. UNCHANGED <<worker, begun, sd>>
    BY <1>4 DEF fileVars
  <2> QED BY <1>1, <1>2, <1>4, <2>1, <2>2, ScriptAsks
<1>5. CASE /\ s = "cancel" /\ ~(sd.loaded /\ ~Stopped)
           /\ stop_heating' = ClearedIfNotHomed(TRUE)
           /\ CancelFile(IF sd.loaded THEN AskPause ELSE sd)
           /\ Goto(g, "begin") /\ Queue(g) /\ UNCHANGED <<worker, begun>>
  <2> DEFINE f == IF sd.loaded THEN AskPause ELSE sd
  <2>1. /\ f \in {sd, AskPause} /\ f.loaded = sd.loaded
        /\ Running /\ sd.loaded => f.must_pause
        /\ sd.must_pause => f.must_pause
        /\ sd' = Closed(f) /\ sd'.must_pause = f.must_pause /\ sd'.loaded = FALSE
    BY <1>3, <1>5 DEF AskPause, Records, work_timer, Running, CancelFile, Closed
  <2>2. FileInv'
    BY <1>0, <1>5, <2>1, FileClosed DEF CancelFile
  <2>3. stop_heating' \in BOOLEAN
    BY <1>0, <1>5 DEF ClearedIfNotHomed, FlagsTypeOK
  <2> HIDE DEF f
  <2> QED BY <1>1, <1>2, <1>5, <2>1, <2>2, <2>3, ScriptAsks
<1>6. CASE /\ s = "cancel" /\ sd.loaded /\ ~Stopped
           /\ stop_heating' = TRUE /\ sd' = AskPause /\ Goto(g, "closing")
           /\ UNCHANGED <<worker, print_stats, begun, mutex>>
  <2>1. /\ pc'[g] = "closing" /\ script'[g] = "cancel" /\ script' \in [Greenlets -> Scripts]
        /\ \A h \in Greenlets : h # g => pc'[h] = pc[h] /\ script'[h] = script[h]
        /\ "worker" \in Greenlets
    <3>1. pc' = [pc EXCEPT ![g] = "closing"] /\ "cancel" \in Scripts
      BY <1>6 DEF Goto, Scripts
    <3>2. DOMAIN pc = Greenlets /\ script \in [Greenlets -> Scripts]
      BY <1>0 DEF MutexInv, ScriptInv
    <3> QED BY <1>1, <1>6, <3>1, <3>2 DEF Greenlets
  <2>2. /\ sd'.must_pause /\ sd'.loaded = sd.loaded /\ work_timer
        /\ (cmd_from_sd' <=> cmd_from_sd) /\ (work_timer' <=> work_timer)
    BY <1>3, <1>6 DEF AskPause, Records, work_timer, Stopped, cmd_from_sd
  <2>3. FileInv'
    BY <1>0, <1>6, StopAsked
  <2>4. MutexInv'
    <3>1. {h \in Greenlets : pc'[h] \notin {"idle", "closing"}}
            = {h \in Greenlets : pc[h] \notin {"idle", "closing"}}
      BY <1>1, <2>1
    <3>2. pc' \in [Greenlets -> Labels]
      BY <1>0, <1>6 DEF MutexInv, Goto, Labels
    <3>3. \A h \in Greenlets : pc'[h] \notin {"idle", "closing", "begin"} => Holds(h)'
      BY <1>0, <1>6, <2>1 DEF MutexInv, Holds
    <3> QED BY <1>0, <1>6, <3>1, <3>2, <3>3 DEF MutexInv
  <2>5. ScriptInv'
    BY <1>0, <1>1, <1>6, <2>1, <2>2 DEF ScriptInv, Holds
  <2>6. MovesInv'
    BY <1>0, <1>1, <1>6, <2>1 DEF MovesInv, MovesCarriedOut, Cancelling
  <2>7. HeatInv'
    BY <1>0, <1>1, <1>6, <2>1, <2>2 DEF HeatInv, HeatBegun
  <2>8. PauseInv'
    BY <1>0, <1>1, <1>6, <2>1, <2>2 DEF PauseInv
  <2> QED BY <1>0, <1>1, <1>2, <1>6, <2>3, <2>4, <2>5, <2>6, <2>7, <2>8
          DEF IInv, PauseTypeOK, FlagsTypeOK
<1> QED BY <1>4, <1>5, <1>6 DEF Request

-----------------------------------------------------------------------------
(* The worker *)

Buffers == UNION {[1..n -> 1..Len(Lines)] : n \in 0..Chunk}

LEMMA BufferFacts ==
  /\ <<>> \in Buffers
  /\ \A b \in Buffers :
       /\ Len(b) \in 0..Chunk /\ (b = <<>> <=> Len(b) = 0)
       /\ \A i \in 1..Len(b) : b[i] \in 1..Len(Lines)
       /\ b # <<>> => /\ Tail(b) \in Buffers /\ Len(Tail(b)) = Len(b) - 1
                      /\ \A i \in 1..Len(Tail(b)) : Tail(b)[i] = b[i + 1]
                      /\ Head(b) = b[1]
<1>1. <<>> \in Buffers
  <2>1. 0 \in 0..Chunk /\ <<>> \in [1..0 -> 1..Len(Lines)]
    BY FileAssumption
  <2> QED BY <2>1 DEF Buffers
<1>2. ASSUME NEW b \in Buffers
      PROVE  /\ Len(b) \in 0..Chunk /\ (b = <<>> <=> Len(b) = 0)
             /\ \A i \in 1..Len(b) : b[i] \in 1..Len(Lines)
             /\ b # <<>> => /\ Tail(b) \in Buffers /\ Len(Tail(b)) = Len(b) - 1
                            /\ \A i \in 1..Len(Tail(b)) : Tail(b)[i] = b[i + 1]
                            /\ Head(b) = b[1]
  <2>1. PICK n \in 0..Chunk : b \in [1..n -> 1..Len(Lines)]
    BY DEF Buffers
  <2>2. n \in Nat
    BY FileAssumption
  <2>3. b \in Seq(1..Len(Lines)) /\ Len(b) = n
    BY <2>1, <2>2
  <2>4. ASSUME b # <<>>
        PROVE  /\ Tail(b) \in Buffers /\ Len(Tail(b)) = Len(b) - 1
               /\ \A i \in 1..Len(Tail(b)) : Tail(b)[i] = b[i + 1]
               /\ Head(b) = b[1]
    <3>1. /\ Tail(b) \in Seq(1..Len(Lines)) /\ Len(Tail(b)) = Len(b) - 1
          /\ \A i \in 1..Len(Tail(b)) : Tail(b)[i] = b[i + 1]
          /\ Head(b) = b[1] /\ n # 0
      BY <2>3, <2>4
    <3>2. n - 1 \in 0..Chunk /\ Tail(b) \in [1..(n - 1) -> 1..Len(Lines)]
      <4>1. n - 1 \in 0..Chunk
        BY <2>1, <2>2, <3>1, FileAssumption
      <4> DEFINE t == Tail(b)
      <4>2. t \in Seq(1..Len(Lines)) /\ Len(t) = n - 1
        BY <2>3, <3>1
      <4> HIDE DEF t
      <4>3. t \in [1..(n - 1) -> 1..Len(Lines)]
        BY <4>2
      <4> QED BY <4>1, <4>3 DEF t
    <3> QED BY <3>1, <3>2 DEF Buffers
  <2>5. b = <<>> <=> Len(b) = 0
    BY <2>3
  <2> QED BY <2>1, <2>3, <2>4, <2>5
<1> QED BY <1>1, <1>2

LEMMA UpcomingFacts ==
  ASSUME sd \in Records
  PROVE  /\ Upcoming \in Buffers
         /\ \A i \in 1..Len(Upcoming) : Upcoming[i] = sd.offset + i
         /\ sd.offset + Len(Upcoming) \in 0..Len(Lines)
         /\ Upcoming = <<>> => sd.offset = Len(Lines)
<1> DEFINE last == IF sd.offset + Chunk > Len(Lines) THEN Len(Lines)
                   ELSE sd.offset + Chunk
           n == last - sd.offset
<1>1. Len(Lines) \in Nat /\ Chunk \in Nat \ {0} /\ sd.offset \in 0..Len(Lines)
  BY FileAssumption DEF Records
<1>2. /\ n \in 0..Chunk /\ sd.offset + n \in 0..Len(Lines)
      /\ n = 0 => sd.offset = Len(Lines)
  BY <1>1
<1>3. Upcoming = [i \in 1..n |-> sd.offset + i]
  BY DEF Upcoming
<1> HIDE DEF n
<1>4. \A i \in 1..n : sd.offset + i \in 1..Len(Lines)
  BY <1>1, <1>2
<1>5. Upcoming \in [1..n -> 1..Len(Lines)] /\ n \in Nat
  BY <1>1, <1>2, <1>3, <1>4
<1>6. Len(Upcoming) = n
  BY <1>5
<1>7. Upcoming = <<>> => n = 0
  BY <1>6
<1> QED BY <1>2, <1>3, <1>5, <1>6, <1>7 DEF Buffers

LEMMA WorkerAndFlags ==
  ASSUME IInv, FileInv', work_timer, worker # "line", worker' # "line",
         pause_resume.is_paused => worker' = "none" /\ worker = "next",
         sd'.must_pause = sd.must_pause, sd'.loaded => sd.loaded,
         homed' \in BOOLEAN, stuck' = (stuck \/ (stop_heating /\ ~homed /\ homed')),
         UNCHANGED <<begun, scriptVars, mutex, pause_resume, stop_heating, hot, shutdown,
                     requests>>
  PROVE  IInv'
<1>0. /\ PauseTypeOK /\ FlagsTypeOK /\ FileInv /\ MutexInv /\ ScriptInv /\ PauseInv
      /\ MovesInv /\ HeatInv
  BY DEF IInv
<1>1. /\ UNCHANGED <<pc, script>> /\ pc["worker"] = "idle"
      /\ ~cmd_from_sd /\ ~cmd_from_sd'
  BY <1>0 DEF scriptVars, ScriptInv, cmd_from_sd
<1>2. MutexInv' /\ ScriptInv'
  BY <1>0, <1>1 DEF MutexInv, Holds, ScriptInv
<1>3. PauseInv'
  BY <1>0, <1>1 DEF PauseInv, work_timer
<1>4. MovesInv'
  <2>1. stop_heating /\ (~homed \/ stuck) => ~homed' \/ stuck'
    BY <1>0 DEF FlagsTypeOK
  <2> QED BY <1>0, <1>1, <2>1 DEF MovesInv, MovesCarriedOut, Cancelling
<1>5. HeatInv'
  BY <1>0, <1>1 DEF HeatInv, HeatBegun
<1>6. PauseTypeOK' /\ FlagsTypeOK'
  BY <1>0 DEF PauseTypeOK, FlagsTypeOK
<1> QED BY <1>2, <1>3, <1>4, <1>5, <1>6 DEF IInv

LEMMA WorkerGoesOn ==
  ASSUME IInv, FileInv', work_timer, worker # "line", worker' # "line",
         pause_resume.is_paused => worker' = "none" /\ worker = "next",
         sd'.must_pause = sd.must_pause, sd'.loaded => sd.loaded,
         UNCHANGED <<begun, scriptVars, mutex, pause_resume, stop_heating, homed, hot,
                     stuck, shutdown, requests>>
  PROVE  IInv'
<1>1. homed' \in BOOLEAN /\ stuck' = (stuck \/ (stop_heating /\ ~homed /\ homed'))
  BY DEF IInv, FlagsTypeOK
<1> QED BY <1>1, WorkerAndFlags

(* The fields of a file that a step of the worker leaves as they are. *)
LEMMA FinishFacts ==
  ASSUME FileInv, NEW state \in States \ {"printing"}
  PROVE  /\ Finish(state) \in [state : States, started : BOOLEAN]
         /\ Finish(state).state \in {state, print_stats.state}
         /\ Finish(state).state # "printing"
         /\ ~print_stats.started => Finish(state) = print_stats
<1>1. print_stats \in [state : States, started : BOOLEAN]
  BY DEF FileInv, FileTypeOK
<1>2. [state |-> state, started |-> FALSE] \in [state : States, started : BOOLEAN]
  OBVIOUS
<1>3. print_stats.state = "printing" => print_stats.started
  BY DEF FileInv, StatsInv
<1> QED BY <1>1, <1>2, <1>3 DEF Finish

LEMMA PauseNoted ==
  ASSUME FileInv
  PROVE  /\ note_pause \in [state : States, started : BOOLEAN]
         /\ note_pause.state = IF print_stats.state = "error" THEN "error" ELSE "paused"
  BY DEF FileInv, FileTypeOK, note_pause, States

LEMMA WorkHandlerStep ==
  ASSUME IInv, WorkHandler,
         UNCHANGED <<scriptVars, mutex, pause_resume, stop_heating, homed, hot, stuck,
                     shutdown, requests>>
  PROVE  IInv'
<1>0. FileInv /\ PauseInv
  BY DEF IInv
<1>1. sd \in Records /\ print_stats \in [state : States, started : BOOLEAN]
  BY <1>0 DEF FileInv, FileTypeOK, Records
<1>2. worker = "due" /\ begun' = begun /\ sd'.must_pause = sd.must_pause
      /\ sd'.loaded = sd.loaded /\ worker' \in {"none", "next"}
  BY <1>1 DEF WorkHandler, ExitWorker, Records
<1>3. FileInv'
  <2>1. CASE ~sd.loaded /\ ExitWorker(print_stats)
    <3>1. sd' \in Records /\ worker' = "none" /\ print_stats' = print_stats /\ ~sd'.loaded
      BY <1>1, <2>1, BufferFacts DEF ExitWorker, Records, Buffers
    <3>2. FileTypeOK'
      BY <1>0, <1>2, <3>1 DEF FileInv, FileTypeOK, Records, Workers
    <3>3. ReaderInv' /\ StatsInv' /\ LinesInOrder'
      BY <1>0, <1>2, <3>1
         DEF FileInv, ReaderInv, Running, StatsInv, StatsAgree, work_timer, LinesInOrder
    <3> QED BY <3>2, <3>3 DEF FileInv
  <2>2. CASE /\ sd.loaded /\ worker' = "next" /\ print_stats' = note_start
             /\ sd' = [sd EXCEPT !.offset = Seek, !.lines = <<>>]
    <3>1. /\ sd' \in Records /\ sd'.loaded /\ sd'.lines = <<>>
          /\ sd'.offset = sd.position /\ sd'.position = sd.position
      BY <1>1, <2>2, BufferFacts DEF Records, Buffers, Seek
    <3>2. print_stats' \in [state : States, started : BOOLEAN]
          /\ print_stats'.state = "printing" /\ print_stats'.started
      BY <2>2 DEF note_start, States
    <3>3. FileTypeOK'
      BY <1>0, <1>2, <2>2, <3>1, <3>2 DEF FileInv, FileTypeOK, Records, Workers
    <3>4. ReaderInv'
      BY <1>0, <1>1, <1>2, <2>2, <3>1 DEF FileInv, ReaderInv, Running, Records
    <3>5. StatsInv' /\ LinesInOrder'
      BY <1>0, <1>2, <2>2, <3>2
         DEF FileInv, Running, StatsInv, StatsAgree, work_timer, LinesInOrder
    <3> QED BY <3>3, <3>4, <3>5 DEF FileInv
  <2> QED BY <2>1, <2>2 DEF WorkHandler
<1>4. work_timer /\ worker # "line" /\ worker' # "line" /\ ~pause_resume.is_paused
  BY <1>0, <1>2 DEF PauseInv, work_timer
<1> QED BY <1>2, <1>3, <1>4, WorkerGoesOn

(* The worker leaves its loop, with its file or without. *)
LEMMA WorkerExits ==
  ASSUME FileInv, Running, NEW stats, ExitWorker(stats), UNCHANGED begun,
         stats \in [state : States, started : BOOLEAN],
         stats.state \notin {"printing", "complete"} \/ stats = print_stats,
         sd.loaded => worker # "line" /\ stats.state \in {"standby", "paused"},
         ~sd.loaded => stats.state # "printing"
  PROVE  /\ FileInv'
         /\ sd'.must_pause = sd.must_pause /\ sd'.loaded = sd.loaded /\ worker' = "none"
<1>1. sd \in Records
  BY DEF FileInv, FileTypeOK, Records
<1>2. /\ sd' \in Records /\ worker' = "none" /\ print_stats' = stats
      /\ sd'.loaded = sd.loaded /\ sd'.position = sd.position
      /\ sd'.must_pause = sd.must_pause
  BY <1>1, BufferFacts DEF ExitWorker, Records, Buffers
<1>3. FileTypeOK'
  BY <1>2 DEF FileInv, FileTypeOK, Records, Workers
<1>4. ReaderInv'
  BY <1>2 DEF FileInv, ReaderInv, Running
<1>5. StatsInv'
  BY <1>2 DEF FileInv, Running, StatsInv, StatsAgree, work_timer
<1> QED BY <1>2, <1>3, <1>4, <1>5 DEF FileInv, LinesInOrder

LEMMA PauseWorkStep ==
  ASSUME IInv, PauseWork,
         UNCHANGED <<scriptVars, mutex, pause_resume, stop_heating, homed, hot, stuck,
                     shutdown, requests>>
  PROVE  IInv'
<1>0. FileInv /\ PauseInv
  BY DEF IInv
<1> DEFINE stats == IF sd.loaded THEN note_pause ELSE Finish("complete")
<1>1. /\ worker \in {"top", "next"} /\ Running /\ work_timer
      /\ ExitWorker(stats) /\ UNCHANGED begun
  BY DEF PauseWork, Looping, Running, work_timer
<1>2. CASE sd.loaded
  <2>1. print_stats.state = "printing"
    BY <1>0, <1>1, <1>2 DEF FileInv, StatsInv, StatsAgree
  <2>2. stats \in [state : States, started : BOOLEAN] /\ stats.state = "paused"
    BY <1>0, <1>2, <2>1, PauseNoted
  <2> HIDE DEF stats
  <2> QED BY <1>0, <1>1, <1>2, <2>2, WorkerExits, WorkerGoesOn DEF PauseInv
<1>3. CASE ~sd.loaded
  <2>1. "complete" \in States \ {"printing"}
    BY DEF States
  <2>2. ~print_stats.started
    BY <1>0, <1>1, <1>3 DEF FileInv, ReaderInv
  <2>3. stats = print_stats /\ stats \in [state : States, started : BOOLEAN]
        /\ stats.state # "printing"
    BY <1>0, <1>3, <2>1, <2>2, FinishFacts
  <2> HIDE DEF stats
  <2> QED BY <1>0, <1>1, <1>3, <2>3, WorkerExits, WorkerGoesOn DEF PauseInv
<1> QED BY <1>2, <1>3

LEMMA GiveWayStep ==
  ASSUME IInv, GiveWay,
         UNCHANGED <<scriptVars, mutex, pause_resume, stop_heating, homed, hot, stuck,
                     shutdown, requests>>
  PROVE  IInv'
<1>0. FileInv /\ PauseInv
  BY DEF IInv
<1>1. /\ worker = "next" /\ worker' = "top" /\ ~sd.must_pause
      /\ UNCHANGED <<sd, print_stats, begun>>
  BY DEF GiveWay
<1>2. FileInv'
  BY <1>0, <1>1 DEF FileInv, FileTypeOK, Workers, ReaderInv, Running, StatsInv, StatsAgree,
     work_timer, LinesInOrder
<1>3. ~pause_resume.is_paused /\ work_timer
  BY <1>0, <1>1 DEF PauseInv, work_timer
<1> QED BY <1>1, <1>2, <1>3, WorkerGoesOn

(* The next lines are read, from where the last read ended. *)
LEMMA LinesRead ==
  ASSUME FileInv, worker \in {"top", "next", "plr"}, sd.loaded => sd.lines = <<>>,
         sd' = Filled, worker' = "top", UNCHANGED <<print_stats, begun>>
  PROVE  FileInv' /\ sd'.must_pause = sd.must_pause
<1>1. sd \in Records
  BY DEF FileInv, FileTypeOK, Records
<1> DEFINE u == Upcoming
<1>2. /\ u \in Buffers /\ Len(u) \in Nat /\ sd.offset + Len(u) \in 0..Len(Lines)
      /\ \A i \in 1..Len(u) : u[i] = sd.offset + i
  BY <1>1, UpcomingFacts, BufferFacts
<1>3. sd' = [sd EXCEPT !.lines = u, !.offset = sd.offset + Len(u)]
  BY <1>1 DEF Filled, Records
<1> HIDE DEF u
<1>4. /\ sd' \in Records /\ sd'.loaded = sd.loaded /\ sd'.position = sd.position
      /\ sd'.must_pause = sd.must_pause /\ sd'.lines = u /\ sd'.offset = sd.offset + Len(u)
  BY <1>1, <1>2, <1>3 DEF Records, Buffers
<1>5. /\ sd.loaded => Len(sd.lines) = 0
      /\ sd.offset \in Nat /\ sd.position \in Nat
  BY <1>1, FileAssumption DEF Records
<1>6. sd.loaded => sd.offset = sd.position
  BY <1>5 DEF FileInv, ReaderInv, Running
<1>7. FileTypeOK'
  BY <1>4 DEF FileInv, FileTypeOK, Records, Workers
<1>8. ReaderInv'
  BY <1>2, <1>4, <1>6 DEF FileInv, ReaderInv, Running
<1>9. StatsInv'
  BY <1>4 DEF FileInv, StatsInv, StatsAgree, Running, work_timer
<1> QED BY <1>4, <1>7, <1>8, <1>9 DEF FileInv, LinesInOrder

LEMMA ReadMoreStep ==
  ASSUME IInv, ReadMore,
         UNCHANGED <<scriptVars, mutex, pause_resume, stop_heating, homed, hot, stuck,
                     shutdown, requests>>
  PROVE  IInv'
<1>0. FileInv /\ PauseInv
  BY DEF IInv
<1>1. /\ worker \in {"top", "next"} /\ ~sd.must_pause /\ sd.lines = <<>> /\ begun' = begun
      /\ Running /\ work_timer /\ ~pause_resume.is_paused
  BY <1>0 DEF ReadMore, Looping, Running, work_timer, PauseInv
<1>2. sd.loaded /\ sd \in Records
  BY <1>0, <1>1 DEF FileInv, ReaderInv, FileTypeOK, Records
<1>3. Len(sd.lines) = 0 /\ sd.offset \in Nat /\ sd.position \in Nat
  BY <1>1, <1>2 DEF Records
<1>4. sd.offset = sd.position /\ begun[Len(begun)] = sd.position
  BY <1>0, <1>1, <1>2, <1>3 DEF FileInv, ReaderInv
<1>5. CASE worker' = "plr" /\ sd' = [sd EXCEPT !.z = FALSE] /\ UNCHANGED print_stats
  <2>1. /\ sd' \in Records /\ sd'.loaded = sd.loaded /\ sd'.position = sd.position
        /\ sd'.must_pause = sd.must_pause /\ sd'.lines = sd.lines /\ sd'.offset = sd.offset
    BY <1>2, <1>5 DEF Records
  <2>2. FileTypeOK'
    BY <1>0, <1>1, <1>5, <2>1 DEF FileInv, FileTypeOK, Records, Workers
  <2>3. ReaderInv'
    BY <1>0, <1>1, <1>2, <1>5, <2>1 DEF FileInv, ReaderInv, Running
  <2>4. StatsInv'
    BY <1>0, <1>1, <1>5, <2>1 DEF FileInv, StatsInv, StatsAgree, Running, work_timer
  <2>5. FileInv'
    BY <1>0, <1>1, <2>2, <2>3, <2>4 DEF FileInv, LinesInOrder
  <2> QED BY <1>1, <1>2, <1>5, <2>1, <2>5, WorkerGoesOn
<1>6. CASE worker' = "top" /\ sd' = Filled /\ UNCHANGED print_stats
  <2>1. FileInv' /\ sd'.must_pause = sd.must_pause
    BY <1>0, <1>1, <1>2, <1>6, LinesRead
  <2> QED BY <1>1, <1>2, <1>6, <2>1, WorkerGoesOn
<1>7. CASE /\ ~sd.loaded \/ Upcoming = <<>>
           /\ worker' = "none" /\ sd' = [sd EXCEPT !.loaded = FALSE]
           /\ print_stats' = Finish("complete")
  <2>1. /\ sd' \in Records /\ sd'.loaded = FALSE /\ sd'.must_pause = sd.must_pause
    BY <1>2, <1>7 DEF Records
  <2>2. sd.offset = Len(Lines)
    BY <1>2, <1>7, UpcomingFacts
  <2>3. /\ print_stats' \in [state : States, started : BOOLEAN]
        /\ print_stats'.state # "printing"
    BY <1>0, <1>7, FinishFacts DEF States
  <2>4. FileTypeOK'
    BY <1>0, <1>1, <1>7, <2>1, <2>3 DEF FileInv, FileTypeOK, Records, Workers
  <2>5. ReaderInv'
    BY <1>7, <2>1 DEF ReaderInv, Running
  <2>6. StatsInv'
    BY <1>1, <1>4, <2>1, <2>2, <2>3 DEF StatsInv, StatsAgree, Running, work_timer
  <2>7. FileInv'
    BY <1>0, <1>1, <2>4, <2>5, <2>6 DEF FileInv, LinesInOrder
  <2> QED BY <1>1, <1>2, <1>7, <2>1, <2>7, WorkerGoesOn
<1> QED BY <1>5, <1>6, <1>7 DEF ReadMore

LEMMA RecoveryStep ==
  ASSUME IInv, Recovery
  PROVE  IInv'
<1>0. FileInv /\ PauseInv
  BY DEF IInv
<1>1. worker = "plr" /\ begun' = begun /\ Running /\ work_timer /\ ~pause_resume.is_paused
  BY <1>0 DEF Recovery, PlrDone, Running, work_timer, PauseInv
<1>4. /\ homed' \in BOOLEAN /\ stuck' = (stuck \/ (stop_heating /\ ~homed /\ homed'))
      /\ UNCHANGED <<scriptVars, mutex, pause_resume, stop_heating, hot, shutdown, requests>>
  BY DEF Recovery
<1>2. CASE worker' = "top" /\ sd' = Filled /\ UNCHANGED print_stats
  <2>1. sd.loaded => sd.lines = <<>>
    BY <1>0, <1>1 DEF FileInv, ReaderInv
  <2>2. FileInv' /\ sd'.must_pause = sd.must_pause
    BY <1>0, <1>1, <1>2, <2>1, LinesRead
  <2>3. sd'.loaded = sd.loaded
    BY <1>0, <1>2 DEF FileInv, FileTypeOK, Filled
  <2> QED BY <1>0, <1>1, <1>2, <1>4, <2>2, <2>3, WorkerAndFlags
<1>3. CASE ExitWorker(note_pause)
  <2>1. sd.loaded => print_stats.state = "printing"
    BY <1>0, <1>1 DEF FileInv, StatsInv, StatsAgree
  <2>2. note_pause \in [state : States, started : BOOLEAN]
        /\ note_pause.state \in {"error", "paused"}
        /\ (sd.loaded => note_pause.state = "paused")
    BY <1>0, <2>1, PauseNoted
  <2>3. /\ FileInv' /\ sd'.must_pause = sd.must_pause /\ sd'.loaded = sd.loaded
        /\ worker' = "none"
    BY <1>0, <1>1, <1>3, <2>2, WorkerExits
  <2> QED BY <1>1, <1>4, <2>3, WorkerAndFlags
<1> QED BY <1>2, <1>3 DEF Recovery, PlrDone

-----------------------------------------------------------------------------
(* Lines of the file *)

(* NoLineAfterCancel, and what RunLine runs is the next line. *)
LEMMA NextLine ==
  ASSUME FileInv, TakeLine
  PROVE  /\ sd.loaded /\ Running /\ sd.position + 1 \in 1..Len(Lines)
         /\ Head(sd.lines) = sd.position + 1
         /\ sd.lines \in Buffers /\ sd.lines # <<>>
<1>1. Running /\ sd.loaded /\ sd.lines # <<>> /\ worker # "line"
  BY DEF TakeLine, Looping, Running, FileInv, ReaderInv
<1>2. sd.lines \in Buffers
  BY DEF FileInv, FileTypeOK, Buffers
<1>3. /\ Head(sd.lines) = sd.lines[1] /\ 1 \in 1..Len(sd.lines)
      /\ sd.lines[1] \in 1..Len(Lines)
  BY <1>1, <1>2, BufferFacts
<1>4. sd.lines[1] = sd.position + 1
  BY <1>1, <1>3 DEF FileInv, ReaderInv
<1> QED BY <1>1, <1>2, <1>3, <1>4

LEMMA LineTaken ==
  ASSUME FileInv, TakeLine
  PROVE  /\ FileInv'
         /\ sd'.loaded /\ sd'.must_pause = sd.must_pause /\ worker' = "line"
         /\ begun' = Append(begun, sd.position + 1)
<1>1. sd \in Records /\ begun \in Seq(0..Len(Lines)) /\ begun # <<>>
  BY DEF FileInv, FileTypeOK, Records
<1> DEFINE next == sd.position + 1
           rest == Tail(sd.lines)
<1>2. /\ sd.loaded /\ Running /\ next \in 0..Len(Lines) /\ worker # "line"
      /\ Head(sd.lines) = next /\ sd.position \in Nat /\ sd.offset \in Nat
      /\ rest \in Buffers /\ Len(rest) = Len(sd.lines) - 1 /\ Len(sd.lines) \in Nat
      /\ \A i \in 1..Len(rest) : rest[i] = sd.lines[i + 1]
  BY <1>1, NextLine, BufferFacts DEF TakeLine, Looping, Records
<1>3. /\ worker' = "line" /\ print_stats' = print_stats /\ begun' = Append(begun, next)
      /\ sd' = [sd EXCEPT !.lines = rest, !.next = next]
  BY <1>1, <1>2 DEF TakeLine, Records
<1>4. /\ \A i \in 1..Len(rest) : rest[i] = next + i
      /\ sd.offset = next + Len(rest)
      /\ begun[Len(begun)] = sd.position
      /\ print_stats.state = "printing"
  <2>1. /\ sd.offset = sd.position + Len(sd.lines)
        /\ \A i \in 1..Len(sd.lines) : sd.lines[i] = sd.position + i
        /\ begun[Len(begun)] = sd.position
    BY <1>2 DEF FileInv, ReaderInv
  <2>2. ASSUME NEW i \in 1..Len(rest)
        PROVE  rest[i] = next + i
    <3>1. i + 1 \in 1..Len(sd.lines)
      BY <1>2
    <3>2. sd.lines[i + 1] = sd.position + (i + 1)
      BY <2>1, <3>1
    <3> QED BY <1>2, <3>2
  <2>3. print_stats.state = "printing"
    BY <1>2 DEF FileInv, StatsInv, StatsAgree, Running
  <2> HIDE DEF rest
  <2>4. sd.offset = next + Len(rest)
    <3>1. /\ Len(rest) = Len(sd.lines) - 1 /\ Len(sd.lines) \in Nat /\ sd.position \in Nat
          /\ sd.offset = sd.position + Len(sd.lines)
      BY <1>2, <2>1
    <3> QED BY <3>1
  <2> QED BY <2>1, <2>2, <2>3, <2>4
<1> HIDE DEF rest
<1>5. /\ sd' \in Records /\ sd'.loaded /\ sd'.must_pause = sd.must_pause
      /\ sd'.lines = rest /\ sd'.next = next /\ sd'.position = sd.position
      /\ sd'.offset = sd.offset
  BY <1>1, <1>2, <1>3 DEF Records, Buffers
<1>6. /\ begun' \in Seq(0..Len(Lines)) /\ begun' # <<>> /\ Len(begun') = Len(begun) + 1
      /\ begun'[Len(begun')] = next
      /\ \A i \in 1..Len(begun) : begun'[i] = begun[i]
      /\ Len(begun) \in Nat \ {0}
  BY SMTT(30), <1>1, <1>2, <1>3
<1>7. FileTypeOK'
  BY <1>3, <1>5, <1>6 DEF FileInv, FileTypeOK, Records, Workers
<1>8. ReaderInv'
  BY <1>3, <1>4, <1>5, <1>6 DEF ReaderInv, Running
<1>9. StatsInv'
  BY <1>3, <1>4, <1>5 DEF FileInv, StatsInv, StatsAgree, Running, work_timer
<1>10. LinesInOrder'
  <2> SUFFICES ASSUME NEW n \in 2..Len(begun')
               PROVE  begun'[n] = begun'[n - 1] + 1
    BY DEF LinesInOrder
  <2>1. CASE n = Len(begun')
    <3>1. n - 1 = Len(begun) /\ begun'[n - 1] = begun[Len(begun)]
      BY <1>6, <2>1
    <3> QED BY <1>4, <1>6, <2>1, <3>1
  <2>2. CASE n # Len(begun')
    <3>1. n \in 2..Len(begun) /\ n \in 1..Len(begun) /\ n - 1 \in 1..Len(begun)
      BY <1>6, <2>2
    <3> QED BY <1>6, <3>1 DEF FileInv, LinesInOrder
  <2> QED BY <2>1, <2>2
<1> QED BY <1>3, <1>5, <1>7, <1>8, <1>9, <1>10 DEF FileInv

LEMMA RunLineStep ==
  ASSUME IInv, RunLine
  PROVE  IInv'
<1>0. /\ PauseTypeOK /\ FlagsTypeOK /\ FileInv /\ MutexInv /\ ScriptInv /\ PauseInv
      /\ MovesInv /\ HeatInv
  BY DEF IInv
<1> DEFINE line == Lines[Head(sd.lines)]
<1>1. /\ mutex = <<>> /\ mutex' = <<"worker">> /\ TakeLine
      /\ worker \in {"top", "next"} /\ ~sd.must_pause
      /\ pc' = [pc EXCEPT !["worker"] = "begin"]
      /\ script' = [script EXCEPT !["worker"] = line]
      /\ stop_heating' = ClearedIfNotHomed(stop_heating)
      /\ UNCHANGED <<pause_resume, homed, hot, stuck, shutdown, requests>>
  BY DEF RunLine, TakeLine, Looping
<1>2. /\ FileInv' /\ sd.loaded /\ sd'.loaded /\ sd'.must_pause = sd.must_pause
      /\ worker' = "line" /\ begun' = Append(begun, sd.position + 1)
      /\ line = Lines[sd.position + 1] /\ sd.position + 1 \in 1..Len(Lines)
  BY <1>0, <1>1, LineTaken, NextLine
<1>3. line \in Scripts /\ line # "cancel"
  BY <1>2, ClientsAssumption DEF Scripts
<1> HIDE DEF line
<1>4. "worker" \in Greenlets /\ \A h \in Greenlets : pc[h] \in {"idle", "closing"}
  BY <1>0, <1>1, NobodyRuns DEF Greenlets
<1>5. /\ pc'["worker"] = "begin" /\ script'["worker"] = line
      /\ script' \in [Greenlets -> Scripts] /\ pc' \in [Greenlets -> Labels]
      /\ \A h \in Greenlets : h # "worker" => pc'[h] = pc[h] /\ script'[h] = script[h]
      /\ pc["worker"] = "idle"
  BY <1>0, <1>1, <1>3, <1>4 DEF MutexInv, ScriptInv, Labels, Polls
<1>6. MutexInv'
  <2>1. /\ mutex' \in Seq(Greenlets) /\ Len(mutex') = 1 /\ mutex'[1] = "worker"
        /\ mutex' # <<>> /\ Head(mutex') = "worker"
    BY <1>1, <1>4
  <2>2. {mutex'[i] : i \in 1..Len(mutex')} = {"worker"}
    BY <2>1
  <2>3. {g \in Greenlets : pc'[g] \notin {"idle", "closing"}} = {"worker"}
    BY <1>4, <1>5
  <2>4. \A g \in Greenlets : pc'[g] \notin {"idle", "closing", "begin"} => Holds(g)'
    BY <1>4, <1>5
  <2> QED BY <1>5, <2>1, <2>2, <2>3, <2>4 DEF MutexInv
<1>7. ScriptInv'
  <2>1. Holds("worker")'
    BY <1>1 DEF Holds
  <2> QED BY <1>0, <1>2, <1>3, <1>4, <1>5, <2>1 DEF ScriptInv, cmd_from_sd, Polls
<1>8. PauseInv'
  <2>1. ~pause_resume.is_paused /\ work_timer
    BY <1>0, <1>1 DEF PauseInv, work_timer
  <2> QED BY <1>0, <1>1, <1>2, <1>4, <1>5, <2>1 DEF PauseInv, work_timer, Polls
<1>9. MovesInv'
  <2>1. Cancelling' <=> Cancelling
    BY <1>3, <1>4, <1>5 DEF Cancelling
  <2>2. stop_heating' => stop_heating /\ homed
    BY <1>1 DEF ClearedIfNotHomed
  <2> QED BY <1>0, <1>1, <1>4, <1>5, <2>1, <2>2 DEF MovesInv, MovesCarriedOut, Cancelling
<1>10. HeatInv'
  <2> SUFFICES ASSUME HeatBegun'
               PROVE  hot \/ line = "heat"
    BY <1>1, <1>5 DEF HeatInv
  <2>1. begun \in Seq(0..Len(Lines)) /\ Len(begun) \in Nat /\ sd.position + 1 \in 0..Len(Lines)
    BY <1>0, <1>2 DEF FileInv, FileTypeOK
  <2>2. PICK n \in 2..Len(begun') : Lines[begun'[n]] = "heat"
    BY DEF HeatBegun
  <2>3. \/ n = Len(begun) + 1 /\ begun'[n] = sd.position + 1
        \/ n \in 2..Len(begun) /\ begun'[n] = begun[n]
    BY <1>2, <2>1
  <2>4. CASE begun'[n] = sd.position + 1
    BY <1>2, <2>2, <2>4
  <2>5. CASE n \in 2..Len(begun) /\ begun'[n] = begun[n]
    BY SMTT(30), <1>0, <1>2, <1>4, <1>5, <2>2, <2>5 DEF HeatInv, HeatBegun
  <2> QED BY <2>3, <2>4, <2>5
<1>11. FlagsTypeOK' /\ PauseTypeOK'
  <2>1. stop_heating' \in BOOLEAN
    BY <1>0, <1>1 DEF FlagsTypeOK, ClearedIfNotHomed
  <2> QED BY <1>0, <1>1, <2>1 DEF FlagsTypeOK, PauseTypeOK
<1> QED BY <1>2, <1>6, <1>7, <1>8, <1>9, <1>10, <1>11 DEF IInv

LEMMA MoveStep ==
  ASSUME IInv, Move
  PROVE  IInv'
<1>0. /\ PauseTypeOK /\ FlagsTypeOK /\ FileInv /\ MutexInv /\ ScriptInv /\ PauseInv
      /\ MovesInv /\ HeatInv
  BY DEF IInv
<1>1. /\ pc["worker"] = "begin" /\ Holds("worker") /\ script["worker"] \in {"move", "home"}
      /\ UNCHANGED <<fileVars, script, mutex, pause_resume, stop_heating, hot, stuck,
                     shutdown, requests>>
      /\ "worker" \in Greenlets
  BY DEF Move, Begins, Greenlets
<1>2. PICK l \in {"done", "error"} :
        /\ Goto("worker", l)
        /\ homed' = homed \/ (script["worker"] = "home" /\ homed' \in BOOLEAN)
  BY <1>0 DEF Move, Fails, Ends, FlagsTypeOK
<1>3. l \in Labels \ {"idle", "closing", "begin"} /\ l \notin Polls
  BY <1>2 DEF Labels, Polls
<1>4. UNCHANGED <<worker, sd, begun>> /\ (cmd_from_sd' <=> cmd_from_sd)
  BY <1>1 DEF fileVars, cmd_from_sd
<1>5. FileInv'
  BY <1>0, <1>1, FileAlone
<1>6. MutexInv'
  BY <1>0, <1>1, <1>2, <1>3, MutexStays
<1>7. ScriptInv'
  BY <1>0, <1>1, <1>2, <1>3, <1>4, ScriptGoesOn
<1>8. HeatInv'
  BY <1>0, <1>1, <1>2, <1>3, <1>4, HeatGoesOn
<1>9. worker = "line"
  BY <1>0, <1>1 DEF ScriptInv, cmd_from_sd
<1>10. PauseInv'
  BY <1>0, <1>1, <1>2, <1>3, <1>4, <1>9, PauseGoesOn
<1>11. MovesInv'
  <2>1. /\ \A h \in Greenlets : h # "worker" => pc'[h] = pc[h]
        /\ pc'["worker"] = l
    BY <1>0, <1>1, <1>2 DEF MutexInv, Goto
  <2>2. Cancelling' <=> Cancelling
    BY <1>1, <1>2, <2>1 DEF Cancelling
  <2>3. \A h \in Greenlets : h # "worker" => pc[h] \notin {"done", "error"}
    BY <1>0, <1>1, OnlyHolder
  <2> QED BY <1>0, <1>1, <1>2, <2>1, <2>2, <2>3 DEF MovesInv, MovesCarriedOut, Cancelling
<1>12. FlagsTypeOK' /\ PauseTypeOK'
  BY <1>0, <1>1, <1>2 DEF FlagsTypeOK, PauseTypeOK
<1> QED BY <1>5, <1>6, <1>7, <1>8, <1>10, <1>11, <1>12 DEF IInv

LEMMA EndLineStep ==
  ASSUME IInv, EndLine
  PROVE  IInv'
<1>0. /\ PauseTypeOK /\ FlagsTypeOK /\ FileInv /\ MutexInv /\ ScriptInv /\ PauseInv
      /\ MovesInv /\ HeatInv
  BY DEF IInv
<1>1. /\ pc["worker"] = "done" /\ script["worker"] # "cancel" /\ Holds("worker")
      /\ Leave("worker") /\ "worker" \in Greenlets
      /\ worker = "line" /\ worker' = "next" /\ sd' = [sd EXCEPT !.position = sd.next]
      /\ UNCHANGED <<print_stats, begun, pause_resume, stop_heating, homed, hot, stuck,
                     shutdown, requests>>
  BY <1>0 DEF EndLine, LineDone, MutexInv, ScriptInv, cmd_from_sd, Greenlets
<1>2. sd \in Records
  BY <1>0 DEF FileInv, FileTypeOK, Records
<1>3. /\ sd' \in Records /\ sd'.loaded = sd.loaded /\ sd'.position = sd.next
      /\ sd'.must_pause = sd.must_pause /\ sd'.lines = sd.lines /\ sd'.offset = sd.offset
  BY <1>1, <1>2 DEF Records
<1>4. FileInv'
  <2>1. FileTypeOK'
    BY <1>0, <1>1, <1>3 DEF FileInv, FileTypeOK, Records, Workers
  <2>2. ReaderInv'
    BY <1>0, <1>1, <1>3 DEF FileInv, ReaderInv, Running
  <2>3. StatsInv'
    BY <1>0, <1>1, <1>3 DEF FileInv, StatsInv, StatsAgree, Running, work_timer
  <2> QED BY <1>0, <1>1, <2>1, <2>2, <2>3 DEF FileInv, LinesInOrder
<1>5. /\ pc'["worker"] = "idle" /\ script' \in [Greenlets -> Scripts]
      /\ \A h \in Greenlets : h # "worker" => pc'[h] = pc[h] /\ script'[h] = script[h]
  <2>1. /\ pc' = [pc EXCEPT !["worker"] = "idle"]
        /\ script' = [script EXCEPT !["worker"] = "none"]
    BY <1>1 DEF Leave, Goto
  <2>2. DOMAIN pc = Greenlets /\ script \in [Greenlets -> Scripts] /\ "none" \in Scripts
    BY <1>0 DEF MutexInv, ScriptInv, Scripts
  <2> QED BY <1>1, <2>1, <2>2
<1>6. \A h \in Greenlets : h # "worker" => pc[h] \in {"idle", "closing", "begin"}
  BY <1>0, <1>1, OnlyHolder
<1>7. MutexInv'
  BY <1>0, <1>1, MutexLeft
<1>8. ScriptInv'
  BY <1>0, <1>1, <1>5 DEF ScriptInv, cmd_from_sd, Polls
<1>9. PauseInv'
  BY <1>0, <1>1, <1>3, <1>5, <1>6 DEF PauseInv, work_timer, Polls
<1>10. MovesInv'
  <2>1. Cancelling => Cancelling'
    BY <1>1, <1>5 DEF Cancelling
  <2> QED BY <1>0, <1>1, <1>5, <1>6, <2>1 DEF MovesInv, MovesCarriedOut, Cancelling
<1>11. HeatInv'
  BY <1>0, <1>1, <1>3, <1>5 DEF HeatInv, HeatBegun
<1>12. FlagsTypeOK' /\ PauseTypeOK'
  BY <1>0, <1>1 DEF FlagsTypeOK, PauseTypeOK
<1> QED BY <1>4, <1>7, <1>8, <1>9, <1>10, <1>11, <1>12 DEF IInv

LEMMA OnErrorStep ==
  ASSUME IInv, OnError
  PROVE  IInv'
<1>0. /\ PauseTypeOK /\ FlagsTypeOK /\ FileInv /\ MutexInv /\ ScriptInv /\ PauseInv
      /\ MovesInv /\ HeatInv
  BY DEF IInv
<1> DEFINE f == IF sd.loaded THEN AskPause ELSE sd
<1>1. /\ pc["worker"] = "error" /\ Holds("worker") /\ "worker" \in Greenlets
      /\ stop_heating' = ClearedIfNotHomed(TRUE) /\ CancelFile(f)
      /\ script' = [script EXCEPT !["worker"] = "cancel"]
      /\ Goto("worker", "begin") /\ mutex' = Requeue
      /\ UNCHANGED <<worker, begun, pause_resume, homed, hot, stuck, shutdown, requests>>
      /\ worker = "line" /\ work_timer
  BY <1>0 DEF OnError, MutexInv, ScriptInv, cmd_from_sd, Greenlets, work_timer
<1>2. sd \in Records
  BY <1>0 DEF FileInv, FileTypeOK, Records
<1>3. /\ f \in {sd, AskPause} /\ f.loaded = sd.loaded
      /\ Running /\ sd.loaded => f.must_pause
      /\ sd.must_pause => f.must_pause
      /\ sd' = Closed(f) /\ sd'.must_pause = f.must_pause /\ sd'.loaded = FALSE
  BY <1>1, <1>2 DEF AskPause, Records, work_timer, Running, CancelFile, Closed
<1>4. FileInv'
  BY <1>0, <1>1, <1>3, FileClosed DEF CancelFile
<1> HIDE DEF f
<1>5. /\ pc'["worker"] = "begin" /\ script' \in [Greenlets -> Scripts]
      /\ script'["worker"] = "cancel"
      /\ \A h \in Greenlets : h # "worker" => pc'[h] = pc[h] /\ script'[h] = script[h]
  <2>1. pc' = [pc EXCEPT !["worker"] = "begin"]
    BY <1>1 DEF Goto
  <2>2. DOMAIN pc = Greenlets /\ script \in [Greenlets -> Scripts] /\ "cancel" \in Scripts
    BY <1>0 DEF MutexInv, ScriptInv, Scripts
  <2> QED BY <1>1, <2>1, <2>2
<1>6. \A h \in Greenlets : h # "worker" => pc[h] \in {"idle", "closing", "begin"}
  BY <1>0, <1>1, OnlyHolder
<1>7. MutexInv'
  BY <1>0, <1>1, MutexRequeued
<1>8. ScriptInv'
  BY <1>0, <1>1, <1>3, <1>5 DEF ScriptInv, cmd_from_sd, Polls
<1>9. PauseInv'
  BY <1>0, <1>1, <1>3, <1>5, <1>6 DEF PauseInv, work_timer, Polls
<1>10. MovesInv'
  <2>1. Cancelling'
    BY <1>1, <1>5 DEF Cancelling
  <2>2. \A h \in Greenlets : pc'[h] \notin {"done", "error"}
    BY <1>5, <1>6
  <2> QED BY <2>1, <2>2 DEF MovesInv, MovesCarriedOut, Cancelling
<1>11. HeatInv'
  BY <1>3 DEF HeatInv
<1>12. FlagsTypeOK' /\ PauseTypeOK'
  <2>1. stop_heating' \in BOOLEAN
    BY <1>0, <1>1 DEF FlagsTypeOK, ClearedIfNotHomed
  <2> QED BY <1>0, <1>1, <2>1 DEF FlagsTypeOK, PauseTypeOK
<1> QED BY <1>4, <1>7, <1>8, <1>9, <1>10, <1>11, <1>12 DEF IInv

LEMMA EndOnErrorStep ==
  ASSUME IInv, EndOnError
  PROVE  IInv'
<1>0. /\ PauseTypeOK /\ FlagsTypeOK /\ FileInv /\ MutexInv /\ ScriptInv /\ PauseInv
      /\ MovesInv /\ HeatInv
  BY DEF IInv
<1>1. /\ pc["worker"] \in {"done", "error"} /\ script["worker"] = "cancel"
      /\ Holds("worker") /\ "worker" \in Greenlets /\ worker = "line" /\ Running
      /\ ~sd.loaded /\ ExitWorker(Finish("error")) /\ Leave("worker")
      /\ UNCHANGED <<begun, pause_resume, stop_heating, homed, hot, stuck, shutdown, requests>>
  BY <1>0 DEF EndOnError, MutexInv, ScriptInv, cmd_from_sd, Greenlets, Running
<1>2. /\ Finish("error") \in [state : States, started : BOOLEAN]
      /\ Finish("error").state # "printing" /\ Finish("error") = print_stats
  <2>1. ~print_stats.started /\ "error" \in States \ {"printing"}
    BY <1>0, <1>1 DEF FileInv, ReaderInv, States
  <2> QED BY <1>0, <2>1, FinishFacts
<1>3. FileInv' /\ sd'.must_pause = sd.must_pause /\ sd'.loaded = sd.loaded /\ worker' = "none"
  BY <1>0, <1>1, <1>2, WorkerExits
<1>4. /\ pc'["worker"] = "idle" /\ script' \in [Greenlets -> Scripts]
      /\ \A h \in Greenlets : h # "worker" => pc'[h] = pc[h] /\ script'[h] = script[h]
  <2>1. /\ pc' = [pc EXCEPT !["worker"] = "idle"]
        /\ script' = [script EXCEPT !["worker"] = "none"]
    BY <1>1 DEF Leave, Goto
  <2>2. DOMAIN pc = Greenlets /\ script \in [Greenlets -> Scripts] /\ "none" \in Scripts
    BY <1>0 DEF MutexInv, ScriptInv, Scripts
  <2> QED BY <1>1, <2>1, <2>2
<1>5. \A h \in Greenlets : h # "worker" => pc[h] \in {"idle", "closing", "begin"}
  BY <1>0, <1>1, OnlyHolder
<1>6. MutexInv'
  BY <1>0, <1>1, MutexLeft
<1>7. ScriptInv'
  BY <1>0, <1>3, <1>4 DEF ScriptInv, cmd_from_sd, Polls
<1>8. PauseInv'
  BY <1>0, <1>1, <1>3, <1>4, <1>5 DEF PauseInv, work_timer, Polls
<1>9. MovesInv'
  BY <1>0, <1>1, <1>4, <1>5 DEF MovesInv, MovesCarriedOut, Cancelling
<1>10. HeatInv'
  BY <1>1, <1>3 DEF HeatInv
<1>11. FlagsTypeOK' /\ PauseTypeOK'
  BY <1>0, <1>1 DEF FlagsTypeOK, PauseTypeOK
<1> QED BY <1>3, <1>6, <1>7, <1>8, <1>9, <1>10, <1>11 DEF IInv

-----------------------------------------------------------------------------
(* The theorems *)

LEMMA InitInv == Init => IInv
<1> SUFFICES ASSUME Init PROVE IInv
  OBVIOUS
<1>1. /\ pc = [g \in Greenlets |-> "idle"] /\ script = [g \in Greenlets |-> "none"]
      /\ mutex = <<>> /\ pause_resume = NotPaused /\ FileInit
      /\ stop_heating = FALSE /\ homed \in BOOLEAN /\ hot = FALSE
      /\ stuck = FALSE /\ shutdown = FALSE /\ requests = 0
      /\ "worker" \in Greenlets
  BY DEF Init, Greenlets
<1>2. \A g \in Greenlets : pc[g] = "idle"
  BY <1>1
<1>3. /\ worker = "none" /\ sd.loaded = FALSE /\ begun = <<0>>
      /\ print_stats = [state |-> "standby", started |-> FALSE]
  BY <1>1 DEF FileInit
<1>4. FileTypeOK
  <2>1. sd \in Records
    <3>1. 0 \in 0..Len(Lines) /\ <<>> \in Buffers
      BY FileAssumption, BufferFacts
    <3> QED BY <1>1, <3>1 DEF FileInit, Records, Buffers
  <2>2. begun \in Seq(0..Len(Lines)) /\ begun # <<>>
    BY <1>3, FileAssumption
  <2> QED BY <1>3, <2>1, <2>2 DEF FileTypeOK, Records, Workers, States
<1>5. FileInv
  <2>1. Len(begun) = 1 /\ sd.position = 0 /\ begun[1] = 0
    BY <1>1, <1>3 DEF FileInit
  <2> QED BY <1>3, <1>4, <2>1 DEF FileInv, ReaderInv, StatsInv, StatsAgree, LinesInOrder,
          Running, work_timer
<1>6. MutexInv
  <2>1. {g \in Greenlets : pc[g] \notin {"idle", "closing"}} = {}
    BY <1>2
  <2>2. /\ Len(mutex) = 0 /\ mutex \in Seq(Greenlets)
        /\ {mutex[i] : i \in 1..Len(mutex)} = {}
    BY <1>1
  <2> QED BY <1>1, <1>2, <2>1, <2>2 DEF MutexInv, Labels
<1>7. ScriptInv
  BY <1>1, <1>2, <1>3 DEF ScriptInv, Scripts, cmd_from_sd, Polls
<1>8. PauseInv /\ PauseTypeOK
  BY <1>1, <1>2, <1>3 DEF PauseInv, PauseTypeOK, NotPaused, work_timer, Polls
<1>9. MovesInv /\ HeatInv
  BY <1>1, <1>2, <1>3 DEF MovesInv, MovesCarriedOut, HeatInv
<1>10. FlagsTypeOK
  <2>1. 0 \in 0..MaxRequests
    BY ClientsAssumption
  <2>2. {stop_heating, homed, hot, stuck, shutdown} \subseteq BOOLEAN
    BY <1>1
  <2> QED BY <1>1, <2>1, <2>2 DEF FlagsTypeOK
<1> QED BY <1>5, <1>6, <1>7, <1>8, <1>9, <1>10 DEF IInv

LEMMA ScriptStepInv ==
  ASSUME IInv, worker # "next", NEW g \in Greenlets, ScriptStep(g)
  PROVE  IInv'
  BY CloseFileStep, AnswerStep, PrintFileStep, RestoredStep, ResetFileStep, ResetDoneStep,
     PauseStep, PauseDoneStep, HeatStep, HeatDoneStep, CancelMacroStep, HomingFailsStep,
     CancelBaseStep, RecancelledStep, CrashStep DEF ScriptStep

LEMMA WorkerStepInv ==
  ASSUME IInv, WorkerStep
  PROVE  IInv'
  BY WorkHandlerStep, PauseWorkStep, ReadMoreStep, RecoveryStep, GiveWayStep, RunLineStep,
     MoveStep, EndLineStep, OnErrorStep, EndOnErrorStep DEF WorkerStep

LEMMA NextInv == IInv /\ [Next]_vars => IInv'
<1> SUFFICES ASSUME IInv, [Next]_vars PROVE IInv'
  OBVIOUS
<1>1. CASE WorkerStep
  BY <1>1, WorkerStepInv
<1>2. CASE Others
  BY <1>2, RequestStep, ScriptStepInv, TemperatureStep DEF Others
<1>3. CASE UNCHANGED vars
  <2>1. /\ UNCHANGED <<fileVars, worker, sd, begun, print_stats, pc, script, mutex, hot,
                       homed, stuck, stop_heating, pause_resume, shutdown, requests>>
    BY <1>3 DEF vars, fileVars, scriptVars
  <2>2. FileInv'
    BY <2>1, FileAlone DEF IInv
  <2> QED BY <2>1, <2>2 DEF IInv, PauseTypeOK, FlagsTypeOK, MutexInv, Holds, ScriptInv,
          cmd_from_sd, PauseInv, work_timer, MovesInv, MovesCarriedOut, Cancelling, HeatInv,
          HeatBegun
<1> QED BY <1>1, <1>2, <1>3 DEF Next

LEMMA Invariant == Spec => []IInv
  BY InitInv, NextInv, PTL DEF Spec

(***************************************************************************)
(* What clients are told of the print is true of the worker (print_stats   *)
(* against virtual_sdcard), and a printer that is paused runs no more      *)
(* lines: for any number of clients and requests, in any order.            *)
(***************************************************************************)
THEOREM Status == Spec => []StatusIsTrue
<1>1. IInv => TypeOK
  BY DEF IInv, FileInv, MutexInv, Labels, ScriptInv, PauseTypeOK, FlagsTypeOK, TypeOK
<1>2. IInv => StatsAgree /\ PausedStandsStill
  BY DEF IInv, FileInv, StatsInv, PauseInv, PausedStandsStill
<1> QED BY <1>1, <1>2, Invariant, PTL DEF StatusIsTrue

(***************************************************************************)
(* From where it starts, a print runs each line of its file once and in    *)
(* order, over pauses, errors and the recovery after a loss of power.      *)
(***************************************************************************)
THEOREM EachLineOnce == Spec => []LinesInOrder
<1>1. IInv => LinesInOrder
  BY DEF IInv, FileInv
<1> QED BY <1>1, Invariant, PTL

(***************************************************************************)
(* stop_heating, which leaves moves out, does not outlive the cancelling   *)
(* of a print while x is homed, unless CANCEL_PRINT failed on its way or a *)
(* recovery (run_plr) has homed x before a script took the flag back.      *)
(***************************************************************************)
THEOREM MovesAreCarriedOut == Spec => []MovesCarriedOut
<1>1. IInv => MovesCarriedOut
  BY DEF IInv, MovesInv
<1> QED BY <1>1, Invariant, PTL

(***************************************************************************)
(* No line begins once its file was closed, although run_script cancels a  *)
(* print without the mutex and a worker may be started again meanwhile.    *)
(***************************************************************************)
THEOREM CancelledPrintStops == Spec => NoLineAfterCancel
<1>1. IInv /\ [Next]_vars => [RunLine => sd.loaded]_vars
  BY NextLine DEF IInv, RunLine
<1> QED BY <1>1, Invariant, PTL DEF Spec, NoLineAfterCancel

(***************************************************************************)
(* No line after one that waits for a temperature begins before that is    *)
(* reached, whatever other scripts heat up meanwhile.                      *)
(***************************************************************************)
THEOREM NoLineWhileCold == Spec => NoColdLine
<1>1. ASSUME IInv, RunLine, \E n \in 2..Len(begun) : Lines[begun[n]] = "heat"
      PROVE  hot
  <2>1. FileInv /\ MutexInv /\ HeatInv
    BY <1>1 DEF IInv
  <2>2. sd.loaded /\ mutex = <<>>
    BY <1>1, <2>1, NextLine DEF RunLine
  <2>3. "worker" \in Greenlets /\ \A g \in Greenlets : pc[g] \in {"idle", "closing"}
    BY <2>1, <2>2, NobodyRuns DEF Greenlets
  <2> QED BY <1>1, <2>1, <2>2, <2>3 DEF HeatInv, HeatBegun
<1>2. IInv /\ [Next]_vars =>
        [RunLine /\ (\E n \in 2..Len(begun) : Lines[begun[n]] = "heat") => hot]_vars
  BY <1>1
<1> QED BY <1>2, Invariant, PTL DEF Spec, NoColdLine
=============================================================================
