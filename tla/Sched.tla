------------------------------- MODULE Sched -------------------------------
(***************************************************************************)
(* The timers of the micro-controller: src/klipper/src/sched.c with the    *)
(* dispatch loop of generic/timer_irq.c and armcm_timer.c.  Clocks are     *)
(* 32 bit counters that wrap around (here modulo W), compared through the  *)
(* sign of their difference, so the model runs forever and every value of  *)
(* the counter is met.  Commands add and delete timers while the timer     *)
(* interrupt fires them; both run with interrupts disabled.                *)
(***************************************************************************)
EXTENDS Integers, Sequences, SequencesExt

CONSTANTS
  Timers,      \* the timers of steppers, endstops, trsync, heaters, ...
  W,           \* 2^32: the clock counter wraps around
  Period,      \* periodic_timer's interval (100ms)
  Horizon,     \* how far ahead of the clock a timer is asked for
  MaxPast,     \* how long after the time it asks for a command may arrive
  Latency,     \* how long interrupts may be disabled
  PastLimit    \* 1ms: "Rescheduled timer in the past"

Half == W \div 2

ASSUME TimersAssumption ==
  {"periodic", "sentinel", "deleted"} \intersect Timers = {}
ASSUME ClockAssumption ==
  /\ W \in Nat /\ Period \in Nat \ {0} /\ Horizon \in Nat \ {0}
  /\ MaxPast \in Nat /\ Latency \in Nat /\ PastLimit \in Nat
  /\ Latency <= PastLimit
  /\ W = 2 * Half /\ Period + Horizon + MaxPast + Latency < Half

VARIABLES
  now,              \* the clock counter
  timer_list,       \* SchedStatus.timer_list followed through `next'
  waketime,         \* the time each timer is to fire
  last_insert,      \* where the last rescheduled timer was put
  irq,              \* when the hardware raises the next timer interrupt
  too_close_c,      \* late timers tolerated so far
  shutdown_status,
  overrun,          \* insert_timer walked past the sentinel: undefined
  armed             \* history: timers added and neither done nor deleted

vars == <<now, timer_list, waketime, last_insert, irq, too_close_c,
          shutdown_status, overrun, armed>>

Nodes == Timers \union {"periodic", "sentinel", "deleted"}
Clock == 0..(W - 1)

TypeOK ==
  /\ now \in Clock /\ irq \in Clock
  /\ timer_list \in Seq(Nodes) /\ Len(timer_list) >= 2
  /\ waketime \in [Nodes -> Clock]
  /\ last_insert \in Nodes
  /\ too_close_c \in 0..3
  /\ shutdown_status \in BOOLEAN /\ overrun \in BOOLEAN
  /\ armed \subseteq Timers

Init ==
  /\ now = 0 /\ irq = 0
  /\ timer_list = <<"periodic", "sentinel">>
  /\ waketime = [n \in Nodes |-> IF n = "sentinel" THEN Half ELSE 0]
  /\ last_insert = "periodic"
  /\ too_close_c = 0
  /\ shutdown_status = FALSE /\ overrun = FALSE
  /\ armed = {}

-----------------------------------------------------------------------------
\* timer_is_before: the sign of the 32 bit difference.
timer_is_before(t1, t2) == (t1 - t2) % W >= Half

\* Where insert_timer stops when it looks at list[from], list[from + 1], ...
\* There is no such place when it finds no later timer up to the sentinel.
Places(list, wake, from, w) ==
  {k \in from..Len(list) :
     /\ timer_is_before(w, wake[list[k]])
     /\ \A j \in from..(k - 1) : ~timer_is_before(w, wake[list[j]])}

\* insert_timer: the timer goes in front of the first later one.
insert_timer(list, wake, from, t) ==
  LET places == Places(list, wake, from, wake[t]) IN
  IF places = {} THEN overrun' = TRUE /\ timer_list' = list
  ELSE /\ overrun' = overrun
       /\ \E k \in places : timer_list' = InsertAt(list, k, t)

\* timer_kick: the timer interrupt is raised at once.
timer_kick_missing == irq' = irq   \* a mistake, for mutation runs
timer_kick == irq' = now

\* run_shutdown and sched_timer_reset: all user timers are removed.
run_shutdown(wake) ==
  /\ shutdown_status' = TRUE
  /\ timer_list' = <<"deleted", "periodic", "sentinel">>
  /\ waketime' = [wake EXCEPT !["deleted"] = wake["periodic"]]
  /\ last_insert' = "periodic"
  /\ timer_kick
  /\ armed' = {}
  /\ overrun' = overrun

\* What follows when deleted_timer is put in front of the list again.
BehindDeleted_twice(list) == list   \* a mistake, for mutation runs
BehindDeleted(list) ==
  IF Head(list) = "deleted" THEN Tail(list) ELSE list

(***************************************************************************)
(* sched_add_timer.  A timer before all others goes to the front, behind a *)
(* deleted_timer that makes the interrupt handler look at the list again.  *)
(* When its time has passed already, the first two are moved to the        *)
(* current time, inserted behind the head of the list, and the interrupt   *)
(* is left as it is; the third one shuts the micro-controller down.        *)
(***************************************************************************)
sched_add_timer(t, w) ==
  LET head == Head(timer_list)
      Late == timer_is_before(w, waketime[head]) /\ timer_is_before(w, now)
      wake == [waketime EXCEPT ![t] = IF Late THEN now ELSE w]
  IN  \/ /\ ~timer_is_before(w, waketime[head])
         /\ waketime' = wake
         /\ insert_timer(timer_list, wake, 2, t)
         /\ armed' = armed \union {t}
         /\ UNCHANGED <<last_insert, irq, too_close_c, shutdown_status>>
      \/ /\ timer_is_before(w, waketime[head]) /\ ~timer_is_before(w, now)
         /\ waketime' = [wake EXCEPT !["deleted"] = w]
         /\ timer_list' = <<"deleted", t>> \o
              BehindDeleted(timer_list)
         /\ timer_kick
         /\ armed' = armed \union {t}
         /\ UNCHANGED <<last_insert, too_close_c, shutdown_status, overrun>>
      \/ /\ Late /\ too_close_c < 2
         /\ too_close_c' = too_close_c + 1
         /\ waketime' = wake
         /\ insert_timer(timer_list, wake, 2, t)
         /\ armed' = armed \union {t}
         /\ UNCHANGED <<last_insert, irq, shutdown_status>>
      \/ /\ Late /\ too_close_c >= 2
         /\ too_close_c' = 3
         /\ run_shutdown(waketime)

\* The list when the timers of del have been taken out of it.
Without(list, del) ==
  LET kept[i \in 0..Len(list)] ==
        IF i = 0 THEN <<>>
        ELSE IF list[i] \in del THEN kept[i - 1] ELSE Append(kept[i - 1], list[i])
  IN  kept[Len(list)]

\* A deleted timer is no place to search from.
LastInsertAfterDelete(del) ==
  IF last_insert \in del THEN "periodic" ELSE last_insert

\* sched_del_timer: the head of the list leaves a deleted_timer behind.
sched_del_timer(t) ==
  /\ IF Head(timer_list) = t
     THEN /\ timer_list' = <<"deleted">> \o Tail(timer_list)
          /\ waketime' = [waketime EXCEPT !["deleted"] = waketime[t]]
     ELSE /\ timer_list' = Without(timer_list, {t})
          /\ waketime' = waketime
  /\ last_insert' = LastInsertAfterDelete({t})
  /\ armed' = armed \ {t}
  /\ UNCHANGED <<irq, too_close_c, shutdown_status, overrun>>

-----------------------------------------------------------------------------
(***************************************************************************)
(* sched_timer_dispatch after the callback of t = Head(list) returned.     *)
(***************************************************************************)
\* SF_DONE
Done(list, last) ==
  /\ timer_list' = Tail(list)
  /\ last_insert' = IF last = Head(list) THEN list[2] ELSE last
  /\ overrun' = overrun

\* SF_RESCHEDULE: the search starts at last_insert unless that is later.
Reschedule(list, wake, last) ==
  LET t    == Head(list)
      rest == Tail(list)
      pos  == IF timer_is_before(wake[t], wake[last]) THEN Head(rest) ELSE last
      from == IF pos = t THEN 1
              ELSE 1 + CHOOSE i \in 1..Len(rest) : rest[i] = pos
  IN  IF timer_is_before(wake[t], wake[list[2]])
      THEN timer_list' = list /\ last_insert' = last /\ overrun' = overrun
      ELSE insert_timer(rest, wake, from, t) /\ last_insert' = t

\* timer_dispatch_many: the next interrupt is due when the head is.
NextIrq ==
  /\ irq' = waketime'[Head(timer_list')]
  /\ shutdown_status' = shutdown_status

IrqDue == ~timer_is_before(now, irq) /\ ~overrun

\* deleted_event
DeletedEvent ==
  /\ IrqDue /\ Head(timer_list) = "deleted"
  /\ waketime' = waketime /\ armed' = armed
  /\ Done(timer_list, last_insert)
  /\ NextIrq
  /\ UNCHANGED <<now, too_close_c>>

\* periodic_event: the sentinel moves along.
PeriodicEvent ==
  /\ IrqDue /\ Head(timer_list) = "periodic"
  /\ LET next == (waketime["periodic"] + Period) % W IN
     waketime' = [waketime EXCEPT !["periodic"] = next,
                                  !["sentinel"] = (next + Half) % W]
  /\ armed' = armed
  /\ Reschedule(timer_list, waketime', last_insert)
  /\ NextIrq
  /\ UNCHANGED <<now, too_close_c>>

\* A user timer: its callback may delete another timer (a trsync trigger
\* stops the stepper's timer) and is done or reschedules itself.
UserEvent ==
  /\ IrqDue /\ Head(timer_list) \in Timers
  /\ \E del \in SUBSET (Timers \ {Head(timer_list)}) :
       LET t    == Head(timer_list)
           list == Without(timer_list, del)
           last == LastInsertAfterDelete(del)
       IN  \/ /\ waketime' = waketime
              /\ armed' = armed \ (del \union {t})
              /\ Done(list, last)
           \/ /\ \E d \in 1..Horizon :
                   waketime' = [waketime EXCEPT ![t] = (@ + d) % W]
              /\ armed' = armed \ del
              /\ Reschedule(list, waketime', last)
  /\ NextIrq
  /\ UNCHANGED <<now, too_close_c>>

\* "Rescheduled timer in the past": try_shutdown when the timer that is next
\* after a dispatch is overdue, unless timer_repeat_until lies ahead.
PastShutdown ==
  /\ IrqDue
  /\ (now - irq) % W > PastLimit
  /\ ~shutdown_status
  /\ run_shutdown(waketime)
  /\ UNCHANGED <<now, too_close_c>>

\* A command handler or a task schedules a timer that is not scheduled.
AddTimer ==
  /\ ~overrun /\ ~shutdown_status
  /\ \E t \in Timers \ ToSet(timer_list), d \in (-MaxPast)..Horizon :
       sched_add_timer(t, (now + d) % W)
  /\ now' = now

DelTimer ==
  /\ ~overrun
  /\ \E t \in Timers : sched_del_timer(t)
  /\ now' = now

\* sched_clear_shutdown
ClearShutdown ==
  /\ shutdown_status
  /\ shutdown_status' = FALSE
  /\ UNCHANGED <<now, timer_list, waketime, last_insert, irq, too_close_c,
                 overrun, armed>>

\* Time passes; a due interrupt is served within Latency.
Tick ==
  /\ ~overrun
  /\ timer_is_before(now, irq) \/ (now - irq) % W < Latency
  /\ now' = (now + 1) % W
  /\ UNCHANGED <<timer_list, waketime, last_insert, irq, too_close_c,
                 shutdown_status, overrun, armed>>

Dispatch == DeletedEvent \/ PeriodicEvent \/ UserEvent
Next == Dispatch \/ PastShutdown \/ AddTimer \/ DelTimer \/ ClearShutdown
        \/ Tick

Spec == Init /\ [][Next]_vars

-----------------------------------------------------------------------------
\* No command has come too late so far.  The properties with this premise fail
\* without it: see the runs that expect a violation.
NoLateTimer == too_close_c = 0

\* While no timer is late the list is in the order in which the timers are to
\* fire, wherever the counter wraps around and whatever last_insert the search
\* for a place started from (insert_timer).
TimerListSorted ==
  NoLateTimer =>
    \A i, j \in 1..(Len(timer_list) - 1) :
      i < j => ~timer_is_before(waketime[timer_list[j]],
                                waketime[timer_list[i]])

\* A timer that was added, in time or late, and neither ended nor was deleted
\* is on the list exactly once, and no other is: moving and removing nodes
\* loses none.
NothingLost ==
  ~overrun => /\ ToSet(timer_list) \intersect Timers = armed
              /\ IsInjective(timer_list)
              /\ Last(timer_list) = "sentinel"

\* last_insert, which the next reschedule starts from, is on the list.
LastInsertValid == ~overrun => last_insert \in ToSet(timer_list)

\* insert_timer finds a place before the end of the list: the sentinel
\* "allows the code to avoid checking for NULL while traversing timer_list".
SentinelStopsSearch == ~overrun

\* Only a timer that is added late makes the search run past the sentinel.
OverrunOnlyWhenLate == NoLateTimer => ~overrun

\* "The scheduler code will arrange for the given function to be called at
\* the requested clock time": while no timer is late, a timer is called neither
\* before its waketime nor later than interrupts are disabled.
CalledOnTime ==
  [][UserEvent /\ NoLateTimer
     => (now - waketime[Head(timer_list)]) % W <= Latency]_vars

\* The list at every step of the dispatch: sorted, complete, its cached place
\* valid, and never searched past its end unless a timer was late.
TimerListInv ==
  /\ TypeOK
  /\ TimerListSorted
  /\ NothingLost
  /\ LastInsertValid
  /\ OverrunOnlyWhenLate
=============================================================================
