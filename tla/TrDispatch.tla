----------------------------- MODULE TrDispatch -----------------------------
(***************************************************************************)
(* The host's part of the synchronised stop that runs in the serial        *)
(* threads (klippy/chelper/trdispatch.c): status reports of one micro-     *)
(* controller extend the timeouts of the others, and a trigger or timeout  *)
(* of one is passed on to all.                                             *)
(***************************************************************************)
EXTENDS Trsync

CONSTANTS
  ExpireTicks,   \* TRSYNC_TIMEOUT
  MinExtend      \* min_extend_ticks: smaller extensions are not sent

ASSUME ExpireAssumption == ExpireTicks \in Nat \ {0} /\ MinExtend \in Nat

VARIABLES
  can_trigger,                      \* struct trdispatch
  last_status_clock, expire_clock,  \* struct trdispatch_mcu
  fastreaders,      \* the serialqueues that have the callback registered
  dispatching       \* per serialqueue: the report its thread is handing over

trdispatchVars == <<can_trigger, last_status_clock, expire_clock,
                    fastreaders, dispatching>>

TrDispatchTypeOK ==
  /\ can_trigger \in BOOLEAN
  /\ last_status_clock \in [Mcus -> Nat] /\ expire_clock \in [Mcus -> Nat]
  /\ fastreaders \subseteq Mcus
  /\ dispatching \in [Mcus -> Seq(Response)]
  /\ \A m \in Mcus : Len(dispatching[m]) <= 1

TrDispatchInit ==
  /\ can_trigger = FALSE
  /\ last_status_clock = [m \in Mcus |-> 0]
  /\ expire_clock = [m \in Mcus |-> 0]
  /\ fastreaders = {} /\ dispatching = [m \in Mcus |-> <<>>]

Send(m, cmds) == cmdq' = [cmdq EXCEPT ![m] = @ \o cmds]

\* A timeout that counts from the micro-controller's own report (used to
\* show that StopsTogether depends on the choice)
StatusTime_own(status, m) == status[m]

Others(m) == IF Mcus = {m} THEN {m} ELSE Mcus \ {m}

(***************************************************************************)
(* The time from which m's timeout counts: the oldest report of the other  *)
(* micro-controllers.  The code finds it as the minimum of all reports,    *)
(* or the second smallest for the one (min_tdm) that has the minimum.      *)
(***************************************************************************)
StatusTime(status, m) ==
  CHOOSE t \in {status[o] : o \in Others(m)} :
    \A o \in Others(m) : t <= status[o]

(***************************************************************************)
(* Whether a new expire time is worth a message.  The comparison with      *)
(* min_extend_ticks is unsigned in the code, so an expire time that lies   *)
(* before the old one counts as an extension as well.                      *)
(***************************************************************************)
Extends_late(expire, old) == expire - old >= ExpireTicks
Extends(expire, old) == expire - old >= MinExtend \/ expire < old

\* handle_trsync_state
handle_trsync_state(r, m) ==
  LET status == [last_status_clock EXCEPT ![m] = r.clock]
      Expire(o) == StatusTime(status, o) + ExpireTicks
      extended == {o \in Mcus : Extends(Expire(o), expire_clock[o])}
      Msg(op, clock) == [op |-> op, clock |-> clock, round |-> r.round,
                         reason |-> IF op = "trsync_trigger"
                                    THEN "host_request" ELSE "none"]
  IN  \/ /\ ~can_trigger
         /\ UNCHANGED <<can_trigger, last_status_clock, expire_clock, cmdq>>
      \/ /\ can_trigger /\ ~r.can_trigger
         /\ can_trigger' = FALSE
         /\ cmdq' = [o \in Mcus |->
                       Append(cmdq[o], Msg("trsync_trigger", 0))]
         /\ UNCHANGED <<last_status_clock, expire_clock>>
      \/ /\ can_trigger /\ r.can_trigger
         /\ last_status_clock' = status
         /\ expire_clock' = [o \in Mcus |-> IF o \in extended THEN Expire(o)
                                            ELSE expire_clock[o]]
         /\ cmdq' = [o \in Mcus |->
                       IF o \in extended
                       THEN Append(cmdq[o], Msg("trsync_set_timeout", Expire(o)))
                       ELSE cmdq[o]]
         /\ can_trigger' = can_trigger

\* The callback runs after the serialqueue's own lock is dropped; until it
\* returns the thread holds fast_reader_dispatch_lock.
FastRead(m) ==
  /\ dispatching[m] # <<>>
  /\ handle_trsync_state(dispatching[m][1], m)
  /\ dispatching' = [dispatching EXCEPT ![m] = <<>>]
  /\ UNCHANGED <<mcuVars, now, rspq, fastreaders>>

\* trdispatch_mcu_setup
trdispatch_mcu_setup(m, clock) ==
  /\ last_status_clock' = [last_status_clock EXCEPT ![m] = clock]
  /\ expire_clock' = [expire_clock EXCEPT ![m] = clock + ExpireTicks]
  /\ UNCHANGED <<can_trigger, fastreaders, dispatching>>

\* serialqueue_add_fastreader and serialqueue_rm_fastreader.  Removing waits
\* for a callback that runs, by taking fast_reader_dispatch_lock.
add_fastreader(m) == fastreaders' = fastreaders \union {m}
rm_fastreader_no_wait(m) == fastreaders' = fastreaders \ {m}
rm_fastreader(m) ==
  /\ dispatching[m] = <<>>
  /\ fastreaders' = fastreaders \ {m}
=============================================================================
