--------------------------- MODULE SyncStopProofs ---------------------------
(***************************************************************************)
(* Proofs about SyncStop for any number of micro-controllers, any timing   *)
(* constants and any delays: TimeoutsInv is inductive, and StopsTogether   *)
(* follows from it.                                                        *)
(***************************************************************************)
EXTENDS SyncStop, FiniteSetTheorems, WellFoundedInduction, TLAPS

-----------------------------------------------------------------------------
(* The minimum that handle_trsync_state computes *)

(* A set of natural numbers that is not empty has a least element: the
   intervals 0..n are finite, so that strict inclusion is well-founded. *)
LEMMA LeastNat ==
  ASSUME NEW T \in SUBSET Nat, T # {}
  PROVE  \E x \in T : \A y \in T : x <= y
<1> DEFINE R == StrictSubsetOrdering(Nat)
           U == {0..n : n \in T}
<1>1. \A n \in Nat : 0..n \in FiniteSubsetsOf(Nat)
  BY FS_Interval DEF FiniteSubsetsOf
<1>2. \A m, n \in Nat : m < n => <<0..m, 0..n>> \in R
  BY SMT DEF StrictSubsetOrdering
<1>3. IsWellFoundedOn(R, FiniteSubsetsOf(Nat))
  BY FS_StrictSubsetOrderingWellFounded
<1>4. U \subseteq FiniteSubsetsOf(Nat) /\ U # {}
  BY <1>1
<1> HIDE DEF R
<1>5. \E x \in U : \A y \in U : ~ (<<y, x>> \in R)
  <2> HIDE DEF U
  <2> QED BY <1>3, <1>4, WFMin
<1>6. PICK x \in T : \A y \in T : ~ (<<0..y, 0..x>> \in R)
  BY <1>5
<1>7. \A y \in T : ~ (y < x)
  BY <1>2, <1>6
<1> QED BY <1>7

(* Every micro-controller's timeout counts from somebody's reports. *)
LEMMA OthersExist ==
  ASSUME NEW m \in Mcus
  PROVE  Others(m) \subseteq Mcus /\ Others(m) # {}
  BY DEF Others

(* StatusTime, the oldest report of the others, is well defined. *)
LEMMA StatusTimeIsOldest ==
  ASSUME NEW status \in [Mcus -> Nat], NEW m \in Mcus
  PROVE  /\ StatusTime(status, m) \in Nat
         /\ \A o \in Others(m) : StatusTime(status, m) <= status[o]
         /\ \E o \in Others(m) : StatusTime(status, m) = status[o]
<1> DEFINE T == {status[o] : o \in Others(m)}
<1>1. T \in SUBSET Nat /\ T # {}
  BY OthersExist
<1>2. PICK x \in T : \A y \in T : x <= y
  <2> HIDE DEF T
  <2> QED BY <1>1, LeastNat
<1>3. /\ StatusTime(status, m) \in T
      /\ \A o \in Others(m) : StatusTime(status, m) <= status[o]
  BY <1>2 DEF StatusTime
<1> QED BY <1>1, <1>3

-----------------------------------------------------------------------------
(* Queues *)

(* What is taken from a queue was at its front, the others move up. *)
LEMMA TailProps ==
  ASSUME NEW S, NEW s \in Seq(S), s # <<>>
  PROVE  /\ Head(s) = s[1] /\ s[1] \in S /\ 1 \in DOMAIN s
         /\ Tail(s) \in Seq(S)
         /\ DOMAIN s = 1..Len(s) /\ Len(s) \in Nat
         /\ DOMAIN Tail(s) = 1..(Len(s) - 1)
         /\ \A i \in DOMAIN Tail(s) : i + 1 \in DOMAIN s /\ Tail(s)[i] = s[i+1]
  OBVIOUS

(* What is put into a queue comes last. *)
LEMMA AppendProps ==
  ASSUME NEW S, NEW s \in Seq(S), NEW e \in S
  PROVE  /\ Append(s, e) \in Seq(S)
         /\ DOMAIN s = 1..Len(s) /\ Len(s) \in Nat
         /\ DOMAIN Append(s, e) = 1..(Len(s) + 1)
         /\ \A i \in DOMAIN s : Append(s, e)[i] = s[i]
         /\ Append(s, e)[Len(s) + 1] = e
  OBVIOUS

LEMMA ConcatProps ==
  ASSUME NEW S, NEW s \in Seq(S), NEW t \in Seq(S)
  PROVE  /\ s \o t \in Seq(S)
         /\ DOMAIN s = 1..Len(s) /\ Len(s) \in Nat
         /\ DOMAIN t = 1..Len(t) /\ Len(t) \in Nat
         /\ DOMAIN (s \o t) = 1..(Len(s) + Len(t))
         /\ \A i \in DOMAIN s : (s \o t)[i] = s[i]
         /\ \A i \in DOMAIN (s \o t) : i \notin DOMAIN s =>
              i - Len(s) \in DOMAIN t /\ (s \o t)[i] = t[i - Len(s)]
  OBVIOUS

(* The effect of trsync_report: at most one response that can still say
   can_trigger, with the clock that was read, behind those under way. *)
LEMMA ReportEffect ==
  ASSUME NEW m \in Mcus, NEW more \in Seq(Response), NEW can \in BOOLEAN,
         NEW reason \in Reasons, NEW clock \in Time, NEW round \in Nat,
         rspq \in [Mcus -> Seq(Response)], lost \in 0..MaxLost,
         \A i \in DOMAIN more : ~more[i].can_trigger,
         Report(m, more, can, reason, clock, round)
  PROVE  /\ rspq' \in [Mcus -> Seq(Response)]
         /\ lost' \in 0..MaxLost
         /\ \A o \in Mcus \ {m} : rspq'[o] = rspq[o]
         /\ DOMAIN rspq[m] = 1..Len(rspq[m]) /\ Len(rspq[m]) \in Nat
         /\ DOMAIN rspq'[m] = 1..Len(rspq'[m]) /\ Len(rspq'[m]) \in Nat
         /\ \A i \in DOMAIN rspq'[m] :
              \/ i \in DOMAIN rspq[m] /\ rspq'[m][i] = rspq[m][i]
              \/ ~rspq'[m][i].can_trigger
              \/ /\ i = Len(rspq[m]) + 1
                 /\ can /\ rspq'[m][i].clock = clock
<1> DEFINE r == [ack |-> FALSE, can_trigger |-> can, trigger_reason |-> reason,
                 clock |-> clock, round |-> round]
<1>1. r \in Response
  BY DEF Response
<1>2. CASE rspq' = [rspq EXCEPT ![m] = @ \o <<r>> \o more] /\ lost' = lost
  <2> DEFINE q == rspq[m] \o <<r>>
  <2>1. rspq[m] \in Seq(Response) /\ <<r>> \in Seq(Response)
    BY <1>1
  <2>2. /\ q \in Seq(Response) /\ Len(q) = Len(rspq[m]) + 1
        /\ DOMAIN rspq[m] = 1..Len(rspq[m]) /\ Len(rspq[m]) \in Nat
        /\ DOMAIN q = 1..Len(q)
        /\ \A i \in DOMAIN rspq[m] : q[i] = rspq[m][i]
        /\ q[Len(rspq[m]) + 1] = r
    <3> HIDE DEF r
    <3> QED BY <2>1
  <2>3. rspq'[m] = q \o more
    BY <1>2
  <2> HIDE DEF q
  <2>4. /\ q \o more \in Seq(Response)
        /\ DOMAIN (q \o more) = 1..Len(q \o more) /\ Len(q \o more) \in Nat
        /\ \A i \in DOMAIN q : (q \o more)[i] = q[i]
        /\ \A i \in DOMAIN (q \o more) : i \notin DOMAIN q =>
              i - Len(q) \in DOMAIN more /\ (q \o more)[i] = more[i - Len(q)]
    BY <2>2, ConcatProps
  <2>5. r.can_trigger = can /\ r.clock = clock
    OBVIOUS
  <2> HIDE DEF r
  <2>6. \A i \in DOMAIN rspq'[m] :
              \/ i \in DOMAIN rspq[m] /\ rspq'[m][i] = rspq[m][i]
              \/ ~rspq'[m][i].can_trigger
              \/ /\ i = Len(rspq[m]) + 1
                 /\ can /\ rspq'[m][i].clock = clock
    <3> TAKE i \in DOMAIN rspq'[m]
    <3>1. CASE i \notin DOMAIN q
      BY <3>1, <2>3, <2>4
    <3>2. CASE i \in DOMAIN q
      BY <3>2, <2>2, <2>3, <2>4, <2>5
    <3> QED BY <3>1, <3>2
  <2> QED BY <1>2, <2>2, <2>3, <2>4, <2>6
<1>3. CASE /\ lost < MaxLost
           /\ rspq' = [rspq EXCEPT ![m] = @ \o more] /\ lost' = lost + 1
  <2>1. rspq'[m] = rspq[m] \o more /\ rspq[m] \in Seq(Response)
    BY <1>3
  <2>2. /\ rspq[m] \o more \in Seq(Response)
        /\ DOMAIN rspq[m] = 1..Len(rspq[m]) /\ Len(rspq[m]) \in Nat
        /\ DOMAIN (rspq[m] \o more) = 1..Len(rspq[m] \o more)
        /\ Len(rspq[m] \o more) \in Nat
        /\ \A i \in DOMAIN rspq[m] : (rspq[m] \o more)[i] = rspq[m][i]
        /\ \A i \in DOMAIN (rspq[m] \o more) : i \notin DOMAIN rspq[m] =>
              /\ i - Len(rspq[m]) \in DOMAIN more
              /\ (rspq[m] \o more)[i] = more[i - Len(rspq[m])]
    BY <2>1, ConcatProps
  <2>3. lost' \in 0..MaxLost
    BY <1>3, TicksAssumption
  <2> QED BY <1>3, <2>1, <2>2, <2>3
<1> QED BY <1>2, <1>3 DEF Report

-----------------------------------------------------------------------------
(* The steps *)

LEMMA InitInv == Init => TimeoutsInv
<1> SUFFICES ASSUME Init PROVE TimeoutsInv
  OBVIOUS
<1> USE McusAssumption, TicksAssumption, ExpireAssumption, SyncStopAssumption
<1>1. TypeOK
  <2>1. FirstReport \union {0} \subseteq Time
    BY DEF Time
  <2>2. report_time \in [Mcus -> Time]
    BY <2>1 DEF Init
  <2> QED BY <2>2 DEF Init, TypeOK, McuTypeOK, TrDispatchTypeOK, Reasons, Time, Never
<1>2. TimeoutsAscend /\ ReportsSound
  BY DEF Init, TimeoutsAscend, ReportsSound, SetTimeouts, GoodReports,
         NotTriggeredAt, Never
<1>3. TimeoutsJustified
  <2> SUFFICES ASSUME NEW m \in Mcus
               PROVE  /\ expire_time[m] <= expire_clock[m]
                      /\ \A o \in Others(m) :
                           expire_clock[m] <= last_status_clock[o] + ExpireTicks
    BY DEF TimeoutsJustified
  <2>1. Others(m) \subseteq Mcus
    BY OthersExist
  <2> QED BY <2>1 DEF Init
<1>4. TimeoutSet
  <2> SUFFICES ASSUME NEW m \in Mcus
               PROVE  /\ "can_trigger" \in flags[m]
                      /\ triggered_at[m] = Never
                      /\ expire_time[m] # Never /\ now <= expire_time[m]
    BY DEF TimeoutSet
  <2> QED BY DEF Init, Never
<1> QED BY <1>1, <1>2, <1>3, <1>4 DEF TimeoutsInv

(* The clocks of the messages under way are numbers. *)
LEMMA MessageTypes ==
  ASSUME TypeOK, NEW m \in Mcus
  PROVE  /\ \A i \in DOMAIN rspq[m] : rspq[m][i] \in Response /\ rspq[m][i].clock \in Int
         /\ \A i \in DOMAIN cmdq[m] : cmdq[m][i] \in Command /\ cmdq[m][i].clock \in Int
<1>1. rspq[m] \in Seq(Response) /\ cmdq[m] \in Seq(Command)
  BY DEF TypeOK, McuTypeOK
<1>2. /\ \A i \in DOMAIN rspq[m] : rspq[m][i] \in Response
      /\ \A i \in DOMAIN cmdq[m] : cmdq[m][i] \in Command
  BY <1>1
<1>3. Time \subseteq Int
  BY DEF Time, Never
<1> QED BY <1>2, <1>3 DEF Response, Command

(* Time does not pass a timeout that is due, and nothing else changes. *)
LEMMA TimePassesInv ==
  ASSUME TimeoutsInv, TimePasses, UNCHANGED prompt
  PROVE  TimeoutsInv'
<1> USE DEF TimePasses, Tick, mcuVars, linkVars, trdispatchVars
<1>1. TypeOK'
  BY DEF TimeoutsInv, TypeOK, McuTypeOK, TrDispatchTypeOK
<1>2. TimeoutsAscend'
  BY DEF TimeoutsInv, TimeoutsAscend, SetTimeouts
<1>3. ReportsSound'
  BY SMTT(30), MessageTypes DEF TimeoutsInv, ReportsSound, GoodReports, NotTriggeredAt,
     TypeOK, McuTypeOK, TrDispatchTypeOK
<1>4. TimeoutsJustified'
  BY DEF TimeoutsInv, TimeoutsJustified
<1>5. TimeoutSet'
  BY DEF TimeoutsInv, TimeoutSet, TypeOK, McuTypeOK, Due, Time, Never
<1> QED BY <1>1, <1>2, <1>3, <1>4, <1>5 DEF TimeoutsInv

(* A report that is true now is sent, or one that does not say can_trigger:
   what the host concludes from remains true. *)
LEMMA ReportsSoundAfterReport ==
  ASSUME TypeOK, ReportsSound, NEW m \in Mcus, NEW can \in BOOLEAN,
         UNCHANGED <<now, last_status_clock>>,
         \A o \in Mcus : triggered_at'[o] \in {triggered_at[o], now},
         can => triggered_at'[m] = Never,
         \A o \in Mcus \ {m} : rspq'[o] = rspq[o],
         DOMAIN rspq[m] = 1..Len(rspq[m]), Len(rspq[m]) \in Nat,
         \A i \in DOMAIN rspq'[m] :
           \/ i \in DOMAIN rspq[m] /\ rspq'[m][i] = rspq[m][i]
           \/ ~rspq'[m][i].can_trigger
           \/ /\ i = Len(rspq[m]) + 1
              /\ can /\ rspq'[m][i].clock = now
  PROVE  ReportsSound'
<1>1. now \in Nat /\ last_status_clock \in [Mcus -> Nat]
  BY DEF TypeOK, McuTypeOK, TrDispatchTypeOK
<1>2. ASSUME NEW o \in Mcus, NEW i \in GoodReports(o)'
      PROVE  \/ i \in GoodReports(o) /\ rspq'[o][i] = rspq[o][i]
             \/ /\ o = m /\ i = Len(rspq[m]) + 1
                /\ can /\ rspq'[o][i].clock = now
  BY <1>2 DEF GoodReports
<1>3. ASSUME NEW o \in Mcus, NEW i \in GoodReports(o)
      PROVE  /\ rspq[o][i].clock \in Int /\ rspq[o][i].clock <= now
             /\ NotTriggeredAt(o, rspq[o][i].clock)
             /\ last_status_clock[o] <= rspq[o][i].clock
             /\ \A j \in GoodReports(o) : i < j => rspq[o][i].clock <= rspq[o][j].clock
             /\ o = m => i \in 1..Len(rspq[m])
  <2>1. rspq[o][i].clock \in Int
    BY MessageTypes DEF GoodReports
  <2>2. o = m => i \in 1..Len(rspq[m])
    BY DEF GoodReports
  <2> QED BY <2>1, <2>2 DEF ReportsSound, NotTriggeredAt
<1>4. \A o \in Mcus : /\ last_status_clock[o] <= now
                       /\ NotTriggeredAt(o, last_status_clock[o])
  BY DEF ReportsSound, NotTriggeredAt
<1>5. ASSUME NEW o \in Mcus
      PROVE  NotTriggeredAt(o, last_status_clock[o])'
  BY <1>1, <1>4 DEF NotTriggeredAt
<1>6. ASSUME NEW o \in Mcus, NEW i \in GoodReports(o)'
      PROVE  /\ NotTriggeredAt(o, rspq[o][i].clock)'
             /\ last_status_clock[o] <= rspq'[o][i].clock
  <2>1. CASE i \in GoodReports(o) /\ rspq'[o][i] = rspq[o][i]
    BY <1>1, <1>3, <2>1 DEF NotTriggeredAt
  <2>2. CASE o = m /\ can /\ rspq'[o][i].clock = now
    BY <1>1, <1>4, <2>2 DEF NotTriggeredAt
  <2> QED BY <1>2, <2>1, <2>2
<1>7. ASSUME NEW o \in Mcus, NEW i \in GoodReports(o)', NEW j \in GoodReports(o)', i < j
      PROVE  rspq'[o][i].clock <= rspq'[o][j].clock
  <2>1. CASE i \in GoodReports(o) /\ rspq'[o][i] = rspq[o][i]
    <3>1. CASE j \in GoodReports(o) /\ rspq'[o][j] = rspq[o][j]
      BY <1>3, <1>7, <2>1, <3>1
    <3>2. CASE rspq'[o][j].clock = now
      BY <1>3, <2>1, <3>2
    <3> QED BY <1>2, <3>1, <3>2
  <2>2. CASE o = m /\ i = Len(rspq[m]) + 1
    <3>1. j \in 1..Len(rspq[m]) \/ j = Len(rspq[m]) + 1
      BY <1>2, <1>3, <2>2
    <3> QED BY <1>7, <2>2, <3>1
  <2> QED BY <1>2, <2>1, <2>2
<1> QED BY <1>5, <1>6, <1>7 DEF ReportsSound

(* The first reason stays, and what has been reported remains true. *)
LEMMA TriggerInv ==
  ASSUME TimeoutsInv, NEW m \in Mcus, NEW reason \in Reasons,
         trsync_do_trigger(m, reason),
         now' = now
  PROVE  /\ trigger_reason' \in [Mcus -> Reasons]
         /\ triggered_at' \in [Mcus -> Time]
         /\ signal' \in [Mcus -> BOOLEAN]
         /\ ~signal'[m] /\ triggered_at'[m] # Never
         /\ \A o \in Mcus : triggered_at'[o] \in {triggered_at[o], now}
         /\ \A o \in Mcus \ {m} : signal'[o] = signal[o]
                                 /\ triggered_at'[o] = triggered_at[o]
<1> USE DEF TimeoutsInv, TypeOK, McuTypeOK, TrDispatchTypeOK, TimeoutSet
<1>1. CASE "can_trigger" \in flags[m]
  <2>1. /\ trigger_reason' = [trigger_reason EXCEPT ![m] = reason]
        /\ triggered_at' = [triggered_at EXCEPT ![m] = now]
        /\ signal' = [signal EXCEPT ![m] = FALSE]
    BY <1>1 DEF trsync_do_trigger
  <2>2. /\ trigger_reason' \in [Mcus -> Reasons]
        /\ triggered_at' \in [Mcus -> Time]
        /\ signal' \in [Mcus -> BOOLEAN]
    BY <2>1 DEF Time
  <2> QED BY <2>1, <2>2 DEF Never
<1>2. CASE "can_trigger" \notin flags[m]
  <2>1. UNCHANGED <<trigger_reason, triggered_at, signal>>
    BY <1>2 DEF trsync_do_trigger
  <2> QED BY <1>2, <2>1
<1> QED BY <1>1, <1>2

(* A trigger does not contradict a report that was sent before it. *)
LEMMA ReportsSoundAfterTrigger ==
  ASSUME TypeOK, ReportsSound, UNCHANGED <<now, last_status_clock, rspq>>,
         \A o \in Mcus : triggered_at'[o] \in {triggered_at[o], now}
  PROVE  ReportsSound'
<1>1. \A o \in Mcus : last_status_clock[o] \in Int
  BY DEF TypeOK, McuTypeOK, TrDispatchTypeOK
<1>2. \A o \in Mcus : \A i \in GoodReports(o) : rspq[o][i].clock \in Int
  BY MessageTypes DEF GoodReports
<1> QED BY <1>1, <1>2 DEF ReportsSound, NotTriggeredAt, GoodReports

LEMMA FlagsAfterTriggerProps ==
  ASSUME NEW m \in Mcus, TypeOK
  PROVE  /\ FlagsAfterTrigger(m) \subseteq {"can_trigger", "report"}
         /\ "can_trigger" \notin FlagsAfterTrigger(m)
  BY DEF FlagsAfterTrigger, TypeOK, McuTypeOK

LEMMA ExpireEventInv ==
  ASSUME TimeoutsInv, NEW m \in Mcus, ExpireEvent(m),
         UNCHANGED <<trdispatchVars, prompt>>
  PROVE  TimeoutsInv'
<1> USE DEF TimeoutsInv, TypeOK, McuTypeOK, TrDispatchTypeOK,
            ExpireEvent, trdispatchVars, linkVars
<1>1. /\ trigger_reason' \in [Mcus -> Reasons]
      /\ triggered_at' \in [Mcus -> Time]
      /\ signal' \in [Mcus -> BOOLEAN]
      /\ ~signal'[m] /\ triggered_at'[m] # Never
      /\ \A o \in Mcus : triggered_at'[o] \in {triggered_at[o], now}
      /\ \A o \in Mcus \ {m} : signal'[o] = signal[o]
                              /\ triggered_at'[o] = triggered_at[o]
  BY TriggerInv DEF Reasons
<1>2. TypeOK'
  BY <1>1, FlagsAfterTriggerProps DEF Time, Never
<1>3. TimeoutsAscend'
  <2>1. \A o \in Mcus : expire_time'[o] <= expire_time[o] /\ expire_time'[o] \in Int
                        /\ expire_time[o] \in Int
    BY SMTT(30) DEF Never, Time, Due
  <2> SUFFICES ASSUME NEW o \in Mcus, NEW i \in SetTimeouts(o)
               PROVE  expire_time'[o] <= cmdq[o][i].clock
    BY DEF TimeoutsAscend, SetTimeouts
  <2>2. cmdq[o][i].clock \in Int
    BY MessageTypes DEF SetTimeouts
  <2>3. expire_time[o] <= cmdq[o][i].clock
    BY DEF TimeoutsAscend
  <2> HIDE DEF TimeoutsInv
  <2> QED BY <2>1, <2>2, <2>3
<1>4. TimeoutsJustified'
  BY DEF TimeoutsJustified, Never, Time
<1>5. TimeoutSet'
  BY <1>1, FlagsAfterTriggerProps DEF TimeoutSet
<1>6. ReportsSound'
  BY <1>1, ReportsSoundAfterTrigger
<1> QED BY <1>2, <1>3, <1>4, <1>5, <1>6

LEMMA EndstopEventInv ==
  ASSUME TimeoutsInv, EndstopEvent, UNCHANGED <<trdispatchVars, prompt>>
  PROVE  TimeoutsInv'
<1> USE McusAssumption
    DEF TimeoutsInv, TypeOK, McuTypeOK, TrDispatchTypeOK,
            EndstopEvent, trdispatchVars, linkVars
<1>1. /\ trigger_reason' \in [Mcus -> Reasons]
      /\ triggered_at' \in [Mcus -> Time]
      /\ signal' \in [Mcus -> BOOLEAN]
      /\ ~signal'[Main] /\ triggered_at'[Main] # Never
      /\ \A o \in Mcus : triggered_at'[o] \in {triggered_at[o], now}
      /\ \A o \in Mcus \ {Main} : signal'[o] = signal[o]
                              /\ triggered_at'[o] = triggered_at[o]
  BY TriggerInv DEF Reasons
<1>2. TypeOK'
  BY <1>1, FlagsAfterTriggerProps DEF Time, Never
<1>3. TimeoutsAscend'
  BY DEF TimeoutsAscend, SetTimeouts
<1>4. TimeoutsJustified'
  BY DEF TimeoutsJustified
<1>5. TimeoutSet'
  BY <1>1, FlagsAfterTriggerProps DEF TimeoutSet
<1>6. ReportsSound'
  BY <1>1, ReportsSoundAfterTrigger
<1> QED BY <1>2, <1>3, <1>4, <1>5, <1>6

LEMMA ReportEventInv ==
  ASSUME TimeoutsInv, NEW m \in Mcus, ReportEvent(m),
         UNCHANGED <<trdispatchVars, prompt>>
  PROVE  TimeoutsInv'
<1> USE TicksAssumption
    DEF TimeoutsInv, TypeOK, McuTypeOK, TrDispatchTypeOK,
            ReportEvent, trdispatchVars, linkVars
<1>1. TypeOK'
  <2>1. report_time[m] + ReportTicks \in Time
    BY DEF Time, Never, Due
  <2> QED BY <2>1
<1>2. TimeoutsAscend' /\ ReportsSound' /\ TimeoutsJustified'
  BY DEF TimeoutsAscend, SetTimeouts, ReportsSound, GoodReports,
         NotTriggeredAt, TimeoutsJustified
<1>3. TimeoutSet'
  BY DEF TimeoutSet
<1> QED BY <1>1, <1>2, <1>3

LEMMA ReportTaskInv ==
  ASSUME TimeoutsInv, NEW m \in Mcus, ReportTask(m),
         UNCHANGED <<trdispatchVars, prompt>>
  PROVE  TimeoutsInv'
<1> USE DEF TimeoutsInv, TypeOK, McuTypeOK, TrDispatchTypeOK, trdispatchVars
<1> DEFINE can == "can_trigger" \in flags[m]
<1>1. /\ flags' = [flags EXCEPT ![m] = @ \ {"report"}]
      /\ Report(m, <<>>, can, trigger_reason[m], now, homing[m])
      /\ UNCHANGED <<now, trigger_reason, report_time, expire_time, signal,
                     triggered_at, homing, endstop, endstop_clock, cmdq>>
  BY DEF ReportTask, ReportClock
<1>2. /\ <<>> \in Seq(Response) /\ can \in BOOLEAN /\ trigger_reason[m] \in Reasons
      /\ now \in Time /\ homing[m] \in Nat
      /\ \A i \in DOMAIN <<>> : ~ <<>>[i].can_trigger
  BY DEF Time
<1>3. /\ rspq' \in [Mcus -> Seq(Response)]
      /\ lost' \in 0..MaxLost
      /\ \A o \in Mcus \ {m} : rspq'[o] = rspq[o]
      /\ DOMAIN rspq[m] = 1..Len(rspq[m]) /\ Len(rspq[m]) \in Nat
      /\ DOMAIN rspq'[m] = 1..Len(rspq'[m]) /\ Len(rspq'[m]) \in Nat
      /\ \A i \in DOMAIN rspq'[m] :
           \/ i \in DOMAIN rspq[m] /\ rspq'[m][i] = rspq[m][i]
           \/ ~rspq'[m][i].can_trigger
           \/ /\ i = Len(rspq[m]) + 1
              /\ can /\ rspq'[m][i].clock = now
  <2> HIDE DEF can
  <2> QED BY ZenonT(30), <1>1, <1>2, ReportEffect
<1>4. TypeOK'
  BY <1>1, <1>3
<1>5. TimeoutsAscend' /\ TimeoutsJustified'
  BY <1>1 DEF TimeoutsAscend, SetTimeouts, TimeoutsJustified
<1>6. TimeoutSet'
  BY <1>1 DEF TimeoutSet
<1>7. ReportsSound'
  <2>1. can => triggered_at'[m] = Never
    BY <1>1 DEF TimeoutSet
  <2>2. UNCHANGED <<now, last_status_clock>>
    BY <1>1
  <2>3. \A o \in Mcus : triggered_at'[o] \in {triggered_at[o], now}
    BY <1>1
  <2>4. TypeOK /\ ReportsSound
    OBVIOUS
  <2> HIDE DEF can, TimeoutsInv, TypeOK
  <2> QED BY <1>2, <1>3, <2>1, <2>2, <2>3, <2>4, ReportsSoundAfterReport
<1> QED BY <1>4, <1>5, <1>6, <1>7

LEMMA SetTimeoutInv ==
  ASSUME TimeoutsInv, NEW m \in Mcus, SetTimeout(m),
         UNCHANGED <<trdispatchVars, prompt>>
  PROVE  TimeoutsInv'
<1> USE DEF TimeoutsInv, TypeOK, McuTypeOK, TrDispatchTypeOK, trdispatchVars
<1> DEFINE c == Head(cmdq[m])
<1>1. /\ cmdq[m] # <<>> /\ c.op = "trsync_set_timeout"
      /\ cmdq' = [cmdq EXCEPT ![m] = Tail(@)]
      /\ expire_time' = IF "can_trigger" \in flags[m]
                        THEN [expire_time EXCEPT ![m] = c.clock]
                        ELSE expire_time
      /\ UNCHANGED <<now, flags, trigger_reason, report_time, signal, triggered_at,
                     homing, endstop, endstop_clock, lost, rspq>>
  BY DEF SetTimeout, NextCommand, Consume
<1>2. /\ c = cmdq[m][1] /\ c \in Command /\ 1 \in DOMAIN cmdq[m]
      /\ Tail(cmdq[m]) \in Seq(Command)
      /\ DOMAIN cmdq[m] = 1..Len(cmdq[m]) /\ Len(cmdq[m]) \in Nat
      /\ DOMAIN Tail(cmdq[m]) = 1..(Len(cmdq[m]) - 1)
      /\ \A i \in DOMAIN Tail(cmdq[m]) :
           i + 1 \in DOMAIN cmdq[m] /\ Tail(cmdq[m])[i] = cmdq[m][i+1]
  <2>1. cmdq[m] \in Seq(Command) /\ cmdq[m] # <<>>
    BY <1>1
  <2> QED BY <2>1, TailProps
<1>3. c.clock \in Time
  BY <1>2 DEF Command
<1>4. /\ 1 \in SetTimeouts(m) /\ c.clock >= expire_time[m]
      /\ c.clock <= expire_clock[m]
  BY <1>1, <1>2 DEF SetTimeouts, TimeoutsAscend
<1> HIDE DEF c
<1>5. TypeOK'
  BY <1>1, <1>2, <1>3
<1>6. \A o \in Mcus : /\ o # m => expire_time'[o] = expire_time[o]
                      /\ expire_time'[o] \in Int /\ expire_time[o] \in Int
                      /\ expire_time'[m] \in {expire_time[m], c.clock}
  BY SMTT(30), <1>1, <1>3 DEF Time, Never
<1>7. TimeoutsAscend'
  <2>1. ASSUME NEW o \in Mcus \ {m}
        PROVE  cmdq'[o] = cmdq[o]
    BY <1>1
  <2>2. ASSUME NEW i \in SetTimeouts(m)'
        PROVE  /\ i + 1 \in SetTimeouts(m) /\ cmdq'[m][i] = cmdq[m][i+1]
               /\ i \in Nat \ {0}
    BY <1>1, <1>2, <2>2 DEF SetTimeouts
  <2>3. ASSUME NEW i \in SetTimeouts(m)'
        PROVE  /\ cmdq'[m][i].clock >= expire_time'[m]
               /\ cmdq'[m][i].clock <= expire_clock[m]
               /\ \A j \in SetTimeouts(m)' : i < j =>
                    cmdq'[m][i].clock <= cmdq'[m][j].clock
    <3>1. /\ cmdq[m][i+1].clock >= expire_time[m]
          /\ cmdq[m][i+1].clock <= expire_clock[m]
          /\ c.clock <= cmdq[m][i+1].clock
          /\ \A j \in SetTimeouts(m) : i+1 < j =>
               cmdq[m][i+1].clock <= cmdq[m][j].clock
      <4>1. TimeoutsAscend
        OBVIOUS
      <4>2. i + 1 \in SetTimeouts(m) /\ 1 < i + 1
        BY <2>2
      <4> HIDE DEF TimeoutsInv
      <4> QED BY <1>2, <1>4, <4>1, <4>2 DEF TimeoutsAscend
    <3> HIDE DEF TimeoutsInv
    <3> QED BY <1>6, <2>2, <2>3, <3>1
  <2>4. ASSUME NEW o \in Mcus \ {m}
        PROVE  SetTimeouts(o)' = SetTimeouts(o)
    BY <2>1, <2>4 DEF SetTimeouts
  <2>5. ASSUME NEW o \in Mcus \ {m}, NEW i \in SetTimeouts(o)'
        PROVE  /\ cmdq'[o][i].clock >= expire_time'[o]
               /\ cmdq'[o][i].clock <= expire_clock[o]
               /\ \A j \in SetTimeouts(o)' : i < j =>
                    cmdq'[o][i].clock <= cmdq'[o][j].clock
    <3>1. i \in SetTimeouts(o)
      BY <2>4, <2>5
    <3> QED BY <1>6, <2>1, <2>4, <2>5, <3>1 DEF TimeoutsAscend
  <2> QED BY <2>3, <2>5 DEF TimeoutsAscend
<1>8. TimeoutsJustified'
  <2>1. \A o \in Mcus : expire_time'[o] <= expire_clock[o]
    BY <1>4, <1>6 DEF TimeoutsJustified
  <2> QED BY <2>1 DEF TimeoutsJustified
<1>9. ReportsSound'
  BY <1>1 DEF ReportsSound, GoodReports, NotTriggeredAt
<1>10. TimeoutSet'
  BY <1>1, <1>3, <1>4, <1>6 DEF TimeoutSet, Time, Never
<1> QED BY <1>5, <1>7, <1>8, <1>9, <1>10

LEMMA TrsyncTriggerInv ==
  ASSUME TimeoutsInv, NEW m \in Mcus, TrsyncTrigger(m),
         UNCHANGED <<trdispatchVars, prompt>>
  PROVE  TimeoutsInv'
<1> USE DEF TimeoutsInv, TypeOK, McuTypeOK, TrDispatchTypeOK, trdispatchVars
<1> DEFINE c == Head(cmdq[m])
           ack == [ack |-> TRUE, can_trigger |-> FALSE, trigger_reason |-> "none",
                   clock |-> 0, round |-> c.round]
           more == IF c.op = "trsync_query" THEN <<ack>> ELSE <<>>
<1>1. /\ cmdq[m] # <<>>
      /\ cmdq' = [cmdq EXCEPT ![m] = Tail(@)]
      /\ trsync_do_trigger(m, c.reason)
      /\ flags' = [flags EXCEPT ![m] = {}]
      /\ report_time' = [report_time EXCEPT ![m] = Never]
      /\ expire_time' = [expire_time EXCEPT ![m] = Never]
      /\ Report(m, more, FALSE, trigger_reason'[m], 0, c.round)
      /\ UNCHANGED <<now, homing, endstop, endstop_clock>>
  BY DEF TrsyncTrigger, NextCommand, Consume
<1>2. /\ c = cmdq[m][1] /\ c \in Command /\ 1 \in DOMAIN cmdq[m]
      /\ Tail(cmdq[m]) \in Seq(Command)
      /\ DOMAIN cmdq[m] = 1..Len(cmdq[m]) /\ Len(cmdq[m]) \in Nat
      /\ DOMAIN Tail(cmdq[m]) = 1..(Len(cmdq[m]) - 1)
      /\ \A i \in DOMAIN Tail(cmdq[m]) :
           i + 1 \in DOMAIN cmdq[m] /\ Tail(cmdq[m])[i] = cmdq[m][i+1]
  <2>1. cmdq[m] \in Seq(Command) /\ cmdq[m] # <<>>
    BY <1>1
  <2> QED BY <2>1, TailProps
<1>3. c.reason \in Reasons /\ c.round \in Nat
  BY <1>2 DEF Command
<1>4. /\ trigger_reason' \in [Mcus -> Reasons]
      /\ triggered_at' \in [Mcus -> Time]
      /\ signal' \in [Mcus -> BOOLEAN]
      /\ ~signal'[m] /\ triggered_at'[m] # Never
      /\ \A o \in Mcus : triggered_at'[o] \in {triggered_at[o], now}
      /\ \A o \in Mcus \ {m} : signal'[o] = signal[o]
                              /\ triggered_at'[o] = triggered_at[o]
  <2> HIDE DEF c, TimeoutsInv
  <2> QED BY <1>1, <1>3, TriggerInv
<1>5. more \in Seq(Response) /\ \A i \in DOMAIN more : ~more[i].can_trigger
  <2>1. ack \in Response /\ ~ack.can_trigger
    BY <1>3 DEF Response, Reasons, Time
  <2> HIDE DEF ack
  <2> QED BY <2>1
<1> HIDE DEF more, c
<1>6. /\ rspq' \in [Mcus -> Seq(Response)]
      /\ lost' \in 0..MaxLost
      /\ \A o \in Mcus \ {m} : rspq'[o] = rspq[o]
      /\ DOMAIN rspq[m] = 1..Len(rspq[m]) /\ Len(rspq[m]) \in Nat
      /\ \A i \in DOMAIN rspq'[m] :
           \/ i \in DOMAIN rspq[m] /\ rspq'[m][i] = rspq[m][i]
           \/ ~rspq'[m][i].can_trigger
           \/ /\ i = Len(rspq[m]) + 1
              /\ FALSE /\ rspq'[m][i].clock = 0
  <2>1. trigger_reason'[m] \in Reasons /\ 0 \in Time /\ FALSE \in BOOLEAN
    BY <1>4 DEF Time
  <2> QED BY <1>1, <1>3, <1>5, <2>1, ReportEffect
<1>7. TypeOK'
  BY <1>1, <1>2, <1>4, <1>6 DEF Time
<1>8. TimeoutsAscend'
  <2>1. ASSUME NEW o \in Mcus \ {m}
        PROVE  cmdq'[o] = cmdq[o] /\ expire_time'[o] = expire_time[o]
    BY <1>1
  <2>2. ASSUME NEW i \in SetTimeouts(m)'
        PROVE  /\ i + 1 \in SetTimeouts(m) /\ cmdq'[m][i] = cmdq[m][i+1]
               /\ i \in Nat \ {0}
    BY <1>1, <1>2, <2>2 DEF SetTimeouts
  <2>3. ASSUME NEW i \in SetTimeouts(m)'
        PROVE  /\ cmdq'[m][i].clock >= expire_time'[m]
               /\ cmdq'[m][i].clock <= expire_clock[m]
               /\ \A j \in SetTimeouts(m)' : i < j =>
                    cmdq'[m][i].clock <= cmdq'[m][j].clock
    <3>1. /\ cmdq[m][i+1].clock \in Time
          /\ cmdq[m][i+1].clock <= expire_clock[m]
          /\ \A j \in SetTimeouts(m) : i+1 < j =>
               cmdq[m][i+1].clock <= cmdq[m][j].clock
      <4>1. TimeoutsAscend
        OBVIOUS
      <4>2. cmdq[m][i+1] \in Command
        BY <2>2, MessageTypes DEF SetTimeouts
      <4> HIDE DEF TimeoutsInv
      <4> QED BY <2>2, <4>1, <4>2 DEF TimeoutsAscend, Command
    <3>2. expire_time'[m] = -1
      BY <1>1 DEF Never
    <3> HIDE DEF TimeoutsInv
    <3> QED BY <2>2, <2>3, <3>1, <3>2 DEF Time, Never
  <2>4. ASSUME NEW o \in Mcus \ {m}
        PROVE  SetTimeouts(o)' = SetTimeouts(o)
    BY <2>1, <2>4 DEF SetTimeouts
  <2>5. ASSUME NEW o \in Mcus \ {m}, NEW i \in SetTimeouts(o)'
        PROVE  /\ cmdq'[o][i].clock >= expire_time'[o]
               /\ cmdq'[o][i].clock <= expire_clock[o]
               /\ \A j \in SetTimeouts(o)' : i < j =>
                    cmdq'[o][i].clock <= cmdq'[o][j].clock
    <3>1. i \in SetTimeouts(o)
      BY <2>4, <2>5
    <3> QED BY <2>1, <2>4, <2>5, <3>1 DEF TimeoutsAscend
  <2> QED BY <2>3, <2>5 DEF TimeoutsAscend
<1>9. TimeoutsJustified'
  <2>1. \A o \in Mcus : expire_time'[o] <= expire_clock[o]
    BY <1>1 DEF TimeoutsJustified, Never
  <2> QED BY <2>1 DEF TimeoutsJustified
<1>10. ReportsSound'
  <2>1. TypeOK /\ ReportsSound /\ FALSE \in BOOLEAN
    OBVIOUS
  <2>2. UNCHANGED <<now, last_status_clock>>
    BY <1>1
  <2>3. \A i \in DOMAIN rspq'[m] :
           \/ i \in DOMAIN rspq[m] /\ rspq'[m][i] = rspq[m][i]
           \/ ~rspq'[m][i].can_trigger
           \/ /\ i = Len(rspq[m]) + 1
              /\ FALSE /\ rspq'[m][i].clock = now
    BY <1>6
  <2> HIDE DEF TimeoutsInv, TypeOK
  <2> QED BY <1>4, <1>6, <2>1, <2>2, <2>3, ReportsSoundAfterReport
<1>11. TimeoutSet'
  BY <1>1, <1>4 DEF TimeoutSet
<1> QED BY <1>7, <1>8, <1>9, <1>10, <1>11

LEMMA PastEndTimeInv ==
  ASSUME TimeoutsInv, PastEndTime, UNCHANGED prompt
  PROVE  TimeoutsInv'
<1> USE McusAssumption
    DEF TimeoutsInv, TypeOK, McuTypeOK, TrDispatchTypeOK, trdispatchVars, mcuVars
<1> DEFINE c == [op |-> "trsync_trigger", clock |-> 0, round |-> 1,
                 reason |-> "past_end_time"]
<1>1. /\ cmdq' = [cmdq EXCEPT ![Main] = @ \o <<c>>]
      /\ UNCHANGED <<now, mcuVars, rspq, trdispatchVars>>
  BY DEF PastEndTime, Send
<1>2. c \in Command /\ c.op = "trsync_trigger"
  BY DEF Command, Reasons, Time
<1> HIDE DEF c
<1>3. /\ cmdq[Main] \in Seq(Command)
      /\ cmdq'[Main] = cmdq[Main] \o <<c>>
      /\ cmdq'[Main] \in Seq(Command)
  BY <1>1, <1>2
<1>4. TypeOK'
  BY <1>1, <1>3
<1>5. ASSUME NEW o \in Mcus
      PROVE  /\ SetTimeouts(o)' = SetTimeouts(o)
             /\ \A i \in SetTimeouts(o) : cmdq'[o][i] = cmdq[o][i]
  <2>1. CASE o = Main
    <3>1. /\ DOMAIN cmdq[Main] = 1..Len(cmdq[Main]) /\ Len(cmdq[Main]) \in Nat
          /\ DOMAIN cmdq'[Main] = 1..(Len(cmdq[Main]) + 1)
          /\ \A i \in DOMAIN cmdq[Main] : cmdq'[Main][i] = cmdq[Main][i]
          /\ cmdq'[Main][Len(cmdq[Main]) + 1] = c
      <4>1. cmdq[Main] \in Seq(Command) /\ cmdq'[Main] = Append(cmdq[Main], c)
        BY <1>2, <1>3
      <4> HIDE DEF TimeoutsInv
      <4> QED BY <1>2, <4>1, AppendProps
    <3> QED BY <1>2, <2>1, <3>1 DEF SetTimeouts
  <2>2. CASE o # Main
    BY <1>1, <2>2 DEF SetTimeouts
  <2> QED BY <2>1, <2>2
<1>6. TimeoutsAscend'
  <2>1. TimeoutsAscend /\ UNCHANGED <<expire_time, expire_clock>>
    BY <1>1
  <2> HIDE DEF TimeoutsInv
  <2> QED BY <1>5, <2>1 DEF TimeoutsAscend
<1>7. ReportsSound' /\ TimeoutsJustified' /\ TimeoutSet'
  BY <1>1 DEF ReportsSound, GoodReports, NotTriggeredAt, TimeoutsJustified, TimeoutSet
<1> QED BY <1>1, <1>4, <1>6, <1>7

-----------------------------------------------------------------------------
(* handle_trsync_state *)

(* A later report of m does not make anybody's timeout shorter, and the new
   timeout counts from a report of each of the others. *)
LEMMA NewTimeouts ==
  ASSUME TypeOK, TimeoutsJustified, NEW m \in Mcus,
         NEW status \in [Mcus -> Nat],
         \A o \in Mcus : last_status_clock[o] <= status[o],
         NEW o \in Mcus
  PROVE  /\ StatusTime(status, o) + ExpireTicks \in Nat
         /\ expire_clock[o] <= StatusTime(status, o) + ExpireTicks
         /\ \A i \in Others(o) : StatusTime(status, o) <= status[i]
<1>1. /\ StatusTime(status, o) \in Nat
      /\ \A i \in Others(o) : StatusTime(status, o) <= status[i]
      /\ \E i \in Others(o) : StatusTime(status, o) = status[i]
  BY StatusTimeIsOldest
<1>2. PICK i \in Others(o) : StatusTime(status, o) = status[i]
  BY <1>1
<1>3. /\ expire_clock[o] <= last_status_clock[i] + ExpireTicks
      /\ last_status_clock[i] <= status[i]
  BY <1>2, OthersExist DEF TimeoutsJustified
<1>4. /\ expire_clock[o] \in Nat /\ last_status_clock[i] \in Nat
      /\ status[i] \in Nat /\ ExpireTicks \in Nat
  BY <1>2, OthersExist, ExpireAssumption DEF TypeOK, TrDispatchTypeOK
<1> QED BY <1>1, <1>2, <1>3, <1>4

(* What is added to the queue of commands is no timeout, or not before any
   of those under way. *)
LEMMA TimeoutsAscendAfterSend ==
  ASSUME TypeOK, TypeOK', TimeoutsAscend, TimeoutsJustified, 
         UNCHANGED expire_time, NEW e \in [Mcus -> Command],
         \A o \in Mcus : expire_clock[o] <= expire_clock'[o],
         \A o \in Mcus : \/ cmdq'[o] = cmdq[o]
                         \/ /\ cmdq'[o] = Append(cmdq[o], e[o])
                            /\ e[o].op = "trsync_set_timeout" =>
                                 e[o].clock = expire_clock'[o]
  PROVE  TimeoutsAscend'
<1>1. ASSUME NEW o \in Mcus
      PROVE  /\ expire_time[o] \in Int /\ expire_clock[o] \in Int
             /\ expire_clock'[o] \in Int
             /\ expire_time[o] <= expire_clock[o] /\ expire_clock[o] <= expire_clock'[o]
  BY SMTT(30) DEF TypeOK, McuTypeOK, TrDispatchTypeOK, TimeoutsJustified, Time, Never
<1>2. ASSUME NEW o \in Mcus, NEW i \in SetTimeouts(o)'
      PROVE  /\ cmdq'[o][i].clock >= expire_time[o]
             /\ cmdq'[o][i].clock <= expire_clock'[o]
             /\ \A j \in SetTimeouts(o)' : i < j =>
                  cmdq'[o][i].clock <= cmdq'[o][j].clock
  <2>1. ASSUME NEW j \in SetTimeouts(o)
        PROVE  /\ cmdq[o][j].clock \in Int
               /\ cmdq[o][j].clock >= expire_time[o]
               /\ cmdq[o][j].clock <= expire_clock[o]
               /\ \A k \in SetTimeouts(o) : j < k => cmdq[o][j].clock <= cmdq[o][k].clock
    BY MessageTypes DEF SetTimeouts, TimeoutsAscend
  <2>2. CASE cmdq'[o] = cmdq[o]
    <3>1. SetTimeouts(o)' = SetTimeouts(o)
      BY <2>2 DEF SetTimeouts
    <3> QED BY <1>1, <1>2, <2>1, <2>2, <3>1
  <2>3. CASE /\ cmdq'[o] = Append(cmdq[o], e[o])
             /\ e[o].op = "trsync_set_timeout" => e[o].clock = expire_clock'[o]
    <3>1. /\ DOMAIN cmdq[o] = 1..Len(cmdq[o]) /\ Len(cmdq[o]) \in Nat
          /\ DOMAIN cmdq'[o] = 1..(Len(cmdq[o]) + 1)
          /\ \A k \in DOMAIN cmdq[o] : cmdq'[o][k] = cmdq[o][k]
          /\ cmdq'[o][Len(cmdq[o]) + 1] = e[o]
      <4>1. cmdq[o] \in Seq(Command) /\ e[o] \in Command
        BY DEF TypeOK, McuTypeOK
      <4> QED BY <2>3, <4>1, AppendProps
    <3>2. ASSUME NEW j \in SetTimeouts(o)'
          PROVE  \/ j \in SetTimeouts(o) /\ cmdq'[o][j] = cmdq[o][j]
                    /\ j \in 1..Len(cmdq[o])
                 \/ j = Len(cmdq[o]) + 1 /\ cmdq'[o][j].clock = expire_clock'[o]
      BY <2>3, <3>1, <3>2 DEF SetTimeouts
    <3>3. CASE i \in SetTimeouts(o) /\ cmdq'[o][i] = cmdq[o][i]
      BY <1>1, <2>1, <3>2, <3>3
    <3>4. CASE i = Len(cmdq[o]) + 1 /\ cmdq'[o][i].clock = expire_clock'[o]
      BY <1>1, <3>1, <3>2, <3>4
    <3> QED BY <1>2, <3>2, <3>3, <3>4
  <2> QED BY <2>2, <2>3
<1> QED BY <1>2 DEF TimeoutsAscend

(* The host takes in the oldest response, and knows from then on what it
   says if it is a report that the trsync can trigger. *)
LEMMA ReportsSoundAfterInput ==
  ASSUME TypeOK, ReportsSound, NEW m \in Mcus, rspq[m] # <<>>,
         rspq' = [rspq EXCEPT ![m] = Tail(@)],
         UNCHANGED <<now, triggered_at>>,
         \/ UNCHANGED last_status_clock
         \/ /\ Head(rspq[m]).can_trigger
            /\ last_status_clock' = [last_status_clock EXCEPT ![m] = Head(rspq[m]).clock]
  PROVE  ReportsSound'
<1>1. /\ Head(rspq[m]) = rspq[m][1] /\ 1 \in DOMAIN rspq[m]
      /\ DOMAIN rspq[m] = 1..Len(rspq[m]) /\ Len(rspq[m]) \in Nat
      /\ DOMAIN rspq'[m] = 1..(Len(rspq[m]) - 1)
      /\ \A i \in DOMAIN rspq'[m] :
           i + 1 \in DOMAIN rspq[m] /\ rspq'[m][i] = rspq[m][i+1]
  <2>1. rspq[m] \in Seq(Response) /\ rspq'[m] = Tail(rspq[m])
    BY DEF TypeOK, McuTypeOK
  <2> DEFINE q == rspq[m]
  <2>2. q \in Seq(Response) /\ q # <<>>
    BY <2>1
  <2> HIDE DEF q
  <2>3. /\ Head(q) = q[1] /\ 1 \in DOMAIN q
        /\ DOMAIN q = 1..Len(q) /\ Len(q) \in Nat
        /\ DOMAIN Tail(q) = 1..(Len(q) - 1)
        /\ \A i \in DOMAIN Tail(q) : i + 1 \in DOMAIN q /\ Tail(q)[i] = q[i+1]
    BY <2>2, TailProps
  <2> QED BY <2>1, <2>3 DEF q
<1>2. ASSUME NEW i \in GoodReports(m)'
      PROVE  i + 1 \in GoodReports(m) /\ rspq'[m][i] = rspq[m][i+1] /\ i \in Nat \ {0}
  BY <1>1, <1>2 DEF GoodReports
<1>3. ASSUME NEW o \in Mcus \ {m}
      PROVE  /\ GoodReports(o)' = GoodReports(o) /\ rspq'[o] = rspq[o]
             /\ last_status_clock'[o] = last_status_clock[o]
  BY <1>3 DEF GoodReports, TypeOK, TrDispatchTypeOK
<1>4. ASSUME NEW o \in Mcus, NEW t, NotTriggeredAt(o, t)
      PROVE  0 <= t /\ t <= now' /\ (triggered_at'[o] # Never => t <= triggered_at'[o])
  BY <1>4 DEF NotTriggeredAt
<1>5. ASSUME NEW o \in Mcus \ {m}
      PROVE  /\ NotTriggeredAt(o, last_status_clock[o])'
             /\ \A i \in GoodReports(o)' :
                  /\ NotTriggeredAt(o, rspq[o][i].clock)'
                  /\ last_status_clock'[o] <= rspq'[o][i].clock
                  /\ \A j \in GoodReports(o)' : i < j => rspq'[o][i].clock <= rspq'[o][j].clock
  BY <1>3, <1>5 DEF ReportsSound, NotTriggeredAt
<1>6. \/ last_status_clock'[m] = last_status_clock[m]
      \/ 1 \in GoodReports(m) /\ last_status_clock'[m] = rspq[m][1].clock
  BY <1>1 DEF GoodReports, TypeOK, TrDispatchTypeOK
<1>7. ASSUME NEW i \in GoodReports(m)
      PROVE  /\ NotTriggeredAt(m, rspq[m][i].clock)
             /\ last_status_clock[m] <= rspq[m][i].clock
             /\ \A j \in GoodReports(m) : i < j => rspq[m][i].clock <= rspq[m][j].clock
  BY <1>7 DEF ReportsSound
<1>8. NotTriggeredAt(m, last_status_clock[m])
  BY DEF ReportsSound
<1>9. NotTriggeredAt(m, last_status_clock[m])'
  BY <1>4, <1>6, <1>7, <1>8 DEF NotTriggeredAt
<1>10. ASSUME NEW i \in GoodReports(m)'
       PROVE  /\ NotTriggeredAt(m, rspq[m][i].clock)'
              /\ last_status_clock'[m] <= rspq'[m][i].clock
              /\ \A j \in GoodReports(m)' : i < j => rspq'[m][i].clock <= rspq'[m][j].clock
  <2>1. NotTriggeredAt(m, rspq[m][i].clock)'
    BY <1>2, <1>4, <1>7, <1>10 DEF NotTriggeredAt
  <2>2. last_status_clock'[m] <= rspq'[m][i].clock
    <3>1. 1 < i + 1
      BY <1>2, <1>10
    <3> QED BY <1>2, <1>6, <1>7, <1>10, <3>1
  <2>3. ASSUME NEW j \in GoodReports(m)', i < j
        PROVE  rspq'[m][i].clock <= rspq'[m][j].clock
    <3>1. i + 1 < j + 1
      BY <1>2, <1>10, <2>3
    <3> QED BY <1>2, <1>7, <1>10, <2>3, <3>1
  <2> QED BY <2>1, <2>2, <2>3
<1> QED BY <1>5, <1>9, <1>10 DEF ReportsSound

LEMMA SerialInputInv ==
  ASSUME TimeoutsInv, NEW m \in Mcus, SerialInput(m), UNCHANGED prompt
  PROVE  TimeoutsInv'
<1> DEFINE r == Head(rspq[m])
           status == [last_status_clock EXCEPT ![m] = r.clock]
           Expire(o) == StatusTime(status, o) + ExpireTicks
           extended == {o \in Mcus : Extends(Expire(o), expire_clock[o])}
           Msg(op, clock) == [op |-> op, clock |-> clock, round |-> r.round,
                              reason |-> IF op = "trsync_trigger"
                                         THEN "host_request" ELSE "none"]
<1>1. /\ rspq[m] # <<>>
      /\ rspq' = [rspq EXCEPT ![m] = Tail(@)]
      /\ handle_trsync_state(r, m)
      /\ UNCHANGED <<now, mcuVars, fastreaders, dispatching, prompt>>
  BY DEF SerialInput
<1>2. TypeOK /\ TimeoutsAscend /\ ReportsSound /\ TimeoutsJustified /\ TimeoutSet
  BY DEF TimeoutsInv
<1>3. /\ r = rspq[m][1] /\ r \in Response /\ 1 \in DOMAIN rspq[m]
      /\ Tail(rspq[m]) \in Seq(Response)
  <2>1. rspq[m] \in Seq(Response)
    BY <1>2 DEF TypeOK, McuTypeOK
  <2> QED BY <1>1, <2>1, TailProps
<1>4. r.round \in Nat /\ r.clock \in Int
  BY <1>3, MessageTypes, <1>2 DEF Response
<1>5. r.can_trigger => r.clock >= 0 /\ last_status_clock[m] <= r.clock
  <2>1. r.can_trigger => 1 \in GoodReports(m)
    BY <1>3 DEF GoodReports
  <2> QED BY <1>2, <1>3, <2>1 DEF ReportsSound, NotTriggeredAt
<1>6. UNCHANGED last_status_clock
      \/ (r.can_trigger /\ last_status_clock' = status)
  BY <1>1 DEF handle_trsync_state
<1>7. ReportsSound'
  <2>1. UNCHANGED <<now, triggered_at>>
    BY <1>1 DEF mcuVars
  <2> QED BY <1>1, <1>2, <1>6, <2>1, ReportsSoundAfterInput
<1>8. TimeoutSet'
  BY <1>1, <1>2 DEF TimeoutSet, mcuVars
<1>9. /\ McuTypeOK /\ prompt' \in BOOLEAN
      /\ last_status_clock \in [Mcus -> Nat] /\ expire_clock \in [Mcus -> Nat]
      /\ cmdq \in [Mcus -> Seq(Command)] /\ rspq' \in [Mcus -> Seq(Response)]
      /\ expire_time' = expire_time
  BY <1>1, <1>2, <1>3 DEF TypeOK, McuTypeOK, TrDispatchTypeOK, mcuVars
<1>10. ASSUME cmdq' \in [Mcus -> Seq(Command)], can_trigger' \in BOOLEAN,
              last_status_clock' \in [Mcus -> Nat], expire_clock' \in [Mcus -> Nat]
       PROVE  TypeOK'
  BY <1>1, <1>2, <1>9, <1>10 DEF TypeOK, McuTypeOK, TrDispatchTypeOK, mcuVars
<1>11. CASE ~can_trigger /\ UNCHANGED <<can_trigger, last_status_clock, expire_clock, cmdq>>
  <2>1. TypeOK'
    BY <1>2, <1>9, <1>10, <1>11 DEF TypeOK, TrDispatchTypeOK
  <2>2. TimeoutsAscend' /\ TimeoutsJustified'
    BY <1>2, <1>9, <1>11 DEF TimeoutsAscend, SetTimeouts, TimeoutsJustified
  <2> QED BY <1>7, <1>8, <2>1, <2>2 DEF TimeoutsInv
<1>12. CASE /\ can_trigger /\ ~r.can_trigger
            /\ can_trigger' = FALSE
            /\ cmdq' = [o \in Mcus |-> Append(cmdq[o], Msg("trsync_trigger", 0))]
            /\ UNCHANGED <<last_status_clock, expire_clock>>
  <2> DEFINE c == Msg("trsync_trigger", 0)
             e == [o \in Mcus |-> c]
  <2>1. c \in Command /\ c.op = "trsync_trigger"
    BY <1>4 DEF Command, Reasons, Time
  <2>2. cmdq' = [o \in Mcus |-> Append(cmdq[o], c)]
    BY <1>12
  <2> HIDE DEF c
  <2>3. cmdq' \in [Mcus -> Seq(Command)]
    BY <1>9, <2>1, <2>2
  <2>4. TypeOK'
    BY <1>9, <1>10, <1>12, <2>3
  <2>5. TimeoutsAscend'
    <3>1. e \in [Mcus -> Command] /\ \A o \in Mcus : e[o].op = "trsync_trigger"
      BY <2>1
    <3>2. \A o \in Mcus : cmdq'[o] = Append(cmdq[o], e[o])
      BY <2>2
    <3>3. \A o \in Mcus : expire_clock[o] <= expire_clock'[o]
      BY <1>9, <1>12
    <3> HIDE DEF e
    <3> QED BY <1>2, <1>9, <2>4, <3>1, <3>2, <3>3, TimeoutsAscendAfterSend
  <2>6. TimeoutsJustified'
    BY <1>2, <1>9, <1>12 DEF TimeoutsJustified
  <2> QED BY <1>7, <1>8, <2>4, <2>5, <2>6 DEF TimeoutsInv
<1>13. CASE /\ can_trigger /\ r.can_trigger
            /\ last_status_clock' = status
            /\ expire_clock' = [o \in Mcus |-> IF o \in extended THEN Expire(o)
                                               ELSE expire_clock[o]]
            /\ cmdq' = [o \in Mcus |->
                          IF o \in extended
                          THEN Append(cmdq[o], Msg("trsync_set_timeout", Expire(o)))
                          ELSE cmdq[o]]
            /\ can_trigger' = can_trigger
  <2> DEFINE e == [o \in Mcus |-> Msg("trsync_set_timeout", Expire(o))]
  <2>1. /\ status \in [Mcus -> Nat]
        /\ \A o \in Mcus : last_status_clock[o] <= status[o]
    BY <1>4, <1>5, <1>9, <1>13
  <2>2. ASSUME NEW o \in Mcus
        PROVE  /\ Expire(o) \in Nat
               /\ expire_clock[o] <= Expire(o)
               /\ \A i \in Others(o) : Expire(o) <= status[i] + ExpireTicks
    <3>1. /\ StatusTime(status, o) + ExpireTicks \in Nat
          /\ expire_clock[o] <= StatusTime(status, o) + ExpireTicks
          /\ \A i \in Others(o) : StatusTime(status, o) <= status[i]
      <4> HIDE DEF status
      <4> QED BY <1>2, <2>1, NewTimeouts
    <3>2. \A i \in Others(o) : status[i] \in Nat
      BY <2>1, OthersExist
    <3>3. StatusTime(status, o) \in Nat /\ ExpireTicks \in Nat
      <4> HIDE DEF status
      <4> QED BY <2>1, StatusTimeIsOldest, ExpireAssumption
    <3> HIDE DEF status
    <3> QED BY <3>1, <3>2, <3>3
  <2>3. \A o \in Mcus : Msg("trsync_set_timeout", Expire(o)) \in Command
    BY <1>4, <2>2 DEF Command, Reasons, Time
  <2>4. last_status_clock' = status
    BY <1>13
  <2> HIDE DEF status, Expire, extended
  <2>5. /\ expire_clock' \in [Mcus -> Nat]
        /\ \A o \in Mcus : /\ expire_clock[o] <= expire_clock'[o]
                           /\ expire_clock'[o] \in {expire_clock[o], Expire(o)}
    BY <1>9, <1>13, <2>2
  <2>6. cmdq' \in [Mcus -> Seq(Command)]
    <3> HIDE DEF Msg
    <3> QED BY <1>9, <1>13, <2>3
  <2>7. TypeOK'
    BY <1>2, <1>10, <1>13, <2>1, <2>4, <2>5, <2>6 DEF TypeOK, TrDispatchTypeOK
  <2>8. TimeoutsAscend'
    <3>1. e \in [Mcus -> Command] /\ \A o \in Mcus : e[o].clock = Expire(o)
      BY <2>3
    <3>2. \A o \in Mcus : \/ cmdq'[o] = cmdq[o]
                         \/ /\ cmdq'[o] = Append(cmdq[o], e[o])
                            /\ e[o].op = "trsync_set_timeout" =>
                                 e[o].clock = expire_clock'[o]
      BY <1>13, <3>1
    <3> HIDE DEF e
    <3> QED BY <1>2, <1>9, <2>5, <2>7, <3>1, <3>2, TimeoutsAscendAfterSend
  <2>9. TimeoutsJustified'
    <3>1. ASSUME NEW o \in Mcus
          PROVE  expire_time'[o] <= expire_clock'[o]
      <4>1. /\ expire_time[o] \in Int /\ expire_clock[o] \in Int
            /\ expire_clock'[o] \in Int /\ expire_time[o] <= expire_clock[o]
        BY SMTT(30), <1>2, <1>9, <2>5 DEF TimeoutsJustified, McuTypeOK, Time, Never
      <4> QED BY <1>9, <2>5, <4>1
    <3>2. ASSUME NEW o \in Mcus, NEW i \in Others(o)
          PROVE  expire_clock'[o] <= last_status_clock'[i] + ExpireTicks
      <4>1. /\ last_status_clock[i] <= status[i] /\ last_status_clock[i] \in Nat
            /\ status[i] \in Nat /\ ExpireTicks \in Nat /\ expire_clock[o] \in Nat
        BY <1>9, <2>1, OthersExist, ExpireAssumption
      <4>2. expire_clock[o] <= last_status_clock[i] + ExpireTicks
        BY <1>2 DEF TimeoutsJustified
      <4>3. expire_clock[o] <= status[i] + ExpireTicks
        BY <4>1, <4>2
      <4> QED BY <2>2, <2>4, <2>5, <4>3
    <3> QED BY <3>1, <3>2 DEF TimeoutsJustified
  <2> QED BY <1>7, <1>8, <2>7, <2>8, <2>9 DEF TimeoutsInv
<1> QED BY <1>1, <1>11, <1>12, <1>13 DEF handle_trsync_state

-----------------------------------------------------------------------------

LEMMA NextInv == TimeoutsInv /\ [Next]_vars => TimeoutsInv'
<1> SUFFICES ASSUME TimeoutsInv, [Next]_vars
             PROVE  TimeoutsInv'
  OBVIOUS
<1>1. CASE TimePasses /\ UNCHANGED prompt
  BY <1>1, TimePassesInv
<1>2. CASE EndstopEvent /\ UNCHANGED <<trdispatchVars, prompt>>
  BY <1>2, EndstopEventInv
<1>3. CASE PastEndTime /\ UNCHANGED prompt
  BY <1>3, PastEndTimeInv
<1>4. ASSUME NEW m \in Mcus, SerialInput(m), UNCHANGED prompt
      PROVE  TimeoutsInv'
  BY <1>4, SerialInputInv
<1>5. ASSUME NEW m \in Mcus, SetTimeout(m), UNCHANGED <<trdispatchVars, prompt>>
      PROVE  TimeoutsInv'
  BY <1>5, SetTimeoutInv
<1>6. ASSUME NEW m \in Mcus, TrsyncTrigger(m), UNCHANGED <<trdispatchVars, prompt>>
      PROVE  TimeoutsInv'
  BY <1>6, TrsyncTriggerInv
<1>7. ASSUME NEW m \in Mcus, ExpireEvent(m), UNCHANGED <<trdispatchVars, prompt>>
      PROVE  TimeoutsInv'
  BY <1>7, ExpireEventInv
<1>8. ASSUME NEW m \in Mcus, ReportEvent(m), UNCHANGED <<trdispatchVars, prompt>>
      PROVE  TimeoutsInv'
  BY <1>8, ReportEventInv
<1>9. ASSUME NEW m \in Mcus, ReportTask(m), UNCHANGED <<trdispatchVars, prompt>>
      PROVE  TimeoutsInv'
  BY <1>9, ReportTaskInv
<1>10. CASE UNCHANGED vars
  BY <1>10 DEF TimeoutsInv, TypeOK, McuTypeOK, TrDispatchTypeOK, TimeoutsAscend,
     SetTimeouts, ReportsSound, GoodReports, NotTriggeredAt, TimeoutsJustified,
     TimeoutSet, vars, mcuVars, linkVars, trdispatchVars
<1> QED
  BY <1>1, <1>2, <1>3, <1>4, <1>5, <1>6, <1>7, <1>8, <1>9, <1>10
     DEF Next, Deliver, Work

(***************************************************************************)
(* Timeouts only move forward and always count from times at which the     *)
(* other micro-controllers had not triggered, for any number of micro-     *)
(* controllers, any delays and any timing constants.                       *)
(***************************************************************************)
THEOREM Timeouts == Spec => []TimeoutsInv
  BY InitInv, NextInv, PTL DEF Spec

LEMMA InvStopsTogether == TimeoutsInv => StopsTogether
<1> SUFFICES ASSUME TimeoutsInv, NEW i \in Mcus, NEW j \in Mcus,
                    triggered_at[i] # Never, signal[j]
             PROVE  now <= triggered_at[i] + ExpireTicks
  BY DEF StopsTogether
<1>1. TypeOK /\ TimeoutSet /\ TimeoutsJustified /\ ReportsSound
  BY DEF TimeoutsInv
<1>2. i # j /\ expire_time[j] # Never /\ now <= expire_time[j]
  BY <1>1 DEF TimeoutSet
<1>3. i \in Others(j)
  BY <1>2 DEF Others
<1>4. expire_time[j] <= expire_clock[j]
      /\ expire_clock[j] <= last_status_clock[i] + ExpireTicks
  BY <1>1, <1>3 DEF TimeoutsJustified
<1>5. last_status_clock[i] <= triggered_at[i]
  BY <1>1 DEF ReportsSound, NotTriggeredAt
<1>6. /\ now \in Int /\ expire_time[j] \in Int /\ expire_clock[j] \in Int
      /\ last_status_clock[i] \in Int /\ triggered_at[i] \in Int /\ ExpireTicks \in Int
  BY SMTT(30), <1>1, ExpireAssumption DEF TypeOK, McuTypeOK, TrDispatchTypeOK, Time, Never
<1> QED BY <1>2, <1>4, <1>5, <1>6

(***************************************************************************)
(* No micro-controller's steppers move on for longer than expire_ticks     *)
(* after the trsync of another one has triggered: what trdispatch.c and    *)
(* trsync.c guarantee together, however long messages take and however     *)
(* many micro-controllers take part.                                       *)
(***************************************************************************)
THEOREM SynchronisedStop == Spec => []StopsTogether
  BY Timeouts, InvStopsTogether, PTL

-----------------------------------------------------------------------------
(***************************************************************************)
(* Prompt messages.  While time does not pass before everything under way  *)
(* has arrived, the host's knowledge is never older than report_ticks, and *)
(* a timeout is never shorter than what follows from it by more than       *)
(* min_extend_ticks.                                                       *)
(***************************************************************************)

\* No timeout is due, and neither the reports nor the commands speak of one.
NothingDue ==
  \A m \in Mcus :
    /\ trigger_reason[m] # "comms_timeout"
    /\ \A i \in DOMAIN cmdq[m] : cmdq[m][i].reason # "comms_timeout"
    /\ expire_time[m] = Never \/ now < expire_time[m]

\* What a trsync that has triggered has to say is under way, or the host has
\* had its answer and has told the others, or is telling them.
TriggerKnown ==
  \A m \in Mcus :
    IF can_trigger
    THEN \/ "can_trigger" \in flags[m] \/ "report" \in flags[m]
         \/ \E i \in DOMAIN rspq[m] : ~rspq[m][i].can_trigger
    ELSE \/ expire_time[m] = Never
         \/ \E i \in DOMAIN cmdq[m] : cmdq[m][i].op = "trsync_trigger"

\* The report that was due last has arrived, is under way or will be made
\* before time passes.
ReportsCurrent ==
  can_trigger => \A m \in Mcus : "can_trigger" \in flags[m] =>
    /\ now <= report_time[m] /\ report_time[m] <= now + ReportTicks
    /\ \/ "report" \in flags[m]
       \/ last_status_clock[m] + ReportTicks >= report_time[m]
       \/ \E i \in GoodReports(m) : rspq[m][i].clock + ReportTicks >= report_time[m]

\* What the host has concluded has arrived or is under way, and it has left
\* out less than min_extend_ticks.
ExtensionsCurrent ==
  \A m \in Mcus :
    /\ "can_trigger" \in flags[m] =>
         \/ expire_time[m] = expire_clock[m]
         \/ \E i \in SetTimeouts(m) : cmdq[m][i].clock = expire_clock[m]
    /\ \E o \in Others(m) :
         last_status_clock[o] + ExpireTicks < expire_clock[m] + MinExtend

PromptInv ==
  prompt => NothingDue /\ TriggerKnown /\ ReportsCurrent /\ ExtensionsCurrent

\* The timing that mcu.py chooses: report_ticks is 0.3 and min_extend_ticks
\* 0.24 of expire_ticks.  No report is lost for want of room.
PromptTiming ==
  MaxLost = 0 /\ MinExtend >= 1 /\ ReportTicks + MinExtend <= ExpireTicks

(* The command that is carried out is the oldest one, the others move up. *)
LEMMA CommandTail ==
  ASSUME TypeOK, NEW m \in Mcus, cmdq[m] # <<>>,
         cmdq' = [cmdq EXCEPT ![m] = Tail(@)]
  PROVE  /\ Head(cmdq[m]) = cmdq[m][1] /\ Head(cmdq[m]) \in Command
         /\ 1 \in DOMAIN cmdq[m]
         /\ \A i \in DOMAIN cmdq[m] : i \in Nat \ {0}
         /\ \A i \in DOMAIN cmdq[m] : i # 1 =>
              i - 1 \in DOMAIN cmdq'[m] /\ cmdq'[m][i - 1] = cmdq[m][i]
         /\ \A i \in DOMAIN cmdq'[m] :
              i + 1 \in DOMAIN cmdq[m] /\ cmdq'[m][i] = cmdq[m][i+1]
         /\ \A o \in Mcus \ {m} : cmdq'[o] = cmdq[o]
<1> DEFINE q == cmdq[m]
<1>1. q \in Seq(Command) /\ q # <<>> /\ cmdq'[m] = Tail(q)
  BY DEF TypeOK, McuTypeOK
<1> HIDE DEF q
<1>2. /\ Head(q) = q[1] /\ q[1] \in Command /\ 1 \in DOMAIN q
      /\ DOMAIN q = 1..Len(q) /\ Len(q) \in Nat
      /\ DOMAIN Tail(q) = 1..(Len(q) - 1)
      /\ \A i \in DOMAIN Tail(q) : i + 1 \in DOMAIN q /\ Tail(q)[i] = q[i+1]
  BY <1>1, TailProps
<1>3. \A i \in DOMAIN q : i # 1 => i - 1 \in DOMAIN Tail(q) /\ Tail(q)[i-1] = q[i]
  BY <1>2
<1>4. \A i \in DOMAIN q : i \in Nat \ {0}
  BY <1>2
<1>5. \A o \in Mcus \ {m} : cmdq'[o] = cmdq[o]
  BY DEF TypeOK, McuTypeOK
<1> QED BY <1>1, <1>2, <1>3, <1>4, <1>5 DEF q

(* A report for which there is room is under way, behind the others. *)
LEMMA ReportSent ==
  ASSUME NEW m \in Mcus, NEW more \in Seq(Response), NEW r \in Response,
         rspq \in [Mcus -> Seq(Response)],
         rspq' = [rspq EXCEPT ![m] = @ \o <<r>> \o more]
  PROVE  /\ \A o \in Mcus : \A i \in DOMAIN rspq[o] :
              i \in DOMAIN rspq'[o] /\ rspq'[o][i] = rspq[o][i]
         /\ Len(rspq[m]) + 1 \in DOMAIN rspq'[m]
         /\ rspq'[m][Len(rspq[m]) + 1] = r
<1> DEFINE q == rspq[m] \o <<r>>
<1>1. rspq'[m] = q \o more
  OBVIOUS
<1>2. /\ q \in Seq(Response) /\ Len(rspq[m]) + 1 \in DOMAIN q
      /\ \A i \in DOMAIN rspq[m] : i \in DOMAIN q /\ q[i] = rspq[m][i]
      /\ q[Len(rspq[m]) + 1] = r
  OBVIOUS
<1> HIDE DEF q
<1>3. \A i \in DOMAIN q : i \in DOMAIN (q \o more) /\ (q \o more)[i] = q[i]
  BY <1>2
<1>4. \A o \in Mcus \ {m} : rspq'[o] = rspq[o]
  OBVIOUS
<1> QED BY <1>1, <1>2, <1>3, <1>4

LEMMA PromptInit == PromptTiming /\ Init => PromptInv
<1> SUFFICES ASSUME PromptTiming, Init PROVE PromptInv
  OBVIOUS
<1> USE TicksAssumption, ExpireAssumption
<1>1. NothingDue
  <2> SUFFICES ASSUME NEW m \in Mcus
               PROVE  /\ trigger_reason[m] # "comms_timeout"
                      /\ DOMAIN cmdq[m] = {}
                      /\ now < expire_time[m]
    BY DEF NothingDue
  <2> QED BY DEF Init
<1>2. TriggerKnown
  BY DEF Init, TriggerKnown
<1>3. ReportsCurrent
  <2>1. ASSUME NEW m \in Mcus
        PROVE  report_time[m] \in Nat /\ report_time[m] <= ReportTicks
    <3>1. FirstReport \union {0} \subseteq 0..ReportTicks
      BY SyncStopAssumption
    <3>2. report_time[m] \in FirstReport \union {0}
      BY DEF Init
    <3> QED BY <3>1, <3>2
  <2> QED BY <2>1 DEF Init, ReportsCurrent
<1>4. ExtensionsCurrent
  <2> SUFFICES ASSUME NEW m \in Mcus
               PROVE  /\ expire_time[m] = expire_clock[m]
                      /\ \E o \in Others(m) : last_status_clock[o] + ExpireTicks
                                             < expire_clock[m] + MinExtend
    BY DEF ExtensionsCurrent
  <2>1. PICK o \in Others(m) : o \in Mcus
    BY OthersExist
  <2> QED BY <2>1 DEF Init, PromptTiming
<1> QED BY <1>1, <1>2, <1>3, <1>4 DEF PromptInv

(* Time passes: everything has arrived, so that a timeout which is set is
   more than the interval of the reports ahead of the time. *)
LEMMA PromptTimePasses ==
  ASSUME PromptTiming, TimeoutsInv, PromptInv, prompt, prompt', TimePasses
  PROVE  PromptInv'
<1>1. TypeOK /\ TimeoutsAscend /\ ReportsSound /\ TimeoutsJustified /\ TimeoutSet
  BY DEF TimeoutsInv
<1>2. NothingDue /\ TriggerKnown /\ ReportsCurrent /\ ExtensionsCurrent
  BY DEF PromptInv
<1>3. /\ now' = now + 1 /\ now \in Nat
      /\ UNCHANGED <<mcuVars, linkVars, trdispatchVars>>
      /\ \A m \in Mcus : ~Due(report_time[m]) /\ ~Due(expire_time[m])
      /\ \A m \in Mcus : rspq[m] = <<>> /\ cmdq[m] = <<>> /\ "report" \notin flags[m]
  BY <1>1 DEF TimePasses, Tick, NothingLate, TypeOK, McuTypeOK
<1>4. ASSUME ~can_trigger, NEW m \in Mcus
      PROVE  expire_time[m] = Never
  BY <1>2, <1>3, <1>4 DEF TriggerKnown
<1>5. ASSUME can_trigger, NEW m \in Mcus
      PROVE  /\ "can_trigger" \in flags[m]
             /\ report_time[m] \in Int /\ now + 1 <= report_time[m]
             /\ last_status_clock[m] + ReportTicks >= report_time[m]
  <2>1. "can_trigger" \in flags[m]
    BY <1>2, <1>3, <1>5 DEF TriggerKnown
  <2>2. now <= report_time[m] /\ last_status_clock[m] + ReportTicks >= report_time[m]
    BY <1>2, <1>3, <1>5, <2>1 DEF ReportsCurrent, GoodReports
  <2>3. report_time[m] \in Int
    BY <1>1 DEF TypeOK, McuTypeOK, Time, Never
  <2> QED BY <1>3, <2>1, <2>2, <2>3 DEF Due, Never
<1>6. ASSUME can_trigger, NEW m \in Mcus
      PROVE  now + 1 < expire_time[m]
  <2>1. expire_time[m] = expire_clock[m]
    BY <1>2, <1>3, <1>5, <1>6 DEF ExtensionsCurrent, SetTimeouts
  <2>2. PICK o \in Others(m) :
               last_status_clock[o] + ExpireTicks < expire_clock[m] + MinExtend
    BY <1>2 DEF ExtensionsCurrent
  <2>3. o \in Mcus
    BY <2>2, OthersExist
  <2>4. /\ last_status_clock[o] \in Nat /\ expire_clock[m] \in Nat
        /\ ExpireTicks \in Nat /\ MinExtend \in Nat /\ ReportTicks \in Nat
    BY <1>1, <2>3, ExpireAssumption, TicksAssumption DEF TypeOK, TrDispatchTypeOK
  <2>5. now + 1 <= last_status_clock[o] + ReportTicks
    BY <1>3, <1>5, <1>6, <2>3, <2>4
  <2> QED BY <1>3, <2>1, <2>2, <2>4, <2>5 DEF PromptTiming
<1>7. NothingDue'
  BY <1>2, <1>3, <1>4, <1>6 DEF NothingDue, mcuVars, linkVars
<1>8. TriggerKnown'
  BY <1>2, <1>3 DEF TriggerKnown, mcuVars, linkVars, trdispatchVars
<1>9. ReportsCurrent'
  <2>1. can_trigger' = can_trigger
    BY <1>3 DEF trdispatchVars
  <2> SUFFICES ASSUME can_trigger, NEW m \in Mcus
               PROVE  /\ now' <= report_time'[m]
                      /\ report_time'[m] <= now' + ReportTicks
                      /\ last_status_clock'[m] + ReportTicks >= report_time'[m]
    BY <2>1 DEF ReportsCurrent
  <2>2. report_time[m] <= now + ReportTicks
    BY <1>2, <1>5 DEF ReportsCurrent
  <2>3. report_time[m] \in Int /\ ReportTicks \in Nat
    BY <1>5, TicksAssumption
  <2> QED BY <1>3, <1>5, <2>2, <2>3 DEF mcuVars, trdispatchVars
<1>10. ExtensionsCurrent'
  BY <1>2, <1>3 DEF ExtensionsCurrent, SetTimeouts, mcuVars, linkVars, trdispatchVars
<1> QED BY <1>7, <1>8, <1>9, <1>10 DEF PromptInv

(* While messages are prompt no timeout runs out. *)
LEMMA PromptExpireEvent ==
  ASSUME TimeoutsInv, PromptInv, prompt, NEW m \in Mcus, ExpireEvent(m)
  PROVE  FALSE
<1>1. expire_time[m] # Never /\ expire_time[m] <= now
  BY DEF ExpireEvent, Due
<1>2. now < expire_time[m]
  BY <1>1 DEF PromptInv, NothingDue
<1>3. now \in Int /\ expire_time[m] \in Int
  BY DEF TimeoutsInv, TypeOK, McuTypeOK, Time, Never
<1> QED BY <1>1, <1>2, <1>3

LEMMA PromptEndstopEvent ==
  ASSUME TimeoutsInv, PromptInv, prompt, EndstopEvent, UNCHANGED trdispatchVars
  PROVE  PromptInv'
<1>1. TypeOK /\ NothingDue /\ TriggerKnown /\ ReportsCurrent /\ ExtensionsCurrent
  BY DEF TimeoutsInv, PromptInv
<1>2. /\ trsync_do_trigger(Main, "endstop_hit")
      /\ flags' = [flags EXCEPT ![Main] = FlagsAfterTrigger(Main)]
      /\ UNCHANGED <<now, report_time, expire_time, cmdq, rspq>>
      /\ UNCHANGED <<can_trigger, last_status_clock, expire_clock>>
  BY DEF EndstopEvent, linkVars, trdispatchVars
<1>3. \A m \in Mcus : /\ "can_trigger" \in flags'[m] => "can_trigger" \in flags[m]
                      /\ "report" \in flags[m] => "report" \in flags'[m]
                      /\ "can_trigger" \in flags[m] =>
                           "can_trigger" \in flags'[m] \/ "report" \in flags'[m]
  BY <1>1, <1>2, McusAssumption DEF FlagsAfterTrigger, TypeOK, McuTypeOK
<1>4. \A m \in Mcus : trigger_reason'[m] \in {trigger_reason[m], "endstop_hit"}
  BY <1>1, <1>2 DEF trsync_do_trigger, TypeOK, McuTypeOK
<1>5. NothingDue'
  BY <1>1, <1>2, <1>4 DEF NothingDue
<1>6. TriggerKnown'
  BY <1>1, <1>2, <1>3 DEF TriggerKnown
<1>7. ReportsCurrent'
  BY <1>1, <1>2, <1>3 DEF ReportsCurrent, GoodReports
<1>8. ExtensionsCurrent'
  BY <1>1, <1>2, <1>3 DEF ExtensionsCurrent, SetTimeouts
<1> QED BY <1>5, <1>6, <1>7, <1>8 DEF PromptInv

(* The report that is due is made at the time it is due. *)
LEMMA PromptReportEvent ==
  ASSUME TimeoutsInv, PromptInv, prompt, NEW m \in Mcus, ReportEvent(m),
         UNCHANGED trdispatchVars
  PROVE  PromptInv'
<1>1. TypeOK /\ NothingDue /\ TriggerKnown /\ ReportsCurrent /\ ExtensionsCurrent
  BY DEF TimeoutsInv, PromptInv
<1>2. /\ report_time[m] # Never /\ report_time[m] <= now
      /\ report_time' = [report_time EXCEPT ![m] = @ + ReportTicks]
      /\ flags' = [flags EXCEPT ![m] = @ \union {"report"}]
      /\ UNCHANGED <<now, trigger_reason, expire_time, cmdq, rspq>>
      /\ UNCHANGED <<can_trigger, last_status_clock, expire_clock>>
  BY DEF ReportEvent, Due, linkVars, trdispatchVars
<1>3. \A o \in Mcus : /\ "can_trigger" \in flags'[o] <=> "can_trigger" \in flags[o]
                      /\ "report" \in flags[o] => "report" \in flags'[o]
                      /\ o # m => report_time'[o] = report_time[o]
  BY <1>1, <1>2 DEF TypeOK, McuTypeOK
<1>4. /\ "report" \in flags'[m] /\ report_time'[m] = report_time[m] + ReportTicks
      /\ report_time[m] \in Int /\ now \in Int
  BY <1>1, <1>2 DEF TypeOK, McuTypeOK, Time, Never
<1>5. NothingDue'
  BY <1>1, <1>2 DEF NothingDue
<1>6. TriggerKnown'
  BY <1>1, <1>2, <1>3 DEF TriggerKnown
<1>7. ReportsCurrent'
  <2> SUFFICES ASSUME can_trigger, NEW o \in Mcus, "can_trigger" \in flags[o]
               PROVE  /\ now <= report_time'[o] /\ report_time'[o] <= now + ReportTicks
                      /\ \/ "report" \in flags'[o]
                         \/ last_status_clock[o] + ReportTicks >= report_time'[o]
                         \/ \E i \in GoodReports(o) :
                              rspq[o][i].clock + ReportTicks >= report_time'[o]
    BY <1>2, <1>3 DEF ReportsCurrent, GoodReports
  <2>1. CASE o = m
    BY <1>1, <1>2, <1>4, <2>1, TicksAssumption DEF ReportsCurrent
  <2>2. CASE o # m
    BY <1>1, <1>3, <2>2 DEF ReportsCurrent
  <2> QED BY <2>1, <2>2
<1>8. ExtensionsCurrent'
  BY <1>1, <1>2, <1>3 DEF ExtensionsCurrent, SetTimeouts
<1> QED BY <1>5, <1>6, <1>7, <1>8 DEF PromptInv

(* The report is made with the time at which it is made. *)
LEMMA PromptReportTask ==
  ASSUME PromptTiming, TimeoutsInv, PromptInv, prompt, NEW m \in Mcus,
         ReportTask(m), UNCHANGED trdispatchVars
  PROVE  PromptInv'
<1> DEFINE can == "can_trigger" \in flags[m]
<1>1. TypeOK /\ NothingDue /\ TriggerKnown /\ ReportsCurrent /\ ExtensionsCurrent
  BY DEF TimeoutsInv, PromptInv
<1>2. /\ Report(m, <<>>, can, trigger_reason[m], now, homing[m])
      /\ flags' = [flags EXCEPT ![m] = @ \ {"report"}]
      /\ UNCHANGED <<now, trigger_reason, report_time, expire_time, cmdq>>
      /\ UNCHANGED <<can_trigger, last_status_clock, expire_clock>>
  BY DEF ReportTask, ReportClock, trdispatchVars
<1> DEFINE r == [ack |-> FALSE, can_trigger |-> can, trigger_reason |-> trigger_reason[m],
                 clock |-> now, round |-> homing[m]]
<1>3. /\ r \in Response /\ r.can_trigger = can /\ r.clock = now
      /\ rspq' = [rspq EXCEPT ![m] = @ \o <<r>> \o <<>>]
      /\ rspq \in [Mcus -> Seq(Response)]
  <2>1. r \in Response /\ r.can_trigger = can /\ r.clock = now
    BY <1>1 DEF Response, TypeOK, McuTypeOK, Time
  <2>2. ~(lost < MaxLost) /\ rspq \in [Mcus -> Seq(Response)]
    BY <1>1 DEF PromptTiming, TypeOK, McuTypeOK
  <2> QED BY <1>2, <2>1, <2>2 DEF Report
<1>4. /\ \A o \in Mcus : \A i \in DOMAIN rspq[o] :
           i \in DOMAIN rspq'[o] /\ rspq'[o][i] = rspq[o][i]
      /\ \E i \in DOMAIN rspq'[m] :
           (rspq'[m][i].can_trigger <=> can) /\ rspq'[m][i].clock = now
  <2>1. <<>> \in Seq(Response)
    OBVIOUS
  <2> HIDE DEF r, can
  <2>2. /\ \A o \in Mcus : \A i \in DOMAIN rspq[o] :
             i \in DOMAIN rspq'[o] /\ rspq'[o][i] = rspq[o][i]
        /\ Len(rspq[m]) + 1 \in DOMAIN rspq'[m]
        /\ rspq'[m][Len(rspq[m]) + 1] = r
    BY <1>3, <2>1, ReportSent
  <2> QED BY <1>3, <2>2
<1> HIDE DEF r
<1>5. \A o \in Mcus : /\ "can_trigger" \in flags'[o] <=> "can_trigger" \in flags[o]
                      /\ o # m => flags'[o] = flags[o]
  BY <1>1, <1>2 DEF TypeOK, McuTypeOK
<1>6. NothingDue'
  BY <1>1, <1>2 DEF NothingDue
<1>7. TriggerKnown'
  <2>1. can_trigger => \/ "can_trigger" \in flags'[m]
                       \/ \E i \in DOMAIN rspq'[m] : ~rspq'[m][i].can_trigger
    BY <1>4, <1>5
  <2>2. ASSUME can_trigger, NEW o \in Mcus \ {m}
        PROVE  \/ "can_trigger" \in flags'[o] \/ "report" \in flags'[o]
               \/ \E i \in DOMAIN rspq'[o] : ~rspq'[o][i].can_trigger
    BY <1>1, <1>4, <1>5, <2>2 DEF TriggerKnown
  <2>3. ASSUME ~can_trigger, NEW o \in Mcus
        PROVE  \/ expire_time'[o] = Never
               \/ \E i \in DOMAIN cmdq'[o] : cmdq'[o][i].op = "trsync_trigger"
    BY <1>1, <1>2, <2>3 DEF TriggerKnown
  <2> QED BY <1>2, <2>1, <2>2, <2>3 DEF TriggerKnown
<1>8. ReportsCurrent'
  <2>1. \A o \in Mcus : \A i \in GoodReports(o) :
          i \in GoodReports(o)' /\ rspq'[o][i] = rspq[o][i]
    BY <1>4 DEF GoodReports
  <2> SUFFICES ASSUME can_trigger, NEW o \in Mcus, "can_trigger" \in flags[o]
               PROVE  /\ now <= report_time[o] /\ report_time[o] <= now + ReportTicks
                      /\ \/ "report" \in flags'[o]
                         \/ last_status_clock[o] + ReportTicks >= report_time[o]
                         \/ \E i \in GoodReports(o)' :
                              rspq'[o][i].clock + ReportTicks >= report_time[o]
    BY <1>2, <1>5 DEF ReportsCurrent
  <2>2. now <= report_time[o] /\ report_time[o] <= now + ReportTicks
    BY <1>1 DEF ReportsCurrent
  <2>3. CASE o = m
    <3>1. PICK i \in GoodReports(m)' : rspq'[m][i].clock = now
      BY <1>4, <2>3 DEF GoodReports
    <3>2. now + ReportTicks >= report_time[o]
      BY <1>1, <2>2, TicksAssumption DEF TypeOK, McuTypeOK, Time, Never
    <3> QED BY <2>2, <2>3, <3>1, <3>2
  <2>4. CASE o # m
    BY <1>1, <1>5, <2>1, <2>2, <2>4 DEF ReportsCurrent
  <2> QED BY <2>3, <2>4
<1>9. ExtensionsCurrent'
  BY <1>1, <1>2, <1>5 DEF ExtensionsCurrent, SetTimeouts
<1> QED BY <1>6, <1>7, <1>8, <1>9 DEF PromptInv

LEMMA PromptSetTimeout ==
  ASSUME TimeoutsInv, PromptInv, prompt, NEW m \in Mcus, SetTimeout(m),
         UNCHANGED trdispatchVars
  PROVE  PromptInv'
<1> DEFINE c == Head(cmdq[m])
<1>1. /\ TypeOK /\ TimeoutsAscend /\ TimeoutSet
      /\ NothingDue /\ TriggerKnown /\ ReportsCurrent /\ ExtensionsCurrent
  BY DEF TimeoutsInv, PromptInv
<1>2. /\ cmdq[m] # <<>> /\ c.op = "trsync_set_timeout"
      /\ cmdq' = [cmdq EXCEPT ![m] = Tail(@)]
      /\ expire_time' = IF "can_trigger" \in flags[m]
                        THEN [expire_time EXCEPT ![m] = c.clock]
                        ELSE expire_time
      /\ UNCHANGED <<now, flags, trigger_reason, report_time, rspq>>
      /\ UNCHANGED <<can_trigger, last_status_clock, expire_clock>>
  BY DEF SetTimeout, NextCommand, Consume, trdispatchVars
<1>3. /\ c = cmdq[m][1] /\ c \in Command /\ 1 \in DOMAIN cmdq[m]
      /\ \A i \in DOMAIN cmdq[m] : i \in Nat \ {0}
      /\ \A i \in DOMAIN cmdq[m] : i # 1 =>
           i - 1 \in DOMAIN cmdq'[m] /\ cmdq'[m][i - 1] = cmdq[m][i]
      /\ \A i \in DOMAIN cmdq'[m] :
           i + 1 \in DOMAIN cmdq[m] /\ cmdq'[m][i] = cmdq[m][i+1]
      /\ \A o \in Mcus \ {m} : cmdq'[o] = cmdq[o]
  BY <1>1, <1>2, CommandTail
<1>4. 1 \in SetTimeouts(m)
  BY <1>2, <1>3 DEF SetTimeouts
<1>5. c.clock >= expire_time[m] /\ c.clock <= expire_clock[m] /\ c.clock \in Time
  BY <1>1, <1>3, <1>4 DEF TimeoutsAscend, Command
<1> HIDE DEF c
<1>6. /\ \A o \in Mcus : o # m => expire_time'[o] = expire_time[o]
      /\ "can_trigger" \in flags[m] => expire_time'[m] = c.clock
      /\ "can_trigger" \notin flags[m] => expire_time'[m] = expire_time[m]
      /\ now \in Int /\ expire_time[m] \in Int /\ expire_clock[m] \in Int
  BY <1>1, <1>2 DEF TypeOK, McuTypeOK, TrDispatchTypeOK, Time, Never
<1>7. NothingDue'
  <2>1. ASSUME NEW o \in Mcus
        PROVE  \A i \in DOMAIN cmdq'[o] : cmdq'[o][i].reason # "comms_timeout"
    BY <1>1, <1>3 DEF NothingDue
  <2>2. expire_time'[m] = Never \/ now < expire_time'[m]
    <3>1. CASE "can_trigger" \in flags[m]
      <4>1. now < expire_time[m]
        BY <1>1, <3>1 DEF NothingDue, TimeoutSet
      <4> QED BY <1>5, <1>6, <3>1, <4>1 DEF Time, Never
    <3>2. CASE "can_trigger" \notin flags[m]
      BY <1>1, <1>6, <3>2 DEF NothingDue
    <3> QED BY <3>1, <3>2
  <2> QED BY <1>1, <1>2, <1>6, <2>1, <2>2 DEF NothingDue
<1>8. TriggerKnown'
  <2>1. ASSUME ~can_trigger, NEW o \in Mcus
        PROVE  \/ expire_time'[o] = Never
               \/ \E i \in DOMAIN cmdq'[o] : cmdq'[o][i].op = "trsync_trigger"
    <3>1. CASE o # m
      BY <1>1, <1>3, <1>6, <2>1, <3>1 DEF TriggerKnown
    <3>2. CASE o = m /\ expire_time[m] = Never
      BY <1>1, <1>6, <3>2 DEF TimeoutSet
    <3>3. CASE o = m /\ \E i \in DOMAIN cmdq[m] : cmdq[m][i].op = "trsync_trigger"
      <4>1. PICK i \in DOMAIN cmdq[m] : cmdq[m][i].op = "trsync_trigger"
        BY <3>3
      <4>2. i # 1
        BY <1>2, <1>3, <4>1
      <4> QED BY <1>3, <3>3, <4>1, <4>2
    <3> QED BY <1>1, <2>1, <3>1, <3>2, <3>3 DEF TriggerKnown
  <2> QED BY <1>1, <1>2, <2>1 DEF TriggerKnown
<1>9. ReportsCurrent'
  BY <1>1, <1>2 DEF ReportsCurrent, GoodReports
<1>10. ExtensionsCurrent'
  <2>1. ASSUME NEW o \in Mcus \ {m}
        PROVE  SetTimeouts(o)' = SetTimeouts(o)
    BY <1>3, <2>1 DEF SetTimeouts
  <2>2. ASSUME NEW o \in Mcus, "can_trigger" \in flags[o]
        PROVE  \/ expire_time'[o] = expire_clock[o]
               \/ \E i \in SetTimeouts(o)' : cmdq'[o][i].clock = expire_clock[o]
    <3>1. CASE o # m
      BY <1>1, <1>3, <1>6, <2>1, <2>2, <3>1 DEF ExtensionsCurrent
    <3>2. CASE o = m /\ expire_time[m] = expire_clock[m]
      BY <1>5, <1>6, <2>2, <3>2 DEF Time, Never
    <3>3. CASE o = m /\ \E i \in SetTimeouts(m) : cmdq[m][i].clock = expire_clock[m]
      <4>1. PICK i \in SetTimeouts(m) : cmdq[m][i].clock = expire_clock[m]
        BY <3>3
      <4>2. CASE i = 1
        BY <1>3, <1>6, <2>2, <3>3, <4>1, <4>2
      <4>3. CASE i # 1
        <5>1. i - 1 \in SetTimeouts(m)' /\ cmdq'[m][i-1] = cmdq[m][i]
          BY <1>3, <4>1, <4>3 DEF SetTimeouts
        <5> QED BY <3>3, <4>1, <5>1
      <4> QED BY <4>2, <4>3
    <3> QED BY <1>1, <2>2, <3>1, <3>2, <3>3 DEF ExtensionsCurrent
  <2> QED BY <1>1, <1>2, <2>2 DEF ExtensionsCurrent
<1> QED BY <1>7, <1>8, <1>9, <1>10 DEF PromptInv

(* A trigger from the host is answered with a report that says so. *)
LEMMA PromptTrsyncTrigger ==
  ASSUME PromptTiming, TimeoutsInv, PromptInv, prompt, NEW m \in Mcus,
         TrsyncTrigger(m), UNCHANGED trdispatchVars
  PROVE  PromptInv'
<1> DEFINE c == Head(cmdq[m])
           ack == [ack |-> TRUE, can_trigger |-> FALSE, trigger_reason |-> "none",
                   clock |-> 0, round |-> c.round]
           more == IF c.op = "trsync_query" THEN <<ack>> ELSE <<>>
<1>1. /\ TypeOK /\ NothingDue /\ TriggerKnown /\ ReportsCurrent /\ ExtensionsCurrent
  BY DEF TimeoutsInv, PromptInv
<1>2. /\ cmdq[m] # <<>> /\ cmdq' = [cmdq EXCEPT ![m] = Tail(@)]
      /\ trsync_do_trigger(m, c.reason)
      /\ flags' = [flags EXCEPT ![m] = {}]
      /\ report_time' = [report_time EXCEPT ![m] = Never]
      /\ expire_time' = [expire_time EXCEPT ![m] = Never]
      /\ Report(m, more, FALSE, trigger_reason'[m], 0, c.round)
      /\ now' = now
      /\ UNCHANGED <<can_trigger, last_status_clock, expire_clock>>
  BY DEF TrsyncTrigger, NextCommand, Consume, trdispatchVars
<1>3. /\ c = cmdq[m][1] /\ c \in Command /\ 1 \in DOMAIN cmdq[m]
      /\ \A i \in DOMAIN cmdq'[m] :
           i + 1 \in DOMAIN cmdq[m] /\ cmdq'[m][i] = cmdq[m][i+1]
      /\ \A o \in Mcus \ {m} : cmdq'[o] = cmdq[o]
  BY <1>1, <1>2, CommandTail
<1>4. c.reason # "comms_timeout" /\ c.reason \in Reasons /\ c.round \in Nat
  BY <1>1, <1>3 DEF NothingDue, Command
<1>5. more \in Seq(Response)
  <2>1. ack \in Response
    BY <1>4 DEF Response, Reasons, Time
  <2> HIDE DEF ack
  <2> QED BY <2>1
<1> HIDE DEF c, more
<1>6. \A o \in Mcus : /\ trigger_reason'[o] \in {trigger_reason[o], c.reason}
                      /\ trigger_reason'[o] \in Reasons
  BY <1>1, <1>2, <1>4 DEF trsync_do_trigger, TypeOK, McuTypeOK
<1>7. /\ \A o \in Mcus : \A i \in DOMAIN rspq[o] :
           i \in DOMAIN rspq'[o] /\ rspq'[o][i] = rspq[o][i]
      /\ \E i \in DOMAIN rspq'[m] : ~rspq'[m][i].can_trigger
  <2> DEFINE r == [ack |-> FALSE, can_trigger |-> FALSE,
                   trigger_reason |-> trigger_reason'[m],
                   clock |-> 0, round |-> c.round]
  <2>1. ~(lost < MaxLost) /\ rspq \in [Mcus -> Seq(Response)]
    BY <1>1 DEF PromptTiming, TypeOK, McuTypeOK
  <2>2. r \in Response /\ ~r.can_trigger
    BY <1>4, <1>6 DEF Response, Time
  <2>3. rspq' = [rspq EXCEPT ![m] = @ \o <<r>> \o more]
    BY <1>2, <2>1 DEF Report
  <2> HIDE DEF r
  <2>4. /\ \A o \in Mcus : \A i \in DOMAIN rspq[o] :
             i \in DOMAIN rspq'[o] /\ rspq'[o][i] = rspq[o][i]
        /\ Len(rspq[m]) + 1 \in DOMAIN rspq'[m]
        /\ rspq'[m][Len(rspq[m]) + 1] = r
    BY <1>5, <2>1, <2>2, <2>3, ReportSent
  <2> QED BY <2>2, <2>4
<1>8. /\ flags'[m] = {} /\ expire_time'[m] = Never
      /\ \A o \in Mcus \ {m} : /\ flags'[o] = flags[o] /\ expire_time'[o] = expire_time[o]
                              /\ report_time'[o] = report_time[o]
  BY <1>1, <1>2 DEF TypeOK, McuTypeOK
<1>9. NothingDue'
  <2>1. ASSUME NEW o \in Mcus
        PROVE  \A i \in DOMAIN cmdq'[o] : cmdq'[o][i].reason # "comms_timeout"
    BY <1>1, <1>3 DEF NothingDue
  <2>2. \A o \in Mcus : expire_time'[o] = Never \/ now' < expire_time'[o]
    BY <1>1, <1>2, <1>8 DEF NothingDue
  <2>3. \A o \in Mcus : trigger_reason'[o] # "comms_timeout"
    BY <1>1, <1>4, <1>6 DEF NothingDue
  <2> QED BY <2>1, <2>2, <2>3 DEF NothingDue
<1>10. TriggerKnown'
  <2>1. ASSUME NEW o \in Mcus \ {m}
        PROVE  TriggerKnown => 
               IF can_trigger
               THEN \/ "can_trigger" \in flags'[o] \/ "report" \in flags'[o]
                    \/ \E i \in DOMAIN rspq'[o] : ~rspq'[o][i].can_trigger
               ELSE \/ expire_time'[o] = Never
                    \/ \E i \in DOMAIN cmdq'[o] : cmdq'[o][i].op = "trsync_trigger"
    BY <1>3, <1>7, <1>8, <2>1 DEF TriggerKnown
  <2>2. \E i \in DOMAIN rspq'[m] : ~rspq'[m][i].can_trigger
    BY <1>7
  <2> QED BY <1>1, <1>2, <1>8, <2>1, <2>2 DEF TriggerKnown
<1>11. ReportsCurrent'
  <2>1. \A o \in Mcus : \A i \in GoodReports(o) :
          i \in GoodReports(o)' /\ rspq'[o][i] = rspq[o][i]
    BY <1>7 DEF GoodReports
  <2> SUFFICES ASSUME can_trigger, NEW o \in Mcus \ {m}, "can_trigger" \in flags[o]
               PROVE  /\ now <= report_time[o] /\ report_time[o] <= now + ReportTicks
                      /\ \/ "report" \in flags[o]
                         \/ last_status_clock[o] + ReportTicks >= report_time[o]
                         \/ \E i \in GoodReports(o)' :
                              rspq'[o][i].clock + ReportTicks >= report_time[o]
    BY <1>2, <1>8 DEF ReportsCurrent
  <2> QED BY <1>1, <2>1 DEF ReportsCurrent
<1>12. ExtensionsCurrent'
  <2>1. ASSUME NEW o \in Mcus \ {m}
        PROVE  SetTimeouts(o)' = SetTimeouts(o)
    BY <1>3, <2>1 DEF SetTimeouts
  <2>2. ASSUME NEW o \in Mcus, "can_trigger" \in flags'[o]
        PROVE  \/ expire_time'[o] = expire_clock[o]
               \/ \E i \in SetTimeouts(o)' : cmdq'[o][i].clock = expire_clock[o]
    <3>1. o # m
      BY <1>8, <2>2
    <3> QED BY <1>1, <1>3, <1>8, <2>1, <2>2, <3>1 DEF ExtensionsCurrent
  <2> QED BY <1>1, <1>2, <2>2 DEF ExtensionsCurrent
<1> QED BY <1>9, <1>10, <1>11, <1>12 DEF PromptInv

(* A command that is put into a queue leaves those before it as they are. *)
LEMMA CommandAppend ==
  ASSUME TypeOK, NEW m \in Mcus, NEW c \in Command, cmdq'[m] = Append(cmdq[m], c)
  PROVE  /\ \A i \in DOMAIN cmdq[m] : i \in DOMAIN cmdq'[m] /\ cmdq'[m][i] = cmdq[m][i]
         /\ \A i \in DOMAIN cmdq'[m] :
              i \in DOMAIN cmdq[m] \/ cmdq'[m][i] = c
         /\ \E i \in DOMAIN cmdq'[m] : cmdq'[m][i] = c
<1> DEFINE q == cmdq[m]
<1>1. q \in Seq(Command) /\ cmdq'[m] = Append(q, c)
  BY DEF TypeOK, McuTypeOK
<1> HIDE DEF q
<1>2. /\ DOMAIN q = 1..Len(q) /\ Len(q) \in Nat
      /\ DOMAIN Append(q, c) = 1..(Len(q) + 1)
      /\ \A i \in DOMAIN q : Append(q, c)[i] = q[i]
      /\ Append(q, c)[Len(q) + 1] = c
  BY <1>1, AppendProps
<1>3. \A i \in DOMAIN Append(q, c) : i \in DOMAIN q \/ i = Len(q) + 1
  BY <1>2
<1>4. Len(q) + 1 \in DOMAIN Append(q, c)
  BY <1>2
<1> QED BY <1>1, <1>2, <1>3, <1>4 DEF q

LEMMA PromptPastEndTime ==
  ASSUME TimeoutsInv, PromptInv, prompt, PastEndTime
  PROVE  PromptInv'
<1> DEFINE c == [op |-> "trsync_trigger", clock |-> 0, round |-> 1,
                 reason |-> "past_end_time"]
<1>1. TypeOK /\ NothingDue /\ TriggerKnown /\ ReportsCurrent /\ ExtensionsCurrent
  BY DEF TimeoutsInv, PromptInv
<1>2. /\ cmdq' = [cmdq EXCEPT ![Main] = @ \o <<c>>]
      /\ UNCHANGED <<now, flags, trigger_reason, report_time, expire_time, rspq>>
      /\ UNCHANGED <<can_trigger, last_status_clock, expire_clock>>
  BY DEF PastEndTime, Send, mcuVars, trdispatchVars
<1>3. c \in Command /\ c.reason # "comms_timeout"
  BY DEF Command, Reasons, Time
<1> HIDE DEF c
<1>4. /\ cmdq'[Main] = Append(cmdq[Main], c)
      /\ \A o \in Mcus \ {Main} : cmdq'[o] = cmdq[o]
  BY <1>1, <1>2, <1>3, McusAssumption DEF TypeOK, McuTypeOK
<1>5. \A o \in Mcus : /\ \A i \in DOMAIN cmdq[o] :
                          i \in DOMAIN cmdq'[o] /\ cmdq'[o][i] = cmdq[o][i]
                      /\ \A i \in DOMAIN cmdq'[o] :
                          i \in DOMAIN cmdq[o] \/ cmdq'[o][i] = c
  BY <1>1, <1>3, <1>4, CommandAppend, McusAssumption
<1>6. NothingDue'
  BY <1>1, <1>2, <1>3, <1>5 DEF NothingDue
<1>7. TriggerKnown'
  BY <1>1, <1>2, <1>5 DEF TriggerKnown
<1>8. ReportsCurrent'
  BY <1>1, <1>2 DEF ReportsCurrent, GoodReports
<1>9. ExtensionsCurrent'
  <2>1. \A o \in Mcus : \A i \in SetTimeouts(o) :
          i \in SetTimeouts(o)' /\ cmdq'[o][i] = cmdq[o][i]
    BY <1>5 DEF SetTimeouts
  <2> QED BY <1>1, <1>2, <2>1 DEF ExtensionsCurrent
<1> QED BY <1>6, <1>7, <1>8, <1>9 DEF PromptInv

(* The host takes in a report at the time at which it was made, and what it
   concludes is under way at that time, except for extensions that are
   shorter than min_extend_ticks. *)
LEMMA PromptSerialInput ==
  ASSUME PromptTiming, TimeoutsInv, PromptInv, prompt, NEW m \in Mcus, SerialInput(m)
  PROVE  PromptInv'
<1> DEFINE r == Head(rspq[m])
           status == [last_status_clock EXCEPT ![m] = r.clock]
           Expire(o) == StatusTime(status, o) + ExpireTicks
           extended == {o \in Mcus : Extends(Expire(o), expire_clock[o])}
           Msg(op, clock) == [op |-> op, clock |-> clock, round |-> r.round,
                              reason |-> IF op = "trsync_trigger"
                                         THEN "host_request" ELSE "none"]
<1>1. /\ TypeOK /\ ReportsSound /\ TimeoutsJustified
      /\ NothingDue /\ TriggerKnown /\ ReportsCurrent /\ ExtensionsCurrent
  BY DEF TimeoutsInv, PromptInv
<1>2. /\ rspq[m] # <<>> /\ rspq' = [rspq EXCEPT ![m] = Tail(@)]
      /\ handle_trsync_state(r, m)
      /\ UNCHANGED <<now, flags, trigger_reason, report_time, expire_time>>
  BY DEF SerialInput, mcuVars
<1>3. /\ r = rspq[m][1] /\ r \in Response /\ 1 \in DOMAIN rspq[m]
      /\ \A i \in DOMAIN rspq[m] : i # 1 =>
           i - 1 \in DOMAIN rspq'[m] /\ rspq'[m][i - 1] = rspq[m][i]
      /\ \A o \in Mcus \ {m} : rspq'[o] = rspq[o]
  <2> DEFINE q == rspq[m]
  <2>1. q \in Seq(Response) /\ q # <<>> /\ rspq'[m] = Tail(q)
    BY <1>1, <1>2 DEF TypeOK, McuTypeOK
  <2> HIDE DEF q
  <2>2. /\ Head(q) = q[1] /\ q[1] \in Response /\ 1 \in DOMAIN q
        /\ DOMAIN q = 1..Len(q) /\ Len(q) \in Nat
        /\ DOMAIN Tail(q) = 1..(Len(q) - 1)
        /\ \A i \in DOMAIN Tail(q) : i + 1 \in DOMAIN q /\ Tail(q)[i] = q[i+1]
    BY <2>1, TailProps
  <2>3. \A i \in DOMAIN q : i # 1 => i - 1 \in DOMAIN Tail(q) /\ Tail(q)[i-1] = q[i]
    BY <2>2
  <2>4. \A o \in Mcus \ {m} : rspq'[o] = rspq[o]
    BY <1>1, <1>2 DEF TypeOK, McuTypeOK
  <2> QED BY <2>1, <2>2, <2>3, <2>4 DEF q
<1>4. r.round \in Nat /\ r.clock \in Int
  BY <1>1, <1>3, MessageTypes DEF Response
<1>5. r.can_trigger => r.clock >= 0 /\ last_status_clock[m] <= r.clock
  <2>1. r.can_trigger => 1 \in GoodReports(m)
    BY <1>3 DEF GoodReports
  <2> QED BY <1>1, <1>3, <2>1 DEF ReportsSound, NotTriggeredAt
<1>6. /\ last_status_clock \in [Mcus -> Nat] /\ expire_clock \in [Mcus -> Nat]
      /\ ExpireTicks \in Nat /\ MinExtend \in Nat /\ ReportTicks \in Nat
  BY <1>1, ExpireAssumption, TicksAssumption DEF TypeOK, TrDispatchTypeOK
<1>7. CASE ~can_trigger /\ UNCHANGED <<can_trigger, last_status_clock, expire_clock, cmdq>>
  BY <1>1, <1>2, <1>7 DEF PromptInv, NothingDue, TriggerKnown, ReportsCurrent,
     ExtensionsCurrent, SetTimeouts
<1>8. CASE /\ can_trigger /\ ~r.can_trigger
           /\ can_trigger' = FALSE
           /\ cmdq' = [o \in Mcus |-> Append(cmdq[o], Msg("trsync_trigger", 0))]
           /\ UNCHANGED <<last_status_clock, expire_clock>>
  <2> DEFINE c == Msg("trsync_trigger", 0)
  <2>1. c \in Command /\ c.op = "trsync_trigger" /\ c.reason # "comms_timeout"
    BY <1>4 DEF Command, Reasons, Time
  <2>2. \A o \in Mcus : cmdq'[o] = Append(cmdq[o], c)
    BY <1>8
  <2> HIDE DEF c
  <2>3. ASSUME NEW o \in Mcus
        PROVE  /\ \A i \in DOMAIN cmdq[o] :
                    i \in DOMAIN cmdq'[o] /\ cmdq'[o][i] = cmdq[o][i]
               /\ \A i \in DOMAIN cmdq'[o] :
                    i \in DOMAIN cmdq[o] \/ cmdq'[o][i] = c
               /\ \E i \in DOMAIN cmdq'[o] : cmdq'[o][i] = c
    BY <1>1, <2>1, <2>2, CommandAppend
  <2>4. NothingDue'
    BY <1>1, <1>2, <2>1, <2>3 DEF NothingDue
  <2>5. TriggerKnown'
    BY <1>8, <2>1, <2>3 DEF TriggerKnown
  <2>6. ReportsCurrent'
    BY <1>8 DEF ReportsCurrent
  <2>7. ExtensionsCurrent'
    <3>1. \A o \in Mcus : \A i \in SetTimeouts(o) :
            i \in SetTimeouts(o)' /\ cmdq'[o][i] = cmdq[o][i]
      BY <2>3 DEF SetTimeouts
    <3> QED BY ZenonT(30), <1>1, <1>2, <1>8, <3>1 DEF ExtensionsCurrent
  <2> QED BY <2>4, <2>5, <2>6, <2>7 DEF PromptInv
<1>9. CASE /\ can_trigger /\ r.can_trigger
           /\ last_status_clock' = status
           /\ expire_clock' = [o \in Mcus |-> IF o \in extended THEN Expire(o)
                                              ELSE expire_clock[o]]
           /\ cmdq' = [o \in Mcus |->
                         IF o \in extended
                         THEN Append(cmdq[o], Msg("trsync_set_timeout", Expire(o)))
                         ELSE cmdq[o]]
           /\ can_trigger' = can_trigger
  <2> DEFINE e == [o \in Mcus |-> Msg("trsync_set_timeout", Expire(o))]
  <2>1. /\ status \in [Mcus -> Nat] /\ status[m] = r.clock
        /\ \A o \in Mcus : last_status_clock[o] <= status[o]
    BY <1>4, <1>5, <1>6, <1>9
  <2>2. ASSUME NEW o \in Mcus
        PROVE  /\ Expire(o) \in Nat /\ expire_clock[o] <= Expire(o)
               /\ \E i \in Others(o) : Expire(o) = status[i] + ExpireTicks
    <3> HIDE DEF status
    <3>1. /\ StatusTime(status, o) + ExpireTicks \in Nat
          /\ expire_clock[o] <= StatusTime(status, o) + ExpireTicks
      BY <1>1, <2>1, NewTimeouts
    <3>2. \E i \in Others(o) : StatusTime(status, o) = status[i]
      BY <2>1, StatusTimeIsOldest
    <3> QED BY <3>1, <3>2
  <2>3. e \in [Mcus -> Command]
    BY <1>4, <2>2 DEF Command, Reasons, Time
  <2>4. \A o \in Mcus : /\ e[o].op = "trsync_set_timeout" /\ e[o].clock = Expire(o)
                        /\ e[o].reason # "comms_timeout"
    OBVIOUS
  <2>5. ASSUME NEW o \in Mcus, o \in extended
        PROVE  expire_clock'[o] = Expire(o) /\ cmdq'[o] = Append(cmdq[o], e[o])
    BY <1>9, <2>5
  <2>6. ASSUME NEW o \in Mcus, o \notin extended
        PROVE  /\ expire_clock'[o] = expire_clock[o] /\ cmdq'[o] = cmdq[o]
               /\ Expire(o) < expire_clock[o] + MinExtend
    <3>1. expire_clock'[o] = expire_clock[o] /\ cmdq'[o] = cmdq[o]
      BY <1>9, <2>6
    <3>2. ~Extends(Expire(o), expire_clock[o])
      BY <2>6
    <3>3. Expire(o) \in Nat
      BY <2>2
    <3> HIDE DEF Expire
    <3>4. Expire(o) \in Int /\ expire_clock[o] \in Int
      BY <1>6, <3>3 DEF Time
    <3>5. MinExtend \in Nat
      BY <1>6
    <3> QED BY <3>1, <3>2, <3>4, <3>5 DEF Extends
  <2>7. last_status_clock' = status
    BY <1>9
  <2> HIDE DEF status, Expire, extended, e, Msg
  <2>8. ASSUME NEW o \in Mcus
        PROVE  /\ \A i \in DOMAIN cmdq[o] :
                    i \in DOMAIN cmdq'[o] /\ cmdq'[o][i] = cmdq[o][i]
               /\ \A i \in DOMAIN cmdq'[o] :
                    i \in DOMAIN cmdq[o] \/ cmdq'[o][i] = e[o]
               /\ o \in extended => \E i \in DOMAIN cmdq'[o] : cmdq'[o][i] = e[o]
    <3>1. e[o] \in Command
      BY <2>3
    <3>2. CASE o \in extended
      BY <1>1, <2>5, <3>1, <3>2, CommandAppend
    <3>3. CASE o \notin extended
      BY <2>6, <3>3
    <3> QED BY <3>2, <3>3
  <2>9. NothingDue'
    BY <1>1, <1>2, <2>4, <2>8 DEF NothingDue
  <2>10. TriggerKnown'
    <3>1. ASSUME NEW o \in Mcus, NEW i \in DOMAIN rspq[o], ~rspq[o][i].can_trigger
          PROVE  \E j \in DOMAIN rspq'[o] : ~rspq'[o][j].can_trigger
      <4>1. CASE o = m
        <5>1. i # 1
          BY <1>3, <1>9, <3>1, <4>1
        <5> QED BY <1>3, <3>1, <4>1, <5>1
      <4>2. CASE o # m
        BY <1>3, <3>1, <4>2
      <4> QED BY <4>1, <4>2
    <3> QED BY <1>1, <1>2, <1>9, <3>1 DEF TriggerKnown
  <2>11. ReportsCurrent'
    <3> SUFFICES ASSUME NEW o \in Mcus, "can_trigger" \in flags[o]
                 PROVE  /\ now <= report_time[o] /\ report_time[o] <= now + ReportTicks
                        /\ \/ "report" \in flags[o]
                           \/ status[o] + ReportTicks >= report_time[o]
                           \/ \E i \in GoodReports(o)' :
                                rspq'[o][i].clock + ReportTicks >= report_time[o]
      BY <1>2, <2>7 DEF ReportsCurrent
    <3>1. /\ now <= report_time[o] /\ report_time[o] <= now + ReportTicks
          /\ \/ "report" \in flags[o]
             \/ last_status_clock[o] + ReportTicks >= report_time[o]
             \/ \E i \in GoodReports(o) : rspq[o][i].clock + ReportTicks >= report_time[o]
      BY <1>1, <1>9 DEF ReportsCurrent
    <3>2. CASE last_status_clock[o] + ReportTicks >= report_time[o]
      <4>1. last_status_clock[o] <= status[o] /\ status[o] \in Nat
            /\ last_status_clock[o] \in Nat /\ report_time[o] \in Int
        BY <1>1, <1>6, <2>1 DEF TypeOK, McuTypeOK, Time, Never
      <4> QED BY <1>6, <3>1, <3>2, <4>1
    <3>3. CASE \E i \in GoodReports(o) : rspq[o][i].clock + ReportTicks >= report_time[o]
      <4>1. PICK i \in GoodReports(o) : rspq[o][i].clock + ReportTicks >= report_time[o]
        BY <3>3
      <4>2. CASE o # m
        <5>1. i \in GoodReports(o)'
          BY <1>3, <4>2 DEF GoodReports
        <5> QED BY <1>3, <3>1, <4>1, <4>2, <5>1
      <4>3. CASE o = m /\ i = 1
        BY <1>3, <2>1, <3>1, <4>1, <4>3
      <4>4. CASE o = m /\ i # 1
        <5>1. i - 1 \in GoodReports(m)' /\ rspq'[m][i-1] = rspq[m][i]
          BY <1>3, <4>4 DEF GoodReports
        <5> QED BY <3>1, <4>1, <4>4, <5>1
      <4> QED BY <4>2, <4>3, <4>4
    <3> QED BY <3>1, <3>2, <3>3
  <2>12. ExtensionsCurrent'
    <3>1. ASSUME NEW o \in Mcus, "can_trigger" \in flags[o]
          PROVE  \/ expire_time[o] = expire_clock'[o]
                 \/ \E i \in SetTimeouts(o)' : cmdq'[o][i].clock = expire_clock'[o]
      <4>1. CASE o \in extended
        <5>1. PICK i \in DOMAIN cmdq'[o] : cmdq'[o][i] = e[o]
          BY <2>8, <4>1
        <5> QED BY <2>4, <2>5, <4>1, <5>1 DEF SetTimeouts
      <4>2. CASE o \notin extended
        <5>1. SetTimeouts(o)' = SetTimeouts(o)
          BY <2>6, <4>2 DEF SetTimeouts
        <5> QED BY <1>1, <2>6, <3>1, <4>2, <5>1 DEF ExtensionsCurrent
      <4> QED BY <4>1, <4>2
    <3>2. ASSUME NEW o \in Mcus
          PROVE  \E i \in Others(o) : status[i] + ExpireTicks < expire_clock'[o] + MinExtend
      <4>1. PICK i \in Others(o) : Expire(o) = status[i] + ExpireTicks
        BY <2>2
      <4>2. CASE o \in extended
        BY <1>6, <2>2, <2>5, <4>1, <4>2 DEF PromptTiming
      <4>3. CASE o \notin extended
        BY <2>6, <4>1, <4>3
      <4> QED BY <4>2, <4>3
    <3> QED BY <1>2, <2>7, <3>1, <3>2 DEF ExtensionsCurrent
  <2> QED BY <2>9, <2>10, <2>11, <2>12 DEF PromptInv
<1> QED BY <1>2, <1>7, <1>8, <1>9 DEF handle_trsync_state

LEMMA PromptNext ==
  PromptTiming /\ TimeoutsInv /\ PromptInv /\ [Next]_vars => PromptInv'
<1> SUFFICES ASSUME PromptTiming, TimeoutsInv, PromptInv, [Next]_vars, prompt'
             PROVE  PromptInv'
  BY DEF PromptInv
<1>0. prompt
  BY DEF Next, vars
<1>1. CASE TimePasses /\ UNCHANGED prompt
  BY <1>0, <1>1, PromptTimePasses
<1>2. CASE EndstopEvent /\ UNCHANGED <<trdispatchVars, prompt>>
  BY <1>0, <1>2, PromptEndstopEvent
<1>3. CASE PastEndTime /\ UNCHANGED prompt
  BY <1>0, <1>3, PromptPastEndTime
<1>4. ASSUME NEW m \in Mcus, SerialInput(m), UNCHANGED prompt
      PROVE  PromptInv'
  BY <1>0, <1>4, PromptSerialInput
<1>5. ASSUME NEW m \in Mcus, SetTimeout(m), UNCHANGED <<trdispatchVars, prompt>>
      PROVE  PromptInv'
  BY <1>0, <1>5, PromptSetTimeout
<1>6. ASSUME NEW m \in Mcus, TrsyncTrigger(m), UNCHANGED <<trdispatchVars, prompt>>
      PROVE  PromptInv'
  BY <1>0, <1>6, PromptTrsyncTrigger
<1>7. ASSUME NEW m \in Mcus, ExpireEvent(m), UNCHANGED <<trdispatchVars, prompt>>
      PROVE  PromptInv'
  BY <1>0, <1>7, PromptExpireEvent
<1>8. ASSUME NEW m \in Mcus, ReportEvent(m), UNCHANGED <<trdispatchVars, prompt>>
      PROVE  PromptInv'
  BY <1>0, <1>8, PromptReportEvent
<1>9. ASSUME NEW m \in Mcus, ReportTask(m), UNCHANGED <<trdispatchVars, prompt>>
      PROVE  PromptInv'
  BY <1>0, <1>9, PromptReportTask
<1>10. CASE UNCHANGED vars
  BY <1>10 DEF PromptInv, NothingDue, TriggerKnown, ReportsCurrent, GoodReports,
     ExtensionsCurrent, SetTimeouts, vars, mcuVars, linkVars, trdispatchVars
<1> QED
  BY <1>1, <1>2, <1>3, <1>4, <1>5, <1>6, <1>7, <1>8, <1>9, <1>10
     DEF Next, Deliver, Work

(***************************************************************************)
(* When messages are prompt and no report is lost, no trsync times out, if *)
(* only report_ticks and min_extend_ticks together are not more than       *)
(* expire_ticks: the margin that MCU_trsync.start leaves (0.3 and 0.24 of  *)
(* expire_ticks).                                                          *)
(***************************************************************************)
THEOREM NoTimeoutWhenPrompt ==
  ASSUME PromptTiming
  PROVE  Spec => []NoSpuriousTimeout
<1>1. Init => PromptInv
  BY PromptInit
<1>2. TimeoutsInv /\ PromptInv /\ [Next]_vars => PromptInv'
  BY PromptNext
<1>3. PromptInv => NoSpuriousTimeout
  BY DEF PromptInv, NothingDue, NoSpuriousTimeout
<1> QED BY <1>1, <1>2, <1>3, Timeouts, PTL DEF Spec

=============================================================================
