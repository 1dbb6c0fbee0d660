-------------------------- MODULE HeaterLoopProofs --------------------------
(***************************************************************************)
(* Proofs about HeaterLoop for any cycle time, limit, number of queue      *)
(* slots and times of the host that HostTiming admits: until a setting     *)
(* comes late the pin follows the settings it was sent, and whatever comes *)
(* late it is off max_duration after it took the last of them.  For a host *)
(* on time, with the limits of HostPunctual: it causes no shutdown, and it *)
(* gets a heater off that nobody wants on.                                 *)
(***************************************************************************)
EXTENDS HeaterLoop, FiniteSetTheorems, WellFoundedInduction, TLAPS

-----------------------------------------------------------------------------
(* The inductive invariant *)

(* The host's times, in seconds: ConnectDelay is the 0.200 of mcu.py,
   ReportTime the 0.300 of heaters.py, and a host takes longer than the tenth
   of a second between them to start again. *)
HostTiming ==
    ConnectDelay <= ReportTime /\ ReportTime <= RestartTime + ConnectDelay

Settings == [waketime : Nat, on_duration : Powers]
Commands == [setting : Settings, min_clock : Nat]
Pins == [active : BOOLEAN, func : {"load", "toggle"}, waketime : Nat,
         on_duration : Powers, off_duration : Powers, end_time : Nat,
         mq : Seq(Settings), on : BOOLEAN, toggling : BOOLEAN,
         check_end : BOOLEAN, level : BOOLEAN]

HostTypes ==
    /\ alive \in BOOLEAN /\ since \in Nat /\ target \in BOOLEAN
    /\ last_pwm_value \in Powers /\ next_pwm_time \in Nat /\ last_clock \in Nat
    /\ now \in 1..Horizon /\ reports \in Seq(Nat)

PinTypes ==
    /\ pin \in Pins /\ Len(pin.mq) <= Slots
    /\ wire \in Seq(Commands) /\ settings \in Seq(Settings)

(* last_clock is within ReportTime of now while the host runs and of its end
   when it does not, and no report on its way will ask for an earlier one. *)
HostInv ==
    /\ \A i, j \in 1..Len(reports) : i <= j => reports[i] <= reports[j]
    /\ \A i \in 1..Len(reports) :
          reports[i] <= now /\ last_clock <= reports[i] + ReportTime
    /\ since <= now
    /\ IF alive THEN last_clock <= now + ReportTime
       ELSE last_clock <= since + ReportTime /\ reports = <<>>

(* The host sends its settings in the order in which they take effect, and
   those of a new host after those of the host before. *)
Before(s) ==
    \A i \in 1..Len(s) :
       /\ s[i].waketime <= last_clock
       /\ \A j \in 1..Len(wire) : s[i].waketime <= wire[j].setting.waketime

WireInv ==
    /\ \A i, j \in 1..Len(wire) :
          i <= j => wire[i].setting.waketime <= wire[j].setting.waketime
    /\ \A j \in 1..Len(wire) : wire[j].setting.waketime <= last_clock
    /\ Before(settings) /\ Before(pin.mq)

Ascending(s) ==
    \A i, j \in 1..Len(s) : i <= j => s[i].waketime <= s[j].waketime

(* The pin's queue is the end of the settings.  The one before it is the
   setting in force; settings that are due together may have replaced each
   other before the pin has loaded them. *)
QueueInv ==
    LET n == Len(settings)
        q == Len(pin.mq)
    IN  /\ Ascending(settings) /\ Ascending(pin.mq)
        /\ \A i \in 1..n : i >= 2 => settings[i].waketime > now
        /\ \A j \in 1..q : pin.mq[j].waketime >= now
        /\ \A i \in 1..n, j \in 1..q : n - i = q - j => settings[i] = pin.mq[j]
        /\ n <= q + 1 /\ (q > 0 => n > 0)
        /\ n > 0 /\ n # q => settings[1].waketime <= now

(* The timer of the pin runs until the queue's first setting, or the end of
   the one in force. *)
TimerInv ==
    /\ pin.on = pin.level
    /\ pin.mq # <<>> \/ pin.toggling \/ pin.check_end => pin.active
    /\ pin.active => pin.waketime >= now
    /\ pin.func = "toggle" => pin.toggling
    /\ pin.func = "load" /\ pin.active => pin.check_end /\ pin.waketime = pin.end_time
    /\ pin.func = "toggle" /\ pin.check_end => pin.waketime < pin.end_time
    /\ pin.mq # <<>> => pin.check_end /\ pin.end_time = pin.mq[1].waketime

InEffect == settings # <<>> /\ settings[1].waketime <= now

(* A pin that is not at rest at its default level has an end. *)
LimitInv ==
    MaxDuration # 0 /\ (pin.func = "toggle" \/ pin.level # DefaultOn) =>
        /\ pin.check_end
        /\ InEffect /\ pin.end_time <= settings[1].waketime + MaxDuration

(* A pin that toggles is in a cycle of the setting m, and its timer does not
   pass the cycle's next switch. *)
Cycles(m) ==
    \E q \in Nat :
      LET start == m.waketime + CycleTime * q
          off   == start + m.on_duration
          end   == start + CycleTime
      IN  /\ pin.func = "toggle" => /\ pin.on_duration = m.on_duration
                                    /\ pin.off_duration = CycleTime - m.on_duration
          /\ IF pin.level
             THEN /\ start <= now /\ pin.waketime <= off
                  /\ pin.func = "toggle" => pin.waketime = off
             ELSE /\ off <= now /\ pin.waketime <= end
                  /\ pin.func = "toggle" => pin.waketime = end

Pwm(m) == m.on_duration \in 1..(CycleTime - 1)

Follows(m) ==
    /\ pin.toggling = Pwm(m)
    /\ IF Pwm(m) THEN Cycles(m) ELSE pin.level = (m.on_duration > 0)

(* Unless a load is due, the pin is where the setting in force has it. *)
FollowInv ==
    pin.mq = <<>> \/ pin.mq[1].waketime > now =>
      IF InEffect THEN Follows(settings[1])
      ELSE pin.level = DefaultOn /\ ~pin.toggling

PinsInv == QueueInv /\ TimerInv /\ LimitInv /\ FollowInv

IInv ==
    /\ HostTypes /\ PinTypes /\ ~held
    /\ shut = "none" => HostInv /\ WireInv /\ PinsInv
    /\ shut # "none" => pin.level = DefaultOn /\ pin.on = DefaultOn /\ pin.mq = <<>> /\ ~pin.toggling /\ ~pin.check_end

-----------------------------------------------------------------------------
(* Lemmas about sequences *)

(* A set of natural numbers that is not empty has a least element: the
   intervals 0..n are finite, so that strict inclusion is well-founded. *)
LEMMA LeastNat ==
  ASSUME NEW T \in SUBSET Nat, T # {}
  PROVE  \E x \in T : \A y \in T : x <= y
<1> DEFINE R == StrictSubsetOrdering(Nat)
           U == {0..n : n \in T}
<1>1. \A n \in Nat : 0..n \in FiniteSubsetsOf(Nat)
  BY FS_Interval DEF FiniteSubsetsOf
<1>2. \A m, n \in Nat : m < n => <<0..m, 0..n>> \in R
  BY SMT DEF StrictSubsetOrdering
<1>3. IsWellFoundedOn(R, FiniteSubsetsOf(Nat))
  BY FS_StrictSubsetOrderingWellFounded
<1>4. U \subseteq FiniteSubsetsOf(Nat) /\ U # {}
  BY <1>1
<1> HIDE DEF R
<1>5. \E x \in U : \A y \in U : ~ (<<y, x>> \in R)
  <2> HIDE DEF U
  <2> QED BY <1>3, <1>4, WFMin
<1>6. PICK x \in T : \A y \in T : ~ (<<0..y, 0..x>> \in R)
  BY <1>5
<1>7. \A y \in T : ~ (y < x)
  BY <1>2, <1>6
<1> QED BY <1>7

(* The last of a set of indices. *)
LEMMA MaxIsLast ==
  ASSUME NEW n \in Nat, NEW S \in SUBSET (1..n), S # {}
  PROVE  Max(S) \in S /\ \A i \in S : i <= Max(S)
<1> DEFINE T == {n - i : i \in S}
<1>1. T \in SUBSET Nat /\ T # {}
  <2>1. \A i \in S : n - i \in Nat
    OBVIOUS
  <2> QED BY <2>1
<1>2. PICK x \in T : \A y \in T : x <= y
  <2> HIDE DEF T
  <2> QED BY <1>1, LeastNat
<1>3. PICK k \in S : x = n - k
  OBVIOUS
<1>4. \A i \in S : k >= i
  <2>1. \A i \in S : n - k <= n - i
    BY <1>2, <1>3
  <2> QED BY <2>1
<1>5. \E j \in S : \A i \in S : j >= i
  BY <1>4
<1>6. Max(S) \in S /\ \A i \in S : Max(S) >= i
  BY <1>5 DEF Max
<1> QED BY <1>6

(* What is taken from a queue was at its front, the others move up. *)
LEMMA TailProps ==
  ASSUME NEW S, NEW s \in Seq(S), s # <<>>
  PROVE  /\ Head(s) = s[1] /\ s[1] \in S
         /\ Tail(s) \in Seq(S) /\ Len(Tail(s)) = Len(s) - 1 /\ Len(s) \in Nat
         /\ Len(s) >= 1
         /\ \A i \in 1..Len(Tail(s)) : i + 1 \in 1..Len(s) /\ Tail(s)[i] = s[i+1]
  OBVIOUS

(* What is put into a queue comes last. *)
LEMMA AppendProps ==
  ASSUME NEW S, NEW s \in Seq(S), NEW e \in S
  PROVE  /\ Append(s, e) \in Seq(S) /\ Len(s) \in Nat
         /\ Len(Append(s, e)) = Len(s) + 1
         /\ \A i \in 1..Len(s) : Append(s, e)[i] = s[i]
         /\ Append(s, e)[Len(s) + 1] = e
  OBVIOUS

(* InForce keeps the end of an ascending sequence: all that lies in the future
   and the last setting that has begun. *)
Trimmed(s, clock, r) ==
    /\ r \in Seq(Settings) /\ Len(r) \in Nat /\ Len(s) \in Nat
    /\ Len(r) <= Len(s)
    /\ s # <<>> => Len(r) >= 1
    /\ \A i \in 1..Len(r) :
         Len(s) - Len(r) + i \in 1..Len(s) /\ r[i] = s[Len(s) - Len(r) + i]
    /\ \A i \in 1..Len(r) : i >= 2 => r[i].waketime > clock
    /\ Len(r) < Len(s) => Len(r) >= 1 /\ r[1].waketime <= clock

LEMMA InForceProps ==
  ASSUME NEW s \in Seq(Settings), Ascending(s), NEW clock \in Nat
  PROVE  Trimmed(s, clock, InForce(s, clock))
<1> DEFINE r == InForce(s, clock)
<1> SUFFICES Trimmed(s, clock, r)
  OBVIOUS
<1> USE DEF Trimmed
<1> DEFINE begun == {i \in DOMAIN s : s[i].waketime <= clock}
           n == Len(s)
           k == Max(begun)
<1>0. n \in Nat /\ DOMAIN s = 1..n /\ \A i \in 1..n : s[i] \in Settings /\ s[i].waketime \in Nat
  <2>1. \A x \in Settings : x.waketime \in Nat
    BY DEF Settings
  <2> QED BY <2>1
<1>1. CASE begun = {}
  <2>1. r = s
    BY <1>1 DEF InForce
  <2> HIDE DEF r
  <2>2. \A i \in 1..n : s[i].waketime > clock
    BY <1>0, <1>1
  <2>3. s # <<>> => n >= 1
    BY <1>0
  <2> QED BY <1>0, <2>1, <2>2, <2>3
<1>2. CASE begun # {}
  <2>1. k \in begun /\ \A i \in begun : i <= k
    <3>1. begun \in SUBSET (1..n)
      BY <1>0
    <3> HIDE DEF begun
    <3> QED BY <1>0, <1>2, <3>1, MaxIsLast
  <2>2. r = SubSeq(s, k, n)
    BY <1>2 DEF InForce
  <2> HIDE DEF r
  <2>3. k \in 1..n /\ s[k].waketime <= clock
    BY <1>0, <2>1
  <2> HIDE DEF k
  <2>4. \A i \in 1..n : i > k => s[i].waketime > clock
    <3>1. \A i \in 1..n : i > k => ~ (i \in begun)
      BY <1>0, <2>1, <2>3
    <3>2. \A i \in 1..n : ~ (i \in begun) => s[i].waketime > clock
      BY <1>0
    <3> QED BY <3>1, <3>2
  <2>5. /\ r \in Seq(Settings) /\ Len(r) = n - k + 1
        /\ \A i \in 1..Len(r) : r[i] = s[k + i - 1]
    BY <1>0, <2>2, <2>3
  <2>6. \A i \in 1..Len(r) : n - Len(r) + i = k + i - 1 /\ k + i - 1 \in 1..n
    BY <1>0, <2>3, <2>5
  <2>7. \A i \in 1..Len(r) : i >= 2 => r[i].waketime > clock
    BY <1>0, <2>3, <2>4, <2>5, <2>6
  <2>8. Len(r) >= 1 /\ r[1].waketime <= clock /\ Len(r) \in Nat /\ Len(r) <= n
    BY <1>0, <2>3, <2>5
  <2> QED BY <1>0, <2>5, <2>6, <2>7, <2>8
<1> QED BY <1>1, <1>2

(* Clocks are numbers. *)
LEMMA ClockTypes ==
  /\ \A s \in Seq(Settings) : \A i \in 1..Len(s) : s[i] \in Settings /\ s[i].waketime \in Nat
  /\ \A s \in Seq(Commands) : \A i \in 1..Len(s) :
        s[i].setting \in Settings /\ s[i].setting.waketime \in Nat
<1>1. \A x \in Settings : x.waketime \in Nat
  BY DEF Settings
<1>2. \A x \in Commands : x.setting \in Settings
  BY DEF Commands
<1> QED BY <1>1, <1>2

-----------------------------------------------------------------------------
(* The host *)

(* The pin's part holds as long as nothing happens at the pin. *)
LEMMA PinsStay ==
  ASSUME PinsInv, UNCHANGED <<pin, settings, now>>
  PROVE  PinsInv'
BY DEF PinsInv, QueueInv, TimerInv, LimitInv, FollowInv, Follows, Cycles, Pwm,
       InEffect, Ascending

(* A command put behind the others takes effect after them. *)
LEMMA WireGrows ==
  ASSUME HostTypes, PinTypes, WireInv,
         UNCHANGED <<pin, settings>>,
         NEW clock \in Nat, NEW power \in Powers, NEW min \in Nat,
         last_clock <= clock, last_clock' = clock,
         wire' = Append(wire, [setting |-> Setting(clock, power), min_clock |-> min])
  PROVE  wire' \in Seq(Commands) /\ WireInv'
<1> DEFINE c == [setting |-> Setting(clock, power), min_clock |-> min]
<1>1. c \in Commands /\ c.setting.waketime = clock
  BY DEF Commands, Settings, Setting
<1>2. last_clock \in Nat /\ wire \in Seq(Commands) /\ settings \in Seq(Settings)
      /\ pin.mq \in Seq(Settings)
  BY DEF HostTypes, PinTypes, Pins
<1> HIDE DEF c
<1>3. /\ wire' \in Seq(Commands) /\ Len(wire) \in Nat /\ Len(wire') = Len(wire) + 1
      /\ \A i \in 1..Len(wire) : wire'[i] = wire[i]
      /\ wire'[Len(wire) + 1] = c
  BY <1>1, <1>2, AppendProps DEF c
<1>4. \A i \in 1..Len(wire') : i \in 1..Len(wire) \/ i = Len(wire) + 1
  BY <1>3
<1>5. \A i \in 1..Len(wire) : wire[i].setting.waketime \in Nat
  BY <1>2, ClockTypes
<1>6. \A j \in 1..Len(wire') : wire'[j].setting.waketime <= last_clock'
  BY <1>1, <1>2, <1>3, <1>4, <1>5 DEF WireInv
<1>7. ASSUME NEW i \in 1..Len(wire'), NEW j \in 1..Len(wire'), i <= j
      PROVE  wire'[i].setting.waketime <= wire'[j].setting.waketime
  <2>1. CASE j \in 1..Len(wire)
    BY <1>3, <1>4, <1>7, <2>1 DEF WireInv
  <2>2. CASE j = Len(wire) + 1
    BY <1>1, <1>3, <1>6, <2>2
  <2> QED BY <1>4, <2>1, <2>2
<1>8. ASSUME NEW s \in Seq(Settings), Before(s)
      PROVE  \A i \in 1..Len(s) :
               /\ s[i].waketime <= last_clock'
               /\ \A j \in 1..Len(wire') : s[i].waketime <= wire'[j].setting.waketime
  <2>1. \A i \in 1..Len(s) : s[i].waketime \in Nat /\ s[i].waketime <= clock
    <3>1. \A i \in 1..Len(s) : s[i].waketime \in Nat
      BY <1>8, ClockTypes
    <3> QED BY <1>2, <1>8, <3>1 DEF Before
  <2> QED BY <1>1, <1>3, <1>4, <1>8, <2>1 DEF Before
<1>9. Before(settings)' /\ Before(pin.mq)'
  BY <1>2, <1>8 DEF Before, WireInv
<1> QED BY <1>3, <1>6, <1>7, <1>9 DEF WireInv

LEMMA TemperatureCallbackKeeps ==
  ASSUME IInv, TemperatureCallback
  PROVE  IInv'
<1> USE DigitalOutAssumption, HeaterAssumption
<1>1. /\ shut = "none" /\ alive /\ reports # <<>> /\ shut' = shut
      /\ reports' = Tail(reports)
      /\ UNCHANGED <<pin, held, settings, now, alive, since, target>>
  BY DEF TemperatureCallback, digitalVars, pastVars
<1>2. HostTypes /\ PinTypes /\ HostInv /\ WireInv /\ PinsInv
  BY <1>1 DEF IInv
<1>3. PICK power \in Powers : SetPwm(Head(reports), Wanted(power))
  BY DEF TemperatureCallback, Powers
<1>4. Wanted(power) \in Powers
  BY DEF Wanted, Powers
<1>5. /\ Head(reports) = reports[1] /\ reports[1] \in Nat
      /\ reports' \in Seq(Nat) /\ Len(reports) \in Nat /\ Len(reports) >= 1
      /\ Len(reports') = Len(reports) - 1
      /\ \A i \in 1..Len(reports') : i + 1 \in 1..Len(reports) /\ reports'[i] = reports[i+1]
  BY <1>1, <1>2, TailProps DEF HostTypes
<1> DEFINE clock == reports[1] + ReportTime
<1>6. clock \in Nat /\ last_clock <= clock /\ clock <= now + ReportTime
  BY SMTT(30), <1>2, <1>5 DEF HostInv, HostTypes
<1>7. \A i \in 1..Len(reports') : reports'[i] \in Nat /\ reports'[i] <= now'
                                /\ clock <= reports'[i] + ReportTime
  <2>1. \A i \in 1..Len(reports') : reports[1] <= reports'[i] /\ reports'[i] <= now
    <3>1. 1 \in 1..Len(reports) /\ \A i \in 1..Len(reports') : 1 <= i + 1
      BY <1>5
    <3>2. \A i, j \in 1..Len(reports) : i <= j => reports[i] <= reports[j]
      BY <1>2 DEF HostInv
    <3>3. \A i \in 1..Len(reports) : reports[i] <= now
      BY <1>2 DEF HostInv
    <3> QED BY <1>5, <3>1, <3>2, <3>3
  <2>2. \A i \in 1..Len(reports') : reports'[i] \in Nat
    BY SMTT(30), <1>5
  <2> QED BY <1>1, <1>2, <1>5, <2>1, <2>2 DEF HostTypes
<1>8. \A i, j \in 1..Len(reports') : i <= j => reports'[i] <= reports'[j]
  <2>1. \A i, j \in 1..Len(reports) : i <= j => reports[i] <= reports[j]
    BY <1>2 DEF HostInv
  <2>2. \A i, j \in 1..Len(reports') : i <= j => i + 1 <= j + 1
    BY <1>5
  <2> QED BY <1>5, <2>1, <2>2
<1>9. /\ last_clock' \in Nat /\ next_pwm_time' \in Nat /\ last_pwm_value' \in Powers
      /\ last_clock' <= clock
      /\ wire' \in Seq(Commands) /\ WireInv'
  <2>1. CASE Suppressed(Head(reports), Wanted(power))
    <3>1. UNCHANGED <<next_pwm_time, last_pwm_value, last_clock, wire>>
      BY <1>3, <2>1 DEF SetPwm
    <3>2. WireInv'
      BY <1>1, <1>2, <3>1 DEF WireInv, Before
    <3> QED BY <1>2, <1>6, <3>1, <3>2 DEF HostTypes, PinTypes
  <2>2. CASE ~Suppressed(Head(reports), Wanted(power))
    <3>1. /\ next_pwm_time' = clock + KeepTime /\ last_pwm_value' = Wanted(power)
          /\ last_clock' = clock
          /\ wire' = Append(wire, [setting |-> Setting(clock, Wanted(power)),
                                   min_clock |-> last_clock])
      BY <1>3, <1>5, <2>2 DEF SetPwm, SendPwm
    <3>2. last_clock \in Nat
      BY <1>2 DEF HostTypes
    <3>3. wire' \in Seq(Commands) /\ WireInv'
      <4> HIDE DEF clock
      <4> QED BY <1>1, <1>2, <1>4, <1>6, <3>1, <3>2, WireGrows
    <3> QED BY SMTT(30), <1>4, <1>6, <3>1, <3>3
  <2> QED BY <2>1, <2>2
<1>10. HostTypes'
  BY <1>1, <1>2, <1>5, <1>9 DEF HostTypes
<1>11. PinTypes'
  BY <1>1, <1>2, <1>9 DEF PinTypes
<1>12. HostInv'
  <2>1. last_clock' <= now' + ReportTime
    <3>1. now \in Nat /\ now' = now
      BY <1>1, <1>2 DEF HostTypes
    <3> HIDE DEF clock
    <3> QED BY <1>6, <1>9, <3>1
  <2>2. \A i \in 1..Len(reports') : last_clock' <= reports'[i] + ReportTime
    BY SMTT(30), <1>6, <1>7, <1>9
  <2> QED BY <1>1, <1>2, <1>7, <1>8, <2>1, <2>2 DEF HostInv
<1>13. PinsInv'
  BY <1>1, <1>2, PinsStay
<1> QED BY <1>1, <1>9, <1>10, <1>11, <1>12, <1>13 DEF IInv

LEMMA SetTempKeeps ==
  ASSUME IInv, SetTemp
  PROVE  IInv'
<1>1. /\ shut = "none" /\ shut' = shut /\ target' = ~target
      /\ UNCHANGED <<pin, held, settings, now, alive, since, last_pwm_value,
                     next_pwm_time, last_clock, reports, wire>>
  BY DEF SetTemp, digitalVars, pastVars
<1>2. HostTypes /\ PinTypes /\ HostInv /\ WireInv /\ PinsInv
  BY <1>1 DEF IInv
<1>3. target' \in BOOLEAN
  BY <1>1
<1>4. HostTypes'
  BY <1>1, <1>2, <1>3 DEF HostTypes
<1>5. PinTypes' /\ HostInv' /\ WireInv'
  BY <1>1, <1>2 DEF PinTypes, HostInv, WireInv, Before
<1>6. PinsInv'
  BY <1>1, <1>2, PinsStay
<1> QED BY <1>1, <1>4, <1>5, <1>6 DEF IInv

LEMMA CrashKeeps ==
  ASSUME IInv, Crash
  PROVE  IInv'
<1>1. /\ shut = "none" /\ alive /\ shut' = shut
      /\ alive' = FALSE /\ since' = now /\ reports' = <<>>
      /\ UNCHANGED <<pin, held, settings, now, target, last_pwm_value,
                     next_pwm_time, last_clock>>
  BY DEF Crash, digitalVars, pastVars
<1>2. HostTypes /\ PinTypes /\ HostInv /\ WireInv /\ PinsInv
  BY <1>1 DEF IInv
<1>3. PICK n \in 0..Len(wire) : wire' = SubSeq(wire, 1, n)
  BY DEF Crash
<1>4. /\ wire \in Seq(Commands) /\ Len(wire) \in Nat
  BY <1>2 DEF PinTypes
<1>5. /\ wire' \in Seq(Commands) /\ Len(wire') = n
      /\ \A i \in 1..n : i \in 1..Len(wire) /\ wire'[i] = wire[i]
  BY <1>3, <1>4
<1>6. WireInv'
  BY <1>1, <1>2, <1>5 DEF WireInv, Before
<1>7. HostTypes' /\ HostInv'
  <2>1. reports' \in Seq(Nat) /\ Len(reports') = 0
    BY <1>1
  <2>2. alive' \in BOOLEAN
    BY <1>1
  <2>3. now \in Nat
    BY <1>2 DEF HostTypes
  <2> QED BY <1>1, <1>2, <2>1, <2>2, <2>3 DEF HostTypes, HostInv
<1>8. PinTypes'
  BY <1>1, <1>2, <1>5 DEF PinTypes
<1>9. PinsInv'
  BY <1>1, <1>2, PinsStay
<1> QED BY <1>1, <1>6, <1>7, <1>8, <1>9 DEF IInv

(* The init command of a new host takes effect after all the commands of the
   one before. *)
LEMMA RestartKeeps ==
  ASSUME HostTiming, IInv, Restart
  PROVE  IInv'
<1> USE DigitalOutAssumption, HeaterAssumption
<1> DEFINE clock == now + ConnectDelay
<1>1. /\ shut = "none" /\ ~alive /\ now >= since + RestartTime /\ shut' = shut
      /\ alive' = TRUE /\ since' = now /\ target' = FALSE
      /\ last_pwm_value' = 0 /\ next_pwm_time' = 0
      /\ last_clock' = clock
      /\ UNCHANGED <<pin, held, settings, now, reports>>
  BY DEF Restart, digitalVars, pastVars
<1>2. HostTypes /\ PinTypes /\ HostInv /\ WireInv /\ PinsInv
  BY <1>1 DEF IInv
<1>3. clock \in Nat /\ last_clock <= clock /\ clock <= now + ReportTime
  BY SMTT(30), <1>1, <1>2 DEF HostTiming, HostTypes, HostInv
<1>4. 0 \in Powers
  BY DEF Powers
<1>5. wire' \in Seq(Commands) /\ WireInv'
  <2>1. wire' = Append(wire, [setting |-> Setting(clock, 0), min_clock |-> 0])
    BY DEF Restart, InitCommand
  <2> HIDE DEF clock
  <2> QED BY <1>1, <1>2, <1>3, <1>4, <2>1, WireGrows
<1>6. HostTypes'
  <2>1. /\ alive' \in BOOLEAN /\ target' \in BOOLEAN
    BY <1>1
  <2> QED BY <1>1, <1>2, <1>3, <1>4, <2>1 DEF HostTypes
<1>7. HostInv'
  <2>1. reports' = <<>> /\ Len(reports') = 0
    BY <1>1, <1>2 DEF HostInv
  <2> QED BY <1>1, <1>2, <1>3, <2>1 DEF HostInv, HostTypes
<1>8. PinTypes'
  BY <1>1, <1>2, <1>5 DEF PinTypes
<1>9. PinsInv'
  BY <1>1, <1>2, PinsStay
<1> QED BY <1>1, <1>5, <1>6, <1>7, <1>8, <1>9 DEF IInv

-----------------------------------------------------------------------------
(* The pin *)

(* After a shutdown the pin is at its default level and nothing moves. *)
LEMMA ShutdownKeeps ==
  ASSUME PinTypes, NEW reason, reason # "none", PinShutdown(reason),
         HostTypes', wire' \in Seq(Commands), settings' \in Seq(Settings)
  PROVE  IInv'
<1> USE DigitalOutAssumption
<1>1. pin \in Pins
  BY DEF PinTypes
<1>2. pin' = [pin EXCEPT !.level = DefaultOn, !.on = DefaultOn, !.mq = <<>>,
                         !.toggling = FALSE, !.check_end = FALSE, !.active = FALSE]
      /\ shut' = reason /\ ~held'
  BY DEF PinShutdown
<1>3. pin' \in Pins
  <2>1. DefaultOn \in BOOLEAN /\ FALSE \in BOOLEAN /\ <<>> \in Seq(Settings)
    OBVIOUS
  <2> QED BY <1>1, <1>2, <2>1 DEF Pins
<1>4. /\ pin'.level = DefaultOn /\ pin'.on = DefaultOn /\ pin'.mq = <<>>
      /\ ~pin'.toggling /\ ~pin'.check_end
  BY <1>1, <1>2 DEF Pins
<1>5. Len(pin'.mq) <= Slots
  BY <1>4
<1> QED BY <1>2, <1>3, <1>4, <1>5 DEF IInv, PinTypes

(* What toggling does to the timer. *)
LEMMA ToggleKeeps ==
  ASSUME HostTypes, PinTypes, PinsInv, pin.waketime <= now, ToggleEvent,
         UNCHANGED <<settings, now>>
  PROVE  /\ pin' \in Pins /\ pin'.mq = pin.mq
         /\ PinsInv'
<1> USE DigitalOutAssumption
<1> DEFINE on   == ~pin.on
           next == pin.waketime + (IF on THEN pin.on_duration ELSE pin.off_duration)
           end  == pin.check_end /\ next >= pin.end_time
<1>1. /\ pin.func = "toggle"
      /\ pin' = [pin EXCEPT !.level = ~@, !.on = on,
                            !.func = IF end THEN "load" ELSE @,
                            !.waketime = IF end THEN pin.end_time ELSE next]
  BY DEF ToggleEvent
<1>2. pin \in Pins /\ now \in Nat /\ settings \in Seq(Settings)
  BY DEF HostTypes, PinTypes
<1>3. /\ pin.mq \in Seq(Settings) /\ pin.waketime \in Nat /\ pin.end_time \in Nat
      /\ pin.on_duration \in Powers /\ pin.off_duration \in Powers
      /\ pin.on \in BOOLEAN /\ pin.level \in BOOLEAN /\ pin.check_end \in BOOLEAN
  BY <1>2 DEF Pins
<1>4. next \in Nat
  BY <1>3 DEF Powers
<1>5. /\ pin.toggling /\ pin.active /\ pin.on = pin.level /\ pin.waketime = now
      /\ pin.check_end => now < pin.end_time
  BY <1>1, <1>2, <1>3 DEF PinsInv, TimerInv
<1>6. pin.mq = <<>> \/ pin.mq[1].waketime > now
  BY <1>5 DEF PinsInv, TimerInv
<1>7. InEffect /\ Pwm(settings[1]) /\ Cycles(settings[1])
  BY <1>5, <1>6 DEF PinsInv, FollowInv, Follows
<1> DEFINE m == settings[1]
<1>8. /\ m.waketime \in Nat /\ m.on_duration \in 1..(CycleTime - 1)
      /\ pin.on_duration = m.on_duration
      /\ pin.off_duration = CycleTime - m.on_duration
  <2>1. m \in Settings
    BY <1>2, <1>7 DEF InEffect
  <2> QED BY <1>1, <1>7, <2>1 DEF Settings, Pwm, Cycles
<1> HIDE DEF m, end, next
<1>9. next > now
  BY <1>2, <1>5, <1>8 DEF next
<1>10. /\ pin'.level = ~pin.level /\ pin'.on = ~pin.on
       /\ pin'.func = (IF end THEN "load" ELSE "toggle")
       /\ pin'.waketime = (IF end THEN pin.end_time ELSE next)
       /\ pin'.mq = pin.mq /\ pin'.active = pin.active
       /\ pin'.on_duration = pin.on_duration /\ pin'.off_duration = pin.off_duration
       /\ pin'.end_time = pin.end_time /\ pin'.toggling = pin.toggling
       /\ pin'.check_end = pin.check_end
  BY <1>1, <1>2 DEF Pins
<1>11. pin' \in Pins
  <2>1. (~pin.level) \in BOOLEAN /\ on \in BOOLEAN
    OBVIOUS
  <2>2. (IF end THEN "load" ELSE "toggle") \in {"load", "toggle"}
    OBVIOUS
  <2>3. (IF end THEN pin.end_time ELSE next) \in Nat
    BY <1>3, <1>4
  <2> HIDE DEF on
  <2> QED BY ZenonT(30), <1>1, <1>2, <2>1, <2>2, <2>3 DEF Pins
<1>12. QueueInv'
  BY <1>10 DEF PinsInv, QueueInv, Ascending
<1>13. TimerInv'
  <2>1. pin'.on = pin'.level
    BY <1>5, <1>10
  <2>2. pin'.waketime >= now' /\ (pin'.func = "toggle" /\ pin'.check_end => pin'.waketime < pin'.end_time)
    BY <1>2, <1>3, <1>4, <1>5, <1>9, <1>10 DEF end
  <2>3. pin'.func = "load" => pin'.check_end /\ pin'.waketime = pin'.end_time
    BY <1>10 DEF end
  <2> QED BY <1>5, <1>10, <2>1, <2>2, <2>3 DEF TimerInv, PinsInv
<1>14. LimitInv'
  BY <1>1, <1>10 DEF PinsInv, LimitInv, InEffect
<1>15. Cycles(m)'
  <2>1. m' = m
    BY DEF m
  <2>2. PICK q \in Nat :
          LET start == m.waketime + CycleTime * q
              off   == start + m.on_duration
              stop  == start + CycleTime
          IN  IF pin.level THEN start <= now /\ pin.waketime = off
              ELSE off <= now /\ pin.waketime = stop
    BY <1>1, <1>7 DEF Cycles, m
  <2>3. CycleTime * q \in Nat /\ CycleTime * (q + 1) = CycleTime * q + CycleTime
    OBVIOUS
  <2> DEFINE p == CycleTime * q
  <2> HIDE DEF p
  <2>4. p \in Nat /\ CycleTime * q = p /\ CycleTime * (q + 1) = p + CycleTime
    BY <2>3 DEF p
  <2>5. CASE pin.level
    <3>1. next = m.waketime + p + CycleTime /\ m.waketime + p + m.on_duration <= now
      <4>1. pin.on
        BY <1>5, <2>5
      <4>2. next = now + (CycleTime - m.on_duration)
        BY <1>5, <1>8, <4>1 DEF next
      <4>3. now = m.waketime + p + m.on_duration
        BY <1>5, <2>2, <2>4, <2>5
      <4>4. m.waketime \in Nat /\ m.on_duration \in Nat /\ p \in Nat /\ CycleTime \in Nat
        BY <1>8, <2>4
      <4> HIDE DEF next
      <4> QED BY <4>2, <4>3, <4>4
    <3>2. pin'.waketime <= next /\ (pin'.func = "toggle" => pin'.waketime = next)
      BY <1>3, <1>4, <1>10 DEF end
    <3>3. ~pin'.level
      BY <1>10, <2>5
    <3> QED BY <1>8, <1>10, <2>1, <2>4, <3>1, <3>2, <3>3 DEF Cycles
  <2>6. CASE ~pin.level
    <3>1. /\ next = m.waketime + (p + CycleTime) + m.on_duration
          /\ m.waketime + (p + CycleTime) <= now
      <4>1. ~pin.on
        BY <1>5, <2>6
      <4>2. next = now + m.on_duration
        BY <1>5, <1>8, <4>1 DEF next
      <4>3. now = m.waketime + p + CycleTime
        BY <1>5, <2>2, <2>4, <2>6
      <4> QED BY <1>2, <1>8, <2>4, <4>2, <4>3
    <3>2. pin'.waketime <= next /\ (pin'.func = "toggle" => pin'.waketime = next)
      BY <1>3, <1>4, <1>10 DEF end
    <3>3. pin'.level
      BY <1>10, <2>6
    <3>4. q + 1 \in Nat
      OBVIOUS
    <3> QED BY <1>8, <1>10, <2>1, <2>4, <3>1, <3>2, <3>3, <3>4 DEF Cycles
  <2> QED BY <2>5, <2>6
<1>16. FollowInv'
  <2>1. InEffect' /\ Pwm(settings[1])' /\ Follows(settings[1])'
    BY <1>5, <1>7, <1>10, <1>15 DEF InEffect, Pwm, Follows, m
  <2> QED BY <2>1 DEF FollowInv
<1> QED BY <1>10, <1>11, <1>12, <1>13, <1>14, <1>16 DEF PinsInv

(* What a load does to the timer: the setting at the head of the queue comes
   into force. *)
LEMMA LoadKeeps ==
  ASSUME HostTypes, PinTypes, PinsInv, pin.active, pin.waketime <= now,
         LoadEvent, shut' = "none", UNCHANGED <<settings, now>>
  PROVE  /\ pin.mq # <<>> /\ pin' \in Pins /\ pin'.mq = Tail(pin.mq)
         /\ PinsInv'
<1> USE DigitalOutAssumption
<1> DEFINE m     == Head(pin.mq)
           rest  == Tail(pin.mq)
           on    == m.on_duration > 0
           pwm   == on /\ m.on_duration < CycleTime
           limit == pin.waketime + MaxDuration
           end   == IF rest # <<>> THEN Head(rest).waketime
                    ELSE IF Limited(m) THEN limit ELSE 0
           check == rest # <<>> \/ Limited(m)
           wake  == pin.waketime + m.on_duration
           cycle == pwm /\ (~check \/ wake < end)
           loaded == [pin EXCEPT !.level = on, !.on = on, !.mq = rest,
                              !.end_time = end, !.check_end = check,
                              !.toggling = pwm]
<1>1. /\ pin.func = "load" /\ pin.mq # <<>>
      /\ ~(rest # <<>> /\ Limited(m) /\ limit < Head(rest).waketime)
      /\ pin' = IF cycle
                THEN [loaded EXCEPT !.func = "toggle", !.waketime = wake,
                                    !.on_duration = m.on_duration,
                                    !.off_duration = CycleTime - m.on_duration]
                ELSE IF check THEN [loaded EXCEPT !.waketime = end]
                ELSE [loaded EXCEPT !.active = FALSE]
  BY DEF LoadEvent, PinShutdown
<1>2. pin \in Pins /\ now \in Nat /\ settings \in Seq(Settings) /\ pin.mq \in Seq(Settings)
      /\ pin.waketime \in Nat
  BY DEF HostTypes, PinTypes, Pins
<1>3. /\ m = pin.mq[1] /\ m \in Settings /\ rest \in Seq(Settings)
      /\ Len(pin.mq) \in Nat /\ Len(pin.mq) >= 1 /\ Len(rest) = Len(pin.mq) - 1
      /\ \A i \in 1..Len(rest) : i + 1 \in 1..Len(pin.mq) /\ rest[i] = pin.mq[i+1]
  BY <1>1, <1>2, TailProps
<1>4. rest # <<>> => /\ Head(rest) = rest[1] /\ rest[1] \in Settings
                     /\ Len(rest) >= 1 /\ rest[1] = pin.mq[2]
  <2>1. rest # <<>> => Head(rest) = rest[1] /\ rest[1] \in Settings /\ Len(rest) >= 1
    <3> HIDE DEF rest
    <3> QED BY <1>3, TailProps
  <2> QED BY <1>3, <2>1
<1>5. /\ m.waketime \in Nat /\ m.on_duration \in Powers
      /\ rest # <<>> => rest[1].waketime \in Nat
  BY <1>3, <1>4 DEF Settings
<1>6. /\ pin.waketime = now /\ m.waketime = now
  <2>1. pin.waketime >= now /\ pin.waketime = pin.end_time /\ pin.end_time = pin.mq[1].waketime
    BY <1>1 DEF PinsInv, TimerInv
  <2> QED BY <1>2, <1>3, <2>1
<1> HIDE DEF m, rest
<1>7. end \in Nat /\ limit \in Nat
  BY <1>2, <1>4, <1>5
<1>8. on \in BOOLEAN /\ pwm \in BOOLEAN /\ check \in BOOLEAN
  OBVIOUS
<1>9. wake \in Nat /\ (pwm => m.on_duration \in Powers /\ CycleTime - m.on_duration \in Powers
                             /\ m.on_duration \in 1..(CycleTime - 1) /\ wake > now)
  BY <1>2, <1>5, <1>6 DEF Powers
<1> HIDE DEF on, pwm, check, limit, end, wake
<1>10. loaded \in Pins
  BY <1>2, <1>3, <1>7, <1>8 DEF Pins
<1>11. /\ pin' \in Pins
       /\ pin'.level = on /\ pin'.on = on /\ pin'.mq = rest
       /\ pin'.end_time = end /\ pin'.check_end = check /\ pin'.toggling = pwm
       /\ pin'.active = (cycle \/ check)
       /\ pin'.func = (IF cycle THEN "toggle" ELSE "load")
       /\ pin'.waketime = (IF cycle THEN wake ELSE IF check THEN end ELSE pin.waketime)
       /\ cycle => /\ pin'.on_duration = m.on_duration
                   /\ pin'.off_duration = CycleTime - m.on_duration
  <2>1. loaded.active = TRUE /\ loaded.func = "load" /\ loaded.waketime = pin.waketime
        /\ loaded.level = on /\ loaded.on = on /\ loaded.mq = rest
        /\ loaded.end_time = end /\ loaded.check_end = check /\ loaded.toggling = pwm
    BY <1>1, <1>2 DEF Pins
  <2> HIDE DEF loaded
  <2>2. CASE cycle
    <3>1. pin' = [loaded EXCEPT !.func = "toggle", !.waketime = wake,
                                !.on_duration = m.on_duration,
                                !.off_duration = CycleTime - m.on_duration]
      BY <1>1, <2>2
    <3> QED BY <1>9, <1>10, <2>1, <2>2, <3>1 DEF Pins
  <2>3. CASE ~cycle /\ check
    <3>1. pin' = [loaded EXCEPT !.waketime = end]
      BY <1>1, <2>3
    <3>2. pin'.active = TRUE
      BY <1>10, <2>1, <3>1 DEF Pins
    <3> QED BY <1>7, <1>10, <2>1, <2>3, <3>1, <3>2 DEF Pins
  <2>4. CASE ~cycle /\ ~check
    <3>1. pin' = [loaded EXCEPT !.active = FALSE]
      BY <1>1, <2>4
    <3>2. pin'.active = FALSE
      BY <1>10, <2>1, <3>1 DEF Pins
    <3> QED BY <1>10, <2>1, <2>4, <3>1, <3>2 DEF Pins
  <2> QED BY <2>2, <2>3, <2>4

<1> HIDE DEF cycle, loaded
<1> DEFINE n == Len(settings)
           q == Len(pin.mq)
<1>12. /\ n \in Nat /\ q \in Nat /\ n >= 1 /\ n <= q /\ q >= 1
       /\ settings[1].waketime = now
       /\ n = q => settings[1] = m
       /\ n < q => rest # <<>> /\ rest[1].waketime = now
  <2>1. n \in Nat /\ q \in Nat /\ q >= 1 /\ n >= 1 /\ n <= q + 1
    BY <1>2, <1>3 DEF PinsInv, QueueInv
  <2>2. \A i \in 1..n, j \in 1..q : n - i = q - j => settings[i] = pin.mq[j]
    BY DEF PinsInv, QueueInv
  <2>3. n # q + 1
    <3>1. ASSUME n = q + 1  PROVE  FALSE
      <4>1. 2 \in 1..n /\ 1 \in 1..q /\ n - 2 = q - 1
        BY <2>1, <3>1
      <4>2. settings[2] = m
        BY <1>3, <2>2, <4>1
      <4>3. settings[2].waketime > now
        BY <4>1 DEF PinsInv, QueueInv
      <4> QED BY <1>2, <1>6, <4>2, <4>3
    <3> QED BY <3>1
  <2>4. q - n + 1 \in 1..q /\ 1 \in 1..n /\ n - 1 = q - (q - n + 1)
    BY <2>1, <2>3
  <2>5. settings[1] = pin.mq[q - n + 1]
    BY <2>2, <2>4
  <2>6. settings[1].waketime >= now /\ settings[1].waketime \in Nat
    BY <1>2, <2>4, <2>5, ClockTypes DEF PinsInv, QueueInv
  <2>7. n = q => settings[1] = m
    BY <1>3, <2>1, <2>5
  <2>8. n # q => settings[1].waketime = now
    BY <1>2, <2>1, <2>6 DEF PinsInv, QueueInv
  <2>9. n < q => rest # <<>> /\ rest[1].waketime = now
    <3> SUFFICES ASSUME n < q  PROVE  rest # <<>> /\ rest[1].waketime = now
      OBVIOUS
    <3>1. 2 \in 1..q /\ 2 <= q - n + 1 /\ q >= 2
      BY <2>1
    <3>2. rest # <<>>
      BY <1>3, <3>1
    <3>3. pin.mq[2].waketime <= pin.mq[q - n + 1].waketime /\ pin.mq[2].waketime >= now
      BY <2>4, <3>1 DEF PinsInv, QueueInv, Ascending
    <3> QED BY SMTT(30), <1>2, <1>4, <1>5, <2>1, <2>5, <2>8, <3>2, <3>3
  <2> QED BY <1>6, <2>1, <2>3, <2>7, <2>8, <2>9
<1>13. settings' = settings /\ now' = now /\ pin'.mq = rest /\ Len(rest) = q - 1 /\ settings # <<>>
  BY <1>3, <1>11, <1>12
<1>14. QueueInv'
  <2>1. Ascending(rest)
    <3>1. \A i, j \in 1..q : i <= j => pin.mq[i].waketime <= pin.mq[j].waketime
      BY DEF PinsInv, QueueInv, Ascending
    <3>2. \A i, j \in 1..Len(rest) : i <= j => i + 1 <= j + 1
      BY <1>3
    <3> QED BY <1>3, <3>1, <3>2 DEF Ascending
  <2>2. \A j \in 1..Len(rest) : rest[j].waketime >= now
    BY <1>3 DEF PinsInv, QueueInv
  <2>3. \A i \in 1..n, j \in 1..Len(rest) : n - i = Len(rest) - j => settings[i] = rest[j]
    <3>1. \A i \in 1..n, j \in 1..q : n - i = q - j => settings[i] = pin.mq[j]
      BY DEF PinsInv, QueueInv
    <3>2. \A i \in 1..n, j \in 1..Len(rest) : n - i = Len(rest) - j => n - i = q - (j + 1)
      BY <1>12, <1>13
    <3> QED BY <1>3, <3>1, <3>2
  <2>4. /\ Ascending(settings)
        /\ \A i \in 1..n : i >= 2 => settings[i].waketime > now
    BY DEF PinsInv, QueueInv
  <2>5. n <= Len(rest) + 1 /\ n > 0 /\ settings[1].waketime <= now
    BY <1>2, <1>12, <1>13
  <2> QED BY <1>13, <2>1, <2>2, <2>3, <2>4, <2>5 DEF QueueInv, Ascending
<1>15. /\ check => end = (IF rest # <<>> THEN rest[1].waketime ELSE limit)
       /\ rest # <<>> => check
  BY <1>4 DEF check, end
<1>16. rest # <<>> => check /\ end = rest[1].waketime /\ end >= now
  <2>1. rest # <<>> => 1 \in 1..Len(rest)
    BY <1>3, <1>4
  <2> QED BY <1>13, <1>14, <1>15, <2>1 DEF QueueInv
<1>17. check => end >= now
  <2>1. limit >= now
    BY <1>2, <1>6 DEF limit
  <2> QED BY <1>15, <1>16, <2>1
<1>18. TimerInv'
  <2>1. cycle => (check => wake < end)
    BY DEF cycle
  <2>2. pwm => cycle \/ check
    BY DEF cycle
  <2>3. cycle => pwm
    BY DEF cycle
  <2>4. pin'.on = pin'.level
    BY <1>11
  <2>5. pin'.waketime >= now
    BY <1>2, <1>6, <1>9, <1>11, <1>17, <2>3
  <2>6. pin'.func = "toggle" => cycle
    BY <1>11
  <2>7. pin'.func = "load" /\ pin'.active => pin'.check_end /\ pin'.waketime = pin'.end_time
    BY <1>11
  <2>8. pin'.mq # <<>> => pin'.check_end /\ pin'.end_time = pin'.mq[1].waketime
    BY <1>11, <1>16
  <2>9. pin'.mq # <<>> \/ pin'.toggling \/ pin'.check_end => pin'.active
    BY <1>11, <1>16, <2>2
  <2>10. pin'.func = "toggle" => pin'.toggling
    BY <1>11, <2>3, <2>6
  <2>11. pin'.func = "toggle" /\ pin'.check_end => pin'.waketime < pin'.end_time
    BY <1>11, <2>1, <2>6
  <2>12. pin'.active => pin'.waketime >= now'
    BY <1>13, <2>5
  <2> QED BY <2>4, <2>7, <2>8, <2>9, <2>10, <2>11, <2>12 DEF TimerInv
<1>19. LimitInv'
  <2> SUFFICES ASSUME MaxDuration # 0, pin'.func = "toggle" \/ pin'.level # DefaultOn
               PROVE  /\ check /\ settings # <<>> /\ settings[1].waketime <= now
                      /\ end <= settings[1].waketime + MaxDuration
    BY <1>11, <1>13 DEF LimitInv, InEffect
  <2>1. Limited(m)
    <3>1. CASE pin'.func = "toggle"
      <4>1. m.on_duration > 0 /\ m.on_duration < CycleTime
        BY <1>11, <3>1 DEF cycle, pwm, on
      <4> QED BY <1>5, <4>1 DEF Limited, Powers
    <3>2. CASE pin'.level # DefaultOn
      <4>1. (m.on_duration > 0) # DefaultOn
        BY <1>11, <3>2 DEF on
      <4> QED BY <4>1 DEF Limited
    <3> QED BY <3>1, <3>2
  <2>2. limit = now + MaxDuration
    BY <1>6 DEF limit
  <2>3. rest # <<>> => ~(limit < rest[1].waketime)
    BY <1>1, <1>4, <2>1
  <2>4. check
    BY <2>1 DEF check
  <2> QED BY <1>2, <1>5, <1>7, <1>12, <1>13, <1>15, <2>2, <2>3, <2>4
<1>20. FollowInv'
  <2> SUFFICES ASSUME rest = <<>> \/ rest[1].waketime > now
               PROVE  InEffect' /\ Follows(settings[1])'
    BY <1>13 DEF FollowInv
  <2>1. InEffect'
    BY <1>2, <1>12, <1>13 DEF InEffect
  <2>2. settings[1] = m
    <3>1. ~(n < q)
      BY <1>2, <1>12
    <3> QED BY <1>12, <3>1
  <2>3. pwm = Pwm(m)
    BY <1>5 DEF pwm, on, Pwm, Powers
  <2>4. pin'.toggling = Pwm(settings[1])'
    BY <1>11, <1>13, <2>2, <2>3 DEF Pwm
  <2>5. CASE Pwm(m)
    <3>1. pwm /\ on
      BY <2>3, <2>5 DEF pwm
    <3>2. m.waketime + CycleTime * 0 = now /\ wake = now + m.on_duration
      <4>1. CycleTime * 0 = 0
        OBVIOUS
      <4> QED BY <1>5, <1>6, <4>1 DEF wake
    <3>3. cycle => pin'.waketime = wake
      BY <1>11
    <3>4. ~cycle => pin'.waketime <= wake
      BY <1>7, <1>9, <1>11, <3>1 DEF cycle
    <3>5. pin'.func = "toggle" => cycle
      BY <1>11
    <3>6. pin'.waketime <= wake
      BY <1>9, <3>3, <3>4
    <3>7. Cycles(settings[1])'
      <4>1. settings'[1] = m /\ now' = now /\ 0 \in Nat /\ pin'.level
        BY <1>11, <1>13, <2>2, <3>1
      <4>2. pin'.func = "toggle" => /\ pin'.on_duration = m.on_duration
                                    /\ pin'.off_duration = CycleTime - m.on_duration
                                    /\ pin'.waketime = wake
        BY <1>11, <3>3, <3>5
      <4>3. m.waketime + CycleTime * 0 <= now
        BY <1>2, <3>2
      <4> QED BY <3>2, <3>6, <4>1, <4>2, <4>3 DEF Cycles
    <3>8. Pwm(settings[1])'
      BY <1>13, <2>2, <2>5 DEF Pwm
    <3> QED BY <2>1, <2>4, <3>7, <3>8 DEF Follows
  <2>6. CASE ~Pwm(m)
    <3>1. pin'.level = (m.on_duration > 0)
      BY <1>11 DEF on
    <3>2. ~Pwm(settings[1])' /\ settings'[1] = m
      BY <1>13, <2>2, <2>6 DEF Pwm
    <3> QED BY <2>1, <2>4, <3>1, <3>2 DEF Follows
  <2> QED BY <2>1, <2>5, <2>6
<1> QED BY <1>1, <1>11, <1>14, <1>18, <1>19, <1>20 DEF PinsInv, rest

(* The host is not concerned with what happens at the pin. *)
LEMMA HostStays ==
  ASSUME HostTypes, HostInv, UNCHANGED <<hostVars, now, reports>>
  PROVE  HostTypes' /\ HostInv'
BY DEF HostTypes, HostInv, hostVars

LEMMA PinTimerKeeps ==
  ASSUME IInv, PinTimer
  PROVE  IInv'
<1>1. shut = "none" /\ PinEvent(now) /\ UNCHANGED <<hostVars, now, reports, wire, settings>>
  BY DEF PinTimer
<1>2. HostTypes /\ PinTypes /\ HostInv /\ WireInv /\ PinsInv
  BY <1>1 DEF IInv
<1>3. HostTypes' /\ HostInv'
  BY <1>1, <1>2, HostStays
<1>4. /\ wire' \in Seq(Commands) /\ settings' \in Seq(Settings)
      /\ pin.mq \in Seq(Settings)
  BY <1>1, <1>2 DEF PinTypes, Pins
<1>5. pin.active /\ pin.waketime <= now /\ (ToggleEvent \/ LoadEvent)
  BY <1>1 DEF PinEvent
<1>6. CASE shut' = "none"
  <2>1. /\ pin' \in Pins /\ PinsInv'
        /\ pin'.mq = pin.mq \/ (pin.mq # <<>> /\ pin'.mq = Tail(pin.mq))
    BY <1>1, <1>2, <1>5, <1>6, ToggleKeeps, LoadKeeps
  <2>2. /\ pin'.mq \in Seq(Settings) /\ Len(pin'.mq) <= Len(pin.mq)
        /\ \A i \in 1..Len(pin'.mq) : \E k \in 1..Len(pin.mq) : pin'.mq[i] = pin.mq[k]
    <3>1. CASE pin'.mq = pin.mq
      BY <1>4, <3>1
    <3>2. CASE pin.mq # <<>> /\ pin'.mq = Tail(pin.mq)
      <4>1. /\ pin'.mq \in Seq(Settings) /\ Len(pin'.mq) = Len(pin.mq) - 1
            /\ Len(pin.mq) \in Nat
            /\ \A i \in 1..Len(pin'.mq) :
                 i + 1 \in 1..Len(pin.mq) /\ pin'.mq[i] = pin.mq[i+1]
        BY <1>4, <3>2, TailProps
      <4> QED BY <4>1
    <3> QED BY <2>1, <3>1, <3>2
  <2>3. PinTypes'
    <3>1. Len(pin'.mq) \in Nat /\ Len(pin.mq) \in Nat /\ Len(pin.mq) <= Slots
      BY <1>2, <1>4, <2>2 DEF PinTypes
    <3>2. Len(pin'.mq) <= Slots
      BY <2>2, <3>1, DigitalOutAssumption
    <3> QED BY <1>4, <2>1, <3>2 DEF PinTypes
  <2>4. WireInv'
    BY <1>1, <1>2, <2>2 DEF WireInv, Before, hostVars
  <2>5. ~held'
    BY <1>5, <1>6 DEF ToggleEvent, LoadEvent, PinShutdown
  <2> QED BY <1>3, <1>6, <2>1, <2>3, <2>4, <2>5 DEF IInv
<1>7. CASE shut' # "none"
  <2>1. \E reason : reason # "none" /\ PinShutdown(reason)
    <3>1. ~ToggleEvent
      BY <1>1, <1>7 DEF ToggleEvent
    <3>2. LoadEvent
      BY <1>5, <3>1
    <3>3. \/ PinShutdown("Missed scheduling of next digital out event")
          \/ PinShutdown("Scheduled digital out event will exceed max_duration")
      BY <1>1, <1>7, <3>2 DEF LoadEvent
    <3> QED BY <3>3
  <2> QED BY <1>2, <1>3, <1>4, <2>1, ShutdownKeeps
<1> QED BY <1>6, <1>7

LEMMA OtherShutdownKeeps ==
  ASSUME IInv, OtherShutdown
  PROVE  IInv'
<1>1. /\ shut = "none" /\ PinShutdown("other")
      /\ UNCHANGED <<hostVars, now, reports, wire, settings>>
  BY DEF OtherShutdown, pastVars
<1>2. HostTypes /\ PinTypes /\ HostInv /\ WireInv /\ PinsInv
  BY <1>1 DEF IInv
<1>3. HostTypes' /\ HostInv'
  BY <1>1, <1>2, HostStays
<1>4. wire' \in Seq(Commands) /\ settings' \in Seq(Settings)
  BY <1>1, <1>2 DEF PinTypes
<1> QED BY <1>1, <1>2, <1>3, <1>4, ShutdownKeeps

-----------------------------------------------------------------------------
(* A setting that arrives *)

(* A setting that takes effect after all the others is put behind them, in
   the queue and among the settings; if it is due at once it is the only
   setting that still matters. *)
LEMMA QueueGrows ==
  ASSUME HostTypes, PinTypes, QueueInv, NEW m \in Settings,
         m.waketime >= now,
         \A i \in 1..Len(settings) : settings[i].waketime <= m.waketime,
         \A i \in 1..Len(pin.mq) : pin.mq[i].waketime <= m.waketime,
         now' = now, pin'.mq = Append(pin.mq, m),
         settings' = InForce(Append(settings, m), now)
  PROVE  /\ QueueInv'
         /\ settings' \in Seq(Settings) /\ Len(settings') >= 1
         /\ m.waketime > now => settings' = Append(settings, m)
         /\ InEffect => InEffect' /\ settings'[1].waketime >= settings[1].waketime
<1> DEFINE s == Append(settings, m)
           n == Len(settings)
           q == Len(pin.mq)
           r == Len(settings')
<1>1. settings \in Seq(Settings) /\ pin.mq \in Seq(Settings) /\ now \in Nat
  BY DEF HostTypes, PinTypes, Pins
<1>2. m.waketime \in Nat
  BY DEF Settings
<1>3. /\ s \in Seq(Settings) /\ n \in Nat /\ Len(s) = n + 1
      /\ \A i \in 1..n : s[i] = settings[i]
      /\ s[n + 1] = m
  BY <1>1, AppendProps
<1>4. /\ pin'.mq \in Seq(Settings) /\ q \in Nat /\ Len(pin'.mq) = q + 1
      /\ \A j \in 1..q : pin'.mq[j] = pin.mq[j]
      /\ pin'.mq[q + 1] = m
  BY <1>1, AppendProps
<1> HIDE DEF s
<1>5. \A i \in 1..(n + 1) : i \in 1..n \/ i = n + 1
  BY <1>3
<1>6. \A j \in 1..(q + 1) : j \in 1..q \/ j = q + 1
  BY <1>4
<1>7. \A i \in 1..(n + 1) : s[i].waketime \in Nat /\ s[i].waketime <= m.waketime
  BY SMTT(30), <1>2, <1>3, <1>5, ClockTypes
<1>8. Ascending(s)
  <2> SUFFICES ASSUME NEW i \in 1..(n + 1), NEW j \in 1..(n + 1), i <= j
               PROVE  s[i].waketime <= s[j].waketime
    BY <1>3 DEF Ascending
  <2>1. CASE j \in 1..n
    BY <1>3, <1>5, <2>1 DEF QueueInv, Ascending
  <2>2. CASE j = n + 1
    BY <1>3, <1>7, <2>2
  <2> QED BY <1>5, <2>1, <2>2
<1>9. Ascending(pin'.mq)
  <2>1. \A j \in 1..(q + 1) : pin'.mq[j].waketime <= m.waketime
    BY <1>2, <1>4, <1>6
  <2> SUFFICES ASSUME NEW i \in 1..(q + 1), NEW j \in 1..(q + 1), i <= j
               PROVE  pin'.mq[i].waketime <= pin'.mq[j].waketime
    BY <1>4 DEF Ascending
  <2>2. CASE j \in 1..q
    BY SMTT(30), <1>4, <1>6, <2>2 DEF QueueInv, Ascending
  <2>3. CASE j = q + 1
    BY <1>4, <2>1, <2>3
  <2> QED BY <1>6, <2>2, <2>3
<1>10. /\ settings' \in Seq(Settings) /\ r \in Nat
       /\ r <= n + 1 /\ r >= 1
       /\ \A i \in 1..r : n + 1 - r + i \in 1..(n + 1) /\ settings'[i] = s[n + 1 - r + i]
       /\ \A i \in 1..r : i >= 2 => settings'[i].waketime > now
       /\ r < n + 1 => settings'[1].waketime <= now
  <2>1. settings' = InForce(s, now)
    BY DEF s
  <2>2. s # <<>>
    BY <1>3
  <2>3. /\ settings' \in Seq(Settings) /\ r \in Nat
        /\ r <= Len(s)
        /\ s # <<>> => r >= 1
        /\ \A i \in 1..r :
             Len(s) - r + i \in 1..Len(s) /\ settings'[i] = s[Len(s) - r + i]
        /\ \A i \in 1..r : i >= 2 => settings'[i].waketime > now
        /\ r < Len(s) => r >= 1 /\ settings'[1].waketime <= now
    <3>1. Trimmed(s, now, settings')
      BY <1>1, <1>3, <1>8, <2>1, InForceProps
    <3> QED BY <3>1 DEF Trimmed
  <2> QED BY <1>3, <2>2, <2>3
<1>11. Ascending(settings')
  <2>1. \A i, j \in 1..(n + 1) : i <= j => s[i].waketime <= s[j].waketime
    BY <1>3, <1>8 DEF Ascending
  <2>2. \A i, j \in 1..r : i <= j => n + 1 - r + i <= n + 1 - r + j
    BY <1>3, <1>10
  <2> QED BY ZenonT(30), <1>10, <2>1, <2>2 DEF Ascending
<1>12. m.waketime > now => r = n + 1
  <2> SUFFICES ASSUME m.waketime > now, r < n + 1  PROVE FALSE
    BY <1>3, <1>10
  <2> DEFINE k == n + 1 - r + 1
  <2>1. k \in 2..(n + 1) /\ k \in 1..(n + 1) /\ 1 \in 1..r
    BY <1>3, <1>10
  <2>2. s[k].waketime <= now /\ s[k].waketime \in Nat
    BY <1>7, <1>10, <2>1
  <2> HIDE DEF k
  <2>3. \A i \in 2..(n + 1) : s[i].waketime > now
    <3>1. \A i \in 2..(n + 1) : i \in 1..(n + 1) /\ i >= 2
      BY <1>3
    <3> QED BY <1>3, <1>5, <3>1 DEF QueueInv
  <2> QED BY <1>1, <2>1, <2>2, <2>3
<1>13. r = n + 1 => settings' = s
  <2> SUFFICES ASSUME r = n + 1  PROVE settings' = s
    OBVIOUS
  <2>1. \A i \in 1..r : n + 1 - r + i = i
    BY <1>3
  <2>2. \A i \in 1..r : settings'[i] = s[i]
    BY <1>10, <2>1
  <2> QED BY <1>3, <1>10, <2>2
<1>14. \A j \in 1..(q + 1) : pin'.mq[j].waketime >= now
  BY <1>4, <1>6 DEF QueueInv
<1>15. \A i \in 1..(n + 1), j \in 1..(q + 1) : n - i = q - j => s[i] = pin'.mq[j]
  <2>1. \A i \in 1..(n + 1), j \in 1..(q + 1) : n - i = q - j =>
           (i \in 1..n /\ j \in 1..q) \/ (i = n + 1 /\ j = q + 1)
    BY <1>3, <1>4
  <2>2. \A i \in 1..n, j \in 1..q : n - i = q - j => settings[i] = pin.mq[j]
    BY DEF QueueInv
  <2> QED BY <1>3, <1>4, <2>1, <2>2
<1>16. \A i \in 1..r, j \in 1..(q + 1) : r - i = (q + 1) - j => settings'[i] = pin'.mq[j]
  <2>1. \A i \in 1..r, j \in 1..(q + 1) : r - i = (q + 1) - j => n - (n + 1 - r + i) = q - j
    BY <1>3, <1>4, <1>10
  <2> QED BY <1>10, <1>15, <2>1
<1>17. r <= q + 2
  BY <1>3, <1>4, <1>10 DEF QueueInv
<1>18. r # q + 1 => settings'[1].waketime <= now
  <2> SUFFICES ASSUME r # q + 1, r = n + 1  PROVE settings'[1].waketime <= now
    BY <1>3, <1>10
  <2>1. n # q /\ settings'[1] = s[1]
    BY <1>3, <1>4, <1>13
  <2>2. CASE n > 0
    BY <1>3, <2>1, <2>2 DEF QueueInv
  <2>3. CASE n = 0
    BY <1>3, <1>4, <2>1, <2>3 DEF QueueInv
  <2> QED BY <1>3, <2>2, <2>3
<1>19. QueueInv'
  <2>1. now' = now /\ Len(pin'.mq) = q + 1
    BY <1>4
  <2>2. /\ \A i \in 1..r : i >= 2 => settings'[i].waketime > now'
        /\ r > 0 /\ r # q + 1 => settings'[1].waketime <= now'
    BY <1>10, <1>18, <2>1
  <2>3. r <= (q + 1) + 1 /\ r > 0
    BY <1>4, <1>10, <1>17
  <2>4. Ascending(settings)' /\ Ascending(pin.mq)'
    BY <1>9, <1>11 DEF Ascending
  <2>5. \A i \in 1..r, j \in 1..(q + 1) : r - i = (q + 1) - j => settings'[i] = pin'.mq[j]
    BY <1>16
  <2>6. \A j \in 1..(q + 1) : pin'.mq[j].waketime >= now'
    BY <1>14, <2>1
  <2> QED BY SMTT(30), <2>1, <2>2, <2>3, <2>4, <2>5, <2>6 DEF QueueInv
<1>20. ASSUME InEffect
       PROVE  InEffect' /\ settings'[1].waketime >= settings[1].waketime
  <2>1. n >= 1 /\ settings[1].waketime <= now /\ s[1] = settings[1] /\ 1 \in 1..(n + 1) /\ 1 \in 1..r
    BY SMTT(30), <1>1, <1>3, <1>10, <1>20 DEF InEffect
  <2>2. n + 1 - r + 1 \in 1..(n + 1) /\ settings'[1] = s[n + 1 - r + 1]
    BY <1>10, <2>1
  <2>3. s[1].waketime <= s[n + 1 - r + 1].waketime
    BY <1>3, <1>8, <2>1, <2>2 DEF Ascending
  <2>4. settings'[1].waketime <= now /\ settings' # <<>>
    BY <1>3, <1>10, <1>13, <2>1
  <2> QED BY <2>1, <2>2, <2>3, <2>4 DEF InEffect
<1> QED BY <1>10, <1>12, <1>13, <1>19, <1>20 DEF s

(* sched_add_timer leaves the timer of a setting that is not late as it is. *)
LEMMA AddedOnTime ==
  ASSUME NEW p, ~(p.waketime < now), AddTimer(p, now)
  PROVE  pin' = p /\ ~held' /\ UNCHANGED <<shut, too_close>>
BY DEF AddTimer

(* What queue_digital_out does, unless it shuts the firmware down. *)
LEMMA QueueKeeps ==
  ASSUME HostTypes, PinTypes, PinsInv, shut = "none", shut' = "none",
         NEW m \in Settings, QueueDigitalOut(m, now), now' = now,
         ~(m.waketime < now),
         \A i \in 1..Len(settings) : settings[i].waketime <= m.waketime,
         \A i \in 1..Len(pin.mq) : pin.mq[i].waketime <= m.waketime,
         settings' = InForce(Append(settings, m), now)
  PROVE  /\ pin' \in Pins /\ Len(pin'.mq) <= Slots
         /\ pin'.mq = Append(pin.mq, m)
         /\ settings' \in Seq(Settings)
         /\ PinsInv'
<1> USE DigitalOutAssumption
<1> DEFINE queued == [pin EXCEPT !.mq = Append(@, m)]
           first  == [queued EXCEPT !.end_time = m.waketime, !.check_end = TRUE]
           last   == [first EXCEPT !.active = TRUE, !.func = "load",
                                   !.waketime = m.waketime]
<1>1. ~PinShutdown("Move queue overflow")
      /\ ~PinShutdown("Scheduled digital out event will exceed max_duration")
      /\ ~PinShutdown("Timer too close")
  BY DEF PinShutdown
<1>2. /\ ~(Len(pin.mq) >= Slots)
      /\ \/ pin.mq # <<>> /\ pin' = queued
         \/ /\ pin.mq = <<>> /\ ~(pin.check_end /\ pin.end_time < m.waketime)
            /\ \/ GoesOn(m) /\ pin' = first
               \/ ~GoesOn(m) /\ pin' = last
  <2>1. last.waketime = m.waketime
    BY DEF PinTypes, Pins
  <2>2. AddTimer(last, now) => pin' = last
    <3> HIDE DEF last
    <3> QED BY <2>1, AddedOnTime
  <2>3. /\ ~(Len(pin.mq) >= Slots)
        /\ \/ pin.mq # <<>> /\ pin' = queued
           \/ /\ pin.mq = <<>> /\ ~(pin.check_end /\ pin.end_time < m.waketime)
              /\ \/ GoesOn(m) /\ pin' = first
                 \/ ~GoesOn(m) /\ AddTimer(last, now)
    BY <1>1, Zenon DEF QueueDigitalOut
  <2> HIDE DEF queued, first, last
  <2> QED BY <2>2, <2>3, Zenon
<1>3. /\ pin \in Pins /\ now \in Nat /\ settings \in Seq(Settings)
      /\ m.waketime \in Nat
  BY DEF HostTypes, PinTypes, Settings
<1>4. /\ pin.mq \in Seq(Settings) /\ pin.waketime \in Nat /\ pin.end_time \in Nat
      /\ Len(pin.mq) \in Nat
  BY <1>3 DEF Pins
<1>5. /\ Append(pin.mq, m) \in Seq(Settings)
      /\ Len(Append(pin.mq, m)) = Len(pin.mq) + 1
      /\ \A i \in 1..Len(pin.mq) : Append(pin.mq, m)[i] = pin.mq[i]
      /\ Append(pin.mq, m)[Len(pin.mq) + 1] = m
  BY <1>4, AppendProps
<1>6. /\ queued \in Pins /\ queued.mq = Append(pin.mq, m)
      /\ queued.active = pin.active /\ queued.func = pin.func
      /\ queued.waketime = pin.waketime /\ queued.on_duration = pin.on_duration
      /\ queued.off_duration = pin.off_duration /\ queued.end_time = pin.end_time
      /\ queued.on = pin.on /\ queued.toggling = pin.toggling
      /\ queued.check_end = pin.check_end /\ queued.level = pin.level
  BY <1>3, <1>5 DEF Pins
<1> HIDE DEF queued
<1>7. /\ first \in Pins /\ first.mq = Append(pin.mq, m)
      /\ first.active = pin.active /\ first.func = pin.func
      /\ first.waketime = pin.waketime /\ first.on_duration = pin.on_duration
      /\ first.off_duration = pin.off_duration /\ first.end_time = m.waketime
      /\ first.on = pin.on /\ first.toggling = pin.toggling
      /\ first.check_end = TRUE /\ first.level = pin.level
  BY <1>3, <1>6 DEF Pins
<1> HIDE DEF first
<1>8. /\ last \in Pins /\ last.mq = Append(pin.mq, m)
      /\ last.active = TRUE /\ last.func = "load"
      /\ last.waketime = m.waketime /\ last.on_duration = pin.on_duration
      /\ last.off_duration = pin.off_duration /\ last.end_time = m.waketime
      /\ last.on = pin.on /\ last.toggling = pin.toggling
      /\ last.check_end = TRUE /\ last.level = pin.level
  BY <1>3, <1>7 DEF Pins
<1> HIDE DEF last
<1>9. /\ pin' \in Pins /\ pin'.mq = Append(pin.mq, m)
      /\ pin'.on_duration = pin.on_duration /\ pin'.off_duration = pin.off_duration
      /\ pin'.on = pin.on /\ pin'.toggling = pin.toggling /\ pin'.level = pin.level
  BY <1>2, <1>6, <1>7, <1>8
<1>10. Len(pin'.mq) <= Slots
  BY <1>2, <1>4, <1>5, <1>9
<1>11. m.waketime >= now
  <2>1. CASE pin.mq # <<>>
    <3>1. Len(pin.mq) \in 1..Len(pin.mq)
      BY <1>4, <2>1
    <3>2. pin.mq[Len(pin.mq)].waketime >= now /\ pin.mq[Len(pin.mq)].waketime <= m.waketime
      BY <3>1 DEF PinsInv, QueueInv
    <3>3. pin.mq[Len(pin.mq)].waketime \in Nat
      BY <1>4, <3>1, ClockTypes
    <3> QED BY <1>3, <3>2, <3>3
  <2>2. CASE GoesOn(m)
    BY <1>3, <1>4, <2>2 DEF GoesOn, PinsInv, TimerInv
  <2>3. CASE ~(m.waketime < now)
    BY <1>3, <2>3
  <2> QED BY <2>3
<1>12. /\ QueueInv'
       /\ settings' \in Seq(Settings) /\ Len(settings') >= 1
       /\ m.waketime > now => settings' = Append(settings, m)
       /\ InEffect => InEffect' /\ settings'[1].waketime >= settings[1].waketime
  BY <1>9, <1>11, QueueGrows DEF PinsInv
(* The timer is left alone, or wakes for the setting: no later than it was to
   toggle. *)
<1>13. \/ /\ pin'.active = pin.active /\ pin'.func = pin.func
          /\ pin'.waketime = pin.waketime
       \/ /\ pin.mq = <<>> /\ pin'.active /\ pin'.func = "load"
          /\ pin'.waketime = m.waketime
          /\ pin'.check_end /\ pin'.end_time = m.waketime
          /\ pin.toggling => m.waketime <= pin.waketime
  BY <1>2, <1>3, <1>4, <1>6, <1>7, <1>8 DEF GoesOn
<1>14. \/ pin.mq # <<>> /\ pin'.end_time = pin.end_time /\ pin'.check_end = pin.check_end
       \/ /\ pin.mq = <<>> /\ pin'.end_time = m.waketime /\ pin'.check_end
          /\ pin.check_end => m.waketime <= pin.end_time
  BY <1>2, <1>3, <1>4, <1>6, <1>7, <1>8
<1>15. pin'.mq # <<>> /\ pin'.mq[1] = IF pin.mq = <<>> THEN m ELSE pin.mq[1]
  <2>1. pin.mq = <<>> => Len(pin.mq) = 0
    BY <1>4
  <2>2. pin.mq # <<>> => 1 \in 1..Len(pin.mq)
    BY <1>4
  <2> QED BY SMTT(30), <1>4, <1>5, <1>9, <2>1, <2>2
<1>16. TimerInv'
  <2>1. pin'.on = pin'.level
    BY <1>9 DEF PinsInv, TimerInv
  <2>2. pin'.check_end /\ pin'.end_time = pin'.mq[1].waketime
    BY <1>14, <1>15 DEF PinsInv, TimerInv
  <2>3. CASE pin.mq # <<>>
    <3>1. /\ pin'.active = pin.active /\ pin'.func = pin.func
          /\ pin'.waketime = pin.waketime /\ pin'.end_time = pin.end_time
          /\ pin'.check_end = pin.check_end
      BY <1>13, <1>14, <2>3
    <3> QED BY <1>9, <1>15, <2>1, <2>2, <2>3, <3>1 DEF PinsInv, TimerInv
  <2>4. CASE pin.mq = <<>> /\ GoesOn(m)
    <3>1. /\ pin'.active = pin.active /\ pin'.func = pin.func
          /\ pin'.waketime = pin.waketime /\ pin'.end_time = m.waketime
          /\ pin.waketime < m.waketime /\ pin.toggling
          /\ pin.check_end => m.waketime <= pin.end_time
      BY <1>2, <1>7, <1>14, <2>4 DEF GoesOn
    <3>2. pin.active /\ pin.waketime >= now
      BY <3>1 DEF PinsInv, TimerInv
    <3>3. pin.func = "toggle"
      <4>1. pin.func = "load" => pin.check_end /\ pin.waketime = pin.end_time
        BY <3>2 DEF PinsInv, TimerInv
      <4>2. pin.func \in {"load", "toggle"}
        BY <1>3 DEF Pins
      <4> QED BY <1>3, <1>4, <3>1, <4>1, <4>2
    <3>4. /\ pin'.active /\ pin'.waketime >= now' /\ pin'.func = "toggle" /\ pin'.toggling
          /\ pin'.waketime < pin'.end_time
      BY <1>9, <3>1, <3>2, <3>3
    <3> QED BY <2>1, <2>2, <3>4 DEF TimerInv
  <2>5. CASE pin.mq = <<>> /\ ~GoesOn(m)
    <3>1. /\ pin'.active /\ pin'.func = "load" /\ pin'.waketime = m.waketime
          /\ pin'.end_time = m.waketime
      BY <1>2, <1>8, <2>5
    <3>2. pin'.waketime >= now'
      BY <1>11, <3>1
    <3> QED BY <2>1, <2>2, <3>1, <3>2 DEF TimerInv
  <2> QED BY <2>3, <2>4, <2>5
<1>17. LimitInv'
  <2> SUFFICES ASSUME MaxDuration # 0, pin'.func = "toggle" \/ pin'.level # DefaultOn
               PROVE  /\ pin'.check_end /\ InEffect'
                      /\ pin'.end_time <= settings'[1].waketime + MaxDuration
    BY DEF LimitInv
  <2>1. pin.func = "toggle" \/ pin.level # DefaultOn
    BY <1>9, <1>13
  <2>2. /\ pin.check_end /\ InEffect
        /\ pin.end_time <= settings[1].waketime + MaxDuration
    BY <2>1 DEF PinsInv, LimitInv
  <2>3. pin'.check_end /\ pin'.end_time <= pin.end_time /\ pin'.end_time \in Nat
    <3>1. pin'.check_end
      BY <1>15, <1>16 DEF TimerInv
    <3>2. \/ pin'.end_time = pin.end_time
          \/ pin'.end_time = m.waketime /\ m.waketime <= pin.end_time
      BY <1>14, <2>2
    <3> QED BY <1>3, <1>4, <3>1, <3>2
  <2>4. settings'[1].waketime \in Nat /\ settings[1].waketime \in Nat
    BY <1>3, <1>12, <2>2, ClockTypes DEF InEffect
  <2> QED BY SMTT(30), <1>4, <1>12, <2>2, <2>3, <2>4
<1>18. FollowInv'
  <2> SUFFICES ASSUME pin'.mq[1].waketime > now
               PROVE  IF InEffect' THEN Follows(settings[1])'
                      ELSE pin'.level = DefaultOn /\ ~pin'.toggling
    BY <1>15 DEF FollowInv
  <2>1. m.waketime > now /\ (pin.mq = <<>> \/ pin.mq[1].waketime > now)
    <3>1. CASE pin.mq = <<>>
      BY <1>15, <3>1
    <3>2. CASE pin.mq # <<>>
      <4>1. 1 \in 1..Len(pin.mq)
        BY <1>4, <3>2
      <4>2. pin.mq[1].waketime \in Nat /\ pin.mq[1].waketime <= m.waketime
        BY <1>4, <4>1, ClockTypes
      <4> QED BY <1>3, <1>15, <3>2, <4>2
    <3> QED BY <3>1, <3>2
  <2>2. settings' = Append(settings, m)
    BY <1>12, <2>1
  <2>3. InEffect' => InEffect /\ settings'[1] = settings[1]
    <3>1. CASE settings = <<>>
      <4>1. settings'[1] = m
        BY <2>2, <3>1
      <4> QED BY <1>3, <2>1, <4>1 DEF InEffect
    <3>2. CASE settings # <<>>
      <4>1. settings'[1] = settings[1]
        BY <1>3, <2>2, <3>2
      <4> QED BY <3>2, <4>1 DEF InEffect
    <3> QED BY <3>1, <3>2
  <2>4. CASE InEffect'
    <3>1. Follows(settings[1])
      BY <2>1, <2>3, <2>4 DEF PinsInv, FollowInv
    <3>2. pin'.func = "toggle" => pin.func = "toggle" /\ pin'.waketime = pin.waketime
      BY <1>13
    <3>3. pin.toggling => pin'.waketime <= pin.waketime
      BY <1>4, <1>13
    <3>4. CASE Pwm(settings[1])
      <4>1. Cycles(settings[1]) /\ pin.toggling
        BY <3>1, <3>4 DEF Follows
      <4>2. PICK k \in Nat :
              LET start == settings[1].waketime + CycleTime * k
                  off   == start + settings[1].on_duration
                  end   == start + CycleTime
              IN  /\ pin.func = "toggle" =>
                       /\ pin.on_duration = settings[1].on_duration
                       /\ pin.off_duration = CycleTime - settings[1].on_duration
                  /\ IF pin.level
                     THEN /\ start <= now /\ pin.waketime <= off
                          /\ pin.func = "toggle" => pin.waketime = off
                     ELSE /\ off <= now /\ pin.waketime <= end
                          /\ pin.func = "toggle" => pin.waketime = end
        BY <4>1 DEF Cycles
      <4> DEFINE p == CycleTime * k
      <4>3. p \in Nat
        OBVIOUS
      <4> HIDE DEF p
      <4>4. settings[1].waketime \in Nat /\ settings[1].on_duration \in Nat
            /\ pin'.waketime \in Nat
        <5>1. settings[1] \in Settings
          BY <1>3, <2>3, <2>4 DEF InEffect
        <5> QED BY SMTT(30), <1>9, <5>1 DEF Settings, Pins, Powers
      <4>5. Cycles(settings[1])'
        <5>1. /\ settings'[1] = settings[1] /\ pin'.level = pin.level
              /\ pin'.waketime <= pin.waketime
          BY <1>9, <2>3, <2>4, <3>3, <4>1
        <5>2. \A x \in Nat : pin.waketime <= x => pin'.waketime <= x
          BY <1>4, <4>4, <5>1
        <5>3. /\ settings[1].waketime + p + settings[1].on_duration \in Nat
              /\ settings[1].waketime + p + CycleTime \in Nat
          BY SMTT(30), <4>3, <4>4
        <5> QED BY <1>9, <3>2, <4>2, <5>1, <5>2, <5>3 DEF Cycles, p
      <4> QED BY <1>9, <2>3, <2>4, <3>1, <3>4, <4>5 DEF Follows, Pwm
    <3>5. CASE ~Pwm(settings[1])
      BY <1>9, <2>3, <2>4, <3>1, <3>5 DEF Follows, Pwm
    <3> QED BY <3>4, <3>5
  <2>5. CASE ~InEffect'
    <3>1. ~InEffect
      BY <1>12, <2>5
    <3> QED BY <1>9, <2>1, <2>5, <3>1 DEF PinsInv, FollowInv
  <2> QED BY <2>4, <2>5
<1> QED BY <1>9, <1>10, <1>12, <1>16, <1>17, <1>18 DEF PinsInv

(* As long as no setting has come late none has to wait behind the head of
   the timer list. *)
LEMMA DeliveredOnTime ==
  ASSUME PinTypes, ~held, Deliver, ~late'
  PROVE  /\ ~(wire[1].setting.waketime < now) /\ ~held'
         /\ QueueDigitalOut(wire[1].setting, now)
         /\ settings' = InForce(Append(settings, wire[1].setting), now)
<1> DEFINE m == wire[1].setting
<1>1. /\ wire # <<>> /\ Head(wire) = wire[1]
  <2>1. wire # <<>> /\ wire \in Seq(Commands)
    BY DEF Deliver, PinTypes
  <2> QED BY <2>1, TailProps
<1>2. ~(m.waketime < now) /\ QueueDigitalOut(m, now)
  BY <1>1 DEF Deliver
<1>3. ~held'
  <2> DEFINE queued == [pin EXCEPT !.mq = Append(@, m)]
             first  == [queued EXCEPT !.end_time = m.waketime, !.check_end = TRUE]
             last   == [first EXCEPT !.active = TRUE, !.func = "load",
                                     !.waketime = m.waketime]
  <2>1. last.waketime = m.waketime
    BY DEF PinTypes, Pins
  <2>2. \/ held' = held \/ AddTimer(last, now)
        \/ PinShutdown("Move queue overflow")
        \/ PinShutdown("Scheduled digital out event will exceed max_duration")
    <3> HIDE DEF m
    <3> QED BY <1>2, Zenon DEF QueueDigitalOut
  <2> HIDE DEF queued, first, last, m
  <2>3. AddTimer(last, now) => ~held'
    BY <1>2, <2>1, AddedOnTime
  <2> QED BY <2>2, <2>3 DEF PinShutdown
<1>4. settings' = InForce(Append(settings, m), now)
  BY <1>1, <1>3 DEF Deliver
<1> QED BY <1>2, <1>3, <1>4

LEMMA DeliverKeeps ==
  ASSUME IInv, Deliver, ~late'
  PROVE  IInv'
<1> DEFINE m == wire[1].setting
<1>1. /\ shut = "none" /\ wire # <<>> /\ wire' = Tail(wire)
      /\ UNCHANGED <<hostVars, now, reports>>
  BY DEF Deliver
<1>2. HostTypes /\ PinTypes /\ HostInv /\ WireInv /\ PinsInv
  BY <1>1 DEF IInv
<1>3. HostTypes' /\ HostInv'
  BY <1>1, <1>2, HostStays
<1>4. /\ wire \in Seq(Commands) /\ settings \in Seq(Settings) /\ pin.mq \in Seq(Settings)
      /\ now \in Nat /\ last_clock \in Nat
  BY <1>2 DEF PinTypes, Pins, HostTypes
<1>5. /\ Head(wire) = wire[1] /\ wire[1] \in Commands
      /\ wire' \in Seq(Commands) /\ Len(wire) \in Nat /\ Len(wire) >= 1
      /\ Len(wire') = Len(wire) - 1
      /\ \A i \in 1..Len(wire') : i + 1 \in 1..Len(wire) /\ wire'[i] = wire[i+1]
  BY <1>1, <1>4, TailProps
<1>6. m \in Settings /\ 1 \in 1..Len(wire) /\ m.waketime \in Nat
  <2>1. 1 \in 1..Len(wire)
    BY <1>5
  <2> QED BY <1>4, <2>1, ClockTypes
<1>7. /\ \A i \in 1..Len(settings) : settings[i].waketime <= m.waketime
      /\ \A i \in 1..Len(pin.mq) : pin.mq[i].waketime <= m.waketime
      /\ m.waketime <= last_clock
      /\ \A j \in 1..Len(wire') : m.waketime <= wire'[j].setting.waketime
  <2>1. \A j \in 1..Len(wire) : m.waketime <= wire[j].setting.waketime
    BY <1>2, <1>6 DEF WireInv
  <2> QED BY <1>2, <1>5, <1>6, <2>1 DEF WireInv, Before
<1>8. /\ QueueDigitalOut(m, now)
      /\ settings' = InForce(Append(settings, m), now)
      /\ ~(m.waketime < now) /\ ~held'
  BY <1>2, DeliveredOnTime DEF IInv
<1> HIDE DEF m
<1>9. /\ settings' \in Seq(Settings)
      /\ \A i \in 1..Len(settings') :
           settings'[i] = m \/ \E k \in 1..Len(settings) : settings'[i] = settings[k]
  <2> DEFINE s == Append(settings, m)
  <2>1. /\ s \in Seq(Settings) /\ Len(settings) \in Nat /\ Len(s) = Len(settings) + 1
        /\ \A i \in 1..Len(settings) : s[i] = settings[i]
        /\ s[Len(settings) + 1] = m
    BY <1>4, <1>6, AppendProps
  <2>2. settings' = InForce(s, now)
    BY <1>8
  <2> HIDE DEF s
  <2>3. Ascending(s)
    <3>1. \A i \in 1..Len(s) : i \in 1..Len(settings) \/ i = Len(settings) + 1
      BY <2>1
    <3>2. \A i \in 1..Len(s) : s[i].waketime <= m.waketime
      BY <1>6, <1>7, <2>1, <3>1
    <3> SUFFICES ASSUME NEW i \in 1..Len(s), NEW j \in 1..Len(s), i <= j
                 PROVE  s[i].waketime <= s[j].waketime
      BY DEF Ascending
    <3>3. CASE j \in 1..Len(settings)
      BY <1>2, <2>1, <3>1, <3>3 DEF PinsInv, QueueInv, Ascending
    <3>4. CASE j = Len(settings) + 1
      BY <2>1, <3>2, <3>4
    <3> QED BY <3>1, <3>3, <3>4
  <2>4. Trimmed(s, now, settings')
    BY <1>4, <2>1, <2>2, <2>3, InForceProps
  <2>5. \A k \in 1..Len(s) : k \in 1..Len(settings) \/ k = Len(settings) + 1
    BY <2>1
  <2> QED BY <2>1, <2>4, <2>5 DEF Trimmed
<1>10. CASE shut' = "none"
  <2>1. /\ pin' \in Pins /\ Len(pin'.mq) <= Slots /\ pin'.mq = Append(pin.mq, m)
        /\ PinsInv'
    BY <1>1, <1>2, <1>6, <1>7, <1>8, <1>10, QueueKeeps
  <2>2. PinTypes'
    BY <1>5, <1>9, <2>1 DEF PinTypes
  <2>3. /\ Len(pin.mq) \in Nat /\ Len(pin'.mq) = Len(pin.mq) + 1
        /\ \A i \in 1..Len(pin.mq) : pin'.mq[i] = pin.mq[i]
        /\ pin'.mq[Len(pin.mq) + 1] = m
        /\ \A i \in 1..Len(pin'.mq) : i \in 1..Len(pin.mq) \/ i = Len(pin.mq) + 1
    <3>1. pin.mq \in Seq(Settings) /\ Len(pin.mq) \in Nat
      BY <1>4
    <3> QED BY <1>6, <2>1, <3>1, AppendProps
  <2>4. last_clock' = last_clock
    BY <1>1 DEF hostVars
  <2>5. Before(settings)'
    BY <1>2, <1>5, <1>7, <1>9, <2>4 DEF WireInv, Before
  <2>6. Before(pin.mq)'
    BY <1>2, <1>5, <1>7, <2>3, <2>4 DEF WireInv, Before
  <2>7. \A i, j \in 1..Len(wire') :
          i <= j => wire'[i].setting.waketime <= wire'[j].setting.waketime
    <3>1. \A i, j \in 1..Len(wire) :
            i <= j => wire[i].setting.waketime <= wire[j].setting.waketime
      BY <1>2 DEF WireInv
    <3>2. \A i, j \in 1..Len(wire') : i <= j => i + 1 <= j + 1
      BY <1>5
    <3> QED BY <1>5, <3>1, <3>2
  <2>8. WireInv'
    BY <1>2, <1>5, <2>4, <2>5, <2>6, <2>7 DEF WireInv
  <2> QED BY <1>3, <1>8, <1>10, <2>1, <2>2, <2>8 DEF IInv
<1>11. CASE shut' # "none"
  <2>1. \E reason : reason # "none" /\ PinShutdown(reason)
    <3>1. \/ PinShutdown("Move queue overflow")
          \/ PinShutdown("Scheduled digital out event will exceed max_duration")
          \/ PinShutdown("Timer too close")
      BY <1>1, <1>8, <1>11 DEF QueueDigitalOut, AddTimer
    <3> QED BY <3>1
  <2> QED BY <1>2, <1>3, <1>5, <1>9, <2>1, ShutdownKeeps
<1> QED BY <1>10, <1>11

-----------------------------------------------------------------------------
(* Time *)

(* No event of the pin is passed over: what is queued is still to come, and
   only settings that are no longer in force are forgotten. *)
LEMMA PinsTick ==
  ASSUME HostTypes, PinTypes, PinsInv, ~(pin.active /\ pin.waketime <= now),
         now' = now + 1, pin' = pin, settings' = InForce(settings, now')
  PROVE  /\ settings' \in Seq(Settings)
         /\ \A i \in 1..Len(settings') :
              \E k \in 1..Len(settings) : settings'[i] = settings[k]
         /\ PinsInv'
<1> USE DigitalOutAssumption
<1> DEFINE n == Len(settings)
           q == Len(pin.mq)
           r == Len(settings')
<1>1. /\ settings \in Seq(Settings) /\ pin.mq \in Seq(Settings) /\ now \in Nat
      /\ n \in Nat /\ q \in Nat /\ pin.waketime \in Nat /\ pin.end_time \in Nat
      /\ pin.func \in {"load", "toggle"}
      /\ now' \in Nat
  BY DEF HostTypes, PinTypes, Pins
<1>2. /\ \A i \in 1..n : settings[i].waketime \in Nat
      /\ \A j \in 1..q : pin.mq[j].waketime \in Nat
  BY <1>1, ClockTypes
<1>3. /\ Ascending(settings) /\ Ascending(pin.mq)
      /\ \A i \in 1..n, j \in 1..q : n - i = q - j => settings[i] = pin.mq[j]
      /\ n <= q + 1 /\ (q > 0 => n > 0)
      /\ n > 0 /\ n # q => settings[1].waketime <= now
  BY DEF PinsInv, QueueInv
<1>4. pin.active => pin.waketime >= now + 1
  BY <1>1
<1>5. \A j \in 1..q : pin.mq[j].waketime >= now + 1
  <2> SUFFICES ASSUME NEW j \in 1..q  PROVE pin.mq[j].waketime >= now + 1
    OBVIOUS
  <2>1. pin.mq # <<>> /\ 1 \in 1..q
    BY <1>1
  <2>2. pin.active /\ pin.check_end /\ pin.end_time = pin.mq[1].waketime
    BY <2>1 DEF PinsInv, TimerInv
  <2>3. pin.func = "load" => pin.waketime = pin.end_time
    BY <2>2 DEF PinsInv, TimerInv
  <2>4. pin.func = "toggle" => pin.waketime < pin.end_time
    BY <2>2 DEF PinsInv, TimerInv
  <2>5. pin.mq[1].waketime >= now + 1
    BY <1>1, <1>4, <2>2, <2>3, <2>4
  <2>6. pin.mq[1].waketime <= pin.mq[j].waketime
    BY <1>1, <1>3, <2>1 DEF Ascending
  <2> QED BY <1>1, <1>2, <2>1, <2>5, <2>6
<1>6. n = q + 1 \/ (n = q /\ (n > 0 => settings[1] = pin.mq[1]))
  <2>1. CASE n < q
    <3> DEFINE k == q - n + 1
    <3>1. n >= 1 /\ n # q /\ 1 \in 1..n /\ k \in 1..q /\ n - 1 = q - k
      BY <1>1, <1>3, <2>1
    <3> HIDE DEF k
    <3>2. settings[1] = pin.mq[k]
      BY <1>3, <3>1
    <3>3. pin.mq[k].waketime >= now + 1
      BY <1>5, <3>1
    <3>4. settings[1].waketime <= now
      BY <1>1, <1>3, <3>1
    <3>5. settings[1].waketime \in Nat
      BY <1>2, <3>1
    <3> QED BY <1>1, <3>2, <3>3, <3>4, <3>5
  <2>2. CASE n = q
    <3>1. n > 0 => 1 \in 1..n /\ 1 \in 1..q
      BY <1>1, <2>2
    <3> QED BY <1>3, <2>2, <3>1
  <2> QED BY <1>1, <1>3, <2>1, <2>2
<1>7. Trimmed(settings, now', settings')
  BY <1>1, <1>3, InForceProps
<1>8. /\ settings' \in Seq(Settings) /\ r \in Nat /\ r <= n
      /\ n > 0 => r >= 1
      /\ \A i \in 1..r : n - r + i \in 1..n /\ settings'[i] = settings[n - r + i]
      /\ \A i \in 1..r : i >= 2 => settings'[i].waketime > now'
      /\ r < n => r >= 1 /\ settings'[1].waketime <= now'
  <2>1. n > 0 => settings # <<>>
    BY <1>1
  <2> QED BY <1>7, <2>1 DEF Trimmed
<1>9. r = n => settings' = settings
  <2>1. r = n => \A i \in 1..n : n - r + i = i
    BY <1>1
  <2>2. r = n => \A i \in 1..r : settings'[i] = settings[i]
    BY <1>8, <2>1
  <2> QED BY <1>1, <1>8, <2>2
<1>10. QueueInv'
  <2>1. Ascending(settings)'
    <3>1. \A i, j \in 1..r : i <= j => n - r + i <= n - r + j
      BY <1>1, <1>8
    <3>2. \A i, j \in 1..n : i <= j => settings[i].waketime <= settings[j].waketime
      BY <1>3 DEF Ascending
    <3>3. \A i, j \in 1..r : i <= j => settings'[i].waketime <= settings'[j].waketime
      <4> SUFFICES ASSUME NEW i \in 1..r, NEW j \in 1..r, i <= j
                   PROVE  settings'[i].waketime <= settings'[j].waketime
        OBVIOUS
      <4>1. /\ settings'[i] = settings[n - r + i] /\ n - r + i \in 1..n
            /\ settings'[j] = settings[n - r + j] /\ n - r + j \in 1..n
        BY <1>8
      <4>2. n - r + i <= n - r + j
        BY <3>1
      <4> QED BY <3>2, <4>1, <4>2
    <3> QED BY <3>3 DEF Ascending
  <2>2. Ascending(pin.mq)'
    BY <1>3 DEF Ascending
  <2>3. \A i \in 1..r, j \in 1..q : r - i = q - j => settings'[i] = pin.mq[j]
    <3> SUFFICES ASSUME NEW i \in 1..r, NEW j \in 1..q, r - i = q - j
                 PROVE  settings'[i] = pin.mq[j]
      OBVIOUS
    <3>1. settings'[i] = settings[n - r + i] /\ n - r + i \in 1..n
      BY <1>8
    <3>2. n - (n - r + i) = q - j
      BY <1>1, <1>8
    <3> QED BY <1>3, <3>1, <3>2
  <2>4. r <= q + 1 /\ (q > 0 => r > 0)
    BY <1>1, <1>3, <1>8
  <2>5. r > 0 /\ r # q => settings'[1].waketime <= now'
    <3>1. CASE r < n
      BY <1>8, <3>1
    <3>2. CASE r = n
      <4> SUFFICES ASSUME r > 0, r # q  PROVE settings'[1].waketime <= now'
        OBVIOUS
      <4>1. settings'[1] = settings[1] /\ settings[1].waketime <= now /\ 1 \in 1..n
        BY <1>1, <1>3, <1>9, <3>2
      <4> QED BY <1>1, <1>2, <4>1
    <3> QED BY <1>1, <1>8, <3>1, <3>2
  <2>6. \A j \in 1..q : pin.mq[j].waketime >= now'
    BY <1>5
  <2> QED BY <1>8, <2>1, <2>2, <2>3, <2>4, <2>5, <2>6 DEF QueueInv
<1>11. InEffect => /\ InEffect' /\ settings'[1].waketime \in Nat
                   /\ settings[1].waketime \in Nat
                   /\ settings'[1].waketime >= settings[1].waketime
  <2> SUFFICES ASSUME InEffect
               PROVE  /\ InEffect' /\ settings'[1].waketime \in Nat
                      /\ settings[1].waketime \in Nat
                      /\ settings'[1].waketime >= settings[1].waketime
    OBVIOUS
  <2>1. n >= 1 /\ 1 \in 1..n /\ settings[1].waketime <= now
    BY <1>1 DEF InEffect
  <2>2. r >= 1 /\ 1 \in 1..r /\ n - r + 1 \in 1..n /\ settings'[1] = settings[n - r + 1]
    BY <1>8, <2>1
  <2>3. settings[1].waketime <= settings[n - r + 1].waketime
    BY <1>3, <2>1, <2>2 DEF Ascending
  <2>4. settings'[1].waketime <= now'
    BY <1>1, <1>2, <1>8, <1>9, <2>1
  <2>5. settings' # <<>>
    BY <2>2
  <2> QED BY <1>2, <2>1, <2>2, <2>3, <2>4, <2>5 DEF InEffect
<1>12. TimerInv'
  BY <1>1, <1>4 DEF PinsInv, TimerInv
<1>13. LimitInv'
  <2> SUFFICES ASSUME MaxDuration # 0, pin.func = "toggle" \/ pin.level # DefaultOn
               PROVE  /\ pin.check_end /\ InEffect'
                      /\ pin.end_time <= settings'[1].waketime + MaxDuration
    BY DEF LimitInv
  <2>1. /\ pin.check_end /\ InEffect
        /\ pin.end_time <= settings[1].waketime + MaxDuration
    BY DEF PinsInv, LimitInv
  <2> QED BY SMTT(30), <1>1, <1>11, <2>1
<1>14. FollowInv'
  <2> SUFFICES ASSUME pin.mq = <<>> \/ pin.mq[1].waketime > now + 1
               PROVE  IF InEffect' THEN Follows(settings[1])'
                      ELSE pin.level = DefaultOn /\ ~pin.toggling
    BY DEF FollowInv
  <2>1. \A j \in 1..q : pin.mq[j].waketime > now + 1
    <3>1. q > 0 => pin.mq[1].waketime > now + 1 /\ 1 \in 1..q
      BY <1>1
    <3>2. \A j \in 1..q : pin.mq[1].waketime <= pin.mq[j].waketime
      BY <1>1, <1>3 DEF Ascending
    <3> QED BY <1>1, <1>2, <3>1, <3>2
  <2>2. r = n
    <3> SUFFICES ASSUME r < n  PROVE FALSE
      BY <1>1, <1>8
    <3> DEFINE k == n - r + 1
    <3>1. k \in 2..n /\ k \in 1..n /\ settings'[1] = settings[k] /\ settings'[1].waketime <= now + 1
      BY <1>1, <1>8
    <3> HIDE DEF k
    <3>2. q - n + k \in 1..q /\ n - k = q - (q - n + k)
      BY <1>1, <1>6, <3>1
    <3>3. settings[k] = pin.mq[q - n + k]
      BY <1>3, <3>1, <3>2
    <3>4. pin.mq[q - n + k].waketime > now + 1 /\ pin.mq[q - n + k].waketime \in Nat
      BY <1>2, <2>1, <3>2
    <3> QED BY <1>1, <3>1, <3>3, <3>4
  <2>3. settings' = settings
    BY <1>9, <2>2
  <2>4. pin.mq = <<>> \/ pin.mq[1].waketime > now
    <3>1. pin.mq # <<>> => 1 \in 1..q
      BY <1>1
    <3> QED BY <1>1, <1>2, <2>1, <3>1
  <2>5. InEffect' => InEffect
    <3> SUFFICES ASSUME InEffect'  PROVE InEffect
      OBVIOUS
    <3>1. settings # <<>> /\ settings[1].waketime <= now + 1 /\ n >= 1 /\ 1 \in 1..n
      BY <1>1, <2>3 DEF InEffect
    <3>2. n # q
      <4>1. n = q => settings[1] = pin.mq[1] /\ 1 \in 1..q
        BY <1>1, <1>6, <3>1
      <4> QED BY <1>1, <1>2, <2>1, <3>1, <4>1
    <3> QED BY <1>3, <3>1, <3>2 DEF InEffect
  <2>6. CASE InEffect'
    <3>1. Follows(settings[1])
      BY <2>4, <2>5, <2>6 DEF PinsInv, FollowInv
    <3>2. Cycles(settings[1]) => Cycles(settings[1])'
      <4>1. settings[1] \in Settings
        BY <1>1, <2>3, <2>6 DEF InEffect
      <4>2. settings[1].waketime \in Nat /\ settings[1].on_duration \in Nat
        BY <4>1 DEF Settings, Powers
      <4>3. \A x \in Nat : x <= now => x <= now'
        BY <1>1
      <4>4. \A k \in Nat : /\ settings[1].waketime + CycleTime * k \in Nat
                           /\ settings[1].waketime + CycleTime * k + settings[1].on_duration \in Nat
        BY SMTT(30), <4>2
      <4> QED BY <2>3, <4>3, <4>4 DEF Cycles
    <3>3. CASE Pwm(settings[1])
      BY <2>3, <2>6, <3>1, <3>2, <3>3 DEF Follows, Pwm
    <3>4. CASE ~Pwm(settings[1])
      BY <2>3, <2>6, <3>1, <3>4 DEF Follows, Pwm
    <3> QED BY <3>3, <3>4
  <2>7. CASE ~InEffect'
    <3>1. ~InEffect
      BY <1>11, <2>7
    <3> QED BY <2>4, <2>7, <3>1 DEF PinsInv, FollowInv
  <2> QED BY <2>6, <2>7
<1>15. \A i \in 1..r : \E k \in 1..n : settings'[i] = settings[k]
  BY <1>8
<1> QED BY <1>8, <1>10, <1>12, <1>13, <1>14, <1>15 DEF PinsInv

LEMMA TickKeeps ==
  ASSUME IInv, Tick
  PROVE  IInv'
<1> USE DigitalOutAssumption, HeaterAssumption
<1>1. /\ shut = "none" /\ shut' = shut /\ now < Horizon /\ now' = now + 1
      /\ settings' = InForce(settings, now')
      /\ pin' = pin /\ held' = held /\ wire' = wire /\ UNCHANGED hostVars
      /\ \/ reports' = reports
         \/ alive /\ reports' = Append(reports, now')
  BY DEF Tick, digitalVars
<1>2. HostTypes /\ PinTypes /\ HostInv /\ WireInv /\ PinsInv
  BY <1>1 DEF IInv
<1>3. /\ settings' \in Seq(Settings)
      /\ \A i \in 1..Len(settings') :
           \E k \in 1..Len(settings) : settings'[i] = settings[k]
      /\ PinsInv'
  <2>1. ~(pin.active /\ pin.waketime + 0 <= now)
    BY DEF Tick, IInv
  <2>2. pin.waketime \in Nat
    BY <1>2 DEF PinTypes, Pins
  <2>3. ~(pin.active /\ pin.waketime <= now)
    BY <2>1, <2>2
  <2> QED BY <1>1, <1>2, <2>3, PinsTick
<1>4. PinTypes'
  BY <1>1, <1>2, <1>3 DEF PinTypes
<1>5. WireInv'
  <2>1. last_clock' = last_clock
    BY <1>1 DEF hostVars
  <2>2. Before(pin.mq)'
    BY <1>1, <1>2, <2>1 DEF WireInv, Before
  <2>3. Before(settings)'
    <3> SUFFICES ASSUME NEW i \in 1..Len(settings')
                 PROVE  /\ settings'[i].waketime <= last_clock
                        /\ \A j \in 1..Len(wire) :
                             settings'[i].waketime <= wire[j].setting.waketime
      BY <1>1, <2>1 DEF Before
    <3>1. PICK k \in 1..Len(settings) : settings'[i] = settings[k]
      BY <1>3
    <3> QED BY <1>2, <3>1 DEF WireInv, Before
  <2> QED BY <1>1, <1>2, <2>1, <2>2, <2>3 DEF WireInv
<1>6. now' \in 1..Horizon /\ now \in Nat /\ reports \in Seq(Nat) /\ Len(reports) \in Nat
      /\ last_clock \in Nat /\ since \in Nat /\ since <= now /\ last_clock' = last_clock
      /\ since' = since /\ alive' = alive
  BY <1>1, <1>2 DEF HostTypes, HostInv, hostVars
<1>7. \A i \in 1..Len(reports) : reports[i] \in Nat
  BY <1>6
<1>8. CASE reports' = reports
  <2>1. HostTypes'
    BY <1>1, <1>2, <1>6, <1>8 DEF HostTypes, hostVars
  <2>2. HostInv'
    <3>1. \A i \in 1..Len(reports) : reports[i] <= now + 1
      BY SMTT(30), <1>2, <1>6, <1>7 DEF HostInv
    <3>2. alive => last_clock <= now + 1 + ReportTime
      BY <1>2, <1>6 DEF HostInv
    <3>3. since <= now + 1
      BY <1>6
    <3> QED BY <1>1, <1>2, <1>6, <1>8, <3>1, <3>2, <3>3 DEF HostInv
  <2> QED BY <1>1, <1>3, <1>4, <1>5, <2>1, <2>2 DEF IInv
<1>9. CASE alive /\ reports' = Append(reports, now')
  <2>0. now' \in Nat
    BY <1>1, <1>6
  <2>1. /\ reports' \in Seq(Nat) /\ Len(reports') = Len(reports) + 1
        /\ \A i \in 1..Len(reports) : reports'[i] = reports[i]
        /\ reports'[Len(reports) + 1] = now'
        /\ \A i \in 1..Len(reports') : i \in 1..Len(reports) \/ i = Len(reports) + 1
    BY <1>6, <1>9, <2>0, AppendProps
  <2>2. HostTypes'
    BY <1>1, <1>2, <1>6, <2>1 DEF HostTypes, hostVars
  <2>3. last_clock <= now + ReportTime
    BY <1>2, <1>9 DEF HostInv
  <2>4. \A i \in 1..Len(reports') : reports'[i] <= now' /\ last_clock <= reports'[i] + ReportTime
    <3>1. \A i \in 1..Len(reports) : reports[i] <= now' /\ last_clock <= reports[i] + ReportTime
      <4>1. \A i \in 1..Len(reports) : reports[i] <= now /\ last_clock <= reports[i] + ReportTime
        BY <1>2 DEF HostInv
      <4> QED BY SMTT(30), <1>1, <1>6, <1>7, <4>1
    <3>2. now' <= now' /\ last_clock <= now' + ReportTime
      BY SMTT(30), <1>1, <1>6, <2>3
    <3> QED BY <2>1, <3>1, <3>2
  <2>5. \A i, j \in 1..Len(reports') : i <= j => reports'[i] <= reports'[j]
    <3> SUFFICES ASSUME NEW i \in 1..Len(reports'), NEW j \in 1..Len(reports'), i <= j
                 PROVE  reports'[i] <= reports'[j]
      OBVIOUS
    <3>1. CASE j \in 1..Len(reports)
      <4>1. \A k, l \in 1..Len(reports) : k <= l => reports[k] <= reports[l]
        BY <1>2 DEF HostInv
      <4>2. i \in 1..Len(reports)
        BY <1>6, <3>1
      <4> QED BY <2>1, <3>1, <4>1, <4>2
    <3>2. CASE j = Len(reports) + 1
      BY <2>1, <2>4, <3>2
    <3> QED BY <2>1, <3>1, <3>2
  <2>6. HostInv'
    <3>1. last_clock <= now' + ReportTime /\ since <= now'
      BY <1>1, <1>6, <2>3
    <3> QED BY <1>6, <1>9, <2>4, <2>5, <3>1 DEF HostInv
  <2> QED BY <1>1, <1>3, <1>4, <1>5, <2>2, <2>6 DEF IInv
<1> QED BY <1>1, <1>8, <1>9

-----------------------------------------------------------------------------
(* Theorems *)

LEMMA InitEstablishes ==
  ASSUME Init
  PROVE  IInv
<1> USE DigitalOutAssumption, HeaterAssumption
<1>1. /\ pin = [active |-> FALSE, func |-> "load", waketime |-> 0,
                on_duration |-> 0, off_duration |-> 0, end_time |-> 0,
                mq |-> <<>>, on |-> DefaultOn, toggling |-> FALSE,
                check_end |-> FALSE, level |-> DefaultOn]
      /\ shut = "none" /\ now = 1 /\ reports = <<>> /\ wire = <<>> /\ settings = <<>>
      /\ ~held /\ alive = TRUE /\ since = 0 /\ target = FALSE
      /\ last_pwm_value = 0 /\ next_pwm_time = 0 /\ last_clock = 0
  BY DEF Init, PinInit
<1>2. 0 \in Powers /\ 1 \in 1..Horizon
  BY DEF Powers
<1>3. HostTypes
  <2>1. TRUE \in BOOLEAN /\ FALSE \in BOOLEAN /\ <<>> \in Seq(Nat)
    OBVIOUS
  <2> QED BY <1>1, <1>2, <2>1 DEF HostTypes
<1>4. pin \in Pins
  <2>1. TRUE \in BOOLEAN /\ FALSE \in BOOLEAN /\ DefaultOn \in BOOLEAN
        /\ <<>> \in Seq(Settings) /\ "load" \in {"load", "toggle"}
    OBVIOUS
  <2> QED BY <1>1, <1>2, <2>1 DEF Pins
<1>5. pin.mq = <<>> /\ Len(pin.mq) = 0 /\ Len(pin.mq) <= Slots /\ Len(settings) = 0
      /\ Len(wire) = 0 /\ Len(reports) = 0
  BY <1>1
<1>6. PinTypes
  BY <1>1, <1>4, <1>5 DEF PinTypes
<1>7. HostInv /\ WireInv
  BY <1>1, <1>5 DEF HostInv, WireInv, Before
<1>8. QueueInv
  BY <1>5 DEF QueueInv, Ascending
<1>9. ~InEffect
  BY <1>1 DEF InEffect
<1>10. TimerInv /\ LimitInv /\ FollowInv
  BY <1>1, <1>9 DEF TimerInv, LimitInv, FollowInv
<1> QED BY <1>1, <1>3, <1>6, <1>7, <1>8, <1>10 DEF IInv, PinsInv

(* A setting that came late stays the first one that did. *)
LEMMA LateStays ==
  ASSUME [Next]_vars, ~late'
  PROVE  ~late
BY DEF Next, SetTemp, TemperatureCallback, Crash, Restart, Deliver, PinTimer,
       OtherShutdown, Tick, pastVars, vars

LEMMA NextKeeps ==
  ASSUME HostTiming, IInv, [Next]_vars, ~late'
  PROVE  IInv'
<1>1. CASE Next
  BY <1>1, SetTempKeeps, TemperatureCallbackKeeps, CrashKeeps, RestartKeeps,
     DeliverKeeps, PinTimerKeeps, OtherShutdownKeeps, TickKeeps DEF Next
<1>2. CASE UNCHANGED vars
  <2>1. UNCHANGED <<pin, shut, held, now, reports, wire, settings, alive, since,
                    target, last_pwm_value, next_pwm_time, last_clock>>
    BY <1>2 DEF vars, digitalVars, hostVars, pastVars
  <2>2. PinsInv => PinsInv'
    BY <2>1, PinsStay
  <2>3. /\ HostTypes => HostTypes'
        /\ PinTypes => PinTypes'
        /\ HostInv => HostInv'
        /\ WireInv => WireInv'
    BY <2>1 DEF HostTypes, PinTypes, HostInv, WireInv, Before
  <2> QED BY <2>1, <2>2, <2>3 DEF IInv
<1> QED BY <1>1, <1>2

(* The setting in force is the first one of settings. *)
LEMMA CurrentIsFirst ==
  ASSUME IInv, shut = "none"
  PROVE  /\ (Begun # {}) <=> InEffect
         /\ InEffect => Current = settings[1]
<1>1. /\ settings \in Seq(Settings) /\ now \in Nat /\ Len(settings) \in Nat
      /\ DOMAIN settings = 1..Len(settings)
      /\ \A i \in 1..Len(settings) : i >= 2 => settings[i].waketime > now
  BY DEF IInv, PinTypes, HostTypes, PinsInv, QueueInv
<1>2. \A i \in 1..Len(settings) : settings[i].waketime \in Nat
  BY <1>1, ClockTypes
<1>3. \A i \in Begun : i = 1
  BY <1>1, <1>2 DEF Begun
<1>4. 1 \in Begun <=> InEffect
  BY <1>1 DEF Begun, InEffect
<1>5. Begun # {} <=> 1 \in Begun
  BY <1>3
<1>6. ASSUME InEffect  PROVE Current = settings[1]
  <2>1. Begun \in SUBSET (1..1) /\ Begun # {}
    BY <1>3, <1>4, <1>6
  <2>2. Max(Begun) \in Begun
    BY <2>1, MaxIsLast
  <2> QED BY <1>3, <2>2 DEF Current
<1> QED BY <1>4, <1>5, <1>6

(* x + r is r ticks into its cycle when x is a number of whole cycles. *)
LEMMA IntoCycle ==
  ASSUME NEW c \in Nat \ {0}, NEW q \in Nat, NEW r \in 0..(c - 1)
  PROVE  (c * q + r) % c = r
<1> DEFINE a == c * q + r
           k == q - (a \div c)
<1>1. a \in Int /\ c \in Int /\ a = c * q + r
  OBVIOUS
<1> HIDE DEF a
<1>2. a = c * (a \div c) + (a % c) /\ (a \div c) \in Int /\ a % c \in 0..(c - 1)
  BY <1>1
<1>3. c * k = c * q - c * (a \div c) /\ k \in Int
  BY <1>1, <1>2
<1> HIDE DEF k
<1>4. (a % c) - r = c * k
  <2> DEFINE x == c * q
             y == c * (a \div c)
             z == c * k
  <2>1. x \in Int /\ y \in Int /\ z = x - y /\ a = x + r /\ a = y + (a % c)
    BY <1>1, <1>2, <1>3
  <2> HIDE DEF x, y, z
  <2>2. (a % c) - r = z
    BY <1>2, <2>1
  <2> QED BY <2>2 DEF z
<1>5. k = 0
  <2>1. k >= 1 => c * k >= c
    BY <1>3
  <2>2. k <= -1 => c * k <= -c
    BY <1>3
  <2>3. (a % c) - r < c /\ (a % c) - r > -c
    BY <1>2
  <2> QED BY <1>1, <1>3, <1>4, <2>1, <2>2, <2>3
<1> QED BY <1>2, <1>4, <1>5 DEF a

(* The pin is where the setting in force asks for it. *)
LEMMA FollowsSettings ==
  ASSUME IInv
  PROVE  PinFollowsSettings
<1> USE DigitalOutAssumption
<1> SUFFICES ASSUME shut = "none", ~Due
             PROVE  pin.level = Demanded
  BY DEF PinFollowsSettings
<1>1. HostTypes /\ PinTypes /\ PinsInv
  BY DEF IInv
<1>2. /\ pin \in Pins /\ now \in Nat /\ pin.mq \in Seq(Settings) /\ pin.waketime \in Nat
      /\ pin.end_time \in Nat /\ pin.level \in BOOLEAN /\ settings \in Seq(Settings)
      /\ pin.func \in {"load", "toggle"}
  BY <1>1 DEF HostTypes, PinTypes, Pins
<1>3. pin.active => pin.waketime > now
  BY <1>2 DEF Due
<1>4. pin.mq = <<>> \/ pin.mq[1].waketime > now
  BY <1>1, <1>2, <1>3 DEF PinsInv, TimerInv
<1>5. CASE ~InEffect
  BY <1>1, <1>4, <1>5, CurrentIsFirst DEF Demanded, PinsInv, FollowInv
<1>6. CASE InEffect
  <2> DEFINE m == settings[1]
  <2>1. Follows(m)
    BY <1>1, <1>4, <1>6 DEF PinsInv, FollowInv
  <2>2. Demanded = ((now - m.waketime) % CycleTime < m.on_duration)
    BY <1>6, CurrentIsFirst DEF Demanded
  <2>3. m.waketime \in Nat /\ m.on_duration \in 0..CycleTime /\ m.waketime <= now
    <3>1. m \in Settings /\ m.waketime <= now
      BY <1>2, <1>6 DEF InEffect
    <3> QED BY <3>1 DEF Settings, Powers
  <2> HIDE DEF m
  <2>4. CASE Pwm(m)
    <3>1. pin.toggling /\ Cycles(m) /\ m.on_duration \in 1..(CycleTime - 1)
      BY <2>1, <2>4 DEF Follows, Pwm
    <3>2. now < pin.waketime
      BY <1>1, <1>3, <3>1 DEF PinsInv, TimerInv
    <3>3. PICK k \in Nat :
            IF pin.level
            THEN /\ m.waketime + CycleTime * k <= now
                 /\ pin.waketime <= m.waketime + CycleTime * k + m.on_duration
            ELSE /\ m.waketime + CycleTime * k + m.on_duration <= now
                 /\ pin.waketime <= m.waketime + CycleTime * k + CycleTime
      BY <3>1 DEF Cycles
    <3> DEFINE p == CycleTime * k
               d == now - m.waketime - p
    <3>4. p \in Nat /\ CycleTime * k = p
      OBVIOUS
    <3> HIDE DEF p
    <3>5. CASE pin.level
      <4>0. m.waketime + p <= now /\ pin.waketime <= m.waketime + p + m.on_duration
        BY <3>3, <3>4, <3>5
      <4>1. d \in 0..(CycleTime - 1) /\ d < m.on_duration
        <5>1. p \in Nat /\ now \in Nat /\ pin.waketime \in Nat /\ CycleTime \in Nat
              /\ m.waketime \in Nat /\ m.on_duration \in Nat
              /\ m.on_duration < CycleTime
          BY <1>2, <2>3, <3>1, <3>4
        <5> QED BY <3>2, <4>0, <5>1
      <4>2. CycleTime * k + d = now - m.waketime
        <5>1. p + d = now - m.waketime
          BY <1>2, <2>3, <3>4
        <5> QED BY <3>4, <5>1
      <4> HIDE DEF d
      <4>3. (now - m.waketime) % CycleTime = d
        BY <4>1, <4>2, IntoCycle
      <4> QED BY <2>2, <3>5, <4>1, <4>3
    <3>6. CASE ~pin.level
      <4>0. /\ m.waketime + p + m.on_duration <= now
            /\ pin.waketime <= m.waketime + p + CycleTime
        BY <3>3, <3>4, <3>6
      <4>1. d \in 0..(CycleTime - 1) /\ ~(d < m.on_duration)
        <5>1. p \in Nat /\ now \in Nat /\ pin.waketime \in Nat /\ CycleTime \in Nat
              /\ m.waketime \in Nat /\ m.on_duration \in Nat
              /\ m.on_duration < CycleTime
          BY <1>2, <2>3, <3>1, <3>4
        <5> QED BY <3>2, <4>0, <5>1
      <4>2. CycleTime * k + d = now - m.waketime
        <5>1. p + d = now - m.waketime
          BY <1>2, <2>3, <3>4
        <5> QED BY <3>4, <5>1
      <4> HIDE DEF d
      <4>3. (now - m.waketime) % CycleTime = d
        BY <4>1, <4>2, IntoCycle
      <4>4. ~((now - m.waketime) % CycleTime < m.on_duration)
        BY <4>1, <4>3
      <4> QED BY <1>2, <2>2, <3>6, <4>4
    <3> QED BY <3>5, <3>6
  <2>5. CASE ~Pwm(m)
    <3>1. pin.level = (m.on_duration > 0)
      BY <2>1, <2>5 DEF Follows
    <3>2. (now - m.waketime) % CycleTime \in 0..(CycleTime - 1)
      BY <1>2, <2>3
    <3>3. m.on_duration = 0 \/ m.on_duration = CycleTime
      BY <2>3, <2>5 DEF Pwm
    <3> QED BY <2>2, <3>1, <3>2, <3>3
  <2> QED BY <2>4, <2>5
<1> QED BY <1>5, <1>6

(* IInv holds in every state until a setting comes late. *)
THEOREM InductiveInvariant ==
  ASSUME HostTiming
  PROVE  Spec => [](~late => IInv)
<1>1. Init => (~late => IInv)
  BY InitEstablishes
<1>2. (~late => IInv) /\ [Next]_vars => (~late => IInv)'
  BY NextKeeps, LateStays
<1> QED BY <1>1, <1>2, PTL DEF Spec

-----------------------------------------------------------------------------
(* The end of the power, whether settings come late or not *)

EndTypes ==
    /\ now \in 1..Horizon /\ applied \in Nat /\ applied <= now
    /\ last_clock \in Nat /\ last_pwm_value \in Powers /\ reports \in Seq(Nat)
    /\ wire \in Seq(Commands) /\ pin \in Pins /\ Len(pin.mq) <= Slots
    /\ held \in BOOLEAN

(* Only the timer of a setting that is queued ever waits behind the head of
   the timer list, and it waits HeadWait at most. *)
WaitInv ==
    /\ pin.on = pin.level
    /\ pin.mq # <<>> \/ pin.toggling \/ pin.check_end => pin.active
    /\ held => /\ pin.func = "load" /\ pin.mq # <<>>
               /\ pin.waketime <= now /\ now <= pin.waketime + HeadWait

(* A pin that is not at rest at its default level has an end, max_duration
   after it took its last setting, and a timer for that end; only a late
   setting may have put the timer off. *)
EndInv ==
    MaxDuration # 0 /\ (pin.func = "toggle" \/ pin.level # DefaultOn) =>
      /\ pin.check_end /\ applied # 0
      /\ pin.end_time <= applied + MaxDuration
      /\ pin.waketime <= applied + MaxDuration
      /\ ~held => pin.waketime <= pin.end_time /\ now <= applied + MaxDuration

SilenceInv ==
    /\ EndTypes /\ WaitInv
    /\ shut = "none" => EndInv
    /\ shut # "none" => pin.level = DefaultOn

(* The part of the invariant that is about the pin and the clocks. *)
LEMMA SilenceStays ==
  ASSUME SilenceInv, UNCHANGED <<pin, shut, held, now, applied>>,
         last_clock' \in Nat, last_pwm_value' \in Powers, reports' \in Seq(Nat),
         wire' \in Seq(Commands)
  PROVE  SilenceInv'
BY DEF SilenceInv, EndTypes, WaitInv, EndInv

LEMMA SilenceInit ==
  ASSUME Init
  PROVE  SilenceInv
<1> USE DigitalOutAssumption, HeaterAssumption
<1>1. /\ pin = [active |-> FALSE, func |-> "load", waketime |-> 0,
                on_duration |-> 0, off_duration |-> 0, end_time |-> 0,
                mq |-> <<>>, on |-> DefaultOn, toggling |-> FALSE,
                check_end |-> FALSE, level |-> DefaultOn]
      /\ shut = "none" /\ now = 1 /\ reports = <<>> /\ wire = <<>>
      /\ held = FALSE /\ applied = 0 /\ last_pwm_value = 0 /\ last_clock = 0
  BY DEF Init, PinInit
<1>2. pin \in Pins
  <2>1. 0 \in Powers /\ FALSE \in BOOLEAN /\ DefaultOn \in BOOLEAN
        /\ <<>> \in Seq(Settings) /\ "load" \in {"load", "toggle"}
    BY DEF Powers
  <2> QED BY <1>1, <2>1 DEF Pins
<1>3. EndTypes
  <2>1. <<>> \in Seq(Nat) /\ <<>> \in Seq(Commands) /\ Len(pin.mq) = 0
        /\ 0 \in Powers /\ 1 \in 1..Horizon
    BY <1>1 DEF Powers
  <2>2. applied \in Nat /\ applied <= now /\ last_clock \in Nat
    BY <1>1
  <2>3. held \in BOOLEAN
    BY Zenon, <1>1
  <2>4. Len(pin.mq) <= Slots
    BY <2>1
  <2> QED BY <1>1, <1>2, <2>1, <2>2, <2>3, <2>4 DEF EndTypes
<1>4. WaitInv /\ EndInv
  BY <1>1 DEF WaitInv, EndInv
<1> QED BY <1>1, <1>3, <1>4 DEF SilenceInv

(* The host only sends. *)
LEMMA CommandSent ==
  ASSUME NEW clock \in Nat, NEW power \in Powers, NEW min \in Nat,
         wire \in Seq(Commands)
  PROVE  Append(wire, [setting |-> Setting(clock, power), min_clock |-> min])
           \in Seq(Commands)
<1> DEFINE c == [setting |-> Setting(clock, power), min_clock |-> min]
<1>1. c \in Commands
  BY DEF Commands, Settings, Setting
<1> HIDE DEF c
<1>2. Append(wire, c) \in Seq(Commands)
  BY <1>1, AppendProps
<1> QED BY <1>2 DEF c

LEMMA HostSilence ==
  ASSUME SilenceInv, SetTemp \/ TemperatureCallback \/ Crash \/ Restart
  PROVE  SilenceInv'
<1> USE DigitalOutAssumption, HeaterAssumption
<1>1. UNCHANGED <<pin, shut, held, now, applied>>
  BY DEF SetTemp, TemperatureCallback, Crash, Restart, digitalVars, pastVars
<1>2. /\ last_clock \in Nat /\ last_pwm_value \in Powers /\ reports \in Seq(Nat)
      /\ wire \in Seq(Commands) /\ now \in Nat /\ 0 \in Powers
  BY DEF SilenceInv, EndTypes, Powers
<1>3. CASE SetTemp
  <2>1. UNCHANGED <<last_clock, last_pwm_value, reports, wire>>
    BY <1>3 DEF SetTemp
  <2> QED BY <1>1, <1>2, <2>1, SilenceStays
<1>4. CASE TemperatureCallback
  <2>1. reports # <<>> /\ reports' = Tail(reports)
    BY <1>4 DEF TemperatureCallback
  <2>2. reports' \in Seq(Nat) /\ Head(reports) \in Nat
    BY <1>2, <2>1, TailProps
  <2>3. PICK power \in Powers : SetPwm(Head(reports), Wanted(power))
    BY <1>4 DEF TemperatureCallback, Powers
  <2>4. Wanted(power) \in Powers
    BY <1>2 DEF Wanted
  <2> DEFINE clock == Head(reports) + ReportTime
             p     == Wanted(power)
  <2>5. clock \in Nat
    BY <2>2
  <2>6. \/ UNCHANGED <<last_pwm_value, last_clock, wire>>
        \/ /\ last_pwm_value' = p /\ last_clock' = clock
           /\ wire' = Append(wire, [setting |-> Setting(clock, p),
                                    min_clock |-> last_clock])
    BY <2>3, Zenon DEF SetPwm, SendPwm
  <2> HIDE DEF clock, p
  <2>7. p \in Powers
    BY <2>4 DEF p
  <2>8. last_clock' \in Nat /\ last_pwm_value' \in Powers /\ wire' \in Seq(Commands)
    <3>1. Append(wire, [setting |-> Setting(clock, p), min_clock |-> last_clock])
            \in Seq(Commands)
      BY <1>2, <2>5, <2>7, CommandSent
    <3> QED BY <1>2, <2>5, <2>6, <2>7, <3>1
  <2> QED BY <1>1, <2>2, <2>8, SilenceStays
<1>5. CASE Crash
  <2>1. reports' = <<>> /\ UNCHANGED <<last_clock, last_pwm_value>>
    BY <1>5 DEF Crash
  <2>2. PICK n \in 0..Len(wire) : wire' = SubSeq(wire, 1, n)
    BY <1>5 DEF Crash
  <2>3. wire' \in Seq(Commands)
    BY <1>2, <2>2
  <2> QED BY <1>1, <1>2, <2>1, <2>3, SilenceStays
<1>6. CASE Restart
  <2> DEFINE clock == now + ConnectDelay
  <2>1. clock \in Nat
    BY <1>2
  <2>2. /\ last_pwm_value' = 0 /\ last_clock' = clock /\ reports' = reports
        /\ wire' = Append(wire, [setting |-> Setting(clock, 0), min_clock |-> 0])
    BY <1>6 DEF Restart, InitCommand
  <2> HIDE DEF clock
  <2>3. wire' \in Seq(Commands)
    BY <1>2, <2>1, <2>2, CommandSent
  <2> QED BY <1>1, <1>2, <2>1, <2>2, <2>3, SilenceStays
<1> QED BY <1>3, <1>4, <1>5, <1>6

(* A shutdown brings the pin to its default level. *)
LEMMA ShutdownSilence ==
  ASSUME SilenceInv, NEW reason, reason # "none", PinShutdown(reason),
         UNCHANGED <<now, applied, last_clock, last_pwm_value, reports>>,
         wire' \in Seq(Commands)
  PROVE  SilenceInv'
<1> USE DigitalOutAssumption
<1>1. pin \in Pins
  BY DEF SilenceInv, EndTypes
<1>2. pin' = [pin EXCEPT !.level = DefaultOn, !.on = DefaultOn, !.mq = <<>>,
                         !.toggling = FALSE, !.check_end = FALSE, !.active = FALSE]
      /\ shut' = reason /\ held' = FALSE
  BY DEF PinShutdown
<1>3. pin' \in Pins
  <2>1. DefaultOn \in BOOLEAN /\ FALSE \in BOOLEAN /\ <<>> \in Seq(Settings)
    OBVIOUS
  <2> QED BY <1>1, <1>2, <2>1 DEF Pins
<1>4. /\ pin'.level = DefaultOn /\ pin'.on = DefaultOn /\ pin'.mq = <<>>
      /\ ~pin'.toggling /\ ~pin'.check_end
  BY <1>1, <1>2 DEF Pins
<1>5. EndTypes'
  <2>1. Len(pin'.mq) <= Slots
    BY <1>4
  <2> QED BY <1>2, <1>3, <2>1 DEF SilenceInv, EndTypes
<1> QED BY <1>2, <1>4, <1>5 DEF SilenceInv, WaitInv

LEMMA OtherSilence ==
  ASSUME SilenceInv, OtherShutdown
  PROVE  SilenceInv'
<1>1. /\ PinShutdown("other") /\ wire' = wire
      /\ UNCHANGED <<now, applied, last_clock, last_pwm_value, reports>>
  BY DEF OtherShutdown, hostVars, pastVars
<1>2. wire' \in Seq(Commands)
  BY <1>1 DEF SilenceInv, EndTypes
<1> QED BY <1>1, <1>2, ShutdownSilence

(* The pin toggles until the end that was set for it. *)
LEMMA ToggleSilence ==
  ASSUME SilenceInv, shut = "none", ToggleEvent,
         UNCHANGED <<now, applied, last_clock, last_pwm_value, reports, wire>>
  PROVE  SilenceInv'
<1> USE DigitalOutAssumption
<1> DEFINE on   == ~pin.on
           next == pin.waketime + (IF on THEN pin.on_duration ELSE pin.off_duration)
           end  == pin.check_end /\ next >= pin.end_time
<1>1. /\ pin.func = "toggle" /\ shut' = shut /\ held' = FALSE
      /\ pin' = [pin EXCEPT !.level = ~@, !.on = on,
                            !.func = IF end THEN "load" ELSE @,
                            !.waketime = IF end THEN pin.end_time ELSE next]
  BY DEF ToggleEvent
<1>2. /\ pin \in Pins /\ EndTypes /\ WaitInv /\ EndInv /\ ~held
      /\ pin.waketime \in Nat /\ pin.end_time \in Nat
      /\ pin.on_duration \in Powers /\ pin.off_duration \in Powers
      /\ now \in Nat /\ applied \in Nat
  BY <1>1 DEF SilenceInv, EndTypes, WaitInv, Pins
<1>3. next \in Nat
  BY <1>2 DEF Powers
<1> HIDE DEF end, next
<1>4. /\ pin'.level = ~pin.level /\ pin'.on = ~pin.on
      /\ pin'.func = (IF end THEN "load" ELSE "toggle")
      /\ pin'.waketime = (IF end THEN pin.end_time ELSE next)
      /\ pin'.mq = pin.mq /\ pin'.active = pin.active
      /\ pin'.on_duration = pin.on_duration /\ pin'.off_duration = pin.off_duration
      /\ pin'.end_time = pin.end_time /\ pin'.toggling = pin.toggling
      /\ pin'.check_end = pin.check_end
  BY <1>1, <1>2 DEF Pins
<1>5. pin' \in Pins
  <2>1. (~pin.level) \in BOOLEAN /\ on \in BOOLEAN
    OBVIOUS
  <2>2. (IF end THEN "load" ELSE "toggle") \in {"load", "toggle"}
    OBVIOUS
  <2>3. (IF end THEN pin.end_time ELSE next) \in Nat
    BY <1>2, <1>3
  <2> HIDE DEF on
  <2> QED BY ZenonT(30), <1>1, <1>2, <2>1, <2>2, <2>3 DEF Pins
<1>6. EndTypes'
  <2>1. FALSE \in BOOLEAN
    OBVIOUS
  <2> QED BY <1>1, <1>2, <1>4, <1>5, <2>1 DEF EndTypes
<1>7. WaitInv'
  BY <1>1, <1>2, <1>4 DEF WaitInv
<1>8. EndInv'
  <2> SUFFICES ASSUME MaxDuration # 0
               PROVE  /\ pin'.check_end /\ applied' # 0
                      /\ pin'.end_time <= applied' + MaxDuration
                      /\ pin'.waketime <= applied' + MaxDuration
                      /\ pin'.waketime <= pin'.end_time
                      /\ now' <= applied' + MaxDuration
    BY DEF EndInv
  <2>1. /\ pin.check_end /\ applied # 0
        /\ pin.end_time <= applied + MaxDuration /\ now <= applied + MaxDuration
    BY <1>1, <1>2 DEF EndInv
  <2>2. pin'.waketime <= pin.end_time
    BY <1>2, <1>3, <1>4, <2>1 DEF end
  <2>3. pin'.waketime <= applied + MaxDuration
    <3>1. pin'.waketime \in Nat
      BY <1>5 DEF Pins
    <3> QED BY <1>2, <2>1, <2>2, <3>1
  <2> QED BY <1>4, <2>1, <2>2, <2>3
<1> QED BY <1>1, <1>6, <1>7, <1>8 DEF SilenceInv

(* A setting that is loaded has an end, unless it is a rest at the default
   level. *)
LEMMA LoadSilence ==
  ASSUME SilenceInv, shut = "none", LoadEvent, pin.active, pin.waketime <= now,
         shut' = "none", applied' = now,
         UNCHANGED <<now, last_clock, last_pwm_value, reports, wire>>
  PROVE  SilenceInv'
<1> USE DigitalOutAssumption
<1> DEFINE m     == Head(pin.mq)
           rest  == Tail(pin.mq)
           on    == m.on_duration > 0
           pwm   == on /\ m.on_duration < CycleTime
           limit == pin.waketime + MaxDuration
           end   == IF rest # <<>> THEN Head(rest).waketime
                    ELSE IF Limited(m) THEN limit ELSE 0
           check == rest # <<>> \/ Limited(m)
           wake  == pin.waketime + m.on_duration
           cycle == pwm /\ (~check \/ wake < end)
           loaded == [pin EXCEPT !.level = on, !.on = on, !.mq = rest,
                              !.end_time = end, !.check_end = check,
                              !.toggling = pwm]
<1>1. /\ pin.func = "load" /\ pin.mq # <<>> /\ ~held'
      /\ ~(rest # <<>> /\ Limited(m) /\ limit < Head(rest).waketime)
      /\ pin' = IF cycle
                THEN [loaded EXCEPT !.func = "toggle", !.waketime = wake,
                                    !.on_duration = m.on_duration,
                                    !.off_duration = CycleTime - m.on_duration]
                ELSE IF check THEN [loaded EXCEPT !.waketime = end]
                ELSE [loaded EXCEPT !.active = FALSE]
  BY DEF LoadEvent, PinShutdown
<1>2. /\ pin \in Pins /\ EndTypes /\ pin.mq \in Seq(Settings)
      /\ pin.waketime \in Nat /\ now \in Nat /\ now >= 1
  BY HeaterAssumption DEF SilenceInv, EndTypes, Pins
<1>3. /\ m \in Settings /\ rest \in Seq(Settings)
      /\ Len(pin.mq) \in Nat /\ Len(rest) = Len(pin.mq) - 1
  BY <1>1, <1>2, TailProps
<1>4. rest # <<>> => Head(rest) \in Settings
  <2> HIDE DEF rest
  <2> QED BY <1>3, TailProps
<1>5. /\ m.on_duration \in Powers
      /\ rest # <<>> => Head(rest).waketime \in Nat
  BY <1>3, <1>4 DEF Settings
<1>6. Limited(m) => limit <= now + MaxDuration
  BY <1>2
<1>7. on # DefaultOn \/ pwm => MaxDuration = 0 \/ Limited(m)
  <2> HIDE DEF m
  <2>1. m.on_duration \in Nat
    BY <1>5 DEF Powers
  <2> QED BY <2>1 DEF Limited
<1> HIDE DEF m, rest
<1>8. end \in Nat /\ limit \in Nat
  BY <1>2, <1>5
<1>9. on \in BOOLEAN /\ pwm \in BOOLEAN /\ check \in BOOLEAN
  OBVIOUS
<1>10. wake \in Nat /\ (pwm => m.on_duration \in Powers
                               /\ CycleTime - m.on_duration \in Powers)
  BY <1>2, <1>5 DEF Powers
<1>11. Limited(m) => check /\ end <= now + MaxDuration
  <2>1. CASE rest # <<>>
    <3>1. Limited(m) => ~(limit < Head(rest).waketime)
      BY <1>1, <2>1
    <3> QED BY <1>2, <1>5, <1>6, <1>8, <2>1, <3>1
  <2>2. CASE rest = <<>>
    BY <1>6, <2>2
  <2> QED BY <2>1, <2>2
<1>12. cycle /\ check => wake < end
  OBVIOUS
<1>13. (rest # <<>> => check) /\ (pwm /\ ~check => cycle) /\ (cycle => pwm)
  OBVIOUS
<1> HIDE DEF on, pwm, check, limit, end, wake
<1>14. loaded \in Pins
  BY <1>2, <1>3, <1>8, <1>9 DEF Pins
<1>15. /\ pin' \in Pins
       /\ pin'.level = on /\ pin'.on = on /\ pin'.mq = rest
       /\ pin'.end_time = end /\ pin'.check_end = check /\ pin'.toggling = pwm
       /\ pin'.active = (cycle \/ check)
       /\ pin'.func = (IF cycle THEN "toggle" ELSE "load")
       /\ pin'.waketime = (IF cycle THEN wake ELSE IF check THEN end ELSE pin.waketime)
  <2>1. loaded.active = TRUE /\ loaded.func = "load" /\ loaded.waketime = pin.waketime
        /\ loaded.level = on /\ loaded.on = on /\ loaded.mq = rest
        /\ loaded.end_time = end /\ loaded.check_end = check /\ loaded.toggling = pwm
    BY <1>1, <1>2 DEF Pins
  <2>2. cycle => m.on_duration \in Powers /\ CycleTime - m.on_duration \in Powers
    BY <1>10
  <2> HIDE DEF loaded
  <2>3. CASE cycle
    <3>1. pin' = [loaded EXCEPT !.func = "toggle", !.waketime = wake,
                                !.on_duration = m.on_duration,
                                !.off_duration = CycleTime - m.on_duration]
      BY <1>1, <2>3
    <3> QED BY <1>10, <1>14, <2>1, <2>2, <2>3, <3>1 DEF Pins
  <2>4. CASE ~cycle /\ check
    <3>1. pin' = [loaded EXCEPT !.waketime = end]
      BY <1>1, <2>4
    <3>2. pin'.active = TRUE
      BY <1>14, <2>1, <3>1 DEF Pins
    <3> QED BY <1>8, <1>14, <2>1, <2>4, <3>1, <3>2 DEF Pins
  <2>5. CASE ~cycle /\ ~check
    <3>1. pin' = [loaded EXCEPT !.active = FALSE]
      BY <1>1, <2>5
    <3>2. pin'.active = FALSE
      BY <1>14, <2>1, <3>1 DEF Pins
    <3> QED BY <1>14, <2>1, <2>5, <3>1, <3>2 DEF Pins
  <2> QED BY <2>3, <2>4, <2>5
<1> HIDE DEF cycle, loaded
<1>16. EndTypes'
  <2>1. Len(pin'.mq) <= Slots
    BY <1>2, <1>3, <1>15 DEF EndTypes
  <2>2. held' \in BOOLEAN
    BY DEF LoadEvent, PinShutdown
  <2>3. applied' \in Nat /\ applied' <= now'
    BY <1>2
  <2> QED BY <1>2, <1>15, <2>1, <2>2, <2>3 DEF EndTypes
<1>17. WaitInv'
  BY <1>1, <1>13, <1>15 DEF WaitInv
<1>18. EndInv'
  <2> SUFFICES ASSUME MaxDuration # 0, pin'.func = "toggle" \/ pin'.level # DefaultOn
               PROVE  /\ pin'.check_end /\ applied' # 0
                      /\ pin'.end_time <= applied' + MaxDuration
                      /\ pin'.waketime <= applied' + MaxDuration
                      /\ pin'.waketime <= pin'.end_time
                      /\ now' <= applied' + MaxDuration
    BY DEF EndInv
  <2>1. Limited(m)
    BY <1>7, <1>13, <1>15
  <2>2. check /\ end <= now + MaxDuration
    BY <1>11, <2>1
  <2>3. pin'.waketime <= end
    BY <1>8, <1>10, <1>12, <1>15, <2>2
  <2>4. pin'.waketime \in Nat
    BY <1>15 DEF Pins
  <2>5. pin'.waketime <= now + MaxDuration /\ now <= now + MaxDuration
    BY <1>2, <1>8, <2>2, <2>3, <2>4
  <2> QED BY <1>2, <1>15, <2>2, <2>3, <2>5
<1> QED BY <1>16, <1>17, <1>18 DEF SilenceInv

LEMMA TimerSilence ==
  ASSUME SilenceInv, PinTimer
  PROVE  SilenceInv'
<1>1. /\ shut = "none" /\ pin.active /\ pin.waketime <= now
      /\ ToggleEvent \/ LoadEvent
      /\ UNCHANGED <<now, last_clock, last_pwm_value, reports, wire>>
      /\ applied' = IF pin.func = "load" /\ shut' = "none" THEN now ELSE applied
  BY DEF PinTimer, PinEvent, hostVars
<1>2. wire' \in Seq(Commands)
  BY <1>1 DEF SilenceInv, EndTypes
<1>3. CASE ToggleEvent
  <2>1. applied' = applied
    BY <1>1, <1>3 DEF ToggleEvent
  <2> QED BY <1>1, <1>3, <2>1, ToggleSilence
<1>4. CASE LoadEvent /\ shut' = "none"
  <2>1. applied' = now
    BY <1>1, <1>4 DEF LoadEvent
  <2> QED BY <1>1, <1>4, <2>1, LoadSilence
<1>5. CASE LoadEvent /\ shut' # "none"
  <2>1. applied' = applied
    BY <1>1, <1>5
  <2>2. \/ PinShutdown("Missed scheduling of next digital out event")
        \/ PinShutdown("Scheduled digital out event will exceed max_duration")
    BY <1>1, <1>5 DEF LoadEvent
  <2> QED BY <1>1, <1>2, <2>1, <2>2, ShutdownSilence
<1> QED BY <1>1, <1>3, <1>4, <1>5

(* A setting that arrives never puts off the end of the one in force:
   queue_digital_out refuses it, or it is itself the end. *)
LEMMA DeliverSilence ==
  ASSUME SilenceInv, Deliver
  PROVE  SilenceInv'
<1> USE DigitalOutAssumption
<1> DEFINE m == Head(wire).setting
           queued == [pin EXCEPT !.mq = Append(@, m)]
           first  == [queued EXCEPT !.end_time = m.waketime, !.check_end = TRUE]
           last   == [first EXCEPT !.active = TRUE, !.func = "load",
                                   !.waketime = m.waketime]
           waits  == [last EXCEPT !.waketime = now]
<1>1. /\ shut = "none" /\ wire # <<>> /\ wire' = Tail(wire)
      /\ QueueDigitalOut(m, now)
      /\ UNCHANGED <<now, applied, last_clock, last_pwm_value, reports>>
  BY DEF Deliver, hostVars
<1>2. /\ EndTypes /\ WaitInv /\ EndInv /\ pin \in Pins /\ wire \in Seq(Commands)
      /\ pin.mq \in Seq(Settings) /\ now \in Nat /\ applied \in Nat
      /\ pin.waketime \in Nat /\ pin.end_time \in Nat
  BY <1>1 DEF SilenceInv, EndTypes, Pins
<1>3. m \in Settings /\ m.waketime \in Nat /\ wire' \in Seq(Commands)
  <2>1. Head(wire) \in Commands /\ wire' \in Seq(Commands)
    BY <1>1, <1>2, TailProps
  <2> QED BY <2>1 DEF Commands, Settings
<1> HIDE DEF m
<1>4. /\ Append(pin.mq, m) \in Seq(Settings) /\ Append(pin.mq, m) # <<>>
      /\ Len(Append(pin.mq, m)) = Len(pin.mq) + 1 /\ Len(pin.mq) \in Nat
  <2>1. /\ Append(pin.mq, m) \in Seq(Settings)
        /\ Len(Append(pin.mq, m)) = Len(pin.mq) + 1 /\ Len(pin.mq) \in Nat
    BY <1>2, <1>3, AppendProps
  <2>2. Len(Append(pin.mq, m)) # 0
    BY <2>1
  <2> QED BY <2>1, <2>2
<1>5. /\ queued \in Pins /\ queued.mq = Append(pin.mq, m)
      /\ queued.active = pin.active /\ queued.func = pin.func
      /\ queued.waketime = pin.waketime /\ queued.end_time = pin.end_time
      /\ queued.on = pin.on /\ queued.toggling = pin.toggling
      /\ queued.check_end = pin.check_end /\ queued.level = pin.level
  BY <1>2, <1>4 DEF Pins
<1>6. /\ first \in Pins /\ first.mq = Append(pin.mq, m)
      /\ first.active = pin.active /\ first.func = pin.func
      /\ first.waketime = pin.waketime /\ first.end_time = m.waketime
      /\ first.on = pin.on /\ first.toggling = pin.toggling
      /\ first.check_end = TRUE /\ first.level = pin.level
  <2> HIDE DEF queued
  <2> QED BY <1>3, <1>5 DEF Pins
<1>7. /\ last \in Pins /\ last.mq = Append(pin.mq, m)
      /\ last.active = TRUE /\ last.func = "load"
      /\ last.waketime = m.waketime /\ last.end_time = m.waketime
      /\ last.on = pin.on /\ last.toggling = pin.toggling
      /\ last.check_end = TRUE /\ last.level = pin.level
  <2> HIDE DEF first
  <2> QED BY <1>3, <1>6 DEF Pins
<1>8. /\ waits \in Pins /\ waits.mq = Append(pin.mq, m)
      /\ waits.active = TRUE /\ waits.func = "load"
      /\ waits.waketime = now /\ waits.end_time = m.waketime
      /\ waits.on = pin.on /\ waits.toggling = pin.toggling
      /\ waits.check_end = TRUE /\ waits.level = pin.level
  <2> HIDE DEF last
  <2> QED BY <1>2, <1>7 DEF Pins
<1>9. \/ \E reason : reason # "none" /\ PinShutdown(reason)
      \/ /\ pin.mq # <<>> /\ Len(pin.mq) < Slots
         /\ pin' = queued /\ shut' = shut /\ held' = held
      \/ /\ pin.mq = <<>> /\ ~(pin.check_end /\ pin.end_time < m.waketime)
         /\ \/ GoesOn(m) /\ pin' = first /\ shut' = shut /\ held' = held
            \/ pin' = last /\ shut' = shut /\ held' = FALSE
            \/ pin' = waits /\ shut' = shut /\ held' = TRUE
  <2>1. \/ PinShutdown("Move queue overflow")
        \/ PinShutdown("Scheduled digital out event will exceed max_duration")
        \/ /\ ~(Len(pin.mq) >= Slots)
           /\ \/ /\ pin.mq # <<>>
                 /\ pin' = queued /\ shut' = shut /\ held' = held
              \/ /\ pin.mq = <<>> /\ ~(pin.check_end /\ pin.end_time < m.waketime)
                 /\ \/ GoesOn(m) /\ pin' = first /\ shut' = shut /\ held' = held
                    \/ AddTimer(last, now)
    BY <1>1, Zenon DEF QueueDigitalOut
  <2> HIDE DEF queued, first, last
  <2>2. AddTimer(last, now) =>
          \/ pin' = last /\ shut' = shut /\ held' = FALSE
          \/ pin' = waits /\ shut' = shut /\ held' = TRUE
          \/ PinShutdown("Timer too close")
    BY Zenon DEF AddTimer
  <2> HIDE DEF waits
  <2>3. ~(Len(pin.mq) >= Slots) => Len(pin.mq) < Slots
    BY <1>4
  <2> QED BY <2>1, <2>2, <2>3
<1> HIDE DEF queued, first, last, waits
<1>10. CASE \E reason : reason # "none" /\ PinShutdown(reason)
  BY <1>1, <1>3, <1>10, ShutdownSilence
<1>11. CASE /\ pin.mq # <<>> /\ Len(pin.mq) < Slots
            /\ pin' = queued /\ shut' = shut /\ held' = held
  <2>1. EndTypes'
    <3>1. Len(pin'.mq) <= Slots
      BY <1>4, <1>5, <1>11
    <3> QED BY <1>1, <1>2, <1>3, <1>5, <1>11, <3>1 DEF EndTypes
  <2>2. WaitInv'
    BY <1>1, <1>2, <1>4, <1>5, <1>11 DEF WaitInv
  <2>3. EndInv'
    BY <1>1, <1>2, <1>5, <1>11 DEF EndInv
  <2> QED BY <1>1, <1>11, <2>1, <2>2, <2>3 DEF SilenceInv
<1>12. CASE /\ pin.mq = <<>> /\ ~(pin.check_end /\ pin.end_time < m.waketime)
            /\ \/ GoesOn(m) /\ pin' = first /\ shut' = shut /\ held' = held
               \/ pin' = last /\ shut' = shut /\ held' = FALSE
               \/ pin' = waits /\ shut' = shut /\ held' = TRUE
  <2>1. ~held /\ Len(Append(pin.mq, m)) <= Slots
    BY <1>2, <1>4, <1>12 DEF WaitInv
  <2>2. /\ pin' \in Pins /\ pin'.mq = Append(pin.mq, m) /\ pin'.end_time = m.waketime
        /\ pin'.on = pin.on /\ pin'.toggling = pin.toggling
        /\ pin'.check_end = TRUE /\ pin'.level = pin.level
        /\ shut' = shut /\ held' \in BOOLEAN
    BY <1>2, <1>6, <1>7, <1>8, <1>12 DEF EndTypes
  <2>3. EndTypes'
    BY <1>1, <1>2, <1>3, <2>1, <2>2 DEF EndTypes
  <2>4. /\ pin'.active
        /\ pin'.func = "toggle" => pin.func = "toggle"
        /\ held' => pin'.func = "load" /\ pin'.waketime = now
        /\ ~held' => pin'.waketime <= m.waketime
        /\ held' => pin'.waketime = now
    <3>1. CASE GoesOn(m) /\ pin' = first /\ shut' = shut /\ held' = held
      BY <1>2, <1>3, <1>6, <2>1, <3>1 DEF GoesOn, WaitInv
    <3>2. CASE pin' = last /\ shut' = shut /\ held' = FALSE
      BY <1>3, <1>7, <3>2
    <3>3. CASE pin' = waits /\ shut' = shut /\ held' = TRUE
      BY <1>8, <3>3
    <3> QED BY <1>12, <3>1, <3>2, <3>3
  <2>5. WaitInv'
    <3>1. now <= now + HeadWait /\ now <= now
      BY <1>2
    <3> QED BY <1>1, <1>2, <1>4, <2>2, <2>4, <3>1 DEF WaitInv
  <2>6. EndInv'
    <3> SUFFICES ASSUME MaxDuration # 0, pin'.func = "toggle" \/ pin'.level # DefaultOn
                 PROVE  /\ pin'.check_end /\ applied # 0
                        /\ m.waketime <= applied + MaxDuration
                        /\ pin'.waketime <= applied + MaxDuration
                        /\ ~held' => pin'.waketime <= m.waketime
                        /\ now <= applied + MaxDuration
      BY <1>1, <2>2 DEF EndInv
    <3>1. /\ pin.check_end /\ applied # 0
          /\ pin.end_time <= applied + MaxDuration /\ now <= applied + MaxDuration
      BY <1>2, <2>1, <2>2, <2>4 DEF EndInv
    <3>2. m.waketime <= pin.end_time
      BY <1>2, <1>3, <1>12, <3>1
    <3>3. m.waketime <= applied + MaxDuration
      BY <1>2, <1>3, <3>1, <3>2
    <3>4. pin'.waketime <= applied + MaxDuration
      <4>1. pin'.waketime \in Nat
        BY <2>2 DEF Pins
      <4> QED BY <1>2, <1>3, <2>2, <2>4, <3>1, <3>3, <4>1
    <3> QED BY <2>2, <2>4, <3>1, <3>3, <3>4
  <2> QED BY <1>1, <2>2, <2>3, <2>5, <2>6 DEF SilenceInv
<1> QED BY <1>9, <1>10, <1>11, <1>12

(* Time does not pass an end, nor the longest wait behind the head. *)
LEMMA TickSilence ==
  ASSUME SilenceInv, Tick
  PROVE  SilenceInv'
<1> USE DigitalOutAssumption, HeaterAssumption
<1>1. /\ shut = "none" /\ now < Horizon /\ now' = now + 1
      /\ ~(pin.active /\ pin.waketime + (IF held THEN HeadWait ELSE 0) <= now)
      /\ reports' = reports \/ reports' = Append(reports, now')
      /\ UNCHANGED <<pin, shut, held, applied, last_clock, last_pwm_value, wire>>
  BY DEF Tick, digitalVars, hostVars
<1>2. /\ EndTypes /\ WaitInv /\ EndInv /\ pin \in Pins
      /\ now \in 1..Horizon /\ now \in Nat /\ applied \in Nat /\ applied <= now
      /\ pin.waketime \in Nat /\ pin.end_time \in Nat /\ reports \in Seq(Nat)
  BY <1>1 DEF SilenceInv, EndTypes, Pins
<1>3. EndTypes'
  <2>1. now' \in 1..Horizon /\ now' \in Nat /\ applied <= now'
    BY SMTT(30), <1>1, <1>2
  <2>2. reports' \in Seq(Nat)
    <3>1. Append(reports, now') \in Seq(Nat)
      BY <1>2, <2>1, AppendProps
    <3> QED BY <1>1, <1>2, <3>1
  <2> QED BY <1>1, <1>2, <2>1, <2>2 DEF EndTypes
<1>4. held /\ pin.active => now + 1 <= pin.waketime + HeadWait
  BY <1>1, <1>2
<1>5. ~held /\ pin.active => now + 1 <= pin.waketime
  BY <1>1, <1>2
<1>6. WaitInv'
  <2>1. held => pin.waketime <= now + 1 /\ now + 1 <= pin.waketime + HeadWait
    BY <1>2, <1>4 DEF WaitInv
  <2> QED BY <1>1, <1>2, <2>1 DEF WaitInv
<1>7. EndInv'
  <2> SUFFICES ASSUME MaxDuration # 0, pin.func = "toggle" \/ pin.level # DefaultOn,
                      ~held
               PROVE  now + 1 <= applied + MaxDuration
    BY <1>1, <1>2 DEF EndInv
  <2>1. /\ pin.check_end /\ pin.waketime <= applied + MaxDuration
    BY <1>2 DEF EndInv
  <2>2. pin.active
    BY <1>2, <2>1 DEF WaitInv
  <2> QED BY <1>2, <1>5, <2>1, <2>2
<1> QED BY <1>1, <1>3, <1>6, <1>7 DEF SilenceInv

LEMMA SilenceInvariant == Spec => []SilenceInv
<1>1. Init => SilenceInv
  BY SilenceInit
<1>2. SilenceInv /\ [Next]_vars => SilenceInv'
  <2> SUFFICES ASSUME SilenceInv, [Next]_vars
               PROVE  SilenceInv'
    OBVIOUS
  <2>1. CASE Next
    BY <2>1, HostSilence, DeliverSilence, TimerSilence, OtherSilence, TickSilence
       DEF Next
  <2>2. CASE UNCHANGED vars
    <3>1. UNCHANGED <<pin, shut, held, now, applied, last_clock, last_pwm_value,
                      reports, wire>>
      BY <2>2 DEF vars, digitalVars, hostVars, pastVars
    <3> QED BY <3>1, SilenceStays DEF SilenceInv, EndTypes
  <2> QED BY <2>1, <2>2
<1> QED BY <1>1, <1>2, PTL DEF Spec

(* Every variable has a value of its kind and the pin holds no more settings
   than it has slots, whatever comes late; and as long as no setting has come
   after its time, the pin has at every clock the level that the setting in
   force asks for: digital_toggle_event, digital_load_event and
   queue_digital_out neither miss nor delay a switch, whenever the settings
   arrive and whichever host sends them. *)
THEOREM PinFollows ==
  ASSUME HostTiming
  PROVE  Spec => [](TypeOK /\ (~late => PinInv))
<1>1. SilenceInv => TypeOK
  <2> SUFFICES ASSUME SilenceInv  PROVE TypeOK
    OBVIOUS
  <2>1. EndTypes /\ WaitInv /\ pin \in Pins
    BY DEF SilenceInv, EndTypes
  <2>2. /\ pin.level \in BOOLEAN /\ pin.func \in {"load", "toggle"}
        /\ pin.on_duration \in Powers /\ pin.off_duration \in Powers
    BY <2>1 DEF Pins
  <2> QED BY <2>1, <2>2 DEF TypeOK, EndTypes, WaitInv
<1>2. SilenceInv /\ (~late => IInv) => TypeOK /\ (~late => PinInv)
  BY <1>1, FollowsSettings DEF PinInv
<1> QED BY <1>2, SilenceInvariant, InductiveInvariant, PTL

(* A pin with a max_duration is back at its default level max_duration after
   it took its last setting, at the latest: no crash, restart, loss or delay
   of commands keeps a heater on for longer, but for the time that the timer of
   a late setting waits behind the head of the timer list (sched_add_timer). *)
THEOREM OffInTime ==
  ASSUME MaxDuration # 0
  PROVE  Spec => []OffAfterSilence
<1>1. SilenceInv => OffAfterSilence
  <2> SUFFICES ASSUME SilenceInv, pin.level # DefaultOn
               PROVE  /\ applied # 0
                      /\ now <= applied + MaxDuration + (IF held THEN HeadWait ELSE 0)
    BY DEF OffAfterSilence
  <2>1. /\ EndTypes /\ WaitInv /\ EndInv /\ now \in Nat /\ applied \in Nat
        /\ pin.waketime \in Nat
    BY DEF SilenceInv, EndTypes, Pins
  <2>2. /\ applied # 0 /\ pin.waketime <= applied + MaxDuration
        /\ ~held => now <= applied + MaxDuration
    BY <2>1 DEF EndInv
  <2>3. CASE held
    BY <2>1, <2>2, <2>3, DigitalOutAssumption DEF WaitInv
  <2>4. CASE ~held
    BY <2>1, <2>2, <2>4, DigitalOutAssumption
  <2> QED BY <2>2, <2>3, <2>4
<1> QED BY <1>1, SilenceInvariant, PTL

-----------------------------------------------------------------------------
(* The host on time: its invariant *)

(* The limit leaves room for KeepTime, the report that renews the power and
   the delay of set_pwm: 3.75 and twice 0.3 of 5 seconds.  The default level
   of a heater's pin is off. *)
HostPunctual ==
    /\ MaxDuration # 0 => KeepTime + 2 * ReportTime <= MaxDuration
    /\ DefaultOn = FALSE

(* The host on time.  Read is the clock of the latest report, Handled that of
   the latest one that the host has worked off. *)
Read == now - (now % ReportTime)
Handled == IF reports = <<>> THEN Read ELSE Read - ReportTime

(* A host on time works off each report before the next, and its commands
   are under way no longer than until they take effect. *)
PromptInv ==
    punctual =>
      /\ \A j \in 1..Len(wire) : now <= wire[j].setting.waketime
      /\ alive => reports = <<>> \/ reports = <<Read>>

(* What the host knows of the power it sent last.  It sends a power again
   KeepTime later, and after the target became zero the first report has the
   power below Significant, and the first one beyond KeepTime has it zero. *)
PowerInv ==
    /\ last_pwm_value # 0 =>
         next_pwm_time = last_clock + KeepTime /\ Handled < next_pwm_time
    /\ ~target =>
         /\ Handled > off_since => last_pwm_value < Significant
         /\ Handled >= off_since + KeepTime + ReportTime => last_pwm_value = 0

(* Two settings that follow each other: the first one is renewed before it
   ends, and once the target is zero nothing significant remains in force.
   Link is about a host that has never stopped (if first), with the target
   zero (if off) since the clock t. *)
Link(a, b, first, off, t) ==
    /\ first /\ a.on_duration # 0 =>
         b.waketime < a.waketime + KeepTime + 2 * ReportTime
    /\ off /\ b.waketime > t + 2 * ReportTime => a.on_duration < Significant
    /\ off /\ b.waketime >= t + KeepTime + 3 * ReportTime => a.on_duration = 0
ZeroAfter(m, off, t) == off /\ m.waketime > t + ReportTime => m.on_duration = 0
Latest(m) == m.waketime = last_clock /\ m.on_duration = last_pwm_value

(* The settings sent to the pin, from the one in force on: s was delivered,
   c is under way. *)
Sent(s, c) ==
    LET n == Len(s)
        w == Len(c)
    IN  /\ \A i \in 1..(n - 1) :
             Link(s[i], s[i + 1], since = 0, ~target, off_since)
        /\ \A j \in 1..(w - 1) :
             Link(c[j].setting, c[j + 1].setting, since = 0, ~target, off_since)
        /\ n > 0 /\ w > 0 =>
             Link(s[n], c[1].setting, since = 0, ~target, off_since)
        /\ \A i \in 1..n : ZeroAfter(s[i], ~target, off_since)
        /\ \A j \in 1..w : ZeroAfter(c[j].setting, ~target, off_since)
        /\ w > 0 => Latest(c[w].setting)
        /\ w = 0 /\ n > 0 => Latest(s[n])
        /\ w = 0 /\ n = 0 => last_pwm_value = 0 /\ since = 0
SentInv == Sent(settings, wire)

(* A host that has started again has sent the pin nothing but the command
   that switches it off, until the target is set. *)
RestartInv ==
    since # 0 /\ (now = since \/ (~target /\ off_since = since)) =>
      /\ last_pwm_value = 0 /\ last_clock = since + ConnectDelay
      /\ now = since => reports = <<>>

(* The pin's side as long as the host has been on time and running: the queue
   has one setting at most, and without one the pin is to be switched off
   max_duration after the setting in force. *)
LimitExact ==
    LET n == Len(settings) IN
    /\ Len(pin.mq) <= 1
    /\ \A j \in 1..Len(wire) :
         /\ j > 1 => wire[j - 1].setting.waketime <= wire[j].min_clock
         /\ j = 1 /\ pin.mq # <<>> => pin.mq[1].waketime <= wire[j].min_clock
    /\ pin.check_end /\ pin.mq = <<>> =>
         /\ MaxDuration # 0 /\ n > 0 /\ settings[n].on_duration # 0
         /\ pin.end_time = settings[n].waketime + MaxDuration

TimelyInv ==
    /\ punctual \in BOOLEAN /\ off_since \in Nat
    /\ shut = "none" => PromptInv
    /\ shut = "none" /\ punctual /\ alive => PowerInv /\ SentInv /\ RestartInv
    /\ punctual /\ alive /\ since = 0 =>
         shut \in {"none", "other"} /\ (shut = "none" => LimitExact)

-----------------------------------------------------------------------------
(* The clock of the latest report *)

(* A tick either brings the next report, ReportTime after the one before, or
   leaves the latest one as it is (analog_in_event). *)
LEMMA ReadProps ==
  ASSUME now \in Nat
  PROVE  /\ Read \in Int /\ Read <= now /\ now < Read + ReportTime
         /\ now' = now + 1 /\ now' % ReportTime = 0 =>
              Read' = Read + ReportTime /\ Read' = now'
         /\ now' = now + 1 /\ now' % ReportTime # 0 => Read' = Read
<1> DEFINE q == now \div ReportTime
           r == now % ReportTime
<1>1. ReportTime \in Nat \ {0}
  BY HeaterAssumption
<1>2. now = ReportTime * q + r /\ q \in Nat /\ r \in 0..(ReportTime - 1)
  BY <1>1
<1>3. Read = now - r
  BY DEF Read
<1> HIDE DEF q, r
<1>4. Read \in Int /\ Read <= now /\ now < Read + ReportTime
  BY <1>1, <1>2, <1>3
<1>5. ASSUME now' = now + 1
      PROVE  IF r + 1 = ReportTime
             THEN now' % ReportTime = 0
             ELSE now' % ReportTime = r + 1
  <2>1. CASE r + 1 = ReportTime
    <3>1. ReportTime * (q + 1) = ReportTime * q + ReportTime
      BY <1>1, <1>2
    <3>2. now' = ReportTime * (q + 1) + 0
      BY <1>1, <1>2, <1>5, <2>1, <3>1
    <3>3. q + 1 \in Nat /\ 0 \in 0..(ReportTime - 1)
      BY <1>1, <1>2
    <3> QED BY <1>1, <2>1, <3>2, <3>3, IntoCycle
  <2>2. CASE r + 1 # ReportTime
    <3>1. now' = ReportTime * q + (r + 1) /\ r + 1 \in 0..(ReportTime - 1)
      BY <1>1, <1>2, <1>5, <2>2
    <3> QED BY <1>1, <1>2, <2>2, <3>1, IntoCycle
  <2> QED BY <2>1, <2>2
<1>6. Read' = now' - (now' % ReportTime)
  BY DEF Read
<1>7. ASSUME now' = now + 1, now' % ReportTime = 0
      PROVE  Read' = Read + ReportTime /\ Read' = now'
  <2>1. r + 1 = ReportTime
    BY <1>1, <1>2, <1>5, <1>7
  <2> QED BY <1>2, <1>3, <1>6, <1>7, <2>1
<1>8. ASSUME now' = now + 1, now' % ReportTime # 0
      PROVE  Read' = Read
  <2>1. now' % ReportTime = r + 1
    BY <1>1, <1>2, <1>5, <1>8
  <2> QED BY <1>2, <1>3, <1>6, <1>8, <2>1
<1> QED BY <1>4, <1>7, <1>8

(* What the steps below draw on. *)
LEMMA TimelyTypes ==
  ASSUME IInv, TimelyInv, shut = "none"
  PROVE  /\ HostTypes /\ PinTypes /\ HostInv /\ WireInv /\ PinsInv
         /\ now \in Nat /\ now >= 1 /\ since \in Nat /\ since <= now
         /\ off_since \in Nat /\ last_clock \in Nat /\ last_pwm_value \in Nat
         /\ next_pwm_time \in Nat
         /\ alive \in BOOLEAN /\ target \in BOOLEAN /\ punctual \in BOOLEAN
         /\ settings \in Seq(Settings) /\ wire \in Seq(Commands)
         /\ pin.mq \in Seq(Settings)
         /\ Len(settings) \in Nat /\ Len(wire) \in Nat /\ Len(pin.mq) \in Nat
<1>1. HostTypes /\ PinTypes /\ HostInv /\ WireInv /\ PinsInv
  BY DEF IInv
<1>2. punctual \in BOOLEAN /\ off_since \in Nat
  BY DEF TimelyInv
<1>3. /\ since <= now /\ now \in Nat /\ now >= 1 /\ since \in Nat
      /\ last_clock \in Nat /\ next_pwm_time \in Nat /\ last_pwm_value \in Nat
      /\ alive \in BOOLEAN /\ target \in BOOLEAN
  BY <1>1, DigitalOutAssumption, HeaterAssumption
     DEF HostTypes, HostInv, Powers
<1>4. /\ settings \in Seq(Settings) /\ wire \in Seq(Commands)
      /\ pin.mq \in Seq(Settings)
  BY <1>1 DEF PinTypes, Pins
<1> QED BY <1>1, <1>2, <1>3, <1>4

LEMMA HandledProps ==
  ASSUME now \in Nat
  PROVE  /\ Handled \in Int /\ Handled <= Read /\ Handled <= now
         /\ now < Handled + 2 * ReportTime
<1>1. Read \in Int /\ Read <= now /\ now < Read + ReportTime
  BY ReadProps
<1>2. ReportTime \in Nat
  BY HeaterAssumption
<1> QED BY <1>1, <1>2 DEF Handled

(* All settings that were sent lie before last_clock. *)
LEMMA SentTypes ==
  ASSUME IInv, TimelyInv, shut = "none"
  PROVE  /\ \A i \in 1..Len(settings) :
              /\ settings[i] \in Settings
              /\ settings[i].waketime \in Nat /\ settings[i].on_duration \in Nat
              /\ settings[i].waketime <= last_clock
         /\ \A j \in 1..Len(wire) :
              /\ wire[j] \in Commands
              /\ wire[j].setting \in Settings /\ wire[j].min_clock \in Nat
              /\ wire[j].setting.waketime \in Nat
              /\ wire[j].setting.on_duration \in Nat
              /\ wire[j].setting.waketime <= last_clock
<1>1. \A m \in Settings : m.waketime \in Nat /\ m.on_duration \in Nat
  BY DigitalOutAssumption DEF Settings, Powers
<1>2. \A c \in Commands : c.setting \in Settings /\ c.min_clock \in Nat
  BY DEF Commands
<1>3. settings \in Seq(Settings) /\ wire \in Seq(Commands) /\ WireInv
  BY TimelyTypes
<1>4. /\ \A i \in 1..Len(settings) : settings[i] \in Settings
      /\ \A j \in 1..Len(wire) : wire[j] \in Commands
  BY <1>3
<1>5. /\ \A i \in 1..Len(settings) : settings[i].waketime <= last_clock
      /\ \A j \in 1..Len(wire) : wire[j].setting.waketime <= last_clock
  BY <1>3 DEF WireInv, Before
<1> QED BY <1>1, <1>2, <1>4, <1>5

-----------------------------------------------------------------------------
(* The host on time: its steps *)

(* When the target becomes zero everything sent lies at most ReportTime in
   the future. *)
LEMMA SetTempTimely ==
  ASSUME IInv, TimelyInv, SetTemp
  PROVE  TimelyInv'
<1> USE HeaterAssumption
<1>1. /\ shut = "none" /\ alive /\ shut' = shut
      /\ target' = ~target /\ off_since' = Noted(now)
      /\ UNCHANGED <<pin, alive, since, last_pwm_value, next_pwm_time,
                     last_clock, punctual, now, reports, wire, settings>>
  BY DEF SetTemp, digitalVars, pastVars
<1>0. (punctual => off_since' = now) /\ (~punctual => off_since' = off_since)
  BY <1>1 DEF Noted
<1>2. /\ now \in Nat /\ last_clock \in Nat /\ HostInv
      /\ target \in BOOLEAN /\ punctual \in BOOLEAN
      /\ last_clock <= now + ReportTime
  BY <1>1, TimelyTypes DEF HostInv
<1>3. /\ \A i \in 1..Len(settings) : settings[i].waketime \in Nat
                                     /\ settings[i].waketime <= last_clock
      /\ \A j \in 1..Len(wire) : wire[j].setting.waketime \in Nat
                                 /\ wire[j].setting.waketime <= last_clock
  BY <1>1, SentTypes
<1>4. PromptInv'
  BY <1>1 DEF TimelyInv, PromptInv, Read
<1>5. ASSUME punctual
      PROVE  PowerInv' /\ SentInv' /\ RestartInv'
  <2>1. PowerInv /\ SentInv /\ RestartInv
    BY <1>1, <1>5 DEF TimelyInv
  <2>2. PowerInv'
    <3>1. Handled' = Handled /\ Handled \in Int /\ Handled <= now
      BY <1>1, <1>2, HandledProps DEF Handled, Read
    <3>2. ~(Handled' > off_since')
          /\ ~(Handled' >= off_since' + KeepTime + ReportTime)
      BY <1>0, <1>2, <1>5, <3>1
    <3> QED BY <1>1, <2>1, <3>1, <3>2 DEF PowerInv
  <2>3. ASSUME NEW a, NEW b, b.waketime \in Nat, b.waketime <= last_clock,
               Link(a, b, since = 0, ~target, off_since)
        PROVE  Link(a, b, since' = 0, ~target', off_since')
    <3>1. /\ ~(b.waketime > off_since' + 2 * ReportTime)
          /\ ~(b.waketime >= off_since' + KeepTime + 3 * ReportTime)
      BY <1>0, <1>2, <1>5, <2>3
    <3> QED BY <1>1, <2>3, <3>1 DEF Link
  <2>4. ASSUME NEW m, m.waketime \in Nat, m.waketime <= last_clock
        PROVE  ZeroAfter(m, ~target', off_since')
    BY <1>0, <1>2, <1>5, <2>4 DEF ZeroAfter
  <2>5. SentInv'
    <3> DEFINE n == Len(settings)
               w == Len(wire)
    <3>0. /\ n \in Nat /\ w \in Nat
          /\ \A i \in 1..(n - 1) : i + 1 \in 1..n
          /\ \A j \in 1..(w - 1) : j + 1 \in 1..w
          /\ w > 0 => 1 \in 1..w
      BY SMTT(30), <1>1, TimelyTypes
    <3>1. /\ \A i \in 1..(n - 1) :
               Link(settings[i], settings[i + 1], since = 0, ~target, off_since)
          /\ \A j \in 1..(w - 1) :
               Link(wire[j].setting, wire[j + 1].setting, since = 0, ~target,
                    off_since)
          /\ n > 0 /\ w > 0 =>
               Link(settings[n], wire[1].setting, since = 0, ~target, off_since)
          /\ w > 0 => Latest(wire[w].setting)
          /\ w = 0 /\ n > 0 => Latest(settings[n])
          /\ w = 0 /\ n = 0 => last_pwm_value = 0 /\ since = 0
      BY <2>1 DEF SentInv, Sent
    <3>2. Len(settings') = n /\ Len(wire') = w
      BY <1>1
    <3> HIDE DEF n, w
    <3>3. /\ \A i \in 1..n : settings[i].waketime \in Nat
                             /\ settings[i].waketime <= last_clock
          /\ \A j \in 1..w : wire[j].setting.waketime \in Nat
                             /\ wire[j].setting.waketime <= last_clock
      BY <1>3 DEF n, w
    <3>4. \A i \in 1..(n - 1) :
            Link(settings[i], settings[i + 1], since' = 0, ~target', off_since')
      BY <2>3, <3>0, <3>1, <3>3
    <3>5. \A j \in 1..(w - 1) :
            Link(wire[j].setting, wire[j + 1].setting, since' = 0, ~target',
                 off_since')
      BY <2>3, <3>0, <3>1, <3>3
    <3>6. n > 0 /\ w > 0 =>
            Link(settings[n], wire[1].setting, since' = 0, ~target', off_since')
      BY <2>3, <3>0, <3>1, <3>3
    <3>7. /\ \A i \in 1..n : ZeroAfter(settings[i], ~target', off_since')
          /\ \A j \in 1..w : ZeroAfter(wire[j].setting, ~target', off_since')
      BY <2>4, <3>3
    <3> QED BY <1>1, <3>1, <3>2, <3>4, <3>5, <3>6, <3>7 DEF SentInv, Sent, Latest
  <2>6. RestartInv'
    BY <1>0, <1>1, <1>5, <2>1 DEF RestartInv
  <2> QED BY <2>2, <2>5, <2>6
<1>6. LimitExact => LimitExact'
  BY <1>1 DEF LimitExact
<1> QED BY <1>0, <1>1, <1>2, <1>4, <1>5, <1>6 DEF TimelyInv

(* A host that stops is no longer on time. *)
LEMMA CrashTimely ==
  ASSUME IInv, TimelyInv, Crash
  PROVE  TimelyInv'
<1>1. /\ shut = "none" /\ alive /\ shut' = shut
      /\ alive' = FALSE /\ since' = now /\ reports' = <<>>
      /\ UNCHANGED <<punctual, off_since, now>>
  BY DEF Crash, digitalVars, pastVars
<1>2. PICK n \in 0..Len(wire) : wire' = SubSeq(wire, 1, n)
  BY DEF Crash
<1>3. wire \in Seq(Commands) /\ punctual \in BOOLEAN /\ off_since \in Nat
  BY <1>1, TimelyTypes
<1>4. /\ Len(wire') = n
      /\ \A i \in 1..n : i \in 1..Len(wire) /\ wire'[i] = wire[i]
  BY <1>2, <1>3
<1>5. PromptInv'
  BY <1>1, <1>4 DEF TimelyInv, PromptInv
<1> QED BY <1>1, <1>3, <1>5 DEF TimelyInv

(* What the new host finds and sends. *)
LEMMA RestartTimely ==
  ASSUME HostTiming, IInv, TimelyInv, Restart
  PROVE  TimelyInv'
<1> USE HeaterAssumption
<1> DEFINE clock == now + ConnectDelay
           c == [setting |-> Setting(clock, 0), min_clock |-> 0]
           w == Len(wire)
           n == Len(settings)
<1>1. /\ shut = "none" /\ ~alive /\ shut' = shut
      /\ alive' = TRUE /\ since' = now /\ target' = FALSE
      /\ (punctual => off_since' = now) /\ (~punctual => off_since' = off_since)
      /\ last_pwm_value' = 0 /\ next_pwm_time' = 0 /\ last_clock' = clock
      /\ wire' = Append(wire, c)
      /\ UNCHANGED <<pin, settings, now, reports, punctual>>
  BY DEF Restart, digitalVars, pastVars, InitCommand, Noted
<1>2. /\ now \in Nat /\ now >= 1 /\ last_clock \in Nat /\ since \in Nat
      /\ since <= now /\ punctual \in BOOLEAN
      /\ settings \in Seq(Settings) /\ wire \in Seq(Commands)
      /\ n \in Nat /\ w \in Nat /\ HostInv
  BY <1>1, TimelyTypes
<1>3. last_clock <= now + ReportTime /\ reports = <<>>
  BY SMTT(30), <1>1, <1>2 DEF HostInv
<1>4. /\ clock \in Nat /\ clock <= now + ReportTime /\ now <= clock
  BY SMTT(30), <1>1, <1>2 DEF HostTiming
<1>5. /\ c \in Commands /\ c.setting.waketime = clock
      /\ c.setting.on_duration = 0
  BY <1>4, DigitalOutAssumption DEF Commands, Settings, Setting, Powers
<1> HIDE DEF c
<1>6. /\ Len(wire') = w + 1 /\ wire'[w + 1] = c
      /\ \A j \in 1..w : wire'[j] = wire[j]
  BY <1>1, <1>2, <1>5, AppendProps
<1>7. /\ \A i \in 1..n : settings[i].waketime \in Nat
                         /\ settings[i].waketime <= last_clock
      /\ \A j \in 1..w : wire[j].setting.waketime \in Nat
                         /\ wire[j].setting.waketime <= last_clock
  BY <1>1, SentTypes
<1> HIDE DEF clock, n, w
<1>8. \A j \in 1..(w + 1) : j \in 1..w \/ j = w + 1
  BY <1>2
<1>9. /\ \A i \in 1..n : settings[i].waketime \in Nat
                         /\ settings[i].waketime <= now + ReportTime
      /\ \A j \in 1..(w + 1) : wire'[j].setting.waketime \in Nat
                         /\ wire'[j].setting.waketime <= now + ReportTime
  <2>1. ASSUME NEW x \in Nat, x <= last_clock PROVE x <= now + ReportTime
    BY <1>2, <1>3, <2>1
  <2> QED BY <1>4, <1>5, <1>6, <1>7, <1>8, <2>1
<1>10. PromptInv'
  <2>1. punctual => \A j \in 1..w : now <= wire[j].setting.waketime
    BY <1>1 DEF TimelyInv, PromptInv, w
  <2>2. punctual => \A j \in 1..(w + 1) : now <= wire'[j].setting.waketime
    BY <1>4, <1>5, <1>6, <1>8, <2>1
  <2> QED BY <1>1, <1>3, <1>6, <2>2 DEF PromptInv
<1>11. PowerInv'
  <2>1. Handled' \in Int /\ Handled' <= now'
    BY <1>1, <1>2, HandledProps DEF Handled, Read
  <2> QED BY <1>1, <1>2, <2>1 DEF PowerInv
<1>12. RestartInv'
  BY <1>1, <1>3 DEF RestartInv, clock
<1>13. ASSUME punctual
       PROVE  SentInv'
  <2>1. ASSUME NEW a, NEW b, b.waketime \in Nat,
               b.waketime <= now + ReportTime
        PROVE  Link(a, b, since' = 0, ~target', off_since')
    <3>0. ReportTime \in Nat \ {0} /\ KeepTime \in Nat \ {0}
      OBVIOUS
    <3>1. /\ ~(b.waketime > now + 2 * ReportTime)
          /\ ~(b.waketime >= now + KeepTime + 3 * ReportTime)
      BY <1>2, <2>1, <3>0
    <3>2. since' # 0
      BY <1>1, <1>2
    <3> QED BY <1>1, <1>13, <3>1, <3>2 DEF Link
  <2>2. ASSUME NEW m, m.waketime \in Nat, m.waketime <= now + ReportTime
        PROVE  ZeroAfter(m, ~target', off_since')
    BY SMTT(30), <1>1, <1>2, <1>13, <2>2 DEF ZeroAfter
  <2>3. /\ \A i \in 1..(n - 1) : i + 1 \in 1..n
        /\ \A j \in 1..w : j + 1 \in 1..(w + 1)
        /\ 1 \in 1..(w + 1)
    BY <1>2
  <2>4. \A i \in 1..(n - 1) :
          Link(settings[i], settings[i + 1], since' = 0, ~target', off_since')
    BY <1>9, <2>1, <2>3
  <2>5. \A j \in 1..w :
          Link(wire'[j].setting, wire'[j + 1].setting, since' = 0, ~target',
               off_since')
    BY <1>9, <2>1, <2>3
  <2>6. Link(settings[n], wire'[1].setting, since' = 0, ~target', off_since')
    BY <1>9, <2>1, <2>3
  <2>7. /\ \A i \in 1..n : ZeroAfter(settings[i], ~target', off_since')
        /\ \A j \in 1..(w + 1) : ZeroAfter(wire'[j].setting, ~target', off_since')
    BY <1>9, <2>2
  <2>8. wire'[Len(wire')].setting = c.setting
    BY <1>6
  <2>9. w + 1 > 0 /\ (w + 1) - 1 = w /\ w + 1 # 0 /\ Len(settings') = n
    BY <1>1, <1>2 DEF n
  <2>10. Latest(wire[Len(wire)].setting)'
    BY <1>1, <1>5, <2>8 DEF Latest, clock
  <2> HIDE DEF Latest
  <2> QED BY <1>1, <1>6, <2>4, <2>5, <2>6, <2>7, <2>9, <2>10 DEF SentInv, Sent
<1> QED BY <1>1, <1>2, <1>10, <1>11, <1>12, <1>13 DEF TimelyInv

(* Once the target is zero a power that is not zero was sent ReportTime after
   that at the latest. *)
LEMMA LatestZero ==
  ASSUME IInv, TimelyInv, shut = "none", SentInv, ~target,
         last_clock > off_since + ReportTime
  PROVE  last_pwm_value = 0
<1> DEFINE n == Len(settings)
           w == Len(wire)
<1>1. n \in Nat /\ w \in Nat
  BY TimelyTypes
<1>2. /\ \A i \in 1..n : ZeroAfter(settings[i], ~target, off_since)
      /\ \A j \in 1..w : ZeroAfter(wire[j].setting, ~target, off_since)
      /\ w > 0 => Latest(wire[w].setting)
      /\ w = 0 /\ n > 0 => Latest(settings[n])
      /\ w = 0 /\ n = 0 => last_pwm_value = 0
  BY DEF SentInv, Sent
<1> HIDE DEF n, w
<1>3. CASE w > 0
  <2>1. w \in 1..w
    BY <1>1, <1>3
  <2> QED BY <1>2, <1>3, <2>1 DEF ZeroAfter, Latest
<1>4. CASE w = 0 /\ n > 0
  <2>1. n \in 1..n
    BY <1>1, <1>4
  <2> QED BY <1>2, <1>4, <2>1 DEF ZeroAfter, Latest
<1>5. CASE w = 0 /\ n = 0
  BY <1>2, <1>5
<1> QED BY <1>1, <1>3, <1>4, <1>5

(* A command that follows the latest one. *)
LEMMA SentGrows ==
  ASSUME IInv, TimelyInv, shut = "none", SentInv, NEW c \in Commands,
         wire' = Append(wire, c),
         UNCHANGED <<settings, since, target, off_since>>,
         c.setting.waketime = last_clock',
         c.setting.on_duration = last_pwm_value',
         ZeroAfter(c.setting, ~target, off_since),
         \A a : Latest(a) => Link(a, c.setting, since = 0, ~target, off_since)
  PROVE  SentInv'
<1> DEFINE n == Len(settings)
           w == Len(wire)
<1>1. n \in Nat /\ w \in Nat /\ wire \in Seq(Commands)
  BY TimelyTypes
<1>2. /\ \A i \in 1..(n - 1) :
           Link(settings[i], settings[i + 1], since = 0, ~target, off_since)
      /\ \A j \in 1..(w - 1) :
           Link(wire[j].setting, wire[j + 1].setting, since = 0, ~target,
                off_since)
      /\ n > 0 /\ w > 0 =>
           Link(settings[n], wire[1].setting, since = 0, ~target, off_since)
      /\ \A i \in 1..n : ZeroAfter(settings[i], ~target, off_since)
      /\ \A j \in 1..w : ZeroAfter(wire[j].setting, ~target, off_since)
      /\ w > 0 => Latest(wire[w].setting)
      /\ w = 0 /\ n > 0 => Latest(settings[n])
  BY DEF SentInv, Sent
<1>3. /\ Len(wire') = w + 1 /\ wire'[w + 1] = c
      /\ \A j \in 1..w : wire'[j] = wire[j]
  BY <1>1, AppendProps
<1>4. Latest(wire[Len(wire)].setting)'
  BY <1>3 DEF Latest
<1>5. Len(settings') = n
  OBVIOUS
<1> HIDE DEF n, w, Latest
<1>6. \A j \in 1..w :
        Link(wire'[j].setting, wire'[j + 1].setting, since = 0, ~target,
             off_since)
  <2> SUFFICES ASSUME NEW j \in 1..w
               PROVE  Link(wire'[j].setting, wire'[j + 1].setting, since = 0,
                           ~target, off_since)
    OBVIOUS
  <2>1. CASE j = w
    <3>1. w > 0 /\ j \in 1..w
      BY <1>1
    <3> QED BY <1>2, <1>3, <2>1, <3>1
  <2>2. CASE j # w
    <3>1. j \in 1..(w - 1) /\ j + 1 \in 1..w
      BY <1>1, <2>2
    <3> QED BY <1>2, <1>3, <3>1
  <2> QED BY <2>1, <2>2
<1>7. n > 0 => Link(settings[n], wire'[1].setting, since = 0, ~target, off_since)
  <2>1. CASE w = 0
    BY <1>2, <1>3, <2>1
  <2>2. CASE w > 0
    <3>1. 1 \in 1..w
      BY <1>1, <2>2
    <3> QED BY <1>2, <1>3, <2>2, <3>1
  <2> QED BY <1>1, <2>1, <2>2
<1>8. \A j \in 1..(w + 1) : ZeroAfter(wire'[j].setting, ~target, off_since)
  <2>1. \A j \in 1..(w + 1) : j \in 1..w \/ j = w + 1
    BY <1>1
  <2> QED BY <1>2, <1>3, <2>1
<1>9. (w + 1) - 1 = w /\ w + 1 # 0
  BY <1>1
<1> QED BY <1>2, <1>3, <1>4, <1>5, <1>6, <1>7, <1>8, <1>9 DEF SentInv, Sent

(* A report worked off: the power is sent, or the one sent last will do. *)
LEMMA CallbackTimely ==
  ASSUME HostTiming, IInv, TimelyInv, TemperatureCallback
  PROVE  TimelyInv'
<1> DEFINE clock == Read + ReportTime
<1>0. /\ ReportTime \in Nat \ {0} /\ KeepTime \in Nat \ {0}
      /\ Significant \in Nat \ {0}
  BY HeaterAssumption
<1>1. /\ shut = "none" /\ alive /\ reports # <<>> /\ shut' = shut
      /\ reports' = Tail(reports)
      /\ UNCHANGED <<pin, settings, now, alive, since, target, off_since,
                     punctual>>
  BY DEF TemperatureCallback, digitalVars, pastVars
<1>2. PICK x \in Powers : SetPwm(Head(reports), Wanted(x))
  BY HeaterAssumption DEF TemperatureCallback, Powers
<1> DEFINE p == Wanted(x)
<1>3. p \in Powers /\ p \in Nat /\ (~target => p = 0)
  BY DigitalOutAssumption DEF Wanted, Powers
<1>4. /\ now \in Nat /\ last_clock \in Nat /\ HostInv /\ WireInv
      /\ last_pwm_value \in Nat /\ next_pwm_time \in Nat
      /\ off_since \in Nat /\ punctual \in BOOLEAN /\ since \in Nat
      /\ wire \in Seq(Commands) /\ target \in BOOLEAN
      /\ pin.mq \in Seq(Settings)
  BY <1>1, TimelyTypes
<1> HIDE DEF p
<1> SUFFICES ASSUME punctual  PROVE TimelyInv'
  BY <1>1, <1>4 DEF TimelyInv, PromptInv
<1>5. PromptInv /\ PowerInv /\ SentInv /\ RestartInv
  BY <1>1 DEF TimelyInv
<1>6. reports = <<Read>> /\ Head(reports) = Read /\ reports' = <<>>
  <2>1. reports = <<Read>>
    BY <1>1, <1>5 DEF PromptInv
  <2>2. Head(<<Read>>) = Read /\ Tail(<<Read>>) = <<>>
    OBVIOUS
  <2> QED BY <1>1, <2>1, <2>2
<1>7. /\ Read \in Int /\ Read <= now /\ now < clock /\ Read' = Read
      /\ Handled = Read - ReportTime /\ Handled' = Read
  BY <1>1, <1>4, <1>6, ReadProps DEF Read, Handled
<1>8. clock \in Nat /\ last_clock <= clock
  <2>1. 1 \in 1..Len(reports) /\ reports[1] = Read
    BY <1>6
  <2> QED BY <1>0, <1>4, <1>7, <2>1 DEF HostInv
<1> HIDE DEF clock
<1>9. CASE Suppressed(Read, p)
  <2>1. UNCHANGED <<next_pwm_time, last_pwm_value, last_clock, wire>>
    BY <1>2, <1>6, <1>9 DEF SetPwm, p
  <2>2. PromptInv'
    BY <1>1, <1>5, <1>6, <2>1 DEF PromptInv
  <2>3. SentInv'
    BY <1>1, <1>5, <2>1 DEF SentInv, Sent, Latest
  <2>4. RestartInv'
    BY <1>1, <1>5, <1>6, <2>1 DEF RestartInv
  <2>5. PowerInv'
    <3>1. /\ Read < next_pwm_time \/ last_pwm_value = 0
          /\ Abs(p - last_pwm_value) < Significant
      BY <1>9 DEF Suppressed
    <3>2. ~target => last_pwm_value < Significant
      BY <1>0, <1>3, <1>4, <3>1 DEF Abs
    <3>3. last_pwm_value # 0 => next_pwm_time = last_clock + KeepTime
      BY <1>5 DEF PowerInv
    <3>4. ASSUME ~target, Read >= off_since + KeepTime + ReportTime
          PROVE  last_pwm_value = 0
      <4> SUFFICES ASSUME last_pwm_value # 0 PROVE FALSE
        OBVIOUS
      <4>1. last_clock > off_since + ReportTime
        BY <1>0, <1>4, <1>7, <3>1, <3>3, <3>4
      <4> QED BY <1>1, <1>5, <3>4, <4>1, LatestZero
    <3> QED BY <1>1, <1>7, <2>1, <3>1, <3>2, <3>3, <3>4 DEF PowerInv
  <2>6. LimitExact => LimitExact'
    BY <1>1, <2>1 DEF LimitExact
  <2> QED BY <1>1, <1>4, <2>2, <2>3, <2>4, <2>5, <2>6 DEF TimelyInv
<1>10. CASE ~Suppressed(Read, p)
  <2> DEFINE c == [setting |-> Setting(clock, p), min_clock |-> last_clock]
  <2>1. /\ next_pwm_time' = clock + KeepTime /\ last_pwm_value' = p
        /\ last_clock' = clock /\ wire' = Append(wire, c)
    BY <1>2, <1>6, <1>10 DEF SetPwm, SendPwm, p, clock
  <2>2. /\ c \in Commands /\ c.setting.waketime = clock
        /\ c.setting.on_duration = p /\ c.min_clock = last_clock
    BY <1>3, <1>4, <1>8 DEF Commands, Settings, Setting
  <2> HIDE DEF c
  <2>3. /\ Len(wire) \in Nat /\ Len(wire') = Len(wire) + 1
        /\ wire'[Len(wire) + 1] = c
        /\ \A j \in 1..Len(wire) : wire'[j] = wire[j]
        /\ \A j \in 1..Len(wire') : j \in 1..Len(wire) \/ j = Len(wire) + 1
    <3>1. /\ Len(wire) \in Nat /\ Len(wire') = Len(wire) + 1
          /\ wire'[Len(wire) + 1] = c
          /\ \A j \in 1..Len(wire) : wire'[j] = wire[j]
      BY <1>4, <2>1, <2>2, AppendProps
    <3> QED BY <3>1
  <2>4. PromptInv'
    <3>1. now <= clock
      BY <1>4, <1>7, <1>8
    <3> QED BY <1>1, <1>5, <1>6, <2>2, <2>3, <3>1 DEF PromptInv
  <2>5. PowerInv'
    <3>1. Read < clock + KeepTime
      BY <1>0, <1>4, <1>7, <1>8
    <3> QED BY <1>0, <1>1, <1>3, <1>7, <2>1, <3>1 DEF PowerInv
  <2>6. RestartInv'
    <3>1. ASSUME since # 0, now = since \/ (~target /\ off_since = since)
          PROVE  FALSE
      <4>1. last_pwm_value = 0 /\ now # since
        BY <1>1, <1>5, <3>1 DEF RestartInv
      <4>2. p = 0
        BY <1>3, <3>1, <4>1
      <4> QED BY <1>0, <1>10, <4>1, <4>2 DEF Suppressed, Abs
    <3> QED BY <1>1, <3>1 DEF RestartInv
  <2>7. SentInv'
    <3>1. ZeroAfter(c.setting, ~target, off_since)
      BY <1>3, <2>2 DEF ZeroAfter
    <3>2. ASSUME NEW a, Latest(a)
          PROVE  Link(a, c.setting, since = 0, ~target, off_since)
      <4>1. a.waketime = last_clock /\ a.on_duration = last_pwm_value
        BY <3>2 DEF Latest
      <4>2. clock = Read + ReportTime
        BY DEF clock
      <4>3. last_pwm_value # 0 =>
              clock < last_clock + KeepTime + 2 * ReportTime
        BY <1>0, <1>4, <1>5, <1>7, <4>2 DEF PowerInv
      <4>4. ~target /\ clock > off_since + 2 * ReportTime =>
              last_pwm_value < Significant
        <5>1. clock > off_since + 2 * ReportTime =>
                Read - ReportTime > off_since
          BY <1>0, <1>4, <1>7, <4>2
        <5> QED BY <1>5, <1>7, <5>1 DEF PowerInv
      <4>5. ~target /\ clock >= off_since + KeepTime + 3 * ReportTime =>
              last_pwm_value = 0
        <5>1. clock >= off_since + KeepTime + 3 * ReportTime =>
                Read - ReportTime >= off_since + KeepTime + ReportTime
          BY <1>0, <1>4, <1>7, <4>2
        <5> QED BY <1>5, <1>7, <5>1 DEF PowerInv
      <4> QED BY <2>2, <4>1, <4>3, <4>4, <4>5 DEF Link
    <3> QED BY <1>1, <1>5, <2>1, <2>2, <3>1, <3>2, SentGrows
  <2>8. LimitExact => LimitExact'
    <3> SUFFICES ASSUME LimitExact PROVE LimitExact'
      OBVIOUS
    <3>1. /\ \A j \in 1..Len(wire) : wire[j].setting.waketime <= last_clock
          /\ \A j \in 1..Len(pin.mq) : pin.mq[j].waketime <= last_clock
      BY <1>4 DEF WireInv, Before
    <3>2. ASSUME NEW j \in 1..Len(wire')
          PROVE  /\ j > 1 => wire'[j - 1].setting.waketime
                               <= wire'[j].min_clock
                 /\ j = 1 /\ pin.mq # <<>> =>
                      pin.mq[1].waketime <= wire'[j].min_clock
      <4>1. CASE j \in 1..Len(wire)
        <5>1. j > 1 => j - 1 \in 1..Len(wire)
          BY <2>3, <4>1
        <5> QED BY <2>3, <4>1, <5>1 DEF LimitExact
      <4>2. CASE j = Len(wire) + 1
        <5>1. j > 1 => j - 1 \in 1..Len(wire) /\ wire'[j - 1] = wire[j - 1]
          BY <2>3, <4>2
        <5>2. pin.mq # <<>> => 1 \in 1..Len(pin.mq)
          BY <1>4
        <5> QED BY <2>2, <2>3, <3>1, <4>2, <5>1, <5>2
      <4> QED BY <2>3, <4>1, <4>2
    <3> QED BY <1>1, <3>2 DEF LimitExact
  <2> QED BY <1>1, <1>4, <2>4, <2>5, <2>6, <2>7, <2>8 DEF TimelyInv
<1> QED BY <1>9, <1>10

-----------------------------------------------------------------------------
(* Settings that are delivered and settings that no longer matter *)

(* The end of what was sent. *)
LEMMA SentSuffix ==
  ASSUME NEW s \in Seq(Settings), NEW c, NEW clock \in Nat, NEW r, Sent(s, c),
         Trimmed(s, clock, r)
  PROVE  Sent(r, c)
<1> DEFINE n == Len(s)
           w == Len(c)
           k == Len(r)
           d == n - k
<1>1. /\ n \in Nat /\ k \in Nat /\ d \in Nat
      /\ \A i \in 1..k : d + i \in 1..n /\ r[i] = s[d + i]
      /\ n > 0 <=> k > 0
  <2>1. n \in Nat /\ (s # <<>> <=> n > 0)
    OBVIOUS
  <2>2. /\ k \in Nat /\ k <= n
        /\ s # <<>> => k >= 1
    BY DEF Trimmed
  <2>3. \A i \in 1..k : d + i \in 1..n /\ r[i] = s[d + i]
    BY DEF Trimmed
  <2> HIDE DEF n, k
  <2>4. d \in Nat /\ (n > 0 <=> k > 0)
    BY <2>1, <2>2
  <2> QED BY <2>1, <2>2, <2>3, <2>4
<1>2. /\ \A i \in 1..(n - 1) :
           Link(s[i], s[i + 1], since = 0, ~target, off_since)
      /\ \A j \in 1..(w - 1) :
           Link(c[j].setting, c[j + 1].setting, since = 0, ~target, off_since)
      /\ n > 0 /\ w > 0 =>
           Link(s[n], c[1].setting, since = 0, ~target, off_since)
      /\ \A i \in 1..n : ZeroAfter(s[i], ~target, off_since)
      /\ \A j \in 1..w : ZeroAfter(c[j].setting, ~target, off_since)
      /\ w > 0 => Latest(c[w].setting)
      /\ w = 0 /\ n > 0 => Latest(s[n])
      /\ w = 0 /\ n = 0 => last_pwm_value = 0 /\ since = 0
  BY DEF Sent
<1>3. k > 0 => r[k] = s[n]
  <2>1. k > 0 => k \in 1..k /\ d + k = n
    BY <1>1
  <2> HIDE DEF k, n, d
  <2> QED BY <1>1, <2>1
<1> HIDE DEF n, w, k, d
<1>4. \A i \in 1..(k - 1) : Link(r[i], r[i + 1], since = 0, ~target, off_since)
  <2>1. ASSUME NEW i \in 1..(k - 1)
        PROVE  /\ i \in 1..k /\ i + 1 \in 1..k /\ d + (i + 1) = (d + i) + 1
               /\ d + i \in Int
    BY <1>1
  <2>2. ASSUME NEW i \in 1..(k - 1)
        PROVE  /\ r[i] = s[d + i] /\ r[i + 1] = s[(d + i) + 1]
               /\ d + i \in 1..(n - 1)
    <3>1. d + i \in 1..n /\ (d + i) + 1 \in 1..n
      BY <1>1, <2>1
    <3>2. d + i \in 1..(n - 1)
      BY <1>1, <2>1, <3>1
    <3> QED BY <1>1, <2>1, <3>2
  <2> QED BY <1>2, <2>2
<1>5. \A i \in 1..k : ZeroAfter(r[i], ~target, off_since)
  BY <1>1, <1>2
<1>6. w = 0 /\ k > 0 => Latest(r[k])
  BY <1>1, <1>2, <1>3
<1>7. k > 0 /\ w > 0 => Link(r[k], c[1].setting, since = 0, ~target, off_since)
  BY <1>1, <1>2, <1>3
<1>8. w = 0 /\ k = 0 => last_pwm_value = 0 /\ since = 0
  BY <1>1, <1>2
<1> QED BY <1>2, <1>4, <1>5, <1>6, <1>7, <1>8 DEF Sent, k, w

(* A setting that is delivered. *)
LEMMA SentMoves ==
  ASSUME NEW s \in Seq(Settings), NEW c \in Seq(Commands), c # <<>>,
         Sent(s, c)
  PROVE  Sent(Append(s, c[1].setting), Tail(c))
<1> DEFINE n == Len(s)
           w == Len(c)
           m == c[1].setting
           t == Append(s, m)
           e == Tail(c)
<1>1. c[1] \in Commands /\ m \in Settings
  <2>1. c[1] \in Commands
    BY TailProps
  <2> QED BY <2>1 DEF Commands
<1>2. /\ n \in Nat /\ Len(t) = n + 1 /\ t[n + 1] = m
      /\ \A i \in 1..n : t[i] = s[i]
  BY <1>1, AppendProps
<1>3. /\ w \in Nat /\ w >= 1 /\ Len(e) = w - 1
      /\ \A j \in 1..(w - 1) : e[j] = c[j + 1]
  BY TailProps
<1>4. /\ \A i \in 1..(n - 1) :
           Link(s[i], s[i + 1], since = 0, ~target, off_since)
      /\ \A j \in 1..(w - 1) :
           Link(c[j].setting, c[j + 1].setting, since = 0, ~target, off_since)
      /\ n > 0 /\ w > 0 =>
           Link(s[n], c[1].setting, since = 0, ~target, off_since)
      /\ \A i \in 1..n : ZeroAfter(s[i], ~target, off_since)
      /\ \A j \in 1..w : ZeroAfter(c[j].setting, ~target, off_since)
      /\ w > 0 => Latest(c[w].setting)
  BY DEF Sent
<1> HIDE DEF n, w, t, e
<1>5. \A i \in 1..n : Link(t[i], t[i + 1], since = 0, ~target, off_since)
  <2> SUFFICES ASSUME NEW i \in 1..n
               PROVE  Link(t[i], t[i + 1], since = 0, ~target, off_since)
    OBVIOUS
  <2>1. CASE i = n
    <3>1. n > 0 /\ w > 0 /\ n \in 1..n
      BY <1>2, <1>3
    <3> QED BY <1>2, <1>4, <2>1, <3>1
  <2>2. CASE i # n
    <3>1. i \in 1..(n - 1) /\ i + 1 \in 1..n
      BY <1>2, <2>2
    <3> QED BY <1>2, <1>4, <3>1
  <2> QED BY <2>1, <2>2
<1>6. \A j \in 1..((w - 1) - 1) :
        Link(e[j].setting, e[j + 1].setting, since = 0, ~target, off_since)
  <2>1. \A j \in 1..((w - 1) - 1) :
          /\ j \in 1..(w - 1) /\ j + 1 \in 1..(w - 1)
    BY <1>3
  <2> QED BY <1>3, <1>4, <2>1
<1>7. w - 1 > 0 => Link(t[n + 1], e[1].setting, since = 0, ~target, off_since)
  <2>1. w - 1 > 0 => 1 \in 1..(w - 1) /\ 1 + 1 = 2
    BY <1>3
  <2> QED BY <1>2, <1>3, <1>4, <2>1
<1>8. /\ \A i \in 1..(n + 1) : ZeroAfter(t[i], ~target, off_since)
      /\ \A j \in 1..(w - 1) : ZeroAfter(e[j].setting, ~target, off_since)
  <2>1. \A i \in 1..(n + 1) : i \in 1..n \/ i = n + 1
    BY <1>2
  <2>2. 1 \in 1..w /\ \A j \in 1..(w - 1) : j + 1 \in 1..w
    BY <1>3
  <2> QED BY <1>2, <1>3, <1>4, <2>1, <2>2
<1>9. w - 1 > 0 => Latest(e[w - 1].setting)
  <2>1. w - 1 > 0 => w - 1 \in 1..(w - 1) /\ (w - 1) + 1 = w /\ w > 0
    BY <1>3
  <2> QED BY <1>3, <1>4, <2>1
<1>10. w - 1 = 0 => Latest(t[n + 1])
  <2>1. w - 1 = 0 => w = 1
    BY <1>3
  <2> QED BY <1>2, <1>4, <2>1
<1>11. (n + 1) - 1 = n /\ n + 1 # 0
  BY <1>2
<1> QED BY <1>2, <1>3, <1>5, <1>6, <1>7, <1>8, <1>9, <1>10, <1>11
        DEF Sent, t, e

(* What a delivery does to the settings: the new one is put behind them, and
   those no longer in force are forgotten. *)
LEMMA DeliveredSettings ==
  ASSUME IInv, Deliver, ~late'
  PROVE  /\ Append(settings, wire[1].setting) \in Seq(Settings)
         /\ Trimmed(Append(settings, wire[1].setting), now, settings')
<1> DEFINE m == wire[1].setting
           s == Append(settings, m)
<1>1. /\ shut = "none" /\ wire # <<>>
      /\ settings' = InForce(Append(settings, wire[1].setting), now)
  BY DeliveredOnTime DEF Deliver, IInv
<1>2. HostTypes /\ PinTypes /\ WireInv /\ QueueInv
  BY <1>1 DEF IInv, PinsInv
<1>3. /\ wire \in Seq(Commands) /\ settings \in Seq(Settings) /\ now \in Nat
  BY <1>2 DEF PinTypes, HostTypes
<1>4. Head(wire) = wire[1] /\ 1 \in 1..Len(wire)
  BY <1>1, <1>3, TailProps
<1>5. m \in Settings /\ m.waketime \in Nat
  BY <1>3, <1>4, ClockTypes
<1>6. \A i \in 1..Len(settings) : settings[i].waketime <= m.waketime
  BY <1>2, <1>4 DEF WireInv, Before
<1> HIDE DEF m
<1>7. /\ s \in Seq(Settings) /\ Len(settings) \in Nat
      /\ Len(s) = Len(settings) + 1
      /\ \A i \in 1..Len(settings) : s[i] = settings[i]
      /\ s[Len(settings) + 1] = m
  BY <1>3, <1>5, AppendProps
<1>8. settings' = InForce(s, now)
  BY <1>1, <1>4 DEF m
<1> HIDE DEF s
<1>9. Ascending(s)
  <2>1. \A i \in 1..Len(s) : i \in 1..Len(settings) \/ i = Len(settings) + 1
    BY <1>7
  <2>2. \A i \in 1..Len(s) : s[i].waketime <= m.waketime
    BY <1>5, <1>6, <1>7, <2>1
  <2> SUFFICES ASSUME NEW i \in 1..Len(s), NEW j \in 1..Len(s), i <= j
               PROVE  s[i].waketime <= s[j].waketime
    BY DEF Ascending
  <2>3. CASE j \in 1..Len(settings)
    BY <1>2, <1>7, <2>1, <2>3 DEF QueueInv, Ascending
  <2>4. CASE j = Len(settings) + 1
    BY <1>7, <2>2, <2>4
  <2> QED BY <2>1, <2>3, <2>4
<1>10. Trimmed(s, now, settings')
  BY <1>3, <1>7, <1>8, <1>9, InForceProps
<1> QED BY <1>7, <1>10 DEF s, m

(* Sent is about what has not changed. *)
LEMMA SentStays ==
  ASSUME UNCHANGED <<since, target, off_since, last_pwm_value, last_clock>>,
         Sent(settings', wire')
  PROVE  SentInv'
BY DEF SentInv, Sent, Latest

(* A host on time finds the pin's queue empty, and its setting arrives before
   it is to take effect and before the limit of the one in force ends. *)
LEMMA DeliverInTime ==
  ASSUME HostPunctual, IInv, TimelyInv, Deliver, ~late', punctual, alive, since = 0
  PROVE  /\ shut' = "none" /\ pin'.mq = <<wire[1].setting>>
         /\ pin'.check_end
<1> USE HeaterAssumption, DigitalOutAssumption
<1> DEFINE m == wire[1].setting
           n == Len(settings)
<1>1. /\ shut = "none" /\ wire # <<>> /\ Head(wire).min_clock < now
      /\ QueueDigitalOut(Head(wire).setting, now)
  BY DEF Deliver
<1>2. /\ PinTypes /\ PinsInv /\ pin \in Pins
      /\ wire \in Seq(Commands) /\ settings \in Seq(Settings)
      /\ pin.mq \in Seq(Settings) /\ now \in Nat
  BY <1>1, TimelyTypes DEF PinTypes
<1>3. /\ Head(wire) = wire[1] /\ Len(wire) \in Nat /\ 1 \in 1..Len(wire)
  BY <1>1, <1>2, TailProps
<1>4. /\ m.waketime \in Nat /\ m \in Settings
      /\ wire[1].min_clock \in Nat
      /\ \A i \in 1..n : settings[i].waketime \in Nat
  BY <1>1, <1>3, SentTypes
<1>5. PromptInv /\ SentInv /\ LimitExact
  BY <1>1 DEF TimelyInv
<1>6. now <= m.waketime
  BY <1>3, <1>5 DEF PromptInv
<1>7. pin.mq = <<>>
  <2> SUFFICES ASSUME pin.mq # <<>>
               PROVE  FALSE
    OBVIOUS
  <2>1. 1 \in 1..Len(pin.mq) /\ pin.mq[1].waketime \in Nat
    <3>1. 1 \in 1..Len(pin.mq)
      BY <1>2
    <3> QED BY <1>2, <3>1, ClockTypes
  <2>2. pin.mq[1].waketime >= now
    BY <1>2, <2>1 DEF PinsInv, QueueInv
  <2>3. pin.mq[1].waketime <= wire[1].min_clock
    BY <1>3, <1>5 DEF LimitExact
  <2> QED BY SMTT(30), <1>1, <1>2, <1>3, <1>4, <2>1, <2>2, <2>3
<1>8. ~(pin.check_end /\ pin.end_time < m.waketime)
  <2> SUFFICES ASSUME pin.check_end
               PROVE  m.waketime <= pin.end_time
    BY SMTT(30), <1>2, <1>4 DEF Pins
  <2>1. /\ MaxDuration # 0 /\ n > 0 /\ settings[n].on_duration # 0
        /\ pin.end_time = settings[n].waketime + MaxDuration
    BY <1>5, <1>7 DEF LimitExact
  <2>2. n \in 1..n /\ Len(wire) > 0
    BY <1>2, <1>3, <2>1
  <2>3. Link(settings[n], m, since = 0, ~target, off_since)
    BY <1>5, <2>1, <2>2 DEF SentInv, Sent
  <2>4. m.waketime < settings[n].waketime + KeepTime + 2 * ReportTime
    BY <2>1, <2>3 DEF Link
  <2>5. KeepTime + 2 * ReportTime <= MaxDuration
    BY <2>1 DEF HostPunctual
  <2>6. settings[n].waketime \in Nat
    BY <1>4, <2>2
  <2>7. m.waketime \in Nat
    BY <1>4
  <2> HIDE DEF m, n
  <2> QED BY <2>1, <2>4, <2>5, <2>6, <2>7
<1>9. QueueDigitalOut(m, now)
  BY <1>1, <1>3
<1>10. ~(Len(pin.mq) >= Slots) /\ Append(pin.mq, m) = <<m>>
  BY <1>7
<1>11. ~(m.waketime < now)
  BY SMTT(30), <1>2, <1>4, <1>6
<1> HIDE DEF m
<1>12. /\ shut' = shut
       /\ \/ pin' = [[pin EXCEPT !.mq = Append(@, m)]
                       EXCEPT !.end_time = m.waketime, !.check_end = TRUE]
          \/ pin' = [[[pin EXCEPT !.mq = Append(@, m)]
                       EXCEPT !.end_time = m.waketime, !.check_end = TRUE]
                       EXCEPT !.active = TRUE, !.func = "load",
                              !.waketime = m.waketime]
  <2> DEFINE queued == [pin EXCEPT !.mq = Append(@, m)]
             first  == [queued EXCEPT !.end_time = m.waketime, !.check_end = TRUE]
             last   == [first EXCEPT !.active = TRUE, !.func = "load",
                                     !.waketime = m.waketime]
  <2>1. last.waketime = m.waketime
    BY <1>2 DEF Pins
  <2>2. AddTimer(last, now) => pin' = last /\ shut' = shut
    <3> HIDE DEF last
    <3> QED BY <1>11, <2>1, AddedOnTime
  <2>3. \/ pin' = first /\ shut' = shut
        \/ AddTimer(last, now)
    BY <1>7, <1>8, <1>9, <1>10, Zenon DEF QueueDigitalOut
  <2> QED BY <2>2, <2>3, Zenon
<1>13. pin'.mq = Append(pin.mq, m) /\ pin'.check_end
  BY <1>2, <1>12 DEF Pins
<1> QED BY <1>1, <1>10, <1>12, <1>13 DEF m

LEMMA DeliverTimely ==
  ASSUME HostPunctual, IInv, TimelyInv, Deliver, ~late'
  PROVE  TimelyInv'
<1> DEFINE m == wire[1].setting
           s == Append(settings, m)
<1>1. /\ shut = "none" /\ wire # <<>> /\ wire' = Tail(wire)
      /\ UNCHANGED <<alive, since, target, off_since, last_pwm_value,
                     next_pwm_time, last_clock, punctual, now, reports>>
  BY DEF Deliver, hostVars
<1>2. /\ wire \in Seq(Commands) /\ settings \in Seq(Settings)
      /\ punctual \in BOOLEAN /\ off_since \in Nat /\ now \in Nat
  BY <1>1, TimelyTypes
<1>3. /\ Len(wire) \in Nat /\ Len(wire') = Len(wire) - 1
      /\ 1 \in 1..Len(wire)
      /\ \A i \in 1..Len(wire') : i + 1 \in 1..Len(wire) /\ wire'[i] = wire[i+1]
  BY <1>1, <1>2, TailProps
<1>4. s \in Seq(Settings) /\ Trimmed(s, now, settings')
  BY DeliveredSettings
<1>5. PromptInv'
  <2>1. PromptInv
    BY <1>1 DEF TimelyInv
  <2>2. Read' = Read
    BY <1>1 DEF Read
  <2> QED BY <1>1, <1>3, <2>1, <2>2 DEF PromptInv
<1>6. ASSUME punctual, alive
      PROVE  PowerInv' /\ SentInv' /\ RestartInv'
  <2>1. PowerInv /\ SentInv /\ RestartInv
    BY <1>1, <1>6 DEF TimelyInv
  <2>2. PowerInv'
    <3>1. Handled' = Handled
      BY <1>1 DEF Handled, Read
    <3> QED BY <1>1, <2>1, <3>1 DEF PowerInv
  <2>3. Sent(settings', wire')
    <3>1. Sent(s, Tail(wire))
      BY <1>1, <1>2, <2>1, SentMoves DEF SentInv
    <3> HIDE DEF s
    <3> QED BY <1>1, <1>2, <1>4, <3>1, SentSuffix
  <2>4. SentInv'
    BY <1>1, <2>3, SentStays
  <2>5. RestartInv'
    BY <1>1, <2>1 DEF RestartInv
  <2> QED BY <2>2, <2>4, <2>5
<1>7. ASSUME punctual, alive, since = 0
      PROVE  shut' = "none" /\ LimitExact'
  <2>1. shut' = "none" /\ pin'.mq = <<m>> /\ pin'.check_end
    BY <1>7, DeliverInTime
  <2>2. LimitExact
    BY <1>1, <1>7 DEF TimelyInv
  <2> HIDE DEF m
  <2>3. Len(pin'.mq) <= 1 /\ pin'.mq # <<>> /\ pin'.mq[1] = m
    BY <2>1
  <2>4. ASSUME NEW j \in 1..Len(wire')
        PROVE  /\ j > 1 => wire'[j - 1].setting.waketime
                             <= wire'[j].min_clock
               /\ j = 1 => m.waketime <= wire'[j].min_clock
    <3>1. /\ j + 1 \in 1..Len(wire) /\ wire'[j] = wire[j + 1]
          /\ (j + 1) - 1 = j /\ j + 1 > 1
      BY <1>3
    <3>2. wire[j].setting.waketime <= wire[j + 1].min_clock
      BY <2>2, <3>1 DEF LimitExact
    <3>3. j > 1 => /\ j - 1 \in 1..Len(wire') /\ (j - 1) + 1 = j
                   /\ wire'[j - 1] = wire[j]
      <4>1. j > 1 => j - 1 \in 1..Len(wire') /\ (j - 1) + 1 = j
        BY <1>3
      <4> QED BY <1>3, <4>1
    <3> QED BY <3>1, <3>2, <3>3 DEF m
  <2> QED BY <2>1, <2>3, <2>4 DEF LimitExact
<1> QED BY <1>1, <1>2, <1>5, <1>6, <1>7 DEF TimelyInv

(* The setting in force is renewed before its limit ends. *)
LEMMA NotMissed ==
  ASSUME HostPunctual, IInv, TimelyInv, shut = "none", punctual, alive,
         since = 0, pin.check_end, pin.mq = <<>>
  PROVE  now < pin.end_time
<1> USE HeaterAssumption, DigitalOutAssumption
<1> DEFINE n == Len(settings)
<1>1. PromptInv /\ PowerInv /\ SentInv /\ LimitExact
  BY DEF TimelyInv
<1>2. /\ settings \in Seq(Settings) /\ wire \in Seq(Commands)
      /\ n \in Nat /\ Len(wire) \in Nat
      /\ now \in Nat /\ last_clock \in Nat
  BY TimelyTypes
<1>3. /\ MaxDuration # 0 /\ n > 0 /\ settings[n].on_duration # 0
      /\ pin.end_time = settings[n].waketime + MaxDuration
  BY <1>1 DEF LimitExact
<1>4. settings[n].waketime \in Nat
  <2>1. n \in 1..n
    BY <1>2, <1>3
  <2> QED BY <2>1, SentTypes
<1>5. KeepTime + 2 * ReportTime <= MaxDuration
  BY <1>3 DEF HostPunctual
<1>6. CASE wire # <<>>
  <2>1. 1 \in 1..Len(wire) /\ Len(wire) > 0
    BY <1>2, <1>6
  <2>2. now <= wire[1].setting.waketime
    BY <1>1, <2>1 DEF PromptInv
  <2>3. Link(settings[n], wire[1].setting, since = 0, ~target, off_since)
    BY <1>1, <1>3, <2>1 DEF SentInv, Sent
  <2>4. wire[1].setting.waketime
          < settings[n].waketime + KeepTime + 2 * ReportTime
    BY <1>3, <2>3 DEF Link
  <2>5. wire[1].setting.waketime \in Nat
    BY <2>1, SentTypes
  <2> DEFINE x == settings[n].waketime
             y == wire[1].setting.waketime
  <2>6. /\ x \in Nat /\ y \in Nat /\ now <= y
        /\ y < x + KeepTime + 2 * ReportTime /\ pin.end_time = x + MaxDuration
    BY <1>3, <1>4, <2>2, <2>4, <2>5
  <2>7. /\ now \in Nat /\ KeepTime \in Nat /\ ReportTime \in Nat
        /\ MaxDuration \in Nat /\ pin.end_time = x + MaxDuration
    BY <1>2, <2>6
  <2> HIDE DEF x, y, n
  <2>8. now < x + KeepTime + 2 * ReportTime
    BY <2>6, <2>7
  <2> QED BY <1>5, <2>6, <2>7, <2>8
<1>7. CASE wire = <<>>
  <2>1. Len(wire) = 0
    BY <1>7
  <2>2. Latest(settings[n])
    BY <1>1, <1>3, <2>1 DEF SentInv, Sent
  <2>3. /\ settings[n].waketime = last_clock
        /\ next_pwm_time = last_clock + KeepTime /\ Handled < next_pwm_time
    BY <1>1, <1>3, <2>2 DEF Latest, PowerInv
  <2>4. Handled \in Int /\ now < Handled + 2 * ReportTime
    BY <1>2, HandledProps
  <2>5. Handled < last_clock + KeepTime /\ pin.end_time = last_clock + MaxDuration
    BY <1>3, <2>3
  <2>6. /\ now \in Nat /\ KeepTime \in Nat /\ ReportTime \in Nat
        /\ MaxDuration \in Nat /\ last_clock \in Nat
    BY <1>2
  <2> HIDE DEF n
  <2>7. now < last_clock + KeepTime + 2 * ReportTime
    BY <2>4, <2>5, <2>6
  <2> QED BY <1>5, <2>5, <2>6, <2>7
<1> QED BY <1>6, <1>7

(* The last setting of the queue is loaded. *)
LEMMA LoadsLast ==
  ASSUME pin \in Pins, LoadEvent, pin.mq # <<>>, Tail(pin.mq) = <<>>
  PROVE  /\ shut' = shut /\ pin'.mq = <<>>
         /\ pin'.check_end = Limited(Head(pin.mq))
         /\ Limited(Head(pin.mq)) =>
              pin'.end_time = pin.waketime + MaxDuration
<1> DEFINE m     == Head(pin.mq)
           rest  == Tail(pin.mq)
           on    == m.on_duration > 0
           pwm   == on /\ m.on_duration < CycleTime
           limit == pin.waketime + MaxDuration
           end   == IF rest # <<>> THEN Head(rest).waketime
                    ELSE IF Limited(m) THEN limit ELSE 0
           check == rest # <<>> \/ Limited(m)
           wake  == pin.waketime + m.on_duration
           cycle == pwm /\ (~check \/ wake < end)
           loaded == [pin EXCEPT !.level = on, !.on = on, !.mq = rest,
                              !.end_time = end, !.check_end = check,
                              !.toggling = pwm]
<1>1. /\ shut' = shut
      /\ pin' = IF cycle
                THEN [loaded EXCEPT !.func = "toggle", !.waketime = wake,
                                    !.on_duration = m.on_duration,
                                    !.off_duration = CycleTime - m.on_duration]
                ELSE IF check THEN [loaded EXCEPT !.waketime = end]
                ELSE [loaded EXCEPT !.active = FALSE]
  BY DEF LoadEvent, PinShutdown
<1>2. rest = <<>>
  OBVIOUS
<1> HIDE DEF m, rest, limit, on, pwm, wake
<1>3. /\ Limited(m) => end = limit
      /\ check = Limited(m)
  <2>1. Limited(m) => end = limit
    BY <1>2
  <2>2. Limited(m) \in BOOLEAN
    BY DEF Limited
  <2>3. check = (FALSE \/ Limited(m))
    BY <1>2
  <2> HIDE DEF check
  <2> QED BY <2>1, <2>2, <2>3
<1> HIDE DEF end, check, cycle
<1>4. /\ loaded.mq = rest /\ loaded.end_time = end /\ loaded.check_end = check
      /\ {"mq", "end_time", "check_end"} \subseteq DOMAIN loaded
  BY DEF Pins
<1> HIDE DEF loaded
<1>5. pin'.mq = rest /\ pin'.end_time = end /\ pin'.check_end = check
  <2>1. CASE cycle
    BY <1>1, <1>4, <2>1
  <2>2. CASE ~cycle /\ check
    BY <1>1, <1>4, <2>2
  <2>3. CASE ~cycle /\ ~check
    BY <1>1, <1>4, <2>3
  <2> QED BY <2>1, <2>2, <2>3
<1> QED BY <1>1, <1>2, <1>3, <1>5 DEF m, limit

(* What the pin's timer does while the host is on time. *)
LEMMA PinTimerInTime ==
  ASSUME HostPunctual, IInv, TimelyInv, PinTimer, punctual, alive, since = 0
  PROVE  shut' = "none" /\ LimitExact'
<1> USE HeaterAssumption, DigitalOutAssumption
<1> DEFINE n == Len(settings)
<1>1. /\ shut = "none" /\ pin.active /\ pin.waketime <= now
      /\ ToggleEvent \/ LoadEvent
      /\ UNCHANGED <<wire, settings>>
  BY DEF PinTimer, PinEvent
<1>2. /\ PinsInv /\ LimitExact
      /\ pin \in Pins /\ pin.mq \in Seq(Settings) /\ settings \in Seq(Settings)
      /\ now \in Nat /\ n \in Nat
  <2>1. PinTypes /\ PinsInv /\ LimitExact
    BY <1>1, TimelyTypes DEF TimelyInv
  <2> QED BY <1>1, <2>1, TimelyTypes DEF PinTypes
<1>3. CASE ToggleEvent
  <2>1. /\ shut' = shut /\ pin'.mq = pin.mq /\ pin'.check_end = pin.check_end
        /\ pin'.end_time = pin.end_time
    BY <1>2, <1>3 DEF ToggleEvent, Pins
  <2> QED BY <1>1, <1>2, <2>1 DEF LimitExact
<1>4. CASE LoadEvent
  <2> DEFINE m == Head(pin.mq)
             rest == Tail(pin.mq)
  <2>1. pin.check_end /\ pin.waketime = pin.end_time /\ pin.end_time \in Nat
    BY <1>1, <1>2, <1>4 DEF LoadEvent, PinsInv, TimerInv, Pins
  <2>2. pin.mq # <<>>
    <3> SUFFICES ASSUME pin.mq = <<>>
                 PROVE  FALSE
      OBVIOUS
    <3>1. now < pin.end_time
      BY <1>1, <2>1, NotMissed
    <3> QED BY <1>1, <1>2, <2>1, <3>1
  <2>3. /\ Len(pin.mq) = 1 /\ m = pin.mq[1] /\ rest = <<>> /\ 1 \in 1..Len(pin.mq)
    <3>1. Len(pin.mq) <= 1
      BY <1>2 DEF LimitExact
    <3>2. /\ m = pin.mq[1] /\ rest \in Seq(Settings)
          /\ Len(rest) = Len(pin.mq) - 1 /\ Len(pin.mq) \in Nat
          /\ Len(pin.mq) >= 1
      BY <1>2, <2>2, TailProps
    <3>3. Len(pin.mq) = 1
      <4> DEFINE q == Len(pin.mq)
      <4>1. q \in Nat /\ q >= 1 /\ q <= 1
        BY <3>1, <3>2
      <4> HIDE DEF q
      <4>2. q = 1
        BY <4>1
      <4> QED BY <4>2 DEF q
    <3>4. Len(rest) = 0
      BY <3>2, <3>3
    <3> HIDE DEF rest, m
    <3>5. rest = <<>>
      BY <3>2, <3>4
    <3>6. 1 \in 1..Len(pin.mq)
      BY <3>3
    <3> QED BY <3>2, <3>3, <3>5, <3>6
  <2>4. pin.end_time = m.waketime
    BY <1>2, <2>2, <2>3 DEF PinsInv, TimerInv
  <2>5. n > 0 /\ settings[n] = m
    <3>1. n > 0
      BY <1>2, <2>3 DEF PinsInv, QueueInv
    <3>2. n \in 1..n /\ n - n = Len(pin.mq) - 1
      BY <1>2, <2>3, <3>1
    <3>3. settings[n] = pin.mq[1]
      BY <1>2, <2>3, <3>2 DEF PinsInv, QueueInv
    <3> QED BY <2>3, <3>1, <3>3
  <2>6. m.on_duration \in Nat
    <3>1. m \in Settings
      BY <1>2, <2>3
    <3> QED BY <3>1 DEF Settings, Powers
  <2>7. Limited(m) => MaxDuration # 0 /\ m.on_duration # 0
    BY <2>6 DEF Limited, HostPunctual
  <2>8. /\ shut' = shut /\ pin'.mq = <<>>
        /\ pin'.check_end = Limited(m)
        /\ Limited(m) => pin'.end_time = pin.waketime + MaxDuration
    BY <1>2, <1>4, <2>2, <2>3, LoadsLast
  <2> HIDE DEF m, rest
  <2>9. pin'.check_end /\ pin'.mq = <<>> =>
          /\ MaxDuration # 0 /\ n > 0 /\ settings[n].on_duration # 0
          /\ pin'.end_time = settings[n].waketime + MaxDuration
    BY <2>1, <2>4, <2>5, <2>7, <2>8
  <2>10. Len(pin'.mq) <= 1
    BY <2>8
  <2>11. \A j \in 1..Len(wire) :
           j > 1 => wire[j - 1].setting.waketime <= wire[j].min_clock
    BY <1>2 DEF LimitExact
  <2> QED BY <1>1, <2>8, <2>9, <2>10, <2>11 DEF LimitExact
<1> QED BY <1>1, <1>3, <1>4

LEMMA PinTimerTimely ==
  ASSUME HostPunctual, IInv, TimelyInv, PinTimer
  PROVE  TimelyInv'
<1>1. /\ shut = "none"
      /\ UNCHANGED <<alive, since, target, off_since, last_pwm_value,
                     next_pwm_time, last_clock, punctual, now, reports, wire,
                     settings>>
  BY DEF PinTimer, hostVars
<1>2. Read' = Read /\ Handled' = Handled
  BY <1>1 DEF Read, Handled
<1>3. /\ PromptInv => PromptInv'
      /\ PowerInv => PowerInv'
      /\ SentInv => SentInv'
      /\ RestartInv => RestartInv'
  <2>1. PromptInv => PromptInv'
    BY <1>1, <1>2 DEF PromptInv
  <2>2. PowerInv => PowerInv'
    BY <1>1, <1>2 DEF PowerInv
  <2>3. SentInv => SentInv'
    BY <1>1 DEF SentInv, Sent, Latest
  <2>4. RestartInv => RestartInv'
    BY <1>1 DEF RestartInv
  <2> QED BY <2>1, <2>2, <2>3, <2>4
<1>4. punctual /\ alive /\ since = 0 => shut' = "none" /\ LimitExact'
  BY PinTimerInTime
<1> QED BY <1>1, <1>3, <1>4 DEF TimelyInv

LEMMA OtherShutdownTimely ==
  ASSUME TimelyInv, OtherShutdown
  PROVE  TimelyInv'
<1>1. /\ shut' = "other"
      /\ UNCHANGED <<alive, since, off_since, punctual>>
  BY DEF OtherShutdown, PinShutdown, hostVars
<1> QED BY <1>1 DEF TimelyInv

(* The end of what was delivered does not change. *)
LEMMA TrimmedEnd ==
  ASSUME NEW s \in Seq(Settings), NEW clock, NEW r, Trimmed(s, clock, r)
  PROVE  /\ Len(s) > 0 <=> Len(r) > 0
         /\ Len(s) > 0 => r[Len(r)] = s[Len(s)]
<1> DEFINE n == Len(s)
           k == Len(r)
<1>1. n \in Nat /\ (s # <<>> <=> n > 0)
  OBVIOUS
<1>2. /\ k \in Nat /\ k <= n
      /\ s # <<>> => k >= 1
      /\ \A i \in 1..k : r[i] = s[(n - k) + i]
  BY DEF Trimmed
<1> HIDE DEF n, k
<1>3. n > 0 <=> k > 0
  BY <1>1, <1>2
<1>4. n > 0 => k \in 1..k /\ (n - k) + k = n
  BY <1>1, <1>2, <1>3
<1>5. n > 0 => r[k] = s[n]
  BY <1>2, <1>4
<1> QED BY <1>3, <1>5 DEF n, k

LEMMA TickTimely ==
  ASSUME IInv, TimelyInv, Tick
  PROVE  TimelyInv'
<1> USE HeaterAssumption
<1>1. /\ shut = "none" /\ now' = now + 1 /\ settings' = InForce(settings, now')
      /\ punctual => Prompt
      /\ reports' = IF alive /\ now' % ReportTime = 0
                    THEN Append(reports, now') ELSE reports
      /\ UNCHANGED <<pin, shut, alive, since, target, off_since,
                     last_pwm_value, next_pwm_time, last_clock, punctual, wire>>
  BY DEF Tick, digitalVars, hostVars
<1>2. /\ now \in Nat /\ since \in Nat /\ since <= now
      /\ punctual \in BOOLEAN /\ off_since \in Nat /\ alive \in BOOLEAN
      /\ settings \in Seq(Settings) /\ PinsInv
  BY <1>1, TimelyTypes
<1>3. /\ Read \in Int /\ Read <= now /\ now < Read + ReportTime
      /\ now' % ReportTime = 0 => Read' = Read + ReportTime /\ Read' = now'
      /\ now' % ReportTime # 0 => Read' = Read
  BY <1>1, <1>2, ReadProps
<1>4. Trimmed(settings, now', settings')
  <2>1. Ascending(settings) /\ now' \in Nat
    BY <1>1, <1>2 DEF PinsInv, QueueInv
  <2> QED BY <1>1, <1>2, <2>1, InForceProps
<1>5. PromptInv
  BY <1>1 DEF TimelyInv
<1>6. ASSUME punctual, alive, now' % ReportTime = 0
      PROVE  reports = <<>>
  <2> SUFFICES ASSUME reports = <<Read>>
               PROVE  FALSE
    BY <1>5, <1>6 DEF PromptInv
  <2>1. 1 \in DOMAIN reports /\ reports[1] = Read
    OBVIOUS
  <2>2. now + 1 < Read + ReportTime
    BY <1>1, <1>6, <2>1 DEF Prompt
  <2> QED BY <1>1, <1>3, <1>6, <2>2
<1>7. PromptInv'
  <2> SUFFICES ASSUME punctual
               PROVE  /\ \A j \in 1..Len(wire) : now' <= wire[j].setting.waketime
                      /\ alive => reports' = <<>> \/ reports' = <<Read'>>
    BY <1>1 DEF PromptInv
  <2>1. ASSUME NEW j \in 1..Len(wire)
        PROVE  now' <= wire[j].setting.waketime
    <3>1. wire[j].setting.waketime \in Nat
      BY <1>1, SentTypes
    <3>2. j \in DOMAIN wire
      BY SMTT(30), <1>1, TimelyTypes
    <3>3. now < wire[j].setting.waketime
      BY <1>1, <3>2 DEF Prompt
    <3> QED BY SMTT(30), <1>1, <1>2, <3>1, <3>3
  <2>2. ASSUME alive
        PROVE  reports' = <<>> \/ reports' = <<Read'>>
    <3>1. CASE now' % ReportTime = 0
      <4>1. reports = <<>> /\ reports' = Append(reports, now') /\ Read' = now'
        BY <1>1, <1>3, <1>6, <2>2, <3>1
      <4> QED BY <4>1
    <3>2. CASE now' % ReportTime # 0
      BY <1>1, <1>3, <1>5, <2>2, <3>2 DEF PromptInv
    <3> QED BY <3>1, <3>2
  <2> QED BY <2>1, <2>2
<1>8. ASSUME punctual, alive
      PROVE  PowerInv' /\ SentInv' /\ RestartInv'
  <2>1. PowerInv /\ SentInv /\ RestartInv
    BY <1>1, <1>8 DEF TimelyInv
  <2>2. Handled' = Handled
    <3>1. CASE now' % ReportTime = 0
      <4>1. reports = <<>> /\ reports' = Append(reports, now')
        BY <1>1, <1>6, <1>8, <3>1
      <4>2. reports' # <<>>
        BY <4>1
      <4>3. Handled' = Read' - ReportTime /\ Handled = Read
        BY <4>1, <4>2 DEF Handled
      <4> QED BY <1>3, <3>1, <4>3
    <3>2. CASE now' % ReportTime # 0
      BY <1>1, <1>3, <3>2 DEF Handled
    <3> QED BY <3>1, <3>2
  <2>3. PowerInv'
    BY <1>1, <2>1, <2>2 DEF PowerInv
  <2>4. SentInv'
    <3>1. Sent(settings', wire')
      <4>1. Sent(settings, wire') /\ now' \in Nat
        BY <1>1, <1>2, <2>1 DEF SentInv
      <4> QED BY <1>2, <1>4, <4>1, SentSuffix
    <3> QED BY <1>1, <3>1, SentStays
  <2>5. RestartInv'
    <3>1. now' # since
      BY <1>1, <1>2
    <3> QED BY <1>1, <2>1, <3>1 DEF RestartInv
  <2> QED BY <2>3, <2>4, <2>5
<1>9. LimitExact => LimitExact'
  <2>1. /\ Len(settings) > 0 <=> Len(settings') > 0
        /\ Len(settings) > 0 =>
             settings'[Len(settings')] = settings[Len(settings)]
    BY <1>2, <1>4, TrimmedEnd
  <2> QED BY <1>1, <2>1 DEF LimitExact
<1> QED BY <1>1, <1>2, <1>7, <1>8, <1>9 DEF TimelyInv

LEMMA InitTimely ==
  ASSUME Init
  PROVE  TimelyInv
<1> USE HeaterAssumption
<1>1. /\ pin.mq = <<>> /\ pin.check_end = FALSE /\ shut = "none"
      /\ punctual \in BOOLEAN
      /\ now = 1 /\ reports = <<>> /\ wire = <<>> /\ settings = <<>>
      /\ alive = TRUE /\ since = 0 /\ off_since = 0
      /\ last_pwm_value = 0
  BY DEF Init, PinInit
<1>2. Len(wire) = 0 /\ Len(settings) = 0 /\ Len(pin.mq) = 0
  BY <1>1
<1>3. PromptInv
  BY <1>1, <1>2 DEF PromptInv
<1>4. PowerInv
  <2>1. 0 < Significant
    OBVIOUS
  <2> QED BY <1>1, <2>1 DEF PowerInv
<1>5. SentInv
  BY <1>1, <1>2 DEF SentInv, Sent
<1>6. RestartInv
  BY <1>1 DEF RestartInv
<1>7. LimitExact
  BY <1>1, <1>2 DEF LimitExact
<1> QED BY <1>1, <1>3, <1>4, <1>5, <1>6, <1>7 DEF TimelyInv

LEMMA NextTimely ==
  ASSUME HostTiming, HostPunctual, IInv, TimelyInv, [Next]_vars, ~late'
  PROVE  TimelyInv'
<1>1. CASE Next
  BY <1>1, SetTempTimely, CallbackTimely, CrashTimely, RestartTimely,
     DeliverTimely, PinTimerTimely, OtherShutdownTimely, TickTimely DEF Next
<1>2. CASE UNCHANGED vars
  <2>1. UNCHANGED <<pin, shut, now, reports, wire, settings, alive, since, target,
                    off_since, last_pwm_value, next_pwm_time, last_clock, punctual>>
    BY <1>2 DEF vars, digitalVars, hostVars, pastVars
  <2>2. Read' = Read /\ Handled' = Handled
    BY <2>1 DEF Read, Handled
  <2>3. /\ PromptInv => PromptInv'
        /\ PowerInv => PowerInv'
        /\ RestartInv => RestartInv'
    BY <2>1, <2>2 DEF PromptInv, PowerInv, RestartInv
  <2>4. SentInv => SentInv'
    BY <2>1 DEF SentInv, Sent, Latest
  <2>5. LimitExact => LimitExact'
    BY <2>1 DEF LimitExact
  <2> QED BY <2>1, <2>3, <2>4, <2>5 DEF TimelyInv
<1> QED BY <1>1, <1>2

(* A setting in force without power leaves the pin off. *)
LEMMA NoPowerNoLevel ==
  ASSUME DefaultOn = FALSE, IInv, shut = "none", ~Due, InEffect,
         settings[1].on_duration = 0
  PROVE  pin.level = DefaultOn
<1>1. Begun # {} /\ Current = settings[1]
  BY CurrentIsFirst
<1>2. pin.level = Demanded
  BY FollowsSettings DEF PinFollowsSettings
<1>3. settings[1].waketime \in Nat /\ now \in Nat
  <2>1. /\ settings \in Seq(Settings) /\ now \in Nat
    BY DEF IInv, PinTypes, HostTypes
  <2>2. 1 \in 1..Len(settings)
    BY <2>1 DEF InEffect
  <2> QED BY <2>1, <2>2, ClockTypes
<1>4. (now - settings[1].waketime) % CycleTime \in Nat
  BY <1>3, DigitalOutAssumption
<1>5. ((now - settings[1].waketime) % CycleTime < 0) = FALSE
  BY <1>4
<1>6. Demanded = ((now - settings[1].waketime) % CycleTime < 0)
  BY <1>1 DEF Demanded
<1>7. Demanded = FALSE
  BY <1>5, <1>6
<1> QED BY <1>2, <1>7

LEMMA OffWhenZero ==
  ASSUME HostPunctual, IInv, TimelyInv
  PROVE  OffWhenTargetZero
<1> USE HeaterAssumption
<1> DEFINE n == Len(settings)
           a == settings[1]
<1> SUFFICES ASSUME punctual, alive, shut = "none", ~Due, ~target, Begun # {}
             PROVE  /\ now > off_since + 2 * ReportTime =>
                         Current.on_duration < Significant
                    /\ now > off_since + KeepTime + 3 * ReportTime =>
                         pin.level = DefaultOn
  BY DEF OffWhenTargetZero
<1>1. InEffect /\ Current = a
  BY CurrentIsFirst
<1>2. /\ settings \in Seq(Settings) /\ wire \in Seq(Commands) /\ n \in Nat
      /\ Len(wire) \in Nat /\ now \in Nat /\ off_since \in Nat /\ PinsInv
      /\ ReportTime \in Nat /\ KeepTime \in Nat
  BY TimelyTypes
<1>3. PromptInv /\ PowerInv /\ SentInv
  BY DEF TimelyInv
<1>4. n >= 1
  BY <1>1, <1>2 DEF InEffect
<1>5. ASSUME NEW b, b.waketime \in Nat, now <= b.waketime,
             Link(a, b, since = 0, ~target, off_since)
      PROVE  /\ now > off_since + 2 * ReportTime => a.on_duration < Significant
             /\ now > off_since + KeepTime + 3 * ReportTime => a.on_duration = 0
  <2>1. /\ now > off_since + 2 * ReportTime =>
             b.waketime > off_since + 2 * ReportTime
        /\ now > off_since + KeepTime + 3 * ReportTime =>
             b.waketime >= off_since + KeepTime + 3 * ReportTime
    <3> DEFINE x == b.waketime
    <3>1. x \in Nat /\ now <= x
      BY <1>5
    <3> HIDE DEF x, n, a
    <3>2. /\ now > off_since + 2 * ReportTime =>
               x > off_since + 2 * ReportTime
          /\ now > off_since + KeepTime + 3 * ReportTime =>
               x >= off_since + KeepTime + 3 * ReportTime
      BY <1>2, <3>1
    <3> QED BY <3>2 DEF x
  <2> QED BY <1>5, <2>1 DEF Link
<1>6. /\ now > off_since + 2 * ReportTime => a.on_duration < Significant
      /\ now > off_since + KeepTime + 3 * ReportTime => a.on_duration = 0
  <2>1. CASE n >= 2
    <3>1. 1 \in 1..(n - 1) /\ 2 \in 1..n
      BY <1>2, <2>1
    <3>2. Link(a, settings[2], since = 0, ~target, off_since)
      BY <1>3, <3>1 DEF SentInv, Sent
    <3>3. settings[2].waketime \in Nat /\ settings[2].waketime > now
      BY <1>2, <3>1, ClockTypes DEF PinsInv, QueueInv
    <3>4. now <= settings[2].waketime
      BY <1>2, <3>3
    <3> QED BY <1>5, <3>2, <3>3, <3>4
  <2>2. CASE n = 1 /\ wire # <<>>
    <3>1. 1 \in 1..Len(wire) /\ Len(wire) > 0 /\ n > 0
      BY <1>2, <2>2
    <3>2. Link(a, wire[1].setting, since = 0, ~target, off_since)
      BY <1>3, <2>2, <3>1 DEF SentInv, Sent
    <3>3. now <= wire[1].setting.waketime
      BY <1>3, <3>1 DEF PromptInv
    <3>4. wire[1].setting.waketime \in Nat
      BY <3>1, SentTypes
    <3> QED BY <1>5, <3>2, <3>3, <3>4
  <2>3. CASE n = 1 /\ wire = <<>>
    <3>1. Len(wire) = 0 /\ n > 0
      BY <2>3
    <3>2. Latest(a)
      BY <1>3, <2>3, <3>1 DEF SentInv, Sent
    <3>3. Handled \in Int /\ now < Handled + 2 * ReportTime
      BY <1>2, HandledProps
    <3> HIDE DEF n, a
    <3>4. /\ now > off_since + 2 * ReportTime => Handled > off_since
          /\ now > off_since + KeepTime + 3 * ReportTime =>
               Handled >= off_since + KeepTime + ReportTime
      BY <1>2, <3>3
    <3> QED BY <1>3, <3>2, <3>4 DEF Latest, PowerInv
  <2>4. n >= 2 \/ n = 1
    <3>1. n \in Nat /\ n >= 1
      BY <1>2, <1>4
    <3> HIDE DEF n
    <3> QED BY <3>1
  <2>5. wire # <<>> \/ wire = <<>>
    OBVIOUS
  <2> HIDE DEF n, a
  <2> QED BY <2>1, <2>2, <2>3, <2>4, <2>5, Zenon
<1>7. a.on_duration = 0 => pin.level = DefaultOn
  BY <1>1, NoPowerNoLevel DEF HostPunctual
<1> QED BY <1>1, <1>6, <1>7

LEMMA OffOnceRestarted ==
  ASSUME HostPunctual, IInv, TimelyInv
  PROVE  OffAfterRestart
<1> USE HeaterAssumption
<1> DEFINE n == Len(settings)
<1> SUFFICES ASSUME punctual, alive, since # 0, shut = "none", ~Due, ~target,
                    off_since = since, now > since + ConnectDelay
             PROVE  pin.level = DefaultOn
  BY DEF OffAfterRestart
<1>1. /\ settings \in Seq(Settings) /\ wire \in Seq(Commands) /\ n \in Nat
      /\ Len(wire) \in Nat /\ now \in Nat /\ last_clock \in Nat /\ PinsInv
  BY TimelyTypes
<1>2. PromptInv /\ SentInv /\ RestartInv
  BY DEF TimelyInv
<1>3. last_pwm_value = 0 /\ last_clock < now
  BY <1>1, <1>2 DEF RestartInv
<1>4. wire = <<>>
  <2> SUFFICES ASSUME wire # <<>>
               PROVE  FALSE
    OBVIOUS
  <2>1. 1 \in 1..Len(wire)
    BY <1>1
  <2>2. now <= wire[1].setting.waketime
    BY <1>2, <2>1 DEF PromptInv
  <2>3. /\ wire[1].setting.waketime \in Nat
        /\ wire[1].setting.waketime <= last_clock
    BY <2>1, SentTypes
  <2> QED BY <1>1, <1>3, <2>2, <2>3
<1>5. n > 0 /\ Latest(settings[n])
  <2>1. Len(wire) = 0
    BY <1>4
  <2>2. n # 0
    BY <1>2, <2>1 DEF SentInv, Sent
  <2>3. n > 0
    BY <1>1, <2>2
  <2> QED BY <1>2, <2>1, <2>3 DEF SentInv, Sent
<1>6. settings[n].waketime < now /\ settings[n].on_duration = 0
  BY <1>3, <1>5 DEF Latest
<1>7. n = 1
  <2> SUFFICES ASSUME n >= 2
               PROVE  FALSE
    <3>1. n \in Nat /\ n > 0
      BY <1>1, <1>5
    <3> HIDE DEF n
    <3> QED BY <3>1
  <2>1. n \in 1..n
    BY <1>1, <1>5
  <2>2. settings[n].waketime > now /\ settings[n].waketime \in Nat
    BY <1>1, <2>1, ClockTypes DEF PinsInv, QueueInv
  <2> QED BY <1>1, <1>6, <2>2
<1>8. InEffect /\ settings[1].on_duration = 0
  <2>0. settings[1].waketime < now /\ settings # <<>> /\ 1 \in 1..n
    <3>1. settings # <<>> /\ 1 \in 1..n
      <4>1. Len(settings) = 1
        BY <1>7
      <4>2. ASSUME settings = <<>>  PROVE FALSE
        <5>1. Len(settings) = 0
          BY <4>2
        <5> QED BY <4>1, <5>1
      <4> QED BY <4>1, <4>2
    <3> HIDE DEF n
    <3> QED BY <1>6, <1>7, <3>1
  <2>1. settings # <<>> /\ settings[1].waketime < now
    BY <2>0
  <2>2. settings[1].waketime \in Nat
    BY <1>1, <2>0, ClockTypes
  <2>3. settings[1].waketime <= now
    BY <1>1, <2>1, <2>2
  <2> QED BY <1>6, <1>7, <2>1, <2>3 DEF InEffect
<1> QED BY <1>8, NoPowerNoLevel DEF HostPunctual

(* What a host on time sends does not come late. *)
LEMMA NeverLate ==
  ASSUME IInv, TimelyInv, ~late, [Next]_vars, punctual
  PROVE  ~late'
<1>1. CASE Deliver
  <2>1. /\ shut = "none" /\ wire # <<>> /\ wire \in Seq(Commands) /\ now \in Nat
    BY <1>1 DEF Deliver, IInv, PinTypes, HostTypes
  <2>2. Head(wire) = wire[1] /\ 1 \in 1..Len(wire)
    BY <2>1
  <2>3. now <= wire[1].setting.waketime
    BY <2>1, <2>2 DEF TimelyInv, PromptInv
  <2>4. wire[1].setting.waketime \in Nat
    BY <2>1, <2>2, ClockTypes
  <2>5. ~(Head(wire).setting.waketime < now)
    BY <2>1, <2>2, <2>3, <2>4
  <2> QED BY <1>1, <2>5 DEF Deliver
<1>2. CASE ~Deliver
  BY <1>2 DEF Next, SetTemp, TemperatureCallback, Crash, Restart, PinTimer,
     OtherShutdown, Tick, pastVars, vars
<1> QED BY <1>1, <1>2

(* Both invariants hold until a setting comes late, and with a host on time
   none does. *)
OnTimeInv ==
    /\ punctual => ~late
    /\ ~late => IInv /\ TimelyInv

LEMMA TimelyInvariant ==
  ASSUME HostTiming, HostPunctual
  PROVE  Spec => []OnTimeInv
<1>1. Init => OnTimeInv
  BY InitEstablishes, InitTimely DEF OnTimeInv, Init
<1>2. OnTimeInv /\ [Next]_vars => OnTimeInv'
  <2> SUFFICES ASSUME OnTimeInv, [Next]_vars
               PROVE  OnTimeInv'
    OBVIOUS
  <2>1. punctual' = punctual
    BY DEF Next, SetTemp, TemperatureCallback, Crash, Restart, Deliver, PinTimer,
       OtherShutdown, Tick, vars
  <2>2. punctual => ~late'
    BY NeverLate DEF OnTimeInv
  <2>3. ~late' => IInv' /\ TimelyInv'
    BY NextKeeps, NextTimely, LateStays DEF OnTimeInv
  <2> QED BY <2>1, <2>2, <2>3 DEF OnTimeInv
<1> QED BY <1>1, <1>2, PTL DEF Spec

(* A host that runs on and is on time does not cause a shutdown: the power
   that Heater.set_pwm leaves unsent is renewed KeepTime later, within the
   max_duration of digital_load_event; and as MCU_pwm.set_pwm lets no command
   leave before last_clock, queue_digital_out needs one move node at most and
   no command comes too late. *)
THEOREM NeverShutsDown ==
  ASSUME HostTiming, HostPunctual
  PROVE  Spec => []NoSpuriousShutdown
<1>1. OnTimeInv => NoSpuriousShutdown
  BY DEF OnTimeInv, TimelyInv, NoSpuriousShutdown
<1> QED BY <1>1, TimelyInvariant, PTL

(* A host on time gets a heater off: two reports after Heater.set_temp has
   taken the target away no significant power is in force, and none at all
   once the power had to be renewed; and a pin that the host before left on is
   off after the init command of MCU_pwm._build_config. *)
THEOREM GetsHeaterOff ==
  ASSUME HostTiming, HostPunctual
  PROVE  Spec => []OffWhenUnwanted
<1>1. OnTimeInv => OffWhenUnwanted
  BY OffWhenZero, OffOnceRestarted
     DEF OnTimeInv, OffWhenUnwanted, OffWhenTargetZero, OffAfterRestart
<1> QED BY <1>1, TimelyInvariant, PTL
=============================================================================
