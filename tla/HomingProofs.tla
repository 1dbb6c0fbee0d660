---------------------------- MODULE HomingProofs ----------------------------
(***************************************************************************)
(* Proofs about Homing for any finite number of micro-controllers, any     *)
(* timing, any delays and any lost reports: the stop of a trsync that gets *)
(* its answer leaves nothing behind (QuietAfterHoming); then, for several  *)
(* homings in sequence, that none meets what an earlier one left behind    *)
(* and that a homing reported as a hit is one (HitIsSound).                *)
(***************************************************************************)
EXTENDS Homing, FiniteSetTheorems, WellFoundedInduction, TLAPS

-----------------------------------------------------------------------------
(* The inductive invariant *)

NoOp(q, ops) == \A i \in DOMAIN q : q[i].op \notin ops

(* stepper_stop_on_trigger is behind the trsync_start that arms the trsync,
   or comes next to a trsync that is armed. *)
StopShape(q, armed) ==
  \A i \in DOMAIN q : q[i].op = "stepper_stop_on_trigger" =>
    IF i = 1 THEN armed ELSE q[i-1].op = "trsync_start"

(* The trsync is started before the endstop looks at the switch. *)
HomeShape(q, looks) ==
  \A i \in DOMAIN q : q[i].op = "trsync_start" =>
    ~looks /\ \A j \in DOMAIN q : j < i => q[j].op # "endstop_home"

(* An endstop that looks or will look at the switch will be switched off. *)
OffShape(q, looks) ==
  /\ looks => \E i \in DOMAIN q : q[i].op = "endstop_off"
  /\ \A i \in DOMAIN q : q[i].op = "endstop_home" =>
       \E j \in DOMAIN q : i < j /\ q[j].op = "endstop_off"

QueryLast(q) ==
  q # <<>> /\ \A i \in DOMAIN q : (q[i].op = "trsync_query") <=> (i = Len(q))
NoAck(q) == \A i \in DOMAIN q : ~q[i].ack
AckLast(q) == q # <<>> /\ \A i \in DOMAIN q : q[i].ack <=> (i = Len(q))

Armed(m) == /\ "can_trigger" \in flags[m] /\ expire_time[m] = Never
            /\ m = Main => endstop # "homing"

(* Nothing of the homing is left to act on a micro-controller ... *)
Quiet(m) == /\ flags[m] = {} /\ ~signal[m]
            /\ report_time[m] = Never /\ expire_time[m] = Never
            /\ m = Main => endstop # "homing"
            /\ cmdq[m] = <<>>
(* ... nor on the host. *)
Stopped(m) == /\ Quiet(m) /\ rspq[m] = <<>> /\ pyq[m] = <<>>
              /\ handler[m] = "none" /\ m \notin trigger_completion

CommandsInv ==
  \A m \in Mcus :
    /\ StopShape(cmdq[m], Armed(m))
    /\ signal[m] => "can_trigger" \in flags[m]
    /\ m = Main => HomeShape(cmdq[m], endstop = "homing")
    /\ m # Main => NoOp(cmdq[m], {"endstop_home", "endstop_off"})

EndstopInv ==
  /\ pc \in {"idle", "start", "dispatch", "add", "endstop"} =>
       endstop # "homing" /\ NoOp(cmdq[Main], {"endstop_home"})
  /\ pc \in {"remove", "stop", "ack"} => OffShape(cmdq[Main], endstop = "homing")

ReadersInv ==
  /\ \A m \in Mcus : dispatching[m] # <<>> => m \in fastreaders
  /\ pc \in {"stop", "ack", "idle", "start", "dispatch"} => fastreaders = {}
  /\ pc = "remove" => \A i \in 1..(k-1) : trsyncs[i] \notin fastreaders

StoppedInv ==
  /\ pc \in {"stop", "ack"} => \A i \in 1..(k-1) : Stopped(trsyncs[i])
  /\ pc = "idle" => Stopped(Main)
  /\ pc = "idle" /\ result \in {"hit", "no_trigger", "timeout"} =>
       \A m \in Mcus : Stopped(m)
  /\ pc \in {"idle", "dispatch", "endstop", "moving", "wait"} => k = 1

(* The query of stop(): under way, answered with an acknowledgement behind
   the response, in the receive queue, or acknowledged. *)
QueryState(m) ==
  /\ handler[m] = "query" /\ m \notin trigger_completion
  /\ \/ ~acked /\ QueryLast(cmdq[m]) /\ NoAck(pyq[m]) /\ NoAck(rspq[m])
     \/ ~acked /\ Quiet(m) /\ NoAck(pyq[m]) /\ AckLast(rspq[m])
     \/ ~acked /\ Quiet(m) /\ AckLast(pyq[m]) /\ rspq[m] = <<>>
     \/ acked /\ Quiet(m) /\ pyq[m] = <<>> /\ rspq[m] = <<>>

NoQuery(m) ==
  NoOp(cmdq[m], {"trsync_query"}) /\ NoAck(pyq[m]) /\ NoAck(rspq[m])

QueryInv ==
  \A m \in Mcus : IF pc = "ack" /\ m = trsyncs[k] THEN QueryState(m)
                  ELSE NoQuery(m)

(* A response tells a clock that was read. *)
ClocksOK(q) == \A i \in DOMAIN q : q[i].clock # Never
ReportsInv == \A m \in Mcus : ClocksOK(rspq[m]) /\ ClocksOK(dispatching[m])

QInv == /\ TypeOK /\ CommandsInv /\ EndstopInv /\ ReadersInv /\ StoppedInv
        /\ QueryInv /\ ReportsInv

-----------------------------------------------------------------------------
(* The order of the trsyncs *)

(* MCU_endstop._trsyncs lists every micro-controller once, and the one that
   has the endstop first. *)
LEMMA TrsyncsProps ==
         /\ N \in Nat /\ N >= 1
         /\ trsyncs \in [1..N -> Mcus] /\ trsyncs[1] = Main
         /\ \A i, j \in 1..N : trsyncs[i] = trsyncs[j] => i = j
         /\ \A m \in Mcus : \E i \in 1..N : trsyncs[i] = m
<1>1. N \in Nat /\ ExistsBijection(1..N, Mcus)
  BY FS_CardinalityType, HomingAssumption DEF N
<1>2. PICK f \in Bijection(1..N, Mcus) : TRUE
  BY <1>1 DEF ExistsBijection
<1>3. /\ f \in [1..N -> Mcus]
      /\ \A i, j \in 1..N : f[i] = f[j] => i = j
      /\ \A m \in Mcus : \E i \in 1..N : f[i] = m
  BY <1>2 DEF Bijection, Injection, Surjection, IsInjective
<1>4. PICK a \in 1..N : f[a] = Main
  BY <1>3, McusAssumption
<1>5. N >= 1 /\ 1 \in 1..N
  BY <1>1, <1>4
<1> DEFINE g == [i \in 1..N |-> IF i = 1 THEN Main ELSE IF i = a THEN f[1] ELSE f[i]]
<1>6. g \in [1..N -> Mcus] /\ g[1] = Main
  BY <1>3, <1>5, McusAssumption
<1>7. ASSUME NEW i \in 1..N, NEW j \in 1..N, g[i] = g[j]
      PROVE  i = j
  <2>1. /\ i # 1 /\ i = a => g[i] = f[1]
        /\ i # 1 /\ i # a => g[i] = f[i]
        /\ i = 1 => g[i] = f[a]
        /\ j # 1 /\ j = a => g[j] = f[1]
        /\ j # 1 /\ j # a => g[j] = f[j]
        /\ j = 1 => g[j] = f[a]
    BY <1>4, <1>5
  <2> HIDE DEF g
  <2> QED BY <1>3, <1>4, <1>5, <1>7, <2>1
<1> DEFINE P(s) == s[1] = Main /\ \A i, j \in 1..N : s[i] = s[j] => i = j
<1>8. P(g)
  BY <1>6, <1>7
<1> HIDE DEF g
<1>9. trsyncs \in [1..N -> Mcus] /\ P(trsyncs)
  BY <1>6, <1>8 DEF trsyncs
<1>10. \A m \in Mcus : \E i \in 1..N : trsyncs[i] = m
  <2>1. trsyncs \in Injection(1..N, Mcus)
    BY <1>9 DEF Injection, IsInjective
  <2>2. IsFiniteSet(1..N) /\ Cardinality(1..N) = N
    BY <1>1, <1>5, FS_Interval
  <2>3. trsyncs \in Surjection(1..N, Mcus)
    BY <2>1, <2>2, FS_Injection, HomingAssumption DEF N
  <2> QED BY <2>3 DEF Surjection
<1> QED BY <1>1, <1>5, <1>9, <1>10

(* The trsyncs that home_start or home_wait has been through, and the one it
   is at. *)
LEMMA TrsyncsBefore ==
  ASSUME TypeOK
  PROVE  /\ k \in 1..N /\ trsyncs[k] \in Mcus
         /\ \A i \in 1..(k-1) : i \in 1..N /\ trsyncs[i] \in Mcus
                                /\ trsyncs[i] # trsyncs[k]
         /\ \A m \in Mcus : \E i \in 1..N : trsyncs[i] = m
         /\ k # 1 => 1 \in 1..(k-1)
<1>1. k \in 1..N /\ N \in Nat /\ k \in Nat
  BY TrsyncsProps DEF TypeOK
<1>2. \A i \in 1..(k-1) : i \in 1..N /\ i # k
  BY <1>1
<1>3. k # 1 => 1 \in 1..(k-1)
  BY <1>1
<1> QED BY <1>1, <1>2, <1>3, TrsyncsProps

-----------------------------------------------------------------------------
(* Queues *)

(* What is taken from a queue was at its front, the others move up. *)
LEMMA TailProps ==
  ASSUME NEW S, NEW s \in Seq(S), s # <<>>
  PROVE  /\ Head(s) = s[1] /\ s[1] \in S /\ 1 \in DOMAIN s
         /\ Tail(s) \in Seq(S)
         /\ DOMAIN s = 1..Len(s) /\ Len(s) \in Nat /\ Len(s) >= 1
         /\ DOMAIN Tail(s) = 1..(Len(s) - 1) /\ Len(Tail(s)) = Len(s) - 1
         /\ \A i \in DOMAIN Tail(s) : i + 1 \in DOMAIN s /\ Tail(s)[i] = s[i+1]
  OBVIOUS

(* What is put into a queue comes last. *)
LEMMA ConcatProps ==
  ASSUME NEW S, NEW s \in Seq(S), NEW t \in Seq(S)
  PROVE  /\ s \o t \in Seq(S)
         /\ DOMAIN s = 1..Len(s) /\ Len(s) \in Nat
         /\ DOMAIN t = 1..Len(t) /\ Len(t) \in Nat
         /\ DOMAIN (s \o t) = 1..(Len(s) + Len(t))
         /\ Len(s \o t) = Len(s) + Len(t)
         /\ \A i \in DOMAIN s : (s \o t)[i] = s[i]
         /\ \A i \in DOMAIN (s \o t) : i \notin DOMAIN s =>
              i - Len(s) \in DOMAIN t /\ (s \o t)[i] = t[i - Len(s)]
         /\ \A i \in DOMAIN t : /\ Len(s) + i \in DOMAIN (s \o t)
                                /\ (s \o t)[Len(s) + i] = t[i]
  OBVIOUS

LEMMA EmptyQueue ==
  ASSUME NEW S, NEW s \in Seq(S)
  PROVE  /\ s = <<>> <=> Len(s) = 0
         /\ s = <<>> <=> DOMAIN s = {}
         /\ s = <<>> <=> 1 \notin DOMAIN s
  OBVIOUS

LEMMA EmptyShapes ==
  /\ \A a \in BOOLEAN : StopShape(<<>>, a) /\ HomeShape(<<>>, a)
  /\ OffShape(<<>>, FALSE)
  /\ \A ops : NoOp(<<>>, ops)
  /\ NoAck(<<>>)
  BY DEF StopShape, HomeShape, OffShape, NoOp, NoAck

(* The command at the front is carried out: what is behind it. *)
LEMMA TailShapes ==
  ASSUME NEW q \in Seq(Command), q # <<>>
  PROVE  /\ \A ops : NoOp(q, ops) => NoOp(Tail(q), ops) /\ Head(q).op \notin ops
         /\ \A a \in BOOLEAN : StopShape(q, a) =>
              /\ StopShape(Tail(q), Head(q).op = "trsync_start")
              /\ Head(q).op = "stepper_stop_on_trigger" => a
         /\ \A h \in BOOLEAN : HomeShape(q, h) =>
              /\ HomeShape(Tail(q), h)
              /\ Head(q).op = "endstop_home" => HomeShape(Tail(q), TRUE)
              /\ Head(q).op = "trsync_start" => ~h
         /\ \A h \in BOOLEAN : OffShape(q, h) =>
              /\ Head(q).op = "endstop_home" => OffShape(Tail(q), TRUE)
              /\ Head(q).op = "endstop_off" => OffShape(Tail(q), FALSE)
              /\ Head(q).op \notin {"endstop_home", "endstop_off"} => OffShape(Tail(q), h)
         /\ QueryLast(q) => /\ Head(q).op # "trsync_query" => QueryLast(Tail(q))
                            /\ Head(q).op = "trsync_query" => Tail(q) = <<>>
<1> DEFINE t == Tail(q)
           n == Len(q)
<1>1. /\ Head(q) = q[1] /\ 1 \in DOMAIN q
      /\ t \in Seq(Command)
      /\ DOMAIN q = 1..n /\ n \in Nat /\ n >= 1
      /\ DOMAIN t = 1..(n - 1) /\ Len(t) = n - 1
      /\ \A i \in DOMAIN t : i + 1 \in DOMAIN q /\ t[i] = q[i+1]
  BY TailProps
<1>2. \A i \in DOMAIN q : i # 1 => i - 1 \in DOMAIN t /\ t[i-1] = q[i]
  <2> HIDE DEF t, n
  <2> QED BY <1>1
<1>3. t = <<>> <=> Len(t) = 0
  BY <1>1, EmptyQueue
<1> HIDE DEF t, n
<1>4. \A ops : NoOp(q, ops) => NoOp(t, ops) /\ q[1].op \notin ops
  BY <1>1 DEF NoOp
<1>5. ASSUME NEW a \in BOOLEAN, StopShape(q, a)
      PROVE  /\ StopShape(t, q[1].op = "trsync_start")
             /\ q[1].op = "stepper_stop_on_trigger" => a
  <2>1. q[1].op = "stepper_stop_on_trigger" => a
    BY <1>1, <1>5 DEF StopShape
  <2>2. ASSUME NEW i \in DOMAIN t, t[i].op = "stepper_stop_on_trigger"
        PROVE  q[i].op = "trsync_start"
    <3>1. i + 1 \in DOMAIN q /\ q[i+1].op = "stepper_stop_on_trigger" /\ i + 1 # 1
          /\ (i + 1) - 1 = i
      BY <1>1, <2>2
    <3>2. q[(i + 1) - 1].op = "trsync_start"
      BY <1>5, <3>1 DEF StopShape
    <3> QED BY <3>1, <3>2
  <2>3. ASSUME NEW i \in DOMAIN t, i # 1
        PROVE  t[i-1] = q[i]
    BY <1>1, <2>3
  <2> QED BY <2>1, <2>2, <2>3 DEF StopShape
<1>6. ASSUME NEW h \in BOOLEAN, HomeShape(q, h)
      PROVE  /\ HomeShape(t, h)
             /\ q[1].op = "endstop_home" => HomeShape(t, TRUE)
             /\ q[1].op = "trsync_start" => ~h
  <2>1. \A i \in DOMAIN t : t[i].op = "trsync_start" =>
          /\ ~h /\ q[1].op # "endstop_home"
          /\ \A j \in DOMAIN t : j < i => t[j].op # "endstop_home"
    BY <1>1, <1>6 DEF HomeShape
  <2> QED BY <1>1, <1>6, <2>1 DEF HomeShape
<1>7. ASSUME NEW h \in BOOLEAN, OffShape(q, h)
      PROVE  /\ q[1].op = "endstop_home" => OffShape(t, TRUE)
             /\ q[1].op = "endstop_off" => OffShape(t, FALSE)
             /\ q[1].op \notin {"endstop_home", "endstop_off"} => OffShape(t, h)
  <2>1. \A i \in DOMAIN t : t[i].op = "endstop_home" =>
          \E j \in DOMAIN t : i < j /\ t[j].op = "endstop_off"
    <3> SUFFICES ASSUME NEW i \in DOMAIN t, t[i].op = "endstop_home"
                 PROVE  \E j \in DOMAIN t : i < j /\ t[j].op = "endstop_off"
      OBVIOUS
    <3>1. i + 1 \in DOMAIN q /\ q[i+1].op = "endstop_home"
      BY <1>1
    <3>2. PICK j \in DOMAIN q : i + 1 < j /\ q[j].op = "endstop_off"
      BY <1>7, <3>1 DEF OffShape
    <3>3. j - 1 \in DOMAIN t /\ t[j-1] = q[j] /\ i < j - 1
      BY <1>1, <1>2, <3>1, <3>2
    <3> QED BY <3>2, <3>3
  <2>2. q[1].op = "endstop_home" => \E i \in DOMAIN t : t[i].op = "endstop_off"
    <3> SUFFICES ASSUME q[1].op = "endstop_home"
                 PROVE  \E i \in DOMAIN t : t[i].op = "endstop_off"
      OBVIOUS
    <3>1. PICK j \in DOMAIN q : 1 < j /\ q[j].op = "endstop_off"
      BY <1>1, <1>7 DEF OffShape
    <3> QED BY <1>1, <1>2, <3>1
  <2>3. q[1].op # "endstop_off" /\ h => \E i \in DOMAIN t : t[i].op = "endstop_off"
    BY <1>1, <1>2, <1>7 DEF OffShape
  <2> QED BY <2>1, <2>2, <2>3 DEF OffShape
<1>8. QueryLast(q) => /\ q[1].op # "trsync_query" => QueryLast(t)
                      /\ q[1].op = "trsync_query" => t = <<>>
  <2> SUFFICES ASSUME QueryLast(q)
               PROVE  /\ q[1].op # "trsync_query" => QueryLast(t)
                      /\ q[1].op = "trsync_query" => t = <<>>
    OBVIOUS
  <2>1. \A i \in DOMAIN q : (q[i].op = "trsync_query") <=> (i = n)
    BY DEF QueryLast, n
  <2>2. q[1].op = "trsync_query" => n = 1
    BY <1>1, <2>1
  <2>3. q[1].op # "trsync_query" => n # 1
    BY <1>1, <2>1
  <2>4. \A i \in DOMAIN t : (t[i].op = "trsync_query") <=> (i = Len(t))
    BY <1>1, <2>1
  <2> QED BY <1>1, <1>3, <2>2, <2>3, <2>4 DEF QueryLast
<1> QED BY <1>1, <1>4, <1>5, <1>6, <1>7, <1>8 DEF t

(* Commands are put behind those that are under way. *)
LEMMA ConcatShapes ==
  ASSUME NEW q \in Seq(Command), NEW t \in Seq(Command)
  PROVE  /\ \A ops : NoOp(q, ops) /\ NoOp(t, ops) => NoOp(q \o t, ops)
         /\ \A a \in BOOLEAN : StopShape(q, a) /\ StopShape(t, FALSE) => StopShape(q \o t, a)
         /\ \A h \in BOOLEAN : HomeShape(q, h) /\ NoOp(t, {"trsync_start"}) => HomeShape(q \o t, h)
         /\ NoOp(q, {"endstop_home"}) /\ NoOp(t, {"endstop_home"}) => HomeShape(q \o t, FALSE)
         /\ \A h \in BOOLEAN : OffShape(q, h) /\ NoOp(t, {"endstop_home"}) => OffShape(q \o t, h)
<1> DEFINE s == q \o t
           n == Len(q)
<1>1. /\ s \in Seq(Command)
      /\ DOMAIN q = 1..n /\ n \in Nat
      /\ DOMAIN t = 1..Len(t) /\ Len(t) \in Nat
      /\ DOMAIN s = 1..(n + Len(t))
      /\ \A i \in DOMAIN q : s[i] = q[i]
      /\ \A i \in DOMAIN s : i \notin DOMAIN q => i - n \in DOMAIN t /\ s[i] = t[i - n]
  BY ConcatProps
<1> HIDE DEF s, n
<1>2. \A ops : NoOp(q, ops) /\ NoOp(t, ops) => NoOp(s, ops)
  BY <1>1 DEF NoOp
<1>3. ASSUME NEW a \in BOOLEAN, StopShape(q, a), StopShape(t, FALSE)
      PROVE  StopShape(s, a)
  <2> SUFFICES ASSUME NEW i \in DOMAIN s, s[i].op = "stepper_stop_on_trigger"
               PROVE  IF i = 1 THEN a ELSE s[i-1].op = "trsync_start"
    BY DEF StopShape
  <2>1. CASE i \in DOMAIN q
    <3>1. i # 1 => i - 1 \in DOMAIN q
      BY <1>1, <2>1
    <3> QED BY <1>1, <1>3, <2>1, <3>1 DEF StopShape
  <2>2. CASE i \notin DOMAIN q
    <3>1. i - n \in DOMAIN t /\ s[i] = t[i - n]
      BY <1>1, <2>2
    <3>2. i - n # 1 /\ t[i - n - 1].op = "trsync_start"
      BY <1>3, <3>1 DEF StopShape
    <3>3. i - 1 \in DOMAIN s /\ i - 1 \notin DOMAIN q /\ i - 1 - n = i - n - 1 /\ i # 1
      BY <1>1, <2>2, <3>1, <3>2
    <3> QED BY <1>1, <3>2, <3>3
  <2> QED BY <2>1, <2>2
<1>4. ASSUME NEW h \in BOOLEAN, HomeShape(q, h), NoOp(t, {"trsync_start"})
      PROVE  HomeShape(s, h)
  <2> SUFFICES ASSUME NEW i \in DOMAIN s, s[i].op = "trsync_start"
               PROVE  ~h /\ \A j \in DOMAIN s : j < i => s[j].op # "endstop_home"
    BY DEF HomeShape
  <2>1. i \in DOMAIN q
    BY <1>1, <1>4 DEF NoOp
  <2>2. \A j \in DOMAIN s : j < i => j \in DOMAIN q
    BY <1>1, <2>1
  <2> QED BY <1>1, <1>4, <2>1, <2>2 DEF HomeShape
<1>5. NoOp(q, {"endstop_home"}) /\ NoOp(t, {"endstop_home"}) => HomeShape(s, FALSE)
  BY <1>2 DEF HomeShape, NoOp
<1>6. ASSUME NEW h \in BOOLEAN, OffShape(q, h), NoOp(t, {"endstop_home"})
      PROVE  OffShape(s, h)
  <2>1. \A i \in DOMAIN q : i \in DOMAIN s
    BY <1>1
  <2>2. \A i \in DOMAIN s : s[i].op = "endstop_home" => i \in DOMAIN q
    BY <1>1, <1>6 DEF NoOp
  <2> QED BY <1>1, <1>6, <2>1, <2>2 DEF OffShape
<1> QED BY <1>2, <1>3, <1>4, <1>5, <1>6 DEF s

(* One command is put behind the others. *)
LEMMA OneMoreShapes ==
  ASSUME NEW q \in Seq(Command), NEW c \in Command
  PROVE  /\ <<c>> \in Seq(Command)
         /\ \A ops : c.op \notin ops => NoOp(<<c>>, ops)
         /\ c.op # "stepper_stop_on_trigger" => StopShape(<<c>>, FALSE)
         /\ c.op = "endstop_off" => \A h \in BOOLEAN : OffShape(q \o <<c>>, h)
         /\ c.op = "trsync_query" /\ NoOp(q, {"trsync_query"}) => QueryLast(q \o <<c>>)
         /\ \A h \in BOOLEAN : c.op # "trsync_start" => HomeShape(<<c>>, h)
<1> DEFINE s == q \o <<c>>
           n == Len(q)
<1>1. <<c>> \in Seq(Command) /\ DOMAIN <<c>> = {1} /\ <<c>>[1] = c /\ Len(<<c>>) = 1
  OBVIOUS
<1>2. /\ s \in Seq(Command)
      /\ DOMAIN q = 1..n /\ n \in Nat
      /\ DOMAIN s = 1..(n + 1) /\ Len(s) = n + 1
      /\ \A i \in DOMAIN q : s[i] = q[i]
      /\ s[n + 1] = c
  <2> DEFINE t == <<c>>
  <2> HIDE DEF t
  <2>1. /\ q \o t \in Seq(Command)
        /\ DOMAIN q = 1..Len(q) /\ Len(q) \in Nat
        /\ DOMAIN (q \o t) = 1..(Len(q) + Len(t))
        /\ Len(q \o t) = Len(q) + Len(t)
        /\ \A i \in DOMAIN q : (q \o t)[i] = q[i]
        /\ \A i \in DOMAIN t : (q \o t)[Len(q) + i] = t[i]
    BY <1>1, ConcatProps DEF t
  <2> QED BY <1>1, <2>1 DEF t
<1> HIDE DEF s, n
<1>3. c.op = "endstop_off" => \A h \in BOOLEAN : OffShape(s, h)
  <2> SUFFICES ASSUME c.op = "endstop_off", NEW h \in BOOLEAN
               PROVE  OffShape(s, h)
    OBVIOUS
  <2>1. n + 1 \in DOMAIN s
    BY <1>2
  <2>2. \A i \in DOMAIN s : s[i].op = "endstop_home" => i < n + 1
    BY <1>2
  <2> QED BY <1>2, <2>1, <2>2 DEF OffShape
<1>4. c.op = "trsync_query" /\ NoOp(q, {"trsync_query"}) => QueryLast(s)
  <2> SUFFICES ASSUME c.op = "trsync_query", NoOp(q, {"trsync_query"})
               PROVE  QueryLast(s)
    OBVIOUS
  <2>1. s # <<>>
    BY <1>2, EmptyQueue
  <2>2. \A i \in DOMAIN s : (s[i].op = "trsync_query") <=> (i = n + 1)
    BY <1>2 DEF NoOp
  <2> QED BY <1>2, <2>1, <2>2 DEF QueryLast
<1> QED BY <1>1, <1>3, <1>4 DEF NoOp, StopShape, HomeShape, s

(* Responses and acknowledgements *)
LEMMA TailAcks ==
  ASSUME NEW q \in Seq(Response), q # <<>>
  PROVE  /\ NoAck(q) => NoAck(Tail(q)) /\ ~Head(q).ack
         /\ AckLast(q) => /\ ~Head(q).ack => AckLast(Tail(q))
                          /\ Head(q).ack => Tail(q) = <<>>
<1> DEFINE t == Tail(q)
           n == Len(q)
<1>1. /\ Head(q) = q[1] /\ 1 \in DOMAIN q
      /\ t \in Seq(Response)
      /\ DOMAIN q = 1..n /\ n \in Nat /\ n >= 1
      /\ DOMAIN t = 1..(n - 1) /\ Len(t) = n - 1
      /\ \A i \in DOMAIN t : i + 1 \in DOMAIN q /\ t[i] = q[i+1]
  BY TailProps
<1>2. t = <<>> <=> Len(t) = 0
  BY <1>1, EmptyQueue
<1> HIDE DEF t
<1>3. NoAck(q) => NoAck(t) /\ ~q[1].ack
  BY <1>1 DEF NoAck
<1>4. ASSUME AckLast(q)
      PROVE  (~q[1].ack => AckLast(t)) /\ (q[1].ack => t = <<>>)
  <2>1. \A i \in DOMAIN q : q[i].ack <=> (i = n)
    BY <1>4 DEF AckLast
  <2> HIDE DEF n
  <2>2. q[1].ack => n = 1
    BY <1>1, <2>1
  <2>3. ~q[1].ack => n # 1
    BY <1>1, <2>1
  <2>4. \A i \in DOMAIN t : t[i].ack <=> (i = Len(t))
    BY <1>1, <2>1
  <2> QED BY <1>1, <1>2, <2>2, <2>3, <2>4 DEF AckLast
<1> QED BY <1>1, <1>3, <1>4 DEF t

LEMMA ConcatAcks ==
  ASSUME NEW q \in Seq(Response), NEW r \in Response
  PROVE  /\ <<r>> \in Seq(Response)
         /\ q \o <<r>> \in Seq(Response) /\ q \o <<>> \in Seq(Response)
         /\ Append(q, r) = q \o <<r>> /\ q \o <<>> = q
         /\ NoAck(q) /\ ~r.ack => NoAck(q \o <<r>>)
         /\ NoAck(q) /\ r.ack => AckLast(q \o <<r>>)
<1> DEFINE s == q \o <<r>>
           n == Len(q)
<1>1. <<r>> \in Seq(Response) /\ Append(q, r) = q \o <<r>> /\ q \o <<>> = q
  OBVIOUS
<1>2. /\ s \in Seq(Response)
      /\ DOMAIN q = 1..n /\ n \in Nat
      /\ DOMAIN s = 1..(n + 1) /\ Len(s) = n + 1
      /\ \A i \in DOMAIN q : s[i] = q[i]
      /\ s[n + 1] = r
  OBVIOUS
<1>3. s # <<>>
  BY <1>2, EmptyQueue
<1> HIDE DEF s, n
<1>4. NoAck(q) /\ ~r.ack => NoAck(s)
  BY <1>2 DEF NoAck
<1>5. NoAck(q) /\ r.ack => AckLast(s)
  <2> SUFFICES ASSUME NoAck(q), r.ack PROVE AckLast(s)
    OBVIOUS
  <2>1. ASSUME NEW i \in DOMAIN s
        PROVE  s[i].ack <=> (i = n + 1)
    <3>1. CASE i \in DOMAIN q
      <4>1. ~q[i].ack /\ i # n + 1
        BY <1>2, <3>1 DEF NoAck
      <4> QED BY <1>2, <3>1, <4>1
    <3>2. CASE i = n + 1
      BY <1>2, <3>2
    <3> QED BY <1>2, <3>1, <3>2
  <2> QED BY <1>2, <1>3, <2>1 DEF AckLast
<1> QED BY <1>1, <1>2, <1>4, <1>5 DEF s

-----------------------------------------------------------------------------
(* The steps of a micro-controller *)

(* A step of micro-controller m leaves the others alone, ... *)
OthersAlone(m) ==
  /\ \A o \in Mcus \ {m} :
       /\ flags'[o] = flags[o] /\ signal'[o] = signal[o]
       /\ report_time'[o] = report_time[o] /\ expire_time'[o] = expire_time[o]
       /\ cmdq'[o] = cmdq[o] /\ rspq'[o] = rspq[o]
  /\ m # Main => endstop' = endstop
  /\ UNCHANGED <<trdispatchVars, pyVars, pyq>>

(* ... keeps its own queue in order, ... *)
QueueStays(m) ==
  /\ StopShape(cmdq'[m], Armed(m)')
  /\ signal'[m] => "can_trigger" \in flags'[m]
  /\ m = Main => HomeShape(cmdq'[m], endstop' = "homing")
  /\ m # Main => NoOp(cmdq'[m], {"endstop_home", "endstop_off"})
  /\ m = Main /\ endstop # "homing" /\ NoOp(cmdq[m], {"endstop_home"}) =>
       endstop' # "homing" /\ NoOp(cmdq'[m], {"endstop_home"})
  /\ m = Main /\ OffShape(cmdq[m], endstop = "homing") =>
       OffShape(cmdq'[m], endstop' = "homing")

(* ... and acknowledges a query when it has become quiet. *)
QueryStays(m) ==
  /\ ClocksOK(rspq[m]) => ClocksOK(rspq'[m])
  /\ NoOp(cmdq[m], {"trsync_query"}) /\ NoAck(rspq[m]) =>
       NoOp(cmdq'[m], {"trsync_query"}) /\ NoAck(rspq'[m])
  /\ QueryLast(cmdq[m]) /\ NoAck(rspq[m]) =>
       \/ QueryLast(cmdq'[m]) /\ NoAck(rspq'[m])
       \/ Quiet(m)' /\ AckLast(rspq'[m])

LEMMA McuStepInv ==
  ASSUME QInv, NEW m \in Mcus, McuTypeOK', ~Quiet(m),
         OthersAlone(m), QueueStays(m), QueryStays(m)
  PROVE  QInv'
<1> USE DEF QInv
<1>1. UNCHANGED <<pc, k, round, home_clock, handler, trigger_completion,
                  completed, home_end, acked, last_params, retries_left, res,
                  result, pyq, can_trigger, last_status_clock, expire_clock,
                  fastreaders, dispatching>>
  BY DEF OthersAlone, pyVars, trdispatchVars
<1>2. /\ m # Main => endstop' = endstop
      /\ \A o \in Mcus \ {m} :
           /\ flags'[o] = flags[o] /\ signal'[o] = signal[o]
           /\ report_time'[o] = report_time[o] /\ expire_time'[o] = expire_time[o]
           /\ cmdq'[o] = cmdq[o] /\ rspq'[o] = rspq[o]
  BY DEF OthersAlone
<1>3. TypeOK'
  BY <1>1 DEF TypeOK, TrDispatchTypeOK
<1>4. \A o \in Mcus \ {m} : Armed(o)' = Armed(o) /\ Quiet(o)' = Quiet(o)
                            /\ Stopped(o)' = Stopped(o)
  BY <1>1, <1>2 DEF Armed, Quiet, Stopped
<1>5. CommandsInv'
  <2> SUFFICES ASSUME NEW o \in Mcus
               PROVE  /\ StopShape(cmdq'[o], Armed(o)')
                      /\ signal'[o] => "can_trigger" \in flags'[o]
                      /\ o = Main => HomeShape(cmdq'[o], endstop' = "homing")
                      /\ o # Main => NoOp(cmdq'[o], {"endstop_home", "endstop_off"})
    BY DEF CommandsInv
  <2>1. CASE o = m
    BY <2>1 DEF QueueStays
  <2>2. CASE o # m
    BY <1>2, <1>4, <2>2 DEF CommandsInv
  <2> QED BY <2>1, <2>2
<1>6. EndstopInv'
  BY <1>1, <1>2, McusAssumption DEF EndstopInv, QueueStays
<1>7. ReadersInv'
  BY <1>1 DEF ReadersInv
<1>8. StoppedInv'
  <2>1. \A o \in Mcus : Stopped(o) => Stopped(o)'
    BY <1>4 DEF Stopped
  <2>2. /\ pc \in {"stop", "ack"} => \A i \in 1..(k-1) : Stopped(trsyncs[i])
        /\ pc = "idle" => Stopped(Main)
        /\ pc = "idle" /\ result \in {"hit", "no_trigger", "timeout"} =>
             \A o \in Mcus : Stopped(o)
        /\ pc \in {"idle", "dispatch", "endstop", "moving", "wait"} => k = 1
    BY DEF StoppedInv
  <2>3. \A i \in 1..(k-1) : trsyncs[i] \in Mcus
    BY TrsyncsBefore
  <2> QED BY <1>1, <2>1, <2>2, <2>3, McusAssumption DEF StoppedInv
<1>9. QueryInv'
  <2> SUFFICES ASSUME NEW o \in Mcus
               PROVE  IF pc = "ack" /\ o = trsyncs[k] THEN QueryState(o)'
                      ELSE NoQuery(o)'
    BY <1>1 DEF QueryInv
  <2>1. IF pc = "ack" /\ o = trsyncs[k] THEN QueryState(o) ELSE NoQuery(o)
    BY DEF QueryInv
  <2>2. CASE o = m
    <3>1. NoQuery(m) => NoQuery(m)'
      BY <1>1 DEF NoQuery, QueryStays
    <3>2. QueryState(m) => QueryState(m)'
      BY <1>1 DEF QueryState, QueryStays
    <3> QED BY <2>1, <2>2, <3>1, <3>2
  <2>3. CASE o # m
    <3>1. NoQuery(o) => NoQuery(o)'
      BY <1>1, <1>2, <2>3 DEF NoQuery
    <3>2. QueryState(o) => QueryState(o)'
      BY <1>1, <1>2, <1>4, <2>3 DEF QueryState
    <3> QED BY <2>1, <3>1, <3>2
  <2> QED BY <2>2, <2>3
<1>10. ReportsInv'
  BY <1>1, <1>2 DEF ReportsInv, QueryStays
<1> QED BY <1>3, <1>5, <1>6, <1>7, <1>8, <1>9, <1>10

(* A trigger disarms the steppers. *)
LEMMA TriggerEffect ==
  ASSUME McuTypeOK, NEW m \in Mcus, NEW reason \in Reasons,
         trsync_do_trigger(m, reason),
         signal[m] => "can_trigger" \in flags[m]
  PROVE  /\ trigger_reason' \in [Mcus -> Reasons]
         /\ triggered_at' \in [Mcus -> Time]
         /\ signal' \in [Mcus -> BOOLEAN]
         /\ ~signal'[m]
         /\ \A o \in Mcus \ {m} : /\ signal'[o] = signal[o]
                                  /\ trigger_reason'[o] = trigger_reason[o]
         /\ trigger_reason'[m] = IF "can_trigger" \in flags[m] THEN reason
                                 ELSE trigger_reason[m]
<1> USE DEF McuTypeOK
<1>1. CASE "can_trigger" \in flags[m]
  <2>1. /\ trigger_reason' = [trigger_reason EXCEPT ![m] = reason]
        /\ triggered_at' = [triggered_at EXCEPT ![m] = now]
        /\ signal' = [signal EXCEPT ![m] = FALSE]
    BY <1>1 DEF trsync_do_trigger
  <2>2. /\ trigger_reason' \in [Mcus -> Reasons]
        /\ triggered_at' \in [Mcus -> Time]
        /\ signal' \in [Mcus -> BOOLEAN]
    BY <2>1 DEF Time
  <2> QED BY <1>1, <2>1, <2>2
<1>2. CASE "can_trigger" \notin flags[m]
  <2>1. UNCHANGED <<trigger_reason, triggered_at, signal>>
    BY <1>2 DEF trsync_do_trigger
  <2> QED BY <1>2, <2>1
<1> QED BY <1>1, <1>2

LEMMA FlagsAfterTriggerProps ==
  ASSUME NEW m \in Mcus, McuTypeOK
  PROVE  /\ FlagsAfterTrigger(m) \subseteq {"can_trigger", "report"}
         /\ "can_trigger" \notin FlagsAfterTrigger(m)
  BY DEF FlagsAfterTrigger, McuTypeOK

(* What the invariant says of one micro-controller's queue. *)
LEMMA QueueOf ==
  ASSUME QInv, NEW m \in Mcus
  PROVE  /\ McuTypeOK /\ TypeOK
         /\ cmdq[m] \in Seq(Command) /\ rspq[m] \in Seq(Response)
         /\ StopShape(cmdq[m], Armed(m)) /\ Armed(m) \in BOOLEAN
         /\ signal[m] => "can_trigger" \in flags[m]
         /\ m = Main => HomeShape(cmdq[m], endstop = "homing")
         /\ m # Main => NoOp(cmdq[m], {"endstop_home", "endstop_off"})
  BY DEF QInv, CommandsInv, TypeOK, McuTypeOK, Armed

(* A step that takes no command in: a shape can only become weaker. *)
LEMMA SameQueue ==
  ASSUME QInv, NEW m \in Mcus, cmdq'[m] = cmdq[m], rspq'[m] = rspq[m],
         Armed(m) => Armed(m)',
         signal'[m] => "can_trigger" \in flags'[m],
         endstop' = "homing" => endstop = "homing"
  PROVE  QueueStays(m) /\ QueryStays(m)
<1>1. StopShape(cmdq'[m], Armed(m)')
  BY QueueOf DEF StopShape
<1>2. m = Main => HomeShape(cmdq'[m], endstop' = "homing")
  BY QueueOf DEF HomeShape
<1>3. m # Main => NoOp(cmdq'[m], {"endstop_home", "endstop_off"})
  BY QueueOf
<1>4. OffShape(cmdq[m], endstop = "homing") => OffShape(cmdq'[m], endstop' = "homing")
  BY DEF OffShape
<1> QED BY <1>1, <1>2, <1>3, <1>4 DEF QueueStays, QueryStays

LEMMA ExpireEventInv ==
  ASSUME QInv, NEW m \in Mcus, ExpireEvent(m), UNCHANGED <<trdispatchVars, pyVars, pyq>>
  PROVE  QInv'
<1>1. /\ Due(expire_time[m]) /\ expire_time' = [expire_time EXCEPT ![m] = Never]
      /\ trsync_do_trigger(m, "comms_timeout")
      /\ flags' = [flags EXCEPT ![m] = FlagsAfterTrigger(m)]
      /\ UNCHANGED <<now, report_time, homing, endstop, endstop_clock, lost, cmdq, rspq>>
  BY DEF ExpireEvent, linkVars
<1>2. expire_time[m] # Never
  BY <1>1 DEF Due
<1>3. "comms_timeout" \in Reasons
  BY DEF Reasons
<1>4. /\ trigger_reason' \in [Mcus -> Reasons] /\ triggered_at' \in [Mcus -> Time]
      /\ signal' \in [Mcus -> BOOLEAN] /\ ~signal'[m]
      /\ \A o \in Mcus \ {m} : signal'[o] = signal[o]
  BY <1>1, <1>3, QueueOf, TriggerEffect
<1>5. /\ flags' \in [Mcus -> SUBSET {"can_trigger", "report"}]
      /\ \A o \in Mcus \ {m} : flags'[o] = flags[o]
  BY <1>1, QueueOf, FlagsAfterTriggerProps DEF McuTypeOK
<1>6. /\ expire_time' \in [Mcus -> Time]
      /\ \A o \in Mcus \ {m} : expire_time'[o] = expire_time[o]
  BY <1>1, QueueOf DEF McuTypeOK, Time
<1>7. McuTypeOK'
  BY <1>1, <1>4, <1>5, <1>6, QueueOf DEF McuTypeOK
<1>8. ~Quiet(m) /\ ~Armed(m)
  BY <1>2 DEF Quiet, Armed
<1>9. OthersAlone(m)
  BY <1>1, <1>4, <1>5, <1>6 DEF OthersAlone
<1>10. QueueStays(m) /\ QueryStays(m)
  BY <1>1, <1>4, <1>8, SameQueue
<1> QED BY <1>7, <1>8, <1>9, <1>10, McuStepInv

LEMMA ReportEventInv ==
  ASSUME QInv, NEW m \in Mcus, ReportEvent(m), UNCHANGED <<trdispatchVars, pyVars, pyq>>
  PROVE  QInv'
<1>1. /\ Due(report_time[m]) /\ report_time' = [report_time EXCEPT ![m] = @ + ReportTicks]
      /\ flags' = [flags EXCEPT ![m] = @ \union {"report"}]
      /\ UNCHANGED <<now, trigger_reason, expire_time, signal, triggered_at,
                     homing, endstop, endstop_clock, lost, cmdq, rspq>>
  BY DEF ReportEvent, linkVars
<1>2. report_time[m] # Never
  BY <1>1 DEF Due
<1>3. /\ flags' \in [Mcus -> SUBSET {"can_trigger", "report"}]
      /\ \A o \in Mcus \ {m} : flags'[o] = flags[o]
      /\ "can_trigger" \in flags'[m] <=> "can_trigger" \in flags[m]
  BY <1>1, QueueOf DEF McuTypeOK
<1>4. /\ report_time' \in [Mcus -> Time]
      /\ \A o \in Mcus \ {m} : report_time'[o] = report_time[o]
  BY <1>1, <1>2, QueueOf, TicksAssumption DEF McuTypeOK, Time, Never
<1>5. McuTypeOK'
  BY <1>1, <1>3, <1>4, QueueOf DEF McuTypeOK
<1>6. ~Quiet(m) /\ Armed(m)' = Armed(m)
  BY <1>1, <1>2, <1>3 DEF Quiet, Armed
<1>7. OthersAlone(m)
  BY <1>1, <1>3, <1>4 DEF OthersAlone
<1>8. signal'[m] => "can_trigger" \in flags'[m]
  BY <1>1, <1>3, QueueOf
<1>9. QueueStays(m) /\ QueryStays(m)
  BY <1>1, <1>6, <1>8, SameQueue
<1> QED BY <1>5, <1>6, <1>7, <1>9, McuStepInv

LEMMA EndstopEventInv ==
  ASSUME QInv, EndstopEvent, UNCHANGED <<trdispatchVars, pyVars, pyq>>
  PROVE  QInv'
<1>1. /\ endstop = "homing" /\ endstop' = "done"
      /\ trsync_do_trigger(Main, "endstop_hit")
      /\ flags' = [flags EXCEPT ![Main] = FlagsAfterTrigger(Main)]
      /\ UNCHANGED <<now, report_time, expire_time, homing, endstop_clock, lost, cmdq, rspq>>
  BY DEF EndstopEvent, linkVars
<1>2. "endstop_hit" \in Reasons /\ Main \in Mcus
  BY McusAssumption DEF Reasons
<1>3. /\ trigger_reason' \in [Mcus -> Reasons] /\ triggered_at' \in [Mcus -> Time]
      /\ signal' \in [Mcus -> BOOLEAN] /\ ~signal'[Main]
      /\ \A o \in Mcus \ {Main} : signal'[o] = signal[o]
  BY <1>1, <1>2, QueueOf, TriggerEffect
<1>4. /\ flags' \in [Mcus -> SUBSET {"can_trigger", "report"}]
      /\ \A o \in Mcus \ {Main} : flags'[o] = flags[o]
  BY <1>1, <1>2, QueueOf, FlagsAfterTriggerProps DEF McuTypeOK
<1>5. McuTypeOK'
  BY <1>1, <1>2, <1>3, <1>4, QueueOf DEF McuTypeOK
<1>6. ~Quiet(Main) /\ ~Armed(Main)
  BY <1>1 DEF Quiet, Armed
<1>7. OthersAlone(Main)
  BY <1>1, <1>3, <1>4 DEF OthersAlone
<1>8. QueueStays(Main) /\ QueryStays(Main)
  BY <1>1, <1>2, <1>3, <1>6, SameQueue
<1> QED BY <1>2, <1>5, <1>6, <1>7, <1>8, McuStepInv

(* What trsync_report puts into the queue of responses, or loses. *)
LEMMA ReportEffect ==
  ASSUME McuTypeOK, NEW m \in Mcus, NEW can \in BOOLEAN, NEW reason \in Reasons,
         NEW clock \in Time, NEW rd \in Nat, NEW more \in Seq(Response),
         more = <<>> \/ (\E a \in Response : a.ack /\ more = <<a>>),
         Report(m, more, can, reason, clock, rd)
  PROVE  /\ rspq' \in [Mcus -> Seq(Response)] /\ lost' \in 0..MaxLost
         /\ \A o \in Mcus \ {m} : rspq'[o] = rspq[o]
         /\ more = <<>> /\ NoAck(rspq[m]) => NoAck(rspq'[m])
         /\ more # <<>> /\ NoAck(rspq[m]) => AckLast(rspq'[m])
<1> DEFINE r == [ack |-> FALSE, can_trigger |-> can, trigger_reason |-> reason,
                 clock |-> clock, round |-> rd]
           q == rspq[m]
<1>1. r \in Response /\ ~r.ack
  BY DEF Response
<1>2. q \in Seq(Response) /\ lost \in 0..MaxLost /\ MaxLost \in Nat
  BY TicksAssumption DEF McuTypeOK
<1>3. \/ rspq' = [rspq EXCEPT ![m] = q \o <<r>> \o more] /\ lost' = lost
      \/ lost < MaxLost /\ rspq' = [rspq EXCEPT ![m] = q \o more] /\ lost' = lost + 1
  BY DEF Report
<1> HIDE DEF r, q
<1>4. lost' \in 0..MaxLost
  BY <1>2, <1>3
<1>5. /\ q \o <<r>> \in Seq(Response)
      /\ NoAck(q) => NoAck(q \o <<r>>)
  BY <1>1, <1>2, ConcatAcks
<1>6. ASSUME NEW s \in Seq(Response), rspq' = [rspq EXCEPT ![m] = s \o more],
             NoAck(q) => NoAck(s)
      PROVE  /\ rspq' \in [Mcus -> Seq(Response)]
             /\ \A o \in Mcus \ {m} : rspq'[o] = rspq[o]
             /\ more = <<>> /\ NoAck(q) => NoAck(rspq'[m])
             /\ more # <<>> /\ NoAck(q) => AckLast(rspq'[m])
  <2>1. s \o more \in Seq(Response)
    OBVIOUS
  <2>2. /\ rspq' \in [Mcus -> Seq(Response)]
        /\ \A o \in Mcus \ {m} : rspq'[o] = rspq[o]
        /\ rspq'[m] = s \o more
    BY <1>6, <2>1 DEF McuTypeOK
  <2>3. more = <<>> => s \o more = s
    OBVIOUS
  <2>4. more # <<>> => \E a \in Response : a.ack /\ more = <<a>>
    OBVIOUS
  <2> QED BY <1>6, <2>2, <2>3, <2>4, ConcatAcks
<1>7. /\ rspq' \in [Mcus -> Seq(Response)]
      /\ \A o \in Mcus \ {m} : rspq'[o] = rspq[o]
      /\ more = <<>> /\ NoAck(q) => NoAck(rspq'[m])
      /\ more # <<>> /\ NoAck(q) => AckLast(rspq'[m])
  BY <1>2, <1>3, <1>5, <1>6
<1> QED BY <1>4, <1>7 DEF q

Contents(new, old, r, more) ==
  \A i \in DOMAIN new : \/ \E j \in DOMAIN old : new[i] = old[j]
                        \/ new[i] = r
                        \/ more = <<new[i]>>

LEMMA ReportContents ==
  ASSUME McuTypeOK, NEW m \in Mcus, NEW can \in BOOLEAN, NEW reason \in Reasons,
         NEW clock \in Time, NEW rd \in Nat, NEW more \in Seq(Response),
         more = <<>> \/ (\E a \in Response : more = <<a>>),
         Report(m, more, can, reason, clock, rd)
  PROVE  Contents(rspq'[m], rspq[m],
                  [ack |-> FALSE, can_trigger |-> can, trigger_reason |-> reason,
                   clock |-> clock, round |-> rd], more)
<1> DEFINE r == [ack |-> FALSE, can_trigger |-> can, trigger_reason |-> reason,
                 clock |-> clock, round |-> rd]
           q == rspq[m]
           OneOf(x) == (\E j \in DOMAIN q : x = q[j]) \/ x = r
<1>1. r \in Response
  BY DEF Response
<1>2. q \in Seq(Response)
  BY DEF McuTypeOK
<1>3. rspq'[m] = (q \o <<r>>) \o more \/ rspq'[m] = q \o more
  <2>1. \/ rspq' = [rspq EXCEPT ![m] = q \o <<r>> \o more]
        \/ rspq' = [rspq EXCEPT ![m] = q \o more]
    BY DEF Report
  <2> HIDE DEF r, q
  <2> QED BY <2>1 DEF McuTypeOK
<1> HIDE DEF r, q
<1>4. /\ q \o <<r>> \in Seq(Response)
      /\ \A i \in DOMAIN (q \o <<r>>) : OneOf((q \o <<r>>)[i])
  BY <1>1, <1>2
<1>5. ASSUME NEW s \in Seq(Response), \A i \in DOMAIN s : OneOf(s[i])
      PROVE  \A i \in DOMAIN (s \o more) :
               OneOf((s \o more)[i]) \/ more = <<(s \o more)[i]>>
  <2> HIDE DEF OneOf
  <2>1. \A i \in DOMAIN (s \o more) :
          \/ i \in DOMAIN s /\ (s \o more)[i] = s[i]
          \/ i - Len(s) \in DOMAIN more /\ (s \o more)[i] = more[i - Len(s)]
    BY ConcatProps
  <2>2. more # <<>> => DOMAIN more = {1} /\ more = <<more[1]>>
    OBVIOUS
  <2>3. more = <<>> => DOMAIN more = {}
    OBVIOUS
  <2> QED BY <1>5, <2>1, <2>2, <2>3
<1>6. \A i \in DOMAIN q : OneOf(q[i])
  OBVIOUS
<1>7. \A i \in DOMAIN rspq'[m] : OneOf(rspq'[m][i]) \/ more = <<rspq'[m][i]>>
  <2> HIDE DEF OneOf
  <2> QED BY <1>2, <1>3, <1>4, <1>5, <1>6
<1> QED BY <1>7 DEF OneOf, r, q, Contents

LEMMA ReportTaskInv ==
  ASSUME QInv, NEW m \in Mcus, ReportTask(m), UNCHANGED <<trdispatchVars, pyVars, pyq>>
  PROVE  QInv'
<1>1. /\ "report" \in flags[m] /\ flags' = [flags EXCEPT ![m] = @ \ {"report"}]
      /\ Report(m, <<>>, "can_trigger" \in flags[m], trigger_reason[m],
                ReportClock(m), homing[m])
      /\ UNCHANGED <<now, trigger_reason, report_time, expire_time, signal,
                     triggered_at, homing, endstop, endstop_clock, cmdq>>
  BY DEF ReportTask
<1>2. /\ ("can_trigger" \in flags[m]) \in BOOLEAN /\ trigger_reason[m] \in Reasons
      /\ ReportClock(m) \in Time /\ homing[m] \in Nat /\ <<>> \in Seq(Response)
  BY QueueOf DEF McuTypeOK, ReportClock, Time
<1>3. /\ rspq' \in [Mcus -> Seq(Response)] /\ lost' \in 0..MaxLost
      /\ \A o \in Mcus \ {m} : rspq'[o] = rspq[o]
      /\ NoAck(rspq[m]) => NoAck(rspq'[m])
  BY <1>1, <1>2, QueueOf, ReportEffect
<1>12. ClocksOK(rspq[m]) => ClocksOK(rspq'[m])
  <2> DEFINE r == [ack |-> FALSE, can_trigger |-> "can_trigger" \in flags[m],
                   trigger_reason |-> trigger_reason[m], clock |-> ReportClock(m),
                   round |-> homing[m]]
  <2>0. Contents(rspq'[m], rspq[m], r, <<>>)
    <3>1. McuTypeOK
      BY QueueOf
    <3> QED BY <1>1, <1>2, <3>1, ReportContents
  <2>1. \A i \in DOMAIN rspq'[m] :
              \/ \E j \in DOMAIN rspq[m] : rspq'[m][i] = rspq[m][j]
              \/ rspq'[m][i].clock = ReportClock(m)
    BY <2>0 DEF Contents
  <2>2. ReportClock(m) # Never
    BY QueueOf DEF McuTypeOK, ReportClock, Never
  <2> QED BY <2>1, <2>2 DEF ClocksOK
<1>4. /\ flags' \in [Mcus -> SUBSET {"can_trigger", "report"}]
      /\ \A o \in Mcus \ {m} : flags'[o] = flags[o]
      /\ "can_trigger" \in flags'[m] <=> "can_trigger" \in flags[m]
  BY <1>1, QueueOf DEF McuTypeOK
<1>5. McuTypeOK'
  BY <1>1, <1>3, <1>4, QueueOf DEF McuTypeOK
<1>6. ~Quiet(m) /\ Armed(m)' = Armed(m)
  BY <1>1, <1>4 DEF Quiet, Armed
<1>7. OthersAlone(m)
  BY <1>1, <1>3, <1>4 DEF OthersAlone
<1>8. StopShape(cmdq'[m], Armed(m)')
  BY <1>1, <1>6, QueueOf
<1>9. signal'[m] => "can_trigger" \in flags'[m]
  BY <1>1, <1>4, QueueOf
<1>10. QueueStays(m)
  BY <1>1, <1>8, <1>9, QueueOf DEF QueueStays
<1>11. QueryStays(m)
  BY <1>1, <1>3, <1>12 DEF QueryStays
<1> QED BY <1>5, <1>6, <1>7, <1>10, <1>11, McuStepInv

(* The command at the front of m's queue is carried out. *)
LEMMA CommandTaken ==
  ASSUME QInv, NEW m \in Mcus, cmdq[m] # <<>>, Consume(m)
  PROVE  LET op == Head(cmdq[m]).op IN
         /\ cmdq' \in [Mcus -> Seq(Command)] /\ Head(cmdq[m]) \in Command
         /\ cmdq'[m] = Tail(cmdq[m])
         /\ \A o \in Mcus \ {m} : cmdq'[o] = cmdq[o]
         /\ ~Quiet(m)
         /\ StopShape(cmdq'[m], op = "trsync_start")
         /\ op = "stepper_stop_on_trigger" => Armed(m)
         /\ m = Main => /\ HomeShape(cmdq'[m], endstop = "homing")
                        /\ op = "endstop_home" => HomeShape(cmdq'[m], TRUE)
                        /\ op = "trsync_start" => endstop # "homing"
         /\ m # Main => NoOp(cmdq'[m], {"endstop_home", "endstop_off"})
                        /\ op \notin {"endstop_home", "endstop_off"}
         /\ NoOp(cmdq[m], {"endstop_home"}) => NoOp(cmdq'[m], {"endstop_home"})
                                               /\ op # "endstop_home"
         /\ OffShape(cmdq[m], endstop = "homing") =>
              /\ op = "endstop_home" => OffShape(cmdq'[m], TRUE)
              /\ op = "endstop_off" => OffShape(cmdq'[m], FALSE)
              /\ op \notin {"endstop_home", "endstop_off"} =>
                   OffShape(cmdq'[m], endstop = "homing")
         /\ NoOp(cmdq[m], {"trsync_query"}) => NoOp(cmdq'[m], {"trsync_query"})
                                               /\ op # "trsync_query"
         /\ QueryLast(cmdq[m]) => /\ op # "trsync_query" => QueryLast(cmdq'[m])
                                  /\ op = "trsync_query" => cmdq'[m] = <<>>
<1> DEFINE q == cmdq[m]
           t == Tail(cmdq[m])
           op == Head(cmdq[m]).op
<1>1. /\ q \in Seq(Command) /\ q # <<>>
      /\ StopShape(q, Armed(m)) /\ Armed(m) \in BOOLEAN
      /\ m = Main => HomeShape(q, endstop = "homing")
      /\ m # Main => NoOp(q, {"endstop_home", "endstop_off"})
  BY QueueOf
<1>2. t \in Seq(Command) /\ Head(cmdq[m]) \in Command
  BY <1>1, TailProps
<1>3. /\ cmdq' \in [Mcus -> Seq(Command)] /\ cmdq'[m] = t
      /\ \A o \in Mcus \ {m} : cmdq'[o] = cmdq[o]
  BY <1>2, QueueOf DEF Consume, McuTypeOK
<1>4. ~Quiet(m)
  BY DEF Quiet
<1>5. /\ \A ops : NoOp(q, ops) => NoOp(t, ops) /\ op \notin ops
      /\ \A a \in BOOLEAN : StopShape(q, a) =>
           /\ StopShape(t, op = "trsync_start")
           /\ op = "stepper_stop_on_trigger" => a
      /\ \A h \in BOOLEAN : HomeShape(q, h) =>
           /\ HomeShape(t, h)
           /\ op = "endstop_home" => HomeShape(t, TRUE)
           /\ op = "trsync_start" => ~h
      /\ \A h \in BOOLEAN : OffShape(q, h) =>
           /\ op = "endstop_home" => OffShape(t, TRUE)
           /\ op = "endstop_off" => OffShape(t, FALSE)
           /\ op \notin {"endstop_home", "endstop_off"} => OffShape(t, h)
      /\ QueryLast(q) => /\ op # "trsync_query" => QueryLast(t)
                         /\ op = "trsync_query" => t = <<>>
  BY <1>1, TailShapes
<1> HIDE DEF q, t, op
<1> DEFINE h == endstop = "homing"
<1>6. h \in BOOLEAN
  OBVIOUS
<1>7. /\ m = Main => HomeShape(q, h)
      /\ OffShape(cmdq[m], endstop = "homing") => OffShape(q, h)
  BY <1>1 DEF q
<1> HIDE DEF h
<1>8. /\ StopShape(t, op = "trsync_start")
      /\ op = "stepper_stop_on_trigger" => Armed(m)
  BY <1>1, <1>5
<1>9. m = Main => /\ HomeShape(t, h)
                  /\ op = "endstop_home" => HomeShape(t, TRUE)
                  /\ op = "trsync_start" => ~h
  BY <1>5, <1>6, <1>7
<1>10. OffShape(q, h) =>
           /\ op = "endstop_home" => OffShape(t, TRUE)
           /\ op = "endstop_off" => OffShape(t, FALSE)
           /\ op \notin {"endstop_home", "endstop_off"} => OffShape(t, h)
  BY <1>5, <1>6
<1>11. /\ m # Main => NoOp(t, {"endstop_home", "endstop_off"})
                      /\ op \notin {"endstop_home", "endstop_off"}
       /\ NoOp(q, {"endstop_home"}) => NoOp(t, {"endstop_home"}) /\ op # "endstop_home"
       /\ NoOp(q, {"trsync_query"}) => NoOp(t, {"trsync_query"}) /\ op # "trsync_query"
  BY <1>1, <1>5
<1> QED BY <1>2, <1>3, <1>4, <1>5, <1>8, <1>9, <1>10, <1>11 DEF q, t, op, h

LEMMA StopShapeFalse ==
  ASSUME NEW q, NEW a \in BOOLEAN, StopShape(q, FALSE)
  PROVE  StopShape(q, a)
  BY DEF StopShape

LEMMA TrsyncStartInv ==
  ASSUME QInv, NEW m \in Mcus, TrsyncStart(m), UNCHANGED <<trdispatchVars, pyVars, pyq>>
  PROVE  QInv'
<1>1. /\ cmdq[m] # <<>> /\ Head(cmdq[m]).op = "trsync_start" /\ Consume(m)
      /\ flags' = [flags EXCEPT ![m] = {"can_trigger"}]
      /\ trigger_reason' = [trigger_reason EXCEPT ![m] = "none"]
      /\ report_time' = [report_time EXCEPT ![m] = Head(cmdq[m]).clock]
      /\ expire_time' = [expire_time EXCEPT ![m] = Never]
      /\ signal' = [signal EXCEPT ![m] = FALSE]
      /\ triggered_at' = [triggered_at EXCEPT ![m] = Never]
      /\ homing' = [homing EXCEPT ![m] = Head(cmdq[m]).round]
      /\ UNCHANGED <<now, endstop, endstop_clock, lost, rspq>>
  BY DEF TrsyncStart, NextCommand
<1>2. /\ cmdq' \in [Mcus -> Seq(Command)] /\ Head(cmdq[m]) \in Command
      /\ \A o \in Mcus \ {m} : cmdq'[o] = cmdq[o]
      /\ ~Quiet(m)
  BY <1>1, CommandTaken
<1>3. /\ StopShape(cmdq'[m], TRUE)
      /\ m = Main => endstop # "homing" /\ HomeShape(cmdq'[m], endstop = "homing")
      /\ m # Main => NoOp(cmdq'[m], {"endstop_home", "endstop_off"})
      /\ NoOp(cmdq[m], {"endstop_home"}) => NoOp(cmdq'[m], {"endstop_home"})
      /\ OffShape(cmdq[m], endstop = "homing") => OffShape(cmdq'[m], endstop = "homing")
  BY <1>1, CommandTaken
<1>4. /\ NoOp(cmdq[m], {"trsync_query"}) => NoOp(cmdq'[m], {"trsync_query"})
      /\ QueryLast(cmdq[m]) => QueryLast(cmdq'[m])
  BY <1>1, CommandTaken
<1>5. Head(cmdq[m]).clock \in Time /\ Head(cmdq[m]).round \in Nat
  BY <1>2 DEF Command
<1>6. /\ flags' \in [Mcus -> SUBSET {"can_trigger", "report"}] /\ signal' \in [Mcus -> BOOLEAN]
      /\ report_time' \in [Mcus -> Time] /\ expire_time' \in [Mcus -> Time]
      /\ triggered_at' \in [Mcus -> Time] /\ homing' \in [Mcus -> Nat]
      /\ trigger_reason' \in [Mcus -> Reasons]
  BY <1>1, <1>5, QueueOf DEF McuTypeOK, Time, Reasons
<1>7. McuTypeOK'
  BY <1>1, <1>2, <1>6, QueueOf DEF McuTypeOK
<1>8. /\ \A o \in Mcus \ {m} :
            /\ flags'[o] = flags[o] /\ signal'[o] = signal[o]
            /\ report_time'[o] = report_time[o] /\ expire_time'[o] = expire_time[o]
      /\ "can_trigger" \in flags'[m] /\ expire_time'[m] = Never
  BY <1>1, QueueOf DEF McuTypeOK
<1>9. OthersAlone(m)
  BY <1>1, <1>2, <1>8 DEF OthersAlone
<1>10. Armed(m)' = TRUE
  BY <1>1, <1>3, <1>8 DEF Armed
<1>11. QueueStays(m)
  BY <1>1, <1>3, <1>8, <1>10 DEF QueueStays
<1>12. QueryStays(m)
  BY <1>1, <1>4 DEF QueryStays
<1> QED BY <1>2, <1>7, <1>9, <1>11, <1>12, McuStepInv

LEMMA StopOnTriggerInv ==
  ASSUME QInv, NEW m \in Mcus, StopOnTrigger(m), UNCHANGED <<trdispatchVars, pyVars, pyq>>
  PROVE  QInv'
<1>1. /\ cmdq[m] # <<>> /\ Head(cmdq[m]).op = "stepper_stop_on_trigger" /\ Consume(m)
      /\ signal' = [signal EXCEPT ![m] = TRUE]
      /\ UNCHANGED <<now, flags, trigger_reason, report_time, expire_time,
                     triggered_at, homing, endstop, endstop_clock, lost, rspq>>
  BY DEF StopOnTrigger, NextCommand
<1>2. /\ cmdq' \in [Mcus -> Seq(Command)]
      /\ \A o \in Mcus \ {m} : cmdq'[o] = cmdq[o]
      /\ ~Quiet(m) /\ Armed(m)
  BY <1>1, CommandTaken
<1>3. /\ StopShape(cmdq'[m], FALSE)
      /\ m = Main => HomeShape(cmdq'[m], endstop = "homing")
      /\ m # Main => NoOp(cmdq'[m], {"endstop_home", "endstop_off"})
      /\ NoOp(cmdq[m], {"endstop_home"}) => NoOp(cmdq'[m], {"endstop_home"})
      /\ OffShape(cmdq[m], endstop = "homing") => OffShape(cmdq'[m], endstop = "homing")
  BY <1>1, CommandTaken
<1>4. /\ NoOp(cmdq[m], {"trsync_query"}) => NoOp(cmdq'[m], {"trsync_query"})
      /\ QueryLast(cmdq[m]) => QueryLast(cmdq'[m])
  BY <1>1, CommandTaken
<1>5. /\ signal' \in [Mcus -> BOOLEAN] /\ \A o \in Mcus \ {m} : signal'[o] = signal[o]
  BY <1>1, QueueOf DEF McuTypeOK
<1>6. McuTypeOK'
  BY <1>1, <1>2, <1>5, QueueOf DEF McuTypeOK
<1>7. OthersAlone(m)
  BY <1>1, <1>2, <1>5 DEF OthersAlone
<1>8. Armed(m)' = Armed(m)
  BY <1>1 DEF Armed
<1>9. StopShape(cmdq'[m], Armed(m)')
  BY <1>3, <1>8, QueueOf, StopShapeFalse
<1>10. QueueStays(m)
  BY <1>1, <1>2, <1>3, <1>9 DEF QueueStays, Armed
<1>11. QueryStays(m)
  BY <1>1, <1>4 DEF QueryStays
<1> QED BY <1>2, <1>6, <1>7, <1>10, <1>11, McuStepInv

LEMMA SetTimeoutInv ==
  ASSUME QInv, NEW m \in Mcus, SetTimeout(m), UNCHANGED <<trdispatchVars, pyVars, pyq>>
  PROVE  QInv'
<1>1. /\ cmdq[m] # <<>> /\ Head(cmdq[m]).op = "trsync_set_timeout" /\ Consume(m)
      /\ expire_time' = IF "can_trigger" \in flags[m]
                        THEN [expire_time EXCEPT ![m] = Head(cmdq[m]).clock]
                        ELSE expire_time
      /\ UNCHANGED <<now, flags, trigger_reason, report_time, signal, triggered_at,
                     homing, endstop, endstop_clock, lost, rspq>>
  BY DEF SetTimeout, NextCommand
<1>2. /\ cmdq' \in [Mcus -> Seq(Command)] /\ Head(cmdq[m]) \in Command
      /\ \A o \in Mcus \ {m} : cmdq'[o] = cmdq[o]
      /\ ~Quiet(m)
  BY <1>1, CommandTaken
<1>3. /\ StopShape(cmdq'[m], FALSE)
      /\ m = Main => HomeShape(cmdq'[m], endstop = "homing")
      /\ m # Main => NoOp(cmdq'[m], {"endstop_home", "endstop_off"})
      /\ NoOp(cmdq[m], {"endstop_home"}) => NoOp(cmdq'[m], {"endstop_home"})
      /\ OffShape(cmdq[m], endstop = "homing") => OffShape(cmdq'[m], endstop = "homing")
  BY <1>1, CommandTaken
<1>4. /\ NoOp(cmdq[m], {"trsync_query"}) => NoOp(cmdq'[m], {"trsync_query"})
      /\ QueryLast(cmdq[m]) => QueryLast(cmdq'[m])
  BY <1>1, CommandTaken
<1>5. Head(cmdq[m]).clock \in Time
  BY <1>2 DEF Command
<1>6. /\ expire_time' \in [Mcus -> Time]
      /\ \A o \in Mcus \ {m} : expire_time'[o] = expire_time[o]
  BY <1>1, <1>5, QueueOf DEF McuTypeOK
<1>7. McuTypeOK'
  BY <1>1, <1>2, <1>6, QueueOf DEF McuTypeOK
<1>8. OthersAlone(m)
  BY <1>1, <1>2, <1>6 DEF OthersAlone
<1>9. StopShape(cmdq'[m], Armed(m)')
  <2>1. Armed(m)' \in BOOLEAN
    BY DEF Armed
  <2> QED BY <1>3, <2>1, StopShapeFalse
<1>10. QueueStays(m)
  BY <1>1, <1>3, <1>9, QueueOf DEF QueueStays
<1>11. QueryStays(m)
  BY <1>1, <1>4 DEF QueryStays
<1> QED BY <1>2, <1>7, <1>8, <1>10, <1>11, McuStepInv

LEMMA EndstopHomeInv ==
  ASSUME QInv, NEW m \in Mcus, EndstopHome(m), UNCHANGED <<trdispatchVars, pyVars, pyq>>
  PROVE  QInv'
<1>1. /\ cmdq[m] # <<>> /\ Head(cmdq[m]).op \in {"endstop_home", "endstop_off"} /\ Consume(m)
      /\ endstop' = IF Head(cmdq[m]).op = "endstop_home" THEN "homing" ELSE "off"
      /\ endstop_clock' = Head(cmdq[m]).clock
      /\ UNCHANGED <<now, flags, trigger_reason, report_time, expire_time, signal,
                     triggered_at, homing, lost, rspq>>
  BY DEF EndstopHome, NextCommand
<1>2. /\ cmdq' \in [Mcus -> Seq(Command)] /\ Head(cmdq[m]) \in Command
      /\ \A o \in Mcus \ {m} : cmdq'[o] = cmdq[o]
      /\ ~Quiet(m) /\ m = Main
  BY <1>1, CommandTaken
<1>3. /\ StopShape(cmdq'[m], FALSE)
      /\ HomeShape(cmdq'[m], endstop' = "homing")
      /\ NoOp(cmdq[m], {"endstop_home"}) =>
           NoOp(cmdq'[m], {"endstop_home"}) /\ endstop' # "homing"
  <2>1. HomeShape(cmdq'[m], FALSE) \/ endstop = "homing"
    BY <1>1, <1>2, CommandTaken
  <2>2. HomeShape(cmdq'[m], TRUE) => HomeShape(cmdq'[m], FALSE)
    BY DEF HomeShape
  <2> QED BY <1>1, <1>2, <2>1, <2>2, CommandTaken
<1>4. OffShape(cmdq[m], endstop = "homing") => OffShape(cmdq'[m], endstop' = "homing")
  BY <1>1, CommandTaken
<1>5. /\ NoOp(cmdq[m], {"trsync_query"}) => NoOp(cmdq'[m], {"trsync_query"})
      /\ QueryLast(cmdq[m]) => QueryLast(cmdq'[m])
  BY <1>1, CommandTaken
<1>6. McuTypeOK'
  BY <1>1, <1>2, QueueOf DEF McuTypeOK, Command
<1>7. OthersAlone(m)
  BY <1>1, <1>2 DEF OthersAlone
<1>8. StopShape(cmdq'[m], Armed(m)')
  <2>1. Armed(m)' \in BOOLEAN
    BY DEF Armed
  <2> QED BY <1>3, <2>1, StopShapeFalse
<1>9. QueueStays(m)
  BY <1>1, <1>2, <1>3, <1>4, <1>8, QueueOf DEF QueueStays
<1>10. QueryStays(m)
  BY <1>1, <1>5 DEF QueryStays
<1> QED BY <1>2, <1>6, <1>7, <1>9, <1>10, McuStepInv

(* A query is acknowledged when nothing is left to act on m. *)
LEMMA TrsyncTriggerInv ==
  ASSUME QInv, NEW m \in Mcus, TrsyncTrigger(m), UNCHANGED <<trdispatchVars, pyVars, pyq>>
  PROVE  QInv'
<1> DEFINE c == Head(cmdq[m])
           ack == [ack |-> TRUE, can_trigger |-> FALSE, trigger_reason |-> "none",
                   clock |-> 0, round |-> c.round]
           more == IF c.op = "trsync_query" THEN <<ack>> ELSE <<>>
<1>1. /\ cmdq[m] # <<>> /\ c.op \in {"trsync_trigger", "trsync_query"} /\ Consume(m)
      /\ trsync_do_trigger(m, c.reason)
      /\ flags' = [flags EXCEPT ![m] = {}]
      /\ report_time' = [report_time EXCEPT ![m] = Never]
      /\ expire_time' = [expire_time EXCEPT ![m] = Never]
      /\ Report(m, more, FALSE, trigger_reason'[m], 0, c.round)
      /\ UNCHANGED <<now, homing, endstop, endstop_clock>>
  BY DEF TrsyncTrigger, NextCommand
<1>2. /\ cmdq' \in [Mcus -> Seq(Command)] /\ c \in Command
      /\ \A o \in Mcus \ {m} : cmdq'[o] = cmdq[o]
      /\ ~Quiet(m)
  BY <1>1, CommandTaken
<1>3. c.reason \in Reasons /\ c.round \in Nat
  BY <1>2 DEF Command
<1>4. /\ ack \in Response /\ ack.ack
      /\ c.op = "trsync_query" => more = <<ack>>
      /\ c.op # "trsync_query" => more = <<>>
  BY <1>3 DEF Response, Reasons, Time
<1> HIDE DEF c, ack
<1>5. /\ more \in Seq(Response)
      /\ more = <<>> \/ \E a \in Response : a.ack /\ more = <<a>>
      /\ c.op = "trsync_query" <=> more # <<>>
  BY <1>4
<1> HIDE DEF more
<1>6. /\ trigger_reason' \in [Mcus -> Reasons] /\ triggered_at' \in [Mcus -> Time]
      /\ signal' \in [Mcus -> BOOLEAN] /\ ~signal'[m]
      /\ \A o \in Mcus \ {m} : signal'[o] = signal[o]
  BY <1>1, <1>3, QueueOf, TriggerEffect
<1>7. trigger_reason'[m] \in Reasons /\ 0 \in Time
  BY <1>6 DEF Time
<1>8. /\ rspq' \in [Mcus -> Seq(Response)] /\ lost' \in 0..MaxLost
      /\ \A o \in Mcus \ {m} : rspq'[o] = rspq[o]
      /\ more = <<>> /\ NoAck(rspq[m]) => NoAck(rspq'[m])
      /\ more # <<>> /\ NoAck(rspq[m]) => AckLast(rspq'[m])
  BY ZenonT(40), <1>1, <1>3, <1>5, <1>7, QueueOf, ReportEffect
<1>9. /\ flags' \in [Mcus -> SUBSET {"can_trigger", "report"}]
      /\ report_time' \in [Mcus -> Time] /\ expire_time' \in [Mcus -> Time]
      /\ \A o \in Mcus \ {m} :
            /\ flags'[o] = flags[o]
            /\ report_time'[o] = report_time[o] /\ expire_time'[o] = expire_time[o]
      /\ flags'[m] = {} /\ report_time'[m] = Never /\ expire_time'[m] = Never
  BY <1>1, QueueOf DEF McuTypeOK, Time
<1>10. McuTypeOK'
  BY <1>1, <1>2, <1>6, <1>8, <1>9, QueueOf DEF McuTypeOK
<1>11. OthersAlone(m)
  BY <1>1, <1>2, <1>6, <1>8, <1>9 DEF OthersAlone
<1>12. /\ StopShape(cmdq'[m], FALSE)
       /\ m = Main => HomeShape(cmdq'[m], endstop = "homing")
       /\ m # Main => NoOp(cmdq'[m], {"endstop_home", "endstop_off"})
       /\ NoOp(cmdq[m], {"endstop_home"}) => NoOp(cmdq'[m], {"endstop_home"})
       /\ OffShape(cmdq[m], endstop = "homing") => OffShape(cmdq'[m], endstop = "homing")
  BY <1>1, CommandTaken DEF c
<1>13. StopShape(cmdq'[m], Armed(m)')
  <2>1. Armed(m)' \in BOOLEAN
    BY DEF Armed
  <2> QED BY <1>12, <2>1, StopShapeFalse
<1>14. QueueStays(m)
  BY <1>1, <1>6, <1>12, <1>13 DEF QueueStays
<1>15. /\ NoOp(cmdq[m], {"trsync_query"}) => NoOp(cmdq'[m], {"trsync_query"})
                                             /\ c.op # "trsync_query"
       /\ QueryLast(cmdq[m]) => /\ c.op # "trsync_query" => QueryLast(cmdq'[m])
                                /\ c.op = "trsync_query" => cmdq'[m] = <<>>
  BY <1>1, CommandTaken DEF c
<1>16. QueryLast(cmdq[m]) /\ c.op = "trsync_query" => Quiet(m)'
  <2> SUFFICES ASSUME QueryLast(cmdq[m]), c.op = "trsync_query"
               PROVE  Quiet(m)'
    OBVIOUS
  <2>1. cmdq'[m] = <<>>
    BY <1>15
  <2>2. ~NoOp(cmdq[m], {"trsync_query"})
    BY <1>15
  <2>3. pc = "ack"
    BY <2>2 DEF QInv, QueryInv, NoQuery
  <2>4. m = Main => OffShape(<<>>, endstop = "homing")
    BY <1>12, <2>1, <2>3 DEF QInv, EndstopInv
  <2>5. m = Main => endstop # "homing"
    BY <2>4 DEF OffShape
  <2> QED BY <1>1, <1>6, <1>9, <2>1, <2>5 DEF Quiet
<1>17. ClocksOK(rspq[m]) => ClocksOK(rspq'[m])
  <2> DEFINE r == [ack |-> FALSE, can_trigger |-> FALSE,
                   trigger_reason |-> trigger_reason'[m], clock |-> 0,
                   round |-> c.round]
  <2>0. Contents(rspq'[m], rspq[m], r, more)
    <3>1. McuTypeOK /\ FALSE \in BOOLEAN
      BY QueueOf
    <3>2. more = <<>> \/ \E a \in Response : more = <<a>>
      BY <1>5
    <3> QED BY <1>1, <1>3, <1>5, <1>7, <3>1, <3>2, ReportContents
  <2>1. \A i \in DOMAIN rspq'[m] :
              \/ \E j \in DOMAIN rspq[m] : rspq'[m][i] = rspq[m][j]
              \/ rspq'[m][i].clock = 0
              \/ more = <<rspq'[m][i]>>
    BY <2>0 DEF Contents
  <2>2. \A x : more = <<x>> => x = ack
    BY <1>4
  <2>3. ack.clock = 0 /\ 0 # Never
    BY DEF ack, Never
  <2> QED BY <2>1, <2>2, <2>3 DEF ClocksOK
<1>18. QueryStays(m)
  BY <1>5, <1>8, <1>15, <1>16, <1>17 DEF QueryStays
<1> QED BY <1>2, <1>10, <1>11, <1>14, <1>18, McuStepInv

-----------------------------------------------------------------------------
(* The steps of the host that do not send a command *)

LEMMA TimePassesInv ==
  ASSUME QInv, TimePasses
  PROVE  QInv'
<1> USE DEF TimePasses, Tick, mcuVars, linkVars, trdispatchVars, pyVars
<1>1. TypeOK'
  BY DEF QInv, TypeOK, McuTypeOK, TrDispatchTypeOK
<1>2. CommandsInv'
  BY DEF QInv, CommandsInv, Armed
<1>3. EndstopInv' /\ ReadersInv'
  BY DEF QInv, EndstopInv, ReadersInv
<1>4. StoppedInv'
  BY DEF QInv, StoppedInv, Stopped, Quiet
<1>5. QueryInv'
  BY DEF QInv, QueryInv, QueryState, NoQuery, Quiet
<1>6. ReportsInv'
  BY DEF QInv, ReportsInv
<1> QED BY <1>1, <1>2, <1>3, <1>4, <1>5, <1>6 DEF QInv

(* A step that leaves the queues and the micro-controllers alone. *)
LEMMA SameLinks ==
  ASSUME QInv, UNCHANGED <<now, mcuVars, linkVars, dispatching>>
  PROVE  CommandsInv' /\ ReportsInv' /\ McuTypeOK'
         /\ \A m \in Mcus : Quiet(m)' = Quiet(m)
<1> USE DEF mcuVars, linkVars
<1>1. CommandsInv'
  BY DEF QInv, CommandsInv, Armed
<1>2. ReportsInv'
  BY DEF QInv, ReportsInv
<1>3. McuTypeOK'
  BY DEF QInv, TypeOK, McuTypeOK
<1>4. \A m \in Mcus : Quiet(m)' = Quiet(m)
  BY DEF Quiet
<1> QED BY <1>1, <1>2, <1>3, <1>4

LEMMA HomeStartInv ==
  ASSUME QInv, HomeStart
  PROVE  QInv'
<1>1. /\ pc = "idle" /\ round < MaxRound
      /\ pc' = "start" /\ round' = round + 1
      /\ home_clock' = now + Lead
      /\ completed' = FALSE /\ result' = "none"
      /\ res' = [m \in Mcus |-> "none"]
      /\ UNCHANGED <<k, handler, trigger_completion, home_end, acked, last_params,
                     retries_left, now, mcuVars, linkVars, trdispatchVars, pyq>>
  BY DEF HomeStart
<1>2. CommandsInv' /\ ReportsInv' /\ McuTypeOK'
  BY <1>1, SameLinks DEF trdispatchVars
<1>3. TypeOK'
  <2>1. round' \in 0..MaxRound /\ home_clock' \in Nat
    BY <1>1, HomingAssumption DEF QInv, TypeOK, McuTypeOK
  <2>2. TrDispatchTypeOK'
    BY <1>1 DEF QInv, TypeOK, TrDispatchTypeOK, trdispatchVars
  <2>3. res' \in [Mcus -> Reasons]
    BY <1>1 DEF Reasons
  <2> QED BY <1>1, <1>2, <2>1, <2>2, <2>3 DEF QInv, TypeOK
<1>4. EndstopInv'
  BY <1>1 DEF QInv, EndstopInv, mcuVars, linkVars
<1>5. ReadersInv'
  BY <1>1 DEF QInv, ReadersInv, trdispatchVars
<1>6. StoppedInv'
  BY <1>1 DEF StoppedInv
<1>7. QueryInv'
  BY <1>1 DEF QInv, QueryInv, NoQuery, linkVars
<1> QED BY <1>2, <1>3, <1>4, <1>5, <1>6, <1>7 DEF QInv

LEMMA DispatchStartInv ==
  ASSUME QInv, trdispatch_start
  PROVE  QInv'
<1>1. /\ pc = "dispatch" /\ pc' = "add" /\ can_trigger' = TRUE
      /\ UNCHANGED <<k, round, home_clock, handler, trigger_completion, completed,
                     home_end, acked, last_params, retries_left, res, result, now,
                     mcuVars, linkVars, last_status_clock, expire_clock,
                     fastreaders, dispatching, pyq>>
  BY DEF trdispatch_start
<1>2. CommandsInv' /\ ReportsInv' /\ McuTypeOK'
  BY <1>1, SameLinks
<1>3. TypeOK'
  BY <1>1, <1>2 DEF QInv, TypeOK, TrDispatchTypeOK
<1>4. EndstopInv'
  BY <1>1 DEF QInv, EndstopInv, mcuVars, linkVars
<1>5. ReadersInv'
  BY <1>1 DEF QInv, ReadersInv
<1>6. StoppedInv'
  BY <1>1 DEF StoppedInv
<1>7. QueryInv'
  BY <1>1 DEF QInv, QueryInv, NoQuery, linkVars
<1> QED BY <1>2, <1>3, <1>4, <1>5, <1>6, <1>7 DEF QInv

(* The loop over the trsyncs. *)
LEMMA NextTrsyncType ==
  ASSUME TypeOK, NEW here, NEW then, NextTrsync(here, then)
  PROVE  /\ k' \in 1..N
         /\ \/ k < N /\ pc' = here /\ k' = k + 1
            \/ k = N /\ pc' = then /\ k' = 1
  BY TrsyncsProps DEF NextTrsync, TypeOK

LEMMA AddFastreaderInv ==
  ASSUME QInv, AddFastreader
  PROVE  QInv'
<1>1. /\ pc = "add" /\ NextTrsync("add", "endstop")
      /\ fastreaders' = fastreaders \union {trsyncs[k]}
      /\ UNCHANGED <<round, home_clock, handler, trigger_completion, completed,
                     home_end, acked, last_params, retries_left, res, result, now,
                     mcuVars, linkVars, can_trigger, last_status_clock,
                     expire_clock, dispatching, pyq>>
  BY DEF AddFastreader, add_fastreader
<1>2. CommandsInv' /\ ReportsInv' /\ McuTypeOK'
  BY <1>1, SameLinks
<1>3. /\ k' \in 1..N
      /\ pc' = "add" \/ (pc' = "endstop" /\ k' = 1)
  BY <1>1, NextTrsyncType DEF QInv
<1>4. TypeOK'
  <2>1. trsyncs[k] \in Mcus
    BY TrsyncsBefore DEF QInv
  <2>2. TrDispatchTypeOK'
    BY <1>1, <2>1 DEF QInv, TypeOK, TrDispatchTypeOK
  <2> QED BY <1>1, <1>2, <1>3, <2>2 DEF QInv, TypeOK
<1>5. EndstopInv'
  BY <1>1, <1>3 DEF QInv, EndstopInv, mcuVars, linkVars
<1>6. ReadersInv'
  BY <1>1, <1>3 DEF QInv, ReadersInv
<1>7. StoppedInv'
  BY <1>1, <1>3 DEF StoppedInv
<1>8. QueryInv'
  BY <1>1, <1>3 DEF QInv, QueryInv, NoQuery, linkVars
<1> QED BY <1>2, <1>4, <1>5, <1>6, <1>7, <1>8 DEF QInv

LEMMA HomeWaitInv ==
  ASSUME QInv, HomeWait
  PROVE  QInv'
<1>1. /\ pc = "moving" /\ pc' = "wait"
      /\ home_end' = [home_end EXCEPT ![Main] = home_clock + MoveTicks]
      /\ UNCHANGED <<k, round, home_clock, handler, trigger_completion, completed,
                     acked, last_params, retries_left, res, result, now, mcuVars,
                     linkVars, trdispatchVars, pyq>>
  BY DEF HomeWait
<1>2. CommandsInv' /\ ReportsInv' /\ McuTypeOK'
  BY <1>1, SameLinks DEF trdispatchVars
<1>3. TypeOK'
  <2>0. home_clock + MoveTicks \in Time /\ home_end \in [Mcus -> Time]
    BY HomingAssumption DEF QInv, TypeOK, Time
  <2>1. home_end' \in [Mcus -> Time]
    BY <1>1, <2>0
  <2>2. TrDispatchTypeOK'
    BY <1>1 DEF QInv, TypeOK, TrDispatchTypeOK, trdispatchVars
  <2> QED BY <1>1, <1>2, <2>1, <2>2 DEF QInv, TypeOK
<1>4. EndstopInv'
  BY <1>1 DEF QInv, EndstopInv
<1>5. ReadersInv'
  BY <1>1 DEF QInv, ReadersInv, trdispatchVars
<1>6. StoppedInv'
  BY <1>1 DEF QInv, StoppedInv
<1>7. QueryInv'
  BY <1>1 DEF QInv, QueryInv, NoQuery, linkVars
<1> QED BY <1>2, <1>3, <1>4, <1>5, <1>6, <1>7 DEF QInv

(* Removing a fast reader waits for its callback: when all are removed no
   callback runs any more. *)
LEMMA RemoveFastreaderInv ==
  ASSUME QInv, RemoveFastreader
  PROVE  QInv'
<1>1. /\ pc = "remove" /\ NextTrsync("remove", "stop")
      /\ dispatching[trsyncs[k]] = <<>>
      /\ fastreaders' = fastreaders \ {trsyncs[k]}
      /\ UNCHANGED <<round, home_clock, handler, trigger_completion, completed,
                     home_end, acked, last_params, retries_left, res, result, now,
                     mcuVars, linkVars, can_trigger, last_status_clock,
                     expire_clock, dispatching, pyq>>
  BY DEF RemoveFastreader, rm_fastreader
<1>2. CommandsInv' /\ ReportsInv' /\ McuTypeOK'
  BY <1>1, SameLinks
<1>3. /\ k' \in 1..N
      /\ \/ k < N /\ pc' = "remove" /\ k' = k + 1
         \/ k = N /\ pc' = "stop" /\ k' = 1
  BY <1>1, NextTrsyncType DEF QInv
<1>4. TypeOK'
  <2>1. TrDispatchTypeOK'
    BY <1>1 DEF QInv, TypeOK, TrDispatchTypeOK
  <2> QED BY <1>1, <1>2, <1>3, <2>1 DEF QInv, TypeOK
<1>5. EndstopInv'
  BY <1>1, <1>3 DEF QInv, EndstopInv, mcuVars, linkVars
<1>6. ReadersInv'
  <2>1. \A m \in Mcus : dispatching'[m] # <<>> => m \in fastreaders'
    BY <1>1 DEF QInv, ReadersInv
  <2>2. \A i \in 1..k : trsyncs[i] \notin fastreaders'
    <3>1. \A i \in 1..(k-1) : trsyncs[i] \notin fastreaders
      BY <1>1 DEF QInv, ReadersInv
    <3>2. k \in Nat /\ \A i \in 1..k : i = k \/ i \in 1..(k-1)
      BY TrsyncsBefore, TrsyncsProps DEF QInv
    <3> QED BY <1>1, <3>1, <3>2
  <2>3. k = N => fastreaders' = {}
    <3>1. fastreaders' \subseteq Mcus
      BY <1>1 DEF QInv, TypeOK, TrDispatchTypeOK
    <3> QED BY <2>2, <3>1, TrsyncsProps
  <2>4. k \in Nat
    BY TrsyncsBefore, TrsyncsProps DEF QInv
  <2>5. k' = k + 1 => k' - 1 = k
    BY <2>4
  <2> QED BY <1>3, <2>1, <2>2, <2>3, <2>5 DEF ReadersInv
<1>7. StoppedInv'
  BY <1>1, <1>3 DEF StoppedInv
<1>8. QueryInv'
  BY <1>1, <1>3 DEF QInv, QueryInv, NoQuery, linkVars
<1> QED BY <1>2, <1>4, <1>5, <1>6, <1>7, <1>8 DEF QInv

(* An acknowledged query: the trsync is stopped. *)
LEMMA QueryAnsweredInv ==
  ASSUME QInv, QueryAnswered
  PROVE  QInv'
<1>0. PICK m \in Mcus : m = trsyncs[k]
  BY TrsyncsBefore DEF QInv
<1>1. /\ pc = "ack" /\ acked /\ last_params # NoParams
      /\ res' = [res EXCEPT ![m] = last_params[1]]
      /\ handler' = [handler EXCEPT ![m] = "none"]
      /\ NextTrsync("stop", "idle")
      /\ result' = IF k < N THEN "none" ELSE HomeWaitResult(res')
      /\ UNCHANGED <<round, home_clock, trigger_completion, completed, home_end,
                     acked, last_params, retries_left, now, mcuVars, linkVars,
                     trdispatchVars, pyq>>
  BY <1>0 DEF QueryAnswered
<1>2. /\ CommandsInv' /\ ReportsInv' /\ McuTypeOK'
      /\ \A o \in Mcus : Quiet(o)' = Quiet(o)
  BY <1>1, SameLinks DEF trdispatchVars
<1>3. /\ k' \in 1..N
      /\ \/ k < N /\ pc' = "stop" /\ k' = k + 1
         \/ k = N /\ pc' = "idle" /\ k' = 1
  BY <1>1, NextTrsyncType DEF QInv
<1>4. /\ m \in Mcus /\ k \in Nat /\ k \in 1..N
      /\ \A i \in 1..(k-1) : trsyncs[i] \in Mcus /\ trsyncs[i] # m
  BY <1>0, TrsyncsBefore, TrsyncsProps DEF QInv
<1>5. QueryState(m) /\ \A o \in Mcus \ {m} : NoQuery(o)
  BY <1>0, <1>1, <1>4 DEF QInv, QueryInv
<1>6. /\ Quiet(m) /\ pyq[m] = <<>> /\ rspq[m] = <<>>
      /\ m \notin trigger_completion
  BY <1>1, <1>5 DEF QueryState
<1>7. TypeOK'
  <2>1. res' \in [Mcus -> Reasons]
    BY <1>1, <1>4 DEF QInv, TypeOK
  <2>2. TrDispatchTypeOK'
    BY <1>1 DEF QInv, TypeOK, TrDispatchTypeOK, trdispatchVars
  <2>3. result' \in {"none", "hit", "no_trigger", "timeout"}
    BY <1>1 DEF HomeWaitResult
  <2>4. handler' \in [Mcus -> {"none", "trsync", "query"}]
    BY <1>1, <1>4 DEF QInv, TypeOK
  <2> QED BY <1>1, <1>2, <1>3, <2>1, <2>2, <2>3, <2>4 DEF QInv, TypeOK
<1>8. Stopped(m)'
  BY <1>1, <1>2, <1>4, <1>6 DEF Stopped, linkVars, QInv, TypeOK
<1>9. \A i \in 1..(k-1) : Stopped(trsyncs[i])'
  <2> SUFFICES ASSUME NEW i \in 1..(k-1) PROVE Stopped(trsyncs[i])'
    OBVIOUS
  <2> DEFINE o == trsyncs[i]
  <2>1. Stopped(o) /\ o \in Mcus /\ o # m
    BY <1>1, <1>4 DEF QInv, StoppedInv
  <2> HIDE DEF o
  <2>2. Stopped(o)'
    BY <1>1, <1>2, <2>1 DEF Stopped, linkVars, QInv, TypeOK
  <2> QED BY <2>2 DEF o
<1>10. \A i \in 1..k : Stopped(trsyncs[i])'
  <2>1. \A i \in 1..k : i = k \/ i \in 1..(k-1)
    BY <1>4
  <2> QED BY <1>0, <1>8, <1>9, <2>1
<1>11. k = N => \A o \in Mcus : Stopped(o)'
  BY <1>10, TrsyncsProps
<1>12. StoppedInv'
  <2>1. k' = k + 1 => k' - 1 = k
    BY <1>4
  <2> QED BY <1>3, <1>10, <1>11, <2>1, McusAssumption DEF StoppedInv
<1>13. EndstopInv'
  <2>1. pc' = "idle" => endstop' # "homing" /\ cmdq'[Main] = <<>>
    BY <1>3, <1>11, McusAssumption DEF Stopped, Quiet
  <2>2. OffShape(cmdq[Main], endstop = "homing")'
    BY <1>1 DEF QInv, EndstopInv, linkVars, mcuVars
  <2> QED BY <1>3, <2>1, <2>2 DEF EndstopInv, NoOp
<1>14. ReadersInv'
  BY <1>1, <1>3 DEF QInv, ReadersInv, trdispatchVars
<1>15. QueryInv'
  <2>1. NoQuery(m)
    BY <1>6 DEF Quiet, NoQuery, NoOp, NoAck
  <2>2. \A o \in Mcus : NoQuery(o)'
    BY <1>1, <1>5, <2>1 DEF NoQuery, linkVars
  <2> QED BY <1>3, <2>2 DEF QueryInv
<1> QED BY <1>2, <1>7, <1>12, <1>13, <1>14, <1>15 DEF QInv

(* Without a response in any retry the error leaves home_wait. *)
LEMMA QueryFailedInv ==
  ASSUME QInv, QueryFailed
  PROVE  QInv'
<1>0. PICK m \in Mcus : m = trsyncs[k]
  BY TrsyncsBefore DEF QInv
<1>1. /\ pc = "ack" /\ acked /\ last_params = NoParams /\ retries_left = 0
      /\ handler' = [handler EXCEPT ![m] = "none"]
      /\ pc' = "idle" /\ k' = 1 /\ result' = "error"
      /\ UNCHANGED <<round, home_clock, trigger_completion, completed, home_end,
                     acked, last_params, retries_left, res, now, mcuVars, linkVars,
                     trdispatchVars, pyq>>
  BY <1>0 DEF QueryFailed
<1>2. /\ CommandsInv' /\ ReportsInv' /\ McuTypeOK'
      /\ \A o \in Mcus : Quiet(o)' = Quiet(o)
  BY <1>1, SameLinks DEF trdispatchVars
<1>4. /\ m \in Mcus /\ k \in Nat /\ k \in 1..N
      /\ k # 1 => 1 \in 1..(k-1) /\ trsyncs[1] # m
  BY <1>0, TrsyncsBefore, TrsyncsProps DEF QInv
<1>5. QueryState(m) /\ \A o \in Mcus \ {m} : NoQuery(o)
  BY <1>0, <1>1, <1>4 DEF QInv, QueryInv
<1>6. /\ Quiet(m) /\ pyq[m] = <<>> /\ rspq[m] = <<>>
      /\ m \notin trigger_completion
  BY <1>1, <1>5 DEF QueryState
<1>7. TypeOK'
  <2>1. 1 \in 1..N
    BY TrsyncsProps
  <2>2. TrDispatchTypeOK'
    BY <1>1 DEF QInv, TypeOK, TrDispatchTypeOK, trdispatchVars
  <2>3. handler' \in [Mcus -> {"none", "trsync", "query"}]
    BY <1>1, <1>4 DEF QInv, TypeOK
  <2> QED BY <1>1, <1>2, <2>1, <2>2, <2>3 DEF QInv, TypeOK
<1>8. Stopped(m)'
  BY <1>1, <1>2, <1>4, <1>6 DEF Stopped, linkVars, QInv, TypeOK
<1>9. Stopped(Main)'
  <2>1. trsyncs[1] = Main
    BY TrsyncsProps
  <2>2. CASE k = 1
    BY <1>0, <1>8, <2>1, <2>2
  <2>3. CASE k # 1
    <3>1. Stopped(Main) /\ Main # m
      BY <1>1, <1>4, <2>1, <2>3 DEF QInv, StoppedInv
    <3> QED BY <1>1, <1>2, <3>1, McusAssumption DEF Stopped, linkVars, QInv, TypeOK
  <2> QED BY <2>2, <2>3
<1>10. StoppedInv'
  BY <1>1, <1>9 DEF StoppedInv
<1>11. EndstopInv'
  <2>1. endstop' # "homing" /\ cmdq'[Main] = <<>>
    BY <1>9 DEF Stopped, Quiet
  <2> QED BY <1>1, <2>1 DEF EndstopInv, NoOp
<1>12. ReadersInv'
  BY <1>1 DEF QInv, ReadersInv, trdispatchVars
<1>13. QueryInv'
  <2>1. NoQuery(m)
    BY <1>6 DEF Quiet, NoQuery, NoOp, NoAck
  <2>2. \A o \in Mcus : NoQuery(o)'
    BY <1>1, <1>5, <2>1 DEF NoQuery, linkVars
  <2> QED BY <1>1, <2>2 DEF QueryInv
<1> QED BY <1>2, <1>7, <1>10, <1>11, <1>12, <1>13 DEF QInv

(* A serial thread takes in a response. *)
LEMMA HostInputInv ==
  ASSUME QInv, NEW m \in Mcus, HostInput(m)
  PROVE  QInv'
<1> DEFINE r == Head(rspq[m])
           s == Tail(rspq[m])
           p == pyq[m]
<1>1. /\ rspq[m] # <<>> /\ dispatching[m] = <<>>
      /\ rspq' = [rspq EXCEPT ![m] = s]
      /\ pyq' = [pyq EXCEPT ![m] = Append(p, r)]
      /\ dispatching' = IF ~r.ack /\ m \in fastreaders
                        THEN [dispatching EXCEPT ![m] = <<r>>] ELSE dispatching
      /\ UNCHANGED <<now, mcuVars, cmdq, can_trigger, last_status_clock,
                     expire_clock, fastreaders, pyVars>>
  BY DEF HostInput
<1>2. /\ rspq[m] \in Seq(Response) /\ p \in Seq(Response)
      /\ dispatching \in [Mcus -> Seq(Response)]
      /\ rspq \in [Mcus -> Seq(Response)] /\ pyq \in [Mcus -> Seq(Response)]
  BY DEF QInv, TypeOK, McuTypeOK, TrDispatchTypeOK
<1>3. /\ r \in Response /\ s \in Seq(Response) /\ r = rspq[m][1] /\ 1 \in DOMAIN rspq[m]
      /\ \A i \in DOMAIN s : i + 1 \in DOMAIN rspq[m] /\ s[i] = rspq[m][i+1]
  BY <1>1, <1>2, TailProps
<1>4. /\ NoAck(rspq[m]) => NoAck(s) /\ ~r.ack
      /\ AckLast(rspq[m]) => (~r.ack => AckLast(s)) /\ (r.ack => s = <<>>)
  BY <1>1, <1>2, TailAcks
<1> HIDE DEF r, s
<1>5. /\ Append(p, r) \in Seq(Response)
      /\ NoAck(p) /\ ~r.ack => NoAck(Append(p, r))
      /\ NoAck(p) /\ r.ack => AckLast(Append(p, r))
  <2> HIDE DEF p
  <2>1. Append(p, r) = p \o <<r>>
    BY <1>2, <1>3, ConcatAcks
  <2>2. /\ p \o <<r>> \in Seq(Response)
        /\ NoAck(p) /\ ~r.ack => NoAck(p \o <<r>>)
        /\ NoAck(p) /\ r.ack => AckLast(p \o <<r>>)
    BY <1>2, <1>3, ConcatAcks
  <2> QED BY <2>1, <2>2
<1>6. /\ rspq' \in [Mcus -> Seq(Response)] /\ pyq' \in [Mcus -> Seq(Response)]
      /\ rspq'[m] = s /\ pyq'[m] = Append(p, r)
      /\ \A o \in Mcus \ {m} : rspq'[o] = rspq[o] /\ pyq'[o] = pyq[o]
  BY <1>1, <1>2, <1>3, <1>5
<1>7. /\ dispatching' \in [Mcus -> Seq(Response)]
      /\ dispatching'[m] = <<>> \/ (dispatching'[m] = <<r>> /\ m \in fastreaders)
      /\ \A o \in Mcus \ {m} : dispatching'[o] = dispatching[o]
  BY <1>1, <1>2, <1>3
<1>8. TypeOK'
  <2>1. McuTypeOK'
    BY <1>1, <1>6 DEF QInv, TypeOK, McuTypeOK, mcuVars
  <2>2. \A o \in Mcus : Len(dispatching'[o]) <= 1
    <3>1. Len(<<>>) <= 1 /\ Len(<<r>>) <= 1
      OBVIOUS
    <3> QED BY <1>7, <3>1 DEF QInv, TypeOK, TrDispatchTypeOK
  <2>3. TrDispatchTypeOK'
    BY <1>1, <1>7, <2>2 DEF QInv, TypeOK, TrDispatchTypeOK
  <2> QED BY <1>1, <1>6, <2>1, <2>3 DEF QInv, TypeOK, pyVars
<1>9. CommandsInv'
  BY <1>1 DEF QInv, CommandsInv, Armed, mcuVars
<1>10. EndstopInv'
  BY <1>1 DEF QInv, EndstopInv, mcuVars, pyVars
<1>11. ReadersInv'
  BY <1>1, <1>7 DEF QInv, ReadersInv, pyVars
<1>12. \A o \in Mcus : Quiet(o)' = Quiet(o)
  BY <1>1 DEF Quiet, mcuVars
<1>13. StoppedInv'
  <2>1. \A o \in Mcus : Stopped(o) => Stopped(o)'
    BY <1>1, <1>6, <1>12 DEF Stopped, pyVars
  <2>2. \A i \in 1..(k-1) : trsyncs[i] \in Mcus
    BY TrsyncsBefore DEF QInv
  <2>3. UNCHANGED <<pc, k, result>>
    BY <1>1 DEF pyVars
  <2> QED BY <2>1, <2>2, <2>3, McusAssumption DEF QInv, StoppedInv
<1>14. QueryInv'
  <2>1. UNCHANGED <<pc, k, acked, handler, trigger_completion, cmdq>>
    BY <1>1 DEF pyVars
  <2>2. ASSUME NEW o \in Mcus, NoQuery(o)
        PROVE  NoQuery(o)'
    BY <1>4, <1>5, <1>6, <2>1, <2>2 DEF NoQuery
  <2>3. ASSUME NEW o \in Mcus, QueryState(o)
        PROVE  QueryState(o)'
    <3>1. CASE o # m
      BY <1>6, <1>12, <2>1, <2>3, <3>1 DEF QueryState
    <3>2. CASE o = m
      <4>1. \/ ~acked /\ QueryLast(cmdq[m]) /\ NoAck(p) /\ NoAck(rspq[m])
            \/ ~acked /\ Quiet(m) /\ NoAck(p) /\ AckLast(rspq[m])
        BY <1>1, <2>3, <3>2 DEF QueryState
      <4>2. CASE ~acked /\ QueryLast(cmdq[m]) /\ NoAck(p) /\ NoAck(rspq[m])
        BY <1>4, <1>5, <1>6, <2>1, <2>3, <3>2, <4>2 DEF QueryState
      <4>3. CASE ~acked /\ Quiet(m) /\ NoAck(p) /\ AckLast(rspq[m])
        <5>1. CASE r.ack
          BY <1>4, <1>5, <1>6, <1>12, <2>1, <2>3, <3>2, <4>3, <5>1 DEF QueryState
        <5>2. CASE ~r.ack
          BY <1>4, <1>5, <1>6, <1>12, <2>1, <2>3, <3>2, <4>3, <5>2 DEF QueryState
        <5> QED BY <5>1, <5>2
      <4> QED BY <4>1, <4>2, <4>3
    <3> QED BY <3>1, <3>2
  <2> QED BY <2>1, <2>2, <2>3 DEF QInv, QueryInv
<1>15. ReportsInv'
  <2>1. ClocksOK(rspq[m]) => ClocksOK(s) /\ r.clock # Never
    BY <1>3 DEF ClocksOK
  <2>2. r.clock # Never => ClocksOK(<<r>>)
    BY DEF ClocksOK
  <2>3. ClocksOK(<<>>)
    BY DEF ClocksOK
  <2> QED BY <1>6, <1>7, <2>1, <2>2, <2>3 DEF QInv, ReportsInv
<1> QED BY <1>8, <1>9, <1>10, <1>11, <1>13, <1>14, <1>15 DEF QInv

-----------------------------------------------------------------------------
(* The steps of the host that send commands *)

(* The commands that the threads send on their own. *)
NotPlain == {"trsync_start", "stepper_stop_on_trigger", "endstop_home",
             "endstop_off", "trsync_query"}

(* Commands of other kinds do not disturb the order of a queue. *)
LEMMA PlainSent ==
  ASSUME QInv, NEW o \in Mcus, UNCHANGED mcuVars,
         NEW t \in Seq(Command), NoOp(t, NotPlain), cmdq'[o] = cmdq[o] \o t
  PROVE  /\ cmdq'[o] \in Seq(Command)
         /\ StopShape(cmdq'[o], Armed(o)')
         /\ signal'[o] => "can_trigger" \in flags'[o]
         /\ o = Main => HomeShape(cmdq'[o], endstop' = "homing")
         /\ o # Main => NoOp(cmdq'[o], {"endstop_home", "endstop_off"})
         /\ NoOp(cmdq[o], {"endstop_home"}) => NoOp(cmdq'[o], {"endstop_home"})
         /\ OffShape(cmdq[o], endstop = "homing") => OffShape(cmdq'[o], endstop' = "homing")
         /\ NoOp(cmdq[o], {"trsync_query"}) => NoOp(cmdq'[o], {"trsync_query"})
<1> DEFINE q == cmdq[o]
           h == endstop = "homing"
           a == Armed(o)
<1>1. /\ q \in Seq(Command) /\ StopShape(q, a) /\ a \in BOOLEAN
      /\ o = Main => HomeShape(q, h)
      /\ o # Main => NoOp(q, {"endstop_home", "endstop_off"})
  BY QueueOf
<1>2. /\ Armed(o)' = a /\ (endstop' = "homing") = h /\ h \in BOOLEAN
      /\ signal'[o] => "can_trigger" \in flags'[o]
  BY QueueOf DEF Armed, mcuVars
<1>3. /\ NoOp(t, {"endstop_home", "endstop_off"}) /\ NoOp(t, {"endstop_home"})
      /\ NoOp(t, {"trsync_query"}) /\ NoOp(t, {"trsync_start"})
      /\ StopShape(t, FALSE)
  BY DEF NoOp, NotPlain, StopShape
<1> HIDE DEF q, h, a
<1>4. q \o t \in Seq(Command)
  BY <1>1
<1>5. /\ StopShape(q \o t, a)
      /\ o = Main => HomeShape(q \o t, h)
      /\ OffShape(q, h) => OffShape(q \o t, h)
  BY <1>1, <1>2, <1>3, ConcatShapes
<1>6. /\ o # Main => NoOp(q \o t, {"endstop_home", "endstop_off"})
      /\ NoOp(q, {"endstop_home"}) => NoOp(q \o t, {"endstop_home"})
      /\ NoOp(q, {"trsync_query"}) => NoOp(q \o t, {"trsync_query"})
  BY <1>1, <1>3, ConcatShapes
<1>7. cmdq'[o] = q \o t
  BY DEF q
<1>8. OffShape(cmdq[o], endstop = "homing") => OffShape(q, h)
  BY DEF q, h
<1>9. StopShape(cmdq'[o], Armed(o)')
  BY <1>2, <1>5, <1>7
<1>10. /\ o = Main => HomeShape(cmdq'[o], endstop' = "homing")
       /\ OffShape(cmdq[o], endstop = "homing") => OffShape(cmdq'[o], endstop' = "homing")
  BY <1>2, <1>5, <1>7, <1>8
<1> QED BY <1>2, <1>4, <1>6, <1>7, <1>9, <1>10 DEF q

LEMMA NothingSent ==
  ASSUME NEW q \in Seq(Command)
  PROVE  q \o <<>> = q /\ <<>> \in Seq(Command) /\ NoOp(<<>>, NotPlain)
  BY DEF NoOp

(* The background thread handles a response. *)
LEMMA PyHandleInv ==
  ASSUME QInv, NEW m \in Mcus, PyHandle(m)
  PROVE  QInv'
<1> DEFINE r == Head(pyq[m])
           s == Tail(pyq[m])
           c == [op |-> "trsync_trigger", clock |-> 0, reason |-> "past_end_time",
                 round |-> round]
<1>1. /\ pyq[m] # <<>> /\ pyq' = [pyq EXCEPT ![m] = s]
      /\ acked' = (acked \/ r.ack)
      /\ last_params' = IF ~r.ack /\ handler[m] = "query"
                        THEN <<r.trigger_reason>> ELSE last_params
      /\ IF ~r.ack /\ handler[m] = "trsync" THEN PyHandleTrsyncState(m, r)
         ELSE UNCHANGED <<trigger_completion, completed, home_end, cmdq>>
      /\ UNCHANGED <<pc, k, round, home_clock, handler, retries_left, res, result,
                     now, mcuVars, rspq, trdispatchVars>>
  BY DEF PyHandle
<1>2. /\ pyq[m] \in Seq(Response) /\ cmdq \in [Mcus -> Seq(Command)]
      /\ pyq \in [Mcus -> Seq(Response)] /\ round \in Nat
      /\ home_end \in [Mcus -> Time] /\ completed \in BOOLEAN
      /\ trigger_completion \subseteq Mcus /\ acked \in BOOLEAN
      /\ last_params \in {NoParams} \union {<<x>> : x \in Reasons}
  BY HomingAssumption DEF QInv, TypeOK, McuTypeOK
<1>3. r \in Response /\ s \in Seq(Response)
  BY <1>1, <1>2, TailProps
<1>4. /\ NoAck(pyq[m]) => NoAck(s) /\ ~r.ack
      /\ AckLast(pyq[m]) => (~r.ack => AckLast(s)) /\ (r.ack => s = <<>>)
  BY <1>1, <1>2, TailAcks
<1>5. /\ c \in Command /\ <<c>> \in Seq(Command) /\ c.op = "trsync_trigger"
      /\ NoOp(<<c>>, NotPlain)
  <2>1. c \in Command /\ c.op = "trsync_trigger"
    BY <1>2 DEF Command, Reasons, Time
  <2> HIDE DEF c
  <2> QED BY <2>1 DEF NoOp, NotPlain
<1>6. r.ack \in BOOLEAN /\ r.trigger_reason \in Reasons
  BY <1>3 DEF Response
<1>7. /\ handler[m] = "trsync" \/ UNCHANGED <<trigger_completion, completed, home_end, cmdq>>
      /\ trigger_completion' \in {trigger_completion, trigger_completion \ {m}}
      /\ completed' \in BOOLEAN
      /\ \/ UNCHANGED <<home_end, cmdq>>
         \/ /\ home_end' = [home_end EXCEPT ![m] = Never]
            /\ cmdq' = [cmdq EXCEPT ![m] = @ \o <<c>>]
  <2> HIDE DEF r
  <2> QED BY <1>1, <1>2 DEF PyHandleTrsyncState, Send, Cmd
<1> HIDE DEF r, s, c
<1>8. /\ pyq' \in [Mcus -> Seq(Response)] /\ pyq'[m] = s
      /\ \A o \in Mcus \ {m} : pyq'[o] = pyq[o]
  BY <1>1, <1>2, <1>3
<1>9. /\ home_end' \in [Mcus -> Time] /\ cmdq' \in [Mcus -> Seq(Command)]
      /\ \A o \in Mcus : \E t \in Seq(Command) :
           /\ NoOp(t, NotPlain) /\ cmdq'[o] = cmdq[o] \o t
      /\ \A o \in Mcus \ {m} : cmdq'[o] = cmdq[o]
      /\ handler[m] # "trsync" => cmdq'[m] = cmdq[m]
  <2>1. CASE UNCHANGED <<home_end, cmdq>>
    BY <1>2, <2>1, NothingSent
  <2>2. CASE /\ handler[m] = "trsync"
             /\ home_end' = [home_end EXCEPT ![m] = Never]
             /\ cmdq' = [cmdq EXCEPT ![m] = @ \o <<c>>]
    <3>1. cmdq[m] \o <<c>> \in Seq(Command)
      BY <1>2, <1>5
    <3>2. /\ cmdq' \in [Mcus -> Seq(Command)] /\ cmdq'[m] = cmdq[m] \o <<c>>
          /\ \A o \in Mcus \ {m} : cmdq'[o] = cmdq[o]
      BY <1>2, <2>2, <3>1
    <3>3. home_end' \in [Mcus -> Time]
      BY <1>2, <2>2 DEF Time
    <3>4. \A o \in Mcus \ {m} : cmdq'[o] = cmdq[o] \o <<>>
      BY <1>2, <3>2, NothingSent
    <3>5. <<>> \in Seq(Command) /\ NoOp(<<>>, NotPlain)
      BY <1>2, NothingSent
    <3>6. ASSUME NEW o \in Mcus
          PROVE  \E t \in Seq(Command) : NoOp(t, NotPlain) /\ cmdq'[o] = cmdq[o] \o t
      BY <1>5, <3>2, <3>4, <3>5
    <3> QED BY <2>2, <3>2, <3>3, <3>6
  <2> QED BY <1>7, <2>1, <2>2
<1>10. \A o \in Mcus :
         /\ StopShape(cmdq'[o], Armed(o)')
         /\ signal'[o] => "can_trigger" \in flags'[o]
         /\ o = Main => HomeShape(cmdq'[o], endstop' = "homing")
         /\ o # Main => NoOp(cmdq'[o], {"endstop_home", "endstop_off"})
         /\ NoOp(cmdq[o], {"endstop_home"}) => NoOp(cmdq'[o], {"endstop_home"})
         /\ OffShape(cmdq[o], endstop = "homing") => OffShape(cmdq'[o], endstop' = "homing")
         /\ NoOp(cmdq[o], {"trsync_query"}) => NoOp(cmdq'[o], {"trsync_query"})
  BY <1>1, <1>9, PlainSent
<1>11. TypeOK'
  <2>1. McuTypeOK'
    BY <1>1, <1>9 DEF QInv, TypeOK, McuTypeOK, mcuVars
  <2>2. TrDispatchTypeOK'
    BY <1>1 DEF QInv, TypeOK, TrDispatchTypeOK, trdispatchVars
  <2>3. acked' \in BOOLEAN /\ last_params' \in {NoParams} \union {<<x>> : x \in Reasons}
    BY <1>1, <1>2, <1>6
  <2>4. trigger_completion' \subseteq Mcus
    BY <1>2, <1>7
  <2> QED BY <1>1, <1>7, <1>8, <1>9, <2>1, <2>2, <2>3, <2>4 DEF QInv, TypeOK
<1>12. CommandsInv'
  BY <1>10 DEF CommandsInv
<1>13. EndstopInv'
  <2>1. UNCHANGED <<pc, endstop>>
    BY <1>1 DEF mcuVars
  <2> QED BY <1>10, <2>1, McusAssumption DEF QInv, EndstopInv
<1>14. ReadersInv'
  BY <1>1 DEF QInv, ReadersInv, trdispatchVars
<1>15. \A o \in Mcus : o # m \/ handler[m] # "trsync" => Quiet(o)' = Quiet(o)
  BY <1>1, <1>9 DEF Quiet, mcuVars
<1>16. StoppedInv'
  <2>1. \A o \in Mcus : Stopped(o) => Stopped(o)'
    BY <1>1, <1>7, <1>8, <1>15 DEF Stopped
  <2>2. \A i \in 1..(k-1) : trsyncs[i] \in Mcus
    BY TrsyncsBefore DEF QInv
  <2> QED BY <1>1, <2>1, <2>2, McusAssumption DEF QInv, StoppedInv
<1>17. QueryInv'
  <2>1. ASSUME NEW o \in Mcus, NoQuery(o)
        PROVE  NoQuery(o)'
    BY <1>1, <1>4, <1>8, <1>10, <2>1 DEF NoQuery
  <2>2. ASSUME NEW o \in Mcus, pc = "ack", o = trsyncs[k]
        PROVE  QueryState(o)'
    <3>1. QueryState(o)
      BY <2>2 DEF QInv, QueryInv
    <3>2. CASE o # m
      <4>1. ~r.ack
        <5>1. NoQuery(m)
          BY <2>2, <3>2 DEF QInv, QueryInv
        <5> QED BY <1>4, <5>1 DEF NoQuery
      <4>2. acked' = acked
        BY <1>1, <1>2, <4>1
      <4> QED BY SMTT(40), <1>1, <1>7, <1>8, <1>9, <1>15, <3>1, <3>2, <4>2 DEF QueryState
    <3>3. CASE o = m
      <4>1. handler[m] # "trsync" /\ UNCHANGED <<trigger_completion, cmdq, handler, rspq>>
        BY <1>1, <1>7, <3>1, <3>3 DEF QueryState
      <4>2. \/ ~acked /\ QueryLast(cmdq[m]) /\ NoAck(pyq[m]) /\ NoAck(rspq[m])
            \/ ~acked /\ Quiet(m) /\ NoAck(pyq[m]) /\ AckLast(rspq[m])
            \/ ~acked /\ Quiet(m) /\ AckLast(pyq[m]) /\ rspq[m] = <<>>
        BY <1>1, <3>1, <3>3 DEF QueryState
      <4>3. CASE ~acked /\ QueryLast(cmdq[m]) /\ NoAck(pyq[m]) /\ NoAck(rspq[m])
        BY <1>1, <1>4, <1>8, <3>1, <3>3, <4>1, <4>3 DEF QueryState
      <4>4. CASE ~acked /\ Quiet(m) /\ NoAck(pyq[m]) /\ AckLast(rspq[m])
        BY <1>1, <1>4, <1>8, <1>15, <3>1, <3>3, <4>1, <4>4 DEF QueryState
      <4>5. CASE ~acked /\ Quiet(m) /\ AckLast(pyq[m]) /\ rspq[m] = <<>>
        BY <1>1, <1>4, <1>8, <1>15, <3>1, <3>3, <4>1, <4>5 DEF QueryState
      <4> QED BY <4>2, <4>3, <4>4, <4>5
    <3> QED BY <3>2, <3>3
  <2> QED BY <1>1, <2>1, <2>2 DEF QInv, QueryInv
<1>18. ReportsInv'
  BY <1>1 DEF QInv, ReportsInv, trdispatchVars
<1> QED BY <1>11, <1>12, <1>13, <1>14, <1>16, <1>17, <1>18 DEF QInv

-----------------------------------------------------------------------------
(* The callback of the serial threads *)

(* A set of natural numbers that is not empty has a least element: the
   intervals 0..n are finite, so that strict inclusion is well-founded. *)
LEMMA LeastNat ==
  ASSUME NEW T \in SUBSET Nat, T # {}
  PROVE  \E x \in T : \A y \in T : x <= y
<1> DEFINE R == StrictSubsetOrdering(Nat)
           U == {0..n : n \in T}
<1>1. \A n \in Nat : 0..n \in FiniteSubsetsOf(Nat)
  BY FS_Interval DEF FiniteSubsetsOf
<1>2. \A m, n \in Nat : m < n => <<0..m, 0..n>> \in R
  BY SMT DEF StrictSubsetOrdering
<1>3. IsWellFoundedOn(R, FiniteSubsetsOf(Nat))
  BY FS_StrictSubsetOrderingWellFounded
<1>4. U \subseteq FiniteSubsetsOf(Nat) /\ U # {}
  BY <1>1
<1> HIDE DEF R
<1>5. \E x \in U : \A y \in U : ~ (<<y, x>> \in R)
  <2> HIDE DEF U
  <2> QED BY <1>3, <1>4, WFMin
<1>6. PICK x \in T : \A y \in T : ~ (<<0..y, 0..x>> \in R)
  BY <1>5
<1>7. \A y \in T : ~ (y < x)
  BY <1>2, <1>6
<1> QED BY <1>7

(* Every micro-controller's timeout counts from somebody's reports. *)
LEMMA OthersExist ==
  ASSUME NEW m \in Mcus
  PROVE  Others(m) \subseteq Mcus /\ Others(m) # {}
  BY DEF Others

(* StatusTime, the oldest report of the others, is well defined. *)
LEMMA StatusTimeIsOldest ==
  ASSUME NEW status \in [Mcus -> Nat], NEW m \in Mcus
  PROVE  /\ StatusTime(status, m) \in Nat
         /\ \A o \in Others(m) : StatusTime(status, m) <= status[o]
         /\ \E o \in Others(m) : StatusTime(status, m) = status[o]
<1> DEFINE T == {status[o] : o \in Others(m)}
<1>1. T \in SUBSET Nat /\ T # {}
  BY OthersExist
<1>2. PICK x \in T : \A y \in T : x <= y
  <2> HIDE DEF T
  <2> QED BY <1>1, LeastNat
<1>3. /\ StatusTime(status, m) \in T
      /\ \A o \in Others(m) : StatusTime(status, m) <= status[o]
  BY <1>2 DEF StatusTime
<1> QED BY <1>1, <1>3


(* trdispatch passes a trigger on to all, or extends timeouts: it sends each
   micro-controller one command at most. *)
LEMMA HandleStateEffect ==
  ASSUME TypeOK, NEW m \in Mcus, NEW r \in Response, r.clock # Never,
         handle_trsync_state(r, m)
  PROVE  /\ can_trigger' \in BOOLEAN
         /\ last_status_clock' \in [Mcus -> Nat] /\ expire_clock' \in [Mcus -> Nat]
         /\ cmdq' \in [Mcus -> Seq(Command)]
         /\ \A o \in Mcus :
              \/ cmdq'[o] = cmdq[o]
              \/ \E c \in Command : /\ c.op \in {"trsync_trigger", "trsync_set_timeout"}
                                    /\ c.round = r.round
                                    /\ cmdq'[o] = cmdq[o] \o <<c>>
<1> DEFINE status == [last_status_clock EXCEPT ![m] = r.clock]
           Expire(o) == StatusTime(status, o) + ExpireTicks
           extended == {o \in Mcus : Extends(Expire(o), expire_clock[o])}
           Msg(op, clock) == [op |-> op, clock |-> clock, round |-> r.round,
                              reason |-> IF op = "trsync_trigger"
                                         THEN "host_request" ELSE "none"]
<1>1. /\ r.round \in Nat /\ r.clock \in Nat
      /\ last_status_clock \in [Mcus -> Nat] /\ expire_clock \in [Mcus -> Nat]
      /\ can_trigger \in BOOLEAN /\ cmdq \in [Mcus -> Seq(Command)]
      /\ ExpireTicks \in Nat
  BY ExpireAssumption DEF TypeOK, McuTypeOK, TrDispatchTypeOK, Response, Time, Never
<1>2. status \in [Mcus -> Nat]
  BY <1>1
<1>3. \A o \in Mcus : Expire(o) \in Nat
  <2> HIDE DEF status
  <2>1. \A o \in Mcus : StatusTime(status, o) \in Nat
    BY <1>2, StatusTimeIsOldest
  <2>2. \A x \in Nat : x + ExpireTicks \in Nat
    BY <1>1
  <2> QED BY <2>1, <2>2
<1>4. \A q \in Seq(Command), c \in Command :
         Append(q, c) = q \o <<c>> /\ Append(q, c) \in Seq(Command)
  OBVIOUS
<1>5. CASE UNCHANGED <<can_trigger, last_status_clock, expire_clock, cmdq>>
  BY <1>1, <1>5
<1>6. CASE /\ can_trigger' = FALSE
           /\ cmdq' = [o \in Mcus |-> Append(cmdq[o], Msg("trsync_trigger", 0))]
           /\ UNCHANGED <<last_status_clock, expire_clock>>
  <2> DEFINE c == Msg("trsync_trigger", 0)
  <2>1. c \in Command /\ c.op = "trsync_trigger" /\ c.round = r.round
    BY <1>1 DEF Command, Reasons, Time
  <2>2. cmdq' = [o \in Mcus |-> Append(cmdq[o], c)]
    BY <1>6
  <2> HIDE DEF c, Msg
  <2>3. \A o \in Mcus : cmdq'[o] = cmdq[o] \o <<c>> /\ Append(cmdq[o], c) \in Seq(Command)
    BY <1>1, <1>4, <2>1, <2>2
  <2>4. cmdq' \in [Mcus -> Seq(Command)]
    BY <2>2, <2>3
  <2> QED BY <1>1, <1>6, <2>1, <2>3, <2>4
<1>7. CASE /\ last_status_clock' = status
           /\ expire_clock' = [o \in Mcus |-> IF o \in extended THEN Expire(o)
                                              ELSE expire_clock[o]]
           /\ cmdq' = [o \in Mcus |->
                         IF o \in extended
                         THEN Append(cmdq[o], Msg("trsync_set_timeout", Expire(o)))
                         ELSE cmdq[o]]
           /\ can_trigger' = can_trigger
  <2> DEFINE e == [o \in Mcus |-> Msg("trsync_set_timeout", Expire(o))]
  <2>1. \A o \in Mcus : e[o] \in Command /\ e[o].op = "trsync_set_timeout"
                        /\ e[o].round = r.round
    <3> HIDE DEF Expire
    <3> QED BY <1>1, <1>3 DEF Command, Reasons, Time
  <2>2. cmdq' = [o \in Mcus |-> IF o \in extended THEN Append(cmdq[o], e[o]) ELSE cmdq[o]]
    BY <1>7
  <2>3. expire_clock' \in [Mcus -> Nat]
    <3> HIDE DEF Expire, extended
    <3> QED BY <1>1, <1>3, <1>7
  <2>4. last_status_clock' \in [Mcus -> Nat] /\ can_trigger' \in BOOLEAN
    BY <1>1, <1>2, <1>7
  <2> HIDE DEF e, Msg, extended, Expire, status
  <2>5. cmdq' \in [Mcus -> Seq(Command)]
    BY <1>1, <1>4, <2>1, <2>2
  <2>6. \A o \in Mcus : cmdq'[o] = cmdq[o] \/ cmdq'[o] = cmdq[o] \o <<e[o]>>
    BY <1>1, <1>4, <2>1, <2>2
  <2> QED BY <2>1, <2>3, <2>4, <2>5, <2>6
<1> QED BY <1>5, <1>6, <1>7 DEF handle_trsync_state

LEMMA FastReadInv ==
  ASSUME QInv, NEW m \in Mcus, FastRead(m), UNCHANGED <<pyVars, pyq>>
  PROVE  QInv'
<1> DEFINE r == dispatching[m][1]
<1>1. /\ dispatching[m] # <<>>
      /\ handle_trsync_state(r, m)
      /\ dispatching' = [dispatching EXCEPT ![m] = <<>>]
      /\ UNCHANGED <<mcuVars, now, rspq, fastreaders, pyVars, pyq>>
  BY DEF FastRead
<1>2. /\ r \in Response /\ 1 \in DOMAIN dispatching[m]
      /\ dispatching \in [Mcus -> Seq(Response)]
  <2>1. dispatching \in [Mcus -> Seq(Response)]
    BY DEF QInv, TypeOK, TrDispatchTypeOK
  <2> QED BY <1>1, <2>1, TailProps
<1>3. r.clock # Never
  BY <1>2 DEF QInv, ReportsInv, ClocksOK
<1> HIDE DEF r
<1>4. /\ can_trigger' \in BOOLEAN
      /\ last_status_clock' \in [Mcus -> Nat] /\ expire_clock' \in [Mcus -> Nat]
      /\ cmdq' \in [Mcus -> Seq(Command)]
      /\ \A o \in Mcus :
           \/ cmdq'[o] = cmdq[o]
           \/ \E c \in Command : /\ c.op \in {"trsync_trigger", "trsync_set_timeout"}
                                 /\ cmdq'[o] = cmdq[o] \o <<c>>
  BY <1>1, <1>2, <1>3, HandleStateEffect DEF QInv
<1>5. \A o \in Mcus : \E t \in Seq(Command) : NoOp(t, NotPlain) /\ cmdq'[o] = cmdq[o] \o t
  <2> SUFFICES ASSUME NEW o \in Mcus
               PROVE  \E t \in Seq(Command) : NoOp(t, NotPlain) /\ cmdq'[o] = cmdq[o] \o t
    OBVIOUS
  <2>1. CASE cmdq'[o] = cmdq[o]
    BY <2>1, NothingSent, QueueOf
  <2>2. ASSUME NEW c \in Command, c.op \in {"trsync_trigger", "trsync_set_timeout"},
               cmdq'[o] = cmdq[o] \o <<c>>
        PROVE  \E t \in Seq(Command) : NoOp(t, NotPlain) /\ cmdq'[o] = cmdq[o] \o t
    <3>1. <<c>> \in Seq(Command) /\ NoOp(<<c>>, NotPlain)
      BY <2>2 DEF NoOp, NotPlain
    <3> QED BY <2>2, <3>1
  <2> QED BY <1>4, <2>1, <2>2
<1>6. \A o \in Mcus :
         /\ StopShape(cmdq'[o], Armed(o)')
         /\ signal'[o] => "can_trigger" \in flags'[o]
         /\ o = Main => HomeShape(cmdq'[o], endstop' = "homing")
         /\ o # Main => NoOp(cmdq'[o], {"endstop_home", "endstop_off"})
         /\ NoOp(cmdq[o], {"endstop_home"}) => NoOp(cmdq'[o], {"endstop_home"})
         /\ OffShape(cmdq[o], endstop = "homing") => OffShape(cmdq'[o], endstop' = "homing")
         /\ NoOp(cmdq[o], {"trsync_query"}) => NoOp(cmdq'[o], {"trsync_query"})
  BY <1>1, <1>5, PlainSent
<1>7. UNCHANGED <<pc, k, endstop>>
  BY <1>1 DEF mcuVars, pyVars
<1>8. /\ dispatching' \in [Mcus -> Seq(Response)] /\ dispatching'[m] = <<>>
      /\ \A o \in Mcus \ {m} : dispatching'[o] = dispatching[o]
  BY <1>1, <1>2
<1>9. TypeOK'
  <2>1. McuTypeOK'
    BY <1>1, <1>4 DEF QInv, TypeOK, McuTypeOK, mcuVars
  <2>2. \A o \in Mcus : Len(dispatching'[o]) <= 1
    <3>1. Len(<<>>) <= 1
      OBVIOUS
    <3> QED BY <1>8, <3>1 DEF QInv, TypeOK, TrDispatchTypeOK
  <2>3. TrDispatchTypeOK'
    BY <1>1, <1>4, <1>8, <2>2 DEF QInv, TypeOK, TrDispatchTypeOK
  <2> QED BY <1>1, <2>1, <2>3 DEF QInv, TypeOK, pyVars
<1>10. CommandsInv'
  BY <1>6 DEF CommandsInv
<1>11. EndstopInv'
  BY <1>6, <1>7, McusAssumption DEF QInv, EndstopInv
<1>12. ReadersInv'
  BY <1>1, <1>7, <1>8 DEF QInv, ReadersInv
<1>13. pc \notin {"stop", "ack", "idle", "start", "dispatch"}
  BY <1>1 DEF QInv, ReadersInv
<1>14. StoppedInv'
  BY <1>7, <1>13 DEF QInv, StoppedInv
<1>15. QueryInv'
  <2>1. \A o \in Mcus : NoQuery(o)
    BY <1>13 DEF QInv, QueryInv
  <2>2. \A o \in Mcus : NoQuery(o)'
    BY <1>1, <1>6, <2>1 DEF NoQuery
  <2> QED BY <1>7, <1>13, <2>2 DEF QueryInv
<1>16. ReportsInv'
  <2>1. ClocksOK(<<>>)
    BY DEF ClocksOK
  <2> QED BY <1>1, <1>8, <2>1 DEF QInv, ReportsInv
<1> QED BY <1>9, <1>10, <1>11, <1>12, <1>14, <1>15, <1>16 DEF QInv

-----------------------------------------------------------------------------
(* The reactor's commands *)

(* One command, or a list of them, for micro-controller m. *)
LEMMA SendEffect ==
  ASSUME McuTypeOK, NEW m \in Mcus, NEW t \in Seq(Command), Send(m, t)
  PROVE  /\ cmdq' \in [Mcus -> Seq(Command)]
         /\ cmdq'[m] = cmdq[m] \o t /\ cmdq[m] \in Seq(Command)
         /\ \A o \in Mcus \ {m} : cmdq'[o] = cmdq[o]
<1>1. cmdq \in [Mcus -> Seq(Command)] /\ cmdq' = [cmdq EXCEPT ![m] = @ \o t]
  BY DEF McuTypeOK, Send
<1>2. cmdq[m] \o t \in Seq(Command)
  BY <1>1
<1> QED BY <1>1, <1>2

LEMMA CmdType ==
  ASSUME TypeOK, NEW clock \in Time, NEW reason \in Reasons,
         NEW op \in {"trsync_start", "stepper_stop_on_trigger",
                     "trsync_set_timeout", "trsync_trigger", "trsync_query",
                     "endstop_home", "endstop_off"}
  PROVE  /\ Cmd(op, clock, reason) \in Command /\ Cmd(op, clock, reason).op = op
         /\ Cmd(op, clock, reason).round = round
         /\ Cmd(op, clock, reason).reason = reason
         /\ Cmd(op, clock, reason).clock = clock
  BY HomingAssumption DEF TypeOK, Cmd, Command

(* What a command that the reactor sends to m must satisfy. *)
LEMMA ReactorSends ==
  ASSUME QInv, NEW m \in Mcus, NEW t \in Seq(Command), Send(m, t),
         UNCHANGED <<mcuVars, rspq, now, dispatching>>,
         StopShape(t, FALSE),
         m = Main => HomeShape(cmdq'[m], endstop = "homing"),
         m # Main => NoOp(t, {"endstop_home", "endstop_off"})
  PROVE  CommandsInv' /\ ReportsInv' /\ McuTypeOK'
         /\ cmdq'[m] = cmdq[m] \o t /\ cmdq[m] \in Seq(Command)
         /\ \A o \in Mcus \ {m} : cmdq'[o] = cmdq[o] /\ Quiet(o)' = Quiet(o)
<1>1. /\ cmdq' \in [Mcus -> Seq(Command)]
      /\ cmdq'[m] = cmdq[m] \o t /\ cmdq[m] \in Seq(Command)
      /\ \A o \in Mcus \ {m} : cmdq'[o] = cmdq[o]
  BY SendEffect DEF QInv, TypeOK
<1>2. McuTypeOK'
  BY <1>1 DEF QInv, TypeOK, McuTypeOK, mcuVars
<1>3. ReportsInv'
  BY DEF QInv, ReportsInv
<1>4. \A o \in Mcus \ {m} : Quiet(o)' = Quiet(o)
  BY <1>1 DEF Quiet, mcuVars
<1>5. CommandsInv'
  <2> SUFFICES ASSUME NEW o \in Mcus
               PROVE  /\ StopShape(cmdq'[o], Armed(o)')
                      /\ signal'[o] => "can_trigger" \in flags'[o]
                      /\ o = Main => HomeShape(cmdq'[o], endstop' = "homing")
                      /\ o # Main => NoOp(cmdq'[o], {"endstop_home", "endstop_off"})
    BY DEF CommandsInv
  <2>1. /\ StopShape(cmdq[o], Armed(o)) /\ Armed(o) \in BOOLEAN
        /\ signal[o] => "can_trigger" \in flags[o]
        /\ o = Main => HomeShape(cmdq[o], endstop = "homing")
        /\ o # Main => NoOp(cmdq[o], {"endstop_home", "endstop_off"})
    BY QueueOf
  <2>2. Armed(o)' = Armed(o) /\ UNCHANGED <<endstop, signal, flags>>
    BY DEF Armed, mcuVars
  <2>3. CASE o # m
    BY <1>1, <2>1, <2>2, <2>3
  <2>4. CASE o = m
    <3>1. StopShape(cmdq[m] \o t, Armed(m))
      BY <1>1, <2>1, <2>4, ConcatShapes
    <3>2. m # Main => NoOp(cmdq[m] \o t, {"endstop_home", "endstop_off"})
      BY <1>1, <2>1, <2>4, ConcatShapes
    <3> QED BY <1>1, <2>1, <2>2, <2>4, <3>1, <3>2
  <2> QED BY <2>3, <2>4
<1> QED BY <1>1, <1>2, <1>3, <1>4, <1>5

LEMMA ConcatTwo ==
  ASSUME NEW s \in Seq(Command), NEW c \in Command
  PROVE  /\ s \o <<c>> \in Seq(Command)
         /\ DOMAIN s = 1..Len(s) /\ Len(s) \in Nat
         /\ DOMAIN (s \o <<c>>) = 1..(Len(s) + 1) /\ Len(s \o <<c>>) = Len(s) + 1
         /\ \A i \in DOMAIN s : (s \o <<c>>)[i] = s[i]
         /\ (s \o <<c>>)[Len(s) + 1] = c
<1>1. s \o <<c>> = Append(s, c)
  OBVIOUS
<1>2. /\ Append(s, c) \in Seq(Command)
      /\ DOMAIN s = 1..Len(s) /\ Len(s) \in Nat
      /\ DOMAIN Append(s, c) = 1..(Len(s) + 1) /\ Len(Append(s, c)) = Len(s) + 1
      /\ \A i \in DOMAIN s : Append(s, c)[i] = s[i]
      /\ Append(s, c)[Len(s) + 1] = c
  OBVIOUS
<1> QED BY <1>1, <1>2

LEMMA StartTrsyncInv ==
  ASSUME QInv, StartTrsync
  PROVE  QInv'
<1>0. PICK m \in Mcus : m = trsyncs[k]
  BY TrsyncsBefore DEF QInv
<1> DEFINE report_clock == home_clock
                      + (2 * ReportTicks * (k - 1) + N) \div (2 * N)
           a == Cmd("trsync_start", report_clock, "none")
           b == Cmd("stepper_stop_on_trigger", 0, "none")
           c == Cmd("trsync_set_timeout", home_clock + ExpireTicks, "none")
           t == <<a>> \o (IF m \in Steppers THEN <<b>> ELSE <<>>) \o <<c>>
<1>1. /\ pc = "start"
      /\ trigger_completion' = trigger_completion \union {m}
      /\ home_end' = [home_end EXCEPT ![m] = Never]
      /\ last_status_clock' = [last_status_clock EXCEPT ![m] = home_clock]
      /\ expire_clock' = [expire_clock EXCEPT ![m] = home_clock + ExpireTicks]
      /\ handler' = [handler EXCEPT ![m] = "trsync"]
      /\ Send(m, t)
      /\ NextTrsync("start", "dispatch")
      /\ UNCHANGED <<round, home_clock, completed, acked, last_params,
                     retries_left, res, result, now, mcuVars, rspq, pyq,
                     can_trigger, fastreaders, dispatching>>
  BY <1>0 DEF StartTrsync, trdispatch_mcu_setup
<1>2. home_clock \in Nat /\ ExpireTicks \in Nat /\ report_clock \in Time
      /\ home_clock + ExpireTicks \in Time /\ 0 \in Time /\ "none" \in Reasons
  <2>1. home_clock \in Nat /\ ExpireTicks \in Nat /\ k \in Nat /\ k >= 1
        /\ N \in Nat /\ N >= 1 /\ ReportTicks \in Nat
    BY TicksAssumption, ExpireAssumption, TrsyncsProps DEF QInv, TypeOK
  <2>2. ReportTicks * (k - 1) \in Nat
    BY <2>1
  <2>3. \A x, y \in Nat : y >= 1 => (2 * x + y) \div (2 * y) \in Nat
    OBVIOUS
  <2>4. (2 * (ReportTicks * (k - 1)) + N) \div (2 * N) \in Nat
    BY <2>1, <2>2, <2>3
  <2>5. 2 * ReportTicks * (k - 1) = 2 * (ReportTicks * (k - 1))
    BY <2>1
  <2>6. report_clock \in Nat
    BY <2>1, <2>4, <2>5
  <2> HIDE DEF report_clock
  <2> QED BY <2>1, <2>6 DEF Time, Reasons
<1> HIDE DEF report_clock
<1>3. /\ a \in Command /\ a.op = "trsync_start"
      /\ b \in Command /\ b.op = "stepper_stop_on_trigger"
      /\ c \in Command /\ c.op = "trsync_set_timeout"
  BY <1>2, CmdType DEF QInv
<1> HIDE DEF a, b, c
<1>4. /\ t \in Seq(Command)
      /\ NoOp(t, {"endstop_home", "endstop_off"}) /\ NoOp(t, {"endstop_home"})
      /\ NoOp(t, {"trsync_query"})
      /\ StopShape(t, FALSE)
  <2> DEFINE s == <<a>> \o (IF m \in Steppers THEN <<b>> ELSE <<>>)
             n == Len(s)
  <2>1. s \in Seq(Command) /\ n \in {1, 2} /\ s[1] = a /\ (n = 2 => s[2] = b)
    <3>1. CASE m \in Steppers
      <4>1. s = <<a>> \o <<b>>
        BY <3>1
      <4>2. <<a>> \in Seq(Command) /\ Len(<<a>>) = 1 /\ 1 \in DOMAIN <<a>> /\ <<a>>[1] = a
        BY <1>3
      <4>3. /\ <<a>> \o <<b>> \in Seq(Command)
            /\ Len(<<a>> \o <<b>>) = 2
            /\ (<<a>> \o <<b>>)[1] = a /\ (<<a>> \o <<b>>)[2] = b
        BY <1>3, <4>2, ConcatTwo
      <4> QED BY <4>1, <4>3
    <3>2. CASE m \notin Steppers
      <4>1. s = <<a>> \o <<>>
        BY <3>2
      <4>2. s = <<a>>
        BY <1>3, <4>1
      <4> HIDE DEF s
      <4> QED BY <1>3, <4>2
    <3> QED BY <3>1, <3>2
  <2>2. t = s \o <<c>>
    BY DEF t
  <2> HIDE DEF s, n, t
  <2>3. /\ t \in Seq(Command)
        /\ DOMAIN s = 1..n /\ DOMAIN t = 1..(n + 1)
        /\ \A i \in DOMAIN s : t[i] = s[i]
        /\ t[n + 1] = c
    BY <1>3, <2>1, <2>2, ConcatTwo DEF n
  <2>4. \A i \in DOMAIN t : \/ i = 1 /\ t[i] = a
                            \/ i = 2 /\ t[i] = b /\ t[i-1] = a
                            \/ t[i] = c
    BY <2>1, <2>3
  <2>5. NoOp(t, {"endstop_home", "endstop_off"}) /\ NoOp(t, {"endstop_home"})
        /\ NoOp(t, {"trsync_query"})
    BY <1>3, <2>4 DEF NoOp
  <2>6. StopShape(t, FALSE)
    BY <1>3, <2>4 DEF StopShape
  <2> QED BY <2>3, <2>5, <2>6
<1> HIDE DEF t
<1>5. endstop # "homing" /\ NoOp(cmdq[Main], {"endstop_home"})
  BY <1>1 DEF QInv, EndstopInv
<1>6. m = Main => HomeShape(cmdq'[m], endstop = "homing")
  <2>1. /\ cmdq'[m] = cmdq[m] \o t /\ cmdq[m] \in Seq(Command)
    BY <1>1, <1>4, SendEffect DEF QInv, TypeOK
  <2>2. m = Main => HomeShape(cmdq[m] \o t, FALSE)
    BY <1>4, <1>5, <2>1, ConcatShapes
  <2> QED BY <1>5, <2>1, <2>2
<1>7. CommandsInv' /\ ReportsInv' /\ McuTypeOK'
      /\ cmdq'[m] = cmdq[m] \o t /\ cmdq[m] \in Seq(Command)
      /\ \A o \in Mcus \ {m} : cmdq'[o] = cmdq[o] /\ Quiet(o)' = Quiet(o)
  BY <1>1, <1>4, <1>6, ReactorSends
<1>8. /\ k' \in 1..N
      /\ pc' = "start" \/ (pc' = "dispatch" /\ k' = 1)
  BY <1>1, NextTrsyncType DEF QInv
<1>9. TypeOK'
  <2>1. TrDispatchTypeOK'
    BY <1>1, <1>2, ExpireAssumption DEF QInv, TypeOK, TrDispatchTypeOK
  <2>2. /\ home_end' \in [Mcus -> Time]
        /\ handler' \in [Mcus -> {"none", "trsync", "query"}]
        /\ trigger_completion' \subseteq Mcus
    BY <1>1 DEF QInv, TypeOK, Time
  <2> QED BY <1>1, <1>7, <1>8, <2>1, <2>2 DEF QInv, TypeOK
<1>10. \A o \in Mcus : /\ NoOp(cmdq[o], {"endstop_home"}) => NoOp(cmdq'[o], {"endstop_home"})
                       /\ NoOp(cmdq[o], {"trsync_query"}) => NoOp(cmdq'[o], {"trsync_query"})
  <2>1. /\ NoOp(cmdq[m], {"endstop_home"}) => NoOp(cmdq'[m], {"endstop_home"})
        /\ NoOp(cmdq[m], {"trsync_query"}) => NoOp(cmdq'[m], {"trsync_query"})
    BY <1>4, <1>7, ConcatShapes
  <2> QED BY <1>7, <2>1
<1>11. EndstopInv'
  BY <1>1, <1>5, <1>8, <1>10, McusAssumption DEF EndstopInv, mcuVars
<1>12. ReadersInv'
  BY <1>1, <1>8 DEF QInv, ReadersInv
<1>13. StoppedInv'
  BY <1>1, <1>8 DEF StoppedInv
<1>14. QueryInv'
  <2>1. \A o \in Mcus : NoQuery(o)'
    BY <1>1, <1>10 DEF QInv, QueryInv, NoQuery
  <2> QED BY <1>8, <2>1 DEF QueryInv
<1> QED BY <1>7, <1>9, <1>11, <1>12, <1>13, <1>14 DEF QInv

LEMMA SendEndstopHomeInv ==
  ASSUME QInv, SendEndstopHome
  PROVE  QInv'
<1> DEFINE c == Cmd("endstop_home", home_clock, "none")
<1>1. /\ pc = "endstop" /\ pc' = "moving" /\ Send(Main, <<c>>)
      /\ UNCHANGED <<k, round, home_clock, handler, trigger_completion, completed,
                     home_end, acked, last_params, retries_left, res, result, now,
                     mcuVars, rspq, trdispatchVars, pyq>>
  BY DEF SendEndstopHome
<1>2. /\ c \in Command /\ c.op = "endstop_home"
  <2>1. home_clock \in Time /\ "none" \in Reasons
    BY DEF QInv, TypeOK, Time, Reasons
  <2> QED BY <2>1, CmdType DEF QInv
<1> HIDE DEF c
<1>3. /\ <<c>> \in Seq(Command) /\ StopShape(<<c>>, FALSE)
      /\ NoOp(<<c>>, {"trsync_start"}) /\ NoOp(<<c>>, {"trsync_query"})
  BY <1>2 DEF NoOp, StopShape
<1>4. HomeShape(cmdq'[Main], endstop = "homing")
  <2>1. /\ cmdq'[Main] = cmdq[Main] \o <<c>> /\ cmdq[Main] \in Seq(Command)
    BY <1>1, <1>3, SendEffect, McusAssumption DEF QInv, TypeOK
  <2> DEFINE h == endstop = "homing"
  <2>2. HomeShape(cmdq[Main], h) /\ h \in BOOLEAN
    BY QueueOf, McusAssumption
  <2> HIDE DEF h
  <2>3. HomeShape(cmdq[Main] \o <<c>>, h)
    BY <1>3, <2>1, <2>2, ConcatShapes
  <2> QED BY <2>1, <2>3 DEF h
<1>5. CommandsInv' /\ ReportsInv' /\ McuTypeOK'
      /\ cmdq'[Main] = cmdq[Main] \o <<c>> /\ cmdq[Main] \in Seq(Command)
      /\ \A o \in Mcus \ {Main} : cmdq'[o] = cmdq[o]
  <2>1. dispatching' = dispatching
    BY <1>1 DEF trdispatchVars
  <2> QED BY <1>1, <1>3, <1>4, <2>1, McusAssumption, ReactorSends
<1>6. TypeOK'
  <2>1. TrDispatchTypeOK'
    BY <1>1 DEF QInv, TypeOK, TrDispatchTypeOK, trdispatchVars
  <2> QED BY <1>1, <1>5, <2>1 DEF QInv, TypeOK
<1>7. EndstopInv'
  BY <1>1 DEF EndstopInv
<1>8. ReadersInv'
  BY <1>1 DEF QInv, ReadersInv, trdispatchVars
<1>9. StoppedInv'
  BY <1>1 DEF QInv, StoppedInv
<1>10. QueryInv'
  <2>1. \A o \in Mcus : NoQuery(o)
    BY <1>1 DEF QInv, QueryInv
  <2>2. NoOp(cmdq'[Main], {"trsync_query"})
    BY <1>3, <1>5, <2>1, McusAssumption, ConcatShapes DEF NoQuery
  <2>3. \A o \in Mcus : NoQuery(o)'
    BY <1>1, <1>5, <2>1, <2>2 DEF NoQuery
  <2> QED BY <1>1, <2>3 DEF QueryInv
<1> QED BY <1>5, <1>6, <1>7, <1>8, <1>9, <1>10 DEF QInv

(* home_wait switches the endstop off, however late endstop_home is. *)
LEMMA EndstopOffInv ==
  ASSUME QInv, EndstopOff
  PROVE  QInv'
<1> DEFINE c == Cmd("endstop_off", 0, "none")
<1>1. /\ pc = "wait" /\ pc' = "remove" /\ Send(Main, <<c>>)
      /\ UNCHANGED <<k, round, home_clock, handler, trigger_completion, completed,
                     home_end, acked, last_params, retries_left, res, result, now,
                     mcuVars, rspq, trdispatchVars, pyq>>
  BY DEF EndstopOff
<1>2. /\ c \in Command /\ c.op = "endstop_off"
  <2>1. 0 \in Time /\ "none" \in Reasons
    BY DEF Time, Reasons
  <2> QED BY <2>1, CmdType DEF QInv
<1> HIDE DEF c
<1>3. /\ <<c>> \in Seq(Command) /\ StopShape(<<c>>, FALSE)
      /\ NoOp(<<c>>, {"trsync_start"}) /\ NoOp(<<c>>, {"trsync_query"})
  BY <1>2 DEF NoOp, StopShape
<1>4. HomeShape(cmdq'[Main], endstop = "homing")
  <2>1. /\ cmdq'[Main] = cmdq[Main] \o <<c>> /\ cmdq[Main] \in Seq(Command)
    BY <1>1, <1>3, SendEffect, McusAssumption DEF QInv, TypeOK
  <2> DEFINE h == endstop = "homing"
  <2>2. HomeShape(cmdq[Main], h) /\ h \in BOOLEAN
    BY QueueOf, McusAssumption
  <2> HIDE DEF h
  <2>3. HomeShape(cmdq[Main] \o <<c>>, h)
    BY <1>3, <2>1, <2>2, ConcatShapes
  <2> QED BY <2>1, <2>3 DEF h
<1>5. CommandsInv' /\ ReportsInv' /\ McuTypeOK'
      /\ cmdq'[Main] = cmdq[Main] \o <<c>> /\ cmdq[Main] \in Seq(Command)
      /\ \A o \in Mcus \ {Main} : cmdq'[o] = cmdq[o]
  <2>1. dispatching' = dispatching
    BY <1>1 DEF trdispatchVars
  <2> QED BY <1>1, <1>3, <1>4, <2>1, McusAssumption, ReactorSends
<1>6. TypeOK'
  <2>1. TrDispatchTypeOK'
    BY <1>1 DEF QInv, TypeOK, TrDispatchTypeOK, trdispatchVars
  <2> QED BY <1>1, <1>5, <2>1 DEF QInv, TypeOK
<1>7. EndstopInv'
  <2> DEFINE h == endstop' = "homing"
  <2>1. h \in BOOLEAN
    OBVIOUS
  <2> HIDE DEF h
  <2>2. OffShape(cmdq[Main] \o <<c>>, h)
    BY <1>2, <1>5, <2>1, OneMoreShapes
  <2> QED BY <1>1, <1>5, <2>2 DEF EndstopInv, h
<1>8. ReadersInv'
  BY <1>1 DEF QInv, ReadersInv, trdispatchVars, StoppedInv
<1>9. StoppedInv'
  BY <1>1 DEF QInv, StoppedInv
<1>10. QueryInv'
  <2>1. \A o \in Mcus : NoQuery(o)
    BY <1>1 DEF QInv, QueryInv
  <2>2. NoOp(cmdq'[Main], {"trsync_query"})
    BY <1>3, <1>5, <2>1, McusAssumption, ConcatShapes DEF NoQuery
  <2>3. \A o \in Mcus : NoQuery(o)'
    BY <1>1, <1>5, <2>1, <2>2 DEF NoQuery
  <2> QED BY <1>1, <2>3 DEF QueryInv
<1> QED BY <1>5, <1>6, <1>7, <1>8, <1>9, <1>10 DEF QInv

(* What puts a query behind the commands under way to m keeps. *)
LEMMA QuerySent ==
  ASSUME QInv, NEW m \in Mcus, UNCHANGED <<mcuVars, rspq, now, dispatching>>,
         Send(m, <<Cmd("trsync_query", 0, "host_request")>>)
  PROVE  /\ CommandsInv' /\ ReportsInv' /\ McuTypeOK'
         /\ NoOp(cmdq[m], {"trsync_query"}) => QueryLast(cmdq'[m])
         /\ \A o \in Mcus \ {m} : cmdq'[o] = cmdq[o] /\ Quiet(o)' = Quiet(o)
         /\ \A h \in BOOLEAN : OffShape(cmdq[Main], h) => OffShape(cmdq'[Main], h)
<1> DEFINE c == Cmd("trsync_query", 0, "host_request")
<1>1. /\ c \in Command /\ c.op = "trsync_query"
  <2>1. 0 \in Time /\ "host_request" \in Reasons
    BY DEF Time, Reasons
  <2> QED BY <2>1, CmdType DEF QInv
<1>2. Send(m, <<c>>)
  OBVIOUS
<1> HIDE DEF c
<1>3. /\ <<c>> \in Seq(Command) /\ StopShape(<<c>>, FALSE)
      /\ NoOp(<<c>>, {"trsync_start"}) /\ NoOp(<<c>>, {"endstop_home"})
      /\ NoOp(<<c>>, {"endstop_home", "endstop_off"})
  BY <1>1 DEF NoOp, StopShape
<1>4. cmdq'[m] = cmdq[m] \o <<c>> /\ cmdq[m] \in Seq(Command)
  BY <1>2, <1>3, SendEffect DEF QInv, TypeOK
<1>5. m = Main => HomeShape(cmdq'[m], endstop = "homing")
  <2> DEFINE h == endstop = "homing"
  <2>1. (m = Main => HomeShape(cmdq[m], h)) /\ h \in BOOLEAN
    BY QueueOf
  <2> HIDE DEF h
  <2>2. m = Main => HomeShape(cmdq[m] \o <<c>>, h)
    BY <1>3, <1>4, <2>1, ConcatShapes
  <2> QED BY <1>4, <2>2 DEF h
<1>6. CommandsInv' /\ ReportsInv' /\ McuTypeOK'
      /\ \A o \in Mcus \ {m} : cmdq'[o] = cmdq[o] /\ Quiet(o)' = Quiet(o)
  BY <1>2, <1>3, <1>5, ReactorSends
<1>7. NoOp(cmdq[m], {"trsync_query"}) => QueryLast(cmdq'[m])
  BY <1>1, <1>4, OneMoreShapes
<1>8. \A h \in BOOLEAN : OffShape(cmdq[m], h) => OffShape(cmdq'[m], h)
  BY <1>3, <1>4, ConcatShapes
<1> QED BY <1>6, <1>7, <1>8, McusAssumption

(* MCU_trsync.stop: from now on nobody but the query sends to m. *)
LEMMA StopTrsyncInv ==
  ASSUME QInv, StopTrsync
  PROVE  QInv'
<1>0. PICK m \in Mcus : m = trsyncs[k]
  BY TrsyncsBefore DEF QInv
<1>1. /\ pc = "stop" /\ pc' = "ack"
      /\ handler' = [handler EXCEPT ![m] = "query"]
      /\ trigger_completion' = trigger_completion \ {m}
      /\ acked' = FALSE /\ last_params' = NoParams /\ retries_left' = Retries
      /\ Send(m, <<Cmd("trsync_query", 0, "host_request")>>)
      /\ UNCHANGED <<k, round, home_clock, completed, home_end, res, result, now,
                     mcuVars, rspq, trdispatchVars, pyq>>
  BY <1>0 DEF StopTrsync
<1>2. \A o \in Mcus : NoQuery(o)
  BY <1>1 DEF QInv, QueryInv
<1>3. /\ CommandsInv' /\ ReportsInv' /\ McuTypeOK'
      /\ QueryLast(cmdq'[m])
      /\ \A o \in Mcus \ {m} : cmdq'[o] = cmdq[o] /\ Quiet(o)' = Quiet(o)
      /\ \A h \in BOOLEAN : OffShape(cmdq[Main], h) => OffShape(cmdq'[Main], h)
  BY <1>1, <1>2, QuerySent DEF trdispatchVars, NoQuery
<1>4. \A i \in 1..(k-1) : trsyncs[i] \in Mcus /\ trsyncs[i] # m
  BY <1>0, TrsyncsBefore DEF QInv
<1>5. TypeOK'
  <2>1. TrDispatchTypeOK'
    BY <1>1 DEF QInv, TypeOK, TrDispatchTypeOK, trdispatchVars
  <2>2. retries_left' \in 0..Retries
    BY <1>1, HomingAssumption
  <2>3. /\ handler' \in [Mcus -> {"none", "trsync", "query"}]
        /\ trigger_completion' \subseteq Mcus
    BY <1>1 DEF QInv, TypeOK
  <2> QED BY <1>1, <1>3, <2>1, <2>2, <2>3 DEF QInv, TypeOK
<1>6. EndstopInv'
  <2> DEFINE h == endstop = "homing"
  <2>1. OffShape(cmdq[Main], h) /\ h \in BOOLEAN /\ h = (endstop' = "homing")
    BY <1>1 DEF QInv, EndstopInv, mcuVars
  <2> HIDE DEF h
  <2>2. OffShape(cmdq'[Main], h)
    BY <1>3, <2>1
  <2> QED BY <1>1, <2>1, <2>2 DEF EndstopInv
<1>7. ReadersInv'
  BY <1>1 DEF QInv, ReadersInv, trdispatchVars
<1>8. StoppedInv'
  <2>1. \A i \in 1..(k-1) : Stopped(trsyncs[i])
    BY <1>1 DEF QInv, StoppedInv
  <2>2. ASSUME NEW o \in Mcus, o # m, Stopped(o)
        PROVE  Stopped(o)'
    BY <1>1, <1>3, <2>2 DEF Stopped, QInv, TypeOK
  <2> QED BY <1>1, <1>4, <2>1, <2>2 DEF StoppedInv
<1>9. QueryInv'
  <2>1. QueryState(m)'
    BY <1>1, <1>2, <1>3 DEF QueryState, NoQuery, QInv, TypeOK
  <2>2. \A o \in Mcus \ {m} : NoQuery(o)'
    BY <1>1, <1>2, <1>3 DEF NoQuery
  <2> QED BY <1>0, <1>1, <2>1, <2>2 DEF QueryInv
<1> QED BY <1>3, <1>5, <1>6, <1>7, <1>8, <1>9 DEF QInv

(* A retry: the acknowledgement was the last thing under way from m. *)
LEMMA QueryRetryInv ==
  ASSUME QInv, QueryRetry
  PROVE  QInv'
<1>0. PICK m \in Mcus : m = trsyncs[k]
  BY TrsyncsBefore DEF QInv
<1>1. /\ pc = "ack" /\ acked /\ last_params = NoParams /\ retries_left > 0
      /\ retries_left' = retries_left - 1 /\ acked' = FALSE
      /\ Send(m, <<Cmd("trsync_query", 0, "host_request")>>)
      /\ UNCHANGED <<pc, k, round, home_clock, handler, trigger_completion,
                     completed, home_end, last_params, res, result, now, mcuVars,
                     rspq, trdispatchVars, pyq>>
  BY <1>0 DEF QueryRetry
<1>2. QueryState(m) /\ \A o \in Mcus \ {m} : NoQuery(o)
  <2>1. \A o \in Mcus : IF pc = "ack" /\ o = trsyncs[k] THEN QueryState(o)
                        ELSE NoQuery(o)
    BY DEF QInv, QueryInv
  <2> QED BY <1>0, <1>1, <2>1
<1>3. /\ Quiet(m) /\ pyq[m] = <<>> /\ rspq[m] = <<>>
      /\ handler[m] = "query" /\ m \notin trigger_completion
  BY <1>1, <1>2 DEF QueryState
<1>4. NoOp(cmdq[m], {"trsync_query"})
  BY <1>3 DEF Quiet, NoOp
<1>5. /\ CommandsInv' /\ ReportsInv' /\ McuTypeOK'
      /\ QueryLast(cmdq'[m])
      /\ \A o \in Mcus \ {m} : cmdq'[o] = cmdq[o] /\ Quiet(o)' = Quiet(o)
      /\ \A h \in BOOLEAN : OffShape(cmdq[Main], h) => OffShape(cmdq'[Main], h)
  BY <1>1, <1>4, QuerySent DEF trdispatchVars
<1>6. \A i \in 1..(k-1) : trsyncs[i] \in Mcus /\ trsyncs[i] # m
  BY <1>0, TrsyncsBefore DEF QInv
<1>7. TypeOK'
  <2>1. TrDispatchTypeOK'
    BY <1>1 DEF QInv, TypeOK, TrDispatchTypeOK, trdispatchVars
  <2>2. retries_left' \in 0..Retries
    BY <1>1, HomingAssumption DEF QInv, TypeOK
  <2> QED BY <1>1, <1>5, <2>1, <2>2 DEF QInv, TypeOK
<1>8. EndstopInv'
  <2> DEFINE h == endstop = "homing"
  <2>1. OffShape(cmdq[Main], h) /\ h \in BOOLEAN /\ h = (endstop' = "homing")
    BY <1>1 DEF QInv, EndstopInv, mcuVars
  <2> HIDE DEF h
  <2>2. OffShape(cmdq'[Main], h)
    BY <1>5, <2>1
  <2> QED BY <1>1, <2>1, <2>2 DEF EndstopInv
<1>9. ReadersInv'
  BY <1>1 DEF QInv, ReadersInv, trdispatchVars
<1>10. StoppedInv'
  <2>1. \A i \in 1..(k-1) : Stopped(trsyncs[i])
    BY <1>1 DEF QInv, StoppedInv
  <2>2. ASSUME NEW o \in Mcus, o # m, Stopped(o)
        PROVE  Stopped(o)'
    BY <1>1, <1>5, <2>2 DEF Stopped
  <2> QED BY <1>1, <1>6, <2>1, <2>2 DEF StoppedInv
<1>11. QueryInv'
  <2>1. NoAck(<<>>)
    BY DEF NoAck
  <2>2. QueryState(m)'
    BY <1>1, <1>3, <1>5, <2>1 DEF QueryState
  <2>3. \A o \in Mcus \ {m} : NoQuery(o)'
    BY <1>1, <1>2, <1>5 DEF NoQuery
  <2> QED BY <1>0, <1>1, <2>2, <2>3 DEF QueryInv
<1> QED BY <1>5, <1>7, <1>8, <1>9, <1>10, <1>11 DEF QInv

-----------------------------------------------------------------------------
(* The theorem *)

LEMMA QInvInit == Init => QInv
<1> SUFFICES ASSUME Init PROVE QInv
  OBVIOUS
<1> USE McusAssumption, TicksAssumption, ExpireAssumption, HomingAssumption
<1>0. /\ \A m \in Mcus : /\ flags[m] = {} /\ ~signal[m] /\ report_time[m] = Never
                        /\ expire_time[m] = Never /\ cmdq[m] = <<>> /\ rspq[m] = <<>>
                        /\ pyq[m] = <<>> /\ dispatching[m] = <<>>
                        /\ handler[m] = "none" /\ m \notin trigger_completion
      /\ endstop = "off" /\ pc = "idle" /\ k = 1 /\ fastreaders = {}
      /\ result = "none"
  BY DEF Init, McuInit, TrDispatchInit
<1>1. McuTypeOK
  BY DEF Init, McuInit, McuTypeOK, Reasons, Time
<1>2. TrDispatchTypeOK
  <2>0. Len(<<>>) <= 1
    OBVIOUS
  <2>1. \A m \in Mcus : Len(dispatching[m]) <= 1
    BY <1>0, <2>0
  <2>2. dispatching \in [Mcus -> Seq(Response)]
    BY DEF Init, TrDispatchInit
  <2>3. /\ can_trigger \in BOOLEAN /\ fastreaders \subseteq Mcus
        /\ last_status_clock \in [Mcus -> Nat] /\ expire_clock \in [Mcus -> Nat]
    BY DEF Init, TrDispatchInit
  <2> QED BY <2>1, <2>2, <2>3 DEF TrDispatchTypeOK
<1>3. TypeOK
  <2>1. 1 \in 1..N
    BY TrsyncsProps
  <2>2. pyq \in [Mcus -> Seq(Response)]
    BY DEF Init
  <2>3. round \in 0..MaxRound /\ home_clock \in Nat /\ retries_left \in 0..Retries
    BY DEF Init
  <2>4. /\ handler \in [Mcus -> {"none", "trsync", "query"}]
        /\ home_end \in [Mcus -> Time] /\ res \in [Mcus -> Reasons]
    BY DEF Init, Reasons, Time
  <2>5. /\ completed \in BOOLEAN /\ acked \in BOOLEAN /\ trigger_completion \subseteq Mcus
        /\ last_params = NoParams
    BY DEF Init
  <2> QED BY <1>0, <1>1, <1>2, <2>1, <2>2, <2>3, <2>4, <2>5 DEF TypeOK
<1>4. CommandsInv
  <2>1. Armed(Main) \in BOOLEAN /\ \A m \in Mcus : Armed(m) \in BOOLEAN
    BY DEF Armed
  <2> QED BY <1>0, <2>1, EmptyShapes DEF CommandsInv
<1>5. EndstopInv
  BY <1>0, EmptyShapes DEF EndstopInv
<1>6. ReadersInv
  BY <1>0 DEF ReadersInv
<1>7. StoppedInv
  BY <1>0 DEF StoppedInv, Stopped, Quiet
<1>8. QueryInv
  BY <1>0, EmptyShapes DEF QueryInv, NoQuery
<1>9. ReportsInv
  <2>1. ClocksOK(<<>>)
    BY DEF ClocksOK
  <2> QED BY <1>0, <2>1 DEF ReportsInv
<1> QED BY <1>3, <1>4, <1>5, <1>6, <1>7, <1>8, <1>9 DEF QInv

LEMMA QInvStutter == QInv /\ UNCHANGED vars => QInv'
<1> SUFFICES ASSUME QInv, UNCHANGED vars PROVE QInv'
  OBVIOUS
<1> USE DEF vars, mcuVars, linkVars, trdispatchVars, pyVars
<1>1. TypeOK'
  BY DEF QInv, TypeOK, McuTypeOK, TrDispatchTypeOK
<1>2. CommandsInv'
  BY DEF QInv, CommandsInv, Armed
<1>3. EndstopInv' /\ ReadersInv'
  BY DEF QInv, EndstopInv, ReadersInv
<1>4. StoppedInv'
  BY DEF QInv, StoppedInv, Stopped, Quiet
<1>5. QueryInv'
  BY DEF QInv, QueryInv, QueryState, NoQuery, Quiet
<1>6. ReportsInv'
  BY DEF QInv, ReportsInv
<1> QED BY <1>1, <1>2, <1>3, <1>4, <1>5, <1>6 DEF QInv

LEMMA QInvNext == QInv /\ [Next]_vars => QInv'
<1> SUFFICES ASSUME QInv, [Next]_vars PROVE QInv'
  OBVIOUS
<1>1. CASE TimePasses
  BY <1>1, TimePassesInv
<1>2. CASE HostStep
  BY <1>2, HomeStartInv, StartTrsyncInv, DispatchStartInv, AddFastreaderInv,
     SendEndstopHomeInv, HomeWaitInv, EndstopOffInv, RemoveFastreaderInv,
     StopTrsyncInv, QueryAnsweredInv, QueryRetryInv, QueryFailedInv DEF HostStep
<1>3. ASSUME NEW m \in Mcus, HostInput(m)
      PROVE  QInv'
  BY <1>3, HostInputInv
<1>4. ASSUME NEW m \in Mcus, PyHandle(m)
      PROVE  QInv'
  BY <1>4, PyHandleInv
<1>5. ASSUME NEW m \in Mcus, FastRead(m), UNCHANGED <<pyVars, pyq>>
      PROVE  QInv'
  BY <1>5, FastReadInv
<1>6. ASSUME NEW m \in Mcus, McuStep(m), UNCHANGED <<trdispatchVars, pyVars, pyq>>
      PROVE  QInv'
  BY <1>6, ExpireEventInv, ReportEventInv, ReportTaskInv, TrsyncStartInv,
     StopOnTriggerInv, SetTimeoutInv, TrsyncTriggerInv, EndstopHomeInv DEF McuStep
<1>7. CASE EndstopEvent /\ UNCHANGED <<trdispatchVars, pyVars, pyq>>
  BY <1>7, EndstopEventInv
<1>8. CASE UNCHANGED vars
  BY <1>8, QInvStutter
<1> QED BY <1>1, <1>2, <1>3, <1>4, <1>5, <1>6, <1>7, <1>8 DEF Next

(* The states in which home_wait has returned. *)
LEMMA QuietWhenStopped == QInv => QuietAfterHoming
<1> SUFFICES ASSUME QInv, pc = "idle", result \in {"hit", "no_trigger", "timeout"}
             PROVE  /\ endstop # "homing" /\ trigger_completion = {} /\ fastreaders = {}
                    /\ \A m \in Mcus : /\ flags[m] = {} /\ ~signal[m]
                                       /\ report_time[m] = Never /\ expire_time[m] = Never
                                       /\ cmdq[m] = <<>>
  BY DEF QuietAfterHoming
<1>1. \A m \in Mcus : Stopped(m)
  BY DEF QInv, StoppedInv
<1>2. trigger_completion \subseteq Mcus
  BY DEF QInv, TypeOK
<1>3. fastreaders = {}
  BY DEF QInv, ReadersInv
<1> QED BY <1>1, <1>2, <1>3, McusAssumption DEF Stopped, Quiet

(***************************************************************************)
(* After home_wait has returned without an error nothing of the homing is  *)
(* left to act: no armed stepper, timer or endstop, no command on its way  *)
(* and no callback; whatever was delayed or lost.                          *)
(***************************************************************************)
THEOREM HomingLeavesNothing == Spec => []QuietAfterHoming
  BY QInvInit, QInvNext, QuietWhenStopped, PTL DEF Spec

(* The state that home_start, home_wait, the threads and the micro-controllers
   keep has its types; a reason is known when the query is answered. *)
THEOREM HomingTypeOK == Spec => []TypeOK
<1>1. QInv => TypeOK
  BY DEF QInv
<1> QED BY QInvInit, QInvNext, <1>1, PTL DEF Spec

-----------------------------------------------------------------------------
(* Several homings in sequence.  No command, response or report of an
   earlier homing reaches a later one (NoStaleMessages), and a homing that
   home_wait reports as a hit is one (HitIsSound).

   The first is so as long as no query fails for good.  When one does,
   home_wait raises its error before it has stopped the remaining trsyncs,
   and what they still have to say is met by the next homing.  The second
   needs in addition that no two reports are lost when there are several
   micro-controllers. *)

(* With one micro-controller there is no trsync behind the one whose query
   failed; and a query fails only if each of its responses was lost. *)
NoFailure == Mcus = {Main} \/ MaxLost <= Retries

-----------------------------------------------------------------------------
(* The inductive invariant *)

OfRound(q, rd) == \A i \in DOMAIN q : q[i].round = rd
NotAck(q) == \E i \in DOMAIN q : ~q[i].ack

(* Everything under way belongs to the present homing, ... *)
McuOfRound(m) ==
  /\ OfRound(cmdq[m], round) /\ OfRound(rspq[m], round)
  /\ flags[m] # {} \/ report_time[m] # Never => homing[m] = round
HostOfRound(m) == OfRound(pyq[m], round) /\ OfRound(dispatching[m], round)
RoundsInv == \A m \in Mcus : McuOfRound(m) /\ HostOfRound(m)

(* ... since between two homings nothing is. *)
IdleInv == pc = "idle" => \A m \in Mcus : Stopped(m)

(* Each try of a query that is over without a response has lost one. *)
LossesInv ==
  pc = "ack" =>
    LET m == trsyncs[k] IN
    /\ lost >= Retries - retries_left
    /\ \/ cmdq[m] # <<>> \/ last_params # NoParams
       \/ NotAck(pyq[m]) \/ NotAck(rspq[m])
       \/ lost >= Retries - retries_left + 1

RInv == QInv /\ LossesInv /\ RoundsInv /\ IdleInv

-----------------------------------------------------------------------------
(* Queues *)

LEMMA OfRoundTail ==
  ASSUME NEW S, NEW q \in Seq(S), q # <<>>, NEW rd, OfRound(q, rd)
  PROVE  OfRound(Tail(q), rd) /\ Head(q).round = rd
  BY TailProps DEF OfRound

LEMMA OfRoundConcat ==
  ASSUME NEW S, NEW q \in Seq(S), NEW t \in Seq(S), NEW rd,
         OfRound(q, rd), OfRound(t, rd)
  PROVE  OfRound(q \o t, rd)
<1>1. ASSUME NEW i \in DOMAIN (q \o t)
      PROVE  (q \o t)[i].round = rd
  <2>1. CASE i \in DOMAIN q
    BY <2>1, ConcatProps DEF OfRound
  <2>2. CASE i \notin DOMAIN q
    BY <2>2, ConcatProps DEF OfRound
  <2> QED BY <2>1, <2>2
<1> QED BY <1>1 DEF OfRound

LEMMA OfRoundOne ==
  ASSUME NEW r, NEW rd, r.round = rd
  PROVE  OfRound(<<r>>, rd) /\ OfRound(<<>>, rd)
  BY DEF OfRound

LEMMA NotAckConcat ==
  ASSUME NEW q \in Seq(Response), NEW t \in Seq(Response)
  PROVE  /\ NotAck(q) => NotAck(q \o t)
         /\ NotAck(t) => NotAck(q \o t)
<1>1. NotAck(q) => NotAck(q \o t)
  <2> SUFFICES ASSUME NotAck(q) PROVE NotAck(q \o t)
    OBVIOUS
  <2>1. PICK i \in DOMAIN q : ~q[i].ack
    BY DEF NotAck
  <2>2. i \in DOMAIN (q \o t) /\ (q \o t)[i] = q[i]
    <3>1. i \in 1..(Len(q) + Len(t))
      BY ConcatProps
    <3> QED BY <3>1, ConcatProps
  <2> QED BY <2>1, <2>2 DEF NotAck
<1>2. NotAck(t) => NotAck(q \o t)
  <2> SUFFICES ASSUME NotAck(t) PROVE NotAck(q \o t)
    OBVIOUS
  <2>1. PICK i \in DOMAIN t : ~t[i].ack
    BY DEF NotAck
  <2>2. Len(q) + i \in DOMAIN (q \o t) /\ (q \o t)[Len(q) + i] = t[i]
    BY ConcatProps
  <2> QED BY <2>1, <2>2 DEF NotAck
<1> QED BY <1>1, <1>2

LEMMA NotAckTail ==
  ASSUME NEW q \in Seq(Response), q # <<>>, NotAck(q), Head(q).ack
  PROVE  NotAck(Tail(q))
<1>1. PICK i \in DOMAIN q : ~q[i].ack
  BY DEF NotAck
<1>2. i # 1 /\ i \in 1..Len(q) /\ Len(q) \in Nat
  BY <1>1, TailProps
<1>3. i - 1 \in 1..(Len(q) - 1) /\ (i - 1) + 1 = i
  BY <1>2
<1>4. i - 1 \in DOMAIN Tail(q) /\ Tail(q)[i - 1] = q[i]
  BY <1>3, TailProps
<1> QED BY <1>1, <1>4 DEF NotAck

-----------------------------------------------------------------------------
(* The steps of a micro-controller *)

(* trsync_report puts a response into the queue or loses it. *)
LEMMA ReportRounds ==
  ASSUME McuTypeOK, NEW m \in Mcus, NEW can \in BOOLEAN, NEW reason \in Reasons,
         NEW clock \in Time, NEW rd \in Nat, NEW more \in Seq(Response),
         OfRound(more, rd),
         Report(m, more, can, reason, clock, rd)
  PROVE  /\ OfRound(rspq[m], rd) => OfRound(rspq'[m], rd)
         /\ \A o \in Mcus \ {m} : rspq'[o] = rspq[o]
         /\ NotAck(rspq[m]) => NotAck(rspq'[m])
         /\ lost' >= lost
         /\ NotAck(rspq'[m]) \/ lost' >= lost + 1
<1> DEFINE r == [ack |-> FALSE, can_trigger |-> can, trigger_reason |-> reason,
                 clock |-> clock, round |-> rd]
           q == rspq[m]
<1>1. r \in Response /\ ~r.ack /\ r.round = rd
  BY DEF Response
<1>2. q \in Seq(Response) /\ lost \in Nat /\ rspq \in [Mcus -> Seq(Response)]
  BY TicksAssumption DEF McuTypeOK
<1>3. \/ rspq' = [rspq EXCEPT ![m] = q \o <<r>> \o more] /\ lost' = lost
      \/ lost < MaxLost /\ rspq' = [rspq EXCEPT ![m] = q \o more] /\ lost' = lost + 1
  BY DEF Report
<1> HIDE DEF r, q
<1>4. <<r>> \in Seq(Response) /\ q \o <<r>> \in Seq(Response)
  BY <1>1, <1>2
<1>5. NotAck(<<r>>)
  BY <1>1 DEF NotAck
<1>6. CASE rspq' = [rspq EXCEPT ![m] = q \o <<r>> \o more] /\ lost' = lost
  <2>1. rspq'[m] = q \o <<r>> \o more /\ \A o \in Mcus \ {m} : rspq'[o] = rspq[o]
    BY <1>2, <1>6
  <2>2. NotAck(rspq'[m])
    BY <1>2, <1>4, <1>5, <2>1, NotAckConcat
  <2>3. OfRound(q, rd) => OfRound(q \o <<r>> \o more, rd)
    <3> SUFFICES ASSUME OfRound(q, rd) PROVE OfRound(q \o <<r>> \o more, rd)
      OBVIOUS
    <3>1. OfRound(<<r>>, rd)
      BY <1>1, OfRoundOne
    <3>2. OfRound(q \o <<r>>, rd)
      BY <1>2, <1>4, <3>1, OfRoundConcat
    <3> QED BY <1>4, <3>2, OfRoundConcat
  <2> QED BY <1>2, <1>6, <2>1, <2>2, <2>3 DEF q
<1>7. CASE rspq' = [rspq EXCEPT ![m] = q \o more] /\ lost' = lost + 1
  <2>1. rspq'[m] = q \o more /\ \A o \in Mcus \ {m} : rspq'[o] = rspq[o]
    BY <1>2, <1>7
  <2>2. NotAck(q) => NotAck(q \o more)
    BY <1>2, NotAckConcat
  <2>3. OfRound(q, rd) => OfRound(q \o more, rd)
    BY <1>2, OfRoundConcat
  <2> QED BY <1>2, <1>7, <2>1, <2>2, <2>3 DEF q
<1> QED BY <1>3, <1>6, <1>7

(* A step of micro-controller m leaves the others and the host alone, keeps
   what belongs to a homing together, and drops no response unless it is
   counted as lost. *)
McuStays(m) ==
  /\ \A o \in Mcus \ {m} :
       /\ flags'[o] = flags[o] /\ report_time'[o] = report_time[o]
       /\ homing'[o] = homing[o] /\ cmdq'[o] = cmdq[o] /\ rspq'[o] = rspq[o]
  /\ UNCHANGED <<trdispatchVars, pyVars, pyq>>
  /\ McuOfRound(m) => McuOfRound(m)'
  /\ lost' \in Nat /\ lost' >= lost
  /\ NotAck(rspq[m]) => NotAck(rspq'[m])
  /\ QueryLast(cmdq[m]) =>
       cmdq'[m] # <<>> \/ NotAck(rspq'[m]) \/ lost' >= lost + 1

LEMMA McuStaysInv ==
  ASSUME QInv, LossesInv, RoundsInv, NEW m \in Mcus, McuStays(m)
  PROVE  LossesInv' /\ RoundsInv'
<1>1. UNCHANGED <<pc, k, round, retries_left, last_params, pyq, dispatching>>
  BY DEF McuStays, pyVars, trdispatchVars
<1>2. \A o \in Mcus \ {m} :
        /\ flags'[o] = flags[o] /\ report_time'[o] = report_time[o]
        /\ homing'[o] = homing[o] /\ cmdq'[o] = cmdq[o] /\ rspq'[o] = rspq[o]
  BY DEF McuStays
<1>3. RoundsInv'
  <2> SUFFICES ASSUME NEW o \in Mcus PROVE McuOfRound(o)' /\ HostOfRound(o)'
    BY DEF RoundsInv
  <2>1. McuOfRound(o) /\ HostOfRound(o)
    BY DEF RoundsInv
  <2>2. HostOfRound(o)'
    BY <1>1, <2>1 DEF HostOfRound
  <2>3. CASE o = m
    BY <2>1, <2>2, <2>3 DEF McuStays
  <2>4. CASE o # m
    BY <1>1, <1>2, <2>1, <2>2, <2>4 DEF McuOfRound
  <2> QED BY <2>3, <2>4
<1>4. LossesInv'
  <2> SUFFICES ASSUME pc = "ack"
               PROVE  LET m0 == trsyncs[k] IN
                      /\ lost' >= Retries - retries_left
                      /\ \/ cmdq'[m0] # <<>> \/ last_params # NoParams
                         \/ NotAck(pyq[m0]) \/ NotAck(rspq'[m0])
                         \/ lost' >= Retries - retries_left + 1
    BY <1>1 DEF LossesInv
  <2>1. PICK m0 \in Mcus : m0 = trsyncs[k]
    BY TrsyncsBefore DEF QInv
  <2>2. /\ lost >= Retries - retries_left
        /\ \/ cmdq[m0] # <<>> \/ last_params # NoParams
           \/ NotAck(pyq[m0]) \/ NotAck(rspq[m0])
           \/ lost >= Retries - retries_left + 1
    BY <2>1 DEF LossesInv
  <2>3. /\ lost' >= Retries - retries_left
        /\ lost >= Retries - retries_left + 1 => lost' >= Retries - retries_left + 1
        /\ lost' >= lost + 1 => lost' >= Retries - retries_left + 1
    <3>1. lost \in Nat /\ retries_left \in Nat /\ Retries \in Nat
      BY TicksAssumption, HomingAssumption DEF QInv, TypeOK, McuTypeOK
    <3>2. lost' \in Nat /\ lost' >= lost
      BY DEF McuStays
    <3> QED BY <2>2, <3>1, <3>2
  <2>4. cmdq[m0] # <<>> => QueryLast(cmdq[m0])
    <3>1. QueryState(m0)
      BY <2>1 DEF QInv, QueryInv
    <3> QED BY <3>1 DEF QueryState, Quiet
  <2>5. CASE m0 # m
    <3>1. cmdq'[m0] = cmdq[m0] /\ rspq'[m0] = rspq[m0]
      BY <1>2, <2>5
    <3> QED BY <2>1, <2>2, <2>3, <3>1
  <2>6. CASE m0 = m
    <3>1. /\ NotAck(rspq[m0]) => NotAck(rspq'[m0])
          /\ cmdq[m0] # <<>> =>
               cmdq'[m0] # <<>> \/ NotAck(rspq'[m0]) \/ lost' >= lost + 1
      BY <2>4, <2>6 DEF McuStays
    <3> QED BY <2>1, <2>2, <2>3, <3>1
  <2> QED BY <2>5, <2>6
<1> QED BY <1>3, <1>4

(* The timers and the endstop send nothing. *)
LEMMA TimerStays ==
  ASSUME QInv, NEW m \in Mcus,
         ExpireEvent(m) \/ ReportEvent(m) \/ (m = Main /\ EndstopEvent),
         UNCHANGED <<trdispatchVars, pyVars, pyq>>
  PROVE  McuStays(m)
<1>1. /\ McuTypeOK /\ TypeOK /\ flags \in [Mcus -> SUBSET {"can_trigger", "report"}]
      /\ report_time \in [Mcus -> Time] /\ lost \in Nat
  BY TicksAssumption DEF QInv, TypeOK, McuTypeOK
<1>2. UNCHANGED <<homing, lost, cmdq, rspq, round>>
  BY DEF ExpireEvent, ReportEvent, EndstopEvent, linkVars, pyVars
<1>3. /\ \A o \in Mcus \ {m} : flags'[o] = flags[o] /\ report_time'[o] = report_time[o]
      /\ flags'[m] # {} \/ report_time'[m] # Never =>
           flags[m] # {} \/ report_time[m] # Never
  <2>1. CASE flags' = [flags EXCEPT ![m] = FlagsAfterTrigger(m)] /\ report_time' = report_time
    BY <1>1, <2>1 DEF FlagsAfterTrigger
  <2>2. CASE ReportEvent(m)
    <3>1. /\ report_time[m] # Never
          /\ report_time' = [report_time EXCEPT ![m] = @ + ReportTicks]
          /\ flags' = [flags EXCEPT ![m] = @ \union {"report"}]
      BY <2>2 DEF ReportEvent, Due
    <3> QED BY <1>1, <3>1
  <2> QED BY <2>1, <2>2 DEF ExpireEvent, EndstopEvent
<1>4. McuOfRound(m) => McuOfRound(m)'
  BY <1>2, <1>3 DEF McuOfRound
<1>5. QueryLast(cmdq[m]) => cmdq'[m] # <<>>
  BY <1>2 DEF QueryLast
<1> QED BY <1>1, <1>2, <1>3, <1>4, <1>5 DEF McuStays

LEMMA ReportTaskStays ==
  ASSUME QInv, NEW m \in Mcus, ReportTask(m), UNCHANGED <<trdispatchVars, pyVars, pyq>>
  PROVE  McuStays(m)
<1>1. /\ McuTypeOK /\ flags \in [Mcus -> SUBSET {"can_trigger", "report"}]
      /\ lost \in Nat
  BY TicksAssumption DEF QInv, TypeOK, McuTypeOK
<1>2. /\ "report" \in flags[m] /\ flags' = [flags EXCEPT ![m] = @ \ {"report"}]
      /\ Report(m, <<>>, "can_trigger" \in flags[m], trigger_reason[m],
                ReportClock(m), homing[m])
      /\ UNCHANGED <<report_time, homing, cmdq>>
  BY DEF ReportTask
<1>3. /\ ("can_trigger" \in flags[m]) \in BOOLEAN /\ trigger_reason[m] \in Reasons
      /\ ReportClock(m) \in Time /\ homing[m] \in Nat /\ <<>> \in Seq(Response)
  BY <1>1 DEF McuTypeOK, ReportClock, Time
<1>4. OfRound(<<>>, homing[m])
  BY DEF OfRound
<1>5. /\ OfRound(rspq[m], homing[m]) => OfRound(rspq'[m], homing[m])
      /\ \A o \in Mcus \ {m} : rspq'[o] = rspq[o]
      /\ NotAck(rspq[m]) => NotAck(rspq'[m])
      /\ lost' >= lost
  BY <1>1, <1>2, <1>3, <1>4, ReportRounds
<1>6. lost' \in Nat
  BY <1>1, <1>2 DEF Report
<1>7. \A o \in Mcus \ {m} : flags'[o] = flags[o]
  BY <1>1, <1>2
<1>8. McuOfRound(m) => McuOfRound(m)'
  <2> SUFFICES ASSUME McuOfRound(m) PROVE McuOfRound(m)'
    OBVIOUS
  <2>1. homing[m] = round /\ round' = round
    BY <1>2 DEF McuOfRound, pyVars
  <2> QED BY <1>2, <1>5, <2>1 DEF McuOfRound
<1>9. QueryLast(cmdq[m]) => cmdq'[m] # <<>>
  BY <1>2 DEF QueryLast
<1> QED BY <1>2, <1>5, <1>6, <1>7, <1>8, <1>9 DEF McuStays

(* A command but a trigger or a query is carried out without a response. *)
LEMMA CommandStays ==
  ASSUME QInv, NEW m \in Mcus,
         \/ TrsyncStart(m) \/ StopOnTrigger(m) \/ SetTimeout(m) \/ EndstopHome(m),
         UNCHANGED <<trdispatchVars, pyVars, pyq>>
  PROVE  McuStays(m)
<1>1. /\ McuTypeOK /\ flags \in [Mcus -> SUBSET {"can_trigger", "report"}]
      /\ report_time \in [Mcus -> Time] /\ homing \in [Mcus -> Nat] /\ lost \in Nat
      /\ cmdq[m] \in Seq(Command)
  BY TicksAssumption DEF QInv, TypeOK, McuTypeOK
<1>2. /\ cmdq[m] # <<>> /\ Consume(m) /\ Head(cmdq[m]).op # "trsync_query"
      /\ UNCHANGED <<lost, rspq, round>>
  BY DEF TrsyncStart, StopOnTrigger, SetTimeout, EndstopHome, NextCommand, pyVars
<1>3. /\ cmdq'[m] = Tail(cmdq[m]) /\ \A o \in Mcus \ {m} : cmdq'[o] = cmdq[o]
      /\ QueryLast(cmdq[m]) => QueryLast(cmdq'[m])
  BY <1>2, CommandTaken
<1>4. \/ UNCHANGED <<flags, report_time, homing>>
      \/ /\ flags' = [flags EXCEPT ![m] = {"can_trigger"}]
         /\ report_time' = [report_time EXCEPT ![m] = Head(cmdq[m]).clock]
         /\ homing' = [homing EXCEPT ![m] = Head(cmdq[m]).round]
  BY DEF TrsyncStart, StopOnTrigger, SetTimeout, EndstopHome
<1>5. /\ \A o \in Mcus \ {m} : /\ flags'[o] = flags[o] /\ homing'[o] = homing[o]
                               /\ report_time'[o] = report_time[o]
      /\ \/ UNCHANGED <<flags, report_time, homing>>
         \/ homing'[m] = Head(cmdq[m]).round
  BY <1>1, <1>4
<1>6. McuOfRound(m) => McuOfRound(m)'
  <2> SUFFICES ASSUME McuOfRound(m) PROVE McuOfRound(m)'
    OBVIOUS
  <2>1. OfRound(cmdq'[m], round) /\ Head(cmdq[m]).round = round
    BY <1>1, <1>2, <1>3, OfRoundTail DEF McuOfRound
  <2> QED BY <1>2, <1>5, <2>1 DEF McuOfRound
<1>7. QueryLast(cmdq[m]) => cmdq'[m] # <<>>
  BY <1>3 DEF QueryLast
<1> QED BY <1>1, <1>2, <1>3, <1>5, <1>6, <1>7 DEF McuStays

LEMMA TrsyncTriggerStays ==
  ASSUME QInv, NEW m \in Mcus, TrsyncTrigger(m), UNCHANGED <<trdispatchVars, pyVars, pyq>>
  PROVE  McuStays(m)
<1> DEFINE c == Head(cmdq[m])
           ack == [ack |-> TRUE, can_trigger |-> FALSE, trigger_reason |-> "none",
                   clock |-> 0, round |-> c.round]
           more == IF c.op = "trsync_query" THEN <<ack>> ELSE <<>>
<1>1. /\ McuTypeOK /\ flags \in [Mcus -> SUBSET {"can_trigger", "report"}]
      /\ report_time \in [Mcus -> Time] /\ lost \in Nat
      /\ cmdq[m] \in Seq(Command)
      /\ signal[m] => "can_trigger" \in flags[m]
  BY TicksAssumption DEF QInv, CommandsInv, TypeOK, McuTypeOK
<1>2. /\ cmdq[m] # <<>> /\ c.op \in {"trsync_trigger", "trsync_query"} /\ Consume(m)
      /\ trsync_do_trigger(m, c.reason)
      /\ flags' = [flags EXCEPT ![m] = {}]
      /\ report_time' = [report_time EXCEPT ![m] = Never]
      /\ Report(m, more, FALSE, trigger_reason'[m], 0, c.round)
      /\ UNCHANGED <<homing, round>>
  BY DEF TrsyncTrigger, NextCommand, pyVars
<1>3. /\ cmdq'[m] = Tail(cmdq[m]) /\ c \in Command
      /\ \A o \in Mcus \ {m} : cmdq'[o] = cmdq[o]
      /\ QueryLast(cmdq[m]) => c.op = "trsync_query" \/ QueryLast(cmdq'[m])
  BY <1>2, CommandTaken
<1>4. c.reason \in Reasons /\ c.round \in Nat
  BY <1>3 DEF Command
<1>5. ack \in Response /\ ack.round = c.round
  BY <1>4 DEF Response, Reasons, Time
<1> HIDE DEF c, ack
<1>6. more \in Seq(Response) /\ OfRound(more, c.round)
  BY <1>5, OfRoundOne
<1> HIDE DEF more
<1>7. trigger_reason'[m] \in Reasons /\ 0 \in Time
  BY <1>1, <1>2, <1>4, TriggerEffect DEF Time
<1>8. /\ OfRound(rspq[m], c.round) => OfRound(rspq'[m], c.round)
      /\ \A o \in Mcus \ {m} : rspq'[o] = rspq[o]
      /\ NotAck(rspq[m]) => NotAck(rspq'[m])
      /\ lost' >= lost
      /\ NotAck(rspq'[m]) \/ lost' >= lost + 1
  BY <1>1, <1>2, <1>4, <1>6, <1>7, ReportRounds
<1>9. lost' \in Nat
  BY <1>1, <1>2 DEF Report
<1>10. /\ \A o \in Mcus \ {m} : flags'[o] = flags[o] /\ report_time'[o] = report_time[o]
       /\ flags'[m] = {} /\ report_time'[m] = Never
  BY <1>1, <1>2
<1>11. McuOfRound(m) => McuOfRound(m)'
  <2> SUFFICES ASSUME McuOfRound(m) PROVE McuOfRound(m)'
    OBVIOUS
  <2>1. OfRound(cmdq'[m], round) /\ c.round = round
    BY <1>1, <1>2, <1>3, OfRoundTail DEF McuOfRound, c
  <2> QED BY <1>2, <1>8, <1>10, <2>1 DEF McuOfRound
<1> QED BY <1>2, <1>3, <1>8, <1>9, <1>10, <1>11 DEF McuStays

LEMMA McuStepStays ==
  ASSUME QInv, NEW m \in Mcus, McuStep(m) \/ (m = Main /\ EndstopEvent),
         UNCHANGED <<trdispatchVars, pyVars, pyq>>
  PROVE  McuStays(m)
<1>1. CASE ExpireEvent(m) \/ ReportEvent(m) \/ (m = Main /\ EndstopEvent)
  BY <1>1, TimerStays
<1>2. CASE ReportTask(m)
  BY <1>2, ReportTaskStays
<1>3. CASE TrsyncStart(m) \/ StopOnTrigger(m) \/ SetTimeout(m) \/ EndstopHome(m)
  BY <1>3, CommandStays
<1>4. CASE TrsyncTrigger(m)
  BY <1>4, TrsyncTriggerStays
<1> QED BY <1>1, <1>2, <1>3, <1>4 DEF McuStep

-----------------------------------------------------------------------------
(* The steps of the host *)

(* A command that home_start, home_wait or a handler sends is of the present
   homing. *)
LEMMA SentRounds ==
  ASSUME TypeOK, RoundsInv, NEW m \in Mcus, NEW t \in Seq(Command), Send(m, t),
         OfRound(t, round), UNCHANGED <<mcuVars, rspq, round>>
  PROVE  /\ \A o \in Mcus : McuOfRound(o)'
         /\ cmdq'[m] = cmdq[m] \o t /\ \A o \in Mcus \ {m} : cmdq'[o] = cmdq[o]
<1>1. /\ cmdq'[m] = cmdq[m] \o t /\ cmdq[m] \in Seq(Command)
      /\ \A o \in Mcus \ {m} : cmdq'[o] = cmdq[o]
  BY SendEffect DEF TypeOK
<1>2. \A o \in Mcus : McuOfRound(o)
  BY DEF RoundsInv
<1>3. OfRound(cmdq'[m], round)
  BY <1>1, <1>2, OfRoundConcat DEF McuOfRound
<1>4. UNCHANGED <<rspq, round, flags, report_time, homing>>
  BY DEF mcuVars
<1>5. \A o \in Mcus : McuOfRound(o)'
  BY <1>1, <1>2, <1>3, <1>4 DEF McuOfRound
<1> QED BY <1>1, <1>5

(* The same for a step that sends nothing. *)
LEMMA SameRounds ==
  ASSUME RoundsInv, UNCHANGED <<mcuVars, linkVars, round>>
  PROVE  \A o \in Mcus : McuOfRound(o)'
  BY DEF RoundsInv, McuOfRound, mcuVars, linkVars

LEMMA HostInputRounds ==
  ASSUME QInv, LossesInv, RoundsInv, NEW m \in Mcus, HostInput(m)
  PROVE  LossesInv' /\ RoundsInv'
<1> DEFINE r == Head(rspq[m])
<1>1. /\ rspq[m] # <<>>
      /\ rspq' = [rspq EXCEPT ![m] = Tail(@)]
      /\ pyq' = [pyq EXCEPT ![m] = Append(@, r)]
      /\ dispatching' = dispatching \/ dispatching' = [dispatching EXCEPT ![m] = <<r>>]
      /\ UNCHANGED <<mcuVars, cmdq, pc, k, round, retries_left, last_params, lost>>
  BY DEF HostInput, pyVars, mcuVars
<1>2. /\ rspq \in [Mcus -> Seq(Response)] /\ pyq \in [Mcus -> Seq(Response)]
      /\ dispatching \in [Mcus -> Seq(Response)]
  BY DEF QInv, TypeOK, McuTypeOK, TrDispatchTypeOK
<1>3. r \in Response
  BY <1>1, <1>2, TailProps
<1> HIDE DEF r
<1>4. /\ rspq'[m] = Tail(rspq[m]) /\ pyq'[m] = pyq[m] \o <<r>>
      /\ dispatching'[m] = dispatching[m] \/ dispatching'[m] = <<r>>
      /\ \A o \in Mcus \ {m} : /\ rspq'[o] = rspq[o] /\ pyq'[o] = pyq[o]
                               /\ dispatching'[o] = dispatching[o]
  <2>1. Append(pyq[m], r) = pyq[m] \o <<r>>
    BY <1>2, <1>3, ConcatAcks
  <2> QED BY <1>1, <1>2, <2>1
<1>5. <<r>> \in Seq(Response)
  BY <1>3
<1>6. RoundsInv'
  <2> SUFFICES ASSUME NEW o \in Mcus PROVE McuOfRound(o)' /\ HostOfRound(o)'
    BY DEF RoundsInv
  <2>1. McuOfRound(o) /\ HostOfRound(o)
    BY DEF RoundsInv
  <2>2. UNCHANGED <<round, cmdq, flags, report_time, homing>>
    BY <1>1 DEF mcuVars
  <2>3. CASE o # m
    BY <1>4, <2>1, <2>2, <2>3 DEF McuOfRound, HostOfRound
  <2>4. CASE o = m
    <3>1. OfRound(rspq'[m], round) /\ r.round = round
      BY <1>1, <1>2, <1>4, <2>1, <2>4, OfRoundTail DEF McuOfRound, r
    <3>2. OfRound(<<r>>, round)
      BY <3>1, OfRoundOne
    <3>3. OfRound(pyq'[m], round)
      BY <1>2, <1>4, <1>5, <2>1, <2>4, <3>2, OfRoundConcat DEF HostOfRound
    <3>4. OfRound(dispatching'[m], round)
      BY <1>4, <2>1, <2>4, <3>2 DEF HostOfRound
    <3> QED BY <2>1, <2>2, <2>4, <3>1, <3>3, <3>4 DEF McuOfRound, HostOfRound
  <2> QED BY <2>3, <2>4
<1>7. LossesInv'
  <2>1. PICK m0 \in Mcus : m0 = trsyncs[k]
    BY TrsyncsBefore DEF QInv
  <2>2. NotAck(rspq[m]) => NotAck(rspq'[m]) \/ NotAck(pyq'[m])
    <3>1. CASE r.ack
      BY <1>1, <1>2, <1>4, <3>1, NotAckTail DEF r
    <3>2. CASE ~r.ack
      <4>1. NotAck(<<r>>)
        BY <3>2 DEF NotAck
      <4> QED BY <1>2, <1>4, <1>5, <4>1, NotAckConcat
    <3> QED BY <3>1, <3>2
  <2>3. NotAck(pyq[m]) => NotAck(pyq'[m])
    BY <1>2, <1>4, <1>5, NotAckConcat
  <2> QED BY <1>1, <1>4, <2>1, <2>2, <2>3 DEF LossesInv
<1> QED BY <1>6, <1>7

(* A handler that runs while a query waits is the query's. *)
LEMMA PyHandleRounds ==
  ASSUME QInv, LossesInv, RoundsInv, NEW m \in Mcus, PyHandle(m)
  PROVE  LossesInv' /\ RoundsInv'
<1> DEFINE r == Head(pyq[m])
           c == Cmd("trsync_trigger", 0, "past_end_time")
<1>1. /\ pyq[m] # <<>>
      /\ pyq' = [pyq EXCEPT ![m] = Tail(@)]
      /\ last_params' = IF ~r.ack /\ handler[m] = "query"
                        THEN <<r.trigger_reason>> ELSE last_params
      /\ UNCHANGED <<pc, k, round, retries_left, mcuVars, lost, rspq, dispatching>>
  BY DEF PyHandle, trdispatchVars, mcuVars
<1>2. \/ UNCHANGED cmdq
      \/ handler[m] = "trsync" /\ Send(m, <<c>>)
  BY DEF PyHandle, PyHandleTrsyncState
<1>3. pyq \in [Mcus -> Seq(Response)] /\ TypeOK
  BY DEF QInv, TypeOK
<1>4. pyq'[m] = Tail(pyq[m]) /\ \A o \in Mcus \ {m} : pyq'[o] = pyq[o]
  BY <1>1, <1>3
<1>5. c \in Command /\ c.round = round
  BY <1>3, CmdType DEF Time, Reasons
<1> HIDE DEF c
<1>6. /\ \A o \in Mcus : McuOfRound(o)'
      /\ handler[m] # "trsync" => cmdq' = cmdq
      /\ \A o \in Mcus \ {m} : cmdq'[o] = cmdq[o]
  <2>1. CASE UNCHANGED cmdq
    BY <1>1, <2>1, SameRounds DEF linkVars
  <2>2. CASE handler[m] = "trsync" /\ Send(m, <<c>>)
    <3>1. <<c>> \in Seq(Command) /\ OfRound(<<c>>, round)
      BY <1>5, OfRoundOne
    <3> QED BY <1>1, <1>3, <2>2, <3>1, SentRounds
  <2> QED BY <1>2, <2>1, <2>2
<1>7. RoundsInv'
  <2>1. OfRound(pyq'[m], round)
    BY <1>1, <1>3, <1>4, OfRoundTail DEF RoundsInv, HostOfRound
  <2>2. \A o \in Mcus : HostOfRound(o)'
    BY <1>1, <1>4, <2>1 DEF RoundsInv, HostOfRound
  <2> QED BY <1>6, <2>2 DEF RoundsInv
<1>8. LossesInv'
  <2> SUFFICES ASSUME pc = "ack" PROVE LossesInv'
    BY <1>1 DEF LossesInv
  <2>1. PICK m0 \in Mcus : m0 = trsyncs[k]
    BY TrsyncsBefore DEF QInv
  <2>2. handler[m0] = "query"
    BY <2>1 DEF QInv, QueryInv, QueryState
  <2>3. cmdq'[m0] = cmdq[m0]
    BY <1>6, <2>2
  <2>4. last_params # NoParams => last_params' # NoParams
    BY <1>1 DEF NoParams
  <2>5. NotAck(pyq[m0]) => NotAck(pyq'[m0]) \/ last_params' # NoParams
    <3>1. CASE m0 # m
      BY <1>4, <3>1
    <3>2. CASE m0 = m /\ r.ack
      BY <1>1, <1>3, <1>4, <3>2, NotAckTail
    <3>3. CASE m0 = m /\ ~r.ack
      BY <1>1, <2>2, <3>3 DEF NoParams
    <3> QED BY <3>1, <3>2, <3>3
  <2> HIDE DEF r
  <2> QED BY <1>1, <2>1, <2>3, <2>4, <2>5 DEF LossesInv
<1> QED BY <1>7, <1>8

(* The fast reader passes a trigger on, or extends timeouts, in the homing
   that the report belongs to. *)
LEMMA FastReadRounds ==
  ASSUME QInv, LossesInv, RoundsInv, NEW m \in Mcus, FastRead(m),
         UNCHANGED <<pyVars, pyq>>
  PROVE  LossesInv' /\ RoundsInv'
<1> DEFINE r == dispatching[m][1]
<1>1. /\ dispatching[m] # <<>> /\ handle_trsync_state(r, m)
      /\ dispatching' = [dispatching EXCEPT ![m] = <<>>]
      /\ UNCHANGED <<mcuVars, rspq, pc, round, pyq>>
  BY DEF FastRead, pyVars
<1>2. dispatching \in [Mcus -> Seq(Response)] /\ TypeOK /\ cmdq \in [Mcus -> Seq(Command)]
  BY DEF QInv, TypeOK, TrDispatchTypeOK, McuTypeOK
<1>3. 1 \in DOMAIN dispatching[m] /\ r \in Response
  BY <1>1, <1>2, TailProps
<1>4. r.clock # Never /\ r.round = round
  BY <1>3 DEF QInv, ReportsInv, ClocksOK, RoundsInv, HostOfRound, OfRound
<1> HIDE DEF r
<1>5. \A o \in Mcus :
         \/ cmdq'[o] = cmdq[o]
         \/ \E c \in Command : c.round = round /\ cmdq'[o] = cmdq[o] \o <<c>>
  BY <1>1, <1>2, <1>3, <1>4, HandleStateEffect
<1>6. RoundsInv'
  <2> SUFFICES ASSUME NEW o \in Mcus PROVE McuOfRound(o)' /\ HostOfRound(o)'
    BY DEF RoundsInv
  <2>1. McuOfRound(o) /\ HostOfRound(o)
    BY DEF RoundsInv
  <2>2. UNCHANGED <<round, rspq, pyq, flags, report_time, homing>>
    BY <1>1 DEF mcuVars
  <2>3. OfRound(cmdq'[o], round)
    <3>1. CASE cmdq'[o] = cmdq[o]
      BY <2>1, <3>1 DEF McuOfRound
    <3>2. ASSUME NEW c \in Command, c.round = round, cmdq'[o] = cmdq[o] \o <<c>>
          PROVE  OfRound(cmdq'[o], round)
      <4>1. <<c>> \in Seq(Command) /\ OfRound(<<c>>, round)
        BY <3>2, OfRoundOne
      <4> QED BY ZenonT(40), <1>2, <2>1, <3>2, <4>1, OfRoundConcat DEF McuOfRound
    <3> QED BY <1>5, <3>1, <3>2
  <2>4. OfRound(dispatching'[o], round)
    <3>1. OfRound(<<>>, round)
      BY DEF OfRound
    <3>2. dispatching'[o] = dispatching[o] \/ dispatching'[o] = <<>>
      BY <1>1, <1>2
    <3> QED BY <2>1, <3>1, <3>2 DEF HostOfRound
  <2> QED BY <2>1, <2>2, <2>3, <2>4 DEF McuOfRound, HostOfRound
<1>7. pc' # "ack"
  BY <1>1 DEF QInv, ReadersInv
<1> QED BY <1>6, <1>7 DEF LossesInv

(* The steps of home_start and home_wait before a query is answered. *)
LEMMA ReactorRounds ==
  ASSUME QInv, RoundsInv,
         StartTrsync \/ trdispatch_start \/ AddFastreader \/ SendEndstopHome
           \/ HomeWait \/ EndstopOff \/ RemoveFastreader \/ StopTrsync \/ QueryRetry
  PROVE  RoundsInv'
<1>1. UNCHANGED <<mcuVars, rspq, round, pyq, dispatching>>
  BY DEF StartTrsync, trdispatch_start, AddFastreader, SendEndstopHome, HomeWait,
     EndstopOff, RemoveFastreader, StopTrsync, QueryRetry, trdispatchVars, linkVars,
     trdispatch_mcu_setup
<1>2. PICK m0 \in Mcus : m0 = trsyncs[k]
  BY TrsyncsBefore DEF QInv
<1>3. TypeOK /\ home_clock \in Nat /\ 0 \in Time /\ "none" \in Reasons
      /\ "host_request" \in Reasons
  BY DEF QInv, TypeOK, Time, Reasons
<1>4. ASSUME NEW t \in Seq(Command), NEW m \in Mcus, Send(m, t), OfRound(t, round)
      PROVE  \A o \in Mcus : McuOfRound(o)'
  BY <1>1, <1>3, <1>4, SentRounds
<1>5. ASSUME NEW c \in Command, c.round = round, NEW m \in Mcus, Send(m, <<c>>)
      PROVE  \A o \in Mcus : McuOfRound(o)'
  <2>1. <<c>> \in Seq(Command) /\ OfRound(<<c>>, round)
    BY <1>5, OfRoundOne
  <2> QED BY <1>4, <1>5, <2>1
<1>6. \A o \in Mcus : McuOfRound(o)'
  <2>1. CASE trdispatch_start \/ AddFastreader \/ HomeWait \/ RemoveFastreader
    <3>1. UNCHANGED linkVars
      BY <2>1 DEF trdispatch_start, AddFastreader, HomeWait, RemoveFastreader
    <3> QED BY <1>1, <3>1, SameRounds
  <2>2. CASE SendEndstopHome
    <3> DEFINE c == Cmd("endstop_home", home_clock, "none")
    <3>1. Send(Main, <<c>>)
      BY <2>2 DEF SendEndstopHome
    <3>2. c \in Command /\ c.round = round
      BY <1>3, CmdType DEF Time
    <3> HIDE DEF c
    <3> QED BY <1>5, <3>1, <3>2, McusAssumption
  <2>3. CASE EndstopOff
    <3> DEFINE c == Cmd("endstop_off", 0, "none")
    <3>1. Send(Main, <<c>>)
      BY <2>3 DEF EndstopOff
    <3>2. c \in Command /\ c.round = round
      BY <1>3, CmdType
    <3> HIDE DEF c
    <3> QED BY <1>5, <3>1, <3>2, McusAssumption
  <2>4. CASE StopTrsync \/ QueryRetry
    <3> DEFINE c == Cmd("trsync_query", 0, "host_request")
    <3>1. Send(m0, <<c>>)
      BY <1>2, <2>4 DEF StopTrsync, QueryRetry
    <3>2. c \in Command /\ c.round = round
      BY <1>3, CmdType
    <3> HIDE DEF c
    <3> QED BY <1>5, <3>1, <3>2
  <2>5. CASE StartTrsync
    <3> DEFINE report_clock == home_clock
                      + (2 * ReportTicks * (k - 1) + N) \div (2 * N)
               a == Cmd("trsync_start", report_clock, "none")
               b == Cmd("stepper_stop_on_trigger", 0, "none")
               c == Cmd("trsync_set_timeout", home_clock + ExpireTicks, "none")
               bs == IF m0 \in Steppers THEN <<b>> ELSE <<>>
    <3>1. Send(m0, <<a>> \o bs \o <<c>>)
      BY <1>2, <2>5 DEF StartTrsync
    <3>2. report_clock \in Time /\ home_clock + ExpireTicks \in Time
      <4>1. k \in 1..N /\ N \in Nat /\ N >= 1 /\ ReportTicks \in Nat /\ ExpireTicks \in Nat
        BY TrsyncsProps, TicksAssumption, ExpireAssumption, <1>3 DEF TypeOK
      <4>2. 2 * ReportTicks * (k - 1) + N \in Nat /\ 2 * N \in Nat \ {0}
        <5>1. k - 1 \in Nat /\ 2 * ReportTicks \in Nat
          BY <4>1
        <5>2. \A x, y \in Nat : x * y \in Nat
          OBVIOUS
        <5>3. 2 * ReportTicks * (k - 1) \in Nat
          BY <5>1, <5>2
        <5> QED BY <4>1, <5>3
      <4>3. \A x \in Nat, y \in Nat \ {0} : x \div y \in Nat
        OBVIOUS
      <4>4. (2 * ReportTicks * (k - 1) + N) \div (2 * N) \in Nat
        BY <4>2, <4>3
      <4> QED BY <1>3, <4>1, <4>4 DEF Time
    <3> HIDE DEF report_clock
    <3>3. /\ a \in Command /\ a.round = round /\ b \in Command /\ b.round = round
          /\ c \in Command /\ c.round = round
      BY <1>3, <3>2, CmdType
    <3> HIDE DEF a, b, c
    <3>4. <<a>> \in Seq(Command) /\ bs \in Seq(Command) /\ <<c>> \in Seq(Command)
      BY <3>3
    <3>5. OfRound(<<a>>, round) /\ OfRound(bs, round) /\ OfRound(<<c>>, round)
      BY <3>3, OfRoundOne
    <3> HIDE DEF bs
    <3>6. <<a>> \o bs \in Seq(Command) /\ <<a>> \o bs \o <<c>> \in Seq(Command)
      BY <3>4
    <3>7. OfRound(<<a>> \o bs, round)
      BY <3>4, <3>5, OfRoundConcat
    <3>8. OfRound(<<a>> \o bs \o <<c>>, round)
      BY <3>4, <3>5, <3>6, <3>7, OfRoundConcat
    <3> QED BY <1>4, <3>1, <3>6, <3>8
  <2> QED BY <2>1, <2>2, <2>3, <2>4, <2>5
<1> QED BY <1>1, <1>6 DEF RoundsInv, HostOfRound

(* A homing begins when nothing of the last one is under way. *)
LEMMA HomeStartRounds ==
  ASSUME QInv, IdleInv, HomeStart
  PROVE  RoundsInv'
<1>1. pc = "idle" /\ UNCHANGED <<mcuVars, linkVars, trdispatchVars, pyq>>
  BY DEF HomeStart
<1>2. \A m \in Mcus : Stopped(m) /\ dispatching[m] = <<>>
  BY <1>1 DEF IdleInv, QInv, ReadersInv
<1>3. ASSUME NEW m \in Mcus
      PROVE  McuOfRound(m)' /\ HostOfRound(m)'
  <2>1. /\ cmdq'[m] = <<>> /\ rspq'[m] = <<>> /\ pyq'[m] = <<>> /\ dispatching'[m] = <<>>
        /\ flags'[m] = {} /\ report_time'[m] = Never
    BY <1>1, <1>2 DEF Stopped, Quiet, mcuVars, linkVars, trdispatchVars
  <2>2. OfRound(<<>>, round')
    BY DEF OfRound
  <2> QED BY <2>1, <2>2 DEF McuOfRound, HostOfRound
<1> QED BY <1>3 DEF RoundsInv

(* A query is sent: stop() asks for the reason, or asks again. *)
LEMMA QuerySentLosses ==
  ASSUME QInv, LossesInv, StopTrsync \/ QueryRetry
  PROVE  LossesInv'
<1>1. PICK m0 \in Mcus : m0 = trsyncs[k]
  BY TrsyncsBefore DEF QInv
<1> DEFINE c == Cmd("trsync_query", 0, "host_request")
<1>2. Send(m0, <<c>>) /\ UNCHANGED <<k, lost>>
  BY <1>1 DEF StopTrsync, QueryRetry, mcuVars
<1>3. TypeOK /\ McuTypeOK /\ lost \in Nat /\ retries_left \in Nat /\ Retries \in Nat
  BY TicksAssumption, HomingAssumption DEF QInv, TypeOK, McuTypeOK
<1>4. c \in Command
  BY <1>3, CmdType DEF Time, Reasons
<1> HIDE DEF c
<1>5. <<c>> \in Seq(Command) /\ Len(<<c>>) = 1
  BY <1>4
<1>6. cmdq'[m0] # <<>>
  <2>1. cmdq'[m0] = cmdq[m0] \o <<c>> /\ cmdq[m0] \in Seq(Command)
    BY <1>2, <1>3, <1>5, SendEffect
  <2>2. Len(cmdq'[m0]) = Len(cmdq[m0]) + 1 /\ Len(cmdq[m0]) \in Nat
        /\ cmdq'[m0] \in Seq(Command)
    BY <1>4, <2>1, ConcatTwo
  <2> QED BY <2>2, EmptyQueue
<1>7. lost' >= Retries - retries_left'
  <2>1. CASE StopTrsync
    <3>1. retries_left' = Retries
      BY <2>1 DEF StopTrsync
    <3> QED BY <1>2, <1>3, <3>1
  <2>2. CASE QueryRetry
    <3>1. /\ pc = "ack" /\ acked /\ last_params = NoParams
          /\ retries_left' = retries_left - 1
      BY <2>2 DEF QueryRetry
    <3>2. cmdq[m0] = <<>> /\ pyq[m0] = <<>> /\ rspq[m0] = <<>>
      BY <1>1, <3>1 DEF QInv, QueryInv, QueryState, Quiet
    <3>3. lost >= Retries - retries_left + 1
      BY <1>1, <3>1, <3>2 DEF LossesInv, NotAck
    <3> QED BY <1>2, <1>3, <3>1, <3>3
  <2> QED BY <2>1, <2>2
<1> QED BY <1>1, <1>2, <1>6, <1>7 DEF LossesInv

(* A query that failed has lost all its responses. *)
LEMMA QueryFailedLosses ==
  ASSUME QInv, LossesInv, QueryFailed
  PROVE  MaxLost > Retries
<1>1. PICK m0 \in Mcus : m0 = trsyncs[k]
  BY TrsyncsBefore DEF QInv
<1>2. pc = "ack" /\ acked /\ last_params = NoParams /\ retries_left = 0
  BY DEF QueryFailed
<1>3. cmdq[m0] = <<>> /\ pyq[m0] = <<>> /\ rspq[m0] = <<>>
  BY <1>1, <1>2 DEF QInv, QueryInv, QueryState, Quiet
<1>4. lost >= Retries - retries_left + 1
  BY <1>1, <1>2, <1>3 DEF LossesInv, NotAck
<1>5. lost \in 0..MaxLost /\ MaxLost \in Nat /\ Retries \in Nat
  BY TicksAssumption, HomingAssumption DEF QInv, TypeOK, McuTypeOK
<1> QED BY <1>2, <1>4, <1>5

-----------------------------------------------------------------------------
(* Between two homings *)

(* When all is stopped, only the next homing or time can go on. *)
LEMMA NothingToDo ==
  ASSUME QInv, IdleInv, pc = "idle", NEW m \in Mcus
  PROVE  ~HostInput(m) /\ ~PyHandle(m) /\ ~FastRead(m) /\ ~McuStep(m) /\ ~EndstopEvent
<1>1. Stopped(m) /\ Stopped(Main) /\ dispatching[m] = <<>>
  BY McusAssumption DEF IdleInv, QInv, ReadersInv
<1>2. ~HostInput(m) /\ ~PyHandle(m) /\ ~FastRead(m)
  BY <1>1 DEF Stopped, HostInput, PyHandle, FastRead
<1>3. ~EndstopEvent
  BY <1>1 DEF Stopped, Quiet, EndstopEvent
<1>4. ~ExpireEvent(m) /\ ~ReportEvent(m) /\ ~ReportTask(m)
  BY <1>1 DEF Stopped, Quiet, ExpireEvent, ReportEvent, ReportTask, Due
<1>5. ~TrsyncStart(m) /\ ~StopOnTrigger(m) /\ ~SetTimeout(m) /\ ~TrsyncTrigger(m)
      /\ ~EndstopHome(m)
  BY <1>1 DEF Stopped, Quiet, TrsyncStart, StopOnTrigger, SetTimeout, TrsyncTrigger,
     EndstopHome, NextCommand
<1> QED BY <1>2, <1>3, <1>4, <1>5 DEF McuStep

LEMMA QueryAnsweredIdle ==
  ASSUME QInv, QInv', QueryAnswered
  PROVE  IdleInv'
<1> SUFFICES ASSUME pc' = "idle" PROVE \A m \in Mcus : Stopped(m)'
  BY DEF IdleInv
<1>1. result' = HomeWaitResult(res')
  BY DEF QueryAnswered, NextTrsync
<1>2. result' \in {"hit", "no_trigger", "timeout"}
  BY <1>1 DEF HomeWaitResult
<1> QED BY <1>2 DEF QInv, StoppedInv

LEMMA QueryFailedIdle ==
  ASSUME NoFailure, QInv, QInv', LossesInv, QueryFailed
  PROVE  IdleInv'
<1>1. Mcus = {Main}
  <2>1. MaxLost > Retries
    BY QueryFailedLosses
  <2> QED BY <2>1, TicksAssumption, HomingAssumption DEF NoFailure
<1>2. pc' = "idle"
  BY DEF QueryFailed
<1> QED BY <1>1, <1>2 DEF QInv, StoppedInv, IdleInv

-----------------------------------------------------------------------------
(* The theorem *)

LEMMA RInvInit == Init => RInv
<1> SUFFICES ASSUME Init PROVE RInv
  OBVIOUS
<1>1. QInv
  BY QInvInit
<1>2. pc = "idle"
  BY DEF Init
<1>3. /\ \A m \in Mcus : /\ flags[m] = {} /\ report_time[m] = Never /\ cmdq[m] = <<>>
                         /\ rspq[m] = <<>> /\ pyq[m] = <<>> /\ dispatching[m] = <<>>
                         /\ expire_time[m] = Never /\ ~signal[m] /\ handler[m] = "none"
      /\ trigger_completion = {} /\ endstop = "off"
  BY DEF Init, McuInit, TrDispatchInit
<1>4. OfRound(<<>>, round)
  BY DEF OfRound
<1>5. RoundsInv
  BY <1>3, <1>4 DEF RoundsInv, McuOfRound, HostOfRound
<1>6. IdleInv
  BY <1>3 DEF IdleInv, Stopped, Quiet
<1> QED BY <1>1, <1>2, <1>5, <1>6 DEF RInv, LossesInv

LEMMA RInvStutter ==
  ASSUME RInv, TimePasses \/ UNCHANGED vars
  PROVE  LossesInv' /\ RoundsInv' /\ IdleInv'
<1>1. UNCHANGED <<mcuVars, linkVars, trdispatchVars, pyVars, pyq>>
  BY DEF TimePasses, Tick, vars
<1> USE <1>1 DEF mcuVars, linkVars, trdispatchVars, pyVars
<1>2. LossesInv'
  BY DEF RInv, LossesInv
<1>3. RoundsInv'
  BY DEF RInv, RoundsInv, McuOfRound, HostOfRound
<1>4. IdleInv'
  BY DEF RInv, IdleInv, Stopped, Quiet
<1> QED BY <1>2, <1>3, <1>4

LEMMA RInvNext ==
  ASSUME NoFailure, RInv, [Next]_vars
  PROVE  RInv'
<1>1. QInv /\ QInv' /\ LossesInv /\ RoundsInv /\ IdleInv
  BY QInvNext DEF RInv
<1>2. CASE TimePasses \/ UNCHANGED vars
  BY <1>1, <1>2, RInvStutter DEF RInv
<1>3. CASE HostStep
  <2>1. CASE HomeStart
    <3>1. pc' = "start"
      BY <2>1 DEF HomeStart
    <3> QED BY <1>1, <2>1, <3>1, HomeStartRounds DEF RInv, LossesInv, IdleInv
  <2>2. CASE StartTrsync \/ trdispatch_start \/ AddFastreader \/ SendEndstopHome
             \/ HomeWait \/ EndstopOff \/ RemoveFastreader
    <3>1. pc' \notin {"idle", "ack"}
      BY <2>2 DEF StartTrsync, trdispatch_start, AddFastreader, SendEndstopHome,
         HomeWait, EndstopOff, RemoveFastreader, NextTrsync
    <3>2. RoundsInv'
      BY <1>1, <2>2, ReactorRounds
    <3> QED BY <1>1, <3>1, <3>2 DEF RInv, LossesInv, IdleInv
  <2>3. CASE StopTrsync \/ QueryRetry
    <3>1. pc' = "ack"
      BY <2>3 DEF StopTrsync, QueryRetry
    <3>2. RoundsInv'
      BY <1>1, <2>3, ReactorRounds
    <3> QED BY <1>1, <2>3, <3>1, <3>2, QuerySentLosses DEF RInv, IdleInv
  <2>4. CASE QueryAnswered \/ QueryFailed
    <3>1. pc' # "ack" /\ UNCHANGED <<mcuVars, linkVars, round, pyq, dispatching>>
      BY <2>4 DEF QueryAnswered, QueryFailed, NextTrsync, trdispatchVars
    <3>2. RoundsInv'
      BY <1>1, <3>1, SameRounds DEF RoundsInv, HostOfRound
    <3>3. IdleInv'
      BY <1>1, <2>4, QueryAnsweredIdle, QueryFailedIdle
    <3> QED BY <1>1, <3>1, <3>2, <3>3 DEF RInv, LossesInv
  <2> QED BY <1>3, <2>1, <2>2, <2>3, <2>4 DEF HostStep
<1>4. ASSUME NEW m \in Mcus,
             \/ HostInput(m) \/ PyHandle(m)
             \/ FastRead(m) /\ UNCHANGED <<pyVars, pyq>>
             \/ /\ McuStep(m) \/ (m = Main /\ EndstopEvent)
                /\ UNCHANGED <<trdispatchVars, pyVars, pyq>>
      PROVE  RInv'
  <2>1. pc # "idle" /\ pc' = pc
    BY <1>1, <1>4, NothingToDo DEF HostInput, PyHandle, pyVars
  <2>2. LossesInv' /\ RoundsInv'
    BY <1>1, <1>4, HostInputRounds, PyHandleRounds, FastReadRounds, McuStepStays,
       McuStaysInv
  <2> QED BY <1>1, <2>1, <2>2 DEF RInv, IdleInv
<1> QED BY <1>2, <1>3, <1>4 DEF Next

LEMMA NothingStale == RInv => NothingLeftOver
<1> SUFFICES ASSUME RInv PROVE NothingLeftOver
  OBVIOUS
<1>1. TypeOK /\ QuietAfterHoming
  BY QuietWhenStopped DEF RInv, QInv
<1>2. \A m \in Mcus : McuOfRound(m) /\ HostOfRound(m)
  BY DEF RInv, RoundsInv
<1>3. \A m \in Mcus : \A i, j \in DOMAIN cmdq[m] : cmdq[m][i].round <= cmdq[m][j].round
  <2>1. round \in Nat
    BY <1>1, HomingAssumption DEF TypeOK
  <2> QED BY <1>2, <2>1 DEF McuOfRound, OfRound
<1>4. NoStaleMessages
  BY <1>2, <1>3 DEF NoStaleMessages, HostOfRound, OfRound
<1> QED BY <1>1, <1>4 DEF NothingLeftOver

(***************************************************************************)
(* Nothing is left over from one homing to the next (trdispatch and        *)
(* _handle_trsync_state take every trsync_state message for one of the     *)
(* homing that runs), when there is one micro-controller or fewer reports  *)
(* are lost than a query has tries.                                        *)
(***************************************************************************)
THEOREM HomingsApart ==
  ASSUME NoFailure
  PROVE  Spec => []NothingLeftOver
<1>1. RInv /\ [Next]_vars => RInv'
  BY RInvNext
<1> QED BY RInvInit, <1>1, NothingStale, PTL DEF Spec

-----------------------------------------------------------------------------
(* What home_wait makes of the reasons *)

CanReport(r) == ~r.ack /\ r.can_trigger
FinalReport(r) == ~r.ack /\ ~r.can_trigger
NoCanIn(q) == \A i \in DOMAIN q : ~CanReport(q[i])
FinalIn(q) == \E i \in DOMAIN q : FinalReport(q[i])
HasOp(q, op) == \E i \in DOMAIN q : q[i].op = op

(* The trsync of m has triggered, and its reason stays. *)
Over(m) == "can_trigger" \notin flags[m] /\ NoOp(cmdq[m], {"trsync_start"})
(* No report that it can still trigger is on its way any more. *)
NoCan(m) == Over(m) /\ NoCanIn(pyq[m]) /\ NoCanIn(rspq[m])

(* Reports tell the truth, in the order of the events; before trsync_start
   has been carried out there are none. *)
ReasonsOK(q, reason) ==
  \A i \in DOMAIN q : /\ CanReport(q[i]) => q[i].trigger_reason = "none"
                      /\ FinalReport(q[i]) => q[i].trigger_reason = reason
Ordered(q) == \A i, j \in DOMAIN q : i < j /\ FinalReport(q[i]) => ~CanReport(q[j])
Unstarted(m) == /\ rspq[m] = <<>> /\ pyq[m] = <<>> /\ flags[m] = {}
                /\ report_time[m] = Never
McuSound(m) ==
  /\ "can_trigger" \in flags[m] => trigger_reason[m] = "none"
  /\ ReasonsOK(pyq[m], trigger_reason[m])
  /\ ReasonsOK(rspq[m], trigger_reason[m])
  /\ Ordered(pyq[m]) /\ Ordered(rspq[m])
  /\ FinalIn(pyq[m]) => NoCanIn(rspq[m])
  /\ FinalIn(pyq[m]) \/ FinalIn(rspq[m]) => Over(m)
  /\ \A i \in DOMAIN cmdq[m] : cmdq[m][i].op = "trsync_start" => i = 1 /\ Unstarted(m)

SoundInv == \A m \in Mcus : McuSound(m)
StartedInv == pc = "start" => \A i \in k..N : Stopped(trsyncs[i])

(* While home_start sets the homing up nothing can trigger: its print time
   has not passed, and all timeouts are behind it. *)
SettingUp == pc \in {"start", "dispatch", "add", "endstop"}
EarlyCommand(c) ==
  /\ c.op \notin {"trsync_trigger", "trsync_query"}
  /\ c.op = "trsync_set_timeout" => c.clock > home_clock
  /\ c.op = "trsync_start" => c.clock >= home_clock
EarlyCommands(q) == \A i \in DOMAIN q : EarlyCommand(q[i])
EarlyMcu(m) ==
  /\ flags[m] # {} \/ report_time[m] # Never => "can_trigger" \in flags[m]
  /\ "report" \in flags[m] => now >= home_clock
  /\ report_time[m] # Never => report_time[m] >= home_clock
  /\ expire_time[m] # Never => expire_time[m] > home_clock
EarlyReports(q) == \A i \in DOMAIN q : q[i].can_trigger /\ q[i].clock >= home_clock
EarlyHost(m) ==
  /\ EarlyReports(pyq[m]) /\ EarlyReports(dispatching[m])
  /\ handler[m] # "none" => home_end[m] = Never
SetUpInv ==
  SettingUp =>
    /\ now <= home_clock /\ ~completed
    /\ pc \in {"add", "endstop"} => can_trigger
    /\ pc # "start" => \A m \in Mcus : last_status_clock[m] >= home_clock
    /\ pc = "start" => \A i \in 1..(k-1) : last_status_clock[trsyncs[i]] >= home_clock
    /\ \A m \in Mcus : /\ EarlyMcu(m) /\ EarlyHost(m)
                       /\ EarlyCommands(cmdq[m]) /\ EarlyReports(rspq[m])

AddedInv ==
  /\ pc = "add" => \A i \in 1..(k-1) : trsyncs[i] \in fastreaders
  /\ pc \in {"endstop", "moving", "wait"} => fastreaders = Mcus

(* A trigger that wakes home_wait up has passed trdispatch, or is passing. *)
Passing == \E m \in Mcus : \E i \in DOMAIN dispatching[m] : ~dispatching[m][i].can_trigger
PassedInv ==
  \/ pc \in {"moving", "wait"} /\ (completed \/ \E m \in Mcus : FinalIn(pyq[m]))
  \/ pc \in {"remove", "stop", "ack"}
  => ~can_trigger \/ Passing

(* Then every trsync is told to trigger, so that a report of the reason is
   the last that it sends. *)
Told(m) == \/ HasOp(cmdq[m], "trsync_trigger") \/ FinalIn(pyq[m]) \/ FinalIn(rspq[m])
           \/ lost >= 1 \/ NoCan(m)
ToldInv ==
  pc \in {"moving", "wait", "remove", "stop", "ack"} /\ ~can_trigger =>
    \A m \in Mcus : Told(m)

(* The response that a query takes for its answer, ... *)
Known(m) ==
  \/ NoCan(m) /\ last_params \in {NoParams, <<trigger_reason[m]>>}
  \/ HasOp(cmdq[m], "trsync_trigger") \/ FinalIn(pyq[m]) \/ FinalIn(rspq[m])
  \/ lost >= 1 /\ cmdq[m] # <<>>
  \/ lost >= 2
LastOK(m) ==
  \/ last_params \in {NoParams, <<"none">>}
  \/ Over(m) /\ last_params = <<trigger_reason[m]>>
AnswerInv == pc = "ack" => Known(trsyncs[k]) /\ LastOK(trsyncs[k])
HandlerInv == \A m \in Mcus : handler[m] = "query" => pc = "ack" /\ m = trsyncs[k]

(* ... and the reason that stop() returns. *)
ResOK(m) == res[m] = trigger_reason[m] \/ (res[m] = "none" /\ lost >= 2)
ResInv ==
  /\ pc \in {"stop", "ack"} => \A i \in 1..(k-1) : ResOK(trsyncs[i])
  /\ pc = "idle" /\ result \in {"hit", "no_trigger", "timeout"} =>
       result = HomeWaitResult(res) /\ \A m \in Mcus : ResOK(m)

HitInv == /\ SoundInv /\ StartedInv /\ SetUpInv /\ AddedInv /\ PassedInv
          /\ ToldInv /\ AnswerInv /\ HandlerInv /\ ResInv

-----------------------------------------------------------------------------
(* Queues *)

(* A command has been taken from the front. *)
LEMMA TailOps ==
  ASSUME NEW q \in Seq(Command), q # <<>>
  PROVE  /\ \A op : HasOp(q, op) /\ Head(q).op # op => HasOp(Tail(q), op)
         /\ EarlyCommands(q) => EarlyCommands(Tail(q)) /\ EarlyCommand(Head(q))
         /\ \A i \in DOMAIN Tail(q) : i + 1 \in DOMAIN q /\ i + 1 # 1
                                      /\ Tail(q)[i] = q[i+1]
<1>1. /\ Head(q) = q[1] /\ 1 \in DOMAIN q /\ Len(q) \in Nat
      /\ DOMAIN q = 1..Len(q) /\ DOMAIN Tail(q) = 1..(Len(q) - 1)
      /\ \A i \in DOMAIN Tail(q) : i + 1 \in DOMAIN q /\ Tail(q)[i] = q[i+1]
  BY TailProps
<1>2. ASSUME NEW op, HasOp(q, op), Head(q).op # op
      PROVE  HasOp(Tail(q), op)
  <2>1. PICK i \in DOMAIN q : q[i].op = op
    BY <1>2 DEF HasOp
  <2>2. i # 1
    BY <1>1, <1>2, <2>1
  <2>3. i - 1 \in DOMAIN Tail(q) /\ (i - 1) + 1 = i
    BY <1>1, <2>2
  <2>4. Tail(q)[i - 1] = q[i]
    BY <1>1, <2>3
  <2> QED BY <2>1, <2>3, <2>4 DEF HasOp
<1>3. EarlyCommands(q) => EarlyCommands(Tail(q)) /\ EarlyCommand(Head(q))
  BY <1>1 DEF EarlyCommands
<1>4. \A i \in DOMAIN Tail(q) : i + 1 # 1
  BY <1>1
<1> QED BY <1>1, <1>2, <1>3, <1>4

(* Commands have been added. *)
LEMMA MoreOps ==
  ASSUME NEW q \in Seq(Command), NEW t \in Seq(Command)
  PROVE  /\ \A op : HasOp(q, op) \/ HasOp(t, op) => HasOp(q \o t, op)
         /\ EarlyCommands(q) /\ EarlyCommands(t) => EarlyCommands(q \o t)
         /\ \A ops : NoOp(q, ops) /\ NoOp(t, ops) => NoOp(q \o t, ops)
<1>1. /\ \A i \in DOMAIN q : i \in DOMAIN (q \o t) /\ (q \o t)[i] = q[i]
      /\ \A i \in DOMAIN t : /\ Len(q) + i \in DOMAIN (q \o t)
                             /\ (q \o t)[Len(q) + i] = t[i]
  <2>1. /\ DOMAIN q = 1..Len(q) /\ Len(q) \in Nat /\ Len(t) \in Nat
        /\ DOMAIN (q \o t) = 1..(Len(q) + Len(t))
        /\ \A i \in DOMAIN q : (q \o t)[i] = q[i]
        /\ \A i \in DOMAIN t : /\ Len(q) + i \in DOMAIN (q \o t)
                               /\ (q \o t)[Len(q) + i] = t[i]
    BY ConcatProps
  <2> HIDE DEF HasOp
  <2> QED BY <2>1
<1>2. ASSUME NEW i \in DOMAIN (q \o t)
      PROVE  \/ \E j \in DOMAIN q : (q \o t)[i] = q[j]
             \/ \E j \in DOMAIN t : (q \o t)[i] = t[j]
  BY ConcatProps
<1>3. \A op : HasOp(q, op) \/ HasOp(t, op) => HasOp(q \o t, op)
  BY <1>1 DEF HasOp
<1>4. EarlyCommands(q) /\ EarlyCommands(t) => EarlyCommands(q \o t)
  BY <1>2 DEF EarlyCommands
<1>5. \A ops : NoOp(q, ops) /\ NoOp(t, ops) => NoOp(q \o t, ops)
  BY <1>2 DEF NoOp
<1> QED BY <1>3, <1>4, <1>5

LEMMA TailReports ==
  ASSUME NEW q \in Seq(Response), q # <<>>, NEW reason
  PROVE  /\ ReasonsOK(q, reason) =>
              /\ ReasonsOK(Tail(q), reason)
              /\ CanReport(Head(q)) => Head(q).trigger_reason = "none"
              /\ FinalReport(Head(q)) => Head(q).trigger_reason = reason
         /\ Ordered(q) => /\ Ordered(Tail(q))
                          /\ FinalReport(Head(q)) => NoCanIn(Tail(q))
         /\ NoCanIn(q) => NoCanIn(Tail(q)) /\ ~CanReport(Head(q))
         /\ EarlyReports(q) => EarlyReports(Tail(q)) /\ Head(q).can_trigger
                               /\ Head(q).clock >= home_clock
         /\ FinalIn(q) => FinalIn(Tail(q)) \/ FinalReport(Head(q))
         /\ FinalIn(Tail(q)) \/ FinalReport(Head(q)) => FinalIn(q)
<1>1. /\ Head(q) = q[1] /\ 1 \in DOMAIN q /\ Len(q) \in Nat
      /\ DOMAIN q = 1..Len(q) /\ DOMAIN Tail(q) = 1..(Len(q) - 1)
      /\ \A i \in DOMAIN Tail(q) : i + 1 \in DOMAIN q /\ Tail(q)[i] = q[i+1]
  BY TailProps
<1> DEFINE t == Tail(q)
<1> HIDE DEF t
<1>2. ReasonsOK(q, reason) =>
        /\ ReasonsOK(t, reason)
        /\ CanReport(Head(q)) => Head(q).trigger_reason = "none"
        /\ FinalReport(Head(q)) => Head(q).trigger_reason = reason
  BY <1>1 DEF ReasonsOK, t
<1>3. Ordered(q) => Ordered(t)
  <2> SUFFICES ASSUME Ordered(q), NEW i \in DOMAIN t, NEW j \in DOMAIN t, i < j,
                      FinalReport(t[i])
               PROVE  ~CanReport(t[j])
    BY DEF Ordered
  <2>1. i + 1 \in DOMAIN q /\ j + 1 \in DOMAIN q /\ t[i] = q[i+1] /\ t[j] = q[j+1]
    BY <1>1 DEF t
  <2>2. i + 1 < j + 1
    BY <1>1 DEF t
  <2> QED BY <2>1, <2>2 DEF Ordered
<1>4. Ordered(q) /\ FinalReport(Head(q)) => NoCanIn(t)
  <2> SUFFICES ASSUME Ordered(q), FinalReport(q[1]), NEW j \in DOMAIN t
               PROVE  ~CanReport(t[j])
    BY <1>1 DEF NoCanIn
  <2>1. j + 1 \in DOMAIN q /\ t[j] = q[j+1] /\ 1 < j + 1
    BY <1>1 DEF t
  <2> QED BY <1>1, <2>1 DEF Ordered
<1>5. NoCanIn(q) => NoCanIn(t) /\ ~CanReport(Head(q))
  BY <1>1 DEF NoCanIn, t
<1>6. EarlyReports(q) => EarlyReports(t) /\ Head(q).can_trigger /\ Head(q).clock >= home_clock
  BY <1>1 DEF EarlyReports, t
<1>7. FinalIn(q) => FinalIn(t) \/ FinalReport(Head(q))
  <2> SUFFICES ASSUME NEW i \in DOMAIN q, FinalReport(q[i]), i # 1
               PROVE  FinalIn(t)
    BY <1>1 DEF FinalIn
  <2>1. i - 1 \in DOMAIN t /\ (i - 1) + 1 = i
    BY <1>1 DEF t
  <2>2. t[i - 1] = q[i]
    BY <1>1, <2>1 DEF t
  <2> QED BY <2>1, <2>2 DEF FinalIn
<1>8. FinalIn(t) \/ FinalReport(Head(q)) => FinalIn(q)
  BY <1>1 DEF FinalIn, t
<1> QED BY <1>2, <1>3, <1>4, <1>5, <1>6, <1>7, <1>8 DEF t

LEMMA MoreReports ==
  ASSUME NEW q \in Seq(Response), NEW r \in Response, NEW reason
  PROVE  /\ ReasonsOK(q, reason) /\ ReasonsOK(<<r>>, reason) => ReasonsOK(q \o <<r>>, reason)
         /\ Ordered(q) /\ (CanReport(r) => ~FinalIn(q)) => Ordered(q \o <<r>>)
         /\ NoCanIn(q) /\ ~CanReport(r) => NoCanIn(q \o <<r>>)
         /\ EarlyReports(q) /\ r.can_trigger /\ r.clock >= home_clock =>
              EarlyReports(q \o <<r>>)
         /\ FinalIn(q \o <<r>>) <=> FinalIn(q) \/ FinalReport(r)
<1> DEFINE s == q \o <<r>>
           n == Len(q)
<1>1. /\ DOMAIN q = 1..n /\ n \in Nat /\ DOMAIN s = 1..(n + 1)
      /\ \A i \in DOMAIN q : s[i] = q[i]
      /\ s[n + 1] = r
  OBVIOUS
<1>2. <<r>>[1] = r /\ DOMAIN <<r>> = {1}
  OBVIOUS
<1> HIDE DEF s, n
<1>3. \A i \in DOMAIN s : i \in DOMAIN q \/ i = n + 1
  BY <1>1
<1>4. \A i \in DOMAIN q : i \in DOMAIN s /\ i < n + 1
  BY <1>1
<1>5. n + 1 \in DOMAIN s
  BY <1>1
<1>6. ReasonsOK(q, reason) /\ ReasonsOK(<<r>>, reason) => ReasonsOK(s, reason)
  <2>1. ReasonsOK(<<r>>, reason) =>
          /\ CanReport(r) => r.trigger_reason = "none"
          /\ FinalReport(r) => r.trigger_reason = reason
    BY <1>2 DEF ReasonsOK
  <2> QED BY <1>1, <1>3, <2>1 DEF ReasonsOK
<1>7. Ordered(q) /\ (CanReport(r) => ~FinalIn(q)) => Ordered(s)
  <2> SUFFICES ASSUME Ordered(q), CanReport(r) => ~FinalIn(q),
                      NEW i \in DOMAIN s, NEW j \in DOMAIN s, i < j, FinalReport(s[i])
               PROVE  ~CanReport(s[j])
    BY DEF Ordered
  <2>1. i \in DOMAIN q
    BY <1>1
  <2>2. CASE j \in DOMAIN q
    BY <1>1, <2>1, <2>2 DEF Ordered
  <2>3. CASE j = n + 1
    <3>1. FinalIn(q)
      BY <1>1, <2>1 DEF FinalIn
    <3> QED BY <1>1, <2>3, <3>1
  <2> QED BY <1>3, <2>2, <2>3
<1>8. NoCanIn(q) /\ ~CanReport(r) => NoCanIn(s)
  BY <1>1, <1>3 DEF NoCanIn
<1>9. EarlyReports(q) /\ r.can_trigger /\ r.clock >= home_clock => EarlyReports(s)
  BY <1>1, <1>3 DEF EarlyReports
<1>10. FinalIn(s) <=> FinalIn(q) \/ FinalReport(r)
  <2>1. FinalIn(s) => FinalIn(q) \/ FinalReport(r)
    BY <1>1, <1>3 DEF FinalIn
  <2>2. FinalIn(q) => FinalIn(s)
    BY <1>1, <1>4 DEF FinalIn
  <2>3. FinalReport(r) => FinalIn(s)
    BY <1>1, <1>5 DEF FinalIn
  <2> QED BY <2>1, <2>2, <2>3
<1> QED BY <1>6, <1>7, <1>8, <1>9, <1>10 DEF s

LEMMA NoReports ==
  ASSUME NEW reason
  PROVE  /\ ReasonsOK(<<>>, reason) /\ Ordered(<<>>) /\ NoCanIn(<<>>) /\ EarlyReports(<<>>)
         /\ ~FinalIn(<<>>) /\ EarlyCommands(<<>>) /\ \A ops : NoOp(<<>>, ops)
  BY DEF ReasonsOK, Ordered, NoCanIn, EarlyReports, FinalIn, EarlyCommands, NoOp

-----------------------------------------------------------------------------
(* The steps of a micro-controller *)

(* A step of micro-controller m keeps what the host may count on: a reason
   stays, a report that it is over is followed by no other, and a trigger that
   is sent to it is answered by such a report unless that is lost. *)
McuKeeps(m) ==
  /\ lost' \in Nat /\ lost' >= lost
  /\ Over(m) => Over(m)' /\ trigger_reason'[m] = trigger_reason[m]
  /\ Over(m) /\ NoCanIn(rspq[m]) => NoCanIn(rspq'[m])
  /\ FinalIn(rspq[m]) => FinalIn(rspq'[m])
  /\ HasOp(cmdq[m], "trsync_trigger") =>
       HasOp(cmdq'[m], "trsync_trigger") \/ FinalIn(rspq'[m]) \/ lost' >= lost + 1
  /\ HasOp(cmdq[m], "trsync_trigger") /\ QueryLast(cmdq[m]) =>
       \/ HasOp(cmdq'[m], "trsync_trigger") \/ FinalIn(rspq'[m])
       \/ lost' >= lost + 1 /\ cmdq'[m] # <<>>
  /\ QueryLast(cmdq[m]) =>
       cmdq'[m] # <<>> \/ FinalIn(rspq'[m]) \/ lost' >= lost + 1

McuEarly(m) ==
  SettingUp => EarlyMcu(m)' /\ EarlyCommands(cmdq[m])' /\ EarlyReports(rspq[m])'

McuHits(m) ==
  /\ OthersAlone(m) /\ ~Quiet(m) /\ UNCHANGED now
  /\ \A o \in Mcus \ {m} : trigger_reason'[o] = trigger_reason[o]
  /\ McuKeeps(m) /\ McuSound(m)' /\ McuEarly(m)

LEMMA McuKeepsTold ==
  ASSUME NEW m \in Mcus, McuKeeps(m), lost \in Nat, UNCHANGED <<pyq, last_params>>
  PROVE  /\ Told(m) => Told(m)'
         /\ LastOK(m) => LastOK(m)'
         /\ Known(m) /\ (cmdq[m] # <<>> => QueryLast(cmdq[m])) => Known(m)'
<1>1. /\ lost >= 1 => lost' >= 1
      /\ lost >= 2 => lost' >= 2
      /\ lost' >= lost + 1 => lost' >= 1
      /\ lost' >= lost + 1 /\ lost >= 1 => lost' >= 2
  BY DEF McuKeeps
<1>2. NoCan(m) => NoCan(m)' /\ trigger_reason'[m] = trigger_reason[m]
  BY DEF NoCan, McuKeeps
<1>3. FinalIn(pyq'[m]) <=> FinalIn(pyq[m])
  OBVIOUS
<1>4. Told(m) => Told(m)'
  BY <1>1, <1>2, <1>3 DEF Told, McuKeeps
<1>5. LastOK(m) => LastOK(m)'
  BY DEF LastOK, McuKeeps
<1>6. HasOp(cmdq[m], "trsync_trigger") => cmdq[m] # <<>>
  BY DEF HasOp
<1>7. Known(m) /\ (cmdq[m] # <<>> => QueryLast(cmdq[m])) => Known(m)'
  BY <1>1, <1>2, <1>3, <1>6 DEF Known, McuKeeps
<1> QED BY <1>4, <1>5, <1>7

LEMMA McuHitsInv ==
  ASSUME QInv, HitInv, NEW m \in Mcus, McuHits(m)
  PROVE  HitInv'
<1>1. UNCHANGED <<pc, k, round, home_clock, handler, trigger_completion,
                  completed, home_end, acked, last_params, retries_left, res,
                  result, pyq, can_trigger, last_status_clock, expire_clock,
                  fastreaders, dispatching, now>>
  BY DEF McuHits, OthersAlone, pyVars, trdispatchVars
<1>2. /\ m # Main => endstop' = endstop
      /\ \A o \in Mcus \ {m} :
           /\ flags'[o] = flags[o] /\ signal'[o] = signal[o]
           /\ report_time'[o] = report_time[o] /\ expire_time'[o] = expire_time[o]
           /\ cmdq'[o] = cmdq[o] /\ rspq'[o] = rspq[o]
           /\ trigger_reason'[o] = trigger_reason[o]
  BY DEF McuHits, OthersAlone
<1>3. lost' >= lost /\ lost' \in Nat /\ lost \in Nat
  BY TicksAssumption DEF QInv, TypeOK, McuTypeOK, McuHits, McuKeeps
<1>4. SoundInv'
  <2> SUFFICES ASSUME NEW o \in Mcus PROVE McuSound(o)'
    BY DEF SoundInv
  <2>1. CASE o = m
    BY <2>1 DEF McuHits
  <2>2. CASE o # m
    <3>1. McuSound(o)
      BY DEF HitInv, SoundInv
    <3> QED BY <1>1, <1>2, <2>2, <3>1 DEF McuSound, Over, Unstarted
  <2> QED BY <2>1, <2>2
<1>5. \A o \in Mcus : Stopped(o) => o # m /\ Stopped(o)'
  BY <1>1, <1>2 DEF Stopped, Quiet, McuHits
<1>6. StartedInv'
  <2>1. pc = "start" => \A i \in k..N : trsyncs[i] \in Mcus /\ Stopped(trsyncs[i])
    <3>1. k \in 1..N /\ N \in Nat /\ trsyncs \in [1..N -> Mcus]
      BY TrsyncsProps DEF QInv, TypeOK
    <3>2. k..N \subseteq 1..N
      BY <3>1
    <3> QED BY <3>1, <3>2 DEF HitInv, StartedInv
  <2> QED BY <1>1, <1>5, <2>1 DEF StartedInv
<1>7. SetUpInv'
  <2> SUFFICES ASSUME SettingUp PROVE SetUpInv'
    BY <1>1 DEF SetUpInv, SettingUp
  <2>1. SetUpInv /\ SettingUp'
    BY <1>1 DEF HitInv, SettingUp
  <2>2. ASSUME NEW o \in Mcus
        PROVE  /\ EarlyMcu(o)' /\ EarlyHost(o)'
               /\ EarlyCommands(cmdq[o])' /\ EarlyReports(rspq[o])'
    <3>1. /\ EarlyMcu(o) /\ EarlyHost(o)
          /\ EarlyCommands(cmdq[o]) /\ EarlyReports(rspq[o])
      BY <2>1 DEF SetUpInv
    <3>2. EarlyHost(o)'
      BY <1>1, <3>1 DEF EarlyHost, EarlyReports
    <3>3. CASE o = m
      BY <3>2, <3>3 DEF McuHits, McuEarly
    <3>4. CASE o # m
      BY <1>1, <1>2, <3>1, <3>2, <3>4 DEF EarlyMcu, EarlyCommands, EarlyCommand, EarlyReports
    <3> QED BY <3>3, <3>4
  <2> QED BY <1>1, <2>1, <2>2 DEF SetUpInv
<1>8. AddedInv' /\ PassedInv'
  BY <1>1 DEF HitInv, AddedInv, PassedInv, Passing
<1>9. /\ \A o \in Mcus : (Told(o) => Told(o)') /\ (LastOK(o) => LastOK(o)')
      /\ \A o \in Mcus : QueryState(o) /\ Known(o) => Known(o)'
      /\ \A o \in Mcus : o # m /\ ResOK(o) => ResOK(o)'
  <2> SUFFICES ASSUME NEW o \in Mcus
               PROVE  /\ Told(o) => Told(o)'
                      /\ LastOK(o) => LastOK(o)'
                      /\ QueryState(o) /\ Known(o) => Known(o)'
                      /\ o # m /\ ResOK(o) => ResOK(o)'
    OBVIOUS
  <2>1. CASE o = m
    <3>1. McuKeeps(m) /\ UNCHANGED <<pyq, last_params>>
      BY <1>1 DEF McuHits
    <3>2. QueryState(m) /\ cmdq[m] # <<>> => QueryLast(cmdq[m])
      BY DEF QueryState, Quiet
    <3> QED BY <1>3, <2>1, <3>1, <3>2, McuKeepsTold
  <2>2. CASE o # m
    <3>1. (lost >= 1 => lost' >= 1) /\ (lost >= 2 => lost' >= 2)
      BY <1>3
    <3> QED BY <1>1, <1>2, <2>2, <3>1 DEF Told, LastOK, Known, NoCan, Over, ResOK
  <2> QED BY <2>1, <2>2
<1>10. ToldInv'
  BY <1>1, <1>9 DEF HitInv, ToldInv
<1>11. AnswerInv'
  <2> SUFFICES ASSUME pc = "ack" PROVE AnswerInv'
    BY <1>1 DEF AnswerInv
  <2>1. PICK m0 \in Mcus : m0 = trsyncs[k]
    BY TrsyncsBefore DEF QInv
  <2>2. QueryState(m0) /\ Known(m0) /\ LastOK(m0)
    BY <2>1 DEF QInv, QueryInv, HitInv, AnswerInv
  <2>3. Known(m0)' /\ LastOK(m0)'
    BY <1>9, <2>2
  <2> QED BY <1>1, <2>1, <2>3 DEF AnswerInv
<1>12. ResInv'
  <2>1. pc \in {"stop", "ack"} => \A i \in 1..(k-1) : ResOK(trsyncs[i])'
    <3> SUFFICES ASSUME pc \in {"stop", "ack"}, NEW i \in 1..(k-1)
                 PROVE  ResOK(trsyncs[i])'
      OBVIOUS
    <3>1. PICK o \in Mcus : o = trsyncs[i]
      BY TrsyncsBefore DEF QInv
    <3>2. Stopped(o) /\ ResOK(o)
      BY <3>1 DEF QInv, StoppedInv, HitInv, ResInv
    <3> QED BY <1>5, <1>9, <3>1, <3>2
  <2>2. pc = "idle" /\ result \in {"hit", "no_trigger", "timeout"} =>
          \A o \in Mcus : ResOK(o)'
    BY <1>5, <1>9 DEF QInv, StoppedInv, HitInv, ResInv
  <2> QED BY <1>1, <2>1, <2>2 DEF HitInv, ResInv, HomeWaitResult
<1>13. HandlerInv'
  BY <1>1 DEF HitInv, HandlerInv
<1> QED BY <1>4, <1>6, <1>7, <1>8, <1>10, <1>11, <1>12, <1>13 DEF HitInv

(* What trsync_report does to the responses under way. *)
Reported(new, old, can, reason) ==
  /\ FinalIn(old) => FinalIn(new)
  /\ FinalIn(new) => FinalIn(old) \/ ~can
  /\ NoCanIn(old) /\ ~can => NoCanIn(new)
  /\ Ordered(old) /\ (can => ~FinalIn(old)) => Ordered(new)
  /\ \A t : ReasonsOK(old, t) /\ (IF can THEN reason = "none" ELSE reason = t) =>
              ReasonsOK(new, t)

LEMMA ReportReported ==
  ASSUME McuTypeOK, NEW m \in Mcus, NEW can \in BOOLEAN, NEW reason \in Reasons,
         NEW clock \in Time, NEW rd \in Nat, NEW more \in Seq(Response),
         more = <<>> \/ (\E a \in Response : a.ack /\ more = <<a>>),
         Report(m, more, can, reason, clock, rd)
  PROVE  /\ Reported(rspq'[m], rspq[m], can, reason)
         /\ \A o \in Mcus \ {m} : rspq'[o] = rspq[o]
         /\ lost' \in Nat /\ lost' >= lost
         /\ ~can => FinalIn(rspq'[m]) \/ lost' >= lost + 1
         /\ more = <<>> /\ EarlyReports(rspq[m]) /\ can /\ clock >= home_clock =>
              EarlyReports(rspq'[m])
<1> DEFINE r == [ack |-> FALSE, can_trigger |-> can, trigger_reason |-> reason,
                 clock |-> clock, round |-> rd]
           q == rspq[m]
           Good(new) == /\ Reported(new, q, can, reason)
                        /\ EarlyReports(q) /\ can /\ clock >= home_clock /\ more = <<>> =>
                             EarlyReports(new)
<1>1. /\ r \in Response /\ CanReport(r) = can /\ FinalReport(r) = ~can
      /\ r.can_trigger = can /\ r.clock = clock /\ r.trigger_reason = reason
  BY DEF Response, CanReport, FinalReport
<1>2. q \in Seq(Response) /\ lost \in Nat /\ rspq \in [Mcus -> Seq(Response)]
  BY TicksAssumption DEF McuTypeOK
<1>3. \/ rspq' = [rspq EXCEPT ![m] = q \o <<r>> \o more] /\ lost' = lost
      \/ rspq' = [rspq EXCEPT ![m] = q \o more] /\ lost' = lost + 1
  BY DEF Report
<1> HIDE DEF r, q
<1>4. q \o <<r>> \in Seq(Response)
  BY <1>1, <1>2
<1>5. Good(q \o <<r>>) /\ (~can => FinalIn(q \o <<r>>))
  <2>1. \A t : (IF can THEN reason = "none" ELSE reason = t) => ReasonsOK(<<r>>, t)
    <3>1. DOMAIN <<r>> = {1} /\ <<r>>[1] = r
      OBVIOUS
    <3> QED BY <1>1, <3>1 DEF ReasonsOK
  <2>2. /\ FinalIn(q \o <<r>>) <=> FinalIn(q) \/ ~can
        /\ Ordered(q) /\ (can => ~FinalIn(q)) => Ordered(q \o <<r>>)
        /\ NoCanIn(q) /\ ~can => NoCanIn(q \o <<r>>)
        /\ EarlyReports(q) /\ can /\ clock >= home_clock => EarlyReports(q \o <<r>>)
    BY <1>1, <1>2, MoreReports
  <2>3. \A t : ReasonsOK(q, t) /\ ReasonsOK(<<r>>, t) => ReasonsOK(q \o <<r>>, t)
    BY <1>1, <1>2, MoreReports
  <2>4. Reported(q \o <<r>>, q, can, reason)
    BY <2>1, <2>2, <2>3 DEF Reported
  <2> QED BY <2>2, <2>4
<1>6. Good(q)
  BY DEF Reported
<1>7. ASSUME NEW s \in Seq(Response), Good(s)
      PROVE  Good(s \o more) /\ (FinalIn(s) => FinalIn(s \o more))
  <2>1. CASE more = <<>>
    <3>1. s \o more = s
      BY <2>1
    <3> QED BY <1>7, <3>1
  <2>2. ASSUME NEW a \in Response, a.ack, more = <<a>>
        PROVE  Good(s \o more) /\ (FinalIn(s) => FinalIn(s \o more))
    <3>1. ~CanReport(a) /\ ~FinalReport(a)
      BY <2>2 DEF CanReport, FinalReport
    <3>2. \A t : ReasonsOK(<<a>>, t)
      <4>1. DOMAIN <<a>> = {1} /\ <<a>>[1] = a
        OBVIOUS
      <4> QED BY <3>1, <4>1 DEF ReasonsOK
    <3>3. /\ FinalIn(s \o <<a>>) <=> FinalIn(s)
          /\ Ordered(s) => Ordered(s \o <<a>>)
          /\ NoCanIn(s) => NoCanIn(s \o <<a>>)
      BY <3>1, MoreReports
    <3>4. \A t : ReasonsOK(s, t) => ReasonsOK(s \o <<a>>, t)
      BY <3>2, MoreReports
    <3>5. Reported(s \o <<a>>, q, can, reason)
      BY <1>7, <3>3, <3>4 DEF Reported
    <3>6. more # <<>>
      BY <2>2
    <3> QED BY <2>2, <3>3, <3>5, <3>6
  <2> QED BY <2>1, <2>2
<1>8. CASE rspq' = [rspq EXCEPT ![m] = q \o <<r>> \o more] /\ lost' = lost
  <2>1. rspq'[m] = (q \o <<r>>) \o more /\ \A o \in Mcus \ {m} : rspq'[o] = rspq[o]
    BY <1>2, <1>8
  <2>2. Good(rspq'[m]) /\ (~can => FinalIn(rspq'[m]))
    <3> HIDE DEF Good
    <3> QED BY <1>4, <1>5, <1>7, <2>1
  <2> QED BY <1>2, <1>8, <2>1, <2>2 DEF q
<1>9. CASE rspq' = [rspq EXCEPT ![m] = q \o more] /\ lost' = lost + 1
  <2>1. rspq'[m] = q \o more /\ \A o \in Mcus \ {m} : rspq'[o] = rspq[o]
    BY <1>2, <1>9
  <2>2. Good(rspq'[m])
    <3> HIDE DEF Good
    <3> QED BY <1>2, <1>6, <1>7, <2>1
  <2> QED BY <1>2, <1>9, <2>1, <2>2 DEF q
<1> QED BY <1>3, <1>8, <1>9

(* A micro-controller of which all this is known. *)
LEMMA HitOf ==
  ASSUME QInv, HitInv, NEW m \in Mcus
  PROVE  /\ McuSound(m) /\ TypeOK /\ McuTypeOK
         /\ flags \in [Mcus -> SUBSET {"can_trigger", "report"}]
         /\ trigger_reason \in [Mcus -> Reasons] /\ trigger_reason[m] \in Reasons
         /\ report_time \in [Mcus -> Time] /\ expire_time \in [Mcus -> Time]
         /\ lost \in Nat /\ now \in Nat /\ home_clock \in Nat
         /\ cmdq \in [Mcus -> Seq(Command)] /\ rspq \in [Mcus -> Seq(Response)]
         /\ cmdq[m] \in Seq(Command) /\ rspq[m] \in Seq(Response)
         /\ pyq \in [Mcus -> Seq(Response)] /\ pyq[m] \in Seq(Response)
         /\ signal[m] => "can_trigger" \in flags[m]
         /\ SettingUp => /\ EarlyMcu(m) /\ EarlyHost(m) /\ now <= home_clock
                         /\ EarlyCommands(cmdq[m]) /\ EarlyReports(rspq[m])
                         /\ endstop # "homing"
<1>1. McuSound(m) /\ TypeOK /\ McuTypeOK
  BY DEF QInv, HitInv, SoundInv, TypeOK
<1>2. SettingUp => /\ EarlyMcu(m) /\ EarlyHost(m) /\ now <= home_clock
                   /\ EarlyCommands(cmdq[m]) /\ EarlyReports(rspq[m])
  BY DEF HitInv, SetUpInv
<1>3. SettingUp => endstop # "homing"
  BY DEF QInv, EndstopInv, SettingUp
<1>4. signal[m] => "can_trigger" \in flags[m]
  BY DEF QInv, CommandsInv
<1>5. lost \in Nat
  BY <1>1, TicksAssumption DEF McuTypeOK
<1> QED BY <1>1, <1>2, <1>3, <1>4, <1>5 DEF TypeOK, McuTypeOK

(* Reports that no trsync has sent for over do not depend on the reason. *)
LEMMA ReasonsWithoutFinal ==
  ASSUME NEW q, NEW t, NEW u, ReasonsOK(q, t), FinalIn(q) => t = u
  PROVE  ReasonsOK(q, u)
  BY DEF ReasonsOK, FinalIn

LEMMA StaysSound ==
  ASSUME NEW m \in Mcus, McuSound(m), UNCHANGED pyq, McuKeeps(m),
         "can_trigger" \in flags'[m] => trigger_reason'[m] = "none",
         FinalIn(rspq'[m]) => Over(m)',
         Ordered(rspq'[m]), ReasonsOK(rspq'[m], trigger_reason'[m]),
         \A i \in DOMAIN cmdq'[m] :
           cmdq'[m][i].op = "trsync_start" => i = 1 /\ Unstarted(m)'
  PROVE  McuSound(m)'
<1>1. /\ ReasonsOK(pyq[m], trigger_reason[m]) /\ Ordered(pyq[m])
      /\ FinalIn(pyq[m]) => NoCanIn(rspq[m])
      /\ FinalIn(pyq[m]) => Over(m)
  BY DEF McuSound
<1>2. /\ Over(m) => Over(m)' /\ trigger_reason'[m] = trigger_reason[m]
      /\ Over(m) /\ NoCanIn(rspq[m]) => NoCanIn(rspq'[m])
  BY DEF McuKeeps
<1>3. ReasonsOK(pyq'[m], trigger_reason'[m])
  BY <1>1, <1>2, ReasonsWithoutFinal
<1> QED BY <1>1, <1>2, <1>3 DEF McuSound

(* A timer fires or the endstop is hit: the reason is set if it is the first. *)
LEMMA TriggerHits ==
  ASSUME QInv, HitInv, NEW m \in Mcus, ExpireEvent(m) \/ (m = Main /\ EndstopEvent),
         UNCHANGED <<trdispatchVars, pyVars, pyq>>
  PROVE  McuHits(m)
<1>1. /\ flags' = [flags EXCEPT ![m] = FlagsAfterTrigger(m)]
      /\ \E reason \in Reasons : trsync_do_trigger(m, reason)
      /\ expire_time' \in {expire_time, [expire_time EXCEPT ![m] = Never]}
      /\ m # Main => endstop' = endstop
      /\ UNCHANGED <<now, report_time, lost, cmdq, rspq, pyq>>
  BY DEF ExpireEvent, EndstopEvent, linkVars, Reasons
<1>2. ~SettingUp /\ ~Quiet(m)
  <2>1. CASE ExpireEvent(m)
    <3>1. expire_time[m] # Never /\ expire_time[m] <= now
      BY <2>1 DEF ExpireEvent, Due
    <3>2. SettingUp => expire_time[m] > home_clock /\ now <= home_clock
      BY <3>1, HitOf DEF EarlyMcu
    <3>3. expire_time[m] \in Nat /\ home_clock \in Nat /\ now \in Nat
      BY <3>1, HitOf DEF Time
    <3> QED BY <3>1, <3>2, <3>3 DEF Quiet
  <2>2. CASE m = Main /\ EndstopEvent
    <3>1. endstop = "homing"
      BY <2>2 DEF EndstopEvent
    <3> QED BY <2>2, <3>1, HitOf DEF Quiet
  <2> QED BY <2>1, <2>2
<1>3. /\ \A o \in Mcus \ {m} : signal'[o] = signal[o] /\ trigger_reason'[o] = trigger_reason[o]
      /\ "can_trigger" \notin flags[m] => trigger_reason'[m] = trigger_reason[m]
  BY <1>1, HitOf, TriggerEffect
<1>4. /\ \A o \in Mcus \ {m} : flags'[o] = flags[o] /\ expire_time'[o] = expire_time[o]
      /\ "can_trigger" \notin flags'[m]
      /\ flags[m] = {} => flags'[m] = {}
  <2>1. /\ flags'[m] = FlagsAfterTrigger(m)
        /\ \A o \in Mcus \ {m} : flags'[o] = flags[o] /\ expire_time'[o] = expire_time[o]
    BY <1>1, HitOf
  <2> QED BY <2>1, HitOf, FlagsAfterTriggerProps DEF FlagsAfterTrigger
<1>5. OthersAlone(m)
  BY <1>1, <1>3, <1>4 DEF OthersAlone
<1>6. McuKeeps(m)
  <2>1. lost' \in Nat /\ lost' >= lost
    BY <1>1, HitOf
  <2>2. QueryLast(cmdq[m]) => cmdq[m] # <<>>
    BY DEF QueryLast
  <2> QED BY <1>1, <1>3, <1>4, <2>1, <2>2 DEF McuKeeps, Over
<1>7. McuSound(m)'
  <2>1. McuSound(m)
    BY HitOf
  <2>2. FinalIn(rspq[m]) => Over(m) /\ trigger_reason'[m] = trigger_reason[m]
    BY <1>3, <2>1 DEF McuSound, Over
  <2>3. FinalIn(rspq'[m]) => Over(m)'
    BY <1>1, <1>6, <2>2 DEF McuKeeps
  <2>4. Ordered(rspq'[m]) /\ ReasonsOK(rspq'[m], trigger_reason'[m])
    BY <1>1, <2>1, <2>2, ReasonsWithoutFinal DEF McuSound
  <2>5. \A i \in DOMAIN cmdq'[m] :
           cmdq'[m][i].op = "trsync_start" => i = 1 /\ Unstarted(m)'
    BY <1>1, <1>4, <2>1 DEF McuSound, Unstarted
  <2> QED BY <1>1, <1>4, <1>6, <2>1, <2>3, <2>4, <2>5, StaysSound
<1> QED BY <1>1, <1>2, <1>3, <1>5, <1>6, <1>7 DEF McuHits, McuEarly

LEMMA ReportEventHits ==
  ASSUME QInv, HitInv, NEW m \in Mcus, ReportEvent(m),
         UNCHANGED <<trdispatchVars, pyVars, pyq>>
  PROVE  McuHits(m)
<1>1. /\ report_time[m] # Never /\ report_time[m] <= now
      /\ report_time' = [report_time EXCEPT ![m] = @ + ReportTicks]
      /\ flags' = [flags EXCEPT ![m] = @ \union {"report"}]
      /\ UNCHANGED <<now, trigger_reason, expire_time, signal, endstop, lost, cmdq, rspq, pyq,
                     home_clock>>
  BY DEF ReportEvent, Due, linkVars, pyVars
<1>2. /\ flags'[m] = flags[m] \union {"report"}
      /\ report_time'[m] = report_time[m] + ReportTicks
      /\ \A o \in Mcus \ {m} : flags'[o] = flags[o] /\ report_time'[o] = report_time[o]
  BY <1>1, HitOf
<1>3. OthersAlone(m) /\ ~Quiet(m)
  BY <1>1, <1>2 DEF OthersAlone, Quiet
<1>4. McuKeeps(m)
  <2>1. lost' \in Nat /\ lost' >= lost
    BY <1>1, HitOf
  <2>2. QueryLast(cmdq[m]) => cmdq[m] # <<>>
    BY DEF QueryLast
  <2> QED BY <1>1, <1>2, <2>1, <2>2 DEF McuKeeps, Over
<1>5. McuSound(m)'
  <2>1. McuSound(m)
    BY HitOf
  <2>2. FinalIn(rspq'[m]) => Over(m)'
    BY <1>1, <1>4, <2>1 DEF McuKeeps, McuSound
  <2>3. \A i \in DOMAIN cmdq'[m] :
           cmdq'[m][i].op = "trsync_start" => i = 1 /\ Unstarted(m)'
    BY <1>1, <2>1 DEF McuSound, Unstarted
  <2> QED BY <1>1, <1>2, <1>4, <2>1, <2>2, <2>3, StaysSound DEF McuSound
<1>6. McuEarly(m)
  <2> SUFFICES ASSUME SettingUp
               PROVE  EarlyMcu(m)' /\ EarlyCommands(cmdq[m])' /\ EarlyReports(rspq[m])'
    BY DEF McuEarly
  <2>1. /\ EarlyMcu(m) /\ EarlyCommands(cmdq[m]) /\ EarlyReports(rspq[m])
    BY HitOf
  <2>2. "can_trigger" \in flags[m] /\ report_time[m] >= home_clock
    BY <1>1, <2>1 DEF EarlyMcu
  <2>3. report_time[m] \in Nat /\ home_clock \in Nat /\ now \in Nat /\ ReportTicks \in Nat
    BY <1>1, HitOf, TicksAssumption DEF Time
  <2>4. now >= home_clock /\ report_time'[m] >= home_clock
    BY <1>1, <1>2, <2>2, <2>3
  <2>5. EarlyMcu(m)'
    BY <1>1, <1>2, <2>1, <2>2, <2>4 DEF EarlyMcu
  <2> QED BY <1>1, <2>1, <2>5 DEF EarlyCommands, EarlyCommand, EarlyReports
<1> QED BY <1>1, <1>3, <1>4, <1>5, <1>6 DEF McuHits

LEMMA ReportTaskHits ==
  ASSUME QInv, HitInv, NEW m \in Mcus, ReportTask(m),
         UNCHANGED <<trdispatchVars, pyVars, pyq>>
  PROVE  McuHits(m)
<1> DEFINE can == "can_trigger" \in flags[m]
<1>1. /\ "report" \in flags[m] /\ flags' = [flags EXCEPT ![m] = @ \ {"report"}]
      /\ Report(m, <<>>, can, trigger_reason[m], now, homing[m])
      /\ UNCHANGED <<now, trigger_reason, report_time, expire_time, signal, endstop,
                     cmdq, pyq, home_clock>>
  BY DEF ReportTask, ReportClock, pyVars
<1>2. /\ flags'[m] = flags[m] \ {"report"}
      /\ \A o \in Mcus \ {m} : flags'[o] = flags[o]
      /\ "can_trigger" \in flags'[m] <=> can
  BY <1>1, HitOf
<1>3. /\ can \in BOOLEAN /\ trigger_reason[m] \in Reasons /\ now \in Time
      /\ homing[m] \in Nat /\ <<>> \in Seq(Response) /\ McuTypeOK
  BY HitOf DEF McuTypeOK, Time
<1>4. /\ Reported(rspq'[m], rspq[m], can, trigger_reason[m])
      /\ \A o \in Mcus \ {m} : rspq'[o] = rspq[o]
      /\ lost' \in Nat /\ lost' >= lost
      /\ EarlyReports(rspq[m]) /\ can /\ now >= home_clock => EarlyReports(rspq'[m])
  BY <1>1, <1>3, ReportReported
<1>5. OthersAlone(m) /\ ~Quiet(m)
  BY <1>1, <1>2, <1>4 DEF OthersAlone, Quiet
<1>6. McuKeeps(m)
  <2>1. QueryLast(cmdq[m]) => cmdq[m] # <<>>
    BY DEF QueryLast
  <2>2. Over(m) => ~can
    BY DEF Over
  <2>3. Over(m)' = Over(m)
    BY <1>1, <1>2 DEF Over
  <2> QED BY <1>1, <1>4, <2>1, <2>2, <2>3 DEF McuKeeps, Reported
<1>7. McuSound(m)'
  <2>1. McuSound(m)
    BY HitOf
  <2>2. \A i \in DOMAIN cmdq[m] : cmdq[m][i].op # "trsync_start"
    BY <1>1, <2>1 DEF McuSound, Unstarted
  <2>3. ~can => Over(m)'
    BY <1>1, <1>2, <2>2 DEF Over, NoOp
  <2>4. can => ~FinalIn(rspq[m])
    BY <2>1 DEF McuSound, Over
  <2>5. FinalIn(rspq'[m]) => Over(m)'
    BY <1>4, <1>6, <2>1, <2>3 DEF McuKeeps, McuSound, Reported
  <2>6. Ordered(rspq'[m]) /\ ReasonsOK(rspq'[m], trigger_reason'[m])
    <3>1. IF can THEN trigger_reason[m] = "none" ELSE trigger_reason[m] = trigger_reason[m]
      BY <2>1 DEF McuSound
    <3>2. Ordered(rspq[m]) /\ ReasonsOK(rspq[m], trigger_reason[m])
      BY <2>1 DEF McuSound
    <3> QED BY <1>1, <1>4, <2>4, <3>1, <3>2 DEF Reported
  <2>7. \A i \in DOMAIN cmdq'[m] :
           cmdq'[m][i].op = "trsync_start" => i = 1 /\ Unstarted(m)'
    BY <1>1, <2>2
  <2>8. "can_trigger" \in flags'[m] => trigger_reason'[m] = "none"
    BY <1>1, <1>2, <2>1 DEF McuSound
  <2> QED BY <1>1, <1>6, <2>1, <2>5, <2>6, <2>7, <2>8, StaysSound
<1>8. McuEarly(m)
  <2> SUFFICES ASSUME SettingUp
               PROVE  EarlyMcu(m)' /\ EarlyCommands(cmdq[m])' /\ EarlyReports(rspq[m])'
    BY DEF McuEarly
  <2>1. /\ EarlyMcu(m) /\ EarlyCommands(cmdq[m]) /\ EarlyReports(rspq[m])
    BY HitOf
  <2>2. can /\ now >= home_clock
    BY <1>1, <2>1 DEF EarlyMcu
  <2>3. EarlyMcu(m)'
    BY <1>1, <1>2, <2>1, <2>2 DEF EarlyMcu
  <2> QED BY <1>1, <1>4, <2>1, <2>2, <2>3 DEF EarlyCommands, EarlyCommand, EarlyReports
<1> QED BY <1>1, <1>5, <1>6, <1>7, <1>8 DEF McuHits

(* A command is taken: behind it there is no trsync_start. *)
LEMMA CommandHits ==
  ASSUME QInv, HitInv, NEW m \in Mcus, cmdq[m] # <<>>, Consume(m)
  PROVE  LET op == Head(cmdq[m]).op IN
         /\ cmdq'[m] = Tail(cmdq[m]) /\ \A o \in Mcus \ {m} : cmdq'[o] = cmdq[o]
         /\ ~Quiet(m) /\ Head(cmdq[m]) \in Command
         /\ NoOp(cmdq'[m], {"trsync_start"})
         /\ op = "trsync_start" => Unstarted(m)
         /\ op # "trsync_start" => NoOp(cmdq[m], {"trsync_start"})
         /\ op # "trsync_trigger" /\ HasOp(cmdq[m], "trsync_trigger") =>
              HasOp(cmdq'[m], "trsync_trigger")
         /\ QueryLast(cmdq[m]) /\ op # "trsync_query" => cmdq'[m] # <<>>
         /\ QueryLast(cmdq[m]) /\ op = "trsync_query" => ~HasOp(cmdq[m], "trsync_trigger")
         /\ SettingUp => EarlyCommands(cmdq'[m]) /\ EarlyCommand(Head(cmdq[m]))
<1> DEFINE q == cmdq[m]
           t == Tail(cmdq[m])
           op == Head(cmdq[m]).op
<1>1. /\ q \in Seq(Command) /\ q # <<>> /\ McuSound(m)
      /\ SettingUp => EarlyCommands(q)
  BY HitOf
<1>2. /\ \A x : HasOp(q, x) /\ op # x => HasOp(t, x)
      /\ EarlyCommands(q) => EarlyCommands(t) /\ EarlyCommand(Head(q))
      /\ \A i \in DOMAIN t : i + 1 \in DOMAIN q /\ i + 1 # 1 /\ t[i] = q[i+1]
  BY <1>1, TailOps
<1>3. /\ cmdq'[m] = t /\ \A o \in Mcus \ {m} : cmdq'[o] = cmdq[o]
      /\ ~Quiet(m) /\ Head(q) \in Command
      /\ QueryLast(q) => /\ op # "trsync_query" => QueryLast(t)
                         /\ op = "trsync_query" => t = <<>>
  BY CommandTaken
<1>4. /\ Head(q) = q[1] /\ 1 \in DOMAIN q /\ DOMAIN q = 1..Len(q) /\ Len(q) \in Nat
  BY <1>1, TailProps
<1>5. \A i \in DOMAIN q : q[i].op = "trsync_start" => i = 1 /\ Unstarted(m)
  BY <1>1 DEF McuSound
<1> HIDE DEF q, t, op
<1>6. NoOp(t, {"trsync_start"})
  BY <1>2, <1>5 DEF NoOp
<1>7. op = "trsync_start" => Unstarted(m)
  BY <1>4, <1>5 DEF op, q
<1>8. op # "trsync_start" => NoOp(q, {"trsync_start"})
  BY <1>4, <1>5 DEF NoOp, op, q
<1>9. QueryLast(q) /\ op # "trsync_query" => t # <<>>
  BY <1>3 DEF QueryLast
<1>10. QueryLast(q) /\ op = "trsync_query" => ~HasOp(q, "trsync_trigger")
  <2> SUFFICES ASSUME QueryLast(q), op = "trsync_query", HasOp(q, "trsync_trigger")
               PROVE  FALSE
    OBVIOUS
  <2>1. PICK i \in DOMAIN q : q[i].op = "trsync_trigger"
    BY DEF HasOp
  <2>2. q[1].op = "trsync_query"
    BY <1>4 DEF op, q
  <2>3. \A j \in DOMAIN q : (q[j].op = "trsync_query") <=> (j = Len(q))
    BY DEF QueryLast
  <2>4. q[i].op # "trsync_query"
    BY <2>1
  <2>5. 1 = Len(q)
    BY <1>4, <2>2, <2>3
  <2>6. i # Len(q)
    BY <2>3, <2>4
  <2>7. i \in 1..1 /\ i # 1
    BY <1>4, <2>1, <2>5, <2>6
  <2> QED BY <2>7
<1> QED BY <1>1, <1>2, <1>3, <1>6, <1>7, <1>8, <1>9, <1>10 DEF q, t, op

LEMMA TrsyncStartHits ==
  ASSUME QInv, HitInv, NEW m \in Mcus, TrsyncStart(m),
         UNCHANGED <<trdispatchVars, pyVars, pyq>>
  PROVE  McuHits(m)
<1>1. /\ cmdq[m] # <<>> /\ Head(cmdq[m]).op = "trsync_start" /\ Consume(m)
      /\ flags' = [flags EXCEPT ![m] = {"can_trigger"}]
      /\ trigger_reason' = [trigger_reason EXCEPT ![m] = "none"]
      /\ report_time' = [report_time EXCEPT ![m] = Head(cmdq[m]).clock]
      /\ expire_time' = [expire_time EXCEPT ![m] = Never]
      /\ signal' = [signal EXCEPT ![m] = FALSE]
      /\ UNCHANGED <<now, endstop, lost, rspq, pyq, home_clock>>
  BY DEF TrsyncStart, NextCommand, pyVars
<1>2. /\ cmdq'[m] = Tail(cmdq[m]) /\ \A o \in Mcus \ {m} : cmdq'[o] = cmdq[o]
      /\ ~Quiet(m) /\ Head(cmdq[m]) \in Command /\ Unstarted(m)
      /\ NoOp(cmdq'[m], {"trsync_start"})
      /\ HasOp(cmdq[m], "trsync_trigger") => HasOp(cmdq'[m], "trsync_trigger")
      /\ QueryLast(cmdq[m]) => cmdq'[m] # <<>>
      /\ SettingUp => EarlyCommands(cmdq'[m]) /\ EarlyCommand(Head(cmdq[m]))
  BY <1>1, CommandHits
<1>3. /\ flags'[m] = {"can_trigger"} /\ trigger_reason'[m] = "none"
      /\ report_time'[m] = Head(cmdq[m]).clock /\ expire_time'[m] = Never
      /\ \A o \in Mcus \ {m} :
            /\ flags'[o] = flags[o] /\ signal'[o] = signal[o]
            /\ report_time'[o] = report_time[o] /\ expire_time'[o] = expire_time[o]
            /\ trigger_reason'[o] = trigger_reason[o]
  BY <1>1, HitOf DEF McuTypeOK
<1>4. OthersAlone(m)
  BY <1>1, <1>2, <1>3 DEF OthersAlone
<1>5. ~Over(m)
  <2>1. 1 \in DOMAIN cmdq[m] /\ cmdq[m][1].op = "trsync_start"
    BY <1>1, HitOf, TailProps
  <2> QED BY <2>1 DEF Over, NoOp
<1>6. McuKeeps(m)
  <2>1. lost' \in Nat /\ lost' >= lost
    BY <1>1, HitOf
  <2> QED BY <1>1, <1>2, <1>5, <2>1 DEF McuKeeps
<1>7. McuSound(m)'
  <2>1. rspq[m] = <<>>
    BY <1>2 DEF Unstarted
  <2>2. /\ ReasonsOK(rspq'[m], "none") /\ Ordered(rspq'[m]) /\ ~FinalIn(rspq'[m])
    BY <1>1, <2>1, NoReports
  <2>3. \A i \in DOMAIN cmdq'[m] : cmdq'[m][i].op # "trsync_start"
    BY <1>2 DEF NoOp
  <2> QED BY <1>1, <1>3, <1>6, <2>2, <2>3, HitOf, StaysSound
<1>8. McuEarly(m)
  <2> SUFFICES ASSUME SettingUp
               PROVE  EarlyMcu(m)' /\ EarlyCommands(cmdq[m])' /\ EarlyReports(rspq[m])'
    BY DEF McuEarly
  <2>1. EarlyReports(rspq[m]) /\ EarlyCommands(cmdq'[m]) /\ EarlyCommand(Head(cmdq[m]))
    BY <1>2, HitOf
  <2>2. Head(cmdq[m]).clock >= home_clock
    BY <1>1, <2>1 DEF EarlyCommand
  <2>3. EarlyMcu(m)'
    BY <1>1, <1>3, <2>2 DEF EarlyMcu
  <2> QED BY <1>1, <2>1, <2>3 DEF EarlyCommands, EarlyCommand, EarlyReports
<1> QED BY <1>1, <1>2, <1>3, <1>4, <1>6, <1>7, <1>8 DEF McuHits

(* The commands that neither start nor trigger the trsync. *)
LEMMA SettingHits ==
  ASSUME QInv, HitInv, NEW m \in Mcus,
         StopOnTrigger(m) \/ SetTimeout(m) \/ EndstopHome(m),
         UNCHANGED <<trdispatchVars, pyVars, pyq>>
  PROVE  McuHits(m)
<1>1. /\ cmdq[m] # <<>> /\ Consume(m)
      /\ Head(cmdq[m]).op \notin {"trsync_start", "trsync_trigger", "trsync_query"}
      /\ signal' \in {signal, [signal EXCEPT ![m] = TRUE]}
      /\ \/ expire_time' = expire_time
         \/ /\ Head(cmdq[m]).op = "trsync_set_timeout" /\ "can_trigger" \in flags[m]
            /\ expire_time' = [expire_time EXCEPT ![m] = Head(cmdq[m]).clock]
      /\ UNCHANGED <<now, flags, trigger_reason, report_time, lost, rspq, pyq, home_clock>>
  BY DEF StopOnTrigger, SetTimeout, EndstopHome, NextCommand, pyVars
<1>2. /\ cmdq'[m] = Tail(cmdq[m]) /\ \A o \in Mcus \ {m} : cmdq'[o] = cmdq[o]
      /\ ~Quiet(m) /\ NoOp(cmdq'[m], {"trsync_start"})
      /\ NoOp(cmdq[m], {"trsync_start"})
      /\ HasOp(cmdq[m], "trsync_trigger") => HasOp(cmdq'[m], "trsync_trigger")
      /\ QueryLast(cmdq[m]) => cmdq'[m] # <<>>
      /\ SettingUp => EarlyCommands(cmdq'[m]) /\ EarlyCommand(Head(cmdq[m]))
  BY <1>1, CommandHits
<1>3. m # Main => endstop' = endstop
  <2>1. m # Main => Head(cmdq[m]).op \notin {"endstop_home", "endstop_off"}
    BY <1>1, CommandTaken
  <2> QED BY <2>1 DEF StopOnTrigger, SetTimeout, EndstopHome, NextCommand
<1>4. OthersAlone(m)
  <2>1. \A o \in Mcus \ {m} : expire_time'[o] = expire_time[o] /\ signal'[o] = signal[o]
    BY <1>1, HitOf DEF McuTypeOK
  <2> QED BY <1>1, <1>2, <1>3, <2>1 DEF OthersAlone
<1>5. McuKeeps(m)
  <2>1. lost' \in Nat /\ lost' >= lost
    BY <1>1, HitOf
  <2> QED BY <1>1, <1>2, <2>1 DEF McuKeeps, Over
<1>6. McuSound(m)'
  <2>1. McuSound(m)
    BY HitOf
  <2>2. FinalIn(rspq'[m]) => Over(m)'
    BY <1>1, <1>5, <2>1 DEF McuKeeps, McuSound
  <2>3. \A i \in DOMAIN cmdq'[m] : cmdq'[m][i].op # "trsync_start"
    BY <1>2 DEF NoOp
  <2> QED BY <1>1, <1>5, <2>1, <2>2, <2>3, StaysSound DEF McuSound
<1>7. McuEarly(m)
  <2> SUFFICES ASSUME SettingUp
               PROVE  EarlyMcu(m)' /\ EarlyCommands(cmdq[m])' /\ EarlyReports(rspq[m])'
    BY DEF McuEarly
  <2>1. /\ EarlyReports(rspq[m]) /\ EarlyCommands(cmdq'[m]) /\ EarlyCommand(Head(cmdq[m]))
        /\ EarlyMcu(m)
    BY <1>2, HitOf
  <2>2. expire_time'[m] = expire_time[m] \/ expire_time'[m] > home_clock
    <3>1. Head(cmdq[m]).op = "trsync_set_timeout" => Head(cmdq[m]).clock > home_clock
      BY <2>1 DEF EarlyCommand
    <3> QED BY <1>1, <3>1, HitOf
  <2>3. EarlyMcu(m)'
    BY <1>1, <2>1, <2>2 DEF EarlyMcu
  <2> QED BY <1>1, <2>1, <2>3 DEF EarlyCommands, EarlyCommand, EarlyReports
<1> QED BY <1>1, <1>2, <1>4, <1>5, <1>6, <1>7 DEF McuHits

LEMMA TrsyncTriggerHits ==
  ASSUME QInv, HitInv, NEW m \in Mcus, TrsyncTrigger(m),
         UNCHANGED <<trdispatchVars, pyVars, pyq>>
  PROVE  McuHits(m)
<1> DEFINE c == Head(cmdq[m])
           ack == [ack |-> TRUE, can_trigger |-> FALSE, trigger_reason |-> "none",
                   clock |-> 0, round |-> c.round]
           more == IF c.op = "trsync_query" THEN <<ack>> ELSE <<>>
<1>1. /\ cmdq[m] # <<>> /\ c.op \in {"trsync_trigger", "trsync_query"} /\ Consume(m)
      /\ trsync_do_trigger(m, c.reason)
      /\ flags' = [flags EXCEPT ![m] = {}]
      /\ report_time' = [report_time EXCEPT ![m] = Never]
      /\ expire_time' = [expire_time EXCEPT ![m] = Never]
      /\ Report(m, more, FALSE, trigger_reason'[m], 0, c.round)
      /\ UNCHANGED <<now, endstop, pyq>>
  BY DEF TrsyncTrigger, NextCommand
<1>2. /\ cmdq'[m] = Tail(cmdq[m]) /\ \A o \in Mcus \ {m} : cmdq'[o] = cmdq[o]
      /\ ~Quiet(m) /\ c \in Command /\ NoOp(cmdq'[m], {"trsync_start"})
      /\ NoOp(cmdq[m], {"trsync_start"})
      /\ QueryLast(cmdq[m]) /\ c.op # "trsync_query" => cmdq'[m] # <<>>
      /\ QueryLast(cmdq[m]) /\ c.op = "trsync_query" => ~HasOp(cmdq[m], "trsync_trigger")
      /\ SettingUp => EarlyCommand(c)
  BY <1>1, CommandHits
<1>3. c.reason \in Reasons /\ c.round \in Nat
  BY <1>2 DEF Command
<1>4. ack \in Response /\ ack.ack
  BY <1>3 DEF Response, Reasons, Time
<1> HIDE DEF c, ack
<1>5. /\ more \in Seq(Response)
      /\ more = <<>> \/ \E a \in Response : a.ack /\ more = <<a>>
  BY <1>4
<1> HIDE DEF more
<1>6. ~SettingUp
  BY <1>1, <1>2 DEF EarlyCommand
<1>7. /\ \A o \in Mcus \ {m} : signal'[o] = signal[o] /\ trigger_reason'[o] = trigger_reason[o]
      /\ "can_trigger" \notin flags[m] => trigger_reason'[m] = trigger_reason[m]
      /\ trigger_reason'[m] \in Reasons
  BY <1>1, <1>3, HitOf, TriggerEffect
<1>8. FALSE \in BOOLEAN /\ 0 \in Time /\ McuTypeOK
  BY HitOf DEF Time
<1>9. /\ Reported(rspq'[m], rspq[m], FALSE, trigger_reason'[m])
      /\ \A o \in Mcus \ {m} : rspq'[o] = rspq[o]
      /\ lost' \in Nat /\ lost' >= lost
      /\ FinalIn(rspq'[m]) \/ lost' >= lost + 1
  BY <1>1, <1>3, <1>5, <1>7, <1>8, ReportReported
<1>10. /\ \A o \in Mcus \ {m} : /\ flags'[o] = flags[o] /\ report_time'[o] = report_time[o]
                                /\ expire_time'[o] = expire_time[o]
       /\ flags'[m] = {}
  BY <1>1, HitOf
<1>11. OthersAlone(m)
  BY <1>1, <1>2, <1>7, <1>9, <1>10 DEF OthersAlone
<1>12. Over(m)'
  BY <1>2, <1>10 DEF Over
<1>13. McuKeeps(m)
  BY <1>1, <1>2, <1>7, <1>9, <1>12 DEF McuKeeps, Reported, Over
<1>14. McuSound(m)'
  <2>1. McuSound(m)
    BY HitOf
  <2>2. Ordered(rspq[m]) /\ ReasonsOK(rspq[m], trigger_reason'[m])
    <3>1. FinalIn(rspq[m]) => trigger_reason[m] = trigger_reason'[m]
      BY <1>7, <2>1 DEF McuSound, Over
    <3> QED BY <2>1, <3>1, ReasonsWithoutFinal DEF McuSound
  <2>3. Ordered(rspq'[m]) /\ ReasonsOK(rspq'[m], trigger_reason'[m])
    BY <1>9, <2>2 DEF Reported
  <2>4. \A i \in DOMAIN cmdq'[m] : cmdq'[m][i].op # "trsync_start"
    BY <1>2 DEF NoOp
  <2> QED BY <1>1, <1>10, <1>12, <1>13, <2>1, <2>3, <2>4, StaysSound
<1> QED BY <1>1, <1>2, <1>6, <1>7, <1>11, <1>13, <1>14 DEF McuHits, McuEarly

LEMMA McuStepHits ==
  ASSUME QInv, HitInv, NEW m \in Mcus, McuStep(m) \/ (m = Main /\ EndstopEvent),
         UNCHANGED <<trdispatchVars, pyVars, pyq>>
  PROVE  HitInv'
<1>1. McuHits(m)
  <2>1. CASE ExpireEvent(m) \/ (m = Main /\ EndstopEvent)
    BY <2>1, TriggerHits
  <2>2. CASE ReportEvent(m)
    BY <2>2, ReportEventHits
  <2>3. CASE ReportTask(m)
    BY <2>3, ReportTaskHits
  <2>4. CASE TrsyncStart(m)
    BY <2>4, TrsyncStartHits
  <2>5. CASE StopOnTrigger(m) \/ SetTimeout(m) \/ EndstopHome(m)
    BY <2>5, SettingHits
  <2>6. CASE TrsyncTrigger(m)
    BY <2>6, TrsyncTriggerHits
  <2> QED BY <2>1, <2>2, <2>3, <2>4, <2>5, <2>6 DEF McuStep
<1> QED BY <1>1, McuHitsInv

-----------------------------------------------------------------------------
(* The serial threads *)

LEMMA HostInputHits ==
  ASSUME QInv, HitInv, NEW m \in Mcus, HostInput(m)
  PROVE  HitInv'
<1> DEFINE r == Head(rspq[m])
<1>1. /\ rspq[m] # <<>> /\ dispatching[m] = <<>>
      /\ rspq' = [rspq EXCEPT ![m] = Tail(@)]
      /\ pyq' = [pyq EXCEPT ![m] = Append(@, r)]
      /\ dispatching' = IF ~r.ack /\ m \in fastreaders
                        THEN [dispatching EXCEPT ![m] = <<r>>] ELSE dispatching
      /\ UNCHANGED <<flags, trigger_reason, report_time, expire_time, signal, endstop, lost,
                     now, cmdq, can_trigger, last_status_clock, fastreaders,
                     pc, k, home_clock, handler, trigger_completion, completed,
                     home_end, last_params, res, result>>
  BY DEF HostInput, mcuVars, pyVars
<1>2. dispatching \in [Mcus -> Seq(Response)]
  BY DEF QInv, TypeOK, TrDispatchTypeOK
<1>3. r \in Response
  BY <1>1, HitOf, TailProps
<1>4. /\ rspq'[m] = Tail(rspq[m]) /\ pyq'[m] = pyq[m] \o <<r>>
      /\ dispatching'[m] = IF ~r.ack /\ m \in fastreaders THEN <<r>> ELSE <<>>
      /\ \A o \in Mcus \ {m} : /\ rspq'[o] = rspq[o] /\ pyq'[o] = pyq[o]
                               /\ dispatching'[o] = dispatching[o]
  <2> HIDE DEF r
  <2>1. Append(pyq[m], r) = pyq[m] \o <<r>>
    BY <1>3, HitOf, ConcatAcks
  <2> QED BY <1>1, <1>2, <2>1, HitOf
<1>5. \A t : ReasonsOK(rspq[m], t) => /\ ReasonsOK(Tail(rspq[m]), t)
                                      /\ ReasonsOK(<<r>>, t)
  <2>1. \A t : ReasonsOK(rspq[m], t) =>
          /\ ReasonsOK(Tail(rspq[m]), t)
          /\ CanReport(r) => r.trigger_reason = "none"
          /\ FinalReport(r) => r.trigger_reason = t
    BY <1>1, HitOf, TailReports
  <2>2. DOMAIN <<r>> = {1} /\ <<r>>[1] = r
    OBVIOUS
  <2> HIDE DEF r
  <2>3. \A t : /\ CanReport(r) => r.trigger_reason = "none"
               /\ FinalReport(r) => r.trigger_reason = t
               => ReasonsOK(<<r>>, t)
    BY <2>2 DEF ReasonsOK
  <2> QED BY <2>1, <2>3
<1>6. /\ Ordered(rspq[m]) => /\ Ordered(Tail(rspq[m]))
                             /\ FinalReport(r) => NoCanIn(Tail(rspq[m]))
      /\ NoCanIn(rspq[m]) => NoCanIn(Tail(rspq[m])) /\ ~CanReport(r)
      /\ EarlyReports(rspq[m]) => EarlyReports(Tail(rspq[m])) /\ r.can_trigger
                                  /\ r.clock >= home_clock
      /\ FinalIn(rspq[m]) => FinalIn(Tail(rspq[m])) \/ FinalReport(r)
      /\ FinalIn(Tail(rspq[m])) \/ FinalReport(r) => FinalIn(rspq[m])
  BY <1>1, HitOf, TailReports
<1> HIDE DEF r
<1>7. \A t : ReasonsOK(pyq[m], t) /\ ReasonsOK(<<r>>, t) => ReasonsOK(pyq'[m], t)
  BY <1>3, <1>4, HitOf, MoreReports
<1>8. /\ Ordered(pyq[m]) /\ (CanReport(r) => ~FinalIn(pyq[m])) => Ordered(pyq'[m])
      /\ NoCanIn(pyq[m]) /\ ~CanReport(r) => NoCanIn(pyq'[m])
      /\ EarlyReports(pyq[m]) /\ r.can_trigger /\ r.clock >= home_clock =>
           EarlyReports(pyq'[m])
      /\ FinalIn(pyq'[m]) <=> FinalIn(pyq[m]) \/ FinalReport(r)
  <2> DEFINE s == pyq[m] \o <<r>>
  <2>1. pyq'[m] = s /\ pyq[m] \in Seq(Response)
    BY <1>4, HitOf
  <2>2. /\ Ordered(pyq[m]) /\ (CanReport(r) => ~FinalIn(pyq[m])) => Ordered(s)
        /\ NoCanIn(pyq[m]) /\ ~CanReport(r) => NoCanIn(s)
        /\ EarlyReports(pyq[m]) /\ r.can_trigger /\ r.clock >= home_clock =>
             EarlyReports(s)
        /\ FinalIn(s) <=> FinalIn(pyq[m]) \/ FinalReport(r)
    BY <1>3, <2>1, MoreReports
  <2> HIDE DEF s
  <2> QED BY <2>1, <2>2
<1>9. SoundInv'
  <2> SUFFICES ASSUME NEW o \in Mcus PROVE McuSound(o)'
    BY DEF SoundInv
  <2>1. McuSound(o)
    BY HitOf
  <2>2. CASE o # m
    BY <1>1, <1>4, <2>1, <2>2 DEF McuSound, Over, Unstarted
  <2>3. CASE o = m
    <3>1. ReasonsOK(pyq'[m], trigger_reason[m]) /\ ReasonsOK(rspq'[m], trigger_reason[m])
      BY <1>4, <1>5, <1>7, <2>1, <2>3 DEF McuSound
    <3>2. Ordered(pyq'[m]) /\ Ordered(rspq'[m])
      BY <1>4, <1>6, <1>8, <2>1, <2>3 DEF McuSound
    <3>3. FinalIn(pyq'[m]) => NoCanIn(rspq'[m])
      BY <1>4, <1>6, <1>8, <2>1, <2>3 DEF McuSound
    <3>4. FinalIn(pyq'[m]) \/ FinalIn(rspq'[m]) => Over(m)
      BY <1>4, <1>6, <1>8, <2>1, <2>3 DEF McuSound
    <3>5. \A i \in DOMAIN cmdq[m] : cmdq[m][i].op # "trsync_start"
      BY <1>1, <2>1, <2>3 DEF McuSound, Unstarted
    <3>6. "can_trigger" \in flags[m] => trigger_reason[m] = "none"
      BY <2>1, <2>3 DEF McuSound
    <3> QED BY <1>1, <2>3, <3>1, <3>2, <3>3, <3>4, <3>5, <3>6 DEF McuSound, Over
  <2> QED BY <2>2, <2>3
<1>10. StartedInv'
  <2>1. \A o \in Mcus : Stopped(o) => Stopped(o)'
    BY <1>1, <1>4 DEF Stopped, Quiet
  <2>2. pc = "start" => \A i \in k..N : trsyncs[i] \in Mcus /\ Stopped(trsyncs[i])
    <3>1. k \in 1..N /\ N \in Nat /\ trsyncs \in [1..N -> Mcus]
      BY TrsyncsProps DEF QInv, TypeOK
    <3>2. k..N \subseteq 1..N
      BY <3>1
    <3> QED BY <3>1, <3>2 DEF HitInv, StartedInv
  <2> QED BY <1>1, <2>1, <2>2 DEF StartedInv
<1>11. SetUpInv'
  <2> SUFFICES ASSUME SettingUp PROVE SetUpInv'
    BY <1>1 DEF SetUpInv, SettingUp
  <2>1. SetUpInv /\ SettingUp'
    BY <1>1 DEF HitInv, SettingUp
  <2>2. ASSUME NEW o \in Mcus
        PROVE  /\ EarlyMcu(o)' /\ EarlyHost(o)'
               /\ EarlyCommands(cmdq[o])' /\ EarlyReports(rspq[o])'
    <3>1. /\ EarlyMcu(o) /\ EarlyHost(o)
          /\ EarlyCommands(cmdq[o]) /\ EarlyReports(rspq[o])
      BY <2>1 DEF SetUpInv
    <3>2. EarlyMcu(o)' /\ EarlyCommands(cmdq[o])'
      BY <1>1, <3>1 DEF EarlyMcu, EarlyCommands, EarlyCommand
    <3>3. CASE o = m
      <4>1. EarlyReports(rspq'[m]) /\ EarlyReports(pyq'[m])
        BY <1>4, <1>6, <1>8, <3>1, <3>3 DEF EarlyHost
      <4>2. EarlyReports(<<r>>) /\ EarlyReports(<<>>)
        BY <1>6, <3>1, <3>3 DEF EarlyReports
      <4>3. EarlyReports(dispatching'[m])
        BY <1>4, <4>2
      <4> QED BY <1>1, <3>1, <3>2, <3>3, <4>1, <4>3 DEF EarlyHost, EarlyReports
    <3>4. CASE o # m
      BY <1>1, <1>4, <3>1, <3>2, <3>4 DEF EarlyHost, EarlyReports
    <3> QED BY <3>3, <3>4
  <2> QED BY <1>1, <2>1, <2>2 DEF SetUpInv
<1>12. AddedInv'
  BY <1>1 DEF HitInv, AddedInv
<1>13. PassedInv'
  <2>1. Passing => Passing'
    <3> SUFFICES ASSUME NEW o \in Mcus, NEW i \in DOMAIN dispatching[o],
                        ~dispatching[o][i].can_trigger
                 PROVE  Passing'
      BY DEF Passing
    <3>1. o # m
      BY <1>1
    <3> QED BY <1>4, <3>1 DEF Passing
  <2>2. FinalReport(r) /\ pc \in {"moving", "wait"} => Passing'
    <3> SUFFICES ASSUME FinalReport(r), pc \in {"moving", "wait"} PROVE Passing'
      OBVIOUS
    <3>1. m \in fastreaders /\ ~r.ack /\ ~r.can_trigger
      BY DEF HitInv, AddedInv, FinalReport
    <3>2. dispatching'[m] = <<r>> /\ 1 \in DOMAIN <<r>> /\ <<r>>[1] = r
      BY <1>4, <3>1
    <3> QED BY <3>1, <3>2 DEF Passing
  <2>3. (\E o \in Mcus : FinalIn(pyq'[o])) => FinalReport(r) \/ \E o \in Mcus : FinalIn(pyq[o])
    BY <1>4, <1>8
  <2> QED BY <1>1, <2>1, <2>2, <2>3 DEF HitInv, PassedInv
<1>14. \A o \in Mcus : /\ Told(o) => Told(o)'
                       /\ Known(o) => Known(o)'
                       /\ LastOK(o) => LastOK(o)'
                       /\ ResOK(o)' = ResOK(o)
  <2> SUFFICES ASSUME NEW o \in Mcus
               PROVE  /\ Told(o) => Told(o)'
                      /\ Known(o) => Known(o)'
                      /\ LastOK(o) => LastOK(o)'
                      /\ ResOK(o)' = ResOK(o)
    OBVIOUS
  <2>1. FinalIn(pyq[o]) \/ FinalIn(rspq[o]) => FinalIn(pyq'[o]) \/ FinalIn(rspq'[o])
    BY <1>4, <1>6, <1>8
  <2>2. NoCan(o) => NoCan(o)'
    <3>1. NoCanIn(pyq[o]) /\ NoCanIn(rspq[o]) => NoCanIn(pyq'[o]) /\ NoCanIn(rspq'[o])
      BY <1>4, <1>6, <1>8
    <3> QED BY <1>1, <3>1 DEF NoCan, Over
  <2> QED BY <1>1, <2>1, <2>2 DEF Told, Known, LastOK, Over, ResOK
<1>15. ToldInv'
  BY <1>1, <1>14 DEF HitInv, ToldInv
<1>16. AnswerInv' /\ ResInv'
  <2>1. PICK m0 \in Mcus : m0 = trsyncs[k]
    BY TrsyncsBefore DEF QInv
  <2>2. \A i \in 1..(k-1) : trsyncs[i] \in Mcus
    BY TrsyncsBefore DEF QInv
  <2>3. AnswerInv'
    BY <1>1, <1>14, <2>1 DEF HitInv, AnswerInv
  <2>4. ResInv'
    BY <1>1, <1>14, <2>2 DEF HitInv, ResInv, HomeWaitResult
  <2> QED BY <2>3, <2>4
<1>17. HandlerInv'
  BY <1>1 DEF HitInv, HandlerInv
<1> QED BY <1>9, <1>10, <1>11, <1>12, <1>13, <1>15, <1>16, <1>17 DEF HitInv

-----------------------------------------------------------------------------
(* The background threads *)

(* One more command that is no trsync_start keeps what is known of m. *)
LEMMA OneSent ==
  ASSUME NEW q \in Seq(Command), NEW c \in Command
  PROVE  /\ \A op : HasOp(q, op) => HasOp(q \o <<c>>, op)
         /\ HasOp(q \o <<c>>, c.op)
         /\ EarlyCommands(q) /\ EarlyCommand(c) => EarlyCommands(q \o <<c>>)
         /\ \A ops : NoOp(q, ops) /\ c.op \notin ops => NoOp(q \o <<c>>, ops)
         /\ \A i \in DOMAIN (q \o <<c>>) : \/ i \in DOMAIN q /\ (q \o <<c>>)[i] = q[i]
                                           \/ (q \o <<c>>)[i] = c
         /\ q \o <<c>> # <<>>
<1>1. <<c>> \in Seq(Command) /\ DOMAIN <<c>> = {1} /\ <<c>>[1] = c
  OBVIOUS
<1>2. /\ HasOp(<<c>>, c.op)
      /\ EarlyCommand(c) => EarlyCommands(<<c>>)
      /\ \A ops : c.op \notin ops => NoOp(<<c>>, ops)
  BY <1>1 DEF HasOp, EarlyCommands, NoOp
<1>3. /\ \A op : HasOp(q, op) \/ HasOp(<<c>>, op) => HasOp(q \o <<c>>, op)
      /\ EarlyCommands(q) /\ EarlyCommands(<<c>>) => EarlyCommands(q \o <<c>>)
      /\ \A ops : NoOp(q, ops) /\ NoOp(<<c>>, ops) => NoOp(q \o <<c>>, ops)
  BY <1>1, MoreOps
<1>4. /\ DOMAIN (q \o <<c>>) = 1..(Len(q) + 1) /\ DOMAIN q = 1..Len(q) /\ Len(q) \in Nat
      /\ \A i \in DOMAIN q : (q \o <<c>>)[i] = q[i]
      /\ (q \o <<c>>)[Len(q) + 1] = c
      /\ q \o <<c>> \in Seq(Command) /\ Len(q \o <<c>>) = Len(q) + 1
  BY ConcatTwo
<1>5. \A i \in DOMAIN (q \o <<c>>) : i \in DOMAIN q \/ i = Len(q) + 1
  BY <1>4
<1>6. q \o <<c>> # <<>>
  BY <1>4, EmptyQueue
<1> QED BY <1>2, <1>3, <1>4, <1>5, <1>6

LEMMA PyHandleHits ==
  ASSUME QInv, HitInv, NEW m \in Mcus, PyHandle(m)
  PROVE  HitInv'
<1> DEFINE r == Head(pyq[m])
           t == Tail(pyq[m])
           c == Cmd("trsync_trigger", 0, "past_end_time")
<1>1. /\ pyq[m] # <<>> /\ pyq' = [pyq EXCEPT ![m] = t]
      /\ last_params' = IF ~r.ack /\ handler[m] = "query"
                        THEN <<r.trigger_reason>> ELSE last_params
      /\ UNCHANGED <<flags, trigger_reason, report_time, expire_time, signal, endstop, lost,
                     now, rspq, can_trigger, last_status_clock, fastreaders, dispatching,
                     pc, k, home_clock, handler, res, result>>
  BY DEF PyHandle, mcuVars, trdispatchVars
<1>2. /\ trigger_completion' \subseteq trigger_completion
      /\ completed' => completed \/ FinalReport(r)
      /\ UNCHANGED cmdq \/ (handler[m] = "trsync" /\ home_end[m] # Never /\ Send(m, <<c>>))
      /\ home_end' \in {home_end, [home_end EXCEPT ![m] = Never]}
  BY DEF PyHandle, PyHandleTrsyncState, FinalReport
<1>3. pyq'[m] = t /\ \A o \in Mcus \ {m} : pyq'[o] = pyq[o]
  BY <1>1, HitOf
<1>4. c \in Command /\ c.op = "trsync_trigger"
  BY HitOf, CmdType DEF Time, Reasons
<1>5. /\ \A x : ReasonsOK(pyq[m], x) =>
           /\ ReasonsOK(t, x)
           /\ CanReport(r) => r.trigger_reason = "none"
           /\ FinalReport(r) => r.trigger_reason = x
      /\ Ordered(pyq[m]) => Ordered(t) /\ (FinalReport(r) => NoCanIn(t))
      /\ NoCanIn(pyq[m]) => NoCanIn(t) /\ ~CanReport(r)
      /\ EarlyReports(pyq[m]) => EarlyReports(t) /\ r.can_trigger
      /\ FinalIn(pyq[m]) => FinalIn(t) \/ FinalReport(r)
      /\ FinalIn(t) \/ FinalReport(r) => FinalIn(pyq[m])
  BY <1>1, HitOf, TailReports
<1>6. ~r.ack => CanReport(r) \/ FinalReport(r)
  BY DEF CanReport, FinalReport
<1> HIDE DEF r, t, c
<1>7. \/ UNCHANGED cmdq
      \/ /\ handler[m] = "trsync" /\ home_end[m] # Never
         /\ cmdq'[m] = cmdq[m] \o <<c>> /\ \A o \in Mcus \ {m} : cmdq'[o] = cmdq[o]
  <2>1. <<c>> \in Seq(Command)
    BY <1>4
  <2> QED BY <1>2, <2>1, HitOf, SendEffect
<1>8. /\ \A o \in Mcus \ {m} : cmdq'[o] = cmdq[o]
      /\ HasOp(cmdq[m], "trsync_trigger") => HasOp(cmdq'[m], "trsync_trigger")
      /\ NoOp(cmdq[m], {"trsync_start"}) => NoOp(cmdq'[m], {"trsync_start"})
  <2>1. /\ HasOp(cmdq[m], "trsync_trigger") => HasOp(cmdq[m] \o <<c>>, "trsync_trigger")
        /\ NoOp(cmdq[m], {"trsync_start"}) => NoOp(cmdq[m] \o <<c>>, {"trsync_start"})
    BY <1>4, HitOf, OneSent
  <2> QED BY <1>7, <2>1
<1>9. McuSound(m) /\ NoOp(cmdq[m], {"trsync_start"}) /\ NoOp(cmdq'[m], {"trsync_start"})
  <2>1. McuSound(m)
    BY HitOf
  <2>2. NoOp(cmdq[m], {"trsync_start"})
    BY <1>1, <2>1 DEF NoOp, McuSound, Unstarted
  <2> QED BY <1>8, <2>1, <2>2
<1>10. SoundInv'
  <2> SUFFICES ASSUME NEW o \in Mcus PROVE McuSound(o)'
    BY DEF SoundInv
  <2>1. McuSound(o)
    BY HitOf
  <2>2. CASE o # m
    BY <1>1, <1>3, <1>8, <2>1, <2>2 DEF McuSound, Over, Unstarted
  <2>3. CASE o = m
    BY <1>1, <1>3, <1>5, <1>9, <2>3 DEF McuSound, Over, NoOp
  <2> QED BY <2>2, <2>3
<1>11. StartedInv'
  <2>1. \A o \in Mcus : Stopped(o) => Stopped(o)'
    BY <1>1, <1>2, <1>3, <1>8 DEF Stopped, Quiet
  <2>2. pc = "start" => \A i \in k..N : trsyncs[i] \in Mcus /\ Stopped(trsyncs[i])
    <3>1. k \in 1..N /\ N \in Nat /\ trsyncs \in [1..N -> Mcus]
      BY TrsyncsProps DEF QInv, TypeOK
    <3>2. k..N \subseteq 1..N
      BY <3>1
    <3> QED BY <3>1, <3>2 DEF HitInv, StartedInv
  <2> QED BY <1>1, <2>1, <2>2 DEF StartedInv
<1>12. SetUpInv'
  <2> SUFFICES ASSUME SettingUp PROVE SetUpInv'
    BY <1>1 DEF SetUpInv, SettingUp
  <2>1. SetUpInv /\ SettingUp'
    BY <1>1 DEF HitInv, SettingUp
  <2>2. EarlyHost(m) /\ r.can_trigger
    BY <1>5, <2>1 DEF SetUpInv, EarlyHost
  <2>3. UNCHANGED cmdq
    BY <1>7, <2>2 DEF EarlyHost
  <2>4. ~completed'
    BY <1>2, <2>1, <2>2 DEF SetUpInv, FinalReport
  <2>5. ASSUME NEW o \in Mcus
        PROVE  /\ EarlyMcu(o)' /\ EarlyHost(o)'
               /\ EarlyCommands(cmdq[o])' /\ EarlyReports(rspq[o])'
    <3>1. /\ EarlyMcu(o) /\ EarlyHost(o)
          /\ EarlyCommands(cmdq[o]) /\ EarlyReports(rspq[o])
      BY <2>1 DEF SetUpInv
    <3>2. EarlyMcu(o)' /\ EarlyCommands(cmdq[o])' /\ EarlyReports(rspq[o])'
      BY <1>1, <2>3, <3>1 DEF EarlyMcu, EarlyCommands, EarlyCommand, EarlyReports
    <3>3. handler[o] # "none" => home_end'[o] = Never
      <4>1. home_end \in [Mcus -> Time]
        BY DEF QInv, TypeOK
      <4> QED BY <1>2, <3>1, <4>1 DEF EarlyHost
    <3>4. EarlyReports(pyq'[o])
      BY <1>3, <1>5, <3>1 DEF EarlyHost
    <3> QED BY <1>1, <3>1, <3>2, <3>3, <3>4 DEF EarlyHost, EarlyReports
  <2> QED BY <1>1, <2>1, <2>4, <2>5 DEF SetUpInv
<1>13. AddedInv' /\ HandlerInv'
  BY <1>1 DEF HitInv, AddedInv, HandlerInv
<1>14. PassedInv'
  <2>1. (\E o \in Mcus : FinalIn(pyq'[o])) => \E o \in Mcus : FinalIn(pyq[o])
    BY <1>3, <1>5
  <2>2. completed' => completed \/ \E o \in Mcus : FinalIn(pyq[o])
    BY <1>2, <1>5
  <2> QED BY <1>1, <2>1, <2>2 DEF HitInv, PassedInv, Passing
<1>15. NoCan(m) \/ FinalReport(r) => NoCan(m)'
  <2>1. NoCan(m) => Over(m) /\ NoCanIn(t) /\ NoCanIn(rspq[m])
    BY <1>5 DEF NoCan
  <2>2. FinalReport(r) => Over(m) /\ NoCanIn(t) /\ NoCanIn(rspq[m])
    BY <1>5, <1>9 DEF McuSound
  <2> QED BY <1>1, <1>3, <1>9, <2>1, <2>2 DEF NoCan, Over
<1>16. ToldInv'
  <2>1. ASSUME NEW o \in Mcus, Told(o) PROVE Told(o)'
    <3>1. CASE o # m
      BY <1>1, <1>3, <1>8, <2>1, <3>1 DEF Told, NoCan, Over
    <3>2. CASE o = m
      BY <1>1, <1>3, <1>5, <1>8, <1>15, <2>1, <3>2 DEF Told
    <3> QED BY <3>1, <3>2
  <2> QED BY <1>1, <2>1 DEF HitInv, ToldInv
<1>17. AnswerInv'
  <2> SUFFICES ASSUME pc = "ack" PROVE AnswerInv'
    BY <1>1 DEF AnswerInv
  <2>1. PICK m0 \in Mcus : m0 = trsyncs[k]
    BY TrsyncsBefore DEF QInv
  <2>2. Known(m0) /\ LastOK(m0) /\ handler[m0] = "query"
    BY <2>1 DEF HitInv, AnswerInv, QInv, QueryInv, QueryState
  <2>3. Known(m0)' /\ LastOK(m0)'
    <3>1. CASE m0 # m
      <4>1. handler[m] # "query"
        BY <2>1, <3>1 DEF HitInv, HandlerInv
      <4> QED BY <1>1, <1>3, <1>8, <2>2, <3>1, <4>1 DEF Known, LastOK, NoCan, Over
    <3>2. CASE m0 = m
      <4>1. UNCHANGED cmdq
        BY <1>7, <2>2, <3>2
      <4>2. last_params' = IF r.ack THEN last_params ELSE <<r.trigger_reason>>
        BY <1>1, <2>2, <3>2
      <4>3. /\ CanReport(r) => r.trigger_reason = "none"
            /\ FinalReport(r) => r.trigger_reason = trigger_reason[m] /\ Over(m)
        BY <1>5, <1>9 DEF McuSound
      <4>4. LastOK(m)'
        <5>1. Over(m) => Over(m)'
          BY <1>1, <4>1 DEF Over
        <5> QED BY <1>1, <1>6, <2>2, <3>2, <4>2, <4>3, <5>1 DEF LastOK
      <4>5. Known(m)'
        <5>1. CASE NoCan(m) /\ last_params \in {NoParams, <<trigger_reason[m]>>}
          <6>1. ~CanReport(r)
            BY <1>5, <5>1 DEF NoCan
          <6> QED BY <1>1, <1>6, <1>15, <4>2, <4>3, <5>1, <6>1 DEF Known
        <5>2. CASE HasOp(cmdq[m], "trsync_trigger") \/ FinalIn(t) \/ FinalIn(rspq[m])
                   \/ (lost >= 1 /\ cmdq[m] # <<>>) \/ lost >= 2
          BY <1>1, <1>3, <4>1, <5>2 DEF Known
        <5>3. CASE FinalReport(r)
          <6>1. ~r.ack
            BY <5>3 DEF FinalReport
          <6> QED BY <1>1, <1>15, <4>2, <4>3, <5>3, <6>1 DEF Known
        <5> QED BY <1>5, <2>2, <3>2, <5>1, <5>2, <5>3 DEF Known
      <4> QED BY <3>2, <4>4, <4>5
    <3> QED BY <3>1, <3>2
  <2> QED BY <1>1, <2>1, <2>3 DEF AnswerInv
<1>18. ResInv'
  BY <1>1 DEF HitInv, ResInv, ResOK, HomeWaitResult
<1> QED BY <1>10, <1>11, <1>12, <1>13, <1>14, <1>16, <1>17, <1>18 DEF HitInv

-----------------------------------------------------------------------------
(* The fast reader *)

(* trdispatch passes the first trigger on to all, and counts timeouts from
   the oldest report. *)
LEMMA HandleStateHit ==
  ASSUME TypeOK, NEW m \in Mcus, NEW r \in Response, r.clock # Never,
         handle_trsync_state(r, m)
  PROVE  \/ ~can_trigger /\ UNCHANGED <<can_trigger, last_status_clock, cmdq>>
         \/ /\ can_trigger /\ ~r.can_trigger /\ ~can_trigger'
            /\ \A o \in Mcus : \E c \in Command : /\ c.op = "trsync_trigger"
                                                  /\ cmdq'[o] = cmdq[o] \o <<c>>
         \/ /\ can_trigger /\ r.can_trigger /\ can_trigger'
            /\ last_status_clock' = [last_status_clock EXCEPT ![m] = r.clock]
            /\ \A o \in Mcus :
                 \/ cmdq'[o] = cmdq[o]
                 \/ \E c \in Command :
                      /\ c.op = "trsync_set_timeout"
                      /\ c.clock = StatusTime(last_status_clock', o) + ExpireTicks
                      /\ cmdq'[o] = cmdq[o] \o <<c>>
<1> DEFINE status == [last_status_clock EXCEPT ![m] = r.clock]
           Expire(o) == StatusTime(status, o) + ExpireTicks
           extended == {o \in Mcus : Extends(Expire(o), expire_clock[o])}
           Msg(op, clock) == [op |-> op, clock |-> clock, round |-> r.round,
                              reason |-> IF op = "trsync_trigger"
                                         THEN "host_request" ELSE "none"]
<1>1. /\ r.round \in Nat /\ r.clock \in Nat
      /\ last_status_clock \in [Mcus -> Nat] /\ cmdq \in [Mcus -> Seq(Command)]
      /\ ExpireTicks \in Nat
  BY ExpireAssumption DEF TypeOK, McuTypeOK, TrDispatchTypeOK, Response, Time, Never
<1>2. status \in [Mcus -> Nat]
  BY <1>1
<1>3. \A o \in Mcus : Expire(o) \in Nat
  <2> HIDE DEF status
  <2>1. \A o \in Mcus : StatusTime(status, o) \in Nat
    BY <1>2, StatusTimeIsOldest
  <2>2. \A x \in Nat : x + ExpireTicks \in Nat
    BY <1>1
  <2> QED BY <2>1, <2>2
<1>4. \A q \in Seq(Command), c \in Command : Append(q, c) = q \o <<c>>
  OBVIOUS
<1>5. CASE ~can_trigger /\ UNCHANGED <<can_trigger, last_status_clock, expire_clock, cmdq>>
  BY <1>5
<1>6. CASE /\ can_trigger /\ ~r.can_trigger /\ can_trigger' = FALSE
           /\ cmdq' = [o \in Mcus |-> Append(cmdq[o], Msg("trsync_trigger", 0))]
  <2> DEFINE c == Msg("trsync_trigger", 0)
  <2>1. c \in Command /\ c.op = "trsync_trigger"
    BY <1>1 DEF Command, Reasons, Time
  <2>2. cmdq' = [o \in Mcus |-> Append(cmdq[o], c)]
    BY <1>6
  <2> HIDE DEF c, Msg
  <2>3. \A o \in Mcus : cmdq'[o] = cmdq[o] \o <<c>>
    BY <1>1, <1>4, <2>1, <2>2
  <2> QED BY <1>6, <2>1, <2>3
<1>7. CASE /\ can_trigger /\ r.can_trigger
           /\ last_status_clock' = status
           /\ cmdq' = [o \in Mcus |->
                         IF o \in extended
                         THEN Append(cmdq[o], Msg("trsync_set_timeout", Expire(o)))
                         ELSE cmdq[o]]
           /\ can_trigger' = can_trigger
  <2> DEFINE e == [o \in Mcus |-> Msg("trsync_set_timeout", Expire(o))]
  <2>1. \A o \in Mcus : e[o] \in Command /\ e[o].op = "trsync_set_timeout"
                        /\ e[o].clock = Expire(o)
    <3> HIDE DEF Expire
    <3> QED BY <1>1, <1>3 DEF Command, Reasons, Time
  <2>2. cmdq' = [o \in Mcus |-> IF o \in extended THEN Append(cmdq[o], e[o]) ELSE cmdq[o]]
    BY <1>7
  <2>3. \A o \in Mcus : Expire(o) = StatusTime(last_status_clock', o) + ExpireTicks
    BY <1>7
  <2> HIDE DEF e, Msg, extended, Expire
  <2>4. \A o \in Mcus : cmdq'[o] = cmdq[o] \/ cmdq'[o] = cmdq[o] \o <<e[o]>>
    BY <1>1, <1>4, <2>1, <2>2
  <2>5. \A o \in Mcus :
          \/ cmdq'[o] = cmdq[o]
          \/ \E c \in Command :
               /\ c.op = "trsync_set_timeout"
               /\ c.clock = StatusTime(last_status_clock', o) + ExpireTicks
               /\ cmdq'[o] = cmdq[o] \o <<c>>
    BY <2>1, <2>3, <2>4
  <2> QED BY <1>7, <2>5
<1> QED BY <1>5, <1>6, <1>7 DEF handle_trsync_state

LEMMA FastReadHits ==
  ASSUME QInv, HitInv, NEW m \in Mcus, FastRead(m), UNCHANGED <<pyVars, pyq>>
  PROVE  HitInv'
<1> DEFINE r == dispatching[m][1]
<1>1. /\ dispatching[m] # <<>> /\ handle_trsync_state(r, m)
      /\ dispatching' = [dispatching EXCEPT ![m] = <<>>]
      /\ UNCHANGED <<flags, trigger_reason, report_time, expire_time, signal, endstop, lost,
                     now, rspq, pyq, fastreaders, pc, k, home_clock, handler, home_end,
                     completed, last_params, res, result>>
  BY DEF FastRead, mcuVars, pyVars
<1>2. /\ dispatching \in [Mcus -> Seq(Response)] /\ Len(dispatching[m]) <= 1
      /\ last_status_clock \in [Mcus -> Nat] /\ can_trigger \in BOOLEAN
  BY DEF QInv, TypeOK, TrDispatchTypeOK
<1>3. /\ 1 \in DOMAIN dispatching[m] /\ r \in Response
      /\ \A i \in DOMAIN dispatching[m] : i = 1
  BY <1>1, <1>2, TailProps
<1>4. r.clock # Never
  BY <1>3 DEF QInv, ReportsInv, ClocksOK
<1>5. pc \notin {"stop", "ack", "idle", "start", "dispatch"}
  BY <1>1 DEF QInv, ReadersInv
<1>6. /\ dispatching'[m] = <<>>
      /\ \A o \in Mcus \ {m} : dispatching'[o] = dispatching[o]
  BY <1>1, <1>2
<1> HIDE DEF r
<1>7. \/ ~can_trigger /\ UNCHANGED <<can_trigger, last_status_clock, cmdq>>
      \/ /\ can_trigger /\ ~r.can_trigger /\ ~can_trigger'
         /\ \A o \in Mcus : \E c \in Command : /\ c.op = "trsync_trigger"
                                               /\ cmdq'[o] = cmdq[o] \o <<c>>
      \/ /\ can_trigger /\ r.can_trigger /\ can_trigger'
         /\ last_status_clock' = [last_status_clock EXCEPT ![m] = r.clock]
         /\ \A o \in Mcus :
              \/ cmdq'[o] = cmdq[o]
              \/ \E c \in Command :
                   /\ c.op = "trsync_set_timeout"
                   /\ c.clock = StatusTime(last_status_clock', o) + ExpireTicks
                   /\ cmdq'[o] = cmdq[o] \o <<c>>
  BY <1>1, <1>3, <1>4, HitOf, HandleStateHit
<1>8. \A o \in Mcus :
        \/ cmdq'[o] = cmdq[o]
        \/ \E c \in Command : c.op # "trsync_start" /\ cmdq'[o] = cmdq[o] \o <<c>>
  BY <1>7
<1>9. ASSUME NEW o \in Mcus
      PROVE  /\ HasOp(cmdq[o], "trsync_trigger") => HasOp(cmdq'[o], "trsync_trigger")
             /\ NoOp(cmdq[o], {"trsync_start"}) => NoOp(cmdq'[o], {"trsync_start"})
             /\ \A i \in DOMAIN cmdq'[o] : cmdq'[o][i].op = "trsync_start" =>
                  i \in DOMAIN cmdq[o] /\ cmdq[o][i].op = "trsync_start"
  <2>1. CASE cmdq'[o] = cmdq[o]
    BY <2>1
  <2>2. ASSUME NEW c \in Command, c.op # "trsync_start", cmdq'[o] = cmdq[o] \o <<c>>
        PROVE  /\ HasOp(cmdq[o], "trsync_trigger") => HasOp(cmdq'[o], "trsync_trigger")
               /\ NoOp(cmdq[o], {"trsync_start"}) => NoOp(cmdq'[o], {"trsync_start"})
               /\ \A i \in DOMAIN cmdq'[o] : cmdq'[o][i].op = "trsync_start" =>
                    i \in DOMAIN cmdq[o] /\ cmdq[o][i].op = "trsync_start"
    <3> DEFINE s == cmdq[o] \o <<c>>
    <3>1. /\ HasOp(cmdq[o], "trsync_trigger") => HasOp(s, "trsync_trigger")
          /\ NoOp(cmdq[o], {"trsync_start"}) => NoOp(s, {"trsync_start"})
          /\ \A i \in DOMAIN s : \/ i \in DOMAIN cmdq[o] /\ s[i] = cmdq[o][i]
                                 \/ s[i] = c
      BY <2>2, HitOf, OneSent
    <3> HIDE DEF s
    <3>2. cmdq'[o] = s
      BY <2>2 DEF s
    <3> QED BY <2>2, <3>1, <3>2
  <2> QED BY <1>8, <2>1, <2>2
<1>10. SoundInv'
  <2> SUFFICES ASSUME NEW o \in Mcus PROVE McuSound(o)'
    BY DEF SoundInv
  <2>1. McuSound(o)
    BY HitOf
  <2>2. (Over(o) => Over(o)') /\ (Unstarted(o) => Unstarted(o)')
    BY <1>1, <1>9 DEF Over, Unstarted
  <2> QED BY <1>1, <1>9, <2>1, <2>2 DEF McuSound
<1>11. SetUpInv'
  <2> SUFFICES ASSUME SettingUp PROVE SetUpInv'
    BY <1>1 DEF SetUpInv, SettingUp
  <2>1. SetUpInv /\ SettingUp' /\ pc \in {"add", "endstop"}
    BY <1>1, <1>5 DEF HitInv, SettingUp
  <2>2. can_trigger /\ r.can_trigger /\ r.clock >= home_clock
        /\ \A o \in Mcus : last_status_clock[o] >= home_clock
    BY <1>3, <2>1 DEF SetUpInv, EarlyHost, EarlyReports, r
  <2>3. /\ can_trigger'
        /\ last_status_clock' = [last_status_clock EXCEPT ![m] = r.clock]
        /\ \A o \in Mcus :
              \/ cmdq'[o] = cmdq[o]
              \/ \E c \in Command :
                   /\ c.op = "trsync_set_timeout"
                   /\ c.clock = StatusTime(last_status_clock', o) + ExpireTicks
                   /\ cmdq'[o] = cmdq[o] \o <<c>>
    BY <1>7, <2>2
  <2>4. last_status_clock' \in [Mcus -> Nat]
    <3>1. r.clock \in Nat
      BY <1>3, <1>4 DEF Response, Time
    <3> QED BY <1>2, <2>3, <3>1
  <2>5. \A o \in Mcus : last_status_clock'[o] >= home_clock
    BY <1>2, <2>2, <2>3
  <2>6. ASSUME NEW o \in Mcus
        PROVE  StatusTime(last_status_clock', o) + ExpireTicks > home_clock
    <3>1. PICK x \in Others(o) : StatusTime(last_status_clock', o) = last_status_clock'[x]
      BY <2>4, StatusTimeIsOldest
    <3>2. x \in Mcus
      BY OthersExist
    <3>3. last_status_clock'[x] \in Nat /\ home_clock \in Nat /\ ExpireTicks \in Nat \ {0}
      BY <2>4, <3>2, HitOf, ExpireAssumption
    <3> QED BY <2>5, <3>1, <3>2, <3>3
  <2>7. ASSUME NEW o \in Mcus
        PROVE  /\ EarlyMcu(o)' /\ EarlyHost(o)'
               /\ EarlyCommands(cmdq[o])' /\ EarlyReports(rspq[o])'
    <3>1. /\ EarlyMcu(o) /\ EarlyHost(o)
          /\ EarlyCommands(cmdq[o]) /\ EarlyReports(rspq[o])
      BY <2>1 DEF SetUpInv
    <3>2. EarlyCommands(cmdq'[o])
      <4>1. ASSUME NEW c \in Command, c.op = "trsync_set_timeout",
                   c.clock = StatusTime(last_status_clock', o) + ExpireTicks,
                   cmdq'[o] = cmdq[o] \o <<c>>
            PROVE  EarlyCommands(cmdq'[o])
        <5>1. EarlyCommand(c)
          BY <2>6, <4>1 DEF EarlyCommand
        <5>2. EarlyCommands(cmdq[o] \o <<c>>)
          BY <3>1, <5>1, HitOf, OneSent
        <5> QED BY <4>1, <5>2
      <4> QED BY <2>3, <3>1, <4>1
    <3>3. EarlyReports(dispatching'[o])
      BY <1>6, <3>1, NoReports DEF EarlyHost
    <3> QED BY <1>1, <3>1, <3>2, <3>3
        DEF EarlyMcu, EarlyHost, EarlyCommands, EarlyCommand, EarlyReports
  <2> QED BY <1>1, <2>1, <2>3, <2>5, <2>7 DEF SetUpInv
<1>12. AddedInv' /\ HandlerInv' /\ StartedInv' /\ AnswerInv' /\ ResInv'
  BY <1>1, <1>5 DEF HitInv, AddedInv, HandlerInv, StartedInv, AnswerInv, ResInv
<1>13. PassedInv'
  <2>1. ~can_trigger \/ Passing => ~can_trigger' \/ Passing'
    <3> SUFFICES ASSUME can_trigger, r.can_trigger, NEW o \in Mcus,
                        NEW i \in DOMAIN dispatching[o], ~dispatching[o][i].can_trigger
                 PROVE  Passing'
      BY <1>7 DEF Passing
    <3>1. o # m
      BY <1>3 DEF r
    <3> QED BY <1>6, <3>1 DEF Passing
  <2> QED BY <1>1, <2>1 DEF HitInv, PassedInv
<1>14. ToldInv'
  <2> SUFFICES ASSUME pc \in {"moving", "wait", "remove", "stop", "ack"}, ~can_trigger',
                      NEW o \in Mcus
               PROVE  Told(o)'
    BY <1>1 DEF ToldInv
  <2>1. CASE ~can_trigger
    <3>1. Told(o)
      BY <2>1 DEF HitInv, ToldInv
    <3>2. Over(o) => Over(o)'
      BY <1>1, <1>9 DEF Over
    <3> QED BY <1>1, <1>9, <3>1, <3>2 DEF Told, NoCan
  <2>2. CASE can_trigger
    <3>1. PICK c \in Command : c.op = "trsync_trigger" /\ cmdq'[o] = cmdq[o] \o <<c>>
      BY <1>7, <2>2
    <3>2. HasOp(cmdq[o] \o <<c>>, "trsync_trigger")
      BY <3>1, HitOf, OneSent
    <3> QED BY <3>1, <3>2 DEF Told
  <2> QED BY <2>1, <2>2
<1> QED BY <1>10, <1>11, <1>12, <1>13, <1>14 DEF HitInv

-----------------------------------------------------------------------------
(* The reactor *)

(* A step of the reactor sends at most one command to one trsync. *)
Sent(m) == \/ cmdq' = cmdq
           \/ \E c \in Command : c.op # "trsync_start" /\ Send(m, <<c>>)

LEMMA SentHits ==
  ASSUME QInv, HitInv, NEW m \in Mcus, Sent(m), UNCHANGED <<mcuVars, rspq, pyq>>
  PROVE  SoundInv' /\ \A o \in Mcus : Told(o) => Told(o)'
<1>1. UNCHANGED <<flags, trigger_reason, report_time, lost>>
  BY DEF mcuVars
<1>2. ASSUME NEW o \in Mcus
      PROVE  /\ HasOp(cmdq[o], "trsync_trigger") => HasOp(cmdq'[o], "trsync_trigger")
             /\ NoOp(cmdq[o], {"trsync_start"}) => NoOp(cmdq'[o], {"trsync_start"})
             /\ \A i \in DOMAIN cmdq'[o] : cmdq'[o][i].op = "trsync_start" =>
                  i \in DOMAIN cmdq[o] /\ cmdq[o][i].op = "trsync_start"
  <2>1. CASE cmdq'[o] = cmdq[o]
    BY <2>1
  <2>2. ASSUME NEW c \in Command, c.op # "trsync_start", Send(m, <<c>>), o = m
        PROVE  /\ HasOp(cmdq[o], "trsync_trigger") => HasOp(cmdq'[o], "trsync_trigger")
               /\ NoOp(cmdq[o], {"trsync_start"}) => NoOp(cmdq'[o], {"trsync_start"})
               /\ \A i \in DOMAIN cmdq'[o] : cmdq'[o][i].op = "trsync_start" =>
                    i \in DOMAIN cmdq[o] /\ cmdq[o][i].op = "trsync_start"
    <3> DEFINE s == cmdq[o] \o <<c>>
    <3>1. /\ HasOp(cmdq[o], "trsync_trigger") => HasOp(s, "trsync_trigger")
          /\ NoOp(cmdq[o], {"trsync_start"}) => NoOp(s, {"trsync_start"})
          /\ \A i \in DOMAIN s : \/ i \in DOMAIN cmdq[o] /\ s[i] = cmdq[o][i]
                                 \/ s[i] = c
      BY <2>2, HitOf, OneSent
    <3>2. <<c>> \in Seq(Command)
      BY <2>2
    <3>3. cmdq'[o] = s
      BY <2>2, <3>2, HitOf, SendEffect
    <3> HIDE DEF s
    <3> QED BY <2>2, <3>1, <3>3
  <2>3. cmdq'[o] = cmdq[o] \/ \E c \in Command : c.op # "trsync_start" /\ Send(m, <<c>>)
                                                 /\ o = m
    <3>1. ASSUME NEW c \in Command, Send(m, <<c>>), o # m
          PROVE  cmdq'[o] = cmdq[o]
      <4>1. <<c>> \in Seq(Command)
        BY <3>1
      <4> QED BY <3>1, <4>1, HitOf, SendEffect
    <3> QED BY <3>1 DEF Sent
  <2> QED BY <2>1, <2>2, <2>3
<1>3. \A o \in Mcus : (Over(o) => Over(o)') /\ (Unstarted(o) => Unstarted(o)')
  BY <1>1, <1>2 DEF Over, Unstarted
<1>4. SoundInv'
  <2> SUFFICES ASSUME NEW o \in Mcus PROVE McuSound(o)'
    BY DEF SoundInv
  <2>1. McuSound(o)
    BY HitOf
  <2> QED BY <1>1, <1>2, <1>3, <2>1 DEF McuSound
<1>5. \A o \in Mcus : NoCan(o) => NoCan(o)'
  BY <1>3 DEF NoCan
<1>6. \A o \in Mcus : Told(o) => Told(o)'
  BY <1>1, <1>2, <1>5 DEF Told
<1> QED BY <1>4, <1>6

(* Time passes, but not beyond the print time of a homing that is set up. *)
LEMMA TimePassesHits ==
  ASSUME QInv, HitInv, TimePasses \/ UNCHANGED vars
  PROVE  HitInv'
<1>1. /\ UNCHANGED <<mcuVars, linkVars, trdispatchVars, pyVars, pyq>>
      /\ now' = now \/ (now' = now + 1 /\ (now < home_clock \/ SetUp))
  BY DEF TimePasses, Tick, vars
<1>2. now \in Nat /\ home_clock \in Nat
  BY DEF QInv, TypeOK, McuTypeOK
<1>3. SettingUp => now' <= home_clock /\ now' >= now
  BY <1>1, <1>2 DEF HitInv, SetUpInv, SettingUp, SetUp
<1>4. ASSUME NEW o \in Mcus, SettingUp
      PROVE  EarlyMcu(o)'
  <2>1. EarlyMcu(o)
    BY <1>4, HitOf
  <2>2. now >= home_clock => now' >= home_clock
    BY <1>2, <1>3, <1>4, <1>1
  <2> QED BY <1>1, <2>1, <2>2 DEF EarlyMcu, mcuVars, pyVars
<1>5. SetUpInv'
  BY <1>1, <1>3, <1>4 DEF HitInv, SetUpInv, SettingUp, EarlyHost, EarlyReports,
     EarlyCommands, EarlyCommand, linkVars, trdispatchVars, pyVars
<1>6. SoundInv' /\ StartedInv' /\ AddedInv' /\ PassedInv' /\ ToldInv' /\ AnswerInv'
      /\ HandlerInv' /\ ResInv'
  <2> USE <1>1 DEF HitInv, mcuVars, linkVars, trdispatchVars, pyVars
  <2>1. SoundInv'
    BY DEF SoundInv, McuSound, Over, Unstarted
  <2>2. StartedInv' /\ HandlerInv' /\ AddedInv'
    BY DEF StartedInv, Stopped, Quiet, HandlerInv, AddedInv
  <2>3. PassedInv' /\ ToldInv'
    BY DEF PassedInv, Passing, ToldInv, Told, NoCan, Over
  <2>4. AnswerInv' /\ ResInv'
    BY DEF AnswerInv, Known, LastOK, NoCan, Over, ResInv, ResOK, HomeWaitResult
  <2> QED BY <2>1, <2>2, <2>3, <2>4
<1> QED BY <1>5, <1>6 DEF HitInv

LEMMA HomeStartHits ==
  ASSUME QInv, HitInv, IdleInv, HomeStart
  PROVE  HitInv'
<1>1. /\ pc = "idle" /\ pc' = "start" /\ home_clock' = now + Lead /\ ~completed'
      /\ UNCHANGED <<k, handler, trigger_completion, home_end, now, mcuVars, linkVars,
                     trdispatchVars, pyq>>
  BY DEF HomeStart
<1>2. \A m \in Mcus : Stopped(m) /\ dispatching[m] = <<>>
  BY <1>1 DEF IdleInv, QInv, ReadersInv
<1>3. k = 1 /\ now \in Nat /\ Lead \in Nat
  BY <1>1, HomingAssumption DEF QInv, StoppedInv, TypeOK, McuTypeOK
<1>4. SoundInv'
  BY <1>1 DEF HitInv, SoundInv, McuSound, Over, Unstarted, mcuVars, linkVars
<1>5. StartedInv'
  <2>1. \A o \in Mcus : Stopped(o)'
    BY <1>1, <1>2 DEF Stopped, Quiet, mcuVars, linkVars
  <2>2. \A i \in 1..N : trsyncs[i] \in Mcus
    BY TrsyncsProps
  <2> QED BY <1>1, <1>3, <2>1, <2>2 DEF StartedInv
<1>6. SetUpInv'
  <2>1. now' <= home_clock'
    BY <1>1, <1>3
  <2>2. 1..(k' - 1) = {}
    BY <1>1, <1>3
  <2>3. ASSUME NEW o \in Mcus
        PROVE  /\ EarlyMcu(o)' /\ EarlyHost(o)'
               /\ EarlyCommands(cmdq[o])' /\ EarlyReports(rspq[o])'
    <3>1. /\ flags'[o] = {} /\ report_time'[o] = Never /\ expire_time'[o] = Never
          /\ cmdq'[o] = <<>> /\ rspq'[o] = <<>> /\ pyq'[o] = <<>> /\ dispatching'[o] = <<>>
          /\ handler'[o] = "none"
      BY <1>1, <1>2 DEF Stopped, Quiet, mcuVars, linkVars, trdispatchVars
    <3> QED BY <3>1 DEF EarlyMcu, EarlyHost, EarlyCommands, EarlyReports
  <2> QED BY <1>1, <2>1, <2>2, <2>3 DEF SetUpInv
<1>7. HandlerInv'
  BY <1>1, <1>2 DEF HandlerInv, Stopped
<1> QED BY <1>1, <1>4, <1>5, <1>6, <1>7
    DEF HitInv, AddedInv, PassedInv, ToldInv, AnswerInv, ResInv

LEMMA StartTrsyncHits ==
  ASSUME QInv, HitInv, StartTrsync
  PROVE  HitInv'
<1>1. PICK m \in Mcus : m = trsyncs[k]
  BY TrsyncsBefore DEF QInv
<1> DEFINE report_clock == home_clock
                      + (2 * ReportTicks * (k - 1) + N) \div (2 * N)
           a == Cmd("trsync_start", report_clock, "none")
           b == Cmd("stepper_stop_on_trigger", 0, "none")
           c == Cmd("trsync_set_timeout", home_clock + ExpireTicks, "none")
           bs == IF m \in Steppers THEN <<b>> ELSE <<>>
           t == <<a>> \o bs \o <<c>>
<1>2. /\ pc = "start" /\ NextTrsync("start", "dispatch")
      /\ trigger_completion' = trigger_completion \union {m}
      /\ home_end' = [home_end EXCEPT ![m] = Never]
      /\ last_status_clock' = [last_status_clock EXCEPT ![m] = home_clock]
      /\ handler' = [handler EXCEPT ![m] = "trsync"]
      /\ UNCHANGED <<flags, trigger_reason, report_time, expire_time, signal, endstop, lost,
                     now, rspq, pyq, dispatching, home_clock, completed>>
  BY <1>1 DEF StartTrsync, trdispatch_mcu_setup, mcuVars
<1>3. Send(m, t)
  BY <1>1 DEF StartTrsync
<1>4. /\ TypeOK /\ home_clock \in Nat /\ 0 \in Time /\ "none" \in Reasons
      /\ k \in 1..N /\ N \in Nat /\ N >= 1 /\ ReportTicks \in Nat /\ ExpireTicks \in Nat \ {0}
      /\ last_status_clock \in [Mcus -> Nat] /\ home_end \in [Mcus -> Time]
      /\ handler \in [Mcus -> {"none", "trsync", "query"}]
  BY TrsyncsProps, TicksAssumption, ExpireAssumption
     DEF QInv, TypeOK, TrDispatchTypeOK, Time, Reasons
<1>5. report_clock \in Nat /\ report_clock >= home_clock
  <2>1. 2 * ReportTicks * (k - 1) + N \in Nat /\ 2 * N \in Nat \ {0}
    <3>1. k - 1 \in Nat /\ 2 * ReportTicks \in Nat
      BY <1>4
    <3>2. \A x, y \in Nat : x * y \in Nat
      OBVIOUS
    <3>3. 2 * ReportTicks * (k - 1) \in Nat
      BY <3>1, <3>2
    <3> QED BY <1>4, <3>3
  <2>2. \A x \in Nat, y \in Nat \ {0} : x \div y \in Nat
    OBVIOUS
  <2>3. (2 * ReportTicks * (k - 1) + N) \div (2 * N) \in Nat
    BY <2>1, <2>2
  <2> QED BY <1>4, <2>3
<1> HIDE DEF report_clock
<1>6. /\ a \in Command /\ b \in Command /\ c \in Command
      /\ a.op = "trsync_start" /\ a.clock >= home_clock
      /\ b.op = "stepper_stop_on_trigger"
      /\ c.op = "trsync_set_timeout" /\ c.clock > home_clock
  <2>1. report_clock \in Time /\ home_clock + ExpireTicks \in Time
        /\ home_clock + ExpireTicks > home_clock
    BY <1>4, <1>5 DEF Time
  <2> QED BY <1>4, <1>5, <2>1, CmdType
<1> HIDE DEF a, b, c
<1>7. /\ t \in Seq(Command)
      /\ \A i \in DOMAIN t : \/ i = 1 /\ t[i] = a
                             \/ t[i] = b \/ t[i] = c
  <2> DEFINE s == <<a>> \o bs
             n == Len(s)
  <2>1. s \in Seq(Command) /\ n \in {1, 2} /\ s[1] = a /\ (n = 2 => s[2] = b)
    <3>1. CASE m \in Steppers
      <4>1. s = <<a>> \o <<b>>
        BY <3>1
      <4>2. <<a>> \in Seq(Command) /\ Len(<<a>>) = 1 /\ 1 \in DOMAIN <<a>> /\ <<a>>[1] = a
        BY <1>6
      <4>3. /\ <<a>> \o <<b>> \in Seq(Command)
            /\ Len(<<a>> \o <<b>>) = 2
            /\ (<<a>> \o <<b>>)[1] = a /\ (<<a>> \o <<b>>)[2] = b
        BY <1>6, <4>2, ConcatTwo
      <4> QED BY <4>1, <4>3
    <3>2. CASE m \notin Steppers
      <4>1. s = <<a>> \o <<>>
        BY <3>2
      <4>2. s = <<a>>
        BY <1>6, <4>1
      <4> HIDE DEF s
      <4> QED BY <1>6, <4>2
    <3> QED BY <3>1, <3>2
  <2>2. t = s \o <<c>>
    BY DEF t
  <2> HIDE DEF s, n, t
  <2>3. /\ t \in Seq(Command)
        /\ DOMAIN s = 1..n /\ DOMAIN t = 1..(n + 1)
        /\ \A i \in DOMAIN s : t[i] = s[i]
        /\ t[n + 1] = c
    BY <1>6, <2>1, <2>2, ConcatTwo DEF n
  <2> QED BY <2>1, <2>3
<1> HIDE DEF t
<1>8. EarlyCommands(t)
  <2>1. EarlyCommand(a) /\ EarlyCommand(b) /\ EarlyCommand(c)
    BY <1>6 DEF EarlyCommand
  <2> QED BY <1>7, <2>1 DEF EarlyCommands
<1>9. Stopped(m)
  <2>1. k \in k..N
    BY <1>4
  <2> QED BY <1>1, <1>2, <2>1 DEF HitInv, StartedInv
<1>10. /\ cmdq'[m] = t /\ \A o \in Mcus \ {m} : cmdq'[o] = cmdq[o]
       /\ rspq[m] = <<>> /\ pyq[m] = <<>> /\ flags[m] = {} /\ report_time[m] = Never
  <2>1. cmdq'[m] = cmdq[m] \o t /\ \A o \in Mcus \ {m} : cmdq'[o] = cmdq[o]
    BY <1>3, <1>7, HitOf, SendEffect
  <2>2. cmdq[m] = <<>>
    BY <1>9 DEF Stopped, Quiet
  <2>3. <<>> \o t = t
    BY <1>7
  <2> QED BY <1>9, <2>1, <2>2, <2>3 DEF Stopped, Quiet
<1>11. SoundInv'
  <2> SUFFICES ASSUME NEW o \in Mcus PROVE McuSound(o)'
    BY DEF SoundInv
  <2>1. McuSound(o)
    BY HitOf
  <2>2. CASE o # m
    BY <1>2, <1>10, <2>1, <2>2 DEF McuSound, Over, Unstarted
  <2>3. CASE o = m
    <3>1. Unstarted(m)'
      BY <1>2, <1>10 DEF Unstarted
    <3>2. \A i \in DOMAIN cmdq'[m] : cmdq'[m][i].op = "trsync_start" => i = 1
      BY <1>6, <1>7, <1>10
    <3>3. /\ \A x : ReasonsOK(pyq'[m], x) /\ ReasonsOK(rspq'[m], x)
          /\ Ordered(pyq'[m]) /\ Ordered(rspq'[m])
          /\ ~FinalIn(pyq'[m]) /\ ~FinalIn(rspq'[m])
      BY <1>2, <1>10, NoReports
    <3>4. "can_trigger" \notin flags'[m]
      BY <1>2, <1>10
    <3> QED BY <2>3, <3>1, <3>2, <3>3, <3>4 DEF McuSound
  <2> QED BY <2>2, <2>3
<1>12. /\ \A i \in (k+1)..N : i \in k..N /\ trsyncs[i] \in Mcus \ {m}
       /\ \A i \in 1..k : i = k \/ (i \in 1..(k-1) /\ trsyncs[i] \in Mcus \ {m})
  <2>1. /\ \A i \in (k+1)..N : i \in k..N /\ i \in 1..N /\ i # k
        /\ \A i \in 1..k : i = k \/ (i \in 1..(k-1) /\ i \in 1..N /\ i # k)
    BY <1>4
  <2> QED BY <1>1, <1>4, <2>1, TrsyncsProps
<1>13. StartedInv'
  <2> SUFFICES ASSUME pc' = "start" PROVE \A i \in k'..N : Stopped(trsyncs[i])'
    BY DEF StartedInv
  <2>1. k' = k + 1
    BY <1>2 DEF NextTrsync
  <2>2. ASSUME NEW i \in (k+1)..N PROVE Stopped(trsyncs[i])'
    <3>1. PICK o \in Mcus : o = trsyncs[i] /\ o # m
      BY <1>12
    <3>2. Stopped(o)
      BY <1>2, <1>12, <3>1 DEF HitInv, StartedInv
    <3>3. Stopped(o)'
      BY <1>2, <1>4, <1>10, <3>1, <3>2 DEF Stopped, Quiet
    <3> QED BY <3>1, <3>3
  <2> QED BY <2>1, <2>2
<1>14. SetUpInv'
  <2>1. SetUpInv
    BY DEF HitInv
  <2>2. now <= home_clock /\ ~completed
    BY <1>2, <2>1 DEF SetUpInv, SettingUp
  <2>3. \A i \in 1..k : last_status_clock'[trsyncs[i]] >= home_clock
    <3> SUFFICES ASSUME NEW i \in 1..k
                 PROVE  last_status_clock'[trsyncs[i]] >= home_clock
      OBVIOUS
    <3>1. CASE i = k
      BY <1>1, <1>2, <1>4, <3>1
    <3>2. CASE i \in 1..(k-1) /\ trsyncs[i] \in Mcus \ {m}
      <4>1. last_status_clock[trsyncs[i]] >= home_clock
        BY <1>2, <2>1, <3>2 DEF SetUpInv, SettingUp
      <4> QED BY <1>2, <1>4, <3>2, <4>1
    <3> QED BY <1>12, <3>1, <3>2
  <2>4. pc' # "start" => \A o \in Mcus : last_status_clock'[o] >= home_clock
    <3> SUFFICES ASSUME pc' # "start", NEW o \in Mcus
                 PROVE  last_status_clock'[o] >= home_clock
      OBVIOUS
    <3>1. k = N
      BY <1>2, <1>4 DEF NextTrsync
    <3>2. PICK i \in 1..N : o = trsyncs[i]
      BY TrsyncsProps
    <3> QED BY <2>3, <3>1, <3>2
  <2>5. pc' = "start" => \A i \in 1..(k'-1) : last_status_clock'[trsyncs[i]] >= home_clock
    <3>1. pc' = "start" => k' - 1 = k
      BY <1>2, <1>4 DEF NextTrsync
    <3> QED BY <2>3, <3>1
  <2>6. ASSUME NEW o \in Mcus
        PROVE  /\ EarlyMcu(o)' /\ EarlyHost(o)'
               /\ EarlyCommands(cmdq[o])' /\ EarlyReports(rspq[o])'
    <3>1. /\ EarlyMcu(o) /\ EarlyHost(o)
          /\ EarlyCommands(cmdq[o]) /\ EarlyReports(rspq[o])
      BY <1>2, <2>1 DEF SetUpInv, SettingUp
    <3>2. EarlyMcu(o)' /\ EarlyReports(rspq[o])'
      BY <1>2, <3>1 DEF EarlyMcu, EarlyReports
    <3>3. EarlyCommands(cmdq[o])'
      <4>1. EarlyCommands(cmdq'[o])
        BY <1>8, <1>10, <3>1
      <4> QED BY <1>2, <4>1 DEF EarlyCommands, EarlyCommand
    <3>4. handler'[o] # "none" => home_end'[o] = Never
      BY <1>2, <1>4, <3>1 DEF EarlyHost
    <3> QED BY <1>2, <3>1, <3>2, <3>3, <3>4 DEF EarlyHost, EarlyReports
  <2>7. pc' \in {"start", "dispatch"}
    BY <1>2 DEF NextTrsync
  <2> QED BY <1>2, <2>2, <2>4, <2>5, <2>6, <2>7 DEF SetUpInv
<1>15. HandlerInv'
  <2> SUFFICES ASSUME NEW o \in Mcus PROVE handler'[o] # "query"
    BY DEF HandlerInv
  <2>1. handler[o] # "query"
    BY <1>2 DEF HitInv, HandlerInv
  <2> QED BY <1>2, <1>4, <2>1
<1>16. pc' \in {"start", "dispatch"}
  BY <1>2 DEF NextTrsync
<1> QED BY <1>11, <1>13, <1>14, <1>15, <1>16
    DEF HitInv, AddedInv, PassedInv, ToldInv, AnswerInv, ResInv

LEMMA trdispatch_startHits ==
  ASSUME QInv, HitInv, trdispatch_start \/ AddFastreader
  PROVE  HitInv'
<1>1. /\ pc \in {"dispatch", "add"} /\ pc' \in {"add", "endstop"} /\ can_trigger'
      /\ UNCHANGED <<now, mcuVars, linkVars, pyq, home_clock, handler, completed,
                     home_end, dispatching, last_status_clock>>
  <2>1. pc = "add" => can_trigger
    BY DEF HitInv, SetUpInv, SettingUp
  <2> QED BY <2>1 DEF trdispatch_start, AddFastreader, NextTrsync
<1>2. SoundInv'
  <2>1. Sent(Main) /\ UNCHANGED <<mcuVars, rspq, pyq>>
    BY <1>1 DEF Sent, linkVars
  <2> QED BY <2>1, SentHits, McusAssumption
<1>3. SetUpInv'
  <2>1. SetUpInv
    BY DEF HitInv
  <2> QED BY <1>1, <2>1 DEF SetUpInv, SettingUp, EarlyMcu, EarlyHost, EarlyCommands,
             EarlyCommand, EarlyReports, mcuVars, linkVars
<1>4. AddedInv'
  <2>1. CASE trdispatch_start
    <3>1. k' = 1 /\ 1..(k' - 1) = {}
      BY <2>1 DEF trdispatch_start, QInv, StoppedInv
    <3> QED BY <2>1, <3>1 DEF AddedInv, trdispatch_start
  <2>2. CASE AddFastreader
    <3>1. /\ pc = "add" /\ fastreaders' = fastreaders \union {trsyncs[k]}
          /\ fastreaders \subseteq Mcus
      BY <2>2 DEF AddFastreader, add_fastreader, QInv, TypeOK, TrDispatchTypeOK
    <3>2. \/ k < N /\ pc' = "add" /\ k' = k + 1
          \/ k = N /\ pc' = "endstop"
      BY <2>2, NextTrsyncType DEF AddFastreader, QInv
    <3>3. \A i \in 1..k : trsyncs[i] \in fastreaders'
      <4>1. \A i \in 1..k : i = k \/ i \in 1..(k-1)
        BY TrsyncsProps DEF QInv, TypeOK
      <4> QED BY <3>1, <4>1 DEF HitInv, AddedInv
    <3>4. k' = k + 1 => 1..(k' - 1) = 1..k
      BY TrsyncsProps DEF QInv, TypeOK
    <3>5. k = N => fastreaders' = Mcus
      <4>1. trsyncs[k] \in Mcus /\ \A m \in Mcus : \E i \in 1..N : trsyncs[i] = m
        BY TrsyncsBefore DEF QInv
      <4> QED BY <3>1, <3>3, <4>1
    <3> QED BY <3>2, <3>3, <3>4, <3>5 DEF AddedInv
  <2> QED BY <2>1, <2>2
<1>5. HandlerInv'
  BY <1>1 DEF HitInv, HandlerInv
<1> QED BY <1>1, <1>2, <1>3, <1>4, <1>5
    DEF HitInv, StartedInv, PassedInv, ToldInv, AnswerInv, ResInv

LEMMA SendEndstopHomeHits ==
  ASSUME QInv, HitInv, SendEndstopHome
  PROVE  HitInv'
<1> DEFINE c == Cmd("endstop_home", home_clock, "none")
<1>1. /\ pc = "endstop" /\ pc' = "moving" /\ Send(Main, <<c>>)
      /\ UNCHANGED <<handler, completed, mcuVars, rspq, trdispatchVars, pyq>>
  BY DEF SendEndstopHome
<1>2. c \in Command /\ c.op = "endstop_home"
  <2>1. TypeOK /\ home_clock \in Time /\ "none" \in Reasons
    BY DEF QInv, TypeOK, Time, Reasons
  <2> QED BY <2>1, CmdType
<1> HIDE DEF c
<1>3. SoundInv'
  <2>1. Sent(Main)
    BY <1>1, <1>2 DEF Sent
  <2> QED BY <1>1, <2>1, SentHits, McusAssumption
<1>4. SetUpInv /\ AddedInv /\ HandlerInv
  BY DEF HitInv
<1>5. can_trigger' /\ ~completed' /\ fastreaders' = Mcus
  BY <1>1, <1>4 DEF SetUpInv, SettingUp, AddedInv, trdispatchVars
<1>6. \A m \in Mcus : ~FinalIn(pyq'[m])
  <2>1. \A m \in Mcus : EarlyReports(pyq[m])
    BY <1>1, <1>4 DEF SetUpInv, SettingUp, EarlyHost
  <2> QED BY <1>1, <2>1 DEF EarlyReports, FinalIn, FinalReport
<1>7. PassedInv' /\ ToldInv'
  BY <1>1, <1>5, <1>6 DEF PassedInv, ToldInv
<1>8. AddedInv' /\ HandlerInv'
  BY <1>1, <1>4, <1>5 DEF AddedInv, HandlerInv
<1> QED BY <1>1, <1>3, <1>7, <1>8
    DEF HitInv, StartedInv, SetUpInv, SettingUp, AnswerInv, ResInv

(* home_wait up to the first query.  A reader that is removed has let its
   callback run to the end. *)
LEMMA HomeWaitHits ==
  ASSUME QInv, HitInv, HomeWait \/ EndstopOff \/ RemoveFastreader
  PROVE  HitInv'
<1>1. /\ pc \in {"moving", "wait", "remove"}
      /\ pc' \in {"wait", "remove", "stop"}
      /\ pc = "wait" => completed
      /\ pc' = "wait" => pc = "moving" /\ fastreaders' = fastreaders
      /\ pc = "remove" <=> RemoveFastreader
      /\ UNCHANGED <<mcuVars, rspq, pyq, handler, completed, can_trigger, dispatching>>
  BY DEF HomeWait, EndstopOff, RemoveFastreader, NextTrsync, trdispatchVars, linkVars
<1>2. Sent(Main)
  <2>1. CASE HomeWait \/ RemoveFastreader
    BY <2>1 DEF HomeWait, RemoveFastreader, Sent, linkVars
  <2>2. CASE EndstopOff
    <3> DEFINE c == Cmd("endstop_off", 0, "none")
    <3>1. Send(Main, <<c>>)
      BY <2>2 DEF EndstopOff
    <3>2. TypeOK /\ 0 \in Time /\ "none" \in Reasons
      BY DEF QInv, Time, Reasons
    <3>3. c \in Command /\ c.op = "endstop_off"
      BY <3>2, CmdType
    <3> HIDE DEF c
    <3> QED BY <3>1, <3>3 DEF Sent
  <2> QED BY <2>1, <2>2
<1>3. SoundInv' /\ \A o \in Mcus : Told(o) => Told(o)'
  BY <1>1, <1>2, SentHits, McusAssumption
<1>4. PassedInv /\ ToldInv /\ AddedInv /\ HandlerInv
  BY DEF HitInv
<1>5. PassedInv'
  <2>1. ~can_trigger \/ Passing => ~can_trigger' \/ Passing'
    BY <1>1 DEF Passing
  <2>2. completed' = completed /\ pyq' = pyq
    BY <1>1
  <2>3. CASE pc' = "wait"
    <3>1. pc = "moving"
      BY <1>1, <2>3
    <3> QED BY <1>4, <2>1, <2>2, <2>3, <3>1 DEF PassedInv
  <2>4. CASE pc' # "wait" /\ (pc = "remove" \/ completed)
    BY <1>1, <1>4, <2>1, <2>4 DEF PassedInv
  <2>5. pc' # "wait" => pc = "remove" \/ completed
    BY <1>1 DEF HomeWait, EndstopOff
  <2> QED BY <2>3, <2>4, <2>5
<1>6. ToldInv'
  BY <1>1, <1>3, <1>4 DEF ToldInv
<1>7. AddedInv' /\ HandlerInv'
  BY <1>1, <1>4 DEF AddedInv, HandlerInv
<1>8. pc' = "stop" => 1..(k' - 1) = {}
  <2>1. ASSUME pc' = "stop" PROVE k' = 1
    BY <1>1, <2>1, NextTrsyncType DEF RemoveFastreader, QInv, HomeWait, EndstopOff
  <2> QED BY <2>1
<1> QED BY <1>1, <1>3, <1>5, <1>6, <1>7, <1>8
    DEF HitInv, StartedInv, SetUpInv, SettingUp, AnswerInv, ResInv

(* stop() asks a trsync that is told to trigger for its reason, or asks it
   again. *)
LEMMA QuerySentHits ==
  ASSUME QInv, HitInv, StopTrsync \/ QueryRetry
  PROVE  HitInv'
<1>1. PICK m0 \in Mcus : m0 = trsyncs[k]
  BY TrsyncsBefore DEF QInv
<1> DEFINE c == Cmd("trsync_query", 0, "host_request")
<1>2. /\ pc \in {"stop", "ack"} /\ pc' = "ack" /\ last_params' = NoParams
      /\ Send(m0, <<c>>) /\ k' = k
      /\ UNCHANGED <<completed, mcuVars, rspq, pyq, res, trdispatchVars>>
  BY <1>1 DEF StopTrsync, QueryRetry
<1>3. c \in Command /\ c.op = "trsync_query"
  <2>1. TypeOK /\ 0 \in Time /\ "host_request" \in Reasons
    BY DEF QInv, Time, Reasons
  <2> QED BY <2>1, CmdType
<1> HIDE DEF c
<1>4. SoundInv' /\ \A o \in Mcus : Told(o) => Told(o)'
  <2>1. Sent(m0)
    BY <1>2, <1>3 DEF Sent
  <2> QED BY <1>2, <2>1, SentHits
<1>5. cmdq'[m0] # <<>>
  <2>1. cmdq'[m0] = cmdq[m0] \o <<c>>
    <3>1. <<c>> \in Seq(Command)
      BY <1>3
    <3> QED BY <1>2, <3>1, HitOf, SendEffect
  <2>2. cmdq[m0] \o <<c>> # <<>>
    BY <1>3, HitOf, OneSent
  <2> QED BY <2>1, <2>2
<1>6. ~can_trigger
  <2>1. \A m \in Mcus : dispatching[m] = <<>>
    BY <1>2 DEF QInv, ReadersInv
  <2> QED BY <1>2, <2>1 DEF HitInv, PassedInv, Passing
<1>7. \A o \in Mcus : Told(o)'
  BY <1>2, <1>4, <1>6 DEF HitInv, ToldInv
<1>8. Known(m0)' /\ LastOK(m0)'
  <2>1. Told(m0)'
    BY <1>7
  <2> QED BY <1>2, <1>5, <2>1 DEF Told, Known, LastOK
<1>9. AnswerInv' /\ ToldInv'
  <2>1. m0 = trsyncs[k']
    BY <1>1, <1>2
  <2> QED BY <1>2, <1>7, <1>8, <2>1 DEF AnswerInv, ToldInv
<1>10. PassedInv'
  BY <1>2, <1>6 DEF PassedInv, trdispatchVars
<1>11. HandlerInv'
  <2> SUFFICES ASSUME NEW o \in Mcus, handler'[o] = "query" PROVE o = trsyncs[k']
    BY <1>2 DEF HandlerInv
  <2>1. CASE StopTrsync
    <3>1. handler' = [handler EXCEPT ![m0] = "query"] /\ handler[o] # "query"
          /\ handler \in [Mcus -> {"none", "trsync", "query"}]
      BY <1>1, <2>1 DEF StopTrsync, HitInv, HandlerInv, QInv, TypeOK
    <3> QED BY <1>1, <1>2, <3>1
  <2>2. CASE QueryRetry
    BY <1>2, <2>2 DEF QueryRetry, HitInv, HandlerInv
  <2> QED BY <2>1, <2>2
<1>12. ResInv'
  BY <1>2 DEF HitInv, ResInv, ResOK, mcuVars
<1> QED BY <1>2, <1>4, <1>9, <1>10, <1>11, <1>12
    DEF HitInv, StartedInv, SetUpInv, SettingUp, AddedInv

(* The answer is the reason, unless two reports were lost. *)
LEMMA QueryAnsweredHits ==
  ASSUME QInv, HitInv, QueryAnswered
  PROVE  HitInv'
<1>1. PICK m0 \in Mcus : m0 = trsyncs[k]
  BY TrsyncsBefore DEF QInv
<1>2. /\ pc = "ack" /\ acked /\ last_params # NoParams
      /\ res' = [res EXCEPT ![m0] = last_params[1]]
      /\ handler' = [handler EXCEPT ![m0] = "none"]
      /\ NextTrsync("stop", "idle")
      /\ result' = IF k < N THEN "none" ELSE HomeWaitResult(res')
      /\ UNCHANGED <<completed, mcuVars, linkVars, pyq, trdispatchVars>>
  BY <1>1 DEF QueryAnswered
<1>3. SoundInv' /\ \A o \in Mcus : Told(o) => Told(o)'
  <2>1. Sent(m0) /\ UNCHANGED <<mcuVars, rspq, pyq>>
    BY <1>2 DEF Sent, linkVars
  <2> QED BY <2>1, SentHits
<1>4. ResOK(m0)'
  <2>1. cmdq[m0] = <<>> /\ pyq[m0] = <<>> /\ rspq[m0] = <<>>
    BY <1>1, <1>2 DEF QInv, QueryInv, QueryState, Quiet
  <2>2. ~HasOp(cmdq[m0], "trsync_trigger") /\ ~FinalIn(pyq[m0]) /\ ~FinalIn(rspq[m0])
    BY <2>1, NoReports DEF HasOp
  <2>3. Known(m0) /\ LastOK(m0)
    BY <1>1, <1>2 DEF HitInv, AnswerInv
  <2>4. \/ last_params = <<trigger_reason[m0]>>
        \/ lost >= 2 /\ last_params = <<"none">>
    BY <1>2, <2>1, <2>2, <2>3 DEF Known, LastOK
  <2>5. res'[m0] = last_params[1]
    BY <1>2 DEF QInv, TypeOK
  <2> QED BY <1>2, <2>4, <2>5 DEF ResOK, mcuVars
<1>5. \A i \in 1..k : ResOK(trsyncs[i])'
  <2> SUFFICES ASSUME NEW i \in 1..k PROVE ResOK(trsyncs[i])'
    OBVIOUS
  <2>1. i = k \/ i \in 1..(k - 1)
    BY TrsyncsProps DEF QInv, TypeOK
  <2>2. CASE i = k
    BY <1>1, <1>4, <2>2
  <2>3. CASE i \in 1..(k - 1)
    <3>1. PICK o \in Mcus : o = trsyncs[i] /\ o # m0
      BY <1>1, <2>3, TrsyncsBefore DEF QInv
    <3>2. ResOK(o)
      BY <1>2, <2>3, <3>1 DEF HitInv, ResInv
    <3>3. ResOK(o)'
      BY <1>2, <3>1, <3>2 DEF ResOK, mcuVars, QInv, TypeOK
    <3> QED BY <3>1, <3>3
  <2> QED BY <2>1, <2>2, <2>3
<1>6. \/ k < N /\ pc' = "stop" /\ k' = k + 1
      \/ k = N /\ pc' = "idle" /\ k' = 1
  BY <1>2, NextTrsyncType DEF QInv
<1>7. ResInv'
  <2>1. k' = k + 1 => 1..(k' - 1) = 1..k
    BY TrsyncsProps DEF QInv, TypeOK
  <2>2. pc' = "idle" => result' = HomeWaitResult(res') /\ \A o \in Mcus : ResOK(o)'
    <3>1. N \in Nat /\ \A o \in Mcus : \E i \in 1..N : trsyncs[i] = o
      BY TrsyncsProps
    <3>2. k = N => ~(k < N)
      BY <3>1
    <3> QED BY <1>2, <1>5, <1>6, <3>1, <3>2
  <2> QED BY <1>5, <1>6, <2>1, <2>2 DEF ResInv
<1>8. PassedInv' /\ ToldInv'
  BY <1>2, <1>3, <1>6 DEF HitInv, PassedInv, Passing, ToldInv, trdispatchVars
<1>9. \A o \in Mcus : handler'[o] # "query"
  BY <1>1, <1>2 DEF HitInv, HandlerInv, QInv, TypeOK
<1> QED BY <1>3, <1>6, <1>7, <1>8, <1>9
    DEF HitInv, StartedInv, SetUpInv, SettingUp, AddedInv, AnswerInv, HandlerInv

LEMMA QueryFailedHits ==
  ASSUME QInv, HitInv, QueryFailed
  PROVE  HitInv'
<1>1. PICK m0 \in Mcus : m0 = trsyncs[k]
  BY TrsyncsBefore DEF QInv
<1>2. /\ pc' = "idle" /\ result' = "error"
      /\ handler' = [handler EXCEPT ![m0] = "none"]
      /\ UNCHANGED <<mcuVars, linkVars, pyq>>
  BY <1>1 DEF QueryFailed
<1>3. SoundInv'
  <2>1. Sent(m0) /\ UNCHANGED <<mcuVars, rspq, pyq>>
    BY <1>2 DEF Sent, linkVars
  <2> QED BY <2>1, SentHits
<1>4. \A o \in Mcus : handler'[o] # "query"
  BY <1>1, <1>2 DEF HitInv, HandlerInv, QInv, TypeOK
<1> QED BY <1>2, <1>3, <1>4
    DEF HitInv, StartedInv, SetUpInv, SettingUp, AddedInv, PassedInv, ToldInv,
        AnswerInv, HandlerInv, ResInv

-----------------------------------------------------------------------------
(* The theorem *)

LEMMA HitInvInit == Init => HitInv
<1> SUFFICES ASSUME Init PROVE HitInv
  OBVIOUS
<1>1. /\ pc = "idle" /\ result = "none"
      /\ \A m \in Mcus : /\ flags[m] = {} /\ cmdq[m] = <<>> /\ rspq[m] = <<>>
                         /\ pyq[m] = <<>> /\ handler[m] = "none"
  BY DEF Init, McuInit, TrDispatchInit
<1>2. SoundInv
  <2> SUFFICES ASSUME NEW m \in Mcus PROVE McuSound(m)
    BY DEF SoundInv
  <2>1. "can_trigger" \notin flags[m] /\ DOMAIN cmdq[m] = {}
    BY <1>1
  <2>2. /\ ReasonsOK(pyq[m], trigger_reason[m]) /\ Ordered(pyq[m]) /\ ~FinalIn(pyq[m])
        /\ ReasonsOK(rspq[m], trigger_reason[m]) /\ Ordered(rspq[m]) /\ ~FinalIn(rspq[m])
    BY <1>1, NoReports
  <2> QED BY <2>1, <2>2 DEF McuSound
<1> QED BY <1>1, <1>2
    DEF HitInv, StartedInv, SetUpInv, SettingUp, AddedInv, PassedInv, ToldInv,
        AnswerInv, HandlerInv, ResInv

LEMMA HitInvNext ==
  ASSUME RInv, HitInv, [Next]_vars
  PROVE  HitInv'
<1>1. QInv /\ IdleInv
  BY DEF RInv
<1>2. CASE TimePasses \/ UNCHANGED vars
  BY <1>1, <1>2, TimePassesHits
<1>3. CASE HostStep
  <2>1. CASE HomeStart
    BY <1>1, <2>1, HomeStartHits
  <2>2. CASE StartTrsync
    BY <1>1, <2>2, StartTrsyncHits
  <2>3. CASE trdispatch_start \/ AddFastreader
    BY <1>1, <2>3, trdispatch_startHits
  <2>4. CASE SendEndstopHome
    BY <1>1, <2>4, SendEndstopHomeHits
  <2>5. CASE HomeWait \/ EndstopOff \/ RemoveFastreader
    BY <1>1, <2>5, HomeWaitHits
  <2>6. CASE StopTrsync \/ QueryRetry
    BY <1>1, <2>6, QuerySentHits
  <2>7. CASE QueryAnswered
    BY <1>1, <2>7, QueryAnsweredHits
  <2>8. CASE QueryFailed
    BY <1>1, <2>8, QueryFailedHits
  <2> QED BY <1>3, <2>1, <2>2, <2>3, <2>4, <2>5, <2>6, <2>7, <2>8 DEF HostStep
<1>4. ASSUME NEW m \in Mcus, HostInput(m)
      PROVE  HitInv'
  BY <1>1, <1>4, HostInputHits
<1>5. ASSUME NEW m \in Mcus, PyHandle(m)
      PROVE  HitInv'
  BY <1>1, <1>5, PyHandleHits
<1>6. ASSUME NEW m \in Mcus, FastRead(m), UNCHANGED <<pyVars, pyq>>
      PROVE  HitInv'
  BY <1>1, <1>6, FastReadHits
<1>7. ASSUME NEW m \in Mcus, McuStep(m) \/ (m = Main /\ EndstopEvent),
             UNCHANGED <<trdispatchVars, pyVars, pyq>>
      PROVE  HitInv'
  BY <1>1, <1>7, McuStepHits
<1> QED BY <1>2, <1>3, <1>4, <1>5, <1>6, <1>7 DEF Next

(* With one micro-controller a reason that is not known is no hit; with
   several, two reports must be lost for one not to be known. *)
FewLosses == Mcus = {Main} \/ (MaxLost <= 1 /\ MaxLost <= Retries)

LEMMA HitFromReasons ==
  ASSUME FewLosses, QInv, HitInv
  PROVE  HitIsSound
<1> SUFFICES ASSUME pc = "idle", result = "hit"
             PROVE  /\ trigger_reason[Main] = "endstop_hit"
                    /\ \A m \in Mcus : trigger_reason[m] # "comms_timeout"
  BY DEF HitIsSound
<1>1. HomeWaitResult(res) = "hit" /\ \A m \in Mcus : ResOK(m)
  BY DEF HitInv, ResInv
<1>2. res[Main] = "endstop_hit" /\ \A m \in Mcus : res[m] # "comms_timeout"
  BY <1>1 DEF HomeWaitResult
<1>3. MaxLost <= 1 => ~(lost >= 2)
  BY TicksAssumption DEF QInv, TypeOK, McuTypeOK
<1>4. \A m \in Mcus : res[m] = trigger_reason[m]
  <2>1. CASE Mcus = {Main}
    BY <1>1, <1>2, <2>1 DEF ResOK
  <2>2. CASE MaxLost <= 1
    BY <1>1, <1>3, <2>2 DEF ResOK
  <2> QED BY <2>1, <2>2 DEF FewLosses
<1> QED BY <1>2, <1>4, McusAssumption

(***************************************************************************)
(* home_wait reports a hit only if the endstop was hit and no trsync of    *)
(* the homing had stopped its steppers for want of messages: what stop()   *)
(* takes for the answer of a query is the reason of that trsync.  It is so *)
(* with one micro-controller however many reports are lost, and with       *)
(* several as long as no two reports are.                                  *)
(***************************************************************************)
THEOREM HitSound ==
  ASSUME FewLosses
  PROVE  Spec => []HitIsSound
<1>1. NoFailure
  BY DEF FewLosses, NoFailure
<1>2. Init => RInv /\ HitInv
  BY RInvInit, HitInvInit
<1>3. (RInv /\ HitInv) /\ [Next]_vars => (RInv /\ HitInv)'
  BY <1>1, RInvNext, HitInvNext
<1>4. RInv /\ HitInv => HitIsSound
  BY HitFromReasons DEF RInv
<1> QED BY <1>2, <1>3, <1>4, PTL DEF Spec
=============================================================================
