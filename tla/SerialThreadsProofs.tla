------------------------ MODULE SerialThreadsProofs ------------------------
(***************************************************************************)
(* Proofs about SerialThreads, for any number of command queues, senders   *)
(* and messages, any window, and any scenario whose clocks stay below      *)
(* BACKGROUND_PRIORITY_CLOCK.                                              *)
(***************************************************************************)
EXTENDS SerialThreads, FiniteSetTheorems, SequenceTheorems, WellFoundedInduction,
        TLAPS

-----------------------------------------------------------------------------
(* The inductive invariant *)

Messages == QueueMessages(Ids)

TimesInv ==
    /\ scenario \in Scenarios
    /\ now \in 1..scenario.time /\ clock_adj \in 0..scenario.adj
    /\ est_freq \in BOOLEAN /\ line_busy \in BOOLEAN /\ must_exit \in BOOLEAN
    /\ need_kick_clock \in Nat /\ command_time \in Nat /\ poll_until \in Nat
    /\ revents \subseteq {"serial", "pipe"} /\ pipe \in 0..PipeCap
    /\ sender \in [Senders -> {"idle", "kick"}]

\* Messages carry numbers of their own, also across the queues.
QueueInv ==
    /\ upcoming_queue \in [CQ -> Seq(Messages)]
    /\ ready_queue \in [CQ -> Seq(Messages)]
    /\ pending_queues \in Seq(CQ) /\ IsInjective(pending_queues)
    /\ ToSet(pending_queues) = {q \in CQ : Queued(q) # <<>>}
    /\ taken \in [CQ -> Seq(Ids)] /\ nmsg \in 0..scenario.msgs
    /\ \A p \in CQ : \A i \in DOMAIN EverPut(p) : EverPut(p)[i] \in 1..nmsg
    /\ \A p, q \in CQ : \A i \in DOMAIN EverPut(p), j \in DOMAIN EverPut(q) :
         EverPut(p)[i] = EverPut(q)[j] => p = q /\ i = j

\* A block is built under the lock while the window is open; acknowledgements
\* are under way in order, between what is known and what has been executed.
Frames == [rseq : Nat, data : Nat]

LinkInv ==
    /\ bg \in {"timers", "command", "poll", "input", "kick", "leave", "exited"}
    /\ block \in Seq(CQ \X Messages)
    /\ block # <<>> => bg = "command" /\ WindowOpen
    /\ {send_seq, receive_seq, executed, pending} \subseteq Nat
    /\ 1 <= receive_seq /\ receive_seq <= executed
    /\ executed <= send_seq - pending /\ send_seq <= receive_seq + MaxPending
    /\ m2h \in Seq(Frames)
    /\ \A p \in DOMAIN m2h : receive_seq <= m2h[p].rseq /\ m2h[p].rseq <= executed
    /\ \A p, r \in DOMAIN m2h : p <= r => m2h[p].rseq <= m2h[r].rseq
    /\ bg = "input" => m2h # <<>>

\* A completion is open while its message is queued, unacknowledged or on its
\* way to Python, and it is in one of these places only once.
Left == UNION {ToSet(taken[q]) : q \in CQ}
Notified == {r \in DOMAIN receive_queue : receive_queue[r].kind = "notify"}

TokenInv ==
    /\ notify_queue \in Seq([id : Ids, seq : Nat])
    /\ receive_queue \in Seq(Received) /\ receive_waiting \in BOOLEAN
    /\ puller \in {"pull", "waiting", "exited"}
    /\ main \in {"running", "exit_kick", "join", "join_python", "done"}
    /\ pending_notifications \subseteq Ids
    /\ completed \in [Ids -> 0..1]
    /\ \A i \in pending_notifications : completed[i] = 0
    /\ \A q \in CQ : \A k \in DOMAIN Queued(q) :
         Queued(q)[k].notify /\ main # "done" => Queued(q)[k].id \in pending_notifications
    /\ \A k \in DOMAIN notify_queue :
         /\ notify_queue[k].id \in Left
         /\ main # "done" => notify_queue[k].id \in pending_notifications
    /\ \A r \in Notified :
         /\ receive_queue[r].id \in Left
         /\ IF main = "done" THEN completed[receive_queue[r].id] = 1
            ELSE receive_queue[r].id \in pending_notifications
    /\ \A k, l \in DOMAIN notify_queue : notify_queue[k].id = notify_queue[l].id => k = l
    /\ \A r, s \in Notified : receive_queue[r].id = receive_queue[s].id => r = s
    /\ \A k \in DOMAIN notify_queue, r \in Notified :
         notify_queue[k].id # receive_queue[r].id
    /\ main \in {"join_python", "done"} => bg = "exited"
    /\ main = "done" => puller = "exited" /\ pending_notifications = {}

\* Where the responses are: handled, in receive_queue, or under way.  Those of
\* a block come before whatever acknowledges it.  Nothing is said of the early
\* notifications, which a data frame before the first acknowledgement causes.
InReceived(n, r) ==
    \E p \in 1..n : receive_queue[p].kind = "data" /\ receive_queue[p].id = r
InFlight(n, r) == \E p \in 1..n : m2h[p].data = r
Arrived(r) == r \in ToSet(handled) \/ InReceived(Len(receive_queue), r)

HandledInv ==
    /\ nresp \in Nat /\ source \in Seq(Nat) /\ Len(source) = nresp
    /\ handled \in Seq(Nat) /\ asked \in [Ids -> Nat]
    /\ \A r \in 1..nresp : source[r] < executed
    /\ \A r \in 1..nresp : Arrived(r) \/ InFlight(Len(m2h), r)
    /\ \A p \in DOMAIN m2h : \A r \in 1..nresp :
         1 <= source[r] /\ source[r] <= wake_seq(m2h[p]) =>
           Arrived(r) \/ InFlight(p - 1, r)
    /\ \A k, l \in DOMAIN notify_queue :
         k <= l => notify_queue[k].seq <= notify_queue[l].seq
    /\ \A k \in DOMAIN notify_queue :
         /\ asked[notify_queue[k].id] = notify_queue[k].seq
         /\ 1 <= notify_queue[k].seq /\ notify_queue[k].seq <= send_seq
    /\ \A p \in Notified :
         LET s == asked[receive_queue[p].id] IN
         receive_queue[p].id \notin early =>
         /\ 1 <= s /\ s < executed
         /\ \A r \in 1..nresp :
              source[r] = s => r \in ToSet(handled) \/ InReceived(p - 1, r)
    /\ \A i \in Ids : completed[i] = 1 /\ main # "done" =>
         /\ i \in Left
         /\ i \notin early =>
              /\ 1 <= asked[i] /\ asked[i] < executed
              /\ \A r \in 1..nresp : asked[i] = source[r] => r \in ToSet(handled)

\* Messages that may have left their upcoming_queue.
Near(m) == \/ m.req_clock = BACKGROUND_PRIORITY_CLOCK
           \/ m.req_clock <= now + scenario.adj + ClockHalf
EarlyInv ==
    /\ \A q \in CQ : \A i \in DOMAIN upcoming_queue[q] :
         LET m == upcoming_queue[q][i] IN
         m.req_clock = BACKGROUND_PRIORITY_CLOCK \/ m.req_clock <= m.min_clock + ClockHalf
    /\ \A q \in CQ : \A i \in DOMAIN ready_queue[q] : Near(ready_queue[q][i])
    /\ \A i \in DOMAIN block : Near(block[i][2])
    /\ ~est_freq => \A q \in CQ : \A i \in DOMAIN Queued(q) :
         Queued(q)[i].min_clock = 0 /\ Queued(q)[i].req_clock = 0

\* While the window is open the thread wakes up by itself in time for what is
\* at the head of a queue and for what it will not be told of, or it has been
\* told.
Kicked == bg = "kick" \/ pipe > 0 \/ \E s \in Senders : sender[s] = "kick"
Settled(m) ==
    \/ command_time <= m.min_clock
    \/ /\ m.req_clock # BACKGROUND_PRIORITY_CLOCK
       /\ command_time + ReqDelta <= m.req_clock \/ MAX_CLOCK <= m.req_clock
    \/ /\ m.req_clock = BACKGROUND_PRIORITY_CLOCK
       /\ line_busy /\ command_time <= now + 1
KickInv ==
    /\ bg = "poll" => poll_until <= command_time
    /\ bg # "command" /\ WindowOpen =>
         \/ command_time <= now
         \/ Kicked
         \/ /\ command_time <= need_kick_clock
            /\ \A q \in CQ : Queued(q) # <<>> => Settled(Head(Queued(q)))

IInv == TimesInv /\ QueueInv /\ LinkInv /\ TokenInv /\ HandledInv /\ EarlyInv /\ KickInv

-----------------------------------------------------------------------------
(* Numbers, sets and sequences *)

(* A set of natural numbers that is not empty has a least element: the
   intervals 0..n are finite, so that strict inclusion is well-founded. *)
LEMMA LeastNat ==
  ASSUME NEW T \in SUBSET Nat, T # {}
  PROVE  \E x \in T : \A y \in T : x <= y
<1> DEFINE R == StrictSubsetOrdering(Nat)
           U == {0..n : n \in T}
<1>1. \A n \in Nat : 0..n \in FiniteSubsetsOf(Nat)
  BY FS_Interval DEF FiniteSubsetsOf
<1>2. \A m, n \in Nat : m < n => <<0..m, 0..n>> \in R
  BY SMT DEF StrictSubsetOrdering
<1>3. IsWellFoundedOn(R, FiniteSubsetsOf(Nat))
  BY FS_StrictSubsetOrderingWellFounded
<1>4. U \subseteq FiniteSubsetsOf(Nat) /\ U # {}
  BY <1>1
<1> HIDE DEF R
<1>5. \E x \in U : \A y \in U : ~ (<<y, x>> \in R)
  <2> HIDE DEF U
  <2> QED BY <1>3, <1>4, WFMin
<1>6. PICK x \in T : \A y \in T : ~ (<<0..y, 0..x>> \in R)
  BY <1>5
<1>7. \A y \in T : ~ (y < x)
  BY <1>2, <1>6
<1> QED BY <1>7

LEMMA MinNat ==
  ASSUME NEW T \in SUBSET Nat, T # {}
  PROVE  Min(T) \in T /\ \A y \in T : Min(T) <= y
BY LeastNat, Zenon DEF Min

LEMMA MaxUpTo ==
  ASSUME NEW n \in Nat, NEW T \in SUBSET (0..n), T # {}
  PROVE  Max(T) \in T /\ \A y \in T : Max(T) >= y
<1> DEFINE U == {n - x : x \in T}
<1>1. U \in SUBSET Nat /\ U # {}
  <2>1. \A x \in T : n - x \in Nat
    OBVIOUS
  <2> QED BY <2>1
<1>2. PICK u \in U : \A y \in U : u <= y
  <2> HIDE DEF U
  <2> QED BY <1>1, LeastNat
<1>3. PICK x \in T : u = n - x
  OBVIOUS
<1>4. ASSUME NEW y \in T PROVE x >= y
  <2>1. n - x <= n - y
    BY <1>2, <1>3
  <2>2. x \in Nat /\ y \in Nat
    OBVIOUS
  <2> QED BY <2>1, <2>2
<1>5. \E z \in T : \A y \in T : z >= y
  BY <1>4
<1> QED BY <1>5, Zenon DEF Max

LEMMA NoneReady ==
  ASSUME NEW rq, \A q \in CQ : DOMAIN rq[q] = {}
  PROVE  ReadyCount(rq) = 0
<1>1. UNION {{q} \X DOMAIN rq[q] : q \in CQ} = {}
  OBVIOUS
<1> QED BY <1>1, FS_EmptySet DEF ReadyCount

LEMMA NothingReady ==
  ASSUME NEW rq, NEW S, rq \in [CQ -> Seq(S)], ~(ReadyCount(rq) > 0)
  PROVE  \A q \in CQ : rq[q] = <<>>
<1> DEFINE f == [q \in CQ |-> {q} \X DOMAIN rq[q]]
           T == {{q} \X DOMAIN rq[q] : q \in CQ}
<1>1. \A t \in T : IsFiniteSet(t)
  <2>1. SUFFICES ASSUME NEW q \in CQ PROVE IsFiniteSet({q} \X DOMAIN rq[q])
    OBVIOUS
  <2>2. rq[q] \in Seq(S)
    OBVIOUS
  <2>3. DOMAIN rq[q] = 1..Len(rq[q]) /\ Len(rq[q]) \in Nat
    BY <2>2
  <2>4. IsFiniteSet(1..Len(rq[q])) /\ IsFiniteSet({q})
    <3>1. 1 \in Int /\ Len(rq[q]) \in Int
      BY <2>3
    <3> QED BY <3>1, FS_Interval, FS_Singleton
  <2> QED BY <2>3, <2>4, FS_Product
<1>2. IsFiniteSet(T)
  <2>1. f \in Surjection(CQ, T)
    BY DEF Surjection
  <2> HIDE DEF f, T
  <2> QED BY <2>1, FS_Surjection, QueueAssumption
<1>3. IsFiniteSet(UNION T)
  <2> HIDE DEF T
  <2> QED BY <1>1, <1>2, FS_UNION
<1>4. Cardinality(UNION T) \in Nat
  BY <1>3, FS_CardinalityType
<1>5. UNION T = {}
  <2> HIDE DEF T
  <2>1. Cardinality(UNION T) = ReadyCount(rq)
    BY DEF ReadyCount, T
  <2>2. Cardinality(UNION T) = 0
    BY <1>4, <2>1
  <2> QED BY <1>3, <2>2, FS_EmptySet
<1>6. ASSUME NEW q \in CQ PROVE rq[q] = <<>>
  <2>1. \A i \in DOMAIN rq[q] : <<q, i>> \in UNION T
    OBVIOUS
  <2>2. rq[q] \in Seq(S)
    OBVIOUS
  <2>3. ~ (1 \in DOMAIN rq[q])
    <3> HIDE DEF T
    <3> QED BY <1>5, <2>1
  <2> QED BY <2>2, <2>3
<1> QED BY <1>6

(* What a scenario bounds. *)
LEMMA ScenarioFacts ==
  ASSUME TimesInv
  PROVE  /\ scenario.time \in Nat \ {0} /\ scenario.adj \in Nat
         /\ scenario.msgs \in Nat /\ scenario.resps \in Nat
         /\ scenario.clocks \subseteq Nat \X Nat
         /\ scenario.time + scenario.adj + ReqDelta < BACKGROUND_PRIORITY_CLOCK
         /\ 1..scenario.msgs \subseteq Ids /\ Ids \subseteq Nat
         /\ now \in Nat \ {0} /\ now <= scenario.time
         /\ clock_adj \in Nat /\ clock_adj <= scenario.adj
<1>1. /\ scenario \in Scenarios
      /\ scenario \in [msgs : Nat, resps : Nat, adj : Nat, ends : BOOLEAN,
                       clocks : SUBSET (Nat \X Nat), send : Nat, time : Nat \ {0}]
  BY ThreadsAssumption DEF TimesInv
<1>2. \A sc \in Scenarios : sc.msgs \in Nat
  BY ThreadsAssumption
<1>3. 1..scenario.msgs \subseteq Ids /\ Ids \subseteq Nat
  BY <1>1, <1>2 DEF Ids
<1> QED BY <1>1, <1>3, ThreadsAssumption DEF TimesInv

-----------------------------------------------------------------------------
(* The command queues *)

LEMMA MovableFacts ==
  ASSUME QueueInv, NEW q \in CQ
  PROVE  /\ Movable(q) \in 0..Len(upcoming_queue[q])
         /\ \A i \in 1..Movable(q) : ~Stalls(upcoming_queue[q][i])
         /\ Movable(q) < Len(upcoming_queue[q])
              => Stalls(upcoming_queue[q][Movable(q) + 1])
<1> DEFINE u == upcoming_queue[q]
           T == {n \in 0..Len(u) : \A i \in 1..n : ~Stalls(u[i])}
           n == Max(T)
<1>1. u \in Seq(Messages) /\ Len(u) \in Nat
  BY DEF QueueInv
<1> HIDE DEF u
<1>2. T \in SUBSET (0..Len(u)) /\ 0 \in T
  BY <1>1
<1>3. n \in T /\ \A y \in T : n >= y
  <2> HIDE DEF T
  <2> QED BY <1>1, <1>2, MaxUpTo
<1>4. Movable(q) = n
  BY DEF Movable, u
<1>5. /\ n \in 0..Len(u)
      /\ \A i \in 1..n : ~Stalls(u[i])
  <2> HIDE DEF n
  <2> QED BY <1>3
<1>6. ASSUME n < Len(u), ~Stalls(u[n + 1])  PROVE FALSE
  <2>1. n + 1 \in 0..Len(u)
    BY <1>1, <1>5, <1>6
  <2>2. ASSUME NEW i \in 1..(n + 1) PROVE ~Stalls(u[i])
    <3> HIDE DEF n
    <3>1. i \in 1..n \/ i = n + 1
      BY <1>1, <1>5
    <3> QED BY <1>5, <1>6, <3>1
  <2>3. n + 1 \in T
    <3> HIDE DEF n
    <3> QED BY <2>1, <2>2
  <2>4. n >= n + 1
    <3> HIDE DEF T, n
    <3> QED BY <1>3, <2>3
  <2> QED
    <3> HIDE DEF n
    <3> QED BY <1>1, <1>5, <2>4
<1> QED
  <2> HIDE DEF n
  <2> QED BY <1>4, <1>5, <1>6 DEF u

(* Moving messages between the two halves of a queue leaves it as it is. *)
LEMMA MovedFacts ==
  ASSUME QueueInv, NEW q \in CQ
  PROVE  /\ ready1[q] \in Seq(Messages) /\ upcoming1[q] \in Seq(Messages)
         /\ ready1[q] \o upcoming1[q] = Queued(q)
         /\ Len(upcoming1[q]) = Len(upcoming_queue[q]) - Movable(q)
         /\ \A i \in 1..Len(upcoming1[q]) :
              upcoming1[q][i] = upcoming_queue[q][Movable(q) + i]
         /\ \A i \in 1..Len(ready1[q]) :
              \/ i \in 1..Len(ready_queue[q]) /\ ready1[q][i] = ready_queue[q][i]
              \/ \E j \in 1..Movable(q) : ready1[q][i] = upcoming_queue[q][j]
<1> DEFINE u == upcoming_queue[q]
           n == Movable(q)
           a == SubSeq(u, 1, n)
           b == SubSeq(u, n + 1, Len(u))
           r == ready_queue[q]
<1>1. u \in Seq(Messages) /\ r \in Seq(Messages) /\ n \in 0..Len(u)
  BY MovableFacts DEF QueueInv
<1>2. ready1[q] = r \o a /\ upcoming1[q] = b
  BY DEF ready1, upcoming1
<1> HIDE DEF u, n, r
<1>3. Len(u) \in Nat /\ n \in Nat /\ n <= Len(u)
  BY <1>1
<1>4. /\ a \in Seq(Messages) /\ Len(a) = n
      /\ \A i \in 1..n : a[i] = u[i]
      /\ b \in Seq(Messages) /\ Len(b) = Len(u) - n
      /\ \A i \in 1..Len(b) : b[i] = u[n + i]
  <2>1. \A i \in 1..n : u[i] \in Messages
    BY <1>1, <1>3
  <2>2. \A i \in (n + 1)..Len(u) : u[i] \in Messages
    BY <1>1, <1>3
  <2>3. /\ a \in Seq(Messages) /\ Len(a) = n /\ \A i \in 1..n : a[i] = u[i]
    BY <1>3, <2>1, SubSeqProperties
  <2>4. /\ b \in Seq(Messages) /\ Len(b) = IF n + 1 <= Len(u) THEN Len(u) - (n + 1) + 1 ELSE 0
        /\ \A i \in 1..(Len(u) - (n + 1) + 1) : b[i] = u[(n + 1) + i - 1]
    BY <1>3, <2>2, SubSeqProperties
  <2> HIDE DEF a, b
  <2>5. Len(b) = Len(u) - n /\ Len(u) - (n + 1) + 1 = Len(b)
    BY <1>3, <2>4
  <2>6. ASSUME NEW i \in 1..Len(b) PROVE b[i] = u[n + i]
    <3>1. (n + 1) + i - 1 = n + i
      BY <1>3, <2>5
    <3> QED BY <2>4, <2>5, <3>1
  <2> QED BY <2>3, <2>4, <2>5, <2>6
<1>5. a \o b = u
  <2>1. /\ 1 \in 1..(Len(u) + 1) /\ n \in (1 - 1)..Len(u) /\ Len(u) \in n..Len(u)
    BY <1>3
  <2>2. u \in Seq(Messages)
    BY <1>1
  <2>3. a \o b = SubSeq(u, 1, Len(u))
    BY <2>1, <2>2, ConcatAdjacentSubSeq, Zenon
  <2> QED BY <2>2, <2>3, SubSeqFull, Zenon
<1> HIDE DEF a, b
<1>6. (r \o a) \o b = r \o u
  <2>1. r \in Seq(Messages) /\ a \in Seq(Messages) /\ b \in Seq(Messages)
    BY <1>1, <1>4
  <2>2. (r \o a) \o b = r \o (a \o b)
    BY <2>1, ConcatAssociative
  <2> QED BY <1>5, <2>2, Zenon
<1>7. /\ r \o a \in Seq(Messages) /\ Len(r \o a) = Len(r) + n
      /\ \A i \in 1..(Len(r) + n) : (r \o a)[i] = IF i <= Len(r) THEN r[i] ELSE a[i - Len(r)]
  BY <1>1, <1>4, ConcatProperties
<1>8. ASSUME NEW i \in 1..Len(r \o a)
      PROVE  \/ i \in 1..Len(r) /\ (r \o a)[i] = r[i]
             \/ \E j \in 1..n : (r \o a)[i] = u[j]
  <2>1. i \in 1..(Len(r) + n) /\ Len(r) \in Nat
    BY <1>1, <1>3, <1>7
  <2>2. CASE i <= Len(r)
    BY <1>7, <2>1, <2>2
  <2>3. CASE ~(i <= Len(r))
    <3>1. i - Len(r) \in 1..n /\ (r \o a)[i] = a[i - Len(r)]
      BY <1>3, <1>7, <2>1, <2>3
    <3> QED BY <1>4, <3>1
  <2> QED BY <2>2, <2>3
<1> QED BY <1>2, <1>4, <1>6, <1>7, <1>8 DEF Queued, u, r, n

(* The numbers t of messages, and then those of the messages of s. *)
LEMMA IdsFacts ==
  ASSUME NEW t \in Seq(Ids), NEW s \in Seq(Messages)
  PROVE  LET ids == [i \in DOMAIN s |-> s[i].id] IN
         /\ t \o ids \in Seq(Ids) /\ Len(t \o ids) = Len(t) + Len(s)
         /\ \A i \in 1..Len(t) : (t \o ids)[i] = t[i]
         /\ \A i \in 1..Len(s) : (t \o ids)[Len(t) + i] = s[i].id
<1> DEFINE ids == [i \in DOMAIN s |-> s[i].id]
<1>1. DOMAIN s = 1..Len(s) /\ Len(s) \in Nat /\ \A i \in 1..Len(s) : s[i].id \in Ids
  <2>1. /\ DOMAIN s = 1..Len(s) /\ Len(s) \in Nat
        /\ \A i \in 1..Len(s) : s[i] \in Messages
    OBVIOUS
  <2>2. \A m \in Messages : m.id \in Ids
    BY DEF Messages, QueueMessages
  <2> QED BY <2>1, <2>2
<1>2. ids \in Seq(Ids) /\ Len(ids) = Len(s) /\ \A i \in 1..Len(s) : ids[i] = s[i].id
  BY <1>1
<1> HIDE DEF ids
<1>3. /\ t \o ids \in Seq(Ids) /\ Len(t \o ids) = Len(t) + Len(ids)
      /\ \A i \in 1..(Len(t) + Len(ids)) :
           (t \o ids)[i] = IF i <= Len(t) THEN t[i] ELSE ids[i - Len(t)]
  <2>1. ids \in Seq(Ids)
    BY <1>2
  <2> QED BY <2>1, ConcatProperties, Zenon
<1>4. Len(t) \in Nat
  OBVIOUS
<1>5. \A i \in 1..Len(t) : (t \o ids)[i] = t[i]
  BY <1>1, <1>2, <1>3, <1>4
<1>6. ASSUME NEW i \in 1..Len(s) PROVE (t \o ids)[Len(t) + i] = s[i].id
  <2>1. Len(t) + i \in 1..(Len(t) + Len(ids)) /\ ~(Len(t) + i <= Len(t)) /\ (Len(t) + i) - Len(t) = i
    BY <1>1, <1>2, <1>4
  <2> QED BY <1>2, <1>3, <2>1
<1> QED BY <1>2, <1>3, <1>5, <1>6 DEF ids

LEMMA QueuedFacts ==
  ASSUME QueueInv, NEW q \in CQ
  PROVE  /\ upcoming_queue[q] \in Seq(Messages) /\ ready_queue[q] \in Seq(Messages)
         /\ Queued(q) \in Seq(Messages) /\ taken[q] \in Seq(Ids)
         /\ EverPut(q) \in Seq(Ids)
         /\ Len(EverPut(q)) = Len(taken[q]) + Len(Queued(q))
         /\ \A i \in 1..Len(taken[q]) : EverPut(q)[i] = taken[q][i]
         /\ \A i \in 1..Len(Queued(q)) : EverPut(q)[Len(taken[q]) + i] = Queued(q)[i].id
<1>1. upcoming_queue[q] \in Seq(Messages) /\ ready_queue[q] \in Seq(Messages)
  BY DEF QueueInv
<1>2. Queued(q) \in Seq(Messages) /\ taken[q] \in Seq(Ids)
  BY <1>1, ConcatProperties DEF QueueInv, Queued
<1> HIDE DEF Queued
<1> QED BY <1>1, <1>2, IdsFacts DEF EverPut

LEMMA TailOfConcat ==
  ASSUME NEW S, NEW s \in Seq(S), NEW t \in Seq(S), s # <<>>
  PROVE  /\ s \o t \in Seq(S) /\ s \o t # <<>>
         /\ Head(s \o t) = Head(s) /\ Tail(s \o t) = Tail(s) \o t
<1>1. /\ s \o t \in Seq(S) /\ Len(s \o t) = Len(s) + Len(t)
      /\ \A i \in 1..(Len(s) + Len(t)) : (s \o t)[i] = IF i <= Len(s) THEN s[i] ELSE t[i - Len(s)]
  BY ConcatProperties, Zenon
<1>2. Len(s) \in Nat \ {0} /\ Len(t) \in Nat
  OBVIOUS
<1>3. s \o t # <<>> /\ Head(s \o t) = Head(s)
  BY <1>1, <1>2
<1>4. /\ Tail(s) \in Seq(S) /\ Len(Tail(s)) = Len(s) - 1
      /\ \A i \in 1..Len(Tail(s)) : Tail(s)[i] = s[i + 1]
  BY HeadTailProperties
<1>5. /\ Tail(s) \o t \in Seq(S) /\ Len(Tail(s) \o t) = Len(Tail(s)) + Len(t)
      /\ \A i \in 1..(Len(Tail(s)) + Len(t)) :
           (Tail(s) \o t)[i] = IF i <= Len(Tail(s)) THEN Tail(s)[i] ELSE t[i - Len(Tail(s))]
  BY <1>4, ConcatProperties, Zenon
<1>6. /\ Tail(s \o t) \in Seq(S) /\ Len(Tail(s \o t)) = Len(s \o t) - 1
      /\ \A i \in 1..Len(Tail(s \o t)) : Tail(s \o t)[i] = (s \o t)[i + 1]
  BY <1>1, <1>3, HeadTailProperties
<1>7. Len(Tail(s \o t)) = Len(Tail(s) \o t)
  BY <1>1, <1>2, <1>4, <1>5, <1>6
<1>8. ASSUME NEW i \in 1..Len(Tail(s) \o t)
      PROVE  Tail(s \o t)[i] = (Tail(s) \o t)[i]
  <2>1. /\ i \in Nat \ {0} /\ i <= (Len(s) - 1) + Len(t) /\ i + 1 \in 1..(Len(s) + Len(t))
        /\ i \in 1..Len(Tail(s \o t)) /\ i \in 1..(Len(Tail(s)) + Len(t))
    BY <1>1, <1>2, <1>4, <1>5, <1>7
  <2>2. Tail(s \o t)[i] = (s \o t)[i + 1]
    BY <1>6, <2>1
  <2>3. CASE i + 1 <= Len(s)
    <3>1. i \in 1..Len(Tail(s)) /\ i <= Len(Tail(s))
      BY <1>2, <1>4, <2>1, <2>3
    <3>2. (s \o t)[i + 1] = s[i + 1]
      BY <1>1, <2>1, <2>3
    <3>3. (Tail(s) \o t)[i] = Tail(s)[i]
      BY <1>5, <2>1, <3>1
    <3> QED BY <1>4, <2>2, <3>1, <3>2, <3>3
  <2>4. CASE ~(i + 1 <= Len(s))
    <3>1. ~(i <= Len(Tail(s))) /\ i - Len(Tail(s)) = (i + 1) - Len(s)
      BY <1>2, <1>4, <2>1, <2>4
    <3>2. (s \o t)[i + 1] = t[(i + 1) - Len(s)]
      BY <1>1, <2>1, <2>4
    <3>3. (Tail(s) \o t)[i] = t[i - Len(Tail(s))]
      BY <1>5, <2>1, <3>1
    <3> QED BY <2>2, <3>1, <3>2, <3>3
  <2> QED BY <2>3, <2>4
<1>9. Tail(s \o t) = Tail(s) \o t
  BY <1>5, <1>6, <1>7, <1>8, SeqEqual
<1> QED BY <1>1, <1>3, <1>9

LEMMA TailEmpty ==
  ASSUME NEW S, NEW s \in Seq(S), s # <<>>
  PROVE  Tail(s) # <<>> <=> Len(s) # 1
<1> DEFINE r == Tail(s)
<1>1. r \in Seq(S) /\ Len(r) = Len(s) - 1
  BY HeadTailProperties
<1>2. Len(s) \in Nat
  OBVIOUS
<1> HIDE DEF r
<1>3. r = <<>> <=> Len(r) = 0
  BY <1>1, EmptySeq
<1> QED BY <1>1, <1>2, <1>3 DEF r

LEMMA Removed ==
  ASSUME NEW S, NEW s \in Seq(S), IsInjective(s), NEW k \in DOMAIN s
  PROVE  /\ RemoveAt(s, k) \in Seq(S) /\ IsInjective(RemoveAt(s, k))
         /\ ToSet(RemoveAt(s, k)) = ToSet(s) \ {s[k]}
<1> DEFINE a == SubSeq(s, 1, k - 1)
           b == SubSeq(s, k + 1, Len(s))
           r == a \o b
           from(i) == IF i < k THEN i ELSE i + 1
           to(i) == IF i < k THEN i ELSE i - 1
<1>1. k \in 1..Len(s) /\ Len(s) \in Nat /\ DOMAIN s = 1..Len(s)
      /\ \A i \in 1..Len(s) : s[i] \in S
  OBVIOUS
<1>2. /\ a \in Seq(S) /\ Len(a) = k - 1
      /\ \A i \in 1..(k - 1) : a[i] = s[i]
  <2>1. \A i \in 1..(k - 1) : s[i] \in S
    BY <1>1
  <2>2. /\ a \in Seq(S) /\ Len(a) = IF 1 <= k - 1 THEN (k - 1) - 1 + 1 ELSE 0
        /\ \A i \in 1..((k - 1) - 1 + 1) : a[i] = s[1 + i - 1]
    BY <1>1, <2>1, SubSeqProperties
  <2> HIDE DEF a
  <2> QED BY <1>1, <2>2
<1>3. /\ b \in Seq(S) /\ Len(b) = Len(s) - k
      /\ \A i \in 1..(Len(s) - k) : b[i] = s[k + i]
  <2>1. \A i \in (k + 1)..Len(s) : s[i] \in S
    BY <1>1
  <2>2. /\ b \in Seq(S) /\ Len(b) = IF k + 1 <= Len(s) THEN Len(s) - (k + 1) + 1 ELSE 0
        /\ \A i \in 1..(Len(s) - (k + 1) + 1) : b[i] = s[(k + 1) + i - 1]
    BY <1>1, <2>1, SubSeqProperties
  <2> HIDE DEF b
  <2>3. \A i \in 1..(Len(s) - k) : i \in 1..(Len(s) - (k + 1) + 1) /\ (k + 1) + i - 1 = k + i
    BY <1>1
  <2> QED BY <1>1, <2>2, <2>3
<1> HIDE DEF a, b
<1>4. /\ r \in Seq(S) /\ Len(r) = Len(a) + Len(b)
      /\ \A i \in 1..(Len(a) + Len(b)) : r[i] = IF i <= Len(a) THEN a[i] ELSE b[i - Len(a)]
  BY <1>2, <1>3, ConcatProperties, Zenon
<1> HIDE DEF r
<1>5. Len(r) = Len(s) - 1 /\ DOMAIN r = 1..(Len(s) - 1)
  BY <1>1, <1>2, <1>3, <1>4
<1>6. \A i \in 1..(Len(s) - 1) : from(i) \in 1..Len(s) /\ from(i) # k /\ r[i] = s[from(i)]
  <2>1. SUFFICES ASSUME NEW i \in 1..(Len(s) - 1)
                 PROVE  from(i) \in 1..Len(s) /\ from(i) # k /\ r[i] = s[from(i)]
    OBVIOUS
  <2>2. i \in 1..(Len(a) + Len(b))
    BY <1>1, <1>2, <1>3
  <2>3. CASE i < k
    BY <1>1, <1>2, <1>4, <2>2, <2>3
  <2>4. CASE ~(i < k)
    <3>1. ~(i <= Len(a)) /\ i - Len(a) \in 1..(Len(s) - k) /\ k + (i - Len(a)) = i + 1
      BY <1>1, <1>2, <2>4
    <3>2. r[i] = s[k + (i - Len(a))]
      BY <1>3, <1>4, <2>2, <3>1
    <3> QED BY <1>1, <2>4, <3>1, <3>2
  <2> QED BY <2>3, <2>4
<1>7. \A i, j \in 1..(Len(s) - 1) : from(i) = from(j) => i = j
  BY <1>1
<1>8. \A i \in 1..Len(s) : i # k => to(i) \in 1..(Len(s) - 1) /\ from(to(i)) = i
  BY <1>1
<1> HIDE DEF from, to
<1>9. IsInjective(r)
  <2>1. \A i, j \in 1..Len(s) : s[i] = s[j] => i = j
    BY <1>1 DEF IsInjective
  <2> QED BY <1>5, <1>6, <1>7, <2>1 DEF IsInjective
<1>10. ToSet(r) = ToSet(s) \ {s[k]}
  <2>1. \A i, j \in 1..Len(s) : s[i] = s[j] => i = j
    BY <1>1 DEF IsInjective
  <2>2. ASSUME NEW x \in ToSet(r) PROVE x \in ToSet(s) \ {s[k]}
    <3>1. PICK i \in 1..(Len(s) - 1) : x = r[i]
      BY <1>5 DEF ToSet
    <3> QED BY <1>1, <1>6, <2>1, <3>1 DEF ToSet
  <2>3. ASSUME NEW x \in ToSet(s), x # s[k] PROVE x \in ToSet(r)
    <3>1. PICK i \in 1..Len(s) : x = s[i]
      BY <1>1 DEF ToSet
    <3> QED BY <1>5, <1>6, <1>8, <2>3, <3>1 DEF ToSet
  <2> QED BY <2>2, <2>3
<1> QED BY <1>4, <1>9, <1>10 DEF r, a, b, RemoveAt

LEMMA EarliestFacts ==
  ASSUME QueueInv, NEW rq, rq \in [CQ -> Seq(Messages)],
         \A q \in CQ : rq[q] # <<>> => Queued(q) # <<>>,
         \E q \in CQ : rq[q] # <<>>
  PROVE  Earliest(rq) \in CQ /\ rq[Earliest(rq)] # <<>>
<1> DEFINE heads == {i \in DOMAIN pending_queues : rq[pending_queues[i]] # <<>>}
           clock(i) == Head(rq[pending_queues[i]]).req_clock
           first == {i \in heads : \A j \in heads : clock(i) <= clock(j)}
<1>1. \A i \in DOMAIN pending_queues : i \in Nat /\ pending_queues[i] \in CQ
  <2>1. pending_queues \in Seq(CQ)
    BY DEF QueueInv
  <2> QED BY <2>1
<1>2. heads # {}
  <2>1. PICK q \in CQ : rq[q] # <<>>
    OBVIOUS
  <2>2. q \in ToSet(pending_queues)
    BY <2>1 DEF QueueInv
  <2>3. PICK i \in DOMAIN pending_queues : q = pending_queues[i]
    BY <2>2 DEF ToSet
  <2> QED BY <2>1, <2>3
<1>3. \A i \in heads : clock(i) \in Nat
  <2>1. ASSUME NEW i \in heads PROVE clock(i) \in Nat
    <3>1. rq[pending_queues[i]] \in Seq(Messages) /\ rq[pending_queues[i]] # <<>>
      BY <1>1
    <3>2. Head(rq[pending_queues[i]]) \in Messages
      BY <3>1
    <3> QED BY <3>2 DEF Messages, QueueMessages
  <2> QED BY <2>1
<1>4. first # {}
  <2> DEFINE T == {clock(i) : i \in heads}
  <2> HIDE DEF clock, heads
  <2>1. T \in SUBSET Nat /\ T # {}
    BY <1>2, <1>3
  <2>2. PICK x \in T : \A y \in T : x <= y
    <3> HIDE DEF T
    <3> QED BY <2>1, LeastNat
  <2>3. PICK i \in heads : x = clock(i)
    OBVIOUS
  <2>4. \A j \in heads : clock(i) <= clock(j)
    BY <2>2, <2>3
  <2> QED BY <2>4
<1>5. first \in SUBSET Nat
  BY <1>1
<1>6. Min(first) \in first
  <2> HIDE DEF first
  <2> QED BY <1>4, <1>5, MinNat
<1>7. Earliest(rq) = pending_queues[Min(first)]
  BY DEF Earliest
<1>8. Min(first) \in heads
  BY <1>6
<1> QED
  <2> HIDE DEF first
  <2> QED BY <1>1, <1>7, <1>8

(* A message leaves its queue: what was ever put there stays the same. *)
LEMMA TakeKeeps ==
  ASSUME QueueInv, NEW q \in CQ, Queued(q) # <<>>,
         upcoming_queue' \in [CQ -> Seq(Messages)], ready_queue' \in [CQ -> Seq(Messages)],
         Queued(q)' = Tail(Queued(q)),
         \A p \in CQ \ {q} : Queued(p)' = Queued(p),
         taken' = [taken EXCEPT ![q] = Append(@, Head(Queued(q)).id)],
         pending_queues' = Unlisted(q),
         UNCHANGED <<nmsg, scenario>>
  PROVE  /\ QueueInv'
         /\ \A p \in CQ : EverPut(p)' = EverPut(p)
         /\ Left' = Left \cup {Head(Queued(q)).id}
         /\ Head(Queued(q)).id \in Ids \ Left
<1> DEFINE s == Queued(q)
           m == Head(s)
           t == taken[q]
<1>1. /\ s \in Seq(Messages) /\ s # <<>> /\ t \in Seq(Ids)
      /\ EverPut(q) \in Seq(Ids) /\ Len(EverPut(q)) = Len(t) + Len(s)
      /\ \A i \in 1..Len(t) : EverPut(q)[i] = t[i]
      /\ \A i \in 1..Len(s) : EverPut(q)[Len(t) + i] = s[i].id
  BY QueuedFacts
<1>2. m \in Messages /\ m.id \in Ids /\ s[1] = m /\ Len(s) \in Nat \ {0} /\ Len(t) \in Nat
  <2>1. m \in Messages /\ s[1] = m /\ Len(s) \in Nat \ {0} /\ Len(t) \in Nat
    BY <1>1
  <2> QED BY <2>1 DEF Messages, QueueMessages
<1>3. taken' \in [CQ -> Seq(Ids)] /\ taken'[q] = Append(t, m.id)
      /\ \A p \in CQ \ {q} : taken'[p] = taken[p]
  BY <1>1, <1>2 DEF QueueInv
<1>4. EverPut(q)' = EverPut(q)
  <2> DEFINE s1 == Tail(s)
             t1 == Append(t, m.id)
             e  == t1 \o [i \in DOMAIN s1 |-> s1[i].id]
  <2>1. /\ s1 \in Seq(Messages) /\ Len(s1) = Len(s) - 1
        /\ \A i \in 1..Len(s1) : s1[i] = s[i + 1]
    BY <1>1, HeadTailProperties
  <2>2. /\ t1 \in Seq(Ids) /\ Len(t1) = Len(t) + 1 /\ t1[Len(t) + 1] = m.id
        /\ \A i \in 1..Len(t) : t1[i] = t[i]
    BY <1>1, <1>2
  <2>3. EverPut(q)' = e
    BY <1>3 DEF EverPut
  <2> HIDE DEF s1, t1
  <2>4. /\ e \in Seq(Ids) /\ Len(e) = Len(t1) + Len(s1)
        /\ \A i \in 1..Len(t1) : e[i] = t1[i]
        /\ \A i \in 1..Len(s1) : e[Len(t1) + i] = s1[i].id
    BY <2>1, <2>2, IdsFacts
  <2> HIDE DEF s, m, t, e
  <2>5. Len(e) = Len(EverPut(q))
    BY <1>1, <1>2, <2>1, <2>2, <2>4
  <2>6. ASSUME NEW i \in 1..Len(EverPut(q))
        PROVE  e[i] = EverPut(q)[i]
    <3>1. i \in Nat \ {0} /\ i <= Len(t) + Len(s)
      BY <1>1, <1>2
    <3>2. CASE i <= Len(t)
      <4>1. i \in 1..Len(t) /\ i \in 1..Len(t1)
        BY <1>2, <2>2, <3>1, <3>2
      <4> QED BY <1>1, <2>2, <2>4, <4>1
    <3>3. CASE i = Len(t) + 1
      <4>1. i \in 1..Len(t1) /\ 1 \in 1..Len(s)
        BY <1>2, <2>2, <3>3
      <4>2. EverPut(q)[i] = s[1].id
        BY <1>1, <3>3, <4>1
      <4> QED BY <1>2, <2>2, <2>4, <3>3, <4>1, <4>2
    <3>4. CASE i > Len(t) + 1
      <4> DEFINE j == i - Len(t1)
      <4>1. /\ j \in 1..Len(s1) /\ j + 1 \in 1..Len(s)
            /\ Len(t) + (j + 1) = i /\ Len(t1) + j = i
        BY <1>2, <2>1, <2>2, <3>1, <3>4
      <4> HIDE DEF j
      <4>2. e[Len(t1) + j] = s[j + 1].id
        BY <2>1, <2>4, <4>1
      <4>3. EverPut(q)[Len(t) + (j + 1)] = s[j + 1].id
        BY <1>1, <4>1
      <4> QED BY <4>1, <4>2, <4>3
    <3> QED BY <1>2, <3>1, <3>2, <3>3, <3>4
  <2>7. EverPut(q) = e
    BY <1>1, <2>4, <2>5, <2>6, SeqEqual
  <2> QED BY <2>3, <2>7
<1>5. \A p \in CQ : EverPut(p)' = EverPut(p)
  <2>1. ASSUME NEW p \in CQ, p # q PROVE EverPut(p)' = EverPut(p)
    BY <1>3, <2>1 DEF EverPut
  <2> QED BY <1>4, <2>1
<1>6. Left' = Left \cup {m.id}
  <2>1. ToSet(taken[q])' = ToSet(taken[q]) \cup {m.id}
    <3>1. /\ DOMAIN t = 1..Len(t)
          /\ DOMAIN Append(t, m.id) = 1..(Len(t) + 1)
          /\ Append(t, m.id)[Len(t) + 1] = m.id
          /\ \A i \in 1..Len(t) : Append(t, m.id)[i] = t[i]
      BY <1>1, <1>2
    <3>2. 1..(Len(t) + 1) = 1..Len(t) \cup {Len(t) + 1}
      <4> HIDE DEF t
      <4> QED BY <1>2
    <3> HIDE DEF t, m
    <3> QED BY <1>3, <3>1, <3>2 DEF ToSet, t
  <2>2. \A p \in CQ \ {q} : ToSet(taken[p])' = ToSet(taken[p])
    BY <1>3 DEF ToSet
  <2> HIDE DEF m
  <2> QED BY <2>1, <2>2 DEF Left
<1>7. m.id \notin Left
  <2> SUFFICES ASSUME NEW p \in CQ, NEW i \in DOMAIN taken[p], taken[p][i] = m.id
               PROVE  FALSE
    BY DEF Left, ToSet
  <2>1. /\ taken[p] \in Seq(Ids) /\ i \in 1..Len(taken[p]) /\ Len(taken[p]) \in Nat
        /\ Len(Queued(p)) \in Nat /\ EverPut(p)[i] = taken[p][i]
        /\ EverPut(p) \in Seq(Ids) /\ Len(EverPut(p)) = Len(taken[p]) + Len(Queued(p))
    <3>1. /\ taken[p] \in Seq(Ids) /\ Queued(p) \in Seq(Messages)
          /\ EverPut(p) \in Seq(Ids) /\ Len(EverPut(p)) = Len(taken[p]) + Len(Queued(p))
          /\ \A j \in 1..Len(taken[p]) : EverPut(p)[j] = taken[p][j]
      BY QueuedFacts
    <3>2. i \in 1..Len(taken[p])
      BY <3>1
    <3> QED BY <3>1, <3>2
  <2>2. i \in DOMAIN EverPut(p) /\ i \in Nat
    BY <2>1
  <2>3. Len(t) + 1 \in DOMAIN EverPut(q) /\ EverPut(q)[Len(t) + 1] = m.id
    <3>1. 1 \in 1..Len(s) /\ Len(t) + 1 \in 1..(Len(t) + Len(s))
      BY <1>2
    <3> HIDE DEF s, m, t
    <3> QED BY <1>1, <1>2, <3>1
  <2>4. p = q /\ i = Len(t) + 1
    <3> DEFINE j == Len(t) + 1
    <3>1. EverPut(p)[i] = EverPut(q)[j]
      BY <2>1, <2>3
    <3>2. j \in DOMAIN EverPut(q)
      BY <2>3
    <3> HIDE DEF m, t, j
    <3>3. p = q /\ i = j
      BY <2>2, <3>1, <3>2 DEF QueueInv
    <3> QED BY <3>3 DEF j
  <2> QED BY <1>2, <2>1, <2>4
<1>8. \A p \in CQ : Queued(p)' # <<>> <=> Queued(p) # <<>> /\ (p # q \/ Len(s) # 1)
  <2>1. Tail(s) # <<>> <=> Len(s) # 1
    <3>1. s \in Seq(Messages) /\ s # <<>>
      BY <1>1
    <3> HIDE DEF s
    <3> QED BY <3>1, TailEmpty
  <2> HIDE DEF s
  <2>2. Queued(q)' # <<>> <=> Len(s) # 1
    BY <2>1 DEF s
  <2> QED BY <2>2 DEF s
<1>9. /\ pending_queues' \in Seq(CQ) /\ IsInjective(pending_queues')
      /\ ToSet(pending_queues') = {p \in CQ : Queued(p)' # <<>>}
  <2>1. CASE Len(s) # 1
    <3>1. pending_queues' = pending_queues
      BY <2>1 DEF Unlisted
    <3>2. {p \in CQ : Queued(p)' # <<>>} = {p \in CQ : Queued(p) # <<>>}
      <4>1. \A p \in CQ : Queued(p)' # <<>> <=> Queued(p) # <<>>
        BY <1>8, <2>1
      <4> QED BY <4>1
    <3>3. /\ pending_queues \in Seq(CQ) /\ IsInjective(pending_queues)
          /\ ToSet(pending_queues) = {p \in CQ : Queued(p) # <<>>}
      BY DEF QueueInv
    <3> QED BY <3>1, <3>2, <3>3
  <2>2. CASE Len(s) = 1
    <3> DEFINE k == CHOOSE i \in DOMAIN pending_queues : pending_queues[i] = q
    <3>1. pending_queues' = RemoveAt(pending_queues, k)
      BY <2>2 DEF Unlisted
    <3>2. q \in ToSet(pending_queues)
      BY DEF QueueInv
    <3>3. k \in DOMAIN pending_queues /\ pending_queues[k] = q
      <4>1. \E i \in DOMAIN pending_queues : pending_queues[i] = q
        BY <3>2 DEF ToSet
      <4> QED BY <4>1
    <3> HIDE DEF k
    <3>4. pending_queues \in Seq(CQ) /\ IsInjective(pending_queues)
      BY DEF QueueInv
    <3>5. /\ pending_queues' \in Seq(CQ) /\ IsInjective(pending_queues')
          /\ ToSet(pending_queues') = ToSet(pending_queues) \ {q}
      BY <3>1, <3>3, <3>4, Removed
    <3>6. {p \in CQ : Queued(p)' # <<>>} = {p \in CQ : Queued(p) # <<>>} \ {q}
      <4> HIDE DEF s
      <4> QED BY <1>8, <2>2
    <3> QED BY <3>5, <3>6 DEF QueueInv, ToSet, IsInjective
  <2> QED BY <2>1, <2>2
<1>10. QueueInv'
  <2>1. nmsg' \in 0..scenario'.msgs
    BY DEF QueueInv
  <2>2. \A p \in CQ : \A i \in DOMAIN EverPut(p)' : EverPut(p)'[i] \in 1..nmsg'
    BY <1>5 DEF QueueInv
  <2>3. \A p, r \in CQ : \A i \in DOMAIN EverPut(p)', j \in DOMAIN EverPut(r)' :
          EverPut(p)'[i] = EverPut(r)'[j] => p = r /\ i = j
    BY SMTT(30), <1>5 DEF QueueInv
  <2> QED BY <1>3, <1>9, <2>1, <2>2, <2>3 DEF QueueInv
<1> QED BY <1>2, <1>5, <1>6, <1>7, <1>10

-----------------------------------------------------------------------------
(* When the next message is due *)

LEMMA AckFacts ==
  ASSUME TimesInv, pending \in Nat
  PROVE  /\ ack_clock \in Nat /\ ack_clock + ReqDelta < BACKGROUND_PRIORITY_CLOCK
         /\ est_freq => ack_clock = now + clock_adj
         /\ ~est_freq => ack_clock = 0
         /\ BackgroundClock \in Nat /\ BackgroundClock < MAX_CLOCK
         /\ BackgroundClock = IF pending > 0 \/ line_busy THEN ack_clock + ReqDelta + 1
                              ELSE ack_clock
<1>1. /\ ack_clock \in Nat /\ ack_clock <= scenario.time + scenario.adj
      /\ est_freq => ack_clock = now + clock_adj
      /\ ~est_freq => ack_clock = 0
  BY ScenarioFacts DEF TimesInv, ack_clock, clock_from_time
<1>2. /\ ReqDelta \in Nat /\ BACKGROUND_PRIORITY_CLOCK \in Nat /\ MAX_CLOCK \in Nat
      /\ BACKGROUND_PRIORITY_CLOCK < MAX_CLOCK
  BY QueueAssumption
<1>3. ack_clock + ReqDelta < BACKGROUND_PRIORITY_CLOCK
  BY <1>1, <1>2, ScenarioFacts
<1> HIDE DEF ack_clock
<1>4. BackgroundClock = IF pending > 0 \/ line_busy THEN ack_clock + ReqDelta + 1
                        ELSE ack_clock
  BY DEF BackgroundClock
<1>5. BackgroundClock \in Nat /\ BackgroundClock < MAX_CLOCK
  BY <1>1, <1>2, <1>3, <1>4
<1> QED BY <1>1, <1>3, <1>4, <1>5

LEMMA HeadFacts ==
  ASSUME QueueInv, NEW q \in CQ
  PROVE  /\ ready1[q] # <<>> =>
              /\ Queued(q) # <<>> /\ Head(ready1[q]) = Head(Queued(q))
              /\ Head(ready1[q]) \in Messages
              /\ Tail(Queued(q)) = Tail(ready1[q]) \o upcoming1[q]
         /\ ready1[q] = <<>> => Queued(q) = upcoming1[q]
         /\ upcoming1[q] # <<>> =>
              /\ Head(upcoming1[q]) \in Messages /\ Stalls(Head(upcoming1[q]))
<1>1. /\ ready1[q] \in Seq(Messages) /\ upcoming1[q] \in Seq(Messages)
      /\ ready1[q] \o upcoming1[q] = Queued(q)
      /\ Len(upcoming1[q]) = Len(upcoming_queue[q]) - Movable(q)
      /\ \A i \in 1..Len(upcoming1[q]) :
           upcoming1[q][i] = upcoming_queue[q][Movable(q) + i]
  BY MovedFacts
<1>2. ASSUME ready1[q] # <<>>
      PROVE  /\ Queued(q) # <<>> /\ Head(ready1[q]) = Head(Queued(q))
             /\ Head(ready1[q]) \in Messages
             /\ Tail(Queued(q)) = Tail(ready1[q]) \o upcoming1[q]
  <2>1. Head(ready1[q]) \in Messages
    BY <1>1, <1>2
  <2>2. /\ ready1[q] \o upcoming1[q] # <<>>
        /\ Head(ready1[q] \o upcoming1[q]) = Head(ready1[q])
        /\ Tail(ready1[q] \o upcoming1[q]) = Tail(ready1[q]) \o upcoming1[q]
    <3>1. ready1[q] \in Seq(Messages) /\ upcoming1[q] \in Seq(Messages)
      BY <1>1
    <3> QED BY <1>2, <3>1, TailOfConcat, Zenon
  <2> QED BY <1>1, <2>1, <2>2, Zenon
<1>3. ASSUME ready1[q] = <<>> PROVE Queued(q) = upcoming1[q]
  BY <1>1, <1>3, ConcatEmptySeq, Zenon
<1>4. ASSUME upcoming1[q] # <<>>
      PROVE  Head(upcoming1[q]) \in Messages /\ Stalls(Head(upcoming1[q]))
  <2>1. Head(upcoming1[q]) \in Messages /\ Head(upcoming1[q]) = upcoming1[q][1]
        /\ 1 \in 1..Len(upcoming1[q]) /\ Len(upcoming1[q]) > 0
    BY <1>1, <1>4
  <2>2. Head(upcoming1[q]) = upcoming_queue[q][Movable(q) + 1]
    BY <1>1, <2>1
  <2>3. Movable(q) < Len(upcoming_queue[q])
    <3>1. Movable(q) \in 0..Len(upcoming_queue[q]) /\ upcoming_queue[q] \in Seq(Messages)
      BY MovableFacts DEF QueueInv
    <3>2. Movable(q) \in Nat /\ Len(upcoming_queue[q]) \in Nat
      BY <3>1
    <3> QED BY <1>1, <2>1, <3>2
  <2>4. Stalls(upcoming_queue[q][Movable(q) + 1])
    BY <2>3, MovableFacts
  <2> QED BY <2>1, <2>2, <2>4
<1> QED BY <1>2, <1>3, <1>4

LEMMA ReadyClockFacts ==
  ASSUME TimesInv, QueueInv, pending \in Nat
  PROVE  /\ min_ready_clock \in Nat /\ min_ready_clock <= MAX_CLOCK
         /\ \A q \in CQ : ready1[q] # <<>> => min_ready_clock <= ReqClock(Head(ready1[q]))
         /\ min_ready_clock # MAX_CLOCK => \E q \in CQ : ready1[q] # <<>>
<1> DEFINE T == {MAX_CLOCK} \union {ReqClock(Head(ready1[q])) :
                                      q \in {p \in CQ : ready1[p] # <<>>}}
<1>1. \A m \in Messages : ReqClock(m) \in Nat
  <2>1. \A m \in Messages : m.req_clock \in Nat
    BY DEF Messages, QueueMessages
  <2>2. BackgroundClock \in Nat
    BY AckFacts
  <2> QED BY <2>1, <2>2 DEF ReqClock
<1>2. \A q \in CQ : ready1[q] # <<>> => Head(ready1[q]) \in Messages
  BY HeadFacts
<1>3. T \in SUBSET Nat /\ MAX_CLOCK \in T
  BY <1>1, <1>2, QueueAssumption
<1>4. min_ready_clock = Min(T)
  BY DEF min_ready_clock
<1>5. Min(T) \in T /\ \A y \in T : Min(T) <= y
  <2> HIDE DEF T
  <2> QED BY <1>3, MinNat
<1>6. \A q \in CQ : ready1[q] # <<>> => ReqClock(Head(ready1[q])) \in T
  OBVIOUS
<1>7. \A x \in T : x # MAX_CLOCK => \E q \in CQ : ready1[q] # <<>>
  OBVIOUS
<1> HIDE DEF T
<1>8. min_ready_clock \in Nat
  BY <1>3, <1>4, <1>5
<1> QED BY <1>3, <1>4, <1>5, <1>6, <1>7, <1>8

LEMMA StalledClockFacts ==
  ASSUME TimesInv, QueueInv, pending \in Nat
  PROVE  /\ min_stalled_clock \in Nat /\ min_stalled_clock > ack_clock
         /\ min_stalled_clock <= MAX_CLOCK
         /\ \A q \in CQ : upcoming1[q] # <<>> =>
              min_stalled_clock <= Head(upcoming1[q]).min_clock
<1> DEFINE T == {MAX_CLOCK} \union {Head(upcoming1[q]).min_clock :
                                      q \in {p \in CQ : upcoming1[p] # <<>>}}
<1>1. ack_clock \in Nat /\ ack_clock < MAX_CLOCK /\ MAX_CLOCK \in Nat
  BY AckFacts, QueueAssumption
<1>2. \A q \in CQ : upcoming1[q] # <<>> =>
        Head(upcoming1[q]).min_clock \in Nat /\ Head(upcoming1[q]).min_clock > ack_clock
  <2>1. SUFFICES ASSUME NEW q \in CQ, upcoming1[q] # <<>>
                 PROVE  /\ Head(upcoming1[q]).min_clock \in Nat
                        /\ Head(upcoming1[q]).min_clock > ack_clock
    OBVIOUS
  <2>2. Head(upcoming1[q]) \in Messages /\ Stalls(Head(upcoming1[q]))
    BY <2>1, HeadFacts
  <2>3. Head(upcoming1[q]).min_clock \in Nat
    BY <2>2 DEF Messages, QueueMessages
  <2> HIDE DEF ack_clock
  <2> QED BY <1>1, <2>2, <2>3 DEF Stalls
<1> HIDE DEF ack_clock
<1>3. T \in SUBSET Nat /\ MAX_CLOCK \in T /\ \A x \in T : x > ack_clock
  BY <1>1, <1>2
<1>4. min_stalled_clock = Min(T)
  BY DEF min_stalled_clock
<1>5. Min(T) \in T /\ \A y \in T : Min(T) <= y
  <2> HIDE DEF T
  <2> QED BY <1>3, MinNat
<1>6. \A q \in CQ : upcoming1[q] # <<>> => Head(upcoming1[q]).min_clock \in T
  OBVIOUS
<1> HIDE DEF T
<1> QED BY <1>3, <1>4, <1>5, <1>6

\* Something that can be sent now is ready.
LEMMA SendNowReady ==
  ASSUME TimesInv, QueueInv, pending \in Nat, SendNow
  PROVE  \E q \in CQ : ready1[q] # <<>>
<1>1. CASE ReadyCount(ready1) >= BlockCap \/ ReadyCount(ready1) > 0
  <2> SUFFICES ASSUME \A q \in CQ : ready1[q] = <<>>  PROVE FALSE
    OBVIOUS
  <2>1. \A q \in CQ : DOMAIN ready1[q] = {}
    OBVIOUS
  <2>2. ReadyCount(ready1) = 0
    BY <2>1, NoneReady
  <2> QED BY <1>1, <2>2, QueueAssumption
<1>2. CASE min_ready_clock <= ack_clock + ReqDelta
  <2>1. min_ready_clock # MAX_CLOCK
    <3> HIDE DEF min_ready_clock, ack_clock
    <3> QED BY <1>2, AckFacts, QueueAssumption
  <2> QED BY <2>1, ReadyClockFacts
<1> QED BY <1>1, <1>2 DEF SendNow

\* Without an estimate of the clock nothing waits.
LEMMA NothingWaits ==
  ASSUME TimesInv, QueueInv, EarlyInv, pending \in Nat, ~est_freq, ~SendNow, NEW q \in CQ
  PROVE  Queued(q) = <<>>
<1>1. ready1[q] = <<>>
  <2>1. ready1 \in [CQ -> Seq(Messages)]
    <3>1. \A p \in CQ : ready1[p] \in Seq(Messages)
      BY MovedFacts
    <3>2. ready1 = [p \in CQ |-> ready1[p]]
      BY DEF ready1
    <3> HIDE DEF ready1
    <3> QED BY <3>1, <3>2
  <2>2. ~(ReadyCount(ready1) > 0)
    BY DEF SendNow
  <2> QED BY <2>1, <2>2, NothingReady
<1>2. Queued(q) = upcoming1[q]
  BY <1>1, HeadFacts
<1> SUFFICES ASSUME Queued(q) # <<>>  PROVE FALSE
  OBVIOUS
<1>3. Stalls(Head(Queued(q))) /\ Queued(q) \in Seq(Messages)
  BY <1>2, HeadFacts, QueuedFacts
<1>4. 1 \in DOMAIN Queued(q) /\ Head(Queued(q)) = Queued(q)[1]
  BY <1>3
<1>5. Head(Queued(q)).min_clock = 0
  BY <1>4 DEF EarlyInv
<1> QED BY <1>3, <1>5, AckFacts DEF Stalls

\* What command_event sets the timer to is soon enough for every head.
SoonEnough(c, m) ==
    \/ c <= m.min_clock
    \/ /\ m.req_clock # BACKGROUND_PRIORITY_CLOCK
       /\ c + ReqDelta <= m.req_clock \/ MAX_CLOCK <= m.req_clock
    \/ /\ m.req_clock = BACKGROUND_PRIORITY_CLOCK
       /\ line_busy \/ pending > 0
       /\ c <= now + 1
LEMMA WaitFacts ==
  ASSUME TimesInv, QueueInv, EarlyInv, pending \in Nat, ~SendNow
  PROVE  /\ wantclock \in Nat /\ TimeAt(wantclock) \in Nat /\ TimeAt(wantclock) > now
         /\ TimeAt(wantclock) <= wantclock
         /\ \A q \in CQ : Queued(q) # <<>> =>
              SoonEnough(TimeAt(wantclock), Head(Queued(q)))
<1> HIDE DEF min_ready_clock, min_stalled_clock, ack_clock, BackgroundClock
<1>0. /\ now \in Nat /\ clock_adj \in Nat /\ ReqDelta \in Nat /\ MAX_CLOCK \in Nat
      /\ now < MAX_CLOCK
  BY ScenarioFacts, QueueAssumption
<1>1. CASE ~est_freq
  <2>1. wantclock = MAX_CLOCK /\ TimeAt(wantclock) = MAX_CLOCK
    BY <1>1 DEF wantclock, TimeAt
  <2>2. \A q \in CQ : Queued(q) = <<>>
    BY <1>1, NothingWaits
  <2> QED BY <1>0, <2>1, <2>2
<1>2. CASE est_freq
  <2> DEFINE r == IF min_ready_clock = MAX_CLOCK THEN MAX_CLOCK
                  ELSE min_ready_clock - ReqDelta
             c == TimeAt(wantclock)
  <2>1. ack_clock = now + clock_adj
    BY <1>2, AckFacts
  <2>2. /\ min_ready_clock \in Nat /\ min_ready_clock > ack_clock + ReqDelta
        /\ min_ready_clock <= MAX_CLOCK
    <3>1. ~(min_ready_clock <= ack_clock + ReqDelta)
      BY <1>2 DEF SendNow
    <3>2. min_ready_clock \in Nat /\ min_ready_clock <= MAX_CLOCK
      BY ReadyClockFacts
    <3> QED BY <1>0, <2>1, <3>1, <3>2
  <2>3. r \in Nat /\ r > ack_clock /\ r <= MAX_CLOCK
    BY <1>0, <2>1, <2>2
  <2>4. min_stalled_clock \in Nat /\ min_stalled_clock > ack_clock /\ min_stalled_clock <= MAX_CLOCK
    BY StalledClockFacts
  <2> HIDE DEF r
  <2>5. /\ wantclock \in {min_stalled_clock, r}
        /\ wantclock <= min_stalled_clock /\ wantclock <= r
    <3>1. wantclock = Min({min_stalled_clock, r})
      BY <1>2 DEF wantclock, r
    <3>2. {min_stalled_clock, r} \in SUBSET Nat
      BY <2>3, <2>4
    <3> HIDE DEF wantclock
    <3>3. /\ Min({min_stalled_clock, r}) \in {min_stalled_clock, r}
          /\ \A y \in {min_stalled_clock, r} : Min({min_stalled_clock, r}) <= y
      BY <3>2, MinNat
    <3> QED BY <3>1, <3>3
  <2> HIDE DEF wantclock
  <2>6. wantclock \in Nat /\ wantclock > ack_clock /\ wantclock <= MAX_CLOCK
    BY <2>3, <2>4, <2>5
  <2>7. c = IF wantclock = MAX_CLOCK THEN MAX_CLOCK ELSE now + (wantclock - ack_clock)
    BY DEF TimeAt
  <2>8. c \in Nat /\ c > now /\ c <= wantclock
    BY <1>0, <2>1, <2>6, <2>7
  <2> HIDE DEF c
  <2>9. ASSUME NEW q \in CQ, Queued(q) # <<>>
        PROVE  SoonEnough(c, Head(Queued(q)))
    <3> DEFINE m == Head(Queued(q))
    <3>1. CASE ready1[q] = <<>>
      <4>1. upcoming1[q] # <<>> /\ m = Head(upcoming1[q])
        BY <2>9, <3>1, HeadFacts
      <4>2. min_stalled_clock <= m.min_clock
        BY <4>1, StalledClockFacts
      <4>3. m.min_clock \in Nat
        BY <4>1, HeadFacts DEF Messages, QueueMessages
      <4> HIDE DEF m
      <4>4. c <= m.min_clock
        BY <2>4, <2>5, <2>6, <2>8, <4>2, <4>3
      <4> QED BY <4>4 DEF SoonEnough, m
    <3>2. CASE ready1[q] # <<>>
      <4>1. m = Head(ready1[q]) /\ m \in Messages
        BY <3>2, HeadFacts
      <4>2. min_ready_clock <= ReqClock(m)
        BY <3>2, <4>1, ReadyClockFacts
      <4>3. m.req_clock \in Nat
        BY <4>1 DEF Messages, QueueMessages
      <4>4. BackgroundClock \in Nat /\ BackgroundClock < MAX_CLOCK
            /\ BackgroundClock = IF pending > 0 \/ line_busy THEN ack_clock + ReqDelta + 1
                                 ELSE ack_clock
        BY AckFacts
      <4> HIDE DEF m
      <4>5. CASE m.req_clock = BACKGROUND_PRIORITY_CLOCK
        <5>1. ReqClock(m) = BackgroundClock
          BY <4>5 DEF ReqClock
        <5>2. /\ min_ready_clock # MAX_CLOCK /\ min_ready_clock <= ack_clock + ReqDelta + 1
              /\ pending > 0 \/ line_busy
          BY <1>0, <2>1, <2>2, <4>2, <4>4, <5>1
        <5>3. wantclock <= ack_clock + 1 /\ wantclock # MAX_CLOCK
          <6>1. r = min_ready_clock - ReqDelta
            BY <5>2 DEF r
          <6> QED BY <1>0, <2>1, <2>2, <2>3, <2>5, <2>6, <4>2, <4>4, <5>1, <5>2, <6>1
        <5>4. c <= now + 1
          BY <1>0, <2>1, <2>6, <2>7, <5>3
        <5> QED BY <4>5, <5>2, <5>4 DEF SoonEnough, m
      <4>6. CASE m.req_clock # BACKGROUND_PRIORITY_CLOCK
        <5>1. min_ready_clock <= m.req_clock
          BY <4>2, <4>6 DEF ReqClock
        <5>2. c + ReqDelta <= m.req_clock \/ MAX_CLOCK <= m.req_clock
          <6>1. CASE min_ready_clock = MAX_CLOCK
            BY <5>1, <6>1
          <6>2. CASE min_ready_clock # MAX_CLOCK
            <7>1. r = min_ready_clock - ReqDelta
              BY <6>2 DEF r
            <7> QED BY <1>0, <2>2, <2>3, <2>5, <2>6, <2>8, <4>3, <5>1, <7>1
          <6> QED BY <6>1, <6>2
        <5> QED BY <4>6, <5>2 DEF SoonEnough, m
      <4> QED BY <4>5, <4>6
    <3> QED BY <3>1, <3>2
  <2> QED BY <2>6, <2>8, <2>9 DEF c
<1> QED BY <1>1, <1>2 DEF TimesInv

LEMMA EarliestReady ==
  ASSUME TimesInv, QueueInv, pending \in Nat, SendNow
  PROVE  Earliest(ready1) \in CQ /\ ready1[Earliest(ready1)] # <<>>
<1>1. ready1 \in [CQ -> Seq(Messages)]
  <2>1. \A p \in CQ : ready1[p] \in Seq(Messages)
    BY MovedFacts
  <2>2. ready1 = [p \in CQ |-> ready1[p]]
    BY DEF ready1
  <2> HIDE DEF ready1
  <2> QED BY <2>1, <2>2
<1>2. \A q \in CQ : ready1[q] # <<>> => Queued(q) # <<>>
  BY HeadFacts
<1>3. \E q \in CQ : ready1[q] # <<>>
  BY SendNowReady
<1> HIDE DEF ready1
<1> QED BY <1>1, <1>2, <1>3, EarliestFacts

LEMMA EarliestQueued ==
  ASSUME QueueInv, ReadyCount(ready_queue) > 0
  PROVE  Earliest(ready_queue) \in CQ /\ ready_queue[Earliest(ready_queue)] # <<>>
<1>1. ready_queue \in [CQ -> Seq(Messages)]
  BY DEF QueueInv
<1>2. ASSUME NEW q \in CQ, ready_queue[q] # <<>> PROVE Queued(q) # <<>>
  <2>1. ready_queue[q] \in Seq(Messages) /\ upcoming_queue[q] \in Seq(Messages)
    BY QueuedFacts
  <2> QED BY <1>2, <2>1, TailOfConcat DEF Queued
<1>3. \E q \in CQ : ready_queue[q] # <<>>
  <2> SUFFICES ASSUME \A q \in CQ : ready_queue[q] = <<>>  PROVE FALSE
    OBVIOUS
  <2>1. \A q \in CQ : DOMAIN ready_queue[q] = {}
    OBVIOUS
  <2>2. ReadyCount(ready_queue) = 0
    BY <2>1, NoneReady
  <2> QED BY <2>2
<1> QED BY <1>1, <1>2, <1>3, EarliestFacts

-----------------------------------------------------------------------------
(* Times, flags and the pipe *)

LEMMA TimesKept ==
  ASSUME TimesInv, LinkInv, EarlyInv, QueueInv, Next
  PROVE  TimesInv'
<1> USE DEF clockVars, threadVars, countVars, allQueues, queueVars, blockVars
<1>0. /\ command_time \in Nat /\ now \in Nat \ {0} /\ poll_until \in Nat
      /\ need_kick_clock \in Nat /\ pipe \in Nat /\ pipe <= PipeCap
      /\ PipeCap \in Nat \ {0} /\ PollCap \in Nat /\ MAX_CLOCK \in Nat /\ pending \in Nat
  BY ScenarioFacts, ThreadsAssumption, QueueAssumption DEF TimesInv, LinkInv
<1>1. ASSUME NEW s \in Senders, SendBatch(s)
      PROVE  TimesInv'
  <2>1. /\ UNCHANGED <<scenario, now, clock_adj, est_freq, line_busy, must_exit,
                       command_time, poll_until, revents, pipe>>
        /\ need_kick_clock' \in {0, need_kick_clock}
        /\ sender' \in [Senders -> {"idle", "kick"}]
    <3>1. PICK q \in CQ, batch \in Batches :
             /\ send_batch(q, batch)
             /\ sender' = [sender EXCEPT ![s] = IF MustWake(batch) THEN "kick" ELSE "idle"]
      BY <1>1 DEF SendBatch
    <3>2. need_kick_clock' \in {0, need_kick_clock} /\ UNCHANGED blockVars
      BY <3>1 DEF send_batch
    <3>3. sender' \in [Senders -> {"idle", "kick"}]
      BY <3>1 DEF TimesInv
    <3> QED BY <1>1, <3>2, <3>3 DEF SendBatch
  <2> QED BY <1>0, <2>1 DEF TimesInv
<1>2. ASSUME NEW s \in Senders, Kick(s)
      PROVE  TimesInv'
  <2>1. pipe' \in 0..PipeCap
    BY <1>0, <1>2 DEF Kick, kick_bg_thread
  <2>2. sender' \in [Senders -> {"idle", "kick"}]
    BY <1>2 DEF Kick, TimesInv
  <2> QED BY <1>2, <2>1, <2>2 DEF Kick, TimesInv
<1>3. CASE SetClockEst
  BY <1>3 DEF SetClockEst, TimesInv
<1>4. CASE CheckTimers
  <2>1. command_time' \in Nat /\ poll_until' \in Nat
    <3>1. Min({command_time, now + PollCap}) \in Nat
      <4>1. {command_time, now + PollCap} \in SUBSET Nat
        BY <1>0
      <4> QED BY <4>1, MinNat
    <3> QED BY <1>0, <1>4, <3>1 DEF CheckTimers
  <2> QED BY <1>4, <2>1 DEF CheckTimers, TimesInv
<1>5. CASE CommandStart
  BY <1>5 DEF CommandStart, TimesInv
<1>6. CASE CommandAppend
  BY <1>6 DEF CommandAppend, append_message, TimesInv
<1>7. CASE CommandFinish
  BY <1>7 DEF CommandFinish, finish_block, TimesInv
<1>8. CASE CommandWait
  <2>1. command_time' \in Nat /\ need_kick_clock' \in Nat
    <3>1. CASE ~WindowOpen
      BY <1>0, <1>8, <3>1 DEF CommandWait
    <3>2. CASE WindowOpen
      <4>1. ~SendNow /\ command_time' = TimeAt(wantclock) /\ need_kick_clock' = wantclock
        BY <1>8, <3>2 DEF CommandWait, KickClock
      <4>2. wantclock \in Nat /\ TimeAt(wantclock) \in Nat
        BY <1>0, <4>1, WaitFacts
      <4> HIDE DEF wantclock, TimeAt
      <4> QED BY <4>1, <4>2
    <3> QED BY <3>1, <3>2
  <2>2. /\ line_busy' \in BOOLEAN /\ poll_until' \in Nat
        /\ UNCHANGED <<scenario, now, clock_adj, est_freq, must_exit, revents, pipe, sender>>
    BY <1>0, <1>8 DEF CommandWait, TimesInv
  <2> QED BY <2>1, <2>2 DEF TimesInv
<1>9. CASE Poll
  BY <1>0, <1>9 DEF Poll, TimesInv, Readable
<1>10. CASE InputEvent
  <2>1. command_time' \in Nat
    BY <1>0, <1>10 DEF InputEvent, AfterAck
  <2> QED BY <1>10, <2>1 DEF InputEvent, TimesInv
<1>11. CASE InputError
  BY <1>11 DEF InputError, TimesInv, Readable
<1>12. CASE KickEvent
  BY <1>0, <1>12 DEF KickEvent, TimesInv
<1>13. CASE Leave
  BY <1>13 DEF Leave, TimesInv
<1>14. CASE Pull \/ SpuriousWakeup
  BY <1>14 DEF Pull, SpuriousWakeup, TimesInv
<1>15. CASE DoExit
  BY <1>15 DEF DoExit, TimesInv
<1>16. CASE ExitKick
  BY <1>0, <1>16 DEF ExitKick, kick_bg_thread, TimesInv
<1>17. CASE Join \/ CompletePending
  BY <1>17 DEF Join, CompletePending, TimesInv
<1>18. CASE McuExecute
  BY <1>18 DEF McuExecute, TimesInv
<1>19. CASE McuReport
  BY <1>19 DEF McuReport, TimesInv
<1>20. CASE Tick
  <2>1. now' \in 1..scenario.time
    BY <1>0, <1>20, ScenarioFacts DEF Tick
  <2> QED BY <1>20, <2>1 DEF Tick, TimesInv
<1> QED BY <1>1, <1>2, <1>3, <1>4, <1>5, <1>6, <1>7, <1>8, <1>9, <1>10, <1>11, <1>12,
       <1>13, <1>14, <1>15, <1>16, <1>17, <1>18, <1>19, <1>20
    DEF Next, Background, Disconnect

-----------------------------------------------------------------------------
(* Blocks and frames *)

LEMMA LinkAlone ==
  ASSUME LinkInv, UNCHANGED <<block, send_seq, receive_seq, executed, pending, m2h>>,
         bg' \in {"timers", "command", "poll", "input", "kick", "leave", "exited"},
         block # <<>> => bg' = "command", bg' = "input" => m2h # <<>>
  PROVE  LinkInv'
BY DEF LinkInv, WindowOpen

LEMMA FrameAdded ==
  ASSUME NEW s, NEW lo \in Nat, NEW hi \in Nat, s \in Seq(Frames),
         \A p \in DOMAIN s : lo <= s[p].rseq /\ s[p].rseq <= hi,
         \A p, r \in DOMAIN s : p <= r => s[p].rseq <= s[r].rseq,
         NEW f \in Frames, lo <= f.rseq, hi <= f.rseq
  PROVE  LET t == Append(s, f) IN
         /\ t \in Seq(Frames)
         /\ \A p \in DOMAIN t : lo <= t[p].rseq /\ t[p].rseq <= f.rseq
         /\ \A p, r \in DOMAIN t : p <= r => t[p].rseq <= t[r].rseq
<1> DEFINE t == Append(s, f)
           n == Len(s)
<1>1. /\ t \in Seq(Frames) /\ DOMAIN t = 1..(n + 1) /\ DOMAIN s = 1..n
      /\ n \in Nat /\ t[n + 1] = f /\ \A p \in 1..n : t[p] = s[p]
      /\ \A p \in 1..n : s[p].rseq \in Nat
  <2>1. \A p \in 1..n : s[p] \in Frames
    OBVIOUS
  <2>2. \A p \in 1..n : s[p].rseq \in Nat
    BY <2>1 DEF Frames
  <2> QED BY <2>2
<1>2. f.rseq \in Nat
  BY DEF Frames
<1> HIDE DEF t, n
<1>3. \A p \in DOMAIN t : lo <= t[p].rseq /\ t[p].rseq <= f.rseq
  <2>1. SUFFICES ASSUME NEW p \in 1..(n + 1) PROVE lo <= t[p].rseq /\ t[p].rseq <= f.rseq
    BY <1>1
  <2>2. CASE p = n + 1
    BY <1>1, <1>2, <2>2
  <2>3. CASE p \in 1..n
    <3>1. lo <= s[p].rseq /\ s[p].rseq <= hi /\ s[p].rseq \in Nat /\ t[p] = s[p]
      BY <1>1, <2>3
    <3> QED BY <1>2, <3>1
  <2> QED BY <1>1, <2>2, <2>3
<1>4. ASSUME NEW p \in 1..(n + 1), NEW r \in 1..(n + 1), p <= r
      PROVE  t[p].rseq <= t[r].rseq
  <2>1. CASE r = n + 1
    BY <1>1, <1>3, <2>1
  <2>2. CASE r \in 1..n
    <3>1. p \in 1..n
      BY <1>1, <1>4, <2>2
    <3> QED BY <1>1, <1>4, <2>2, <3>1
  <2> QED BY <1>1, <2>1, <2>2
<1> QED BY <1>1, <1>3, <1>4 DEF t

LEMMA LinkKept ==
  ASSUME LinkInv, QueueInv, TimesInv, EarlyInv, HandledInv, Next
  PROVE  LinkInv'
<1> USE DEF clockVars, threadVars, countVars, allQueues, queueVars, blockVars, mcuVars
<1>0. /\ send_seq \in Nat /\ receive_seq \in Nat /\ executed \in Nat /\ pending \in Nat
      /\ MaxPending \in Nat
  BY QueueAssumption DEF LinkInv
<1>1. ASSUME NEW s \in Senders, SendBatch(s)
      PROVE  LinkInv'
  <2>1. UNCHANGED <<block, send_seq, receive_seq, executed, pending, m2h, bg>>
    BY <1>1 DEF SendBatch, send_batch
  <2> QED BY <2>1, LinkAlone DEF LinkInv
<1>2. ASSUME NEW s \in Senders, Kick(s)
      PROVE  LinkInv'
  BY <1>2, LinkAlone DEF Kick, LinkInv
<1>3. CASE SetClockEst
  BY <1>3, LinkAlone DEF SetClockEst, LinkInv
<1>4. CASE CheckTimers
  BY <1>4, LinkAlone DEF CheckTimers, LinkInv
<1>5. CASE CommandStart
  <2> DEFINE q == Earliest(ready1)
             m == Head(ready1[q])
  <2>1. q \in CQ /\ m \in Messages
    <3>1. q \in CQ /\ ready1[q] # <<>>
      BY <1>0, <1>5, EarliestReady DEF CommandStart
    <3> QED BY <3>1, HeadFacts
  <2>2. /\ block' = <<<<q, m>>>> /\ bg = "command" /\ bg' = bg /\ WindowOpen
        /\ UNCHANGED <<send_seq, receive_seq, executed, pending, m2h>>
    BY <1>5 DEF CommandStart
  <2> HIDE DEF q, m
  <2>3. block' \in Seq(CQ \X Messages)
    BY <2>1, <2>2
  <2> QED BY <2>2, <2>3 DEF LinkInv, WindowOpen
<1>6. CASE CommandAppend
  <2> DEFINE q == Earliest(ready_queue)
             m == Head(ready_queue[q])
  <2>1. q \in CQ /\ m \in Messages
    <3>1. q \in CQ /\ ready_queue[q] # <<>>
      BY <1>6, EarliestQueued DEF CommandAppend, append_message
    <3>2. ready_queue[q] \in Seq(Messages)
      BY <3>1, QueuedFacts
    <3> QED BY <3>1, <3>2
  <2>2. /\ block' = Append(block, <<q, m>>) /\ bg = "command" /\ bg' = bg /\ block # <<>>
        /\ UNCHANGED <<send_seq, receive_seq, executed, pending, m2h>>
    BY <1>6 DEF CommandAppend, append_message
  <2> HIDE DEF q, m
  <2>3. block' \in Seq(CQ \X Messages)
    BY <2>1, <2>2 DEF LinkInv
  <2> QED BY <2>2, <2>3 DEF LinkInv, WindowOpen
<1>7. CASE CommandFinish
  <2>1. /\ block' = <<>> /\ bg' = bg /\ send_seq' = send_seq + 1 /\ pending' = pending + 1
        /\ UNCHANGED <<receive_seq, executed, m2h>> /\ WindowOpen
    BY <1>7 DEF CommandFinish, finish_block, LinkInv
  <2>2. /\ send_seq' <= receive_seq + MaxPending /\ send_seq' \in Nat /\ pending' \in Nat
        /\ send_seq' - pending' = send_seq - pending
    BY <1>0, <2>1 DEF WindowOpen
  <2>3. block' \in Seq(CQ \X Messages)
    BY <2>1
  <2> QED BY <2>1, <2>2, <2>3 DEF LinkInv
<1>8. CASE CommandWait
  <2>1. /\ block = <<>> /\ bg' = "poll" /\ pending' = 0
        /\ UNCHANGED <<block, send_seq, receive_seq, executed, m2h>>
    BY <1>8 DEF CommandWait
  <2>2. executed <= send_seq - 0
    BY <1>0 DEF LinkInv
  <2> QED BY <2>1, <2>2 DEF LinkInv
<1>9. CASE Poll
  BY <1>9, LinkAlone DEF Poll, AfterInput, Readable, LinkInv
<1>10. CASE InputEvent
  <2> DEFINE f == Head(m2h)
             t == Tail(m2h)
  <2>1. /\ bg = "input" /\ bg' \in {"kick", "timers"} /\ receive_seq' = f.rseq /\ m2h' = t
        /\ UNCHANGED <<block, send_seq, executed, pending>>
    BY <1>10 DEF InputEvent, AfterInput
  <2>2. /\ m2h # <<>> /\ block = <<>> /\ m2h \in Seq(Frames)
    BY <2>1 DEF LinkInv
  <2>3. /\ t \in Seq(Frames) /\ DOMAIN t = 1..(Len(m2h) - 1)
        /\ Len(m2h) \in Nat \ {0} /\ DOMAIN m2h = 1..Len(m2h) /\ f = m2h[1]
        /\ \A p \in 1..(Len(m2h) - 1) : t[p] = m2h[p + 1]
    BY <2>2
  <2> HIDE DEF t, f
  <2>4. /\ 1 \in DOMAIN m2h /\ \A p \in DOMAIN t : p + 1 \in DOMAIN m2h /\ t[p] = m2h[p + 1]
        /\ \A p \in DOMAIN t : 1 <= p + 1 /\ p \in Nat
    BY <2>3
  <2>5. f.rseq \in Nat /\ receive_seq <= f.rseq /\ f.rseq <= executed
    <3>1. f \in Frames
      BY <2>2, <2>3, <2>4
    <3> QED BY <2>3, <2>4, <3>1 DEF LinkInv, Frames
  <2>6. \A p \in DOMAIN t : f.rseq <= t[p].rseq /\ t[p].rseq <= executed
    BY <2>3, <2>4 DEF LinkInv
  <2>7. \A p, r \in DOMAIN t : p <= r => t[p].rseq <= t[r].rseq
    <3>1. \A p, r \in DOMAIN t : p <= r => p + 1 <= r + 1
      BY <2>4
    <3> QED BY <2>4, <3>1 DEF LinkInv
  <2>8. send_seq <= f.rseq + MaxPending /\ 1 <= f.rseq
    BY <1>0, <2>5 DEF LinkInv
  <2> QED BY <2>1, <2>2, <2>3, <2>5, <2>6, <2>7, <2>8 DEF LinkInv
<1>11. CASE InputError
  <2>1. bg = "poll" /\ bg' \in {"kick", "timers"}
        /\ UNCHANGED <<block, send_seq, receive_seq, executed, pending, m2h>>
    BY <1>11 DEF InputError, AfterInput
  <2> QED BY <2>1, LinkAlone DEF LinkInv
<1>12. CASE KickEvent
  BY <1>12, LinkAlone DEF KickEvent, LinkInv
<1>13. CASE Leave
  BY <1>13, LinkAlone DEF Leave, LinkInv
<1>14. CASE Pull \/ SpuriousWakeup
  BY <1>14, LinkAlone DEF Pull, SpuriousWakeup, LinkInv
<1>15. CASE DoExit \/ ExitKick \/ Join \/ CompletePending
  BY <1>15, LinkAlone DEF DoExit, ExitKick, Join, CompletePending, LinkInv
<1>16. CASE McuExecute
  <2>1. PICK respond \in BOOLEAN :
          m2h' = (IF respond THEN Append(m2h, Response(1)) ELSE m2h)
                   \o <<[rseq |-> executed + 1, data |-> 0]>>
    BY <1>16 DEF McuExecute
  <2>2. /\ executed < send_seq - pending /\ executed' = executed + 1
        /\ UNCHANGED <<block, send_seq, receive_seq, pending, bg>>
    BY <1>16 DEF McuExecute
  <2> DEFINE a == [rseq |-> executed + 1, data |-> 0]
             s == IF respond THEN Append(m2h, Response(1)) ELSE m2h
  <2>3. /\ a \in Frames /\ Response(1) \in Frames
        /\ a.rseq = executed + 1 /\ Response(1).rseq = executed + 1
    BY <1>0 DEF Response, HandledInv, Frames
  <2>4. /\ receive_seq <= executed /\ receive_seq <= executed + 1 /\ executed <= executed + 1
        /\ m2h \in Seq(Frames) /\ executed + 1 \in Nat
    BY <1>0 DEF LinkInv
  <2>5. /\ \A p \in DOMAIN m2h : receive_seq <= m2h[p].rseq /\ m2h[p].rseq <= executed
        /\ \A p, r \in DOMAIN m2h : p <= r => m2h[p].rseq <= m2h[r].rseq
    BY DEF LinkInv
  <2>6. /\ s \in Seq(Frames)
        /\ \A p \in DOMAIN s : receive_seq <= s[p].rseq /\ s[p].rseq <= executed + 1
        /\ \A p, r \in DOMAIN s : p <= r => s[p].rseq <= s[r].rseq
    <3>1. CASE respond
      <4> DEFINE f == Response(1)
      <4> HIDE DEF f
      <4>1. /\ Append(m2h, f) \in Seq(Frames)
            /\ \A p \in DOMAIN Append(m2h, f) :
                 receive_seq <= Append(m2h, f)[p].rseq /\ Append(m2h, f)[p].rseq <= f.rseq
            /\ \A p, r \in DOMAIN Append(m2h, f) :
                 p <= r => Append(m2h, f)[p].rseq <= Append(m2h, f)[r].rseq
        <5>1. f \in Frames /\ f.rseq = executed + 1
          BY <2>3 DEF f
        <5>2. receive_seq <= f.rseq /\ executed <= f.rseq
          BY <2>4, <5>1
        <5> QED BY <1>0, <2>4, <2>5, <5>1, <5>2, FrameAdded
      <4> QED BY <2>3, <3>1, <4>1 DEF f
    <3>2. CASE ~respond
      <4>1. \A p \in DOMAIN m2h : m2h[p].rseq <= executed + 1
        <5>1. \A p \in DOMAIN m2h : m2h[p].rseq \in Nat
          <6>1. \A p \in DOMAIN m2h : m2h[p] \in Frames
            BY <2>4
          <6> QED BY <6>1 DEF Frames
        <5> QED BY <1>0, <2>5, <5>1
      <4> QED BY <2>4, <2>5, <3>2, <4>1
    <3> QED BY <3>1, <3>2
  <2> HIDE DEF s
  <2>7. m2h' = Append(s, a)
    BY <2>1, <2>6 DEF s
  <2> HIDE DEF a
  <2>8. /\ Append(s, a) \in Seq(Frames)
        /\ \A p \in DOMAIN Append(s, a) :
             receive_seq <= Append(s, a)[p].rseq /\ Append(s, a)[p].rseq <= a.rseq
        /\ \A p, r \in DOMAIN Append(s, a) :
             p <= r => Append(s, a)[p].rseq <= Append(s, a)[r].rseq
    <3>1. receive_seq <= a.rseq /\ executed + 1 <= a.rseq /\ a \in Frames
      BY <2>3, <2>4
    <3> QED BY <1>0, <2>4, <2>6, <3>1, FrameAdded
  <2>9. Append(s, a) # <<>>
    BY <2>6
  <2>10. executed + 1 <= send_seq - pending
    BY <1>0, <2>2
  <2> QED BY <2>2, <2>3, <2>4, <2>7, <2>8, <2>9, <2>10 DEF LinkInv, WindowOpen
<1>17. CASE McuReport
  <2> DEFINE f == Response(0)
  <2>1. m2h' = Append(m2h, f) /\ UNCHANGED <<executed, block, send_seq, receive_seq, pending, bg>>
    BY <1>17 DEF McuReport
  <2>2. f \in Frames /\ f.rseq = executed
    BY <1>0 DEF Response, HandledInv, Frames
  <2> HIDE DEF f
  <2>3. /\ m2h \in Seq(Frames)
        /\ \A p \in DOMAIN m2h : receive_seq <= m2h[p].rseq /\ m2h[p].rseq <= executed
        /\ \A p, r \in DOMAIN m2h : p <= r => m2h[p].rseq <= m2h[r].rseq
        /\ receive_seq <= f.rseq /\ executed <= f.rseq
    BY <1>0, <2>2 DEF LinkInv
  <2>4. /\ Append(m2h, f) \in Seq(Frames)
        /\ \A p \in DOMAIN Append(m2h, f) :
             receive_seq <= Append(m2h, f)[p].rseq /\ Append(m2h, f)[p].rseq <= f.rseq
        /\ \A p, r \in DOMAIN Append(m2h, f) :
             p <= r => Append(m2h, f)[p].rseq <= Append(m2h, f)[r].rseq
    BY <1>0, <2>2, <2>3, FrameAdded
  <2>5. Append(m2h, f) # <<>>
    <3>1. m2h \in Seq(Frames) /\ f \in Frames
      BY <2>2, <2>3
    <3>2. Append(m2h, f) # <<>>
      BY <3>1, AppendProperties, Zenon
    <3> QED BY <3>2
  <2> QED BY <2>1, <2>2, <2>4, <2>5 DEF LinkInv, WindowOpen
<1>18. CASE Tick
  BY <1>18, LinkAlone DEF Tick, LinkInv
<1> QED BY <1>1, <1>2, <1>3, <1>4, <1>5, <1>6, <1>7, <1>8, <1>9, <1>10, <1>11, <1>12,
       <1>13, <1>14, <1>15, <1>16, <1>17, <1>18
    DEF Next, Background, Disconnect

-----------------------------------------------------------------------------
(* What is put into the queues and taken from them *)

LEMMA BatchFacts ==
  ASSUME TimesInv, nmsg \in Nat, NEW batch \in Batches, nmsg + Len(batch) <= scenario.msgs
  PROVE  /\ batch \in Seq(Messages) /\ Len(batch) \in {1, 2}
         /\ \A i \in 1..Len(batch) : batch[i].id = nmsg + i
         /\ \A i \in 1..Len(batch) : batch[i].notify => i = 1 /\ Len(batch) = 1
<1>1. scenario.clocks \subseteq Nat \X Nat /\ 1..scenario.msgs \subseteq Ids
      /\ scenario.msgs \in Nat
  BY ScenarioFacts
<1>2. \A c \in Nat \X Nat, n \in BOOLEAN, i \in Ids : NewMessage(i, c, n) \in Messages
  BY DEF NewMessage, Messages, QueueMessages
<1>3. CASE \E p \in Clocks \X BOOLEAN : batch = <<NewMessage(nmsg + 1, p[1], p[2])>>
  <2>0. PICK p \in Clocks \X BOOLEAN : batch = <<NewMessage(nmsg + 1, p[1], p[2])>>
    BY <1>3
  <2>1. PICK c \in Clocks, n \in BOOLEAN : batch = <<NewMessage(nmsg + 1, c, n)>>
    <3>1. p[1] \in Clocks /\ p[2] \in BOOLEAN
      OBVIOUS
    <3> QED BY <2>0, <3>1
  <2>2. Len(batch) = 1 /\ nmsg + 1 \in Ids
    BY <1>1, <2>1
  <2>3. NewMessage(nmsg + 1, c, n) \in Messages
    BY <1>1, <1>2, <2>2 DEF Clocks
  <2>4. NewMessage(nmsg + 1, c, n).id = nmsg + 1
    BY DEF NewMessage
  <2> QED BY <2>1, <2>2, <2>3, <2>4
<1>4. CASE \E p \in MoveClocks :
             batch = <<NewMessage(nmsg + 1, p[1], FALSE), NewMessage(nmsg + 2, p[2], FALSE)>>
  <2>1. PICK p \in MoveClocks :
             batch = <<NewMessage(nmsg + 1, p[1], FALSE), NewMessage(nmsg + 2, p[2], FALSE)>>
    BY <1>4
  <2> DEFINE a == NewMessage(nmsg + 1, p[1], FALSE)
             b == NewMessage(nmsg + 2, p[2], FALSE)
  <2>2. Len(batch) = 2 /\ nmsg + 1 \in Ids /\ nmsg + 2 \in Ids
    BY <1>1, <2>1
  <2>3. p[1] \in Nat \X Nat /\ p[2] \in Nat \X Nat
    <3>1. p \in Clocks \X Clocks
      BY DEF MoveClocks
    <3> QED BY <1>1, <3>1 DEF Clocks
  <2>4. a \in Messages /\ b \in Messages
    BY <1>2, <2>2, <2>3
  <2>5. a.id = nmsg + 1 /\ b.id = nmsg + 2 /\ ~a.notify /\ ~b.notify
    BY DEF NewMessage
  <2> HIDE DEF a, b
  <2>6. batch = <<a, b>>
    BY <2>1 DEF a, b
  <2>7. batch \in Seq(Messages) /\ batch[1] = a /\ batch[2] = b
    BY <2>4, <2>6
  <2>8. ASSUME NEW i \in 1..2
        PROVE  batch[i].id = nmsg + i /\ ~batch[i].notify
    BY <2>5, <2>7
  <2> QED BY <2>2, <2>7, <2>8
<1>5. \/ \E p \in Clocks \X BOOLEAN : batch = <<NewMessage(nmsg + 1, p[1], p[2])>>
      \/ \E p \in MoveClocks :
           batch = <<NewMessage(nmsg + 1, p[1], FALSE), NewMessage(nmsg + 2, p[2], FALSE)>>
  BY DEF Batches
<1> QED BY <1>3, <1>4, <1>5, Zenon

LEMMA MinClockFacts ==
  ASSUME NEW m \in Messages
  PROVE  /\ WithMinClock(m) \in Messages /\ WithMinClock(m).id = m.id
         /\ WithMinClock(m).notify = m.notify /\ WithMinClock(m).req_clock = m.req_clock
         /\ m.req_clock = 0 => WithMinClock(m).min_clock = m.min_clock
         /\ \/ m.req_clock = BACKGROUND_PRIORITY_CLOCK
            \/ m.req_clock <= WithMinClock(m).min_clock + ClockHalf
<1>1. ClockHalf \in Nat \ {0}
  BY QueueAssumption
<1>2. m.min_clock \in Nat /\ m.req_clock \in Nat
  BY DEF Messages, QueueMessages
<1>3. CASE /\ m.min_clock + ClockHalf < m.req_clock
           /\ m.req_clock # BACKGROUND_PRIORITY_CLOCK
  <2>1. WithMinClock(m) = [m EXCEPT !.min_clock = m.req_clock - ClockHalf]
    BY <1>3 DEF WithMinClock
  <2>2. m.req_clock - ClockHalf \in Nat /\ m.req_clock # 0
        /\ m.req_clock <= (m.req_clock - ClockHalf) + ClockHalf
    BY <1>1, <1>2, <1>3
  <2>3. /\ WithMinClock(m) \in Messages
        /\ WithMinClock(m).min_clock = m.req_clock - ClockHalf
        /\ WithMinClock(m).id = m.id /\ WithMinClock(m).notify = m.notify
        /\ WithMinClock(m).req_clock = m.req_clock
    BY <2>1, <2>2 DEF Messages, QueueMessages
  <2> QED BY <2>2, <2>3
<1>4. CASE ~(/\ m.min_clock + ClockHalf < m.req_clock
             /\ m.req_clock # BACKGROUND_PRIORITY_CLOCK)
  <2>1. WithMinClock(m) = m
    BY <1>4 DEF WithMinClock
  <2> QED BY <1>1, <1>2, <1>4, <2>1
<1> QED BY <1>3, <1>4

(* The batch goes to the end of its queue, with the next numbers. *)
Puts(q, batch) ==
    LET b == [i \in DOMAIN batch |-> WithMinClock(batch[i])] IN
    /\ batch \in Seq(Messages) /\ Len(batch) \in {1, 2}
    /\ \A i \in 1..Len(batch) : batch[i].id = nmsg + i
    /\ \A i \in 1..Len(batch) : batch[i].notify => i = 1 /\ Len(batch) = 1
    /\ b \in Seq(Messages) /\ Len(b) = Len(batch)
    /\ \A i \in 1..Len(b) : b[i] = WithMinClock(batch[i])
    /\ upcoming_queue' \in [CQ -> Seq(Messages)]
    /\ upcoming_queue'[q] = upcoming_queue[q] \o b
    /\ \A p \in CQ \ {q} : upcoming_queue'[p] = upcoming_queue[p] /\ Queued(p)' = Queued(p)
    /\ Queued(q)' = Queued(q) \o b
    /\ nmsg' = nmsg + Len(batch) /\ nmsg' \in 0..scenario.msgs
    /\ UNCHANGED <<ready_queue, taken, scenario>>
    /\ pending_queues' = IF Queued(q) = <<>> THEN Append(pending_queues, q)
                         ELSE pending_queues

LEMMA Putting ==
  ASSUME TimesInv, QueueInv, NEW s \in Senders, SendBatch(s)
  PROVE  \E q \in CQ, batch \in Batches :
           /\ Puts(q, batch)
           /\ batch[1].notify => s = "main"
           /\ ~est_freq => \A i \in DOMAIN batch :
                              batch[i].min_clock = 0 /\ batch[i].req_clock = 0
           /\ need_kick_clock' = IF MustWake(batch) THEN 0 ELSE need_kick_clock
           /\ sender' = [sender EXCEPT ![s] = IF MustWake(batch) THEN "kick" ELSE "idle"]
           /\ pending_notifications' =
                IF batch[1].notify THEN pending_notifications \union {batch[1].id}
                ELSE pending_notifications
<1>1. PICK q \in CQ, batch \in Batches :
       /\ nmsg + Len(batch) <= scenario.msgs
       /\ batch[1].notify => s = "main"
       /\ ~est_freq => \A i \in DOMAIN batch :
                          batch[i].min_clock = 0 /\ batch[i].req_clock = 0
       /\ send_batch(q, batch)
       /\ nmsg' = nmsg + Len(batch)
       /\ sender' = [sender EXCEPT ![s] = IF MustWake(batch) THEN "kick"
                                          ELSE "idle"]
       /\ pending_notifications' =
            IF batch[1].notify
            THEN pending_notifications \union {batch[1].id}
            ELSE pending_notifications
  BY DEF SendBatch
<1>2. nmsg \in Nat /\ UNCHANGED <<taken, scenario>>
  BY DEF SendBatch, QueueInv
<1> DEFINE b == [i \in DOMAIN batch |-> WithMinClock(batch[i])]
<1>3. /\ batch \in Seq(Messages) /\ Len(batch) \in {1, 2}
      /\ \A i \in 1..Len(batch) : batch[i].id = nmsg + i
      /\ \A i \in 1..Len(batch) : batch[i].notify => i = 1 /\ Len(batch) = 1
  BY <1>1, <1>2, BatchFacts
<1>4. b \in Seq(Messages) /\ Len(b) = Len(batch)
      /\ \A i \in 1..Len(b) : b[i] = WithMinClock(batch[i])
  <2>1. DOMAIN batch = 1..Len(batch) /\ Len(batch) \in Nat
        /\ \A i \in 1..Len(batch) : batch[i] \in Messages
    BY <1>3
  <2>2. \A i \in 1..Len(batch) : WithMinClock(batch[i]) \in Messages
    BY <2>1, MinClockFacts
  <2> QED BY <2>1, <2>2
<1>5. /\ pending_queues' = IF Queued(q) = <<>> THEN Append(pending_queues, q)
                           ELSE pending_queues
      /\ upcoming_queue' = [upcoming_queue EXCEPT ![q] = @ \o b]
      /\ need_kick_clock' = IF MustWake(batch) THEN 0 ELSE need_kick_clock
      /\ UNCHANGED ready_queue
  BY <1>1 DEF send_batch
<1> HIDE DEF b
<1>6. /\ upcoming_queue \in [CQ -> Seq(Messages)] /\ upcoming_queue[q] \in Seq(Messages)
      /\ ready_queue[q] \in Seq(Messages)
  BY QueuedFacts DEF QueueInv
<1>7. /\ upcoming_queue' \in [CQ -> Seq(Messages)]
      /\ upcoming_queue'[q] = upcoming_queue[q] \o b
      /\ \A p \in CQ \ {q} : upcoming_queue'[p] = upcoming_queue[p]
  <2>1. upcoming_queue[q] \o b \in Seq(Messages)
    BY <1>4, <1>6, ConcatProperties
  <2> QED BY <1>5, <1>6, <2>1
<1>8. Queued(q)' = Queued(q) \o b
  <2>1. b \in Seq(Messages) /\ upcoming_queue[q] \in Seq(Messages) /\ ready_queue[q] \in Seq(Messages)
    BY <1>4, <1>6
  <2> DEFINE r == ready_queue[q]
             u == upcoming_queue[q]
  <2>2. (r \o u) \o b = r \o (u \o b)
    <3> HIDE DEF r, u
    <3>1. r \in Seq(Messages) /\ u \in Seq(Messages) /\ b \in Seq(Messages)
      BY <2>1 DEF r, u
    <3> QED BY <3>1, ConcatAssociative
  <2> QED BY <1>5, <1>7, <2>2 DEF Queued
<1>9. \A p \in CQ \ {q} : Queued(p)' = Queued(p)
  BY <1>5, <1>7 DEF Queued
<1>10. nmsg' \in 0..scenario.msgs
  BY <1>1, <1>2, <1>3, ScenarioFacts
<1>11. Puts(q, batch)
  BY <1>1, <1>2, <1>3, <1>4, <1>5, <1>7, <1>8, <1>9, <1>10 DEF Puts, b
<1> QED BY <1>1, <1>5, <1>11

LEMMA PutKeeps ==
  ASSUME TimesInv, QueueInv, NEW q \in CQ, NEW batch \in Batches, Puts(q, batch)
  PROVE  /\ QueueInv'
         /\ IsStrictPrefix(EverPut(q), EverPut(q)')
         /\ IsInjective(EverPut(q)')
         /\ \A p \in CQ \ {q} :
              EverPut(p)' = EverPut(p) /\ ToSet(EverPut(p)) \cap ToSet(EverPut(q)') = {}
<1> DEFINE b == [i \in DOMAIN batch |-> WithMinClock(batch[i])]
           e == EverPut(q)
           f == EverPut(q)'
           n == Len(batch)
<1>1. /\ b \in Seq(Messages) /\ Len(b) = n /\ n \in {1, 2}
      /\ Queued(q)' = Queued(q) \o b /\ nmsg' = nmsg + n /\ nmsg' \in 0..scenario.msgs
      /\ nmsg \in Nat /\ UNCHANGED <<taken, scenario>>
      /\ \A p \in CQ \ {q} : Queued(p)' = Queued(p)
  BY DEF Puts, QueueInv
<1>2. \A i \in 1..n : b[i].id = nmsg + i
  <2>1. /\ \A i \in 1..n : b[i] = WithMinClock(batch[i]) /\ batch[i].id = nmsg + i
        /\ batch \in Seq(Messages)
    BY <1>1 DEF Puts
  <2>2. \A i \in 1..n : batch[i] \in Messages
    BY <2>1
  <2> HIDE DEF b
  <2> QED BY <2>1, <2>2, MinClockFacts
<1> HIDE DEF b, n
<1>3. /\ Queued(q) \in Seq(Messages) /\ taken[q] \in Seq(Ids) /\ e \in Seq(Ids)
      /\ Len(e) = Len(taken[q]) + Len(Queued(q))
      /\ \A i \in 1..Len(taken[q]) : e[i] = taken[q][i]
      /\ \A i \in 1..Len(Queued(q)) : e[Len(taken[q]) + i] = Queued(q)[i].id
  BY QueuedFacts
<1>4. /\ Queued(q) \o b \in Seq(Messages) /\ Len(Queued(q) \o b) = Len(Queued(q)) + n
      /\ \A i \in 1..(Len(Queued(q)) + n) :
           (Queued(q) \o b)[i] = IF i <= Len(Queued(q)) THEN Queued(q)[i]
                                 ELSE b[i - Len(Queued(q))]
  <2>1. Queued(q) \in Seq(Messages) /\ b \in Seq(Messages)
    BY <1>1, <1>3
  <2>2. /\ Queued(q) \o b \in Seq(Messages) /\ Len(Queued(q) \o b) = Len(Queued(q)) + Len(b)
        /\ \A i \in 1..(Len(Queued(q)) + Len(b)) :
             (Queued(q) \o b)[i] = IF i <= Len(Queued(q)) THEN Queued(q)[i]
                                   ELSE b[i - Len(Queued(q))]
    BY <2>1, ConcatProperties, Zenon
  <2> QED BY <1>1, <2>2
<1>5. /\ f \in Seq(Ids) /\ Len(f) = Len(taken[q]) + Len(Queued(q) \o b)
      /\ \A i \in 1..Len(taken[q]) : f[i] = taken[q][i]
      /\ \A i \in 1..Len(Queued(q) \o b) : f[Len(taken[q]) + i] = (Queued(q) \o b)[i].id
  <2> DEFINE s == Queued(q) \o b
  <2>1. f = taken[q] \o [i \in DOMAIN s |-> s[i].id]
    BY <1>1 DEF EverPut
  <2>2. s \in Seq(Messages)
    BY <1>4
  <2> HIDE DEF s, f
  <2>3. taken[q] \in Seq(Ids)
    BY <1>3
  <2>4. /\ f \in Seq(Ids) /\ Len(f) = Len(taken[q]) + Len(s)
        /\ \A i \in 1..Len(taken[q]) : f[i] = taken[q][i]
        /\ \A i \in 1..Len(s) : f[Len(taken[q]) + i] = s[i].id
    BY <2>1, <2>2, <2>3, IdsFacts
  <2> QED BY <2>4 DEF s
<1>6. Len(taken[q]) \in Nat /\ Len(Queued(q)) \in Nat /\ n \in Nat /\ n > 0
  BY <1>1, <1>3
<1> HIDE DEF e, f
<1>7. Len(f) = Len(e) + n /\ Len(e) \in Nat
  <2> DEFINE lt == Len(taken[q])
             lq == Len(Queued(q))
             lb == Len(Queued(q) \o b)
  <2>1. Len(f) = lt + lb
    BY <1>5
  <2>2. lb = lq + n
    BY <1>4
  <2>3. Len(e) = lt + lq
    BY <1>3
  <2>4. lt \in Nat /\ lq \in Nat /\ n \in Nat
    BY <1>6
  <2> HIDE DEF lt, lq, lb
  <2> QED BY <2>1, <2>2, <2>3, <2>4
<1>8. ASSUME NEW i \in 1..Len(e) PROVE f[i] = e[i]
  <2>1. i \in Nat \ {0} /\ i <= Len(taken[q]) + Len(Queued(q))
    BY <1>3, <1>6
  <2>2. CASE i <= Len(taken[q])
    <3>1. i \in 1..Len(taken[q])
      BY <1>6, <2>1, <2>2
    <3> QED BY <1>3, <1>5, <3>1
  <2>3. CASE ~(i <= Len(taken[q]))
    <3> DEFINE j == i - Len(taken[q])
    <3>1. /\ j \in 1..Len(Queued(q)) /\ j \in 1..(Len(Queued(q)) + n) /\ Len(taken[q]) + j = i
          /\ j <= Len(Queued(q))
      BY <1>6, <2>1, <2>3
    <3> HIDE DEF j
    <3>2. e[i] = Queued(q)[j].id
      BY <1>3, <3>1
    <3>3. (Queued(q) \o b)[j] = Queued(q)[j]
      BY <1>4, <3>1
    <3>4. f[i] = (Queued(q) \o b)[j].id
      BY <1>4, <1>5, <3>1
    <3> QED BY <3>2, <3>3, <3>4
  <2> QED BY <2>2, <2>3
<1>9. ASSUME NEW k \in 1..n PROVE f[Len(e) + k] = nmsg + k
  <2> DEFINE j == Len(Queued(q)) + k
  <2>1. /\ j \in 1..(Len(Queued(q)) + n) /\ ~(j <= Len(Queued(q))) /\ j - Len(Queued(q)) = k
        /\ Len(taken[q]) + j = Len(e) + k
    <3> DEFINE lt == Len(taken[q])
               lq == Len(Queued(q))
    <3>1. Len(e) = lt + lq /\ lt \in Nat /\ lq \in Nat
      BY <1>3, <1>6
    <3> HIDE DEF lt, lq
    <3>2. /\ lq + k \in 1..(lq + n) /\ ~(lq + k <= lq) /\ (lq + k) - lq = k
          /\ lt + (lq + k) = Len(e) + k
      BY <1>6, <3>1
    <3> QED BY <3>2 DEF lt, lq
  <2> HIDE DEF j
  <2>2. (Queued(q) \o b)[j] = b[k]
    BY <1>4, <2>1
  <2>3. f[Len(e) + k] = (Queued(q) \o b)[j].id
    BY <1>4, <1>5, <2>1
  <2> QED BY <1>2, <2>2, <2>3
<1>10. \A p \in CQ \ {q} : EverPut(p)' = EverPut(p)
  BY <1>1 DEF EverPut
<1>11. /\ DOMAIN e = 1..Len(e) /\ DOMAIN f = 1..(Len(e) + n)
  <2>1. e \in Seq(Ids) /\ f \in Seq(Ids)
    BY <1>3, <1>5
  <2> QED BY <1>7, <2>1
<1>12. \A p \in CQ : \A i \in DOMAIN EverPut(p) :
         EverPut(p)[i] \in Nat /\ EverPut(p)[i] >= 1 /\ EverPut(p)[i] <= nmsg
  BY <1>1 DEF QueueInv
<1>13. ASSUME NEW i \in 1..(Len(e) + n)
       PROVE  \/ i \in 1..Len(e) /\ f[i] = e[i] /\ f[i] \in Nat /\ f[i] >= 1 /\ f[i] <= nmsg
              \/ i - Len(e) \in 1..n /\ f[i] = nmsg + (i - Len(e))
  <2>1. CASE i <= Len(e)
    <3>1. i \in 1..Len(e)
      BY <1>7, <2>1
    <3>2. f[i] = e[i] /\ i \in DOMAIN EverPut(q)
      BY <1>8, <1>11, <3>1 DEF e
    <3>3. EverPut(q)[i] \in Nat /\ EverPut(q)[i] >= 1 /\ EverPut(q)[i] <= nmsg
      BY <1>12, <3>2
    <3> QED BY <3>1, <3>2, <3>3 DEF e
  <2>2. CASE ~(i <= Len(e))
    <3>1. i - Len(e) \in 1..n /\ Len(e) + (i - Len(e)) = i
      BY <1>6, <1>7, <2>2
    <3> QED BY <1>9, <3>1
  <2> QED BY <2>1, <2>2
<1>14. \A i \in DOMAIN f : f[i] \in 1..nmsg'
  <2> SUFFICES ASSUME NEW i \in 1..(Len(e) + n) PROVE f[i] \in 1..nmsg'
    BY <1>11
  <2>1. \/ f[i] \in Nat /\ f[i] >= 1 /\ f[i] <= nmsg
        \/ i - Len(e) \in 1..n /\ f[i] = nmsg + (i - Len(e))
    BY <1>13
  <2> QED BY <1>1, <1>6, <1>7, <2>1
<1>15. ASSUME NEW i \in DOMAIN f, NEW j \in DOMAIN f, f[i] = f[j]
       PROVE  i = j
  <2>1. i \in 1..(Len(e) + n) /\ j \in 1..(Len(e) + n)
    BY <1>11
  <2>2. /\ \/ i \in 1..Len(e) /\ f[i] = e[i] /\ f[i] \in Nat /\ f[i] >= 1 /\ f[i] <= nmsg
           \/ i - Len(e) \in 1..n /\ f[i] = nmsg + (i - Len(e))
        /\ \/ j \in 1..Len(e) /\ f[j] = e[j] /\ f[j] \in Nat /\ f[j] >= 1 /\ f[j] <= nmsg
           \/ j - Len(e) \in 1..n /\ f[j] = nmsg + (j - Len(e))
    BY <1>13, <2>1
  <2>3. CASE i \in 1..Len(e) /\ j \in 1..Len(e) /\ f[i] = e[i] /\ f[j] = e[j]
    <3>1. i \in DOMAIN EverPut(q) /\ j \in DOMAIN EverPut(q) /\ EverPut(q)[i] = EverPut(q)[j]
      BY <1>11, <1>15, <2>3 DEF e
    <3> QED BY <3>1 DEF QueueInv
  <2>4. CASE i - Len(e) \in 1..n /\ j - Len(e) \in 1..n /\ f[i] = nmsg + (i - Len(e))
             /\ f[j] = nmsg + (j - Len(e))
    <3>1. i - Len(e) = j - Len(e)
      <4> DEFINE k == i - Len(e)
                 l == j - Len(e)
      <4>1. k \in Int /\ l \in Int
        BY <1>6, <2>4
      <4>2. nmsg + k = nmsg + l
        BY <1>15, <2>4
      <4> HIDE DEF k, l
      <4>3. k = l
        BY <1>1, <4>1, <4>2
      <4> QED BY <4>3 DEF k, l
    <3> QED BY <1>7, <2>1, <3>1
  <2>5. ~(f[i] <= nmsg /\ j - Len(e) \in 1..n /\ f[j] = nmsg + (j - Len(e)))
    BY <1>1, <1>6, <1>15
  <2>6. ~(f[j] <= nmsg /\ i - Len(e) \in 1..n /\ f[i] = nmsg + (i - Len(e)))
    BY <1>1, <1>6, <1>15
  <2> QED BY <2>2, <2>3, <2>4, <2>5, <2>6
<1>16. ASSUME NEW p \in CQ \ {q}, NEW i \in DOMAIN EverPut(p), NEW j \in DOMAIN f
       PROVE  EverPut(p)[i] # f[j]
  <2>1. j \in 1..(Len(e) + n)
    BY <1>11
  <2>2. CASE j \in 1..Len(e) /\ f[j] = e[j]
    <3>1. j \in DOMAIN EverPut(q) /\ f[j] = EverPut(q)[j] /\ p \in CQ /\ p # q
      BY <1>11, <2>2 DEF e
    <3> QED BY <3>1 DEF QueueInv
  <2>3. CASE j - Len(e) \in 1..n /\ f[j] = nmsg + (j - Len(e))
    <3>1. EverPut(p)[i] \in Nat /\ EverPut(p)[i] <= nmsg
      BY <1>12
    <3> QED BY <1>1, <1>6, <2>3, <3>1
  <2> QED BY <1>13, <2>1, <2>2, <2>3
<1>17. IsInjective(f)
  BY <1>15 DEF IsInjective
<1>18. \A p \in CQ \ {q} : ToSet(EverPut(p)) \cap ToSet(f) = {}
  BY <1>16 DEF ToSet
<1>19. IsStrictPrefix(e, f)
  <2>1. \A i \in 1..Len(e) : f[i] \in Ids /\ e[i] \in Ids
    <3>1. \A i \in 1..Len(e) : e[i] \in Ids
      BY <1>3
    <3> QED BY <1>8, <3>1
  <2>2. SubSeq(f, 1, Len(e)) = SubSeq(e, 1, Len(e))
    <3>1. /\ SubSeq(f, 1, Len(e)) \in Seq(Ids)
          /\ Len(SubSeq(f, 1, Len(e))) = IF 1 <= Len(e) THEN Len(e) - 1 + 1 ELSE 0
          /\ \A i \in 1..(Len(e) - 1 + 1) : SubSeq(f, 1, Len(e))[i] = f[1 + i - 1]
      BY <1>7, <2>1, SubSeqProperties
    <3>2. SubSeq(e, 1, Len(e)) = e
      BY <1>3, SubSeqFull
    <3>3. Len(SubSeq(f, 1, Len(e))) = Len(e)
      BY <1>7, <3>1
    <3>4. \A i \in 1..Len(e) : SubSeq(f, 1, Len(e))[i] = e[i]
      <4>1. \A i \in 1..Len(e) : i \in 1..(Len(e) - 1 + 1) /\ 1 + i - 1 = i
        BY <1>7
      <4> QED BY <1>8, <3>1, <4>1
    <3>5. SubSeq(f, 1, Len(e)) = e
      BY <1>3, <3>1, <3>3, <3>4, SeqEqual
    <3> QED BY <3>2, <3>5
  <2>3. Len(e) <= Len(f) /\ e # f
    BY <1>6, <1>7
  <2> QED BY <2>2, <2>3 DEF IsStrictPrefix, IsPrefix
<1>20. QueueInv'
  <2>1. /\ upcoming_queue' \in [CQ -> Seq(Messages)] /\ ready_queue' \in [CQ -> Seq(Messages)]
        /\ taken' \in [CQ -> Seq(Ids)] /\ nmsg' \in 0..scenario'.msgs
    BY <1>1 DEF Puts, QueueInv
  <2>2. Queued(q)' # <<>>
    <3>1. Len(Queued(q) \o b) > 0
      BY <1>4, <1>6
    <3>2. Queued(q) \o b # <<>>
      BY <3>1
    <3> QED BY <1>1, <3>2
  <2>3. {p \in CQ : Queued(p)' # <<>>} = {p \in CQ : Queued(p) # <<>>} \cup {q}
    <3>1. \A p \in CQ : Queued(p)' # <<>> <=> Queued(p) # <<>> \/ p = q
      BY <1>1, <2>2
    <3> QED BY <3>1
  <2>4. /\ pending_queues \in Seq(CQ) /\ IsInjective(pending_queues)
        /\ ToSet(pending_queues) = {p \in CQ : Queued(p) # <<>>}
    BY DEF QueueInv
  <2>5. /\ pending_queues' \in Seq(CQ) /\ IsInjective(pending_queues')
        /\ ToSet(pending_queues') = ToSet(pending_queues) \cup {q}
    <3>1. CASE Queued(q) # <<>>
      <4>1. pending_queues' = pending_queues
        BY <3>1 DEF Puts
      <4>2. q \in ToSet(pending_queues)
        BY <2>4, <3>1
      <4>3. ToSet(pending_queues) \cup {q} = ToSet(pending_queues)
        BY <4>2
      <4> QED BY <2>4, <4>1, <4>3
    <3>2. CASE Queued(q) = <<>>
      <4>1. pending_queues' = Append(pending_queues, q)
        BY <3>2 DEF Puts
      <4>2. q \notin ToSet(pending_queues)
        BY <2>4, <3>2
      <4> DEFINE l == Len(pending_queues)
      <4>3. /\ pending_queues' \in Seq(CQ) /\ DOMAIN pending_queues' = 1..(l + 1)
            /\ DOMAIN pending_queues = 1..l /\ l \in Nat
            /\ pending_queues'[l + 1] = q
            /\ \A i \in 1..l : pending_queues'[i] = pending_queues[i]
        BY <2>4, <4>1
      <4> HIDE DEF l
      <4>4. \A i \in 1..l : pending_queues[i] # q
        BY <4>2, <4>3 DEF ToSet
      <4>5. ASSUME NEW i \in 1..(l + 1), NEW j \in 1..(l + 1),
                   pending_queues'[i] = pending_queues'[j]
            PROVE  i = j
        <5>1. \A k, m \in 1..l : pending_queues[k] = pending_queues[m] => k = m
          BY <2>4, <4>3 DEF IsInjective
        <5>2. (i \in 1..l \/ i = l + 1) /\ (j \in 1..l \/ j = l + 1)
          BY <4>3
        <5> QED BY <4>3, <4>4, <4>5, <5>1, <5>2
      <4>6. ToSet(pending_queues') = ToSet(pending_queues) \cup {q}
        <5>1. 1..(l + 1) = 1..l \cup {l + 1}
          BY <4>3
        <5> QED BY <4>3, <5>1 DEF ToSet
      <4> QED BY <4>3, <4>5, <4>6 DEF IsInjective
    <3> QED BY <3>1, <3>2
  <2>6. \A p \in CQ : \A i \in DOMAIN EverPut(p)' : EverPut(p)'[i] \in 1..nmsg'
    <3>1. ASSUME NEW p \in CQ, p # q, NEW i \in DOMAIN EverPut(p)
          PROVE  EverPut(p)[i] \in 1..nmsg'
      <4>1. EverPut(p)[i] \in Nat /\ EverPut(p)[i] >= 1 /\ EverPut(p)[i] <= nmsg
        BY <1>12
      <4> QED BY <1>1, <1>6, <4>1
    <3> QED BY <1>10, <1>14, <3>1 DEF f
  <2>7. ASSUME NEW p \in CQ, NEW r \in CQ, NEW i \in DOMAIN EverPut(p)', NEW j \in DOMAIN EverPut(r)',
               EverPut(p)'[i] = EverPut(r)'[j]
        PROVE  p = r /\ i = j
    <3>1. CASE p = q /\ r = q
      BY <1>15, <2>7, <3>1 DEF f
    <3>2. CASE p # q /\ r = q
      BY <1>10, <1>16, <2>7, <3>2 DEF f
    <3>3. CASE p = q /\ r # q
      <4>1. EverPut(r)' = EverPut(r) /\ r \in CQ \ {q}
        BY <1>10, <3>3
      <4>2. EverPut(r)[j] # f[i]
        BY <1>16, <3>3, <4>1 DEF f
      <4> QED BY <2>7, <3>3, <4>1, <4>2 DEF f
    <3>4. CASE p # q /\ r # q
      BY <1>10, <2>7, <3>4 DEF QueueInv
    <3> QED BY <3>1, <3>2, <3>3, <3>4
  <2> QED BY <2>1, <2>3, <2>4, <2>5, <2>6, <2>7 DEF QueueInv
<1> QED BY <1>10, <1>17, <1>18, <1>19, <1>20 DEF e, f

(* What has left its upcoming_queue, or may now. *)
Ripe(p, m) ==
    \/ \E j \in DOMAIN ready_queue[p] : m = ready_queue[p][j]
    \/ \E j \in DOMAIN upcoming_queue[p] : m = upcoming_queue[p][j] /\ ~Stalls(m)

LEMMA RipeFacts ==
  ASSUME QueueInv, NEW q \in CQ
  PROVE  /\ \A i \in DOMAIN ready1[q] : Ripe(q, ready1[q][i])
         /\ \A i \in DOMAIN upcoming1[q] : \E j \in DOMAIN upcoming_queue[q] :
              upcoming1[q][i] = upcoming_queue[q][j]
<1> HIDE DEF ready1, upcoming1, Movable, Stalls
<1>1. /\ ready1[q] \in Seq(Messages) /\ upcoming1[q] \in Seq(Messages)
      /\ Len(upcoming1[q]) = Len(upcoming_queue[q]) - Movable(q)
      /\ \A i \in 1..Len(upcoming1[q]) :
           upcoming1[q][i] = upcoming_queue[q][Movable(q) + i]
      /\ \A i \in 1..Len(ready1[q]) :
           \/ i \in 1..Len(ready_queue[q]) /\ ready1[q][i] = ready_queue[q][i]
           \/ \E j \in 1..Movable(q) : ready1[q][i] = upcoming_queue[q][j]
  BY MovedFacts
<1>2. /\ Movable(q) \in 0..Len(upcoming_queue[q])
      /\ \A i \in 1..Movable(q) : ~Stalls(upcoming_queue[q][i])
  BY MovableFacts
<1>3. /\ DOMAIN ready_queue[q] = 1..Len(ready_queue[q])
      /\ DOMAIN upcoming_queue[q] = 1..Len(upcoming_queue[q]) /\ Len(upcoming_queue[q]) \in Nat
      /\ DOMAIN ready1[q] = 1..Len(ready1[q]) /\ DOMAIN upcoming1[q] = 1..Len(upcoming1[q])
  <2>1. ready_queue[q] \in Seq(Messages) /\ upcoming_queue[q] \in Seq(Messages)
    BY QueuedFacts
  <2> QED BY <1>1, <2>1
<1>4. ASSUME NEW i \in DOMAIN ready1[q] PROVE Ripe(q, ready1[q][i])
  <2>1. CASE i \in 1..Len(ready_queue[q]) /\ ready1[q][i] = ready_queue[q][i]
    BY <1>3, <2>1 DEF Ripe
  <2>2. CASE \E j \in 1..Movable(q) : ready1[q][i] = upcoming_queue[q][j]
    <3>1. PICK j \in 1..Movable(q) : ready1[q][i] = upcoming_queue[q][j]
      BY <2>2
    <3>2. j \in DOMAIN upcoming_queue[q]
      BY <1>2, <1>3
    <3>3. ~Stalls(upcoming_queue[q][j])
      BY <1>2
    <3> QED BY <3>1, <3>2, <3>3 DEF Ripe
  <2> QED BY <1>1, <1>3, <2>1, <2>2
<1>5. ASSUME NEW i \in DOMAIN upcoming1[q]
      PROVE  \E j \in DOMAIN upcoming_queue[q] : upcoming1[q][i] = upcoming_queue[q][j]
  <2>1. Movable(q) + i \in DOMAIN upcoming_queue[q] /\ i \in 1..Len(upcoming1[q])
    BY <1>1, <1>2, <1>3
  <2> QED BY <1>1, <2>1
<1> QED BY <1>4, <1>5

(* The first message of a queue goes into the block. *)
Takes(q) ==
    LET m == Head(Queued(q)) IN
    /\ bg = "command" /\ Queued(q) # <<>> /\ m \in Messages
    /\ upcoming_queue' \in [CQ -> Seq(Messages)] /\ ready_queue' \in [CQ -> Seq(Messages)]
    /\ Queued(q)' = Tail(Queued(q))
    /\ \A p \in CQ \ {q} : Queued(p)' = Queued(p)
    /\ Ripe(q, m)
    /\ \A p \in CQ : \A i \in DOMAIN ready_queue'[p] : Ripe(p, ready_queue'[p][i])
    /\ \A p \in CQ : \A i \in DOMAIN upcoming_queue'[p] : \E j \in DOMAIN upcoming_queue[p] :
         upcoming_queue'[p][i] = upcoming_queue[p][j]
    /\ block' = Append(block, <<q, m>>)
    /\ taken' = [taken EXCEPT ![q] = Append(@, m.id)]
    /\ pending_queues' = Unlisted(q)
    /\ notify_queue' = Notifying(m) /\ asked' = Asked(m)
    /\ UNCHANGED <<now, clock_adj, est_freq, need_kick_clock, pending, send_seq, receive_seq,
                   line_busy, bg, command_time, poll_until, revents, must_exit, pipe, sender,
                   puller, receive_waiting, receive_queue, handled, completed, main,
                   pending_notifications, executed, m2h, source, early, nmsg, nresp, scenario>>

(* One queue loses its head, the others keep what they have. *)
HeadLost(rq, q) ==
    /\ Queued(q) # <<>> /\ Head(rq[q]) = Head(Queued(q)) /\ Head(rq[q]) \in Messages
    /\ ready_queue' \in [CQ -> Seq(Messages)]
    /\ Queued(q)' = Tail(Queued(q))
    /\ \A p \in CQ \ {q} : Queued(p)' = Queued(p)
    /\ \E i \in DOMAIN rq[q] : Head(rq[q]) = rq[q][i]
    /\ \A p \in CQ : \A i \in DOMAIN ready_queue'[p] : \E j \in DOMAIN rq[p] :
         ready_queue'[p][i] = rq[p][j]

LEMMA HeadGoes ==
  ASSUME QueueInv, NEW rq, NEW uq, NEW q \in CQ,
         rq \in [CQ -> Seq(Messages)], uq \in [CQ -> Seq(Messages)], rq[q] # <<>>,
         \A p \in CQ : rq[p] \o uq[p] = Queued(p),
         ready_queue' = Off(rq, q), upcoming_queue' = uq
  PROVE  HeadLost(rq, q)
<1>1. /\ rq[q] \in Seq(Messages) /\ uq[q] \in Seq(Messages) /\ Tail(rq[q]) \in Seq(Messages)
      /\ Head(rq[q]) \in Messages
  OBVIOUS
<1>2. /\ ready_queue' = [rq EXCEPT ![q] = Tail(rq[q])] /\ ready_queue'[q] = Tail(rq[q])
      /\ \A p \in CQ \ {q} : ready_queue'[p] = rq[p]
      /\ ready_queue' \in [CQ -> Seq(Messages)]
  <2>1. ready_queue' = [rq EXCEPT ![q] = Tail(rq[q])]
    BY DEF Off
  <2> QED BY <1>1, <2>1
<1>3. Queued(q)' = Tail(rq[q]) \o uq[q]
  BY <1>2 DEF Queued
<1>4. /\ Queued(q) # <<>> /\ Head(rq[q]) = Head(Queued(q)) /\ Tail(Queued(q)) = Tail(rq[q]) \o uq[q]
  <2>1. /\ rq[q] \o uq[q] # <<>> /\ Head(rq[q] \o uq[q]) = Head(rq[q])
        /\ Tail(rq[q] \o uq[q]) = Tail(rq[q]) \o uq[q]
    BY <1>1, TailOfConcat
  <2> QED BY <2>1
<1>5. ASSUME NEW p \in CQ \ {q} PROVE Queued(p)' = Queued(p)
  <2>1. Queued(p)' = rq[p] \o uq[p]
    BY <1>2 DEF Queued
  <2> QED BY <2>1
<1>6. \E i \in DOMAIN rq[q] : Head(rq[q]) = rq[q][i]
  <2>1. 1 \in DOMAIN rq[q] /\ Head(rq[q]) = rq[q][1]
    BY <1>1
  <2> QED BY <2>1
<1>7. ASSUME NEW p \in CQ, NEW i \in DOMAIN ready_queue'[p]
      PROVE  \E j \in DOMAIN rq[p] : ready_queue'[p][i] = rq[p][j]
  <2>1. CASE p = q
    <3> DEFINE r == rq[q]
    <3>1. r \in Seq(Messages) /\ Tail(r) \in Seq(Messages) /\ Len(Tail(r)) = Len(r) - 1
          /\ \A k \in 1..Len(Tail(r)) : Tail(r)[k] = r[k + 1]
      BY <1>1, HeadTailProperties
    <3> HIDE DEF r
    <3>2. i \in DOMAIN Tail(r) /\ ready_queue'[p] = Tail(r)
      BY <1>2, <2>1 DEF r
    <3>3. i \in 1..Len(Tail(r)) /\ i + 1 \in DOMAIN r
      BY <3>1, <3>2
    <3>4. ready_queue'[p][i] = r[i + 1]
      BY <3>1, <3>2, <3>3
    <3> QED BY <2>1, <3>3, <3>4 DEF r
  <2>2. CASE p # q
    BY <1>2, <2>2
  <2> QED BY <2>1, <2>2
<1> QED BY <1>1, <1>2, <1>3, <1>4, <1>5, <1>6, <1>7 DEF HeadLost

LEMMA Taking ==
  ASSUME TimesInv, QueueInv, LinkInv, CommandStart \/ CommandAppend
  PROVE  \E q \in CQ : Takes(q)
<1>0. pending \in Nat /\ block \in Seq(CQ \X Messages)
  BY DEF LinkInv
<1> HIDE DEF ready1, upcoming1, Earliest, SendNow, ReadyCount, Ripe, Asked, Notifying, Unlisted, Off
<1>1. CASE CommandStart
  <2> DEFINE q == Earliest(ready1)
             m == Head(ready1[q])
  <2>1. q \in CQ /\ ready1[q] # <<>>
    BY <1>0, <1>1, EarliestReady DEF CommandStart
  <2>2. /\ bg = "command" /\ block = <<>>
        /\ block' = <<<<q, m>>>> /\ upcoming_queue' = upcoming1
        /\ ready_queue' = Off(ready1, q) /\ pending_queues' = Unlisted(q)
        /\ notify_queue' = Notifying(m) /\ asked' = Asked(m)
        /\ taken' = [taken EXCEPT ![q] = Append(@, m.id)]
        /\ UNCHANGED <<now, clock_adj, est_freq, need_kick_clock, pending, send_seq, receive_seq,
                       line_busy, bg, command_time, poll_until, revents, must_exit, pipe, sender,
                       puller, receive_waiting, receive_queue, handled, completed, main,
                       pending_notifications, executed, m2h, source, early, nmsg, nresp, scenario>>
    BY <1>1 DEF CommandStart, clockVars, threadVars, pullVars, serialhdl, mcuVars, countVars
  <2> HIDE DEF q, m
  <2>3. ready1 \in [CQ -> Seq(Messages)] /\ upcoming1 \in [CQ -> Seq(Messages)]
    <3>1. \A p \in CQ : ready1[p] \in Seq(Messages) /\ upcoming1[p] \in Seq(Messages)
      BY MovedFacts
    <3>2. ready1 = [p \in CQ |-> ready1[p]] /\ upcoming1 = [p \in CQ |-> upcoming1[p]]
      BY DEF ready1, upcoming1
    <3> QED BY <3>1, <3>2
  <2>4. \A p \in CQ : ready1[p] \o upcoming1[p] = Queued(p)
    BY MovedFacts
  <2>5. /\ Queued(q) # <<>> /\ Head(ready1[q]) = Head(Queued(q)) /\ Head(ready1[q]) \in Messages
        /\ ready_queue' \in [CQ -> Seq(Messages)]
        /\ Queued(q)' = Tail(Queued(q))
        /\ \A p \in CQ \ {q} : Queued(p)' = Queued(p)
        /\ \E i \in DOMAIN ready1[q] : Head(ready1[q]) = ready1[q][i]
        /\ \A p \in CQ : \A i \in DOMAIN ready_queue'[p] : \E j \in DOMAIN ready1[p] :
             ready_queue'[p][i] = ready1[p][j]
    <3>1. ready_queue' = Off(ready1, q) /\ upcoming_queue' = upcoming1
      BY <2>2
    <3>2. HeadLost(ready1, q)
      BY <2>1, <2>3, <2>4, <3>1, HeadGoes
    <3> QED BY <3>2 DEF HeadLost
  <2>6. m = Head(Queued(q)) /\ m \in Messages /\ Ripe(q, m)
    <3>1. m = Head(ready1[q])
      BY DEF m
    <3>2. \A i \in DOMAIN ready1[q] : Ripe(q, ready1[q][i])
      BY <2>1, RipeFacts
    <3> QED BY <2>5, <3>1, <3>2
  <2>7. \A p \in CQ : \A i \in DOMAIN ready_queue'[p] : Ripe(p, ready_queue'[p][i])
    <3>1. \A p \in CQ : \A j \in DOMAIN ready1[p] : Ripe(p, ready1[p][j])
      BY RipeFacts
    <3> QED BY <2>5, <3>1
  <2>8. \A p \in CQ : \A i \in DOMAIN upcoming_queue'[p] : \E j \in DOMAIN upcoming_queue[p] :
          upcoming_queue'[p][i] = upcoming_queue[p][j]
    BY <2>2, RipeFacts
  <2>9. block' = Append(block, <<q, m>>)
    BY <2>2
  <2>10. Takes(q)
    BY <2>2, <2>3, <2>5, <2>6, <2>7, <2>8, <2>9 DEF Takes
  <2> QED BY <2>1, <2>10
<1>2. CASE CommandAppend
  <2> DEFINE q == Earliest(ready_queue)
             m == Head(ready_queue[q])
  <2>1. q \in CQ /\ ready_queue[q] # <<>>
    BY <1>2, EarliestQueued DEF CommandAppend, append_message
  <2>2. /\ bg = "command" /\ block' = Append(block, <<q, m>>)
        /\ ready_queue' = Off(ready_queue, q) /\ pending_queues' = Unlisted(q)
        /\ notify_queue' = Notifying(m)
        /\ UNCHANGED <<now, clock_adj, est_freq, need_kick_clock, pending, send_seq, receive_seq,
                       line_busy, bg, command_time, poll_until, revents, must_exit, pipe, sender,
                       puller, receive_waiting, receive_queue, handled, completed, main,
                       pending_notifications, executed, m2h, source, early, nmsg, nresp, scenario,
                       upcoming_queue>>
    BY <1>2 DEF CommandAppend, append_message, clockVars, threadVars, pullVars, serialhdl,
                mcuVars, countVars
  <2> HIDE DEF q, m
  <2>3. ready_queue \in [CQ -> Seq(Messages)] /\ upcoming_queue \in [CQ -> Seq(Messages)]
    BY DEF QueueInv
  <2>4. \A p \in CQ : ready_queue[p] \o upcoming_queue[p] = Queued(p)
    BY DEF Queued
  <2>5. /\ Queued(q) # <<>> /\ Head(ready_queue[q]) = Head(Queued(q))
        /\ Head(ready_queue[q]) \in Messages
        /\ ready_queue' \in [CQ -> Seq(Messages)]
        /\ Queued(q)' = Tail(Queued(q))
        /\ \A p \in CQ \ {q} : Queued(p)' = Queued(p)
        /\ \E i \in DOMAIN ready_queue[q] : Head(ready_queue[q]) = ready_queue[q][i]
        /\ \A p \in CQ : \A i \in DOMAIN ready_queue'[p] : \E j \in DOMAIN ready_queue[p] :
             ready_queue'[p][i] = ready_queue[p][j]
    <3>1. ready_queue' = Off(ready_queue, q) /\ upcoming_queue' = upcoming_queue
      BY <2>2
    <3>2. HeadLost(ready_queue, q)
      BY <2>1, <2>3, <2>4, <3>1, HeadGoes
    <3> QED BY <3>2 DEF HeadLost
  <2>6. m = Head(Queued(q)) /\ m \in Messages /\ Ripe(q, m)
    <3>1. m = Head(ready_queue[q])
      BY DEF m
    <3> QED BY <2>5, <3>1 DEF Ripe
  <2>7. \A p \in CQ : \A i \in DOMAIN ready_queue'[p] : Ripe(p, ready_queue'[p][i])
    BY <2>5 DEF Ripe
  <2>8. \A p \in CQ : \A i \in DOMAIN upcoming_queue'[p] : \E j \in DOMAIN upcoming_queue[p] :
          upcoming_queue'[p][i] = upcoming_queue[p][j]
    BY <2>2
  <2>9. Last(block') = <<q, m>>
    <3>1. <<q, m>> \in CQ \X Messages
      BY <2>1, <2>6
    <3>2. Len(Append(block, <<q, m>>)) = Len(block) + 1
          /\ Append(block, <<q, m>>)[Len(block) + 1] = <<q, m>>
      BY <1>0, <3>1
    <3> QED BY <2>2, <3>2 DEF Last
  <2>10. taken' = [taken EXCEPT ![q] = Append(@, m.id)] /\ asked' = Asked(m)
    <3>1. LET new == Last(block') IN
          /\ taken' = [taken EXCEPT ![new[1]] = Append(@, new[2].id)]
          /\ asked' = Asked(new[2])
      BY <1>2 DEF CommandAppend
    <3> QED BY <2>9, <3>1
  <2>11. Takes(q)
    BY <2>2, <2>3, <2>5, <2>6, <2>7, <2>8, <2>10 DEF Takes
  <2> QED BY <2>1, <2>11
<1> QED BY <1>1, <1>2

(* The steps that leave the command queues alone. *)
LEMMA QueueAlone ==
  ASSUME QueueInv, UNCHANGED <<upcoming_queue, ready_queue, pending_queues, taken, nmsg, scenario>>
  PROVE  /\ QueueInv'
         /\ \A q \in CQ : EverPut(q)' = EverPut(q) /\ Queued(q)' = Queued(q)
<1>1. \A q \in CQ : EverPut(q)' = EverPut(q) /\ Queued(q)' = Queued(q)
  BY DEF EverPut, Queued
<1>2. IsInjective(pending_queues')
  BY DEF QueueInv
<1>3. ToSet(pending_queues') = {q \in CQ : Queued(q)' # <<>>}
  <2>1. ToSet(pending_queues') = {q \in CQ : Queued(q) # <<>>}
    BY DEF QueueInv
  <2> HIDE DEF Queued
  <2> QED BY <1>1, <2>1
<1> HIDE DEF EverPut, Queued
<1>4. \A p \in CQ : \A i \in DOMAIN EverPut(p)' : EverPut(p)'[i] \in 1..nmsg'
  BY <1>1 DEF QueueInv
<1>5. \A p, q \in CQ : \A i \in DOMAIN EverPut(p)', j \in DOMAIN EverPut(q)' :
        EverPut(p)'[i] = EverPut(q)'[j] => p = q /\ i = j
  BY <1>1 DEF QueueInv
<1> QED BY <1>1, <1>2, <1>3, <1>4, <1>5 DEF QueueInv

\* Messages only become ready.
LEMMA MoveAlone ==
  ASSUME QueueInv, upcoming_queue' = upcoming1, ready_queue' = ready1,
         UNCHANGED <<pending_queues, taken, nmsg, scenario>>
  PROVE  /\ QueueInv'
         /\ \A q \in CQ : EverPut(q)' = EverPut(q) /\ Queued(q)' = Queued(q)
<1> HIDE DEF ready1, upcoming1
<1>0. ready1 \in [CQ -> Seq(Messages)] /\ upcoming1 \in [CQ -> Seq(Messages)]
  <2>1. \A p \in CQ : ready1[p] \in Seq(Messages) /\ upcoming1[p] \in Seq(Messages)
    BY MovedFacts
  <2>2. ready1 = [p \in CQ |-> ready1[p]] /\ upcoming1 = [p \in CQ |-> upcoming1[p]]
    BY DEF ready1, upcoming1
  <2> QED BY <2>1, <2>2
<1>1. \A q \in CQ : EverPut(q)' = EverPut(q) /\ Queued(q)' = Queued(q)
  <2>1. \A q \in CQ : ready1[q] \o upcoming1[q] = Queued(q)
    BY MovedFacts
  <2>2. \A q \in CQ : Queued(q)' = Queued(q)
    BY <2>1 DEF Queued
  <2> QED BY <2>2 DEF EverPut
<1>2. IsInjective(pending_queues')
  BY DEF QueueInv
<1>3. ToSet(pending_queues') = {q \in CQ : Queued(q)' # <<>>}
  <2>1. ToSet(pending_queues') = {q \in CQ : Queued(q) # <<>>}
    BY DEF QueueInv
  <2> HIDE DEF Queued
  <2> QED BY <1>1, <2>1
<1> HIDE DEF EverPut, Queued
<1>4. \A p \in CQ : \A i \in DOMAIN EverPut(p)' : EverPut(p)'[i] \in 1..nmsg'
  BY <1>1 DEF QueueInv
<1>5. \A p, q \in CQ : \A i \in DOMAIN EverPut(p)', j \in DOMAIN EverPut(q)' :
        EverPut(p)'[i] = EverPut(q)'[j] => p = q /\ i = j
  BY <1>1 DEF QueueInv
<1> QED BY <1>0, <1>1, <1>2, <1>3, <1>4, <1>5 DEF QueueInv

LEMMA QueueKept ==
  ASSUME TimesInv, QueueInv, LinkInv, Next
  PROVE  QueueInv'
<1> USE DEF clockVars, threadVars, countVars, allQueues, queueVars, blockVars, mcuVars
<1>1. ASSUME NEW s \in Senders, SendBatch(s)
      PROVE  QueueInv'
  BY <1>1, Putting, PutKeeps
<1>2. CASE CommandStart \/ CommandAppend
  <2>1. PICK q \in CQ : Takes(q)
    BY <1>2, Taking
  <2> QED BY <2>1, TakeKeeps DEF Takes
<1>3. CASE CommandWait
  <2>1. UNCHANGED <<pending_queues, taken, nmsg, scenario>>
    BY <1>3 DEF CommandWait
  <2>2. \/ UNCHANGED <<upcoming_queue, ready_queue>>
        \/ upcoming_queue' = upcoming1 /\ ready_queue' = ready1
    BY <1>3 DEF CommandWait
  <2>3. CASE UNCHANGED <<upcoming_queue, ready_queue>>
    BY <2>1, <2>3, QueueAlone
  <2>4. CASE upcoming_queue' = upcoming1 /\ ready_queue' = ready1
    BY <2>1, <2>4, MoveAlone
  <2> QED BY <2>2, <2>3, <2>4
<1>4. ASSUME \/ \E s \in Senders : Kick(s)
             \/ SetClockEst \/ CheckTimers \/ CommandFinish \/ Poll \/ InputEvent
             \/ InputError \/ KickEvent \/ Leave \/ Pull \/ SpuriousWakeup
             \/ DoExit \/ ExitKick \/ Join \/ CompletePending \/ McuExecute \/ McuReport \/ Tick
      PROVE  QueueInv'
  <2>1. UNCHANGED <<upcoming_queue, ready_queue, pending_queues, taken, nmsg, scenario>>
    BY <1>4 DEF Kick, SetClockEst, CheckTimers, CommandFinish, finish_block, Poll, InputEvent,
         InputError, KickEvent, Leave, Pull, SpuriousWakeup, DoExit, ExitKick, Join,
         CompletePending, McuExecute, McuReport, Tick
  <2> QED BY <2>1, QueueAlone
<1> QED BY <1>1, <1>2, <1>3, <1>4 DEF Next, Background, Disconnect

-----------------------------------------------------------------------------
(* Notifications *)

(* In an ascending sequence the elements up to w are the first ones. *)
LEMMA PrefixCount ==
  ASSUME NEW n \in Nat, NEW f, \A i \in 1..n : f[i] \in Int, NEW w \in Int,
         \A i, j \in 1..n : i <= j => f[i] <= f[j]
  PROVE  LET k == Cardinality({i \in 1..n : f[i] <= w}) IN
         k \in 0..n /\ \A i \in 1..n : f[i] <= w <=> i <= k
<1> DEFINE T == {i \in 1..n : f[i] <= w}
<1>1. CASE T = {}
  <2>1. Cardinality(T) = 0
    BY <1>1, FS_EmptySet
  <2>2. \A i \in 1..n : ~(f[i] <= w)
    BY <1>1
  <2> QED BY <2>1, <2>2
<1>2. CASE T # {}
  <2> DEFINE m == Max(T)
  <2>1. T \in SUBSET (0..n)
    OBVIOUS
  <2>2. m \in T /\ \A y \in T : m >= y
    <3> HIDE DEF T
    <3> QED BY <1>2, <2>1, MaxUpTo
  <2>3. m \in 1..n /\ f[m] <= w
    <3> HIDE DEF m
    <3> QED BY <2>2
  <2>4. \A i \in 1..n : f[i] <= w => i <= m
    <3> HIDE DEF m
    <3> QED BY <2>2, <2>3
  <2>5. \A i \in 1..n : i <= m => f[i] <= w
    <3> HIDE DEF m
    <3> SUFFICES ASSUME NEW i \in 1..n, i <= m PROVE f[i] <= w
      OBVIOUS
    <3>1. f[i] <= f[m] /\ f[i] \in Int /\ f[m] \in Int
      BY <2>3
    <3> QED BY <2>3, <3>1
  <2> HIDE DEF m
  <2>6. T = 1..m
    BY <2>3, <2>4, <2>5
  <2>7. Cardinality(1..m) = m
    BY <2>3, FS_Interval
  <2>8. m \in 0..n /\ \A i \in 1..n : f[i] <= w <=> i <= m
    BY <2>3, <2>4, <2>5
  <2>9. Cardinality(T) = m
    <3> HIDE DEF T
    <3> QED BY <2>6, <2>7
  <2> HIDE DEF m
  <2>10. Cardinality(T) \in 0..n /\ \A i \in 1..n : f[i] <= w <=> i <= Cardinality(T)
    <3> HIDE DEF T
    <3> QED BY <2>8, <2>9
  <2> QED BY <2>10
<1> QED BY <1>1, <1>2

Tokens == [id : Ids, seq : Nat]

(* What the frame in front does: the first k notifications become entries of
   receive_queue, and the response follows if there is one. *)
Input(k, d) ==
    LET f == Head(m2h)
        n == Len(notify_queue)
        l == Len(receive_queue) IN
    /\ f \in Frames /\ k \in 0..n /\ d \in {0, 1} /\ (d = 1 <=> f.data # 0)
    /\ \A i \in 1..n : Wakes(notify_queue[i].seq, f) <=> i <= k
    /\ early' = IF Wraps(f) THEN early \cup {notify_queue[i].id : i \in 1..k} ELSE early
    /\ notify_queue' \in Seq(Tokens) /\ Len(notify_queue') = n - k
    /\ \A i \in 1..(n - k) : notify_queue'[i] = notify_queue[k + i]
    /\ receive_queue' \in Seq(Received) /\ Len(receive_queue') = l + k + d
    /\ \A i \in 1..l : receive_queue'[i] = receive_queue[i]
    /\ \A i \in 1..k : receive_queue'[l + i] = [kind |-> "notify", id |-> notify_queue[i].id]
    /\ d = 1 => receive_queue'[l + k + 1] = [kind |-> "data", id |-> f.data]
    /\ m2h' = Tail(m2h) /\ receive_seq' = f.rseq

LEMMA FrontFrame ==
  ASSUME LinkInv, bg = "input"
  PROVE  Head(m2h) \in Frames /\ m2h \in Seq(Frames) /\ m2h # <<>> /\ wake_seq(Head(m2h)) \in Int
<1>1. Head(m2h) \in Frames /\ m2h \in Seq(Frames) /\ m2h # <<>>
  <2>1. m2h \in Seq(Frames) /\ m2h # <<>>
    BY DEF LinkInv
  <2> QED BY <2>1
<1>2. Head(m2h).rseq \in Nat
  BY <1>1 DEF Frames
<1> QED BY <1>1, <1>2 DEF wake_seq

LEMMA Inputting ==
  ASSUME LinkInv, TokenInv, HandledInv, InputEvent
  PROVE  \E k, d \in Nat : Input(k, d)
<1> DEFINE f == Head(m2h)
           w == wake_seq(f)
           nq == notify_queue
           n == Len(nq)
           l == Len(receive_queue)
           k == Cardinality({i \in DOMAIN nq : Wakes(nq[i].seq, f)})
           a == [i \in 1..k |-> [kind |-> "notify", id |-> nq[i].id]]
           c == IF f.data = 0 THEN <<>> ELSE <<[kind |-> "data", id |-> f.data]>>
           d == IF f.data = 0 THEN 0 ELSE 1
<1>1. /\ nq' = SubSeq(nq, k + 1, n) /\ receive_queue' = receive_queue \o (a \o c)
      /\ m2h' = Tail(m2h) /\ receive_seq' = f.rseq
  BY DEF InputEvent
<1>2. f \in Frames /\ f.data \in Nat /\ w \in Int
  <2>1. f \in Frames /\ w \in Int
    BY FrontFrame DEF InputEvent
  <2> QED BY <2>1 DEF Frames
<1>3. /\ nq \in Seq(Tokens) /\ DOMAIN nq = 1..n /\ n \in Nat
      /\ receive_queue \in Seq(Received) /\ l \in Nat
  <2>1. nq \in Seq(Tokens) /\ receive_queue \in Seq(Received)
    BY DEF TokenInv, Tokens
  <2> QED BY <2>1
<1>4. \A i \in 1..n : nq[i] \in Tokens /\ nq[i].seq \in Nat /\ nq[i].id \in Ids
  <2>1. \A i \in 1..n : nq[i] \in Tokens
    BY <1>3
  <2> QED BY <2>1 DEF Tokens
<1>5. \A i, j \in 1..n : i <= j => nq[i].seq <= nq[j].seq
  BY <1>3 DEF HandledInv
<1>0. /\ early' = IF Wraps(f) THEN early \cup {nq[i].id : i \in 1..k} ELSE early
      /\ \A x : Wakes(x, f) <=> Wraps(f) \/ x <= w
  BY DEF InputEvent, Wakes
<1> HIDE DEF f, w, nq
<1>6. k \in 0..n /\ \A i \in 1..n : Wakes(nq[i].seq, f) <=> i <= k
  <2>5. CASE Wraps(f)
    <3> HIDE DEF n
    <3>1. {i \in DOMAIN nq : Wakes(nq[i].seq, f)} = 1..n
      BY <1>0, <1>3, <2>5
    <3>2. Cardinality(1..n) = n
      <4>1. 1 \in Int /\ n \in Int
        BY <1>3
      <4>2. Cardinality(1..n) = IF 1 > n THEN 0 ELSE n - 1 + 1
        BY <4>1, FS_Interval, Zenon
      <4> QED BY <1>3, <4>2
    <3>3. k = n
      BY <3>1, <3>2
    <3> HIDE DEF k
    <3> QED BY <1>0, <1>3, <2>5, <3>3
  <2>6. SUFFICES ASSUME ~Wraps(f)
                 PROVE  k \in 0..n /\ \A i \in 1..n : Wakes(nq[i].seq, f) <=> i <= k
    BY <2>5
  <2> DEFINE g == [i \in 1..n |-> nq[i].seq]
             T == {i \in 1..n : g[i] <= w}
  <2>1. \A i \in 1..n : g[i] = nq[i].seq /\ g[i] \in Int
    BY <1>4
  <2>2. \A i, j \in 1..n : i <= j => g[i] <= g[j]
    BY <1>5, <2>1
  <2>3. T = {i \in DOMAIN nq : Wakes(nq[i].seq, f)}
    BY <1>0, <1>3, <2>1, <2>6
  <2> HIDE DEF g, n
  <2>4. Cardinality(T) \in 0..n /\ \A i \in 1..n : g[i] <= w <=> i <= Cardinality(T)
    BY <1>2, <1>3, <2>1, <2>2, PrefixCount
  <2> HIDE DEF T
  <2> QED BY <1>0, <2>1, <2>3, <2>4, <2>6
<1> HIDE DEF k, n, l
<1>7. /\ nq' \in Seq(Tokens) /\ Len(nq') = n - k
      /\ \A i \in 1..(n - k) : nq'[i] = nq[k + i]
  <2>1. /\ SubSeq(nq, k + 1, n) \in Seq(Tokens)
        /\ Len(SubSeq(nq, k + 1, n)) = IF k + 1 <= n THEN n - (k + 1) + 1 ELSE 0
        /\ \A i \in 1..(n - (k + 1) + 1) : SubSeq(nq, k + 1, n)[i] = nq[(k + 1) + i - 1]
    <3>1. k + 1 \in Nat /\ n \in Nat /\ \A i \in (k + 1)..n : nq[i] \in Tokens
      BY <1>3, <1>4, <1>6
    <3> QED BY <3>1, SubSeqProperties
  <2>2. n - (k + 1) + 1 = n - k /\ (k + 1 <= n \/ n - k = 0)
    BY <1>3, <1>6
  <2>3. \A i \in 1..(n - k) : (k + 1) + i - 1 = k + i
    BY <1>6
  <2> QED BY <1>1, <2>1, <2>2, <2>3 DEF n
<1>8. /\ a \in Seq(Received) /\ Len(a) = k
      /\ \A i \in 1..k : a[i] = [kind |-> "notify", id |-> nq[i].id]
  <2>1. \A i \in 1..k : [kind |-> "notify", id |-> nq[i].id] \in Received
    BY <1>3, <1>4, <1>6 DEF Received
  <2>2. k \in Nat
    BY <1>6
  <2> QED BY <2>1, <2>2
<1>9. /\ c \in Seq(Received) /\ Len(c) = d /\ d \in {0, 1}
      /\ d = 1 => c[1] = [kind |-> "data", id |-> f.data]
  <2>1. [kind |-> "data", id |-> f.data] \in Received
    BY <1>2 DEF Received
  <2> QED BY <2>1
<1>10. d = 1 <=> f.data # 0
  OBVIOUS
<1> HIDE DEF a, c, d
<1>11. /\ a \o c \in Seq(Received) /\ Len(a \o c) = k + d
       /\ \A i \in 1..(k + d) : (a \o c)[i] = IF i <= k THEN a[i] ELSE c[i - k]
  <2>1. /\ a \o c \in Seq(Received) /\ Len(a \o c) = Len(a) + Len(c)
        /\ \A i \in 1..(Len(a) + Len(c)) : (a \o c)[i] = IF i <= Len(a) THEN a[i] ELSE c[i - Len(a)]
    <3>1. a \in Seq(Received) /\ c \in Seq(Received)
      BY <1>8, <1>9
    <3> QED BY <3>1, ConcatProperties, Zenon
  <2> QED BY <1>8, <1>9, <2>1
<1> DEFINE ac == a \o c
           r == receive_queue \o ac
<1>12. /\ r \in Seq(Received) /\ Len(r) = l + (k + d)
       /\ \A i \in 1..(l + (k + d)) : r[i] = IF i <= l THEN receive_queue[i] ELSE ac[i - l]
  <2>0. ac \in Seq(Received) /\ Len(ac) = k + d
    BY <1>11
  <2> HIDE DEF ac
  <2>1. /\ r \in Seq(Received) /\ Len(r) = Len(receive_queue) + Len(ac)
        /\ \A i \in 1..(Len(receive_queue) + Len(ac)) :
             r[i] = IF i <= Len(receive_queue) THEN receive_queue[i] ELSE ac[i - Len(receive_queue)]
    <3>1. receive_queue \in Seq(Received) /\ ac \in Seq(Received)
      BY <1>3, <2>0
    <3> QED BY <3>1, ConcatProperties, Zenon
  <2> QED BY <2>0, <2>1 DEF l
<1>13. receive_queue' = r /\ k \in Nat /\ d \in Nat
  BY <1>1, <1>6, <1>9
<1>14. \A i \in 1..(k + d) : ac[i] = IF i <= k THEN a[i] ELSE c[i - k]
  BY <1>11
<1> HIDE DEF ac, r
<1>15. ASSUME NEW i \in 1..l PROVE r[i] = receive_queue[i]
  <2>1. i \in 1..(l + (k + d)) /\ i <= l
    BY <1>3, <1>13
  <2> QED BY <1>12, <2>1
<1>16. ASSUME NEW i \in 1..k PROVE r[l + i] = [kind |-> "notify", id |-> nq[i].id]
  <2>1. l + i \in 1..(l + (k + d)) /\ ~(l + i <= l) /\ (l + i) - l = i /\ i \in 1..(k + d) /\ i <= k
    BY <1>3, <1>13
  <2>2. r[l + i] = ac[i]
    BY <1>12, <2>1
  <2> QED BY <1>8, <1>14, <2>1, <2>2
<1>17. ASSUME d = 1 PROVE r[l + k + 1] = [kind |-> "data", id |-> f.data]
  <2>1. /\ l + k + 1 \in 1..(l + (k + d)) /\ ~(l + k + 1 <= l) /\ (l + k + 1) - l = k + 1
        /\ k + 1 \in 1..(k + d) /\ ~(k + 1 <= k) /\ (k + 1) - k = 1
    BY <1>3, <1>13, <1>17
  <2>2. r[l + k + 1] = ac[k + 1]
    BY <1>12, <2>1
  <2> QED BY <1>9, <1>14, <1>17, <2>1, <2>2
<1>18. l + (k + d) = l + k + d
  BY <1>3, <1>13
<1>19. Input(k, d)
  BY <1>0, <1>1, <1>2, <1>6, <1>7, <1>9, <1>10, <1>12, <1>13, <1>15, <1>16, <1>17, <1>18
     DEF Input, f, w, nq, n, l
<1> QED BY <1>13, <1>19

LEMMA TokenAlone ==
  ASSUME TokenInv,
         UNCHANGED <<notify_queue, receive_queue, completed, pending_notifications, taken>>,
         \A q \in CQ : Queued(q)' = Queued(q),
         receive_waiting' \in BOOLEAN, puller' \in {"pull", "waiting", "exited"},
         main' \in {"running", "exit_kick", "join", "join_python", "done"},
         main' = "done" <=> main = "done",
         main' \in {"join_python", "done"} => bg' = "exited",
         main' = "done" => puller' = "exited"
  PROVE  TokenInv'
<1> HIDE DEF Queued
<1>1. Left' = Left /\ Notified' = Notified
  BY DEF Left, Notified
<1>2. main' = "done" => pending_notifications' = {}
  BY DEF TokenInv
<1>3. /\ notify_queue' \in Seq([id : Ids, seq : Nat])
      /\ receive_queue' \in Seq(Received) /\ pending_notifications' \subseteq Ids
      /\ completed' \in [Ids -> 0..1] /\ \A i \in pending_notifications' : completed'[i] = 0
  BY DEF TokenInv
<1>4. \A q \in CQ : \A k \in DOMAIN Queued(q)' :
        Queued(q)'[k].notify /\ main' # "done" => Queued(q)'[k].id \in pending_notifications'
  BY DEF TokenInv
<1>5. /\ \A k \in DOMAIN notify_queue' :
           /\ notify_queue'[k].id \in Left'
           /\ main' # "done" => notify_queue'[k].id \in pending_notifications'
      /\ \A r \in Notified' :
           /\ receive_queue'[r].id \in Left'
           /\ IF main' = "done" THEN completed'[receive_queue'[r].id] = 1
              ELSE receive_queue'[r].id \in pending_notifications'
  BY <1>1 DEF TokenInv
<1>6. /\ \A k, l \in DOMAIN notify_queue' : notify_queue'[k].id = notify_queue'[l].id => k = l
      /\ \A r, s \in Notified' : receive_queue'[r].id = receive_queue'[s].id => r = s
      /\ \A k \in DOMAIN notify_queue', r \in Notified' :
           notify_queue'[k].id # receive_queue'[r].id
  BY <1>1 DEF TokenInv
<1> QED BY <1>2, <1>3, <1>4, <1>5, <1>6 DEF TokenInv

(* What the entries of notify_queue and receive_queue are. *)
LEMMA TokenFacts ==
  ASSUME TokenInv
  PROVE  /\ notify_queue \in Seq(Tokens) /\ DOMAIN notify_queue = 1..Len(notify_queue)
         /\ \A k \in DOMAIN notify_queue :
              /\ notify_queue[k].id \in Ids /\ notify_queue[k].seq \in Nat
              /\ notify_queue[k].id \in Left
              /\ main # "done" => notify_queue[k].id \in pending_notifications
         /\ receive_queue \in Seq(Received) /\ DOMAIN receive_queue = 1..Len(receive_queue)
         /\ \A r \in Notified :
              /\ receive_queue[r] = [kind |-> "notify", id |-> receive_queue[r].id]
              /\ receive_queue[r].id \in Ids /\ receive_queue[r].id \in Left
<1>1. notify_queue \in Seq(Tokens) /\ receive_queue \in Seq(Received)
  BY DEF TokenInv, Tokens
<1>2. \A k \in DOMAIN notify_queue : notify_queue[k].id \in Ids /\ notify_queue[k].seq \in Nat
  <2>1. \A k \in DOMAIN notify_queue : notify_queue[k] \in Tokens
    BY <1>1
  <2> QED BY <2>1 DEF Tokens
<1>3. ASSUME NEW r \in Notified
      PROVE  /\ receive_queue[r] = [kind |-> "notify", id |-> receive_queue[r].id]
             /\ receive_queue[r].id \in Ids
  <2>1. receive_queue[r] \in Received /\ receive_queue[r].kind = "notify"
    BY <1>1 DEF Notified
  <2>2. receive_queue[r] \in [kind : {"notify"}, id : Ids]
    BY <2>1 DEF Received
  <2> QED BY <2>2
<1>4. DOMAIN notify_queue = 1..Len(notify_queue) /\ DOMAIN receive_queue = 1..Len(receive_queue)
  BY <1>1
<1>5. \A k \in DOMAIN notify_queue :
        /\ notify_queue[k].id \in Left
        /\ main # "done" => notify_queue[k].id \in pending_notifications
  BY DEF TokenInv
<1>6. \A r \in Notified : receive_queue[r].id \in Left
  BY DEF TokenInv
<1> QED BY <1>1, <1>2, <1>3, <1>4, <1>5, <1>6

LEMMA TokenTake ==
  ASSUME TimesInv, QueueInv, LinkInv, TokenInv, NEW q \in CQ, Takes(q)
  PROVE  TokenInv'
<1> DEFINE m == Head(Queued(q))
           nq == notify_queue
           n == Len(nq)
           t == [id |-> m.id, seq |-> send_seq]
<1> HIDE DEF Queued
<1>1. /\ Left' = Left \cup {m.id} /\ m.id \in Ids /\ m.id \notin Left
  BY TakeKeeps DEF Takes
<1>2. /\ nq' = Notifying(m) /\ m \in Messages
      /\ UNCHANGED <<receive_queue, receive_waiting, puller, main, completed,
                     pending_notifications, bg>>
      /\ Queued(q)' = Tail(Queued(q)) /\ Queued(q) # <<>>
      /\ \A p \in CQ \ {q} : Queued(p)' = Queued(p)
  BY DEF Takes
<1>3. Queued(q) \in Seq(Messages) /\ 1 \in DOMAIN Queued(q) /\ m = Queued(q)[1]
  <2>1. Queued(q) \in Seq(Messages)
    BY QueuedFacts
  <2> QED BY <1>2, <2>1
<1>4. m.notify /\ main # "done" => m.id \in pending_notifications
  BY <1>3 DEF TokenInv
<1>5. t \in Tokens
  BY <1>1 DEF LinkInv, Tokens
<1>6. /\ nq \in Seq(Tokens) /\ n \in Nat /\ DOMAIN nq = 1..n
      /\ \A k \in 1..n :
           /\ nq[k].id \in Ids /\ nq[k].seq \in Nat /\ nq[k].id \in Left
           /\ main # "done" => nq[k].id \in pending_notifications
      /\ receive_queue \in Seq(Received) /\ DOMAIN receive_queue = 1..Len(receive_queue)
      /\ \A r \in Notified :
           /\ receive_queue[r] = [kind |-> "notify", id |-> receive_queue[r].id]
           /\ receive_queue[r].id \in Ids /\ receive_queue[r].id \in Left
  BY TokenFacts
<1>7. Notified' = Notified
  BY <1>2 DEF Notified
<1>8. ASSUME NEW p \in CQ, NEW k \in DOMAIN Queued(p)',
             Queued(p)'[k].notify, main # "done"
      PROVE  Queued(p)'[k].id \in pending_notifications
  <2>1. CASE p # q
    <3>1. Queued(p)' = Queued(p)
      BY <1>2, <2>1
    <3> QED BY <1>8, <3>1 DEF TokenInv
  <2>2. CASE p = q
    <3> DEFINE s == Queued(q)
    <3>1. /\ Tail(s) \in Seq(Messages) /\ Len(Tail(s)) = Len(s) - 1
          /\ \A i \in 1..Len(Tail(s)) : Tail(s)[i] = s[i + 1]
          /\ Len(s) \in Nat /\ DOMAIN s = 1..Len(s)
      BY <1>2, <1>3, HeadTailProperties
    <3> HIDE DEF s
    <3>2. k \in 1..Len(Tail(s)) /\ Queued(p)' = Tail(s)
      <4>1. Queued(p)' = Tail(s)
        BY <1>2, <2>2 DEF s
      <4> QED BY <3>1, <4>1
    <3>3. k + 1 \in DOMAIN s /\ Queued(p)'[k] = s[k + 1]
      BY <3>1, <3>2
    <3>4. s[k + 1].notify => s[k + 1].id \in pending_notifications
      BY <1>8, <3>3 DEF TokenInv, s
    <3> QED BY <1>8, <3>3, <3>4
  <2> QED BY <2>1, <2>2
<1> HIDE DEF m, n, t
<1>9. CASE ~m.notify
  <2>1. nq' = nq
    BY <1>2, <1>9 DEF Notifying
  <2>2. \A k \in DOMAIN nq' : nq'[k].id \in Left' /\ (main' # "done" => nq'[k].id \in pending_notifications')
    BY <1>1, <1>2, <1>6, <2>1
  <2>3. \A r \in Notified' : receive_queue'[r].id \in Left'
    BY <1>1, <1>2, <1>6, <1>7
  <2>4. /\ \A k, l \in DOMAIN nq' : nq'[k].id = nq'[l].id => k = l
        /\ \A k \in DOMAIN nq', r \in Notified' : nq'[k].id # receive_queue'[r].id
    BY <1>2, <1>7, <2>1 DEF TokenInv
  <2> QED BY <1>2, <1>7, <1>8, <2>1, <2>2, <2>3, <2>4 DEF TokenInv
<1>10. CASE m.notify
  <2>1. /\ nq' \in Seq(Tokens) /\ DOMAIN nq' = 1..(n + 1) /\ nq'[n + 1] = t
        /\ \A k \in 1..n : nq'[k] = nq[k]
    <3>1. nq' = Append(nq, t)
      BY <1>2, <1>10 DEF Notifying, t
    <3> QED BY <1>5, <1>6, <3>1 DEF n
  <2>2. t.id = m.id
    BY DEF t
  <2>3. \A k \in 1..(n + 1) : k \in 1..n \/ k = n + 1
    BY <1>6
  <2>4. \A k \in DOMAIN nq' : nq'[k].id \in Left' /\ (main' # "done" => nq'[k].id \in pending_notifications')
    BY <1>1, <1>2, <1>4, <1>6, <1>10, <2>1, <2>2, <2>3
  <2>5. \A r \in Notified' : receive_queue'[r].id \in Left'
    BY <1>1, <1>2, <1>6, <1>7
  <2>6. ASSUME NEW k \in DOMAIN nq', NEW l \in DOMAIN nq', nq'[k].id = nq'[l].id
        PROVE  k = l
    <3>1. \A i, j \in 1..n : nq[i].id = nq[j].id => i = j
      BY <1>6 DEF TokenInv
    <3> QED BY <1>1, <1>6, <2>1, <2>2, <2>3, <2>6, <3>1
  <2>7. ASSUME NEW k \in DOMAIN nq', NEW r \in Notified
        PROVE  nq'[k].id # receive_queue[r].id
    <3>1. \A i \in 1..n : nq[i].id # receive_queue[r].id
      BY <1>6 DEF TokenInv
    <3> QED BY <1>1, <1>6, <2>1, <2>2, <2>3, <3>1
  <2>8. nq' \in Seq([id : Ids, seq : Nat])
    BY <2>1 DEF Tokens
  <2> QED BY <1>2, <1>7, <1>8, <2>4, <2>5, <2>6, <2>7, <2>8 DEF TokenInv
<1> QED BY <1>9, <1>10

LEMMA LeftOld ==
  ASSUME QueueInv
  PROVE  \A i \in Left : i \in Nat /\ 1 <= i /\ i <= nmsg
<1> SUFFICES ASSUME NEW q \in CQ, NEW k \in DOMAIN taken[q]
             PROVE  taken[q][k] \in Nat /\ 1 <= taken[q][k] /\ taken[q][k] <= nmsg
  BY DEF Left, ToSet
<1> HIDE DEF Queued, EverPut
<1>1. /\ taken[q] \in Seq(Ids) /\ Queued(q) \in Seq(Messages)
      /\ EverPut(q) \in Seq(Ids) /\ Len(EverPut(q)) = Len(taken[q]) + Len(Queued(q))
      /\ \A i \in 1..Len(taken[q]) : EverPut(q)[i] = taken[q][i]
  BY QueuedFacts
<1>2. /\ k \in 1..Len(taken[q]) /\ Len(taken[q]) \in Nat /\ Len(Queued(q)) \in Nat
      /\ DOMAIN EverPut(q) = 1..Len(EverPut(q))
  BY <1>1
<1>3. k \in DOMAIN EverPut(q) /\ EverPut(q)[k] = taken[q][k]
  BY <1>1, <1>2
<1>4. EverPut(q)[k] \in 1..nmsg /\ nmsg \in Nat
  BY <1>3 DEF QueueInv
<1> QED BY <1>3, <1>4

LEMMA TokenPut ==
  ASSUME TimesInv, QueueInv, TokenInv, HandledInv, NEW s \in Senders, SendBatch(s)
  PROVE  TokenInv'
<1> HIDE DEF Queued, EverPut
<1>1. PICK q \in CQ, batch \in Batches :
           /\ Puts(q, batch)
           /\ batch[1].notify => s = "main"
           /\ pending_notifications' =
                IF batch[1].notify THEN pending_notifications \union {batch[1].id}
                ELSE pending_notifications
  BY Putting
<1>2. /\ UNCHANGED <<notify_queue, receive_queue, completed, taken, receive_waiting, puller,
                     main, bg>>
      /\ s = "main" => main = "running"
  BY DEF SendBatch, send_batch, threadVars, pullVars, blockVars
<1> DEFINE b == [i \in DOMAIN batch |-> WithMinClock(batch[i])]
           n == Len(batch)
<1>3. /\ batch \in Seq(Messages) /\ n \in {1, 2}
      /\ \A i \in 1..n : batch[i].id = nmsg + i
      /\ \A i \in 1..n : batch[i].notify => i = 1 /\ n = 1
      /\ b \in Seq(Messages) /\ Len(b) = n
      /\ \A i \in 1..n : b[i] = WithMinClock(batch[i])
      /\ \A p \in CQ \ {q} : Queued(p)' = Queued(p)
      /\ Queued(q)' = Queued(q) \o b
      /\ nmsg' = nmsg + n /\ nmsg' \in 0..scenario.msgs
  BY <1>1 DEF Puts
<1> HIDE DEF b, n
<1>4. \A i \in 1..n : batch[i] \in Messages /\ b[i].notify = batch[i].notify /\ b[i].id = batch[i].id
  <2>1. \A i \in 1..n : batch[i] \in Messages
    BY <1>3 DEF n
  <2> QED BY <1>3, <2>1, MinClockFacts
<1>5. nmsg \in Nat /\ nmsg + 1 \in Ids /\ nmsg + 1 \notin Left /\ batch[1].id = nmsg + 1
  <2>1. nmsg \in Nat /\ scenario.msgs \in Nat /\ 1..scenario.msgs \subseteq Ids
    BY ScenarioFacts DEF QueueInv
  <2>2. nmsg + 1 \in 1..scenario.msgs
    BY <1>3, <2>1
  <2>3. nmsg + 1 \notin Left
    BY <2>1, LeftOld
  <2>4. 1 \in 1..n
    BY <1>3
  <2> QED BY <1>3, <2>1, <2>2, <2>3, <2>4
<1>6. Left' = Left /\ Notified' = Notified
  BY <1>2 DEF Left, Notified
<1>7. batch[1].notify => main = "running" /\ completed[nmsg + 1] = 0
  <2>1. main = "running" => completed[nmsg + 1] # 1
    BY <1>5 DEF HandledInv
  <2>2. completed[nmsg + 1] \in 0..1
    BY <1>5 DEF TokenInv
  <2> QED BY <1>1, <1>2, <2>1, <2>2
<1>8. /\ pending_notifications' \subseteq Ids
      /\ \A i \in pending_notifications' : completed'[i] = 0
      /\ pending_notifications \subseteq pending_notifications'
      /\ main = "done" => pending_notifications' = {}
  BY <1>1, <1>2, <1>5, <1>7 DEF TokenInv
<1>9. ASSUME NEW p \in CQ, NEW k \in DOMAIN Queued(p)', Queued(p)'[k].notify, main # "done"
      PROVE  Queued(p)'[k].id \in pending_notifications'
  <2>1. CASE p # q
    <3>1. Queued(p)' = Queued(p)
      BY <1>3, <2>1
    <3> QED BY <1>8, <1>9, <3>1 DEF TokenInv
  <2>2. CASE p = q
    <3> DEFINE u == Queued(q)
               l == Len(u)
    <3>1. u \in Seq(Messages) /\ b \in Seq(Messages)
      BY <1>3, QueuedFacts
    <3>2. /\ u \o b \in Seq(Messages) /\ Len(u \o b) = l + Len(b)
          /\ \A i \in 1..(l + Len(b)) : (u \o b)[i] = IF i <= l THEN u[i] ELSE b[i - l]
      BY <3>1, ConcatProperties, Zenon
    <3>3. l \in Nat /\ DOMAIN u = 1..l /\ DOMAIN (u \o b) = 1..(l + n)
      BY <1>3, <3>1, <3>2
    <3>4. Queued(p)' = u \o b
      BY <1>3, <2>2
    <3>5. \A i \in DOMAIN u : u[i].notify => u[i].id \in pending_notifications'
      BY <1>8, <1>9 DEF TokenInv
    <3> HIDE DEF u, l
    <3>6. CASE k <= l
      <4>1. k \in DOMAIN u /\ Queued(p)'[k] = u[k]
        BY <1>3, <3>2, <3>3, <3>4, <3>6
      <4> QED BY <1>9, <3>5, <4>1
    <3>7. CASE ~(k <= l)
      <4>1. k - l \in 1..n /\ Queued(p)'[k] = b[k - l]
        BY SMTT(30), <1>3, <3>2, <3>3, <3>4, <3>7
      <4>2. batch[k - l].notify /\ Queued(p)'[k].id = batch[k - l].id
        BY <1>4, <1>9, <4>1
      <4>3. k - l = 1
        BY <1>3, <4>1, <4>2
      <4> QED BY <1>1, <4>2, <4>3
    <3> QED BY <3>6, <3>7
  <2> QED BY <2>1, <2>2
<1>10. /\ \A k \in DOMAIN notify_queue' :
            /\ notify_queue'[k].id \in Left'
            /\ main' # "done" => notify_queue'[k].id \in pending_notifications'
       /\ \A r \in Notified' :
            /\ receive_queue'[r].id \in Left'
            /\ IF main' = "done" THEN completed'[receive_queue'[r].id] = 1
               ELSE receive_queue'[r].id \in pending_notifications'
  BY <1>2, <1>6, <1>8 DEF TokenInv
<1>11. /\ \A k, l \in DOMAIN notify_queue' : notify_queue'[k].id = notify_queue'[l].id => k = l
       /\ \A r, t \in Notified' : receive_queue'[r].id = receive_queue'[t].id => r = t
       /\ \A k \in DOMAIN notify_queue', r \in Notified' :
            notify_queue'[k].id # receive_queue'[r].id
  BY <1>2, <1>6 DEF TokenInv
<1>12. /\ notify_queue' \in Seq([id : Ids, seq : Nat])
       /\ receive_queue' \in Seq(Received) /\ receive_waiting' \in BOOLEAN
       /\ puller' \in {"pull", "waiting", "exited"}
       /\ main' \in {"running", "exit_kick", "join", "join_python", "done"}
       /\ completed' \in [Ids -> 0..1]
       /\ main' \in {"join_python", "done"} => bg' = "exited"
       /\ main' = "done" => puller' = "exited" /\ pending_notifications' = {}
  BY <1>2, <1>8 DEF TokenInv
<1> QED BY <1>2, <1>8, <1>9, <1>10, <1>11, <1>12 DEF TokenInv

LEMMA TokenInput ==
  ASSUME TimesInv, QueueInv, LinkInv, TokenInv, HandledInv, InputEvent
  PROVE  TokenInv'
<1> HIDE DEF Queued, EverPut
<1>1. PICK k \in Nat, d \in Nat : Input(k, d)
  BY Inputting
<1> DEFINE nq == notify_queue
           n == Len(nq)
           l == Len(receive_queue)
           rq == receive_queue
<1>2. /\ k \in 0..n /\ d \in {0, 1}
      /\ nq' \in Seq(Tokens) /\ Len(nq') = n - k
      /\ \A i \in 1..(n - k) : nq'[i] = nq[k + i]
      /\ rq' \in Seq(Received) /\ Len(rq') = l + k + d
      /\ \A i \in 1..l : rq'[i] = rq[i]
      /\ \A i \in 1..k : rq'[l + i] = [kind |-> "notify", id |-> nq[i].id]
      /\ d = 1 => rq'[l + k + 1] = [kind |-> "data", id |-> Head(m2h).data]
  BY <1>1 DEF Input
<1>3. /\ bg = "input" /\ bg' \in {"kick", "timers"}
      /\ UNCHANGED <<main, pending_notifications, completed, taken>>
      /\ \A q \in CQ : Queued(q)' = Queued(q)
      /\ receive_waiting' \in BOOLEAN /\ puller' \in {"pull", "waiting", "exited"}
  BY DEF InputEvent, AfterInput, serialhdl, queueVars, check_wake_receive, TokenInv, Queued
<1>4. /\ nq \in Seq(Tokens) /\ n \in Nat /\ DOMAIN nq = 1..n
      /\ \A i \in 1..n :
           /\ nq[i].id \in Ids /\ nq[i].seq \in Nat /\ nq[i].id \in Left
           /\ main # "done" => nq[i].id \in pending_notifications
      /\ rq \in Seq(Received) /\ DOMAIN rq = 1..l /\ l \in Nat
  BY TokenFacts
<1>5. main # "done" /\ main' \notin {"join_python", "done"}
  BY <1>3 DEF TokenInv
<1>6. /\ DOMAIN nq' = 1..(n - k) /\ DOMAIN rq' = 1..(l + k + d)
  <2>1. nq' \in Seq(Tokens) /\ Len(nq') = n - k /\ rq' \in Seq(Received) /\ Len(rq') = l + k + d
    BY <1>2
  <2> HIDE DEF n, l
  <2> QED BY <2>1
<1>7. \A i \in DOMAIN nq' : k + i \in 1..n /\ nq'[i] = nq[k + i]
  <2> HIDE DEF nq, n
  <2> QED BY <1>2, <1>4, <1>6
<1> HIDE DEF nq, n, rq, l
<1>8. ASSUME NEW r \in Notified'
      PROVE  \/ r \in Notified /\ rq'[r] = rq[r]
             \/ r - l \in 1..k /\ r - l \in 1..n /\ rq'[r].id = nq[r - l].id
  <2>1. r \in 1..(l + k + d) /\ rq'[r].kind = "notify"
    BY <1>6 DEF Notified, rq
  <2>2. CASE r \in 1..l
    <3>1. rq'[r] = rq[r]
      BY <1>2, <2>2
    <3> QED BY <1>4, <2>1, <2>2, <3>1 DEF Notified, rq
  <2>3. CASE r - l \in 1..k
    <3>1. l + (r - l) = r /\ r - l \in 1..n
      BY <1>2, <1>4, <2>1, <2>3
    <3>2. rq'[r] = [kind |-> "notify", id |-> nq[r - l].id]
      BY <1>2, <2>3, <3>1
    <3> QED BY <2>3, <3>1, <3>2
  <2>4. CASE r = l + k + 1 /\ d = 1
    <3>1. rq'[r] = [kind |-> "data", id |-> Head(m2h).data]
      BY <1>2, <2>4
    <3>2. rq'[r].kind = "data"
      BY <3>1
    <3> QED BY <2>1, <3>2
  <2>5. r \in 1..l \/ r - l \in 1..k \/ (r = l + k + 1 /\ d = 1)
    BY <1>2, <1>4, <2>1
  <2> QED BY <2>2, <2>3, <2>4, <2>5
<1>9. /\ \A i, j \in 1..n : nq[i].id = nq[j].id => i = j
      /\ \A r, t \in Notified : rq[r].id = rq[t].id => r = t
      /\ \A i \in 1..n, r \in Notified : nq[i].id # rq[r].id
      /\ \A r \in Notified : rq[r].id \in Left /\ rq[r].id \in pending_notifications
      /\ \A r \in Notified : r \in Int
  <2>1. \A r \in Notified : r \in Int
    BY <1>4 DEF Notified, rq
  <2> QED BY <1>4, <1>5, <2>1 DEF TokenInv, nq, rq
<1>10. Left' = Left
  BY <1>3 DEF Left
<1>11. \A i \in DOMAIN nq' : nq'[i].id \in Left' /\ nq'[i].id \in pending_notifications'
  BY <1>3, <1>4, <1>5, <1>7, <1>10
<1>12. \A r \in Notified' : rq'[r].id \in Left' /\ rq'[r].id \in pending_notifications'
  BY <1>3, <1>4, <1>5, <1>8, <1>9, <1>10
<1>13. ASSUME NEW i \in DOMAIN nq', NEW j \in DOMAIN nq', nq'[i].id = nq'[j].id
       PROVE  i = j
  <2>1. k + i = k + j
    BY <1>7, <1>9, <1>13
  <2>2. i \in Nat /\ j \in Nat
    BY <1>6
  <2> QED BY <2>1, <2>2
<1>14. ASSUME NEW r \in Notified', NEW t \in Notified', rq'[r].id = rq'[t].id
       PROVE  r = t
  <2>0. r \in Int /\ t \in Int
    BY <1>6 DEF Notified, rq
  <2>1. CASE r \in Notified /\ rq'[r] = rq[r]
    <3>1. ~(t - l \in 1..k /\ t - l \in 1..n /\ rq'[t].id = nq[t - l].id)
      BY <1>9, <1>14, <2>1
    <3> QED BY <1>8, <1>9, <1>14, <2>1, <3>1
  <2>2. CASE r - l \in 1..k /\ r - l \in 1..n /\ rq'[r].id = nq[r - l].id
    <3>1. ~(t \in Notified /\ rq'[t] = rq[t])
      BY <1>9, <1>14, <2>2
    <3>2. r - l = t - l
      BY <1>8, <1>9, <1>14, <2>2, <3>1
    <3> QED BY <1>4, <2>0, <3>2
  <2> QED BY <1>8, <2>1, <2>2
<1>15. ASSUME NEW i \in DOMAIN nq', NEW r \in Notified'
       PROVE  nq'[i].id # rq'[r].id
  <2>1. k + i \in 1..n /\ nq'[i] = nq[k + i] /\ i \in 1..(n - k)
    BY <1>6, <1>7
  <2>2. CASE r \in Notified /\ rq'[r] = rq[r]
    BY <1>9, <2>1, <2>2
  <2>3. CASE r - l \in 1..k /\ r - l \in 1..n /\ rq'[r].id = nq[r - l].id
    <3>1. k + i # r - l
      BY <1>2, <1>4, <2>1, <2>3
    <3> QED BY <1>9, <2>1, <2>3, <3>1
  <2> QED BY <1>8, <2>2, <2>3
<1>16. /\ nq' \in Seq([id : Ids, seq : Nat]) /\ rq' \in Seq(Received)
  BY <1>2 DEF Tokens
<1>17. \A q \in CQ : \A i \in DOMAIN Queued(q)' :
         Queued(q)'[i].notify /\ main' # "done" => Queued(q)'[i].id \in pending_notifications'
  BY <1>3 DEF TokenInv
<1>18. /\ main' \in {"running", "exit_kick", "join", "join_python", "done"}
       /\ pending_notifications' \subseteq Ids /\ completed' \in [Ids -> 0..1]
       /\ \A i \in pending_notifications' : completed'[i] = 0
  BY <1>3 DEF TokenInv
<1>19. main' # "done"
  BY <1>5
<1> QED BY <1>3, <1>5, <1>11, <1>12, <1>13, <1>14, <1>15, <1>16, <1>17, <1>18, <1>19
     DEF TokenInv, nq, rq

(* A message that waits has not left. *)
LEMMA StillQueued ==
  ASSUME QueueInv, NEW q \in CQ, NEW i \in DOMAIN Queued(q)
  PROVE  Queued(q)[i].id \notin Left
<1> HIDE DEF Queued, EverPut
<1> SUFFICES ASSUME NEW p \in CQ, NEW k \in DOMAIN taken[p], taken[p][k] = Queued(q)[i].id
             PROVE  FALSE
  BY DEF Left, ToSet
<1>1. /\ taken[p] \in Seq(Ids) /\ Queued(p) \in Seq(Messages)
      /\ EverPut(p) \in Seq(Ids) /\ Len(EverPut(p)) = Len(taken[p]) + Len(Queued(p))
      /\ \A j \in 1..Len(taken[p]) : EverPut(p)[j] = taken[p][j]
  BY QueuedFacts
<1>2. /\ taken[q] \in Seq(Ids) /\ Queued(q) \in Seq(Messages)
      /\ EverPut(q) \in Seq(Ids) /\ Len(EverPut(q)) = Len(taken[q]) + Len(Queued(q))
      /\ \A j \in 1..Len(Queued(q)) : EverPut(q)[Len(taken[q]) + j] = Queued(q)[j].id
  BY QueuedFacts
<1> DEFINE tp == Len(taken[p])
           tq == Len(taken[q])
           lp == Len(Queued(p))
           lq == Len(Queued(q))
           j  == tq + i
<1>3. /\ tp \in Nat /\ tq \in Nat /\ lp \in Nat /\ lq \in Nat /\ k \in 1..tp /\ i \in 1..lq
      /\ DOMAIN EverPut(p) = 1..(tp + lp) /\ DOMAIN EverPut(q) = 1..(tq + lq)
  <2>1. DOMAIN EverPut(p) = 1..(tp + lp)
    <3>1. EverPut(p) \in Seq(Ids) /\ Len(EverPut(p)) = tp + lp
      BY <1>1
    <3> HIDE DEF tp, lp
    <3> QED BY <3>1
  <2>2. DOMAIN EverPut(q) = 1..(tq + lq)
    <3>1. EverPut(q) \in Seq(Ids) /\ Len(EverPut(q)) = tq + lq
      BY <1>2
    <3> HIDE DEF tq, lq
    <3> QED BY <3>1
  <2>3. tp \in Nat /\ lp \in Nat /\ k \in 1..tp
    BY <1>1
  <2>4. tq \in Nat /\ lq \in Nat /\ i \in 1..lq
    BY <1>2
  <2> QED BY <2>1, <2>2, <2>3, <2>4
<1>4. EverPut(p)[k] = taken[p][k] /\ EverPut(q)[j] = Queued(q)[i].id
  BY <1>1, <1>2, <1>3
<1> HIDE DEF tp, tq, lp, lq
<1>5. k \in DOMAIN EverPut(p) /\ j \in DOMAIN EverPut(q) /\ k <= tp /\ j > tq
  BY <1>3
<1>6. EverPut(p)[k] = EverPut(q)[j]
  BY <1>4
<1> HIDE DEF j
<1>7. p = q /\ k = j
  BY <1>5, <1>6 DEF QueueInv
<1>8. tp = tq
  BY <1>7 DEF tp, tq
<1> QED BY <1>3, <1>5, <1>7, <1>8

(* The front of receive_queue goes. *)
LEMMA TokenPull ==
  ASSUME QueueInv, TokenInv, Pull
  PROVE  TokenInv'
<1> HIDE DEF Queued
<1>1. /\ UNCHANGED <<notify_queue, taken, main, bg>> /\ puller = "pull"
      /\ \A q \in CQ : Queued(q)' = Queued(q)
  BY DEF Pull, allQueues, queueVars, blockVars, threadVars, Queued
<1>2. main # "done"
  BY <1>1 DEF TokenInv
<1>3. CASE UNCHANGED <<receive_queue, completed, pending_notifications>>
  <2>1. receive_waiting' \in BOOLEAN /\ puller' \in {"pull", "waiting", "exited"}
    BY DEF Pull, TokenInv
  <2>2. /\ main' \in {"running", "exit_kick", "join", "join_python", "done"}
        /\ main' \in {"join_python", "done"} => bg' = "exited"
        /\ main' # "done"
    BY <1>1, <1>2 DEF TokenInv
  <2> QED BY <1>1, <1>2, <1>3, <2>1, <2>2, TokenAlone
<1>4. CASE ~UNCHANGED <<receive_queue, completed, pending_notifications>>
  <2> DEFINE r  == Head(receive_queue)
             rq == receive_queue
             l  == Len(rq)
  <2>1. /\ rq # <<>> /\ rq' = Tail(rq) /\ UNCHANGED <<puller, receive_waiting>>
        /\ \/ /\ r.kind = "notify"
              /\ completed' = [completed EXCEPT ![r.id] = @ + 1]
              /\ pending_notifications' = pending_notifications \ {r.id}
           \/ /\ r.kind = "data"
              /\ UNCHANGED <<completed, pending_notifications>>
    BY <1>4 DEF Pull
  <2>2. /\ rq \in Seq(Received) /\ DOMAIN rq = 1..l /\ l \in Nat \ {0} /\ r = rq[1]
        /\ notify_queue \in Seq(Tokens)
    <3>1. rq \in Seq(Received) /\ notify_queue \in Seq(Tokens)
      BY TokenFacts
    <3> QED BY <2>1, <3>1
  <2>3. /\ rq' \in Seq(Received) /\ Len(rq') = l - 1 /\ DOMAIN rq' = 1..(l - 1)
        /\ \A i \in 1..(l - 1) : rq'[i] = rq[i + 1]
    <3>1. /\ Tail(rq) \in Seq(Received) /\ Len(Tail(rq)) = l - 1
          /\ \A i \in 1..Len(Tail(rq)) : Tail(rq)[i] = rq[i + 1]
      BY <2>1, <2>2, HeadTailProperties
    <3> QED BY <2>1, <2>2, <3>1
  <2> HIDE DEF rq, l, r
  <2>4. ASSUME NEW i \in Notified'
        PROVE  i + 1 \in Notified /\ rq'[i] = rq[i + 1] /\ i \in Nat /\ i + 1 # 1
    <3>1. i \in 1..(l - 1) /\ rq'[i].kind = "notify"
      BY <2>3 DEF Notified, rq
    <3>2. rq'[i] = rq[i + 1] /\ i + 1 \in 1..l /\ i \in Nat /\ i + 1 # 1
      BY <2>2, <2>3, <3>1
    <3> QED BY <2>2, <3>1, <3>2 DEF Notified, rq
  <2>5. r.kind = "notify" => 1 \in Notified /\ r = rq[1]
    BY <2>2 DEF Notified, rq
  <2>6. /\ \A i, j \in Notified : rq[i].id = rq[j].id => i = j
        /\ \A k \in DOMAIN notify_queue, i \in Notified : notify_queue[k].id # rq[i].id
        /\ \A i \in Notified : rq[i].id \in Left /\ rq[i].id \in pending_notifications
        /\ \A k \in DOMAIN notify_queue :
             notify_queue[k].id \in Left /\ notify_queue[k].id \in pending_notifications
        /\ \A k, j \in DOMAIN notify_queue : notify_queue[k].id = notify_queue[j].id => k = j
        /\ pending_notifications \subseteq Ids /\ completed \in [Ids -> 0..1]
        /\ \A i \in pending_notifications : completed[i] = 0
    BY <1>2 DEF TokenInv, rq
  <2>7. Left' = Left
    BY <1>1 DEF Left
  <2>8. /\ \A i, j \in Notified' : rq'[i].id = rq'[j].id => i = j
        /\ \A k \in DOMAIN notify_queue, i \in Notified' : notify_queue[k].id # rq'[i].id
        /\ \A i \in Notified' : rq'[i].id \in Left /\ rq'[i].id \in pending_notifications
    <3>1. \A i, j \in Notified' : rq'[i].id = rq'[j].id => i + 1 = j + 1
      BY <2>4, <2>6
    <3>2. \A i, j \in Notified' : rq'[i].id = rq'[j].id => i = j
      BY <2>4, <3>1
    <3> QED BY <2>4, <2>6, <3>2
  <2>9. /\ pending_notifications' \subseteq Ids /\ completed' \in [Ids -> 0..1]
        /\ \A i \in pending_notifications' : completed'[i] = 0
        /\ \A i \in Notified' : rq'[i].id \in pending_notifications'
        /\ \A k \in DOMAIN notify_queue : notify_queue[k].id \in pending_notifications'
        /\ \A q \in CQ : \A i \in DOMAIN Queued(q)' :
             Queued(q)'[i].notify => Queued(q)'[i].id \in pending_notifications'
    <3>0. \A q \in CQ : \A i \in DOMAIN Queued(q) :
            Queued(q)[i].notify => Queued(q)[i].id \in pending_notifications
      BY <1>2 DEF TokenInv
    <3>1. CASE r.kind = "data" /\ UNCHANGED <<completed, pending_notifications>>
      BY <1>1, <2>6, <2>8, <3>0, <3>1
    <3>2. CASE /\ r.kind = "notify"
               /\ completed' = [completed EXCEPT ![r.id] = @ + 1]
               /\ pending_notifications' = pending_notifications \ {r.id}
      <4>1. 1 \in Notified /\ r = rq[1] /\ r.id \in Left /\ r.id \in pending_notifications
        BY <2>5, <2>6, <3>2
      <4>2. r.id \in Ids /\ completed[r.id] = 0
        BY <2>6, <4>1
      <4>3. \A i \in Notified' : rq'[i].id # r.id
        BY <2>4, <2>6, <4>1
      <4>4. \A k \in DOMAIN notify_queue : notify_queue[k].id # r.id
        BY <2>6, <4>1
      <4>5. \A q \in CQ : \A i \in DOMAIN Queued(q) : Queued(q)[i].id \notin Left
        <5> SUFFICES ASSUME NEW q \in CQ, NEW i \in DOMAIN Queued(q)
                     PROVE  Queued(q)[i].id \notin Left
          OBVIOUS
        <5> QED BY StillQueued
      <4>6. completed' \in [Ids -> 0..1] /\ \A i \in Ids : i # r.id => completed'[i] = completed[i]
        BY <2>6, <3>2, <4>2
      <4>7. \A q \in CQ : \A i \in DOMAIN Queued(q)' :
              Queued(q)'[i].notify => Queued(q)'[i].id \in pending_notifications'
        BY <1>1, <3>0, <3>2, <4>1, <4>5
      <4> QED BY <2>6, <2>8, <3>2, <4>2, <4>3, <4>4, <4>6, <4>7
    <3> QED BY <2>1, <3>1, <3>2
  <2>10. /\ receive_waiting' \in BOOLEAN /\ puller' \in {"pull", "waiting", "exited"}
         /\ main' \in {"running", "exit_kick", "join", "join_python", "done"}
         /\ main' \in {"join_python", "done"} => bg' = "exited"
         /\ main' # "done"
    BY <1>1, <1>2, <2>1 DEF TokenInv
  <2>11. notify_queue' \in Seq([id : Ids, seq : Nat])
    BY <1>1, <2>2 DEF Tokens
  <2> QED BY <1>1, <2>3, <2>6, <2>7, <2>8, <2>9, <2>10, <2>11 DEF TokenInv, rq
<1> QED BY <1>3, <1>4

LEMMA TokenComplete ==
  ASSUME TokenInv, CompletePending
  PROVE  TokenInv'
<1> HIDE DEF Queued
<1>1. /\ UNCHANGED <<notify_queue, receive_queue, taken, receive_waiting, puller, bg>>
      /\ main = "join_python" /\ puller = "exited" /\ main' = "done"
      /\ completed' = [i \in Ids |-> IF i \in pending_notifications
                                     THEN completed[i] + 1 ELSE completed[i]]
      /\ pending_notifications' = {}
  BY DEF CompletePending, PythonJoined, allQueues, blockVars, threadVars
<1>2. Left' = Left /\ Notified' = Notified
  BY <1>1 DEF Left, Notified
<1>3. completed \in [Ids -> 0..1] /\ \A i \in pending_notifications : i \in Ids /\ completed[i] = 0
  BY DEF TokenInv
<1>4. completed' \in [Ids -> 0..1] /\ \A i \in pending_notifications : completed'[i] = 1
  BY <1>1, <1>3
<1>5. /\ \A k \in DOMAIN notify_queue' : notify_queue'[k].id \in Left'
      /\ \A r \in Notified' :
           receive_queue'[r].id \in Left' /\ completed'[receive_queue'[r].id] = 1
  BY <1>1, <1>2, <1>4 DEF TokenInv
<1>6. /\ \A k, l \in DOMAIN notify_queue' : notify_queue'[k].id = notify_queue'[l].id => k = l
      /\ \A r, t \in Notified' : receive_queue'[r].id = receive_queue'[t].id => r = t
      /\ \A k \in DOMAIN notify_queue', r \in Notified' :
           notify_queue'[k].id # receive_queue'[r].id
  BY <1>1, <1>2 DEF TokenInv
<1>7. /\ notify_queue' \in Seq([id : Ids, seq : Nat])
      /\ receive_queue' \in Seq(Received) /\ receive_waiting' \in BOOLEAN
      /\ puller' \in {"pull", "waiting", "exited"} /\ bg' = "exited"
  BY <1>1 DEF TokenInv
<1> QED BY <1>1, <1>4, <1>5, <1>6, <1>7 DEF TokenInv

LEMMA TokenKept ==
  ASSUME TimesInv, QueueInv, LinkInv, TokenInv, HandledInv, Next
  PROVE  TokenInv'
<1> USE DEF threadVars, allQueues, queueVars, blockVars, pullVars, serialhdl
<1>1. CASE CommandStart \/ CommandAppend
  <2>1. PICK q \in CQ : Takes(q)
    BY <1>1, Taking
  <2> QED BY <2>1, TokenTake
<1>2. CASE CommandWait
  <2>1. \A q \in CQ : Queued(q)' = Queued(q)
    <3>1. \/ UNCHANGED <<upcoming_queue, ready_queue>>
          \/ upcoming_queue' = upcoming1 /\ ready_queue' = ready1
      BY <1>2 DEF CommandWait
    <3>2. CASE UNCHANGED <<upcoming_queue, ready_queue>>
      BY <3>2 DEF Queued
    <3>3. CASE upcoming_queue' = upcoming1 /\ ready_queue' = ready1
      <4>1. UNCHANGED <<pending_queues, taken, nmsg, scenario>>
        BY <1>2 DEF CommandWait, countVars
      <4> QED BY <3>3, <4>1, MoveAlone
    <3> QED BY <3>1, <3>2, <3>3
  <2>2. /\ UNCHANGED <<notify_queue, receive_queue, completed, pending_notifications, taken,
                       receive_waiting, puller, main>>
        /\ bg = "command"
    BY <1>2 DEF CommandWait
  <2>3. /\ receive_waiting' \in BOOLEAN /\ puller' \in {"pull", "waiting", "exited"}
        /\ main' \in {"running", "exit_kick", "join", "join_python", "done"}
        /\ main' \notin {"join_python", "done"} /\ main # "done"
    BY <2>2 DEF TokenInv
  <2> QED BY <2>1, <2>2, <2>3, TokenAlone
<1>3. ASSUME \/ \E s \in Senders : Kick(s)
             \/ SetClockEst \/ CheckTimers \/ CommandFinish \/ Poll
             \/ InputError \/ KickEvent \/ Leave \/ SpuriousWakeup
             \/ DoExit \/ ExitKick \/ Join \/ McuExecute \/ McuReport \/ Tick
      PROVE  TokenInv'
  <2>1. /\ UNCHANGED <<notify_queue, receive_queue, completed, pending_notifications, taken,
                       ready_queue, upcoming_queue>>
    BY <1>3 DEF Kick, SetClockEst, CheckTimers, CommandFinish, finish_block, Poll,
         InputError, KickEvent, Leave, SpuriousWakeup, DoExit, ExitKick, Join,
         McuExecute, McuReport, Tick
  <2>2. \A q \in CQ : Queued(q)' = Queued(q)
    BY <2>1 DEF Queued
  <2>3. /\ receive_waiting' \in BOOLEAN /\ puller' \in {"pull", "waiting", "exited"}
        /\ puller = "exited" => puller' = "exited"
        /\ main' \in {"running", "exit_kick", "join", "join_python", "done"}
        /\ main' = "done" <=> main = "done"
        /\ main' = "join_python" => main = "join_python" \/ bg' = "exited"
        /\ bg = "exited" => bg' = "exited"
    BY <1>3 DEF Kick, SetClockEst, CheckTimers, CommandFinish, Poll,
         InputError, KickEvent, Leave, check_wake_receive, SpuriousWakeup, DoExit, ExitKick,
         Join, McuExecute, McuReport, Tick, TokenInv
  <2>4. /\ main \in {"join_python", "done"} => bg = "exited"
        /\ main = "done" => puller = "exited"
    BY DEF TokenInv
  <2>5. /\ main' \in {"join_python", "done"} => bg' = "exited"
        /\ main' = "done" => puller' = "exited"
    BY <2>3, <2>4
  <2> QED BY <2>1, <2>2, <2>3, <2>5, TokenAlone
<1> QED BY <1>1, <1>2, <1>3, TokenPut, TokenInput, TokenPull, TokenComplete
     DEF Next, Background, Disconnect

-----------------------------------------------------------------------------
(* Responses *)

LEMMA HandledAlone ==
  ASSUME TokenInv, HandledInv,
         UNCHANGED <<nresp, source, early, handled, asked, executed, m2h, receive_queue, notify_queue,
                     completed, taken>>,
         send_seq \in Nat, send_seq' \in Nat, send_seq <= send_seq',
         main' # "done" => main # "done"
  PROVE  HandledInv'
<1>1. Left' = Left /\ Notified' = Notified
  BY DEF Left, Notified
<1>2. /\ nresp' \in Nat /\ source' \in Seq(Nat) /\ Len(source') = nresp'
      /\ handled' \in Seq(Nat) /\ asked' \in [Ids -> Nat]
      /\ \A r \in 1..nresp' : source'[r] < executed'
  BY DEF HandledInv
<1>3. \A n, r : /\ InReceived(n, r)' <=> InReceived(n, r)
                /\ InFlight(n, r)' <=> InFlight(n, r)
                /\ Arrived(r)' <=> Arrived(r)
  BY DEF InReceived, InFlight, Arrived
<1>4. /\ \A r \in 1..nresp' : Arrived(r)' \/ InFlight(Len(m2h), r)'
      /\ \A p \in DOMAIN m2h' : \A r \in 1..nresp' :
           1 <= source'[r] /\ source'[r] <= wake_seq(m2h'[p]) =>
             Arrived(r)' \/ InFlight(p - 1, r)'
  <2> HIDE DEF InReceived, InFlight, Arrived
  <2> QED BY <1>3 DEF HandledInv
<1>5. \A k, l \in DOMAIN notify_queue' :
        k <= l => notify_queue'[k].seq <= notify_queue'[l].seq
  BY DEF HandledInv
<1>6. \A k \in DOMAIN notify_queue' :
         /\ asked'[notify_queue'[k].id] = notify_queue'[k].seq
         /\ 1 <= notify_queue'[k].seq /\ notify_queue'[k].seq <= send_seq'
  <2> SUFFICES ASSUME NEW k \in DOMAIN notify_queue
               PROVE  /\ asked[notify_queue[k].id] = notify_queue[k].seq
                      /\ 1 <= notify_queue[k].seq /\ notify_queue[k].seq <= send_seq'
    OBVIOUS
  <2>1. /\ asked[notify_queue[k].id] = notify_queue[k].seq
        /\ 1 <= notify_queue[k].seq /\ notify_queue[k].seq <= send_seq
    BY DEF HandledInv
  <2>2. CASE notify_queue[k].seq \in Int
    BY <2>1, <2>2
  <2>3. notify_queue[k].seq \in Int
    BY TokenFacts
  <2> QED BY <2>2, <2>3
<1>7. \A p \in Notified' :
         LET s == asked'[receive_queue'[p].id] IN
         receive_queue'[p].id \notin early' =>
         /\ 1 <= s /\ s < executed'
         /\ \A r \in 1..nresp' :
              source'[r] = s => r \in ToSet(handled') \/ InReceived(p - 1, r)'
  <2> HIDE DEF InReceived
  <2> QED BY <1>1, <1>3 DEF HandledInv
<1>8. \A i \in Ids : completed'[i] = 1 /\ main' # "done" =>
         /\ i \in Left'
         /\ i \notin early' =>
              /\ 1 <= asked'[i] /\ asked'[i] < executed'
              /\ \A r \in 1..nresp' : asked'[i] = source'[r] => r \in ToSet(handled')
  BY <1>1 DEF HandledInv
<1> QED BY <1>2, <1>4, <1>5, <1>6, <1>7, <1>8 DEF HandledInv

LEMMA HandledTake ==
  ASSUME TimesInv, QueueInv, LinkInv, TokenInv, HandledInv, NEW q \in CQ, Takes(q)
  PROVE  HandledInv'
<1> DEFINE m == Head(Queued(q))
           nq == notify_queue
           n == Len(nq)
           t == [id |-> m.id, seq |-> send_seq]
<1> HIDE DEF Queued
<1>1. /\ Left' = Left \cup {m.id} /\ m.id \in Ids /\ m.id \notin Left
  BY TakeKeeps DEF Takes
<1>2. /\ nq' = Notifying(m) /\ asked' = Asked(m) /\ m \in Messages
      /\ UNCHANGED <<nresp, source, early, handled, executed, m2h, receive_queue, completed, main,
                     send_seq>>
  BY DEF Takes
<1>3. send_seq \in Nat /\ send_seq >= 1 /\ executed \in Nat
  <2>1. /\ send_seq \in Nat /\ executed \in Nat /\ pending \in Nat
        /\ 1 <= receive_seq /\ receive_seq <= executed /\ executed <= send_seq - pending
        /\ receive_seq \in Nat
    BY DEF LinkInv
  <2> QED BY <2>1
<1>4. /\ nq \in Seq(Tokens) /\ n \in Nat /\ DOMAIN nq = 1..n
      /\ \A k \in 1..n : nq[k].id \in Ids /\ nq[k].seq \in Nat /\ nq[k].id \in Left
      /\ \A r \in Notified : receive_queue[r].id \in Ids /\ receive_queue[r].id \in Left
  <2>1. nq \in Seq(Tokens) /\ DOMAIN nq = 1..n
    BY TokenFacts
  <2>2. n \in Nat
    BY <2>1
  <2>3. \A k \in 1..n : nq[k].id \in Ids /\ nq[k].seq \in Nat /\ nq[k].id \in Left
    BY <2>1, TokenFacts
  <2>4. \A r \in Notified : receive_queue[r].id \in Ids /\ receive_queue[r].id \in Left
    BY TokenFacts
  <2> QED BY <2>1, <2>2, <2>3, <2>4
<1>5. Notified' = Notified
  BY <1>2 DEF Notified
<1> HIDE DEF m, n, t
<1>6. /\ asked' \in [Ids -> Nat] /\ \A i \in Left : asked'[i] = asked[i]
      /\ m.notify => asked'[m.id] = send_seq
  BY <1>1, <1>2, <1>3 DEF Asked, HandledInv
<1>7. \A k \in DOMAIN nq' :
         \/ k \in 1..n /\ nq'[k] = nq[k]
         \/ k = n + 1 /\ nq'[k].id = m.id /\ nq'[k].seq = send_seq /\ m.notify
  <2>1. CASE m.notify
    <3>1. t \in Tokens /\ t.id = m.id /\ t.seq = send_seq
      BY <1>1, <1>3 DEF t, Tokens
    <3>2. nq' = Append(nq, t)
      BY <1>2, <2>1 DEF Notifying, t
    <3>3. DOMAIN nq' = 1..(n + 1) /\ nq'[n + 1] = t /\ \A k \in 1..n : nq'[k] = nq[k]
      BY <1>4, <3>1, <3>2 DEF n
    <3> QED BY <1>4, <2>1, <3>1, <3>3
  <2>2. CASE ~m.notify
    BY <1>2, <1>4, <2>2 DEF Notifying
  <2> QED BY <2>1, <2>2
<1>8. /\ \A k \in 1..n : /\ asked[nq[k].id] = nq[k].seq
                         /\ 1 <= nq[k].seq /\ nq[k].seq <= send_seq
      /\ \A k, l \in 1..n : k <= l => nq[k].seq <= nq[l].seq
  BY <1>4 DEF HandledInv
<1>9. \A k, l \in DOMAIN nq' : k <= l => nq'[k].seq <= nq'[l].seq
  BY <1>3, <1>4, <1>7, <1>8
<1>10. \A k \in DOMAIN nq' : /\ asked'[nq'[k].id] = nq'[k].seq
                             /\ 1 <= nq'[k].seq /\ nq'[k].seq <= send_seq'
  BY SMTT(30), <1>2, <1>3, <1>4, <1>6, <1>7, <1>8
<1>11. /\ nresp' \in Nat /\ source' \in Seq(Nat) /\ Len(source') = nresp'
       /\ handled' \in Seq(Nat)
       /\ \A r \in 1..nresp' : source'[r] < executed'
  BY <1>2 DEF HandledInv
<1>12. \A i, r : /\ InReceived(i, r)' <=> InReceived(i, r)
                 /\ InFlight(i, r)' <=> InFlight(i, r)
                 /\ Arrived(r)' <=> Arrived(r)
  BY <1>2 DEF InReceived, InFlight, Arrived
<1>13. /\ \A r \in 1..nresp' : Arrived(r)' \/ InFlight(Len(m2h), r)'
       /\ \A p \in DOMAIN m2h' : \A r \in 1..nresp' :
            1 <= source'[r] /\ source'[r] <= wake_seq(m2h'[p]) =>
              Arrived(r)' \/ InFlight(p - 1, r)'
  <2> HIDE DEF InReceived, InFlight, Arrived
  <2> QED BY <1>2, <1>12 DEF HandledInv
<1>14. \A p \in Notified' :
         LET s == asked'[receive_queue'[p].id] IN
         receive_queue'[p].id \notin early' =>
         /\ 1 <= s /\ s < executed'
         /\ \A r \in 1..nresp' :
              source'[r] = s => r \in ToSet(handled') \/ InReceived(p - 1, r)'
  <2> HIDE DEF InReceived
  <2>1. \A p \in Notified : asked'[receive_queue[p].id] = asked[receive_queue[p].id]
    BY <1>4, <1>6
  <2> QED BY <1>2, <1>5, <1>12, <2>1 DEF HandledInv
<1>15. \A i \in Ids : completed'[i] = 1 /\ main' # "done" =>
         /\ i \in Left'
         /\ i \notin early' =>
              /\ 1 <= asked'[i] /\ asked'[i] < executed'
              /\ \A r \in 1..nresp' : asked'[i] = source'[r] => r \in ToSet(handled')
  <2> SUFFICES ASSUME NEW i \in Ids, completed[i] = 1, main # "done"
               PROVE  /\ i \in Left'
                      /\ i \notin early' =>
                           /\ 1 <= asked'[i] /\ asked'[i] < executed
                           /\ \A r \in 1..nresp : asked'[i] = source[r] => r \in ToSet(handled)
    BY <1>2
  <2>1. /\ i \in Left
        /\ i \notin early =>
             /\ 1 <= asked[i] /\ asked[i] < executed
             /\ \A r \in 1..nresp : asked[i] = source[r] => r \in ToSet(handled)
    BY DEF HandledInv
  <2>2. i \notin early' => i \notin early
    BY <1>2
  <2>3. asked'[i] = asked[i] /\ i \in Left'
    BY <1>1, <1>6, <2>1
  <2> QED BY <2>1, <2>2, <2>3
<1> QED BY <1>2, <1>6, <1>9, <1>10, <1>11, <1>13, <1>14, <1>15 DEF HandledInv

(* The frame in front is taken in. *)
LEMMA HandledInput ==
  ASSUME LinkInv, TokenInv, HandledInv, InputEvent
  PROVE  HandledInv'
<1>1. PICK k \in Nat, d \in Nat : Input(k, d)
  BY Inputting
<1> DEFINE nq == notify_queue
           n  == Len(nq)
           rq == receive_queue
           l  == Len(rq)
           f  == Head(m2h)
           w  == Len(m2h)
<1>2. /\ k \in 0..n /\ d \in {0, 1} /\ (d = 1 <=> f.data # 0) /\ f \in Frames
      /\ \A i \in 1..n : Wakes(nq[i].seq, f) <=> i <= k
      /\ early' = IF Wraps(f) THEN early \cup {nq[i].id : i \in 1..k} ELSE early
      /\ nq' \in Seq(Tokens) /\ Len(nq') = n - k
      /\ \A i \in 1..(n - k) : nq'[i] = nq[k + i]
      /\ rq' \in Seq(Received) /\ Len(rq') = l + k + d
      /\ \A i \in 1..l : rq'[i] = rq[i]
      /\ \A i \in 1..k : rq'[l + i] = [kind |-> "notify", id |-> nq[i].id]
      /\ d = 1 => rq'[l + k + 1] = [kind |-> "data", id |-> f.data]
      /\ m2h' = Tail(m2h)
  BY <1>1 DEF Input
<1>3. /\ UNCHANGED <<nresp, source, handled, asked, executed, completed, taken, main, send_seq>>
      /\ bg = "input"
  BY DEF InputEvent, countVars, histVars, serialhdl
<1>4. /\ nq \in Seq(Tokens) /\ DOMAIN nq = 1..n /\ n \in Nat
      /\ rq \in Seq(Received) /\ DOMAIN rq = 1..l /\ l \in Nat
      /\ m2h \in Seq(Frames) /\ m2h # <<>>
  <2>1. nq \in Seq(Tokens) /\ rq \in Seq(Received) /\ m2h \in Seq(Frames) /\ m2h # <<>>
    BY <1>3, TokenFacts, FrontFrame
  <2> QED BY <2>1
<1>5. /\ w \in Nat \ {0} /\ f = m2h[1] /\ DOMAIN m2h = 1..w
      /\ Len(m2h') = w - 1 /\ DOMAIN m2h' = 1..(w - 1)
      /\ \A p \in 1..(w - 1) : m2h'[p] = m2h[p + 1]
  <2>1. /\ Tail(m2h) \in Seq(Frames) /\ Len(Tail(m2h)) = w - 1
        /\ \A p \in 1..Len(Tail(m2h)) : Tail(m2h)[p] = m2h[p + 1]
    BY <1>4, HeadTailProperties
  <2> QED BY <1>2, <1>4, <2>1
<1>6. /\ DOMAIN nq' = 1..(n - k) /\ DOMAIN rq' = 1..(l + k + d)
  <2>1. nq' \in Seq(Tokens) /\ Len(nq') = n - k /\ rq' \in Seq(Received) /\ Len(rq') = l + k + d
    BY <1>2
  <2> HIDE DEF n, l
  <2> QED BY <2>1
<1>7. f.rseq \in Nat /\ f.rseq <= executed /\ executed \in Nat
  <2>1. f.rseq \in Nat
    BY <1>2 DEF Frames
  <2>2. f.rseq <= executed /\ executed \in Nat
    BY <1>5 DEF LinkInv
  <2> QED BY <2>1, <2>2
<1>8. wake_seq(f) \in Int /\ wake_seq(f) < executed
  BY <1>7 DEF wake_seq
<1> HIDE DEF nq, n, rq, l, f, w
<1>9. \A i, r : i \in 0..l /\ InReceived(i, r) => \E p \in 1..i : rq'[p].kind = "data" /\ rq'[p].id = r
  <2> SUFFICES ASSUME NEW i \in 0..l, NEW r, NEW p \in 1..i, rq[p].kind = "data", rq[p].id = r
               PROVE  rq'[p].kind = "data" /\ rq'[p].id = r
    BY DEF InReceived, rq
  <2>1. p \in 1..l
    BY <1>4
  <2> QED BY <1>2, <2>1
<1>10. ASSUME NEW r, Arrived(r) PROVE Arrived(r)'
  <2>1. CASE InReceived(l, r)
    <3>1. PICK p \in 1..l : rq'[p].kind = "data" /\ rq'[p].id = r
      BY <1>4, <1>9, <2>1
    <3>2. p \in 1..(l + k + d) /\ l + k + d = Len(receive_queue')
      BY <1>2, <1>4 DEF rq
    <3> QED BY <3>1, <3>2 DEF Arrived, InReceived, rq
  <2>2. CASE r \in ToSet(handled)
    BY <1>3, <2>2 DEF Arrived
  <2> QED BY <1>10, <2>1, <2>2 DEF Arrived, l, rq
<1>11. ASSUME NEW r, r = f.data, r # 0 PROVE Arrived(r)'
  <2>1. d = 1 /\ rq'[l + k + 1].kind = "data" /\ rq'[l + k + 1].id = r
    BY <1>2, <1>11
  <2>2. l + k + 1 \in 1..(l + k + d) /\ l + k + d = Len(receive_queue')
    BY <1>2, <1>4, <2>1 DEF rq
  <2> QED BY <2>1, <2>2 DEF Arrived, InReceived, rq
<1>12. ASSUME NEW r, r # 0, NEW p \in 1..w, InFlight(p, r)
       PROVE  Arrived(r)' \/ InFlight(p - 1, r)'
  <2>1. PICK j \in 1..p : m2h[j].data = r
    BY <1>12 DEF InFlight
  <2>2. CASE j = 1
    BY <1>5, <1>11, <1>12, <2>1, <2>2
  <2>3. CASE j # 1
    <3>1. j - 1 \in 1..(p - 1) /\ j - 1 \in 1..(w - 1) /\ (j - 1) + 1 = j
      BY <1>5, <2>1, <2>3
    <3>2. m2h'[j - 1] = m2h[j]
      BY <1>5, <3>1
    <3> QED BY <2>1, <3>1, <3>2 DEF InFlight
  <2> QED BY <2>2, <2>3
<1>13. ASSUME NEW r \in 1..nresp
       PROVE  Arrived(r)' \/ \E j \in 1..(w - 1) : m2h'[j].data = r
  <2>1. Arrived(r) \/ InFlight(w, r)
    BY DEF HandledInv, w
  <2>2. PICK p \in 1..w : p = w
    BY <1>5
  <2>3. Arrived(r)' \/ InFlight(p - 1, r)'
    <3>1. r # 0
      OBVIOUS
    <3> QED BY <1>10, <1>12, <2>1, <2>2, <3>1
  <2> QED BY <2>2, <2>3 DEF InFlight
<1>14. ASSUME NEW p \in 1..(w - 1), NEW r \in 1..nresp,
              1 <= source[r], source[r] <= wake_seq(m2h'[p])
       PROVE  Arrived(r)' \/ InFlight(p - 1, r)'
  <2>1. p + 1 \in DOMAIN m2h /\ m2h'[p] = m2h[p + 1] /\ (p + 1) - 1 = p /\ p \in 1..w
    BY <1>5
  <2>2. Arrived(r) \/ InFlight((p + 1) - 1, r)
    BY <1>14, <2>1 DEF HandledInv
  <2>3. Arrived(r) \/ InFlight(p, r)
    BY <2>1, <2>2
  <2>4. r # 0
    OBVIOUS
  <2> QED BY <1>10, <1>12, <2>1, <2>3, <2>4
<1>15. /\ \A i \in 1..n : /\ asked[nq[i].id] = nq[i].seq
                          /\ 1 <= nq[i].seq /\ nq[i].seq <= send_seq
       /\ \A i, j \in 1..n : i <= j => nq[i].seq <= nq[j].seq
       /\ \A i \in 1..n : nq[i].seq \in Nat
  <2>1. \A i \in 1..n : nq[i].seq \in Nat
    BY <1>4, TokenFacts DEF nq
  <2> QED BY <1>4, <2>1 DEF HandledInv, nq
<1>16. \A i \in 1..(n - k) : k + i \in 1..n /\ nq'[i] = nq[k + i]
  <2>1. k \in 0..n /\ n \in Nat
    BY <1>2, <1>4
  <2>2. \A i \in 1..(n - k) : k + i \in 1..n
    BY <2>1
  <2>3. \A i \in 1..(n - k) : nq'[i] = nq[k + i]
    BY <1>2
  <2> QED BY <2>2, <2>3
<1>17. \A i \in DOMAIN nq' : /\ asked'[nq'[i].id] = nq'[i].seq
                             /\ 1 <= nq'[i].seq /\ nq'[i].seq <= send_seq'
  BY <1>3, <1>6, <1>15, <1>16
<1>18. ASSUME NEW i \in DOMAIN nq', NEW j \in DOMAIN nq', i <= j
       PROVE  nq'[i].seq <= nq'[j].seq
  <2>1. /\ k + i \in 1..n /\ k + j \in 1..n /\ nq'[i] = nq[k + i] /\ nq'[j] = nq[k + j]
        /\ k + i <= k + j
    BY <1>6, <1>16, <1>18
  <2> QED BY <1>15, <2>1
<1>19. ASSUME NEW p \in Notified'
       PROVE  LET s == asked[rq'[p].id] IN
              rq'[p].id \notin early' =>
              /\ 1 <= s /\ s < executed
              /\ \A r \in 1..nresp :
                   source[r] = s => r \in ToSet(handled) \/ InReceived(p - 1, r)'
  <2>1. p \in 1..(l + k + d) /\ rq'[p].kind = "notify"
    BY <1>6 DEF Notified, rq
  <2>0. SUFFICES ASSUME rq'[p].id \notin early'
                 PROVE  /\ 1 <= asked[rq'[p].id] /\ asked[rq'[p].id] < executed
                        /\ \A r \in 1..nresp : source[r] = asked[rq'[p].id] =>
                             r \in ToSet(handled) \/ InReceived(p - 1, r)'
    OBVIOUS
  <2>2. CASE p \in 1..l
    <3>0. rq'[p].id \notin early
      BY <1>2, <2>0
    <3>1. rq'[p] = rq[p] /\ p \in Notified
      BY <1>2, <1>4, <2>1, <2>2 DEF Notified, rq
    <3>2. /\ 1 <= asked[rq[p].id] /\ asked[rq[p].id] < executed
          /\ \A r \in 1..nresp : source[r] = asked[rq[p].id] =>
               r \in ToSet(handled) \/ InReceived(p - 1, r)
      BY <3>0, <3>1 DEF HandledInv, rq
    <3>3. \A r : InReceived(p - 1, r) => InReceived(p - 1, r)'
      <4>1. p - 1 \in 0..l
        BY <1>4, <2>2
      <4> QED BY <1>9, <4>1 DEF InReceived, rq
    <3> HIDE DEF InReceived
    <3> QED BY <3>1, <3>2, <3>3
  <2>3. CASE p - l \in 1..k
    <3> DEFINE i == p - l
    <3>1. l + i = p /\ i \in 1..n /\ i <= k
      BY <1>2, <1>4, <2>1, <2>3
    <3>2. rq'[l + i] = [kind |-> "notify", id |-> nq[i].id]
      BY <1>2, <2>3
    <3>3. rq'[p].id = nq[i].id
      BY <3>1, <3>2
    <3> HIDE DEF i
    <3>4. asked[rq'[p].id] = nq[i].seq /\ 1 <= nq[i].seq /\ nq[i].seq \in Nat
      BY <1>15, <3>1, <3>3
    <3>5. nq[i].seq <= wake_seq(f)
      <4>1. Wakes(nq[i].seq, f)
        BY <1>2, <3>1
      <4>2. ~Wraps(f)
        BY <1>2, <2>0, <2>3, <3>1, <3>3
      <4> QED BY <4>1, <4>2 DEF Wakes
    <3>6. ASSUME NEW r \in 1..nresp, source[r] = nq[i].seq
          PROVE  r \in ToSet(handled) \/ InReceived(p - 1, r)'
      <4>1. 1 \in DOMAIN m2h /\ 1 <= source[r] /\ source[r] <= wake_seq(m2h[1])
        BY <1>5, <3>4, <3>5, <3>6
      <4>2. Arrived(r) \/ InFlight(1 - 1, r)
        BY <4>1 DEF HandledInv
      <4>3. ~InFlight(1 - 1, r)
        BY DEF InFlight
      <4>4. r \in ToSet(handled) \/ InReceived(l, r)
        BY <4>2, <4>3 DEF Arrived, l, rq
      <4>5. InReceived(l, r) => InReceived(p - 1, r)'
        <5>1. l \in 0..l /\ \A j \in 1..l : j \in 1..(p - 1)
          BY <1>4, <2>1, <2>3
        <5>2. ASSUME InReceived(l, r)
              PROVE  \E j \in 1..(p - 1) : rq'[j].kind = "data" /\ rq'[j].id = r
          BY <1>9, <5>1, <5>2
        <5> QED BY <5>2 DEF InReceived, rq
      <4> QED BY <4>4, <4>5
    <3>7. /\ 1 <= asked[rq'[p].id] /\ asked[rq'[p].id] < executed
          /\ \A r \in 1..nresp : source[r] = asked[rq'[p].id] =>
               r \in ToSet(handled) \/ InReceived(p - 1, r)'
      <4>1. 1 <= asked[rq'[p].id] /\ asked[rq'[p].id] < executed
        BY <1>7, <1>8, <3>4, <3>5
      <4> QED BY <3>4, <3>6, <4>1
    <3> QED BY <3>7
  <2>4. CASE p = l + k + 1 /\ d = 1
    <3>1. rq'[p].kind = "data"
      BY <1>2, <2>4
    <3> QED BY <2>1, <3>1
  <2>5. p \in 1..l \/ p - l \in 1..k \/ (p = l + k + 1 /\ d = 1)
    BY SMTT(30), <1>2, <1>4, <2>1
  <2> QED BY <2>2, <2>3, <2>4, <2>5
<1>20. Left' = Left
  BY <1>3 DEF Left
<1>21. /\ nresp' \in Nat /\ source' \in Seq(Nat) /\ Len(source') = nresp'
       /\ handled' \in Seq(Nat) /\ asked' \in [Ids -> Nat]
       /\ \A r \in 1..nresp' : source'[r] < executed'
       /\ \A i \in Ids : completed'[i] = 1 /\ main' # "done" =>
         /\ i \in Left'
         /\ i \notin early' =>
              /\ 1 <= asked'[i] /\ asked'[i] < executed'
              /\ \A r \in 1..nresp' : asked'[i] = source'[r] => r \in ToSet(handled')
  <2>1. early \subseteq early'
    BY <1>2
  <2> QED BY <1>3, <1>20, <2>1 DEF HandledInv
<1>22. \A r \in 1..nresp' : Arrived(r)' \/ InFlight(Len(m2h), r)'
  <2>1. Len(m2h)' = w - 1
    BY <1>5
  <2> QED BY <1>3, <1>13, <2>1 DEF InFlight
<1>23. \A p \in DOMAIN m2h' : \A r \in 1..nresp' :
            1 <= source'[r] /\ source'[r] <= wake_seq(m2h'[p]) =>
              Arrived(r)' \/ InFlight(p - 1, r)'
  BY <1>3, <1>5, <1>14
<1>24. \A p \in Notified' :
         LET s == asked'[receive_queue'[p].id] IN
         receive_queue'[p].id \notin early' =>
         /\ 1 <= s /\ s < executed'
         /\ \A r \in 1..nresp' :
              source'[r] = s => r \in ToSet(handled') \/ InReceived(p - 1, r)'
  BY <1>3, <1>19 DEF rq
<1> QED BY <1>17, <1>18, <1>21, <1>22, <1>23, <1>24 DEF HandledInv, nq

(* Python takes in the front of receive_queue. *)
LEMMA HandledPull ==
  ASSUME LinkInv, TokenInv, HandledInv, Pull
  PROVE  HandledInv'
<1>1. /\ UNCHANGED <<nresp, source, early, asked, executed, m2h, notify_queue, taken, main, send_seq>>
      /\ puller = "pull" /\ main # "done" /\ send_seq \in Nat
  BY DEF Pull, allQueues, blockVars, mcuVars, countVars, histVars, TokenInv, LinkInv
<1>2. CASE UNCHANGED <<receive_queue, handled, completed>>
  BY <1>1, <1>2, HandledAlone
<1>3. CASE ~UNCHANGED <<receive_queue, handled, completed>>
  <2> DEFINE rq == receive_queue
             e  == Head(rq)
             l  == Len(rq)
  <2>1. /\ rq # <<>> /\ rq' = Tail(rq)
        /\ \/ /\ e.kind = "notify"
              /\ completed' = [completed EXCEPT ![e.id] = @ + 1]
              /\ handled' = handled
           \/ /\ e.kind = "data"
              /\ handled' = Append(handled, e.id)
              /\ completed' = completed
    BY <1>3 DEF Pull
  <2>2. /\ rq \in Seq(Received) /\ DOMAIN rq = 1..l /\ l \in Nat \ {0} /\ e = rq[1]
        /\ e \in Received
    <3>1. rq \in Seq(Received)
      BY TokenFacts
    <3> QED BY <2>1, <3>1
  <2>3. /\ Len(rq') = l - 1 /\ DOMAIN rq' = 1..(l - 1)
        /\ \A i \in 1..(l - 1) : rq'[i] = rq[i + 1]
    <3>1. /\ Tail(rq) \in Seq(Received) /\ Len(Tail(rq)) = l - 1
          /\ \A i \in 1..Len(Tail(rq)) : Tail(rq)[i] = rq[i + 1]
      BY <2>1, <2>2, HeadTailProperties
    <3> QED BY <2>1, <2>2, <3>1
  <2>4. handled \in Seq(Nat)
    BY DEF HandledInv
  <2>5. /\ handled' \in Seq(Nat) /\ ToSet(handled) \subseteq ToSet(handled')
        /\ e.kind = "data" => e.id \in ToSet(handled')
    <3>1. CASE e.kind = "notify" /\ handled' = handled
      BY <2>4, <3>1
    <3>2. CASE e.kind = "data" /\ handled' = Append(handled, e.id)
      <4>1. e.id \in Nat
        BY <2>2, <3>2 DEF Received
      <4> DEFINE n == Len(handled)
      <4>2. /\ handled' \in Seq(Nat) /\ DOMAIN handled' = 1..(n + 1) /\ handled'[n + 1] = e.id
            /\ \A i \in 1..n : handled'[i] = handled[i]
            /\ DOMAIN handled = 1..n /\ n \in Nat
        BY <2>4, <3>2, <4>1
      <4> HIDE DEF n, e
      <4>3. n + 1 \in DOMAIN handled' /\ \A i \in DOMAIN handled : i \in DOMAIN handled'
        BY <4>2
      <4>4. ToSet(handled) \subseteq ToSet(handled')
        BY <4>2, <4>3 DEF ToSet
      <4>5. e.id \in ToSet(handled')
        BY <4>2, <4>3 DEF ToSet
      <4> QED BY <4>2, <4>4, <4>5
    <3> QED BY <2>1, <3>1, <3>2
  <2> HIDE DEF rq, e, l
  <2>6. ASSUME NEW i \in 0..l, NEW r, InReceived(i, r)
        PROVE  r \in ToSet(handled') \/ \E p \in 1..(i - 1) : rq'[p].kind = "data" /\ rq'[p].id = r
    <3>1. PICK p \in 1..i : rq[p].kind = "data" /\ rq[p].id = r
      BY <2>6 DEF InReceived, rq
    <3>2. CASE p = 1
      BY <2>2, <2>5, <3>1, <3>2
    <3>3. CASE p # 1
      <4>1. p - 1 \in 1..(i - 1) /\ p - 1 \in 1..(l - 1) /\ (p - 1) + 1 = p
        BY <2>2, <3>1, <3>3
      <4>2. rq'[p - 1] = rq[p]
        BY <2>3, <4>1
      <4> QED BY <3>1, <4>1, <4>2
    <3> QED BY <3>2, <3>3
  <2>7. ASSUME NEW r, Arrived(r) PROVE Arrived(r)'
    <3>1. CASE r \in ToSet(handled)
      BY <2>5, <3>1 DEF Arrived
    <3>2. CASE InReceived(l, r)
      <4>1. l \in 0..l
        BY <2>2
      <4>2. PICK i \in 0..l : i = l
        BY <4>1
      <4>3. r \in ToSet(handled') \/ \E p \in 1..(l - 1) : rq'[p].kind = "data" /\ rq'[p].id = r
        BY <2>6, <3>2, <4>2
      <4> QED BY <2>3, <4>3 DEF Arrived, InReceived, rq
    <3> QED BY <2>7, <3>1, <3>2 DEF Arrived, l, rq
  <2>8. \A i, r : InFlight(i, r)' <=> InFlight(i, r)
    BY <1>1 DEF InFlight
  <2>9. /\ \A r \in 1..nresp' : Arrived(r)' \/ InFlight(Len(m2h), r)'
        /\ \A p \in DOMAIN m2h' : \A r \in 1..nresp' :
             1 <= source'[r] /\ source'[r] <= wake_seq(m2h'[p]) =>
               Arrived(r)' \/ InFlight(p - 1, r)'
    <3>1. \A r \in 1..nresp : Arrived(r) \/ \E p \in 1..Len(m2h) : m2h[p].data = r
      BY DEF HandledInv, InFlight
    <3>2. \A r \in 1..nresp' : Arrived(r)' \/ InFlight(Len(m2h), r)'
      BY <1>1, <2>7, <3>1 DEF InFlight
    <3>3. \A p \in DOMAIN m2h : \A r \in 1..nresp :
            1 <= source[r] /\ source[r] <= wake_seq(m2h[p]) => Arrived(r) \/ InFlight(p - 1, r)
      BY DEF HandledInv
    <3> HIDE DEF InFlight, Arrived, wake_seq
    <3>4. \A p \in DOMAIN m2h : \A r \in 1..nresp :
            1 <= source[r] /\ source[r] <= wake_seq(m2h[p]) => Arrived(r)' \/ InFlight(p - 1, r)'
      BY <2>7, <2>8, <3>3
    <3> QED BY <1>1, <3>2, <3>4
  <2>10. ASSUME NEW p \in Notified'
         PROVE  LET s == asked[rq'[p].id] IN
                rq'[p].id \notin early =>
                /\ 1 <= s /\ s < executed
                /\ \A r \in 1..nresp :
                     source[r] = s => r \in ToSet(handled') \/ InReceived(p - 1, r)'
    <3>0. SUFFICES ASSUME rq'[p].id \notin early
                   PROVE  /\ 1 <= asked[rq'[p].id] /\ asked[rq'[p].id] < executed
                          /\ \A r \in 1..nresp : source[r] = asked[rq'[p].id] =>
                               r \in ToSet(handled') \/ InReceived(p - 1, r)'
      OBVIOUS
    <3>1. p \in 1..(l - 1) /\ rq'[p].kind = "notify"
      BY <2>3 DEF Notified, rq
    <3>2. rq'[p] = rq[p + 1] /\ p + 1 \in 1..l /\ (p + 1) - 1 = p /\ p \in 0..l
      BY <2>2, <2>3, <3>1
    <3>3. p + 1 \in Notified
      BY <2>2, <3>1, <3>2 DEF Notified, rq
    <3>4. /\ 1 <= asked[rq[p + 1].id] /\ asked[rq[p + 1].id] < executed
          /\ \A r \in 1..nresp :
               source[r] = asked[rq[p + 1].id] => r \in ToSet(handled) \/ InReceived((p + 1) - 1, r)
      BY <3>0, <3>2, <3>3 DEF HandledInv, rq
    <3>5. \A r : InReceived(p, r) => r \in ToSet(handled') \/ InReceived(p - 1, r)'
      BY <2>6, <3>2 DEF InReceived, rq
    <3>6. \A r \in 1..nresp :
               source[r] = asked[rq[p + 1].id] => r \in ToSet(handled') \/ InReceived(p - 1, r)'
      <4> HIDE DEF InReceived
      <4>1. \A r \in 1..nresp :
               source[r] = asked[rq[p + 1].id] => r \in ToSet(handled) \/ InReceived(p, r)
        BY <3>2, <3>4
      <4> QED BY <2>5, <3>5, <4>1
    <3> HIDE DEF InReceived
    <3> QED BY <3>2, <3>4, <3>6
  <2>11. Left' = Left
    BY <1>1 DEF Left
  <2>12. ASSUME NEW i \in Ids, completed'[i] = 1
         PROVE  /\ i \in Left
                /\ i \notin early =>
                     /\ 1 <= asked[i] /\ asked[i] < executed
                     /\ \A r \in 1..nresp : asked[i] = source[r] => r \in ToSet(handled')
    <3>1. CASE completed[i] = 1
      <4>1. /\ i \in Left
            /\ i \notin early =>
                 /\ 1 <= asked[i] /\ asked[i] < executed
                 /\ \A r \in 1..nresp : asked[i] = source[r] => r \in ToSet(handled)
        BY <1>1, <3>1 DEF HandledInv
      <4> QED BY <2>5, <4>1
    <3>2. CASE completed[i] # 1
      <4>1. e.kind = "notify" /\ e.id = i
        BY <2>1, <2>12, <3>2 DEF TokenInv
      <4>2. 1 \in Notified /\ receive_queue[1].id = i
        BY <2>2, <4>1 DEF Notified, rq
      <4>3. i \in Left
        BY <4>2 DEF TokenInv
      <4>4. i \notin early =>
            /\ 1 <= asked[i] /\ asked[i] < executed
            /\ \A r \in 1..nresp :
                 source[r] = asked[i] => r \in ToSet(handled) \/ InReceived(1 - 1, r)
        BY <4>2 DEF HandledInv
      <4>5. \A r : ~InReceived(1 - 1, r)
        BY DEF InReceived
      <4> HIDE DEF InReceived
      <4> QED BY <2>5, <4>3, <4>4, <4>5
    <3> QED BY <3>1, <3>2
  <2>13. /\ nresp' \in Nat /\ source' \in Seq(Nat) /\ Len(source') = nresp'
         /\ asked' \in [Ids -> Nat] /\ \A r \in 1..nresp' : source'[r] < executed'
         /\ \A k, j \in DOMAIN notify_queue' :
              k <= j => notify_queue'[k].seq <= notify_queue'[j].seq
         /\ \A k \in DOMAIN notify_queue' :
              /\ asked'[notify_queue'[k].id] = notify_queue'[k].seq
              /\ 1 <= notify_queue'[k].seq /\ notify_queue'[k].seq <= send_seq'
    BY <1>1 DEF HandledInv
  <2>14. \A p \in Notified' :
         LET s == asked'[receive_queue'[p].id] IN
         receive_queue'[p].id \notin early' =>
         /\ 1 <= s /\ s < executed'
         /\ \A r \in 1..nresp' :
              source'[r] = s => r \in ToSet(handled') \/ InReceived(p - 1, r)'
    <3> HIDE DEF InReceived
    <3> QED BY <1>1, <2>10 DEF rq
  <2>15. \A i \in Ids : completed'[i] = 1 /\ main' # "done" =>
         /\ i \in Left'
         /\ i \notin early' =>
              /\ 1 <= asked'[i] /\ asked'[i] < executed'
              /\ \A r \in 1..nresp' : asked'[i] = source'[r] => r \in ToSet(handled')
    BY <1>1, <2>11, <2>12
  <2> QED BY <2>5, <2>9, <2>13, <2>14, <2>15 DEF HandledInv
<1> QED BY <1>2, <1>3

(* The micro-controller sends: a response, an acknowledgement or both. *)
LEMMA HandledAnswer ==
  ASSUME LinkInv, TokenInv, HandledInv,
         UNCHANGED <<handled, asked, early, receive_queue, notify_queue, completed, taken, main,
                     send_seq>>,
         NEW w \in Nat, w = Len(m2h), m2h' \in Seq(Frames), Len(m2h') >= w,
         \A p \in 1..w : m2h'[p] = m2h[p],
         executed' \in Nat, executed <= executed', source' \in Seq(Nat), nresp' = Len(source'),
         \A r \in 1..nresp : source'[r] = source[r],
         nresp' = nresp \/ /\ nresp' = nresp + 1
                           /\ w + 1 \in DOMAIN m2h' /\ m2h'[w + 1].data = nresp + 1
                           /\ \/ source'[nresp + 1] = 0
                              \/ /\ source'[nresp + 1] = executed
                                 /\ ~(executed <= wake_seq(m2h'[w + 1]))
                           /\ source'[nresp + 1] < executed'
  PROVE  HandledInv'
<1>1. /\ executed \in Nat /\ 1 <= executed /\ m2h \in Seq(Frames)
      /\ DOMAIN m2h = 1..w /\ DOMAIN m2h' = 1..Len(m2h') /\ Len(m2h') \in Nat
  <2>1. executed \in Nat /\ receive_seq \in Nat /\ 1 <= receive_seq /\ receive_seq <= executed
        /\ m2h \in Seq(Frames)
    BY DEF LinkInv
  <2> QED BY <2>1
<1>2. /\ nresp \in Nat /\ source \in Seq(Nat) /\ Len(source) = nresp
      /\ handled' \in Seq(Nat) /\ asked' \in [Ids -> Nat]
      /\ \A r \in 1..nresp : source[r] < executed
      /\ \A r \in 1..nresp : source[r] \in Nat
  <2>1. /\ nresp \in Nat /\ source \in Seq(Nat) /\ Len(source) = nresp
        /\ handled' \in Seq(Nat) /\ asked' \in [Ids -> Nat]
        /\ \A r \in 1..nresp : source[r] < executed
    BY DEF HandledInv
  <2>2. \A r \in 1..nresp : source[r] \in Nat
    BY <2>1
  <2> QED BY <2>1, <2>2
<1>3. \A p \in 1..w : m2h[p].rseq \in Nat /\ m2h[p].rseq <= executed /\ m2h[p].data \in Nat
  <2>1. \A p \in 1..w : m2h[p] \in Frames
    BY <1>1
  <2>2. \A p \in 1..w : m2h[p].rseq <= executed
    BY <1>1 DEF LinkInv
  <2> QED BY <2>1, <2>2 DEF Frames
<1>4. \A p \in 1..w : ~(executed <= wake_seq(m2h[p]))
  <2> SUFFICES ASSUME NEW p \in 1..w PROVE ~(executed <= wake_seq(m2h[p]))
    OBVIOUS
  <2> DEFINE x == m2h[p].rseq
             y == IF m2h[p].data = 0 THEN 0 ELSE 1
  <2>1. x \in Nat /\ x <= executed /\ y \in Nat /\ wake_seq(m2h[p]) = x - 1 - y
    BY <1>3 DEF wake_seq
  <2> HIDE DEF x, y
  <2> QED BY <1>1, <2>1
<1>5. nresp' \in Nat /\ \A r \in 1..nresp' : source'[r] < executed'
  <2>1. \A r \in 1..nresp' : r \in 1..nresp \/ (r = nresp + 1 /\ nresp' = nresp + 1)
    BY <1>2
  <2>2. \A r \in 1..nresp : source'[r] < executed'
    <3> SUFFICES ASSUME NEW r \in 1..nresp PROVE source'[r] < executed'
      OBVIOUS
    <3>1. source'[r] \in Nat /\ source'[r] < executed
      BY <1>2
    <3> QED BY <1>1, <3>1
  <2>3. nresp' = nresp + 1 => source'[nresp + 1] < executed'
    BY <1>2
  <2>4. nresp' \in Nat
    BY <1>2
  <2> QED BY <2>1, <2>2, <2>3, <2>4
<1>6. \A i, r : InReceived(i, r)' <=> InReceived(i, r)
  BY DEF InReceived
<1>7. \A r : Arrived(r)' <=> Arrived(r)
  BY DEF Arrived, InReceived
<1>8. ASSUME NEW p \in 1..Len(m2h'), NEW r, NEW i \in 0..w, i <= p - 1, InFlight(i, r)
      PROVE  InFlight(p - 1, r)'
  <2>1. PICK j \in 1..i : m2h[j].data = r
    BY <1>8 DEF InFlight
  <2>2. j \in 1..w /\ j \in 1..(p - 1)
    BY <1>1, <1>8
  <2> QED BY <2>1, <2>2 DEF InFlight
<1>9. \A r \in 1..nresp' : Arrived(r)' \/ InFlight(Len(m2h), r)'
  <2> SUFFICES ASSUME NEW r \in 1..nresp' PROVE Arrived(r)' \/ \E j \in 1..Len(m2h') : m2h'[j].data = r
    BY DEF InFlight
  <2>1. CASE r \in 1..nresp
    <3>1. Arrived(r) \/ \E j \in 1..w : m2h[j].data = r
      BY <2>1 DEF HandledInv, InFlight
    <3>2. \A j \in 1..w : j \in 1..Len(m2h') /\ m2h'[j] = m2h[j]
      BY <1>1
    <3> QED BY <1>7, <3>1, <3>2
  <2>2. CASE r = nresp + 1 /\ nresp' = nresp + 1
    <3>1. w + 1 \in DOMAIN m2h' /\ m2h'[w + 1].data = r
      BY <1>2, <2>2
    <3> QED BY <1>1, <3>1
  <2> QED BY <1>2, <2>1, <2>2
<1>10. ASSUME NEW p \in DOMAIN m2h', NEW r \in 1..nresp',
              1 <= source'[r], source'[r] <= wake_seq(m2h'[p])
       PROVE  Arrived(r)' \/ InFlight(p - 1, r)'
  <2>0. p \in 1..Len(m2h')
    BY <1>1
  <2>1. CASE r \in 1..nresp /\ p \in 1..w
    <3>1. Arrived(r) \/ InFlight(p - 1, r)
      BY <1>1, <1>10, <2>1 DEF HandledInv
    <3>2. p - 1 \in 0..w /\ p - 1 <= p - 1
      BY <2>1
    <3> QED BY <1>7, <1>8, <2>0, <3>1, <3>2
  <2>2. CASE r \in 1..nresp /\ ~(p \in 1..w)
    <3>1. Arrived(r) \/ InFlight(w, r)
      BY <2>2 DEF HandledInv
    <3>2. w \in 0..w /\ w <= p - 1
      BY <2>0, <2>2
    <3> QED BY <1>7, <1>8, <2>0, <3>1, <3>2
  <2>3. CASE r = nresp + 1 /\ nresp' = nresp + 1
    <3>1. source'[r] = executed /\ ~(executed <= wake_seq(m2h'[w + 1]))
      BY <1>2, <1>10, <2>3
    <3>2. p \notin 1..w /\ p # w + 1
      BY <1>4, <1>10, <3>1
    <3>3. w + 1 \in 1..(p - 1) /\ m2h'[w + 1].data = r
      <4>1. m2h'[w + 1].data = r
        BY <1>2, <2>3
      <4>2. p \in Nat /\ 1 <= p /\ ~(p <= w) /\ p # w + 1
        BY <1>1, <2>0, <3>2
      <4> QED BY <4>1, <4>2
    <3> QED BY <3>3 DEF InFlight
  <2> QED BY SMTT(30), <1>2, <2>1, <2>2, <2>3
<1>11. Left' = Left /\ Notified' = Notified
  BY DEF Left, Notified
<1>12. \A r \in 1..nresp' : r \notin 1..nresp => ~(1 <= source'[r] /\ source'[r] < executed)
  <2>1. \A r \in 1..nresp' : r \notin 1..nresp => r = nresp + 1 /\ nresp' = nresp + 1
    BY <1>2
  <2>2. nresp' = nresp + 1 => source'[nresp + 1] = 0 \/ source'[nresp + 1] = executed
    BY <1>2
  <2>3. ~(1 <= 0 /\ 0 < executed) /\ ~(1 <= executed /\ executed < executed)
    BY <1>1
  <2> QED BY <2>1, <2>2, <2>3
<1>13. ASSUME NEW p \in Notified
       PROVE  LET s == asked[receive_queue[p].id] IN
              receive_queue[p].id \notin early =>
              /\ 1 <= s /\ s < executed'
              /\ \A r \in 1..nresp' :
                   source'[r] = s => r \in ToSet(handled) \/ InReceived(p - 1, r)
  <2> DEFINE s == asked[receive_queue[p].id]
  <2>0. SUFFICES ASSUME receive_queue[p].id \notin early
                 PROVE  /\ 1 <= s /\ s < executed'
                        /\ \A r \in 1..nresp' :
                             source'[r] = s => r \in ToSet(handled) \/ InReceived(p - 1, r)
    OBVIOUS
  <2>1. /\ 1 <= s /\ s < executed
        /\ \A r \in 1..nresp :
             source[r] = s => r \in ToSet(handled) \/ InReceived(p - 1, r)
    BY <2>0 DEF HandledInv
  <2>2. s \in Nat
    <3>1. receive_queue[p].id \in Ids
      BY TokenFacts
    <3> QED BY <3>1 DEF HandledInv
  <2> HIDE DEF s, InReceived
  <2>3. s < executed'
    BY <1>1, <2>1, <2>2
  <2>4. ASSUME NEW r \in 1..nresp', source'[r] = s
        PROVE  r \in ToSet(handled) \/ InReceived(p - 1, r)
    BY <1>12, <2>1, <2>4
  <2> QED BY <2>1, <2>3, <2>4 DEF s
<1>14. ASSUME NEW i \in Ids, completed[i] = 1, main # "done"
       PROVE  /\ i \in Left
              /\ i \notin early =>
                   /\ 1 <= asked[i] /\ asked[i] < executed'
                   /\ \A r \in 1..nresp' : asked[i] = source'[r] => r \in ToSet(handled)
  <2>1. /\ i \in Left
        /\ i \notin early =>
             /\ 1 <= asked[i] /\ asked[i] < executed
             /\ \A r \in 1..nresp : asked[i] = source[r] => r \in ToSet(handled)
    BY <1>14 DEF HandledInv
  <2>2. asked[i] \in Nat
    BY DEF HandledInv
  <2>3. i \notin early => asked[i] < executed'
    BY <1>1, <2>1, <2>2
  <2>4. ASSUME i \notin early, NEW r \in 1..nresp', asked[i] = source'[r]
        PROVE  r \in ToSet(handled)
    BY <1>12, <2>1, <2>4
  <2> QED BY <2>1, <2>3, <2>4
<1>15. \A p \in Notified' :
         LET s == asked'[receive_queue'[p].id] IN
         receive_queue'[p].id \notin early' =>
         /\ 1 <= s /\ s < executed'
         /\ \A r \in 1..nresp' :
              source'[r] = s => r \in ToSet(handled') \/ InReceived(p - 1, r)'
  <2> HIDE DEF InReceived
  <2> QED BY <1>6, <1>11, <1>13
<1>16. \A i \in Ids : completed'[i] = 1 /\ main' # "done" =>
         /\ i \in Left'
         /\ i \notin early' =>
              /\ 1 <= asked'[i] /\ asked'[i] < executed'
              /\ \A r \in 1..nresp' : asked'[i] = source'[r] => r \in ToSet(handled')
  BY <1>11, <1>14
<1>17. /\ \A k, j \in DOMAIN notify_queue' :
            k <= j => notify_queue'[k].seq <= notify_queue'[j].seq
       /\ \A k \in DOMAIN notify_queue' :
            /\ asked'[notify_queue'[k].id] = notify_queue'[k].seq
            /\ 1 <= notify_queue'[k].seq /\ notify_queue'[k].seq <= send_seq'
  BY DEF HandledInv
<1> QED BY <1>2, <1>5, <1>9, <1>10, <1>15, <1>16, <1>17 DEF HandledInv

LEMMA HandledMcu ==
  ASSUME LinkInv, TokenInv, HandledInv, McuExecute \/ McuReport
  PROVE  HandledInv'
<1> USE DEF allQueues, blockVars, pullVars, serialhdl
<1>1. /\ UNCHANGED <<handled, asked, early, receive_queue, notify_queue, completed, taken, main, send_seq>>
  BY DEF McuExecute, McuReport
<1>2. /\ executed \in Nat /\ 1 <= executed /\ m2h \in Seq(Frames) /\ nresp \in Nat
      /\ source \in Seq(Nat) /\ Len(source) = nresp
  <2>1. executed \in Nat /\ receive_seq \in Nat /\ 1 <= receive_seq /\ receive_seq <= executed
        /\ m2h \in Seq(Frames)
    BY DEF LinkInv
  <2> QED BY <2>1 DEF HandledInv
<1>3. PICK w \in Nat : w = Len(m2h)
  BY <1>2
<1>4. \A n \in {0, 1} : /\ Response(n) \in Frames /\ Response(n).rseq = executed + n
                        /\ Response(n).data = nresp + 1
  BY <1>2 DEF Response, Frames
<1>5. \A f \in Frames : /\ Append(m2h, f) \in Seq(Frames) /\ Len(Append(m2h, f)) = w + 1
                        /\ Append(m2h, f)[w + 1] = f
                        /\ \A p \in 1..w : Append(m2h, f)[p] = m2h[p]
  BY <1>2, <1>3
<1>6. \A x \in Nat : /\ Append(source, x) \in Seq(Nat) /\ Len(Append(source, x)) = nresp + 1
                     /\ Append(source, x)[nresp + 1] = x
                     /\ \A r \in 1..nresp : Append(source, x)[r] = source[r]
  BY <1>2
<1>7. CASE McuReport
  <2>1. /\ nresp' = nresp + 1 /\ source' = Append(source, 0) /\ m2h' = Append(m2h, Response(0))
        /\ executed' = executed
    BY <1>7 DEF McuReport
  <2>2. /\ m2h' \in Seq(Frames) /\ Len(m2h') = w + 1 /\ m2h'[w + 1].data = nresp + 1
        /\ \A p \in 1..w : m2h'[p] = m2h[p]
    BY <1>4, <1>5, <2>1
  <2>3. w + 1 \in DOMAIN m2h' /\ Len(m2h') >= w
    BY <2>2
  <2>4. /\ source' \in Seq(Nat) /\ Len(source') = nresp' /\ source'[nresp + 1] = 0
        /\ \A r \in 1..nresp : source'[r] = source[r]
    BY <1>6, <2>1
  <2>5. executed' \in Nat /\ executed <= executed' /\ source'[nresp + 1] < executed'
    BY <1>2, <2>1, <2>4
  <2> QED BY <1>1, <1>3, <2>1, <2>2, <2>3, <2>4, <2>5, HandledAnswer
<1>8. CASE McuExecute
  <2>1. PICK respond \in BOOLEAN :
          /\ nresp' = IF respond THEN nresp + 1 ELSE nresp
          /\ source' = IF respond THEN Append(source, executed) ELSE source
          /\ m2h' = (IF respond THEN Append(m2h, Response(1)) ELSE m2h)
                      \o <<[rseq |-> executed + 1, data |-> 0]>>
    BY <1>8 DEF McuExecute
  <2>2. executed' = executed + 1
    BY <1>8 DEF McuExecute
  <2> DEFINE a == [rseq |-> executed + 1, data |-> 0]
  <2>3. a \in Frames
    BY <1>2 DEF Frames
  <2>4. executed' \in Nat /\ executed <= executed'
    BY <1>2, <2>2
  <2>5. CASE ~respond
    <3>1. m2h' = Append(m2h, a) /\ nresp' = nresp /\ source' = source
      BY <1>2, <2>1, <2>3, <2>5
    <3> HIDE DEF a
    <3>2. m2h' \in Seq(Frames) /\ Len(m2h') = w + 1 /\ \A p \in 1..w : m2h'[p] = m2h[p]
      BY <1>5, <2>3, <3>1
    <3>3. Len(m2h') >= w
      BY <3>2
    <3>4. source' \in Seq(Nat) /\ nresp' = Len(source') /\ \A r \in 1..nresp : source'[r] = source[r]
      BY <1>2, <3>1
    <3> QED BY <1>1, <1>3, <2>4, <3>1, <3>2, <3>3, <3>4, HandledAnswer
  <2>6. CASE respond
    <3> DEFINE f == Response(1)
               s == Append(m2h, f)
    <3>0. f \in Frames /\ f.data = nresp + 1 /\ f.rseq = executed + 1
      BY <1>4
    <3> HIDE DEF f, a
    <3>1. s \in Seq(Frames) /\ Len(s) = w + 1 /\ s[w + 1] = f /\ \A p \in 1..w : s[p] = m2h[p]
      BY <1>5, <3>0
    <3>2. m2h' = s \o <<a>> /\ nresp' = nresp + 1 /\ source' = Append(source, executed)
      BY <2>1, <2>6 DEF f, a
    <3> HIDE DEF s
    <3>3. /\ m2h' \in Seq(Frames) /\ Len(m2h') = w + 2 /\ m2h'[w + 1] = f
          /\ \A p \in 1..w : m2h'[p] = m2h[p]
      <4>1. m2h' = Append(s, a)
        BY <2>3, <3>1, <3>2
      <4>2. /\ Append(s, a) \in Seq(Frames) /\ Len(Append(s, a)) = (w + 1) + 1
            /\ \A p \in 1..(w + 1) : Append(s, a)[p] = s[p]
        BY <2>3, <3>1
      <4>3. (w + 1) + 1 = w + 2 /\ w + 1 \in 1..(w + 1) /\ \A p \in 1..w : p \in 1..(w + 1)
        OBVIOUS
      <4> QED BY <3>1, <4>1, <4>2, <4>3
    <3>4. w + 1 \in DOMAIN m2h' /\ Len(m2h') >= w /\ m2h'[w + 1].data = nresp + 1
      BY <3>0, <3>3
    <3>5. ~(executed <= wake_seq(m2h'[w + 1]))
      <4>1. wake_seq(m2h'[w + 1]) = (executed + 1) - 1 - 1
        BY <1>2, <3>0, <3>3 DEF wake_seq
      <4> QED BY <1>2, <4>1
    <3>6. /\ source' \in Seq(Nat) /\ Len(source') = nresp' /\ source'[nresp + 1] = executed
          /\ \A r \in 1..nresp : source'[r] = source[r]
      BY <1>2, <1>6, <3>2
    <3>7. source'[nresp + 1] < executed'
      BY <1>2, <2>2, <3>6
    <3> QED BY <1>1, <1>3, <2>4, <3>2, <3>3, <3>4, <3>5, <3>6, <3>7, HandledAnswer
  <2> QED BY <2>5, <2>6
<1> QED BY <1>7, <1>8

LEMMA HandledKept ==
  ASSUME TimesInv, QueueInv, LinkInv, TokenInv, HandledInv, Next
  PROVE  HandledInv'
<1> USE DEF allQueues, blockVars, pullVars, serialhdl, mcuVars, countVars, histVars, queueVars
<1>0. send_seq \in Nat
  BY DEF LinkInv
<1>1. CASE CommandStart \/ CommandAppend
  <2>1. PICK q \in CQ : Takes(q)
    BY <1>1, Taking
  <2> QED BY <2>1, HandledTake
<1>2. ASSUME \/ \E s \in Senders : SendBatch(s) \/ Kick(s)
             \/ SetClockEst \/ CheckTimers \/ CommandFinish \/ CommandWait \/ Poll
             \/ InputError \/ KickEvent \/ Leave \/ SpuriousWakeup
             \/ DoExit \/ ExitKick \/ Join \/ Tick
      PROVE  HandledInv'
  <2>1. /\ UNCHANGED <<nresp, source, early, handled, asked, executed, m2h, receive_queue,
                       notify_queue, completed, taken>>
        /\ send_seq' \in {send_seq, send_seq + 1}
        /\ main' # "done" => main # "done"
    BY <1>2 DEF SendBatch, send_batch, Kick, SetClockEst, CheckTimers, CommandFinish,
         finish_block, CommandWait, Poll, InputError, KickEvent, Leave, SpuriousWakeup, DoExit,
         ExitKick, Join, Tick
  <2>2. send_seq' \in Nat /\ send_seq <= send_seq'
    BY <1>0, <2>1
  <2> QED BY <1>0, <2>1, <2>2, HandledAlone
<1>3. CASE CompletePending
  <2>1. /\ UNCHANGED <<nresp, source, early, handled, asked, executed, m2h, receive_queue,
                       notify_queue, taken, send_seq>>
        /\ main' = "done"
    BY <1>3 DEF CompletePending
  <2>2. Notified' = Notified
    BY <2>1 DEF Notified
  <2>3. \A n, r : /\ InReceived(n, r)' <=> InReceived(n, r)
                  /\ InFlight(n, r)' <=> InFlight(n, r)
                  /\ Arrived(r)' <=> Arrived(r)
    BY <2>1 DEF InReceived, InFlight, Arrived
  <2>4. /\ \A r \in 1..nresp' : Arrived(r)' \/ InFlight(Len(m2h), r)'
        /\ \A p \in DOMAIN m2h' : \A r \in 1..nresp' :
             1 <= source'[r] /\ source'[r] <= wake_seq(m2h'[p]) =>
               Arrived(r)' \/ InFlight(p - 1, r)'
        /\ \A p \in Notified' :
             LET s == asked'[receive_queue'[p].id] IN
             receive_queue'[p].id \notin early' =>
             /\ 1 <= s /\ s < executed'
             /\ \A r \in 1..nresp' :
                  source'[r] = s => r \in ToSet(handled') \/ InReceived(p - 1, r)'
    <3> HIDE DEF InReceived, InFlight, Arrived
    <3> QED BY <2>1, <2>2, <2>3 DEF HandledInv
  <2>5. /\ nresp' \in Nat /\ source' \in Seq(Nat) /\ Len(source') = nresp'
        /\ handled' \in Seq(Nat) /\ asked' \in [Ids -> Nat]
        /\ \A r \in 1..nresp' : source'[r] < executed'
        /\ \A k, j \in DOMAIN notify_queue' :
             k <= j => notify_queue'[k].seq <= notify_queue'[j].seq
        /\ \A k \in DOMAIN notify_queue' :
              /\ asked'[notify_queue'[k].id] = notify_queue'[k].seq
              /\ 1 <= notify_queue'[k].seq /\ notify_queue'[k].seq <= send_seq'
    BY <2>1 DEF HandledInv
  <2> QED BY <2>1, <2>4, <2>5 DEF HandledInv
<1> QED BY <1>1, <1>2, <1>3, HandledInput, HandledPull, HandledMcu
     DEF Next, Background, Disconnect

-----------------------------------------------------------------------------
(* Not too early *)

(* A message whose min_clock has come is not far from its req_clock. *)
LEMMA RipeNear ==
  ASSUME TimesInv, QueueInv, LinkInv, EarlyInv, NEW q \in CQ, NEW m, Ripe(q, m)
  PROVE  Near(m)
<1>1. CASE \E j \in DOMAIN ready_queue[q] : m = ready_queue[q][j]
  BY <1>1 DEF EarlyInv
<1>2. CASE \E j \in DOMAIN upcoming_queue[q] : m = upcoming_queue[q][j] /\ ~Stalls(m)
  <2>1. PICK j \in DOMAIN upcoming_queue[q] : m = upcoming_queue[q][j] /\ ~Stalls(m)
    BY <1>2
  <2>2. m \in Messages
    <3>1. upcoming_queue[q] \in Seq(Messages)
      BY QueuedFacts
    <3> QED BY <2>1, <3>1
  <2>3. m.req_clock \in Nat /\ m.min_clock \in Nat
    BY <2>2 DEF Messages, QueueMessages
  <2>4. m.req_clock = BACKGROUND_PRIORITY_CLOCK \/ m.req_clock <= m.min_clock + ClockHalf
    BY <2>1 DEF EarlyInv
  <2>5. m.min_clock <= now + scenario.adj
    <3>0. pending \in Nat
      BY DEF LinkInv
    <3>1. /\ ack_clock \in Nat
          /\ est_freq => ack_clock = now + clock_adj
          /\ ~est_freq => ack_clock = 0
      BY <3>0, AckFacts
    <3>2. /\ now \in Nat /\ clock_adj \in Nat /\ scenario.adj \in Nat
          /\ clock_adj <= scenario.adj /\ est_freq \in BOOLEAN
      BY ScenarioFacts DEF TimesInv
    <3> HIDE DEF ack_clock
    <3>3. m.min_clock <= ack_clock
      <4>1. ~(ack_clock < m.min_clock)
        BY <2>1 DEF Stalls
      <4> QED BY <2>3, <3>1, <4>1
    <3> QED BY <2>3, <3>1, <3>2, <3>3
  <2>6. ClockHalf \in Nat /\ now \in Nat /\ scenario.adj \in Nat
    BY QueueAssumption, ScenarioFacts
  <2> QED BY <2>3, <2>4, <2>5, <2>6 DEF Near
<1> QED BY <1>1, <1>2 DEF Ripe

LEMMA EarlyAlone ==
  ASSUME EarlyInv, UNCHANGED <<upcoming_queue, ready_queue, scenario>>,
         now \in Nat, now' \in {now, now + 1}, scenario.adj \in Nat,
         QueueInv, LinkInv, block' = block \/ block' = <<>>, est_freq => est_freq'
  PROVE  EarlyInv'
<1>1. ASSUME NEW m \in Messages, Near(m)
      PROVE  \/ m.req_clock = BACKGROUND_PRIORITY_CLOCK
             \/ m.req_clock <= now' + scenario.adj + ClockHalf
  <2>1. m.req_clock \in Nat /\ ClockHalf \in Nat
    BY QueueAssumption DEF Messages, QueueMessages
  <2>2. \/ m.req_clock = BACKGROUND_PRIORITY_CLOCK
        \/ m.req_clock <= now + scenario.adj + ClockHalf
    BY <1>1 DEF Near
  <2> QED BY <2>1, <2>2
<1>2. ASSUME NEW q \in CQ, NEW i \in DOMAIN ready_queue[q]
      PROVE  \/ ready_queue[q][i].req_clock = BACKGROUND_PRIORITY_CLOCK
             \/ ready_queue[q][i].req_clock <= now' + scenario.adj + ClockHalf
  <2>1. ready_queue[q][i] \in Messages
    <3>1. ready_queue[q] \in Seq(Messages)
      BY QueuedFacts
    <3> QED BY <3>1
  <2>2. Near(ready_queue[q][i])
    BY DEF EarlyInv
  <2> QED BY <1>1, <2>1, <2>2
<1>3. ASSUME NEW i \in DOMAIN block'
      PROVE  \/ block'[i][2].req_clock = BACKGROUND_PRIORITY_CLOCK
             \/ block'[i][2].req_clock <= now' + scenario.adj + ClockHalf
  <2>1. i \in DOMAIN block /\ block'[i] = block[i]
    <3>1. DOMAIN <<>> = {}
      OBVIOUS
    <3> QED BY <3>1
  <2>2. block[i][2] \in Messages
    <3>1. block \in Seq(CQ \X Messages)
      BY DEF LinkInv
    <3>2. block[i] \in CQ \X Messages
      BY <2>1, <3>1
    <3> QED BY <3>2
  <2>3. Near(block[i][2])
    BY <2>1 DEF EarlyInv
  <2> QED BY <1>1, <2>1, <2>2, <2>3
<1>4. \A q \in CQ : Queued(q)' = Queued(q)
  BY DEF Queued
<1>5. ~est_freq' => \A q \in CQ : \A i \in DOMAIN Queued(q)' :
         Queued(q)'[i].min_clock = 0 /\ Queued(q)'[i].req_clock = 0
  <2> HIDE DEF Queued
  <2> QED BY <1>4 DEF EarlyInv
<1>6. \A q \in CQ : \A i \in DOMAIN upcoming_queue'[q] :
         LET m == upcoming_queue'[q][i] IN
         m.req_clock = BACKGROUND_PRIORITY_CLOCK \/ m.req_clock <= m.min_clock + ClockHalf
  BY DEF EarlyInv
<1> QED BY <1>2, <1>3, <1>5, <1>6 DEF EarlyInv, Near

LEMMA EarlyTake ==
  ASSUME TimesInv, QueueInv, LinkInv, EarlyInv, NEW q \in CQ, Takes(q)
  PROVE  EarlyInv'
<1> DEFINE m == Head(Queued(q))
<1>1. /\ UNCHANGED <<now, scenario, est_freq>> /\ m \in Messages /\ Ripe(q, m)
      /\ block' = Append(block, <<q, m>>)
      /\ \A p \in CQ : \A i \in DOMAIN ready_queue'[p] : Ripe(p, ready_queue'[p][i])
      /\ \A p \in CQ : \A i \in DOMAIN upcoming_queue'[p] : \E j \in DOMAIN upcoming_queue[p] :
           upcoming_queue'[p][i] = upcoming_queue[p][j]
      /\ Queued(q)' = Tail(Queued(q)) /\ Queued(q) # <<>>
      /\ \A p \in CQ \ {q} : Queued(p)' = Queued(p)
  BY DEF Takes
<1> HIDE DEF m, Queued, Ripe
<1>2. \A p \in CQ : \A i \in DOMAIN ready_queue'[p] : Near(ready_queue'[p][i])
  BY <1>1, RipeNear
<1>3. \A p \in CQ : \A i \in DOMAIN upcoming_queue'[p] :
         LET x == upcoming_queue'[p][i] IN
         x.req_clock = BACKGROUND_PRIORITY_CLOCK \/ x.req_clock <= x.min_clock + ClockHalf
  BY <1>1 DEF EarlyInv
<1>4. ASSUME NEW i \in DOMAIN block'
      PROVE  Near(block'[i][2])
  <2> DEFINE n == Len(block)
  <2>1. /\ block \in Seq(CQ \X Messages) /\ <<q, m>> \in CQ \X Messages
    BY <1>1 DEF LinkInv
  <2>2. /\ DOMAIN block' = 1..(n + 1) /\ block'[n + 1] = <<q, m>>
        /\ \A k \in 1..n : block'[k] = block[k]
        /\ DOMAIN block = 1..n /\ n \in Nat
    BY <1>1, <2>1
  <2>3. Near(m)
    BY <1>1, RipeNear
  <2>4. \A k \in 1..n : Near(block[k][2])
    BY <2>2 DEF EarlyInv
  <2> HIDE DEF n, Near
  <2>5. i \in 1..n \/ i = n + 1
    BY <2>2
  <2> QED BY <2>2, <2>3, <2>4, <2>5
<1>5. \A x : Near(x) => \/ x.req_clock = BACKGROUND_PRIORITY_CLOCK
                        \/ x.req_clock <= now' + scenario'.adj + ClockHalf
  BY <1>1 DEF Near
<1>6. ASSUME ~est_freq, NEW p \in CQ, NEW i \in DOMAIN Queued(p)'
      PROVE  Queued(p)'[i].min_clock = 0 /\ Queued(p)'[i].req_clock = 0
  <2>1. CASE p # q
    BY <1>1, <1>6, <2>1 DEF EarlyInv
  <2>2. CASE p = q
    <3> DEFINE s == Queued(q)
    <3>0. s \in Seq(Messages)
      BY QueuedFacts
    <3>1. /\ Tail(s) \in Seq(Messages) /\ Len(Tail(s)) = Len(s) - 1
          /\ \A k \in 1..Len(Tail(s)) : Tail(s)[k] = s[k + 1]
          /\ Len(s) \in Nat /\ DOMAIN s = 1..Len(s)
      BY <1>1, <3>0, HeadTailProperties
    <3> HIDE DEF s
    <3>2. Queued(p)' = Tail(s)
      BY <1>1, <2>2 DEF s
    <3>3. i \in 1..Len(Tail(s)) /\ i + 1 \in DOMAIN s /\ Queued(p)'[i] = s[i + 1]
      BY <3>1, <3>2
    <3>4. s[i + 1].min_clock = 0 /\ s[i + 1].req_clock = 0
      BY <1>6, <3>3 DEF EarlyInv, s
    <3> QED BY <3>3, <3>4
  <2> QED BY <2>1, <2>2
<1> QED BY <1>1, <1>2, <1>3, <1>4, <1>5, <1>6 DEF EarlyInv, Near

LEMMA EarlyPut ==
  ASSUME TimesInv, QueueInv, LinkInv, EarlyInv, NEW s \in Senders, SendBatch(s)
  PROVE  EarlyInv'
<1>1. PICK q \in CQ, batch \in Batches :
           /\ Puts(q, batch)
           /\ ~est_freq => \A i \in DOMAIN batch :
                              batch[i].min_clock = 0 /\ batch[i].req_clock = 0
  BY Putting
<1>2. UNCHANGED <<now, scenario, est_freq, block>>
  BY DEF SendBatch, send_batch, blockVars, clockVars
<1> DEFINE b == [i \in DOMAIN batch |-> WithMinClock(batch[i])]
           n == Len(batch)
<1>3. /\ batch \in Seq(Messages) /\ b \in Seq(Messages) /\ Len(b) = n
      /\ \A i \in 1..n : b[i] = WithMinClock(batch[i])
      /\ upcoming_queue'[q] = upcoming_queue[q] \o b
      /\ \A p \in CQ \ {q} : upcoming_queue'[p] = upcoming_queue[p] /\ Queued(p)' = Queued(p)
      /\ Queued(q)' = Queued(q) \o b /\ UNCHANGED ready_queue
  BY <1>1 DEF Puts
<1> HIDE DEF b, n
<1>4. /\ \A i \in 1..n : /\ b[i].req_clock = batch[i].req_clock
                         /\ batch[i].req_clock = 0 => b[i].min_clock = batch[i].min_clock
                         /\ \/ batch[i].req_clock = BACKGROUND_PRIORITY_CLOCK
                            \/ batch[i].req_clock <= b[i].min_clock + ClockHalf
      /\ DOMAIN batch = 1..n /\ n \in Nat
  <2>1. DOMAIN batch = 1..n /\ n \in Nat /\ \A i \in 1..n : batch[i] \in Messages
    BY <1>3 DEF n
  <2> QED BY <1>3, <2>1, MinClockFacts
<1>5. \A u \in Seq(Messages) : \A i \in DOMAIN (u \o b) :
        \/ i \in DOMAIN u /\ (u \o b)[i] = u[i]
        \/ \E k \in 1..n : (u \o b)[i] = b[k]
  <2> SUFFICES ASSUME NEW u \in Seq(Messages), NEW i \in DOMAIN (u \o b)
               PROVE  \/ i \in DOMAIN u /\ (u \o b)[i] = u[i]
                      \/ \E k \in 1..n : (u \o b)[i] = b[k]
    OBVIOUS
  <2> DEFINE l == Len(u)
             t == u \o b
  <2>1. /\ t \in Seq(Messages) /\ Len(t) = l + Len(b)
        /\ \A j \in 1..(l + Len(b)) : t[j] = IF j <= l THEN u[j] ELSE b[j - l]
    BY <1>3, ConcatProperties, Zenon
  <2>2. l \in Nat /\ DOMAIN u = 1..l
    OBVIOUS
  <2> HIDE DEF t
  <2>3. i \in 1..Len(t)
    BY <2>1 DEF t
  <2> HIDE DEF l
  <2>4. i \in 1..(l + n)
    BY <1>3, <2>1, <2>3
  <2>5. CASE i <= l
    <3>1. i \in DOMAIN u /\ t[i] = u[i]
      BY <1>3, <2>1, <2>2, <2>4, <2>5
    <3> QED BY <3>1 DEF t
  <2>6. CASE ~(i <= l)
    <3>1. i - l \in 1..n /\ t[i] = b[i - l]
      BY <1>3, <1>4, <2>1, <2>2, <2>4, <2>6
    <3> QED BY <3>1 DEF t
  <2> QED BY <2>5, <2>6
<1>6. upcoming_queue[q] \in Seq(Messages) /\ Queued(q) \in Seq(Messages)
  BY QueuedFacts
<1>7. ASSUME NEW p \in CQ, NEW i \in DOMAIN upcoming_queue'[p]
      PROVE  LET x == upcoming_queue'[p][i] IN
             x.req_clock = BACKGROUND_PRIORITY_CLOCK \/ x.req_clock <= x.min_clock + ClockHalf
  <2>1. CASE p # q
    BY <1>3, <2>1 DEF EarlyInv
  <2>2. CASE p = q
    <3>1. \/ i \in DOMAIN upcoming_queue[q] /\ upcoming_queue'[p][i] = upcoming_queue[q][i]
          \/ \E k \in 1..n : upcoming_queue'[p][i] = b[k]
      <4> DEFINE u == upcoming_queue[q]
      <4>1. u \in Seq(Messages)
        BY <1>6
      <4>2. upcoming_queue'[p] = u \o b
        BY <1>3, <2>2
      <4> HIDE DEF u
      <4>3. i \in DOMAIN (u \o b)
        BY <4>2
      <4>4. \/ i \in DOMAIN u /\ (u \o b)[i] = u[i]
            \/ \E k \in 1..n : (u \o b)[i] = b[k]
        BY <1>5, <4>1, <4>3
      <4>5. \/ i \in DOMAIN u /\ upcoming_queue'[p][i] = u[i]
            \/ \E k \in 1..n : upcoming_queue'[p][i] = b[k]
        BY <4>2, <4>4
      <4> QED BY <4>5 DEF u
    <3> QED BY <1>4, <3>1 DEF EarlyInv
  <2> QED BY <2>1, <2>2
<1>8. ASSUME ~est_freq, NEW p \in CQ, NEW i \in DOMAIN Queued(p)'
      PROVE  Queued(p)'[i].min_clock = 0 /\ Queued(p)'[i].req_clock = 0
  <2> HIDE DEF Queued
  <2>1. CASE p # q
    BY <1>3, <1>8, <2>1 DEF EarlyInv
  <2>2. CASE p = q
    <3>1. \/ i \in DOMAIN Queued(q) /\ Queued(p)'[i] = Queued(q)[i]
          \/ \E k \in 1..n : Queued(p)'[i] = b[k]
      <4> DEFINE u == Queued(q)
      <4>1. u \in Seq(Messages)
        BY <1>6
      <4>2. Queued(p)' = u \o b
        BY <1>3, <2>2
      <4> HIDE DEF u
      <4>3. i \in DOMAIN (u \o b)
        BY <1>8, <4>2
      <4>4. \/ i \in DOMAIN u /\ (u \o b)[i] = u[i]
            \/ \E k \in 1..n : (u \o b)[i] = b[k]
        BY <1>5, <4>1, <4>3
      <4>5. \/ i \in DOMAIN u /\ Queued(p)'[i] = u[i]
            \/ \E k \in 1..n : Queued(p)'[i] = b[k]
        BY <4>2, <4>4
      <4> QED BY <4>5 DEF u
    <3>2. \A k \in 1..n : batch[k].min_clock = 0 /\ batch[k].req_clock = 0
      BY <1>1, <1>4, <1>8
    <3>3. \A k \in 1..n : b[k].min_clock = 0 /\ b[k].req_clock = 0
      BY <1>4, <3>2
    <3> QED BY <1>8, <3>1, <3>3 DEF EarlyInv
  <2> QED BY <2>1, <2>2
<1>9. /\ \A p \in CQ : \A i \in DOMAIN ready_queue'[p] :
           \/ ready_queue'[p][i].req_clock = BACKGROUND_PRIORITY_CLOCK
           \/ ready_queue'[p][i].req_clock <= now' + scenario'.adj + ClockHalf
      /\ \A i \in DOMAIN block' :
           \/ block'[i][2].req_clock = BACKGROUND_PRIORITY_CLOCK
           \/ block'[i][2].req_clock <= now' + scenario'.adj + ClockHalf
  BY <1>2, <1>3 DEF EarlyInv, Near
<1> QED BY <1>2, <1>7, <1>8, <1>9 DEF EarlyInv, Near

LEMMA EarlyKept ==
  ASSUME TimesInv, QueueInv, LinkInv, EarlyInv, Next
  PROVE  EarlyInv'
<1> USE DEF clockVars, allQueues, queueVars, blockVars, countVars
<1>0. now \in Nat /\ scenario.adj \in Nat
  BY ScenarioFacts
<1>1. ASSUME NEW s \in Senders, SendBatch(s)
      PROVE  EarlyInv'
  BY <1>1, EarlyPut
<1>2. CASE CommandStart \/ CommandAppend
  <2>1. PICK q \in CQ : Takes(q)
    BY <1>2, Taking
  <2> QED BY <2>1, EarlyTake
<1>3. ASSUME CommandWait, upcoming_queue' = upcoming1, ready_queue' = ready1
      PROVE  EarlyInv'
  <2>1. UNCHANGED <<now, scenario, est_freq, block, pending_queues, taken, nmsg>>
    BY <1>3 DEF CommandWait
  <2>2. \A p \in CQ : Queued(p)' = Queued(p)
    BY <1>3, <2>1, MoveAlone
  <2> HIDE DEF Queued
  <2>3. \A p \in CQ : \A i \in DOMAIN ready_queue'[p] :
           \/ ready_queue'[p][i].req_clock = BACKGROUND_PRIORITY_CLOCK
           \/ ready_queue'[p][i].req_clock <= now' + scenario'.adj + ClockHalf
    <3> SUFFICES ASSUME NEW p \in CQ, NEW i \in DOMAIN ready1[p]
                 PROVE  \/ ready1[p][i].req_clock = BACKGROUND_PRIORITY_CLOCK
                        \/ ready1[p][i].req_clock <= now + scenario.adj + ClockHalf
      BY <1>3, <2>1
    <3>1. Ripe(p, ready1[p][i])
      BY RipeFacts
    <3>2. Near(ready1[p][i])
      BY <3>1, RipeNear
    <3> QED BY <3>2 DEF Near
  <2>4. \A p \in CQ : \A i \in DOMAIN upcoming_queue'[p] :
          LET x == upcoming_queue'[p][i] IN
          x.req_clock = BACKGROUND_PRIORITY_CLOCK \/ x.req_clock <= x.min_clock + ClockHalf
    <3> SUFFICES ASSUME NEW p \in CQ, NEW i \in DOMAIN upcoming1[p]
                 PROVE  LET x == upcoming1[p][i] IN
                        \/ x.req_clock = BACKGROUND_PRIORITY_CLOCK
                        \/ x.req_clock <= x.min_clock + ClockHalf
      BY <1>3
    <3>1. PICK j \in DOMAIN upcoming_queue[p] : upcoming1[p][i] = upcoming_queue[p][j]
      BY RipeFacts
    <3> QED BY <3>1 DEF EarlyInv
  <2>5. ~est_freq' => \A p \in CQ : \A i \in DOMAIN Queued(p)' :
           Queued(p)'[i].min_clock = 0 /\ Queued(p)'[i].req_clock = 0
    BY <2>1, <2>2 DEF EarlyInv
  <2>6. \A i \in DOMAIN block' :
           \/ block'[i][2].req_clock = BACKGROUND_PRIORITY_CLOCK
           \/ block'[i][2].req_clock <= now' + scenario'.adj + ClockHalf
    BY <2>1 DEF EarlyInv, Near
  <2> QED BY <2>3, <2>4, <2>5, <2>6 DEF EarlyInv, Near
<1>4. ASSUME \/ \E s \in Senders : Kick(s)
             \/ SetClockEst \/ CheckTimers \/ CommandFinish \/ Poll \/ InputEvent
             \/ CommandWait /\ UNCHANGED <<upcoming_queue, ready_queue>>
             \/ InputError \/ KickEvent \/ Leave \/ Pull \/ SpuriousWakeup
             \/ DoExit \/ ExitKick \/ Join \/ CompletePending \/ McuExecute \/ McuReport \/ Tick
      PROVE  EarlyInv'
  <2>1. /\ UNCHANGED <<upcoming_queue, ready_queue, scenario>>
        /\ now' \in {now, now + 1}
        /\ block' = block \/ block' = <<>>
        /\ est_freq => est_freq'
    BY SMTT(30), <1>4 DEF Kick, SetClockEst, CheckTimers, CommandFinish, finish_block, CommandWait, Poll,
         InputEvent, InputError, KickEvent, Leave, Pull, SpuriousWakeup, DoExit, ExitKick, Join,
         CompletePending, McuExecute, McuReport, Tick
  <2> QED BY <1>0, <2>1, EarlyAlone
<1>5. CommandWait => \/ upcoming_queue' = upcoming1 /\ ready_queue' = ready1
                     \/ UNCHANGED <<upcoming_queue, ready_queue>>
  BY DEF CommandWait
<1> QED BY <1>1, <1>2, <1>3, <1>4, <1>5 DEF Next, Background, Disconnect

-----------------------------------------------------------------------------
(* No kick is lost *)

LEMMA KickAlone ==
  ASSUME KickInv,
         UNCHANGED <<need_kick_clock, command_time, now, line_busy, send_seq, receive_seq>>,
         \A q \in CQ : Queued(q)' = Queued(q),
         bg' # "command" => bg # "command",
         Kicked /\ bg # "command" => Kicked',
         bg' = "poll" => poll_until' <= command_time
  PROVE  KickInv'
<1>1. \A m : Settled(m)' <=> Settled(m)
  BY DEF Settled
<1>2. WindowOpen' <=> WindowOpen
  BY DEF WindowOpen
<1> HIDE DEF WindowOpen, Kicked, Queued
<1>3. ASSUME bg' # "command", WindowOpen'
      PROVE  \/ command_time' <= now'
             \/ Kicked'
             \/ /\ command_time' <= need_kick_clock'
                /\ \A q \in CQ : Queued(q)' # <<>> => Settled(Head(Queued(q)))'
  <2>1. \/ command_time <= now
        \/ Kicked
        \/ /\ command_time <= need_kick_clock
           /\ \A q \in CQ : Queued(q) # <<>> => Settled(Head(Queued(q)))
    BY <1>2, <1>3 DEF KickInv
  <2>2. CASE /\ command_time <= need_kick_clock
             /\ \A q \in CQ : Queued(q) # <<>> => Settled(Head(Queued(q)))
    <3>1. ASSUME NEW q \in CQ, Queued(q)' # <<>>
          PROVE  Settled(Head(Queued(q)))'
      <4>1. Settled(Head(Queued(q)))
        BY <2>2, <3>1
      <4>2. Head(Queued(q))' = Head(Queued(q))
        OBVIOUS
      <4> QED BY <4>1, <4>2 DEF Settled
    <3> QED BY <2>2, <3>1
  <2> QED BY <1>3, <2>1, <2>2
<1> QED BY <1>3 DEF KickInv

LEMMA KickPut ==
  ASSUME TimesInv, QueueInv, KickInv, NEW s \in Senders, SendBatch(s)
  PROVE  KickInv'
<1>1. PICK q \in CQ, batch \in Batches :
           /\ Puts(q, batch)
           /\ need_kick_clock' = IF MustWake(batch) THEN 0 ELSE need_kick_clock
           /\ sender' = [sender EXCEPT ![s] = IF MustWake(batch) THEN "kick" ELSE "idle"]
  BY Putting
<1>2. /\ UNCHANGED <<now, line_busy, send_seq, receive_seq, bg, pipe, command_time, poll_until>>
      /\ sender[s] = "idle"
  BY DEF SendBatch, send_batch, blockVars, clockVars, threadVars
<1>3. bg' = "poll" => poll_until' <= command_time'
  BY <1>2 DEF KickInv
<1>4. CASE MustWake(batch)
  <2>1. sender'[s] = "kick"
    BY <1>1, <1>4 DEF TimesInv
  <2>2. Kicked'
    BY <2>1 DEF Kicked
  <2> QED BY <1>3, <2>2 DEF KickInv
<1>5. CASE ~MustWake(batch)
  <2>1. need_kick_clock' = need_kick_clock /\ sender' = sender
    BY <1>1, <1>2, <1>5 DEF TimesInv
  <2>2. WindowOpen' <=> WindowOpen
    BY <1>2 DEF WindowOpen
  <2>3. Kicked' <=> Kicked
    BY <1>2, <2>1 DEF Kicked
  <2>4. ASSUME bg # "command", WindowOpen, ~(command_time <= now), ~Kicked
        PROVE  /\ command_time <= need_kick_clock
               /\ \A p \in CQ : Queued(p)' # <<>> => Settled(Head(Queued(p)))'
    <3>1. /\ command_time <= need_kick_clock
          /\ \A p \in CQ : Queued(p) # <<>> => Settled(Head(Queued(p)))
      BY <2>4 DEF KickInv
    <3>2. \A m : Settled(m)' <=> Settled(m)
      BY <1>2 DEF Settled
    <3> DEFINE b == [i \in DOMAIN batch |-> WithMinClock(batch[i])]
    <3>3. /\ batch \in Seq(Messages) /\ Len(batch) \in {1, 2}
          /\ b \in Seq(Messages) /\ Len(b) = Len(batch)
          /\ \A i \in 1..Len(b) : b[i] = WithMinClock(batch[i])
          /\ Queued(q)' = Queued(q) \o b
          /\ \A p \in CQ \ {q} : Queued(p)' = Queued(p)
      BY <1>1 DEF Puts
    <3> HIDE DEF b
    <3>4. /\ b # <<>> /\ Head(b) = WithMinClock(Head(batch)) /\ Head(b) \in Messages
      <4>1. 1 \in 1..Len(b) /\ Head(b) = b[1] /\ Head(batch) = batch[1] /\ b # <<>>
        BY <3>3
      <4> QED BY <3>3, <4>1
    <3>5. command_time <= Head(b).min_clock
      <4>1. ~(WithMinClock(Head(batch)).min_clock < need_kick_clock)
        BY <1>5 DEF MustWake
      <4>2. Head(b).min_clock \in Nat
        BY <3>4 DEF Messages, QueueMessages
      <4>3. command_time \in Nat /\ need_kick_clock \in Nat
        BY DEF TimesInv
      <4> QED BY <3>1, <3>4, <4>1, <4>2, <4>3
    <3>6. ASSUME NEW p \in CQ, Queued(p)' # <<>>
          PROVE  Settled(Head(Queued(p)))'
      <4> HIDE DEF Queued
      <4>1. CASE p # q
        <5>1. Queued(p)' = Queued(p)
          BY <3>3, <4>1
        <5>2. Settled(Head(Queued(p)))
          BY <3>1, <3>6, <5>1
        <5> QED BY <1>2, <5>1, <5>2 DEF Settled
      <4>2. CASE p = q /\ Queued(q) # <<>>
        <5>1. Queued(q) \in Seq(Messages)
          BY QueuedFacts
        <5>2. Head(Queued(q) \o b) = Head(Queued(q))
          BY <3>3, <4>2, <5>1, TailOfConcat
        <5>3. Settled(Head(Queued(q)))
          BY <3>1, <4>2
        <5>4. Head(Queued(p))' = Head(Queued(q))
          BY <3>3, <4>2, <5>2
        <5> QED BY <1>2, <5>3, <5>4 DEF Settled
      <4>3. CASE p = q /\ Queued(q) = <<>>
        <5>1. Queued(q)' = b
          BY <3>3, <4>3
        <5> QED BY <1>2, <3>5, <4>3, <5>1 DEF Settled
      <4> QED BY <4>1, <4>2, <4>3
    <3> QED BY <3>1, <3>6
  <2> HIDE DEF WindowOpen, Kicked
  <2> QED BY <1>2, <1>3, <2>1, <2>2, <2>3, <2>4 DEF KickInv
<1> QED BY <1>4, <1>5

LEMMA KickWait ==
  ASSUME TimesInv, QueueInv, LinkInv, EarlyInv, CommandWait
  PROVE  KickInv'
<1>1. /\ UNCHANGED <<now, send_seq, receive_seq, pending_queues, taken, nmsg, scenario>>
      /\ bg' = "poll" /\ poll_until' = now /\ line_busy' = (line_busy \/ pending > 0)
  BY DEF CommandWait, clockVars, countVars
<1>2. WindowOpen' <=> WindowOpen
  BY <1>1 DEF WindowOpen
<1>3. pending \in Nat
  BY DEF LinkInv
<1>4. CASE ~WindowOpen
  <2>1. command_time' = MAX_CLOCK
    BY <1>4 DEF CommandWait
  <2>2. now <= MAX_CLOCK
    <3>1. /\ now \in Nat /\ now <= scenario.time /\ scenario.adj \in Nat /\ scenario.time \in Nat
          /\ scenario.time + scenario.adj + ReqDelta < BACKGROUND_PRIORITY_CLOCK
      BY ScenarioFacts
    <3> QED BY <3>1, QueueAssumption
  <2> QED BY <1>1, <1>2, <1>4, <2>1, <2>2 DEF KickInv
<1>5. CASE WindowOpen
  <2>1. /\ ~SendNow /\ command_time' = TimeAt(wantclock) /\ need_kick_clock' = wantclock
        /\ upcoming_queue' = upcoming1 /\ ready_queue' = ready1
    BY <1>5 DEF CommandWait, KickClock
  <2>2. \A p \in CQ : Queued(p)' = Queued(p)
    BY <1>1, <2>1, MoveAlone
  <2>3. /\ wantclock \in Nat /\ TimeAt(wantclock) \in Nat /\ TimeAt(wantclock) > now
        /\ TimeAt(wantclock) <= wantclock
        /\ \A p \in CQ : Queued(p) # <<>> => SoonEnough(TimeAt(wantclock), Head(Queued(p)))
    BY <1>3, <2>1, WaitFacts
  <2>4. now \in Nat
    BY ScenarioFacts
  <2> HIDE DEF Queued, TimeAt, wantclock
  <2>5. ASSUME NEW p \in CQ, Queued(p)' # <<>>
        PROVE  Settled(Head(Queued(p)))'
    <3>1. Queued(p)' = Queued(p)
      BY <2>2
    <3>2. SoonEnough(command_time', Head(Queued(p)))
      BY <2>1, <2>3, <2>5, <3>1
    <3> QED BY <1>1, <3>1, <3>2 DEF Settled, SoonEnough
  <2>6. poll_until' <= command_time' /\ command_time' <= need_kick_clock'
    BY <1>1, <2>1, <2>3, <2>4
  <2> QED BY <2>5, <2>6 DEF KickInv
<1> QED BY <1>4, <1>5

LEMMA KickTick ==
  ASSUME TimesInv, KickInv, Tick
  PROVE  KickInv'
<1>1. /\ bg = "poll" /\ ~(pipe > 0) /\ now < poll_until /\ now' = now + 1
      /\ \A s \in Senders : sender[s] = "idle"
      /\ UNCHANGED <<upcoming_queue, ready_queue, send_seq, receive_seq, need_kick_clock, bg,
                     command_time, poll_until>>
  BY DEF Tick, Readable, queueVars, threadVars
<1>2. \A q \in CQ : Queued(q)' = Queued(q)
  BY <1>1 DEF Queued
<1>3. WindowOpen' <=> WindowOpen
  BY <1>1 DEF WindowOpen
<1>4. ~Kicked
  BY <1>1 DEF Kicked
<1>5. now \in Nat /\ command_time \in Nat /\ poll_until \in Nat
  BY ScenarioFacts DEF TimesInv
<1>6. poll_until <= command_time /\ ~(command_time <= now)
  BY <1>1, <1>5 DEF KickInv
<1> HIDE DEF Queued, Kicked, WindowOpen
<1>7. ASSUME WindowOpen, ~(command_time' <= now')
      PROVE  /\ command_time' <= need_kick_clock'
             /\ \A q \in CQ : Queued(q)' # <<>> => Settled(Head(Queued(q)))'
  <2>1. /\ command_time <= need_kick_clock
        /\ \A q \in CQ : Queued(q) # <<>> => Settled(Head(Queued(q)))
    BY <1>1, <1>4, <1>6, <1>7 DEF KickInv
  <2>2. ASSUME NEW q \in CQ, Queued(q)' # <<>>
        PROVE  Settled(Head(Queued(q)))'
    <3>1. Queued(q)' = Queued(q)
      BY <1>2
    <3>2. Settled(Head(Queued(q)))
      BY <2>1, <2>2, <3>1
    <3>3. ~(command_time <= now + 1)
      BY <1>1, <1>7
    <3> QED BY <1>1, <3>1, <3>2, <3>3 DEF Settled
  <2> QED BY <1>1, <2>1, <2>2
<1> QED BY <1>1, <1>3, <1>6, <1>7 DEF KickInv

LEMMA KickKept ==
  ASSUME TimesInv, QueueInv, LinkInv, EarlyInv, KickInv, Next
  PROVE  KickInv'
<1> USE DEF clockVars, allQueues, queueVars, blockVars, countVars, threadVars
<1>0. /\ now \in Nat /\ command_time \in Nat /\ PollCap \in Nat /\ PipeCap \in Nat \ {0}
      /\ pipe \in 0..PipeCap
  BY ScenarioFacts, ThreadsAssumption DEF TimesInv
<1>1. ASSUME NEW s \in Senders, SendBatch(s)
      PROVE  KickInv'
  BY <1>1, KickPut
<1>2. CASE CommandStart \/ CommandAppend \/ CommandFinish
  <2>1. bg' = "command"
    BY <1>2 DEF CommandStart, CommandAppend, CommandFinish
  <2> QED BY <2>1 DEF KickInv
<1>3. CASE CommandWait
  BY <1>3, KickWait
<1>4. CASE Tick
  BY <1>4, KickTick
<1>5. ASSUME (\E s \in Senders : Kick(s)) \/ ExitKick
      PROVE  KickInv'
  <2>1. pipe' > 0 /\ UNCHANGED <<bg, poll_until, command_time>>
    BY <1>0, <1>5 DEF Kick, ExitKick, kick_bg_thread
  <2>2. Kicked'
    BY <2>1 DEF Kicked
  <2> QED BY <2>1, <2>2 DEF KickInv
<1>6. CASE KickEvent
  <2>1. bg' = "timers" /\ command_time' = 0 /\ now' = now
    BY <1>6 DEF KickEvent
  <2>2. command_time' <= now'
    BY <1>0, <2>1
  <2> QED BY <2>1, <2>2 DEF KickInv
<1>7. ASSUME InputEvent, command_time' = 0
      PROVE  KickInv'
  <2>1. bg' # "poll" /\ now' = now
    BY <1>7 DEF InputEvent, AfterInput
  <2>2. command_time' <= now'
    BY <1>0, <1>7, <2>1
  <2> QED BY <2>1, <2>2 DEF KickInv
<1>8. ASSUME InputEvent, receive_seq' = receive_seq, command_time' = command_time
      PROVE  KickInv'
  <2>1. /\ UNCHANGED <<need_kick_clock, now, line_busy, send_seq, pipe, sender>>
        /\ UNCHANGED <<upcoming_queue, ready_queue>>
        /\ bg = "input" /\ bg' \in {"kick", "timers"}
    BY <1>8 DEF InputEvent, AfterInput
  <2>2. \A q \in CQ : Queued(q)' = Queued(q)
    BY <2>1 DEF Queued
  <2>3. Kicked => Kicked'
    BY <2>1 DEF Kicked
  <2> HIDE DEF Queued, Kicked
  <2> QED BY <1>8, <2>1, <2>2, <2>3, KickAlone
<1>9. InputEvent => \/ command_time' = 0
                    \/ receive_seq' = receive_seq /\ command_time' = command_time
  BY DEF InputEvent, AfterAck
<1>10. CASE CheckTimers
  <2>1. /\ UNCHANGED <<need_kick_clock, now, line_busy, send_seq, receive_seq, pipe, sender>>
        /\ UNCHANGED <<upcoming_queue, ready_queue>>
        /\ bg = "timers" /\ bg' \in {"leave", "command", "poll"}
    BY <1>10 DEF CheckTimers
  <2>2. CASE bg' = "command"
    BY <2>2 DEF KickInv
  <2>3. CASE bg' # "command"
    <3>1. command_time' = command_time
      BY <1>10, <2>3 DEF CheckTimers
    <3>2. bg' = "poll" => poll_until' <= command_time
      <4> SUFFICES ASSUME bg' = "poll" PROVE poll_until' <= command_time
        OBVIOUS
      <4>1. /\ now < command_time
            /\ poll_until' = now \/ poll_until' = Min({command_time, now + PollCap})
        BY <1>10 DEF CheckTimers
      <4> DEFINE T == {command_time, now + PollCap}
      <4>2. T \in SUBSET Nat /\ command_time \in T
        BY <1>0
      <4> HIDE DEF T
      <4>3. Min(T) <= command_time
        BY <4>2, MinNat
      <4>4. Min({command_time, now + PollCap}) <= command_time
        BY <4>3 DEF T
      <4> QED BY <1>0, <4>1, <4>4
    <3>3. \A q \in CQ : Queued(q)' = Queued(q)
      BY <2>1 DEF Queued
    <3>4. Kicked => Kicked'
      BY <2>1 DEF Kicked
    <3> HIDE DEF Queued, Kicked
    <3> QED BY <2>1, <2>3, <3>1, <3>2, <3>3, <3>4, KickAlone
  <2> QED BY <2>2, <2>3
<1>11. ASSUME \/ SetClockEst \/ Poll \/ InputError \/ Leave \/ Pull \/ SpuriousWakeup
              \/ DoExit \/ Join \/ CompletePending \/ McuExecute \/ McuReport
       PROVE  KickInv'
  <2>1. /\ UNCHANGED <<need_kick_clock, command_time, now, line_busy, send_seq, receive_seq,
                       pipe, sender>>
        /\ UNCHANGED <<upcoming_queue, ready_queue>>
        /\ \/ UNCHANGED <<bg, poll_until>>
           \/ /\ bg \in {"poll", "leave"} /\ bg' \in {"input", "kick", "timers", "exited"}
    BY <1>11 DEF SetClockEst, Poll, AfterInput, InputError, Leave, Pull, SpuriousWakeup, DoExit,
         Join, CompletePending, McuExecute, McuReport
  <2>2. \A q \in CQ : Queued(q)' = Queued(q)
    BY <2>1 DEF Queued
  <2>3. Kicked => Kicked'
    BY <2>1 DEF Kicked
  <2>4. bg' = "poll" => poll_until' <= command_time
    BY <2>1 DEF KickInv
  <2> HIDE DEF Queued, Kicked
  <2> QED BY <2>1, <2>2, <2>3, <2>4, KickAlone
<1> QED BY <1>1, <1>2, <1>3, <1>4, <1>5, <1>6, <1>7, <1>8, <1>9, <1>10, <1>11
     DEF Next, Background, Disconnect

-----------------------------------------------------------------------------
(* The invariant holds in every state *)

LEMMA InitHolds ==
  ASSUME Init
  PROVE  IInv
<1>1. /\ QueuesInit /\ scenario \in Scenarios /\ bg = "timers" /\ command_time = MAX_CLOCK
      /\ poll_until = 0 /\ revents = {"serial"} /\ must_exit = FALSE /\ pipe = 0
      /\ sender = [s \in Senders |-> "idle"] /\ puller = "pull"
      /\ receive_waiting = FALSE /\ receive_queue = <<>> /\ main = "running"
      /\ pending_notifications = {} /\ executed = 1 /\ m2h = <<>> /\ nmsg = 0 /\ nresp = 0
      /\ taken = [q \in CQ |-> <<>>] /\ asked = [i \in Ids |-> 0] /\ source = <<>> /\ early = {}
      /\ handled = <<>> /\ completed = [i \in Ids |-> 0]
  BY DEF Init
<1>2. /\ now = 1 /\ clock_adj = 0 /\ est_freq = FALSE
      /\ upcoming_queue = [q \in CQ |-> <<>>] /\ ready_queue = [q \in CQ |-> <<>>]
      /\ pending_queues = <<>> /\ need_kick_clock = MAX_CLOCK /\ block = <<>> /\ pending = 0
      /\ send_seq = 1 /\ receive_seq = 1 /\ line_busy = FALSE /\ notify_queue = <<>>
  BY <1>1 DEF QueuesInit
<1>3. /\ scenario.time \in Nat \ {0} /\ scenario.adj \in Nat /\ scenario.msgs \in Nat
      /\ PipeCap \in Nat /\ MAX_CLOCK \in Nat /\ MaxPending \in Nat \ {0}
  BY <1>1, ThreadsAssumption, QueueAssumption
<1>4. \A q \in CQ : Queued(q) = <<>>
  BY <1>2 DEF Queued
<1>5. ASSUME NEW q \in CQ PROVE DOMAIN EverPut(q) = {}
  <2> HIDE DEF Queued
  <2> DEFINE t == <<>>
             e == t \o [i \in DOMAIN t |-> t[i].id]
  <2>1. t \in Seq(Ids) /\ t \in Seq(Messages) /\ Len(t) = 0
    OBVIOUS
  <2> HIDE DEF t
  <2>2. e \in Seq(Ids) /\ Len(e) = 0
    BY <2>1, IdsFacts
  <2>3. EverPut(q) = e
    BY <1>1, <1>4 DEF EverPut, t
  <2> HIDE DEF e
  <2> QED BY <2>2, <2>3
<1>6. TimesInv
  <2>1. now \in 1..scenario.time /\ clock_adj \in 0..scenario.adj /\ pipe \in 0..PipeCap
    BY <1>1, <1>2, <1>3
  <2>2. /\ est_freq \in BOOLEAN /\ line_busy \in BOOLEAN /\ must_exit \in BOOLEAN
        /\ need_kick_clock \in Nat /\ command_time \in Nat /\ poll_until \in Nat
    BY <1>1, <1>2, <1>3
  <2>3. sender \in [Senders -> {"idle", "kick"}] /\ revents \subseteq {"serial", "pipe"}
    BY <1>1
  <2> QED BY <1>1, <2>1, <2>2, <2>3 DEF TimesInv
<1>7. QueueInv
  <2>1. /\ upcoming_queue \in [CQ -> Seq(Messages)] /\ ready_queue \in [CQ -> Seq(Messages)]
        /\ pending_queues \in Seq(CQ) /\ taken \in [CQ -> Seq(Ids)] /\ nmsg \in 0..scenario.msgs
    BY <1>1, <1>2, <1>3
  <2>2. IsInjective(pending_queues)
    BY <1>2 DEF IsInjective
  <2>3. ToSet(pending_queues) = {q \in CQ : Queued(q) # <<>>}
    BY <1>2, <1>4 DEF ToSet
  <2> HIDE DEF Queued, EverPut
  <2> QED BY <1>5, <2>1, <2>2, <2>3 DEF QueueInv
<1>8. LinkInv
  BY <1>1, <1>2, <1>3 DEF LinkInv, Frames
<1>9. TokenInv
  <2>1. Notified = {}
    BY <1>1 DEF Notified
  <2>2. /\ notify_queue \in Seq([id : Ids, seq : Nat]) /\ receive_queue \in Seq(Received)
        /\ DOMAIN notify_queue = {}
    BY <1>1, <1>2
  <2>3. completed \in [Ids -> 0..1]
    BY <1>1
  <2>4. \A q \in CQ : DOMAIN Queued(q) = {}
    BY <1>4
  <2> HIDE DEF Queued
  <2> QED BY <1>1, <2>1, <2>2, <2>3, <2>4 DEF TokenInv
<1>10. HandledInv
  <2>1. Notified = {}
    BY <1>1 DEF Notified
  <2>2. /\ DOMAIN notify_queue = {} /\ DOMAIN m2h = {} /\ source \in Seq(Nat) /\ Len(source) = 0
        /\ handled \in Seq(Nat) /\ asked \in [Ids -> Nat] /\ 1..nresp = {}
        /\ \A i \in Ids : completed[i] # 1
    BY <1>1, <1>2
  <2> QED BY <1>1, <2>1, <2>2 DEF HandledInv
<1>11. EarlyInv
  <2>1. /\ \A q \in CQ : /\ DOMAIN upcoming_queue[q] = {} /\ DOMAIN ready_queue[q] = {}
                         /\ DOMAIN Queued(q) = {}
        /\ DOMAIN block = {}
    BY <1>2, <1>4
  <2> HIDE DEF Queued
  <2> QED BY <2>1 DEF EarlyInv
<1>12. KickInv
  <2> HIDE DEF Queued
  <2> QED BY <1>1, <1>2, <1>3, <1>4 DEF KickInv
<1> QED BY <1>6, <1>7, <1>8, <1>9, <1>10, <1>11, <1>12 DEF IInv

LEMMA StutterKeeps ==
  ASSUME IInv, UNCHANGED vars
  PROVE  IInv'
<1>1. /\ UNCHANGED <<clockVars, queueVars, blockVars, threadVars, pullVars, countVars, histVars,
                     mcuVars, serialhdl>>
      /\ UNCHANGED <<need_kick_clock, receive_seq, taken, must_exit, pipe, sender>>
  BY DEF vars, allQueues
<1>2. TimesInv'
  BY <1>1 DEF IInv, TimesInv, clockVars, blockVars, threadVars, countVars
<1>3. QueueInv' /\ \A q \in CQ : Queued(q)' = Queued(q)
  BY <1>1, QueueAlone DEF IInv, queueVars, countVars
<1>4. LinkInv'
  BY <1>1, LinkAlone DEF IInv, LinkInv, blockVars, mcuVars, threadVars
<1>5. TokenInv'
  BY <1>1, <1>3, TokenAlone DEF IInv, TokenInv, blockVars, pullVars, serialhdl, threadVars
<1>6. HandledInv'
  <2>1. send_seq \in Nat
    BY DEF IInv, LinkInv
  <2> QED BY <1>1, <2>1, HandledAlone
        DEF IInv, blockVars, pullVars, serialhdl, countVars, histVars, mcuVars
<1>7. EarlyInv'
  <2>1. now \in Nat /\ scenario.adj \in Nat
    BY ScenarioFacts DEF IInv
  <2> QED BY <1>1, <2>1, EarlyAlone DEF IInv, clockVars, queueVars, countVars, blockVars
<1>8. KickInv'
  <2>1. Kicked => Kicked'
    BY <1>1 DEF Kicked, threadVars
  <2>2. bg' = "poll" => poll_until' <= command_time
    BY <1>1 DEF IInv, KickInv, threadVars
  <2> QED BY <1>1, <1>3, <2>1, <2>2, KickAlone DEF IInv, clockVars, blockVars, threadVars
<1> QED BY <1>2, <1>3, <1>4, <1>5, <1>6, <1>7, <1>8 DEF IInv

(* What the threads of the host and the micro-controller keep between them,
   whichever of them takes the next step. *)
THEOREM InductiveInvariant == Spec => []IInv
<1>1. Init => IInv
  BY InitHolds
<1>2. IInv /\ [Next]_vars => IInv'
  <2> SUFFICES ASSUME IInv, [Next]_vars PROVE IInv'
    OBVIOUS
  <2>1. CASE Next
    BY <2>1, TimesKept, QueueKept, LinkKept, TokenKept, HandledKept, EarlyKept, KickKept DEF IInv
  <2>2. CASE UNCHANGED vars
    BY <2>2, StutterKeeps
  <2> QED BY <2>1, <2>2
<1> QED BY <1>1, <1>2, PTL DEF Spec

-----------------------------------------------------------------------------
(* The properties *)

(* serialqueue_send_batch raises the min_clock of a message whose clock lies
   more than 2^31 ahead, so that none of those that command_event builds into a
   block can be taken for a time that has passed; and handle_message hands on a
   response before the notification of its block, which _bg_thread of
   serialhdl.py therefore completes after the response has been handled, except
   for those that a data frame before the first acknowledgement woke (wake_seq
   wraps around). *)
THEOREM InDueTimeAlways == Spec => []InDueTime
<1>1. IInv => InDueTime
  <2> SUFFICES ASSUME IInv PROVE InDueTime
    OBVIOUS
  <2>1. TypeOK
    <3>1. /\ scenario \in Scenarios
          /\ now \in 1..scenario.time /\ clock_adj \in 0..scenario.adj
          /\ est_freq \in BOOLEAN /\ need_kick_clock \in Nat /\ line_busy \in BOOLEAN
          /\ command_time \in Nat /\ poll_until \in Nat /\ revents \subseteq {"serial", "pipe"}
          /\ must_exit \in BOOLEAN /\ pipe \in 0..PipeCap
          /\ sender \in [Senders -> {"idle", "kick"}]
      BY DEF IInv, TimesInv
    <3>2. /\ upcoming_queue \in [CQ -> Seq(QueueMessages(Ids))]
          /\ ready_queue \in [CQ -> Seq(QueueMessages(Ids))]
          /\ IsInjective(pending_queues)
          /\ ToSet(pending_queues) = {q \in CQ : Queued(q) # <<>>}
      BY DEF IInv, QueueInv, Messages
    <3>3. /\ block \in Seq(CQ \X QueueMessages(Ids))
          /\ bg \in {"timers", "command", "poll", "input", "kick", "leave", "exited"}
      BY DEF IInv, LinkInv, Messages
    <3>4. /\ pending \in 0..MaxPending
          /\ receive_seq <= send_seq - pending /\ send_seq <= receive_seq + MaxPending
          /\ executed \in 1..(send_seq - pending)
      <4>1. /\ {send_seq, receive_seq, executed, pending} \subseteq Nat
            /\ 1 <= receive_seq /\ receive_seq <= executed
            /\ executed <= send_seq - pending /\ send_seq <= receive_seq + MaxPending
        BY DEF IInv, LinkInv
      <4> QED BY <4>1, QueueAssumption
    <3>5. /\ puller \in {"pull", "waiting", "exited"} /\ receive_waiting \in BOOLEAN
          /\ receive_queue \in Seq(Received)
          /\ main \in {"running", "exit_kick", "join", "join_python", "done"}
          /\ pending_notifications \subseteq Ids
      BY DEF IInv, TokenInv
    <3>6. \A i \in DOMAIN notify_queue : notify_queue[i] \in [id : Ids, seq : Nat]
      <4>1. notify_queue \in Seq(Tokens)
        BY DEF IInv, TokenInv, Tokens
      <4> HIDE DEF Tokens
      <4>2. \A i \in DOMAIN notify_queue : notify_queue[i] \in Tokens
        BY <4>1
      <4> QED BY <4>2 DEF Tokens
    <3> QED BY <3>1, <3>2, <3>3, <3>4, <3>5, <3>6 DEF TypeOK
  <2>2. NotTooEarly
    <3> SUFFICES ASSUME NEW i \in DOMAIN block, est_freq,
                        block[i][2].req_clock # BACKGROUND_PRIORITY_CLOCK
                 PROVE  block[i][2].req_clock - ack_clock <= ClockHalf + scenario.adj
      BY DEF NotTooEarly
    <3> DEFINE c == block[i][2].req_clock
    <3>1. c \in Nat
      <4>1. block \in Seq(CQ \X Messages)
        BY DEF IInv, LinkInv
      <4>2. block[i] \in CQ \X Messages
        BY <4>1
      <4> QED BY <4>2 DEF Messages, QueueMessages
    <3>2. c <= now + scenario.adj + ClockHalf
      BY DEF IInv, EarlyInv, Near
    <3>3. ack_clock = now + clock_adj
      <4>1. pending \in Nat
        BY DEF IInv, LinkInv
      <4> QED BY <4>1, AckFacts DEF IInv
    <3>4. now \in Nat /\ clock_adj \in Nat /\ scenario.adj \in Nat /\ ClockHalf \in Nat
      BY ScenarioFacts, QueueAssumption DEF IInv
    <3> HIDE DEF c, ack_clock
    <3>5. c - ack_clock <= ClockHalf + scenario.adj
      BY <3>1, <3>2, <3>3, <3>4
    <3> QED BY <3>5 DEF c
  <2>3. HandledBeforeNotified
    BY DEF IInv, HandledInv, HandledBeforeNotified
  <2> QED BY <2>1, <2>2, <2>3 DEF InDueTime
<1> QED BY <1>1, InductiveInvariant, PTL

(* A completion of raw_send_wait_ack is in one place at a time: its message is
   queued or in notify_queue, or the notification is in receive_queue, until
   _bg_thread completes it; disconnect() completes what is left only after that
   thread has been joined. *)
THEOREM CompletedOnceAlways == Spec => []CompletedOnce
<1>1. IInv => CompletedOnce
  <2> SUFFICES ASSUME IInv, NEW i \in Ids
               PROVE  /\ completed[i] <= 1
                      /\ i \in pending_notifications => completed[i] = 0
                      /\ main = "done" => /\ i \notin pending_notifications
                                          /\ [kind |-> "notify", id |-> i]
                                               \in ToSet(receive_queue) => completed[i] = 1
    BY DEF CompletedOnce
  <2>1. completed[i] \in 0..1
    BY DEF IInv, TokenInv
  <2>2. i \in pending_notifications => completed[i] = 0
    BY DEF IInv, TokenInv
  <2>3. main = "done" => i \notin pending_notifications
    BY DEF IInv, TokenInv
  <2>4. ASSUME main = "done", [kind |-> "notify", id |-> i] \in ToSet(receive_queue)
        PROVE  completed[i] = 1
    <3>1. PICK r \in DOMAIN receive_queue : receive_queue[r] = [kind |-> "notify", id |-> i]
      BY <2>4 DEF ToSet
    <3>2. r \in Notified /\ receive_queue[r].id = i
      BY <3>1 DEF Notified
    <3> QED BY <2>4, <3>2 DEF IInv, TokenInv
  <2> QED BY <2>1, <2>2, <2>3, <2>4
<1> QED BY <1>1, InductiveInvariant, PTL

(* Time does not pass while a message that is due waits in front of its queue
   and the window is open: command_event leaves a timer and a need_kick_clock
   behind that cover whatever is queued then, serialqueue_send_batch compares
   with it under the same lock, and the byte in the pipe stays until kick_event
   has read it. *)
THEOREM NoLostKickEver == Spec => NoLostKick
<1>1. ASSUME IInv, Next, now' > now, WindowOpen, NEW q \in CQ, Queued(q) # <<>>,
             Due(Head(Queued(q)))
      PROVE  FALSE
  <2> DEFINE m == Head(Queued(q))
  <2>0. now \in Nat \ {0}
    BY <1>1, ScenarioFacts DEF IInv
  <2>1. Tick
    <3>1. Tick \/ now' = now
      <4> USE DEF clockVars, blockVars
      <4> QED BY <1>1 DEF Next, Background, Disconnect, SendBatch, Kick, SetClockEst, CheckTimers,
               CommandStart, CommandAppend, append_message, CommandFinish, CommandWait, Poll,
               InputEvent, InputError, KickEvent, Leave, Pull, SpuriousWakeup, DoExit, ExitKick,
               Join, CompletePending, McuExecute, McuReport
    <3> QED BY <1>1, <2>0, <3>1
  <2>2. /\ bg = "poll" /\ ~(pipe > 0) /\ now < poll_until
        /\ \A s \in Senders : sender[s] = "idle"
    BY <2>1 DEF Tick, Readable
  <2>3. poll_until \in Nat /\ command_time \in Nat
    BY <1>1 DEF IInv, TimesInv
  <2>4. poll_until <= command_time /\ ~Kicked
    BY <1>1, <2>2 DEF IInv, KickInv, Kicked
  <2>5. now < command_time
    BY <2>0, <2>2, <2>3, <2>4
  <2> HIDE DEF Kicked, WindowOpen, Queued
  <2>6. Settled(m)
    BY <1>1, <2>0, <2>2, <2>3, <2>4, <2>5 DEF IInv, KickInv
  <2>7. m \in Messages
    <3>1. Queued(q) \in Seq(Messages)
      BY <1>1, QueuedFacts DEF IInv
    <3> QED BY <1>1, <3>1
  <2>8. m.min_clock \in Nat /\ m.req_clock \in Nat
    BY <2>7 DEF Messages, QueueMessages
  <2>9. /\ ack_clock \in Nat
        /\ est_freq => ack_clock = now + clock_adj
        /\ ~est_freq => ack_clock = 0
    <3>1. pending \in Nat
      BY <1>1 DEF IInv, LinkInv
    <3> QED BY <1>1, <3>1, AckFacts DEF IInv
  <2>10. /\ clock_adj \in Nat /\ clock_adj <= scenario.adj /\ scenario.adj \in Nat
         /\ now <= scenario.time /\ scenario.time \in Nat
         /\ scenario.time + scenario.adj + ReqDelta < BACKGROUND_PRIORITY_CLOCK
         /\ BACKGROUND_PRIORITY_CLOCK < MAX_CLOCK
         /\ ReqDelta \in Nat /\ BACKGROUND_PRIORITY_CLOCK \in Nat /\ MAX_CLOCK \in Nat
    BY <1>1, ScenarioFacts, QueueAssumption DEF IInv
  <2>11. est_freq \in BOOLEAN
    BY <1>1 DEF IInv, TimesInv
  <2>12. ~est_freq => m.min_clock = 0 /\ m.req_clock = 0
    <3>1. Queued(q) \in Seq(Messages)
      BY <1>1, QueuedFacts DEF IInv
    <3>2. 1 \in DOMAIN Queued(q) /\ m = Queued(q)[1]
      BY <1>1, <3>1
    <3> QED BY <1>1, <3>2 DEF IInv, EarlyInv
  <2> HIDE DEF ack_clock
  <2>13. /\ m.req_clock = BACKGROUND_PRIORITY_CLOCK =>
              ~line_busy /\ ack_clock >= m.min_clock + scenario.adj
         /\ m.req_clock # BACKGROUND_PRIORITY_CLOCK =>
              /\ ack_clock >= m.min_clock + scenario.adj
              /\ ack_clock >= m.req_clock - ReqDelta + scenario.adj
    BY <1>1 DEF Due
  <2> HIDE DEF m
  <2>14. CASE est_freq
    <3>1. CASE command_time <= m.min_clock
      BY <2>0, <2>3, <2>5, <2>8, <2>9, <2>10, <2>13, <2>14, <3>1
    <3>2. CASE /\ m.req_clock # BACKGROUND_PRIORITY_CLOCK
               /\ command_time + ReqDelta <= m.req_clock \/ MAX_CLOCK <= m.req_clock
      BY <2>0, <2>3, <2>5, <2>8, <2>9, <2>10, <2>13, <2>14, <3>2
    <3>3. CASE m.req_clock = BACKGROUND_PRIORITY_CLOCK /\ line_busy
      BY <2>13, <3>3
    <3> QED BY <2>6, <3>1, <3>2, <3>3 DEF Settled
  <2>15. CASE ~est_freq
    BY <2>0, <2>3, <2>5, <2>6, <2>8, <2>10, <2>12, <2>15 DEF Settled
  <2> QED BY <2>11, <2>14, <2>15
<1>2. IInv /\ [Next]_vars =>
        [now' > now /\ WindowOpen /\ ~must_exit =>
           \A q \in CQ : Queued(q) # <<>> => ~Due(Head(Queued(q)))]_vars
  BY <1>1
<1> QED BY <1>2, InductiveInvariant, PTL DEF Spec, NoLostKick

-----------------------------------------------------------------------------
(* The command queues are mailboxes *)

LEMMA StepIsBoxStep ==
  ASSUME IInv, [Next]_vars
  PROVE  [Boxes!BoxNext]_(Boxes!boxes)
<1> DEFINE put  == [q \in CQ |-> EverPut(q)]
           gone == [q \in CQ |-> Len(taken[q])]
<1>1. ASSUME \A q \in CQ : EverPut(q)' = EverPut(q), taken' = taken
      PROVE  UNCHANGED Boxes!boxes
  BY <1>1 DEF Boxes!boxes
<1>2. ASSUME NEW s \in Senders, SendBatch(s)
      PROVE  \E q \in CQ : Boxes!Put(q)
  <2>1. PICK q \in CQ, batch \in Batches : Puts(q, batch)
    BY <1>2, Putting DEF IInv
  <2>2. /\ IsStrictPrefix(EverPut(q), EverPut(q)')
        /\ IsInjective(EverPut(q)')
        /\ \A p \in CQ \ {q} :
             EverPut(p)' = EverPut(p) /\ ToSet(EverPut(p)) \cap ToSet(EverPut(q)') = {}
    BY <2>1, PutKeeps DEF IInv
  <2>3. taken' = taken
    BY <2>1 DEF Puts
  <2> HIDE DEF EverPut
  <2>4. \A p \in CQ : put[p] = EverPut(p) /\ put'[p] = EverPut(p)'
    OBVIOUS
  <2>5. gone' = gone
    BY <2>3
  <2> HIDE DEF put, gone
  <2>6. /\ IsStrictPrefix(put[q], put'[q])
        /\ IsInjective(put'[q])
        /\ \A p \in CQ \ {q} : /\ put'[p] = put[p]
                              /\ ToSet(put[p]) \intersect ToSet(put'[q]) = {}
    BY <2>2, <2>4
  <2>7. /\ Boxes!IsStrictPrefix(put[q], put'[q])
        /\ Boxes!IsInjective(put'[q])
        /\ \A p \in CQ \ {q} : /\ put'[p] = put[p]
                              /\ Boxes!ToSet(put[p]) \intersect Boxes!ToSet(put'[q]) = {}
    BY <2>6 DEF IsStrictPrefix, Boxes!IsStrictPrefix, IsPrefix, Boxes!IsPrefix, IsInjective,
         Boxes!IsInjective, ToSet, Boxes!ToSet
  <2>8. Boxes!Put(q)
    BY <2>5, <2>7 DEF Boxes!Put, put, gone
  <2> QED BY <2>8
<1>3. ASSUME CommandStart \/ CommandAppend
      PROVE  \E q \in CQ : Boxes!Take(q)
  <2>1. PICK q \in CQ : Takes(q)
    BY <1>3, Taking DEF IInv
  <2>2. \A p \in CQ : EverPut(p)' = EverPut(p)
    BY <2>1, TakeKeeps DEF Takes, IInv
  <2>3. taken' = [taken EXCEPT ![q] = Append(@, Head(Queued(q)).id)] /\ Queued(q) # <<>>
        /\ Head(Queued(q)) \in Messages
    BY <2>1 DEF Takes
  <2>4. /\ Queued(q) \in Seq(Messages) /\ taken[q] \in Seq(Ids) /\ EverPut(q) \in Seq(Ids)
        /\ Len(EverPut(q)) = Len(taken[q]) + Len(Queued(q))
    BY QueuedFacts DEF IInv
  <2> HIDE DEF Queued, EverPut
  <2>5. Len(taken[q]) < Len(EverPut(q))
    <3>1. Len(Queued(q)) \in Nat /\ Len(Queued(q)) # 0
      BY <2>3, <2>4, EmptySeq
    <3> QED BY <2>4, <3>1
  <2>6. taken \in [CQ -> Seq(Ids)]
    BY DEF IInv, QueueInv
  <2>7. [p \in CQ |-> Len(taken'[p])] = [gone EXCEPT ![q] = @ + 1]
    <3>1. Len(taken'[q]) = Len(taken[q]) + 1
      BY <2>3, <2>4, <2>6
    <3>2. \A p \in CQ \ {q} : taken'[p] = taken[p]
      BY <2>3, <2>6
    <3> QED BY <3>1, <3>2
  <2>8. Boxes!Take(q)
    BY <2>2, <2>5, <2>7 DEF Boxes!Take
  <2> QED BY <2>8
<1>4. CASE CommandWait
  <2>1. UNCHANGED <<pending_queues, taken, nmsg, scenario>>
    BY <1>4 DEF CommandWait, countVars
  <2>2. \/ UNCHANGED <<upcoming_queue, ready_queue>>
        \/ upcoming_queue' = upcoming1 /\ ready_queue' = ready1
    BY <1>4 DEF CommandWait
  <2>3. \A q \in CQ : EverPut(q)' = EverPut(q)
    BY <2>1, <2>2, QueueAlone, MoveAlone DEF IInv
  <2> QED BY <1>1, <2>1, <2>3
<1>5. ASSUME \/ \E s \in Senders : Kick(s)
             \/ SetClockEst \/ CheckTimers \/ CommandFinish \/ Poll \/ InputEvent
             \/ InputError \/ KickEvent \/ Leave \/ Pull \/ SpuriousWakeup
             \/ DoExit \/ ExitKick \/ Join \/ CompletePending \/ McuExecute \/ McuReport \/ Tick
             \/ UNCHANGED vars
      PROVE  UNCHANGED Boxes!boxes
  <2>1. UNCHANGED <<upcoming_queue, ready_queue, pending_queues, taken, nmsg, scenario>>
    <3> USE DEF clockVars, threadVars, countVars, allQueues, queueVars, blockVars, mcuVars
    <3> QED BY <1>5 DEF Kick, SetClockEst, CheckTimers, CommandFinish, finish_block, Poll,
             InputEvent, InputError, KickEvent, Leave, Pull, SpuriousWakeup, DoExit, ExitKick,
             Join, CompletePending, McuExecute, McuReport, Tick, vars
  <2>2. \A q \in CQ : EverPut(q)' = EverPut(q)
    BY <2>1, QueueAlone DEF IInv
  <2> QED BY <1>1, <2>1, <2>2
<1> QED BY <1>2, <1>3, <1>4, <1>5 DEF Boxes!BoxNext, Next, Background, Disconnect

(* Every command queue of the serialqueue is a mailbox, whichever threads send
   and however command_event chooses between the queues: what is put into a
   queue leaves it once and in order. *)
THEOREM QueuesAreMailboxes == Spec => ImplementsMailboxes
<1>1. Init => Boxes!BoxInit
  <2> SUFFICES ASSUME Init PROVE Boxes!BoxInit
    OBVIOUS
  <2>1. IInv
    BY InitHolds
  <2>2. ASSUME NEW q \in CQ PROVE EverPut(q) = <<>> /\ Len(taken[q]) = 0
    <3>1. taken[q] = <<>>
      BY DEF Init
    <3>2. Queued(q) = <<>>
      BY DEF Init, QueuesInit, Queued
    <3>3. EverPut(q) \in Seq(Ids) /\ Len(EverPut(q)) = Len(taken[q]) + Len(Queued(q))
      BY <2>1, QueuedFacts DEF IInv
    <3> HIDE DEF EverPut, Queued
    <3>4. Len(EverPut(q)) = 0
      BY <3>1, <3>2, <3>3
    <3> QED BY <3>1, <3>3, <3>4, EmptySeq
  <2> HIDE DEF EverPut
  <2> QED BY <2>2 DEF Boxes!BoxInit
<1>2. IInv /\ [Next]_vars => [Boxes!BoxNext]_(Boxes!boxes)
  BY StepIsBoxStep
<1> QED BY <1>1, <1>2, InductiveInvariant, PTL DEF Spec, ImplementsMailboxes, Boxes!BoxSpec
=============================================================================
