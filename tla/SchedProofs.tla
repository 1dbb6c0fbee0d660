---------------------------- MODULE SchedProofs ----------------------------
(***************************************************************************)
(* Proofs about Sched for any number of timers, any width of the clock     *)
(* counter and any times that ClockAssumption admits: the timer list stays *)
(* whole whatever is late, and in order as long as nothing is.             *)
(***************************************************************************)
EXTENDS Sched, FiniteSetTheorems, WellFoundedInduction, TLAPS

-----------------------------------------------------------------------------
(* The inductive invariant *)

(* How far the clock c lies ahead of n, negative when it is past. *)
Dist(n, c) ==
    LET d == c - n
    IN  IF d >= Half THEN d - W ELSE IF d < -Half THEN d + W ELSE d

(* The list with the given user timers on it. *)
Linked(list) ==
    /\ list \in Seq(Nodes)
    /\ IsInjective(list)
    /\ Len(list) >= 1 /\ list[Len(list)] = "sentinel"

ListOK(list, timers) ==
    /\ Linked(list) /\ Len(list) >= 2
    /\ "periodic" \in ToSet(list)
    /\ ToSet(list) \intersect Timers = timers
    /\ \A i \in 1..Len(list) : list[i] = "deleted" => i = 1

(* The sentinel, the last one, stands for a time that never comes. *)
Sorted(list, n, wake) ==
    \A i, j \in 1..(Len(list) - 1) :
        i <= j => Dist(n, wake[list[i]]) <= Dist(n, wake[list[j]])

Within(list, n, wake) ==
    \A i \in 1..(Len(list) - 1) :
        /\ -Latency <= Dist(n, wake[list[i]])
        /\ Dist(n, wake[list[i]]) <= Horizon + Period

SentinelInv == waketime["sentinel"] = (waketime["periodic"] + Half) % W

ListInv ==
    /\ ListOK(timer_list, armed)
    /\ last_insert \in ToSet(timer_list) \ {"deleted", "sentinel"}

(* The interrupt comes when the first timer is due.  Only a deleted_timer is
   called before its time. *)
IrqInv ==
    /\ -Latency <= Dist(now, irq)
    /\ Dist(now, irq) <= Dist(now, waketime[timer_list[1]])
    /\ timer_list[1] # "deleted" => irq = waketime[timer_list[1]]

OrderInv ==
    /\ Sorted(timer_list, now, waketime)
    /\ Within(timer_list, now, waketime)
    /\ IrqInv

IInv ==
    /\ TypeOK /\ SentinelInv
    /\ ~overrun => ListInv
    /\ NoLateTimer => ~overrun /\ OrderInv

-----------------------------------------------------------------------------
(* Clocks *)

LEMMA HalfProps ==
  /\ Half \in Nat /\ W \in Nat /\ W = Half + Half /\ Half >= 1 /\ W >= 1
  /\ Period \in Nat /\ Horizon \in Nat /\ MaxPast \in Nat /\ Latency \in Nat
  /\ PastLimit \in Nat
  /\ Period >= 1 /\ Horizon >= 1 /\ Latency <= PastLimit
  /\ Period + Horizon + MaxPast + Latency < Half
<1>1. W \in Nat /\ W = 2 * Half /\ Period + Horizon + MaxPast + Latency < Half
      /\ Period \in Nat \ {0} /\ Horizon \in Nat \ {0}
      /\ MaxPast \in Nat /\ Latency \in Nat /\ PastLimit \in Nat /\ Latency <= PastLimit
  BY ClockAssumption
<1>2. Half \in Int
  BY <1>1 DEF Half
<1> QED BY <1>1, <1>2

(* Modulo W, one round of the counter back or ahead. *)
LEMMA ModW ==
  ASSUME NEW x \in Int
  PROVE  /\ x % W \in Clock
         /\ 0 <= x /\ x < W => x % W = x
         /\ -W <= x /\ x < 0 => x % W = x + W
         /\ W <= x /\ x < W + W => x % W = x - W
<1>1. W \in Nat /\ W >= 1
  BY HalfProps
<1> DEFINE q == x \div W
           r == x % W
           p == W * q
<1>2. x = p + r /\ q \in Int /\ r \in 0..(W - 1)
  BY <1>1
<1> HIDE DEF q, r
<1>3. /\ q >= 2 => p >= W + W
      /\ q = 1 => p = W
      /\ q = 0 => p = 0
      /\ q = -1 => p = -W
      /\ q <= -2 => p <= -W - W
  <2>1. W * 1 = W /\ W * 0 = 0 /\ W * (-1) = -W /\ W * 2 = W + W /\ W * (-2) = -W - W
    BY <1>1
  <2>2. q >= 2 => W * q >= W * 2
    BY <1>1, <1>2
  <2>3. q <= -2 => W * q <= W * (-2)
    BY <1>1, <1>2
  <2> QED BY <2>1, <2>2, <2>3
<1>4. q >= 2 \/ q = 1 \/ q = 0 \/ q = -1 \/ q <= -2
  BY <1>2
<1>5. p \in Int
  BY <1>1, <1>2
<1> HIDE DEF p
<1>6. r \in Clock
  BY <1>2 DEF Clock
<1>7. /\ 0 <= x /\ x < W => r = x
      /\ -W <= x /\ x < 0 => r = x + W
      /\ W <= x /\ x < W + W => r = x - W
  BY <1>1, <1>2, <1>3, <1>4, <1>5
<1> QED BY <1>6, <1>7 DEF r

(* The counter after x ticks from zero, a name that hides the remainder from
   the linear arithmetic of the steps below. *)
Wrap(x) == x % W

LEMMA ModOne ==
  \A x \in Int :
    -W <= x /\ x < W + W =>
      /\ Wrap(x) \in Clock
      /\ x < 0 => Wrap(x) = x + W
      /\ 0 <= x /\ x < W => Wrap(x) = x
      /\ W <= x => Wrap(x) = x - W
<1> TAKE x \in Int
<1>1. W \in Nat /\ W >= 1
  BY HalfProps
<1>2. /\ x % W \in Clock
      /\ 0 <= x /\ x < W => x % W = x
      /\ -W <= x /\ x < 0 => x % W = x + W
      /\ W <= x /\ x < W + W => x % W = x - W
  BY ModW
<1> DEFINE r == x % W
<1> HIDE DEF r
<1>3. /\ r \in Clock
      /\ 0 <= x /\ x < W => r = x
      /\ -W <= x /\ x < 0 => r = x + W
      /\ W <= x /\ x < W + W => r = x - W
  BY <1>2 DEF r
<1>4. -W <= x /\ x < W + W =>
      /\ r \in Clock
      /\ x < 0 => r = x + W
      /\ 0 <= x /\ x < W => r = x
      /\ W <= x => r = x - W
  BY <1>1, <1>3
<1> QED BY <1>4, Zenon DEF r, Wrap

LEMMA DistType ==
  ASSUME NEW n \in Clock, NEW c \in Clock
  PROVE  /\ Dist(n, c) \in Int /\ -Half <= Dist(n, c) /\ Dist(n, c) < Half
         /\ Dist(n, n) = 0
  BY HalfProps DEF Dist, Clock

(* Of two clocks less than half a round apart, the one that lies less far
   ahead is before the other. *)
LEMMA BeforeIff ==
  ASSUME NEW n \in Clock, NEW a \in Clock, NEW b \in Clock,
         Dist(n, a) - Dist(n, b) < Half, Dist(n, b) - Dist(n, a) < Half
  PROVE  timer_is_before(a, b) <=> Dist(n, a) < Dist(n, b)
<1>1. /\ a >= b => (a - b) % W = a - b
      /\ a < b => (a - b) % W = a - b + W
  <2>1. a - b \in Int /\ a - b < W /\ -W <= a - b /\ (a >= b => 0 <= a - b)
        /\ (a < b => a - b < 0)
    BY HalfProps DEF Clock
  <2> QED BY <2>1, ModW
<1>2. timer_is_before(a, b) <=> IF a >= b THEN a - b >= Half ELSE a - b + W >= Half
  BY <1>1 DEF timer_is_before, Clock
<1> QED BY <1>2, HalfProps DEF Dist, Clock

(* A clock that is d ticks later lies d ticks further ahead. *)
LEMMA DistAdd ==
  ASSUME NEW n \in Clock, NEW c \in Clock, NEW d \in Int,
         -Half <= d, d <= Half,
         -Half <= Dist(n, c) + d, Dist(n, c) + d < Half
  PROVE  (c + d) % W \in Clock /\ Dist(n, (c + d) % W) = Dist(n, c) + d
<1>1. /\ (c + d) % W \in Clock
      /\ 0 <= c + d /\ c + d < W => (c + d) % W = c + d
      /\ c + d < 0 => (c + d) % W = c + d + W
      /\ W <= c + d => (c + d) % W = c + d - W
  <2>1. c + d \in Int /\ c + d < W + W /\ -W <= c + d
    BY HalfProps DEF Clock
  <2>2. /\ Wrap(c + d) \in Clock
        /\ 0 <= c + d /\ c + d < W => Wrap(c + d) = c + d
        /\ c + d < 0 => Wrap(c + d) = c + d + W
        /\ W <= c + d => Wrap(c + d) = c + d - W
    BY <2>1, ModOne, HalfProps DEF Clock
  <2> QED BY <2>2, Zenon DEF Wrap
<1> QED BY <1>1, HalfProps DEF Dist, Clock

(* A tick brings every clock nearer. *)
LEMMA DistTick ==
  ASSUME NEW n \in Clock, NEW c \in Clock, Dist(n, c) > -Half
  PROVE  (n + 1) % W \in Clock /\ Dist((n + 1) % W, c) = Dist(n, c) - 1
<1>1. /\ (n + 1) % W \in Clock
      /\ n + 1 < W => (n + 1) % W = n + 1
      /\ W <= n + 1 => (n + 1) % W = n + 1 - W
  <2>1. n + 1 \in Int /\ n + 1 < W + W /\ -W <= n + 1 /\ 0 <= n + 1
    BY HalfProps DEF Clock
  <2>2. /\ Wrap(n + 1) \in Clock
        /\ n + 1 < W => Wrap(n + 1) = n + 1
        /\ W <= n + 1 => Wrap(n + 1) = n + 1 - W
    BY <2>1, ModOne, HalfProps DEF Clock
  <2> QED BY <2>2, Zenon DEF Wrap
<1> QED BY <1>1, HalfProps DEF Dist, Clock

(* How long ago a clock was. *)
LEMMA Elapsed ==
  ASSUME NEW n \in Clock, NEW c \in Clock
  PROVE  /\ Dist(n, c) <= 0 => (n - c) % W = -Dist(n, c)
         /\ Dist(n, c) > 0 => (n - c) % W = W - Dist(n, c)
<1>1. /\ n >= c => (n - c) % W = n - c
      /\ n < c => (n - c) % W = n - c + W
  <2>1. n - c \in Int /\ n - c < W /\ -W <= n - c /\ (n >= c => 0 <= n - c)
        /\ (n < c => n - c < 0)
    BY HalfProps DEF Clock
  <2> QED BY <2>1, ModW
<1> QED BY <1>1, HalfProps DEF Dist, Clock

(* A time is before the sentinel's unless it is before the periodic timer's. *)
LEMMA BeforeSentinel ==
  ASSUME NEW p \in Clock, NEW w \in Clock
  PROVE  timer_is_before(w, (p + Half) % W) <=> ~timer_is_before(w, p)
<1> DEFINE s == (p + Half) % W
<1>1. /\ p + Half < W => s = p + Half
      /\ W <= p + Half => s = p + Half - W
      /\ s \in Clock
  <2>1. p + Half \in Int /\ p + Half < W + W /\ -W <= p + Half /\ 0 <= p + Half
    BY HalfProps DEF Clock
  <2>2. /\ p + Half < W => Wrap(p + Half) = p + Half
        /\ W <= p + Half => Wrap(p + Half) = p + Half - W
        /\ Wrap(p + Half) \in Clock
    BY <2>1, ModOne, HalfProps DEF Clock
  <2> QED BY <2>2, Zenon DEF Wrap, s
<1> HIDE DEF s
<1>2. /\ w >= p => (w - p) % W = w - p
      /\ w < p => (w - p) % W = w - p + W
      /\ w >= s => (w - s) % W = w - s
      /\ w < s => (w - s) % W = w - s + W
  <2>1. /\ w - p \in Int /\ w - p < W /\ -W <= w - p
        /\ (w >= p => 0 <= w - p) /\ (w < p => w - p < 0)
        /\ w - s \in Int /\ w - s < W /\ -W <= w - s
        /\ (w >= s => 0 <= w - s) /\ (w < s => w - s < 0)
    BY <1>1, HalfProps DEF Clock
  <2> QED BY <2>1, ModW
<1>3. timer_is_before(w, s) <=> ~timer_is_before(w, p)
  BY <1>1, <1>2, HalfProps DEF timer_is_before, Clock
<1> QED BY <1>3 DEF s

-----------------------------------------------------------------------------
(* Lists *)

(* A set of natural numbers that is not empty has a least element: the
   intervals 0..n are finite, so that strict inclusion is well-founded. *)
LEMMA LeastNat ==
  ASSUME NEW T \in SUBSET Nat, T # {}
  PROVE  \E x \in T : \A y \in T : x <= y
<1> DEFINE R == StrictSubsetOrdering(Nat)
           U == {0..n : n \in T}
<1>1. \A n \in Nat : 0..n \in FiniteSubsetsOf(Nat)
  BY FS_Interval DEF FiniteSubsetsOf
<1>2. \A m, n \in Nat : m < n => <<0..m, 0..n>> \in R
  BY SMT DEF StrictSubsetOrdering
<1>3. IsWellFoundedOn(R, FiniteSubsetsOf(Nat))
  BY FS_StrictSubsetOrderingWellFounded
<1>4. U \subseteq FiniteSubsetsOf(Nat) /\ U # {}
  BY <1>1
<1> HIDE DEF R
<1>5. \E x \in U : \A y \in U : ~ (<<y, x>> \in R)
  <2> HIDE DEF U
  <2> QED BY <1>3, <1>4, WFMin
<1>6. PICK x \in T : \A y \in T : ~ (<<0..y, 0..x>> \in R)
  BY <1>5
<1>7. \A y \in T : ~ (y < x)
  BY <1>2, <1>6
<1> QED BY <1>7

(* Induction up to a bound: a set of numbers that has 0, and with n also
   n + 1, has all. *)
LEMMA UpTo ==
  ASSUME NEW m \in Nat, NEW P, 0 \in P,
         \A n \in 0..(m - 1) : n \in P => n + 1 \in P
  PROVE  \A n \in 0..m : n \in P
<1> DEFINE T == {n \in 0..m : n \notin P}
<1> SUFFICES ASSUME T # {}  PROVE FALSE
  OBVIOUS
<1>1. T \in SUBSET Nat
  OBVIOUS
<1>2. PICK x \in T : \A y \in T : x <= y
  <2> HIDE DEF T
  <2> QED BY <1>1, LeastNat
<1>3. x \in 0..m /\ x \notin P /\ x # 0
  OBVIOUS
<1>4. x - 1 \in 0..(m - 1) /\ x - 1 \notin T /\ (x - 1) + 1 = x
  BY <1>1, <1>2, <1>3
<1>5. x - 1 \in P
  BY <1>3, <1>4
<1> QED BY <1>3, <1>4, <1>5

(* A sequence of what of another one is not in del, in the same order. *)
Filtered(list, n, del, r) ==
    /\ r \in Seq(Nodes)
    /\ \E h \in [1..Len(r) -> 1..n] :
         /\ \A i \in 1..Len(r) : r[i] = list[h[i]] /\ list[h[i]] \notin del
         /\ \A i, j \in 1..Len(r) : i < j => h[i] < h[j]
         /\ \A k \in 1..n : list[k] \notin del => \E i \in 1..Len(r) : h[i] = k

LEMMA FilteredStep ==
  ASSUME NEW list \in Seq(Nodes), NEW n \in 0..(Len(list) - 1), NEW del, NEW r,
         Filtered(list, n, del, r)
  PROVE  Filtered(list, n + 1, del,
                  IF list[n + 1] \in del THEN r ELSE Append(r, list[n + 1]))
<1>1. /\ r \in Seq(Nodes) /\ Len(r) \in Nat /\ n \in Nat /\ Len(list) \in Nat
      /\ n + 1 \in 1..Len(list) /\ list[n + 1] \in Nodes
      /\ \A k \in 1..(n + 1) : k \in 1..n \/ k = n + 1
  BY DEF Filtered
<1>2. PICK h \in [1..Len(r) -> 1..n] :
         /\ \A i \in 1..Len(r) : r[i] = list[h[i]] /\ list[h[i]] \notin del
         /\ \A i, j \in 1..Len(r) : i < j => h[i] < h[j]
         /\ \A k \in 1..n : list[k] \notin del => \E i \in 1..Len(r) : h[i] = k
  BY DEF Filtered
<1>3. \A i \in 1..Len(r) : h[i] \in 1..n /\ h[i] \in 1..(n + 1) /\ h[i] < n + 1
  BY <1>1
<1>4. CASE list[n + 1] \in del
  <2>1. h \in [1..Len(r) -> 1..(n + 1)]
    BY <1>3
  <2>2. \A k \in 1..(n + 1) : list[k] \notin del => \E i \in 1..Len(r) : h[i] = k
    BY <1>1, <1>2, <1>4
  <2>3. Filtered(list, n + 1, del, r)
    BY <1>1, <1>2, <2>1, <2>2 DEF Filtered
  <2> QED BY <1>4, <2>3
<1>5. CASE list[n + 1] \notin del
  <2> DEFINE s == Append(r, list[n + 1])
             g == [i \in 1..(Len(r) + 1) |-> IF i = Len(r) + 1 THEN n + 1 ELSE h[i]]
  <2>1. /\ s \in Seq(Nodes) /\ Len(s) = Len(r) + 1
        /\ \A i \in 1..Len(r) : s[i] = r[i]
        /\ s[Len(r) + 1] = list[n + 1]
        /\ \A i \in 1..Len(s) : i \in 1..Len(r) \/ i = Len(r) + 1
    BY <1>1
  <2>2. /\ g \in [1..Len(s) -> 1..(n + 1)]
        /\ \A i \in 1..Len(r) : g[i] = h[i]
        /\ g[Len(r) + 1] = n + 1
    BY <1>1, <1>3, <2>1
  <2> HIDE DEF s, g
  <2>3. \A i \in 1..Len(s) : s[i] = list[g[i]] /\ list[g[i]] \notin del
    BY <1>2, <1>5, <2>1, <2>2
  <2>4. \A i, j \in 1..Len(s) : i < j => g[i] < g[j]
    <3> SUFFICES ASSUME NEW i \in 1..Len(s), NEW j \in 1..Len(s), i < j
                 PROVE  g[i] < g[j]
      OBVIOUS
    <3>1. i \in 1..Len(r)
      BY <1>1, <2>1
    <3>2. CASE j \in 1..Len(r)
      BY <1>2, <2>2, <3>1, <3>2
    <3>3. CASE j = Len(r) + 1
      BY <1>3, <2>2, <3>1, <3>3
    <3> QED BY <2>1, <3>2, <3>3
  <2>5. \A k \in 1..(n + 1) : list[k] \notin del => \E i \in 1..Len(s) : g[i] = k
    <3>1. ASSUME NEW k \in 1..n, list[k] \notin del
          PROVE  \E i \in 1..Len(s) : g[i] = k
      <4>1. PICK i \in 1..Len(r) : h[i] = k
        BY <1>2, <3>1
      <4>2. i \in 1..Len(s) /\ g[i] = k
        BY <1>1, <2>1, <2>2, <4>1
      <4> QED BY <4>2
    <3>2. Len(r) + 1 \in 1..Len(s) /\ g[Len(r) + 1] = n + 1
      BY <1>1, <2>1, <2>2
    <3> QED BY <1>1, <3>1, <3>2
  <2>6. Filtered(list, n + 1, del, s)
    BY <2>1, <2>2, <2>3, <2>4, <2>5 DEF Filtered
  <2> QED BY <1>5, <2>6 DEF s
<1> QED BY <1>4, <1>5

(* What Without computes. *)
LEMMA WithoutFilters ==
  ASSUME NEW list \in Seq(Nodes), NEW del
  PROVE  Filtered(list, Len(list), del, Without(list, del))
<1> DEFINE m == Len(list)
           Next1(i, r) == IF list[i] \in del THEN r ELSE Append(r, list[i])
           Rec(n, f) == f = [i \in 0..n |-> IF i = 0 THEN <<>> ELSE Next1(i, f[i - 1])]
           P == {n \in Nat : \E f : Rec(n, f)}
<1>1. m \in Nat
  OBVIOUS
<1> HIDE DEF m, Next1
<1>2. 0 \in P
  <2>1. Rec(0, [i \in 0..0 |-> <<>>])
    OBVIOUS
  <2> HIDE DEF Rec
  <2> QED BY <2>1
<1>3. ASSUME NEW n \in 0..(m - 1), n \in P  PROVE n + 1 \in P
  <2>1. PICK f : Rec(n, f)
    BY <1>3
  <2> DEFINE g == [i \in 0..(n + 1) |-> IF i = n + 1 THEN Next1(n + 1, f[n]) ELSE f[i]]
  <2>2. \A i \in 0..(n + 1) : i \in 0..n \/ i = n + 1
    BY <1>1
  <2>3. \A i \in 0..n : g[i] = f[i] /\ i # n + 1 /\ i \in 0..(n + 1)
    BY <1>1
  <2>4. \A i \in 0..(n + 1) : g[i] = IF i = 0 THEN <<>> ELSE Next1(i, g[i - 1])
    <3> SUFFICES ASSUME NEW i \in 0..(n + 1)
                 PROVE  g[i] = IF i = 0 THEN <<>> ELSE Next1(i, g[i - 1])
      OBVIOUS
    <3>1. CASE i = n + 1
      <4>1. i - 1 = n /\ n \in 0..n /\ i # 0
        BY <1>1, <3>1
      <4>2. g[i] = Next1(n + 1, f[n])
        BY <3>1
      <4> HIDE DEF g
      <4> QED BY <2>3, <3>1, <4>1, <4>2
    <3>2. CASE i \in 0..n
      <4>1. g[i] = f[i]
        BY <2>3, <3>2
      <4>2. f[i] = IF i = 0 THEN <<>> ELSE Next1(i, f[i - 1])
        BY <2>1, <3>2
      <4>3. i # 0 => i - 1 \in 0..n
        BY <1>1, <3>2
      <4> HIDE DEF g, Rec
      <4> QED BY <2>3, <4>1, <4>2, <4>3
    <3> QED BY <2>2, <3>1, <3>2
  <2>5. g = [i \in 0..(n + 1) |-> g[i]]
    OBVIOUS
  <2> HIDE DEF g
  <2>6. Rec(n + 1, g)
    BY <2>4, <2>5
  <2> HIDE DEF Rec
  <2> QED BY <1>1, <2>6
<1>4. m \in P
  <2> HIDE DEF P
  <2>1. \A n \in 0..m : n \in P
    BY <1>1, <1>2, <1>3, UpTo
  <2>2. m \in 0..m
    BY <1>1
  <2> QED BY <2>1, <2>2
<1> DEFINE kept == CHOOSE f : Rec(m, f)
<1>5. Rec(m, kept)
  <2> HIDE DEF Rec
  <2> QED BY <1>4
<1>6. Without(list, del) = kept[m]
  BY DEF Without, m, Next1
<1> HIDE DEF kept
<1>7. kept[0] = <<>> /\ \A n \in 0..(m - 1) : kept[n + 1] = Next1(n + 1, kept[n])
  <2>1. \A i \in 0..m : kept[i] = IF i = 0 THEN <<>> ELSE Next1(i, kept[i - 1])
    BY <1>5
  <2>2. \A n \in 0..(m - 1) : n + 1 \in 0..m /\ n + 1 # 0 /\ (n + 1) - 1 = n
    BY <1>1
  <2> QED BY <1>1, <2>1, <2>2
<1> DEFINE Q == {n \in Nat : Filtered(list, n, del, kept[n])}
<1>8. 0 \in Q
  <2> DEFINE h == [i \in 1..0 |-> i]
  <2>1. kept[0] \in Seq(Nodes) /\ Len(kept[0]) = 0 /\ h \in [1..0 -> 1..0]
    BY <1>7
  <2> QED BY <2>1 DEF Filtered
<1>9. ASSUME NEW n \in 0..(m - 1), n \in Q  PROVE n + 1 \in Q
  <2>1. Filtered(list, n, del, kept[n])
    BY <1>9
  <2>2. Filtered(list, n + 1, del, Next1(n + 1, kept[n]))
    BY <2>1, FilteredStep DEF m, Next1
  <2> QED BY <1>1, <1>7, <2>2
<1>10. m \in Q
  <2> HIDE DEF Q
  <2>1. \A n \in 0..m : n \in Q
    BY <1>1, <1>8, <1>9, UpTo
  <2>2. m \in 0..m
    BY <1>1
  <2> QED BY <2>1, <2>2
<1> QED BY <1>6, <1>10 DEF m

LEMMA SetOf ==
  ASSUME NEW list \in Seq(Nodes), NEW x
  PROVE  x \in ToSet(list) <=> \E i \in 1..Len(list) : list[i] = x
BY DEF ToSet

LEMMA Inserted ==
  ASSUME NEW list \in Seq(Nodes), NEW k \in 1..Len(list), NEW t \in Nodes
  PROVE  /\ InsertAt(list, k, t) \in Seq(Nodes)
         /\ Len(InsertAt(list, k, t)) = Len(list) + 1
         /\ \A i \in 1..(Len(list) + 1) :
              InsertAt(list, k, t)[i] =
                IF i < k THEN list[i] ELSE IF i = k THEN t ELSE list[i - 1]
BY DEF InsertAt

(* A timer that is put in front of another one is linked like the others. *)
LEMMA InsertLinked ==
  ASSUME NEW list, Linked(list), NEW k \in 1..Len(list),
         NEW t \in Nodes, t \notin ToSet(list)
  PROVE  /\ Linked(InsertAt(list, k, t))
         /\ ToSet(InsertAt(list, k, t)) = ToSet(list) \union {t}
         /\ Len(InsertAt(list, k, t)) = Len(list) + 1
<1> DEFINE r == InsertAt(list, k, t)
           m == Len(list)
<1>1. /\ list \in Seq(Nodes) /\ m \in Nat /\ k \in 1..m /\ m >= 1
      /\ list[m] = "sentinel"
      /\ \A i, j \in 1..m : list[i] = list[j] => i = j
      /\ DOMAIN list = 1..m
  BY DEF Linked, IsInjective
<1>2. \A i \in 1..m : list[i] # t
  BY <1>1, SetOf
<1>3. /\ r \in Seq(Nodes) /\ Len(r) = m + 1
      /\ \A i \in 1..(m + 1) :
           r[i] = IF i < k THEN list[i] ELSE IF i = k THEN t ELSE list[i - 1]
  <2>1. list \in Seq(Nodes)
    BY <1>1
  <2> QED BY <2>1, Inserted
<1> HIDE DEF r, m
<1>4. DOMAIN r = 1..(m + 1)
  BY <1>3
<1>5. \A i \in 1..(m + 1) :
        \/ i < k /\ i \in 1..m /\ r[i] = list[i]
        \/ i = k /\ r[i] = t
        \/ i > k /\ i - 1 \in 1..m /\ r[i] = list[i - 1]
  BY <1>1, <1>3
<1>6. IsInjective(r)
  <2> SUFFICES ASSUME NEW i \in 1..(m + 1), NEW j \in 1..(m + 1), r[i] = r[j]
               PROVE  i = j
    BY <1>4 DEF IsInjective
  <2>1. i = k <=> j = k
    BY <1>2, <1>5
  <2>2. CASE i < k
    BY <1>1, <1>5, <2>1, <2>2
  <2>3. CASE i > k
    BY <1>1, <1>5, <2>1, <2>3
  <2> QED BY <1>1, <2>1, <2>2, <2>3
<1>7. r[m + 1] = "sentinel"
  BY <1>1, <1>3
<1>8. ToSet(r) = ToSet(list) \union {t}
  <2>1. ASSUME NEW x \in ToSet(r)  PROVE x \in ToSet(list) \union {t}
    <3>1. PICK i \in 1..(m + 1) : r[i] = x
      BY <1>3, SetOf
    <3>2. CASE r[i] = t
      BY <3>1, <3>2
    <3>3. CASE \E j \in 1..m : r[i] = list[j]
      BY <1>1, <3>1, <3>3, SetOf DEF m
    <3> QED BY <1>5, <3>2, <3>3
  <2>2. t \in ToSet(r)
    <3>1. k \in 1..(m + 1) /\ r[k] = t
      BY <1>1, <1>3
    <3> QED BY <1>3, <3>1, SetOf
  <2>3. ASSUME NEW x \in ToSet(list)  PROVE x \in ToSet(r)
    <3>1. PICK i \in 1..m : list[i] = x
      BY <1>1, SetOf DEF m
    <3>2. CASE i < k
      <4>1. i \in 1..(m + 1) /\ r[i] = x
        BY <1>1, <1>3, <3>1, <3>2
      <4> QED BY <1>3, <4>1, SetOf
    <3>3. CASE i >= k
      <4>1. i + 1 \in 1..(m + 1) /\ r[i + 1] = x
        BY <1>1, <1>3, <3>1, <3>3
      <4> QED BY <1>3, <4>1, SetOf
    <3> QED BY <1>1, <3>2, <3>3
  <2> QED BY <2>1, <2>2, <2>3
<1>9. Linked(r)
  BY <1>1, <1>3, <1>6, <1>7 DEF Linked
<1> QED BY <1>3, <1>8, <1>9 DEF r, m

LEMMA TailLinked ==
  ASSUME NEW list, Linked(list), Len(list) >= 2
  PROVE  /\ Linked(Tail(list))
         /\ ToSet(Tail(list)) = ToSet(list) \ {list[1]}
         /\ Len(Tail(list)) = Len(list) - 1
         /\ \A i \in 1..(Len(list) - 1) : Tail(list)[i] = list[i + 1]
<1> DEFINE r == Tail(list)
           m == Len(list)
<1>1. /\ list \in Seq(Nodes) /\ m \in Nat /\ m >= 2
      /\ list[m] = "sentinel"
      /\ \A i, j \in 1..m : list[i] = list[j] => i = j
      /\ DOMAIN list = 1..m
  BY DEF Linked, IsInjective
<1>2. /\ r \in Seq(Nodes) /\ Len(r) = m - 1 /\ DOMAIN r = 1..(m - 1)
      /\ \A i \in 1..(m - 1) : r[i] = list[i + 1] /\ i + 1 \in 1..m
  BY <1>1
<1> HIDE DEF r, m
<1>3. IsInjective(r)
  <2> SUFFICES ASSUME NEW i \in 1..(m - 1), NEW j \in 1..(m - 1), r[i] = r[j]
               PROVE  i = j
    BY <1>2 DEF IsInjective
  <2>1. i + 1 = j + 1
    BY <1>1, <1>2
  <2> QED BY <2>1
<1>4. r[m - 1] = "sentinel"
  BY <1>1, <1>2
<1>5. ToSet(r) = ToSet(list) \ {list[1]}
  <2>1. ASSUME NEW x \in ToSet(r)  PROVE x \in ToSet(list) /\ x # list[1]
    <3>1. PICK i \in 1..(m - 1) : r[i] = x
      BY <1>2, SetOf
    <3>2. i + 1 \in 1..m /\ 1 \in 1..m /\ i + 1 # 1 /\ list[i + 1] = x
      BY <1>1, <1>2, <3>1
    <3> QED BY <1>1, <3>2, SetOf DEF m
  <2>2. ASSUME NEW x \in ToSet(list), x # list[1]  PROVE x \in ToSet(r)
    <3>1. PICK i \in 1..m : list[i] = x
      BY <1>1, SetOf DEF m
    <3>2. i - 1 \in 1..(m - 1) /\ r[i - 1] = x
      BY <1>1, <1>2, <2>2, <3>1
    <3> QED BY <1>2, <3>2, SetOf
  <2> QED BY <2>1, <2>2
<1>6. Linked(r)
  BY <1>1, <1>2, <1>3, <1>4 DEF Linked
<1> QED BY <1>2, <1>5, <1>6 DEF r, m

(* Putting a node in front. *)
LEMMA ConsLinked ==
  ASSUME NEW list, Linked(list), NEW t \in Nodes, t \notin ToSet(list)
  PROVE  /\ Linked(<<t>> \o list)
         /\ ToSet(<<t>> \o list) = ToSet(list) \union {t}
         /\ Len(<<t>> \o list) = Len(list) + 1
         /\ (<<t>> \o list)[1] = t
         /\ \A i \in 1..Len(list) : (<<t>> \o list)[i + 1] = list[i]
<1>1. list \in Seq(Nodes) /\ Len(list) \in Nat /\ Len(list) >= 1
  BY DEF Linked
<1>2. InsertAt(list, 1, t) = <<t>> \o list
  BY <1>1 DEF InsertAt
<1>3. /\ (<<t>> \o list)[1] = t
      /\ \A i \in 1..Len(list) : (<<t>> \o list)[i + 1] = list[i]
  BY <1>1
<1>4. 1 \in 1..Len(list)
  BY <1>1
<1>5. /\ Linked(InsertAt(list, 1, t))
      /\ ToSet(InsertAt(list, 1, t)) = ToSet(list) \union {t}
      /\ Len(InsertAt(list, 1, t)) = Len(list) + 1
  BY <1>4, InsertLinked
<1> QED BY <1>2, <1>3, <1>5

(* Taking timers out of the list keeps it whole, its first one unless that is
   taken out, and its order. *)
LEMMA WithoutLinked ==
  ASSUME NEW list, Linked(list), NEW del, "sentinel" \notin del
  PROVE  /\ Linked(Without(list, del))
         /\ ToSet(Without(list, del)) = ToSet(list) \ del
         /\ list[1] \notin del => Without(list, del)[1] = list[1]
         /\ (\A i \in 1..Len(list) : list[i] = "deleted" => i = 1)
              => \A i \in 1..Len(Without(list, del)) :
                   Without(list, del)[i] = "deleted" => i = 1
         /\ \A n, wake : Sorted(list, n, wake) => Sorted(Without(list, del), n, wake)
         /\ \A n, wake : Within(list, n, wake) => Within(Without(list, del), n, wake)
<1> DEFINE r == Without(list, del)
           m == Len(list)
<1>1. /\ list \in Seq(Nodes) /\ m \in Nat /\ m >= 1
      /\ list[m] = "sentinel"
      /\ \A i, j \in 1..m : list[i] = list[j] => i = j
      /\ DOMAIN list = 1..m
  BY DEF Linked, IsInjective
<1>2. Filtered(list, m, del, r)
  BY <1>1, WithoutFilters
<1> HIDE DEF r, m
<1>3. r \in Seq(Nodes) /\ Len(r) \in Nat /\ DOMAIN r = 1..Len(r)
  BY <1>2 DEF Filtered
<1>4. PICK h \in [1..Len(r) -> 1..m] :
         /\ \A i \in 1..Len(r) : r[i] = list[h[i]] /\ list[h[i]] \notin del
         /\ \A i, j \in 1..Len(r) : i < j => h[i] < h[j]
         /\ \A k \in 1..m : list[k] \notin del => \E i \in 1..Len(r) : h[i] = k
  BY <1>2 DEF Filtered
<1>5. /\ \A i \in 1..Len(r) : h[i] \in 1..m
      /\ \A i, j \in 1..Len(r) : h[i] = h[j] => i = j
  <2>1. \A i \in 1..Len(r) : h[i] \in 1..m
    OBVIOUS
  <2> SUFFICES ASSUME NEW i \in 1..Len(r), NEW j \in 1..Len(r), h[i] = h[j]
               PROVE  i = j
    BY <2>1
  <2>2. h[i] \in Int /\ h[j] \in Int /\ ~ (h[i] < h[j]) /\ ~ (h[j] < h[i])
    BY <2>1
  <2>3. ~ (i < j) /\ ~ (j < i)
    BY <1>4, <2>2
  <2> QED BY <1>3, <2>3
(* The last one of the filtered list is the sentinel. *)
<1>6. /\ Len(r) \in 1..Len(r) /\ Len(r) >= 1 /\ h[Len(r)] = m
      /\ \A i \in 1..(Len(r) - 1) : i \in 1..Len(r) /\ h[i] \in 1..(m - 1)
  <2>1. PICK i \in 1..Len(r) : h[i] = m
    BY <1>1, <1>4
  <2>2. Len(r) \in 1..Len(r) /\ h[Len(r)] \in 1..m
    BY <1>3, <1>5
  <2>3. ~ (i < Len(r))
    BY <1>1, <1>4, <2>1, <2>2
  <2>4. h[Len(r)] = m
    BY <1>3, <2>1, <2>3
  <2>5. \A j \in 1..(Len(r) - 1) : j \in 1..Len(r) /\ h[j] \in 1..(m - 1)
    <3> SUFFICES ASSUME NEW j \in 1..(Len(r) - 1)
                 PROVE  j \in 1..Len(r) /\ h[j] \in 1..(m - 1)
      OBVIOUS
    <3>1. j \in 1..Len(r) /\ j < Len(r)
      BY <1>3
    <3>2. h[j] \in 1..m /\ h[j] < h[Len(r)]
      BY <1>4, <1>5, <2>2, <3>1
    <3> QED BY <1>1, <2>4, <3>1, <3>2
  <2> QED BY <1>3, <2>2, <2>4, <2>5
<1>7. IsInjective(r)
  <2> SUFFICES ASSUME NEW i \in 1..Len(r), NEW j \in 1..Len(r), r[i] = r[j]
               PROVE  i = j
    BY <1>3 DEF IsInjective
  <2> QED BY <1>1, <1>4, <1>5
<1>8. Linked(r)
  BY <1>1, <1>3, <1>4, <1>6, <1>7 DEF Linked
<1>9. ToSet(r) = ToSet(list) \ del
  <2>1. ASSUME NEW x \in ToSet(r)  PROVE x \in ToSet(list) \ del
    <3>1. PICK i \in 1..Len(r) : r[i] = x
      BY <1>3, SetOf
    <3>2. h[i] \in 1..m /\ list[h[i]] = x /\ x \notin del
      BY <1>4, <1>5, <3>1
    <3> QED BY <1>1, <3>2, SetOf DEF m
  <2>2. ASSUME NEW x \in ToSet(list) \ del  PROVE x \in ToSet(r)
    <3>1. PICK k \in 1..m : list[k] = x
      BY <1>1, SetOf DEF m
    <3>2. PICK i \in 1..Len(r) : h[i] = k
      BY <1>4, <3>1
    <3> QED BY <1>3, <1>4, <3>1, <3>2, SetOf
  <2> QED BY <2>1, <2>2
<1>10. \A i \in 1..Len(r) : h[i] = 1 => i = 1
  <2> SUFFICES ASSUME NEW i \in 1..Len(r), h[i] = 1, i # 1  PROVE FALSE
    OBVIOUS
  <2>1. 1 \in 1..Len(r) /\ 1 < i
    BY <1>3
  <2>2. h[1] < h[i] /\ h[1] \in 1..m
    BY <1>4, <1>5, <2>1
  <2> QED BY <1>1, <2>2
<1>11. list[1] \notin del => r[1] = list[1]
  <2> SUFFICES ASSUME list[1] \notin del  PROVE r[1] = list[1]
    OBVIOUS
  <2>1. 1 \in 1..m
    BY <1>1
  <2>2. PICK i \in 1..Len(r) : h[i] = 1
    BY <1>4, <2>1
  <2> QED BY <1>4, <1>10, <2>2
<1>12. ASSUME \A i \in 1..m : list[i] = "deleted" => i = 1
       PROVE  \A i \in 1..Len(r) : r[i] = "deleted" => i = 1
  <2> SUFFICES ASSUME NEW i \in 1..Len(r), r[i] = "deleted"  PROVE i = 1
    OBVIOUS
  <2>1. h[i] \in 1..m /\ list[h[i]] = "deleted"
    BY <1>4, <1>5
  <2> QED BY <1>10, <1>12, <2>1
<1>13. ASSUME NEW n, NEW wake, Sorted(list, n, wake)  PROVE Sorted(r, n, wake)
  <2> SUFFICES ASSUME NEW i \in 1..(Len(r) - 1), NEW j \in 1..(Len(r) - 1), i <= j
               PROVE  Dist(n, wake[r[i]]) <= Dist(n, wake[r[j]])
    BY DEF Sorted
  <2>1. /\ i \in 1..Len(r) /\ j \in 1..Len(r)
        /\ h[i] \in 1..(m - 1) /\ h[j] \in 1..(m - 1)
        /\ r[i] = list[h[i]] /\ r[j] = list[h[j]]
    BY <1>4, <1>6
  <2>2. h[i] <= h[j]
    <3>1. CASE i = j
      BY <1>1, <2>1, <3>1
    <3>2. CASE i < j
      BY <1>1, <1>4, <2>1, <3>2
    <3> QED BY <3>1, <3>2
  <2> QED BY <1>13, <2>1, <2>2 DEF Sorted, m
<1>14. ASSUME NEW n, NEW wake, Within(list, n, wake)  PROVE Within(r, n, wake)
  <2> SUFFICES ASSUME NEW i \in 1..(Len(r) - 1)
               PROVE  /\ -Latency <= Dist(n, wake[r[i]])
                      /\ Dist(n, wake[r[i]]) <= Horizon + Period
    BY DEF Within
  <2>1. h[i] \in 1..(m - 1) /\ r[i] = list[h[i]]
    BY <1>4, <1>6
  <2> QED BY <1>14, <2>1 DEF Within, m
<1> HIDE DEF Linked, Sorted, Within
<1> QED BY <1>8, <1>9, <1>11, <1>12, <1>13, <1>14 DEF r, m

LEMMA TailOrder ==
  ASSUME NEW list, Linked(list), Len(list) >= 2, NEW n, NEW wake
  PROVE  /\ Sorted(list, n, wake) => Sorted(Tail(list), n, wake)
         /\ Within(list, n, wake) => Within(Tail(list), n, wake)
<1>1. /\ Len(list) \in Nat /\ Len(Tail(list)) = Len(list) - 1
      /\ \A i \in 1..(Len(list) - 1) : Tail(list)[i] = list[i + 1]
  BY TailLinked DEF Linked
<1>2. \A i \in 1..(Len(Tail(list)) - 1) :
        i + 1 \in 1..(Len(list) - 1) /\ Tail(list)[i] = list[i + 1]
  BY <1>1
<1>3. ASSUME Sorted(list, n, wake)  PROVE Sorted(Tail(list), n, wake)
  BY <1>2, <1>3 DEF Sorted
<1>4. ASSUME Within(list, n, wake)  PROVE Within(Tail(list), n, wake)
  BY <1>2, <1>4 DEF Within
<1> QED BY <1>3, <1>4

-----------------------------------------------------------------------------
(* The search for a place *)

(* A distance at which clocks are compared: not before the latest command and
   not after the latest timer. *)
Near(d) == -(MaxPast + Latency) <= d /\ d <= Horizon + Period

LEMMA NearBefore ==
  ASSUME NEW n \in Clock, NEW a \in Clock, NEW b \in Clock,
         Near(Dist(n, a)), Near(Dist(n, b))
  PROVE  timer_is_before(a, b) <=> Dist(n, a) < Dist(n, b)
<1>1. Dist(n, a) \in Int /\ Dist(n, b) \in Int
  BY DistType
<1>2. Dist(n, a) - Dist(n, b) < Half /\ Dist(n, b) - Dist(n, a) < Half
  BY <1>1, HalfProps DEF Near
<1> QED BY <1>2, BeforeIff

LEMMA WithinNear ==
  ASSUME NEW list, Linked(list), NEW n \in Clock, NEW wake \in [Nodes -> Clock],
         Within(list, n, wake)
  PROVE  /\ Len(list) \in Nat /\ Len(list) >= 1
         /\ \A i \in 1..Len(list) : list[i] \in Nodes /\ wake[list[i]] \in Clock
         /\ \A i \in 1..(Len(list) - 1) :
              /\ i \in 1..Len(list)
              /\ Near(Dist(n, wake[list[i]]))
              /\ Dist(n, wake[list[i]]) \in Int
<1>1. list \in Seq(Nodes) /\ Len(list) \in Nat /\ Len(list) >= 1
  BY DEF Linked
<1>2. \A i \in 1..Len(list) : list[i] \in Nodes /\ wake[list[i]] \in Clock
  BY <1>1
<1>3. \A i \in 1..(Len(list) - 1) :
        i \in 1..Len(list) /\ Dist(n, wake[list[i]]) \in Int
  <2>1. \A i \in 1..(Len(list) - 1) : i \in 1..Len(list)
    BY <1>1
  <2> QED BY <1>2, <2>1, DistType
<1>4. \A i \in 1..(Len(list) - 1) : Near(Dist(n, wake[list[i]]))
  BY <1>3, HalfProps DEF Within, Near
<1> QED BY <1>1, <1>2, <1>3, <1>4

(* A timer goes where the order wants it if the ones that the search skips
   are not later. *)
LEMMA InsertOrder ==
  ASSUME NEW n \in Clock, NEW wake \in [Nodes -> Clock],
         NEW list, Linked(list), Sorted(list, n, wake), Within(list, n, wake),
         NEW t \in Nodes, t \notin ToSet(list),
         -Latency <= Dist(n, wake[t]), Dist(n, wake[t]) <= Horizon + Period,
         NEW from \in 1..Len(list),
         \A j \in 1..(from - 1) : Dist(n, wake[list[j]]) <= Dist(n, wake[t]),
         NEW k \in Places(list, wake, from, wake[t])
  PROVE  /\ Sorted(InsertAt(list, k, t), n, wake)
         /\ Within(InsertAt(list, k, t), n, wake)
<1> DEFINE r == InsertAt(list, k, t)
           m == Len(list)
           D(x) == Dist(n, wake[x])
<1>1. /\ m \in Nat /\ m >= 1
      /\ \A i \in 1..m : list[i] \in Nodes /\ wake[list[i]] \in Clock
      /\ \A i \in 1..(m - 1) : i \in 1..m /\ Near(D(list[i])) /\ D(list[i]) \in Int
  BY WithinNear
<1>2. /\ D(t) \in Int /\ Near(D(t)) /\ wake[t] \in Clock
  <2>1. D(t) \in Int /\ wake[t] \in Clock
    BY DistType
  <2> QED BY <2>1, HalfProps DEF Near
<1>3. /\ k \in from..m /\ k \in 1..m /\ k \in Nat
      /\ timer_is_before(wake[t], wake[list[k]])
      /\ \A j \in from..(k - 1) : ~timer_is_before(wake[t], wake[list[j]])
  BY <1>1 DEF Places
<1>4. /\ Len(r) = m + 1
      /\ \A i \in 1..(m + 1) :
           r[i] = IF i < k THEN list[i] ELSE IF i = k THEN t ELSE list[i - 1]
  BY <1>3, Inserted DEF Linked
<1> HIDE DEF r
<1>5. \A i \in 1..(k - 1) : i \in 1..(m - 1) /\ D(list[i]) <= D(t)
  <2> SUFFICES ASSUME NEW i \in 1..(k - 1)
               PROVE  i \in 1..(m - 1) /\ D(list[i]) <= D(t)
    OBVIOUS
  <2>1. i \in 1..(m - 1)
    BY <1>1, <1>3
  <2>2. CASE i < from
    BY <1>3, <2>1, <2>2
  <2>3. CASE i >= from
    <3>1. ~timer_is_before(wake[t], wake[list[i]])
      BY <1>3, <2>3
    <3>2. ~ (D(t) < D(list[i]))
      BY <1>1, <1>2, <2>1, <3>1, NearBefore
    <3> QED BY <1>1, <1>2, <2>1, <3>2
  <2> QED BY <2>1, <2>2, <2>3
<1>6. \A i \in k..(m - 1) : i \in 1..(m - 1) /\ D(t) <= D(list[i])
  <2> SUFFICES ASSUME NEW i \in k..(m - 1)
               PROVE  i \in 1..(m - 1) /\ D(t) <= D(list[i])
    OBVIOUS
  <2>1. i \in 1..(m - 1) /\ k \in 1..(m - 1) /\ k <= i
    BY <1>1, <1>3
  <2>2. D(t) < D(list[k])
    BY <1>1, <1>2, <1>3, <2>1, NearBefore
  <2>3. D(list[k]) <= D(list[i])
    BY <2>1 DEF Sorted
  <2> QED BY <1>1, <1>2, <2>1, <2>2, <2>3
<1>7. \A i \in 1..(Len(r) - 1) :
        \/ i < k /\ i \in 1..(k - 1) /\ r[i] = list[i]
        \/ i = k /\ r[i] = t
        \/ i > k /\ i - 1 \in k..(m - 1) /\ r[i] = list[i - 1]
  BY <1>1, <1>3, <1>4
<1>8. Sorted(r, n, wake)
  <2> SUFFICES ASSUME NEW i \in 1..(Len(r) - 1), NEW j \in 1..(Len(r) - 1), i <= j
               PROVE  D(r[i]) <= D(r[j])
    BY DEF Sorted
  <2>0. \A a, b \in 1..(m - 1) : a <= b => D(list[a]) <= D(list[b])
    BY DEF Sorted
  <2> HIDE DEF D
  <2>1. CASE i < k
    <3>1. i \in 1..(k - 1) /\ i \in 1..(m - 1) /\ r[i] = list[i] /\ D(list[i]) <= D(t)
      BY SMTT(30), <1>3, <1>5, <1>7, <2>1
    <3>2. CASE j < k
      BY <1>3, <1>5, <1>7, <2>0, <3>1, <3>2
    <3>3. CASE j = k
      BY <1>3, <1>7, <3>1, <3>3
    <3>4. CASE j > k
      <4>1. j - 1 \in 1..(m - 1) /\ r[j] = list[j - 1] /\ i <= j - 1
        BY <1>3, <1>6, <1>7, <3>1, <3>4
      <4> QED BY <2>0, <3>1, <4>1
    <3> QED BY <1>3, <3>2, <3>3, <3>4
  <2>2. CASE i = k
    <3>1. r[i] = t
      BY <1>3, <1>7, <2>2
    <3>2. CASE j = k
      BY <1>2, <1>7, <2>2, <3>1, <3>2
    <3>3. CASE j > k
      BY <1>3, <1>6, <1>7, <3>1, <3>3
    <3> QED BY <1>3, <2>2, <3>2, <3>3
  <2>3. CASE i > k
    <3>1. /\ i - 1 \in 1..(m - 1) /\ r[i] = list[i - 1]
          /\ j - 1 \in 1..(m - 1) /\ r[j] = list[j - 1] /\ i - 1 <= j - 1
      BY <1>3, <1>6, <1>7, <2>3
    <3> QED BY <2>0, <3>1
  <2> QED BY <1>3, <2>1, <2>2, <2>3
<1>9. Within(r, n, wake)
  <2> SUFFICES ASSUME NEW i \in 1..(Len(r) - 1)
               PROVE  -Latency <= D(r[i]) /\ D(r[i]) <= Horizon + Period
    BY DEF Within
  <2>1. \A a \in 1..(m - 1) : -Latency <= D(list[a]) /\ D(list[a]) <= Horizon + Period
    BY DEF Within
  <2>2. -Latency <= D(t) /\ D(t) <= Horizon + Period
    OBVIOUS
  <2> HIDE DEF D
  <2> QED BY <1>5, <1>6, <1>7, <2>1, <2>2
<1> QED BY <1>8, <1>9 DEF r

(* The search ends at the sentinel unless the periodic timer, which would
   have ended it before, was left out. *)
LEMMA PlaceFound ==
  ASSUME NEW wake \in [Nodes -> Clock],
         wake["sentinel"] = (wake["periodic"] + Half) % W,
         NEW list, Linked(list), NEW w \in Clock, NEW from \in 1..Len(list),
         \/ ~timer_is_before(w, wake["periodic"])
         \/ \E p \in from..Len(list) : list[p] = "periodic"
  PROVE  Places(list, wake, from, w) # {}
<1>1. Len(list) \in Nat /\ Len(list) >= 1 /\ list[Len(list)] = "sentinel"
  BY DEF Linked
<1>2. wake["periodic"] \in Clock
  BY DEF Nodes
<1>3. timer_is_before(w, wake["sentinel"]) <=> ~timer_is_before(w, wake["periodic"])
  BY <1>2, BeforeSentinel
<1> DEFINE T == {k \in from..Len(list) : timer_is_before(w, wake[list[k]])}
<1>4. T # {}
  <2>1. CASE ~timer_is_before(w, wake["periodic"])
    <3>1. Len(list) \in T
      BY <1>1, <1>3, <2>1
    <3> QED BY <3>1
  <2>2. CASE timer_is_before(w, wake["periodic"])
    <3>1. PICK p \in from..Len(list) : list[p] = "periodic"
      BY <2>2
    <3>2. p \in T
      BY <2>2, <3>1
    <3> QED BY <3>2
  <2> QED BY <2>1, <2>2
<1>5. T \in SUBSET Nat
  BY <1>1
<1>6. PICK k \in T : \A y \in T : k <= y
  <2> HIDE DEF T
  <2> QED BY <1>4, <1>5, LeastNat
<1>7. \A j \in from..(k - 1) : ~timer_is_before(w, wake[list[j]])
  <2> SUFFICES ASSUME NEW j \in from..(k - 1), timer_is_before(w, wake[list[j]])
               PROVE  FALSE
    OBVIOUS
  <2>1. k \in Nat /\ k <= Len(list) /\ j \in Int /\ j < k
    BY <1>1
  <2>2. j \in from..Len(list)
    BY <1>1, <2>1
  <2>3. j \in T
    BY <2>2
  <2> QED BY <1>6, <2>1, <2>3
<1>8. k \in Places(list, wake, from, w)
  BY <1>7 DEF Places
<1> QED BY <1>8

-----------------------------------------------------------------------------
(* Rescheduling *)

(* What ListOK says, index by index. *)
LEMMA ListFacts ==
  ASSUME NEW list, NEW timers, ListOK(list, timers)
  PROVE  /\ Linked(list) /\ list \in Seq(Nodes) /\ Len(list) \in Nat /\ Len(list) >= 2
         /\ Len(list) = 2 \/ Len(list) >= 3
         /\ Head(list) = list[1]
         /\ list[Len(list)] = "sentinel"
         /\ \A i, j \in 1..Len(list) : list[i] = list[j] => i = j
         /\ \A i \in 1..Len(list) : list[i] \in Nodes
         /\ \A i \in 1..Len(list) : list[i] = "deleted" => i = 1
         /\ \E p \in 1..Len(list) : list[p] = "periodic"
         /\ ToSet(list) \intersect Timers = timers
         /\ list[1] # "sentinel"
<1>1. /\ Linked(list) /\ list \in Seq(Nodes) /\ Len(list) \in Nat /\ Len(list) >= 2
      /\ list[Len(list)] = "sentinel" /\ DOMAIN list = 1..Len(list)
      /\ \A i, j \in 1..Len(list) : list[i] = list[j] => i = j
      /\ \A i \in 1..Len(list) : list[i] = "deleted" => i = 1
      /\ "periodic" \in ToSet(list) /\ ToSet(list) \intersect Timers = timers
  BY DEF ListOK, Linked, IsInjective
<1>2. \E p \in 1..Len(list) : list[p] = "periodic"
  BY <1>1, SetOf
<1>3. list[1] # "sentinel"
  BY <1>1
<1>4. \A i \in 1..Len(list) : list[i] \in Nodes
  BY <1>1
<1>5. Head(list) = list[1]
  BY <1>1
<1> QED BY <1>1, <1>2, <1>3, <1>4, <1>5

(* The rescheduled timer stays in front, or it is inserted in the rest of the
   list behind one that it is not before. *)
LEMMA RescheduleCases ==
  ASSUME NEW list, NEW timers, ListOK(list, timers), list[1] # "deleted",
         NEW wake \in [Nodes -> Clock],
         wake["sentinel"] = (wake["periodic"] + Half) % W,
         NEW last \in ToSet(list) \ {"deleted", "sentinel"},
         Reschedule(list, wake, last)
  PROVE  \/ /\ timer_is_before(wake[list[1]], wake[list[2]])
            /\ timer_list' = list /\ last_insert' = last /\ overrun' = overrun
         \/ /\ Len(list) >= 3
            /\ last_insert' = list[1]
            /\ \E from \in 1..Len(Tail(list)) :
                 /\ from > 1 => ~timer_is_before(wake[list[1]], wake[Tail(list)[from - 1]])
                 /\ insert_timer(Tail(list), wake, from, list[1])
<1> DEFINE t    == list[1]
           rest == Tail(list)
           pos  == IF timer_is_before(wake[t], wake[last]) THEN Head(rest) ELSE last
           from == IF pos = t THEN 1
                   ELSE 1 + CHOOSE i \in 1..Len(rest) : rest[i] = pos
<1>1. /\ Linked(list) /\ list \in Seq(Nodes) /\ Len(list) \in Nat /\ Len(list) >= 2
      /\ Head(list) = t /\ list[Len(list)] = "sentinel"
      /\ \A i, j \in 1..Len(list) : list[i] = list[j] => i = j
      /\ \A i \in 1..Len(list) : list[i] \in Nodes
      /\ \E p \in 1..Len(list) : list[p] = "periodic"
  BY ListFacts
<1>2. \/ /\ timer_is_before(wake[t], wake[list[2]])
         /\ timer_list' = list /\ last_insert' = last /\ overrun' = overrun
      \/ /\ ~timer_is_before(wake[t], wake[list[2]])
         /\ insert_timer(rest, wake, from, t) /\ last_insert' = t
  BY <1>1 DEF Reschedule
<1>3. ~timer_is_before(wake[t], wake[list[2]]) => Len(list) >= 3
  <2>1. ASSUME Len(list) = 2  PROVE timer_is_before(wake[t], wake[list[2]])
    <3>1. list[2] = "sentinel" /\ list[1] = "periodic"
      BY <1>1, <2>1
    <3>2. wake["periodic"] \in Clock
      BY DEF Nodes
    <3>3. ~timer_is_before(wake["periodic"], wake["periodic"])
      <4>1. (wake["periodic"] - wake["periodic"]) % W = 0
        <5>1. wake["periodic"] - wake["periodic"] = 0
          BY <3>2 DEF Clock
        <5>2. 0 % W = 0
          BY HalfProps
        <5> QED BY <5>1, <5>2
      <4> QED BY <4>1, HalfProps DEF timer_is_before
    <3> QED BY <3>1, <3>2, <3>3, BeforeSentinel
  <2>2. Len(list) = 2 \/ Len(list) >= 3
    BY ListFacts
  <2> QED BY <2>1, <2>2
<1> SUFFICES ASSUME ~timer_is_before(wake[t], wake[list[2]]),
                    insert_timer(rest, wake, from, t), last_insert' = t
             PROVE  /\ Len(list) >= 3 /\ from \in 1..Len(rest)
                    /\ from > 1 => ~timer_is_before(wake[t], wake[rest[from - 1]])
  BY <1>2
<1>3a. Len(list) >= 3
  BY <1>3
<1>4. /\ Len(rest) = Len(list) - 1
      /\ \A i \in 1..(Len(list) - 1) : rest[i] = list[i + 1]
      /\ Head(rest) = rest[1] /\ rest[1] = list[2]
  BY <1>1, <1>3
<1>5. PICK l \in 1..Len(list) : list[l] = last
  BY <1>1, SetOf
<1>6. l # Len(list)
  BY <1>1, <1>5
<1>7. ASSUME pos # t
      PROVE  \E i \in 1..(Len(rest) - 1) : rest[i] = pos
  <2>1. CASE pos = Head(rest)
    <3>1. 1 \in 1..(Len(rest) - 1) /\ rest[1] = pos
      BY <1>1, <1>3, <1>4, <2>1
    <3> QED BY <3>1
  <2>2. CASE pos = last
    <3>1. l # 1
      BY <1>5, <1>7, <2>2
    <3>2. l - 1 \in 1..(Len(rest) - 1) /\ rest[l - 1] = pos
      BY <1>1, <1>4, <1>5, <1>6, <2>2, <3>1
    <3> QED BY <3>2
  <2> QED BY <2>1, <2>2
<1>8. ~timer_is_before(wake[t], wake[pos])
  BY <1>4
<1> HIDE DEF rest, pos
<1>9. CASE pos = t
  <2>1. from = 1
    BY <1>9
  <2> QED BY <1>1, <1>3, <1>4, <2>1
<1>10. CASE pos # t
  <2> DEFINE i == CHOOSE i \in 1..Len(rest) : rest[i] = pos
  <2>1. Len(rest) \in Nat /\ \A j, h \in 1..Len(rest) : rest[j] = rest[h] => j = h
    <3> SUFFICES ASSUME NEW j \in 1..Len(rest), NEW h \in 1..Len(rest), rest[j] = rest[h]
                 PROVE  Len(rest) \in Nat /\ j = h
      BY <1>1, <1>4
    <3>1. /\ j + 1 \in 1..Len(list) /\ h + 1 \in 1..Len(list)
          /\ list[j + 1] = list[h + 1]
      BY <1>1, <1>4
    <3>2. j + 1 = h + 1
      BY <1>1, <3>1
    <3> QED BY <1>1, <1>4, <3>2
  <2>2. PICK j \in 1..(Len(rest) - 1) : rest[j] = pos
    BY <1>7, <1>10
  <2>3. j \in 1..Len(rest)
    BY <2>1
  <2>4. i \in 1..Len(rest) /\ rest[i] = pos
    BY <2>2, <2>3
  <2>5. from = 1 + i
    BY <1>10
  <2> HIDE DEF i
  <2>6. i = j
    BY <2>1, <2>2, <2>3, <2>4
  <2> HIDE DEF from
  <2>7. from \in 1..Len(rest) /\ from - 1 = i
    BY <2>1, <2>5, <2>6
  <2> QED BY <1>3, <1>8, <2>4, <2>7
<1> QED BY <1>9, <1>10

(* Wherever the rescheduled timer goes, the list stays whole. *)
LEMMA RescheduleList ==
  ASSUME NEW list, NEW timers, ListOK(list, timers), list[1] # "deleted",
         NEW wake \in [Nodes -> Clock],
         wake["sentinel"] = (wake["periodic"] + Half) % W,
         NEW last \in ToSet(list) \ {"deleted", "sentinel"},
         ~overrun, Reschedule(list, wake, last)
  PROVE  /\ overrun' \in BOOLEAN
         /\ timer_list' \in Seq(Nodes) /\ Len(timer_list') >= 2
         /\ last_insert' \in Nodes
         /\ ~overrun' => /\ ListOK(timer_list', timers)
                         /\ last_insert' \in ToSet(timer_list') \ {"deleted", "sentinel"}
<1> DEFINE t    == list[1]
           rest == Tail(list)
<1>1. /\ Linked(list) /\ list \in Seq(Nodes) /\ Len(list) \in Nat /\ Len(list) >= 2
      /\ \A i, j \in 1..Len(list) : list[i] = list[j] => i = j
      /\ \A i \in 1..Len(list) : list[i] \in Nodes
      /\ \A i \in 1..Len(list) : list[i] = "deleted" => i = 1
      /\ list[1] # "sentinel"
      /\ ToSet(list) \intersect Timers = timers
      /\ "periodic" \in ToSet(list)
  BY ListFacts DEF ListOK
<1>2. /\ Linked(rest) /\ ToSet(rest) = ToSet(list) \ {t} /\ Len(rest) = Len(list) - 1
      /\ \A i \in 1..(Len(list) - 1) : rest[i] = list[i + 1]
  BY <1>1, TailLinked
<1>3. t \in Nodes /\ t \in ToSet(list) /\ last \in Nodes
  <2>1. 1 \in 1..Len(list)
    BY <1>1
  <2>2. PICK l \in 1..Len(list) : list[l] = last
    BY <1>1, SetOf
  <2> QED BY <1>1, <2>1, <2>2, SetOf
<1> HIDE DEF rest, t
<1>4. CASE timer_list' = list /\ last_insert' = last /\ overrun' = overrun
  <2>1. overrun' = FALSE
    BY <1>4
  <2> QED BY <1>1, <1>3, <1>4, <2>1
<1>5. CASE /\ Len(list) >= 3 /\ last_insert' = t
           /\ \E from \in 1..Len(rest) : insert_timer(rest, wake, from, t)
  <2>1. PICK from \in 1..Len(rest) : insert_timer(rest, wake, from, t)
    BY <1>5
  <2>2. CASE overrun' = TRUE /\ timer_list' = rest
    BY <1>1, <1>2, <1>3, <1>5, <2>2 DEF Linked
  <2>3. CASE \E k \in Places(rest, wake, from, wake[t]) :
               overrun' = overrun /\ timer_list' = InsertAt(rest, k, t)
    <3>1. PICK k \in Places(rest, wake, from, wake[t]) :
               overrun' = overrun /\ timer_list' = InsertAt(rest, k, t)
      BY <2>3
    <3>2. k \in 1..Len(rest) /\ Len(rest) \in Nat
      BY <1>1, <1>2 DEF Places
    <3>3. t \notin ToSet(rest)
      BY <1>2
    <3>4. /\ Linked(timer_list') /\ ToSet(timer_list') = ToSet(rest) \union {t}
          /\ Len(timer_list') = Len(rest) + 1
      BY <1>2, <1>3, <3>1, <3>2, <3>3, InsertLinked
    <3>5. /\ ToSet(timer_list') = ToSet(list)
          /\ "periodic" \in ToSet(timer_list')
          /\ ToSet(timer_list') \intersect Timers = timers
          /\ Len(timer_list') >= 2
      BY <1>1, <1>2, <1>3, <3>4
    <3>6. "deleted" \notin ToSet(timer_list') /\ t \notin {"deleted", "sentinel"}
      BY <1>1, <3>5, SetOf DEF t
    <3>7. timer_list' \in Seq(Nodes)
      BY <3>4 DEF Linked
    <3>8. \A i \in 1..Len(timer_list') : timer_list'[i] = "deleted" => i = 1
      BY <3>6, <3>7, SetOf
    <3>9. ListOK(timer_list', timers)
      BY <3>4, <3>5, <3>8 DEF ListOK
    <3>10. last_insert' \in ToSet(timer_list') \ {"deleted", "sentinel"}
      BY <1>3, <1>5, <3>5, <3>6
    <3>11. overrun' = FALSE
      BY <3>1
    <3> QED BY <1>3, <1>5, <3>5, <3>7, <3>9, <3>10, <3>11
  <2> QED BY <2>1, <2>2, <2>3 DEF insert_timer
<1>6. \/ timer_list' = list /\ last_insert' = last /\ overrun' = overrun
      \/ /\ Len(list) >= 3 /\ last_insert' = t
         /\ \E from \in 1..Len(rest) : insert_timer(rest, wake, from, t)
  BY RescheduleCases DEF t, rest
<1> QED BY <1>4, <1>5, <1>6

(* When the rest of the list is in order, the search finds a place and the
   list is in order again. *)
LEMMA RescheduleOrder ==
  ASSUME NEW list, NEW timers, ListOK(list, timers), list[1] # "deleted",
         NEW wake \in [Nodes -> Clock],
         wake["sentinel"] = (wake["periodic"] + Half) % W,
         NEW last \in ToSet(list) \ {"deleted", "sentinel"},
         NEW n \in Clock,
         Sorted(Tail(list), n, wake), Within(Tail(list), n, wake),
         -Latency <= Dist(n, wake[list[1]]),
         Dist(n, wake[list[1]]) <= Horizon + Period,
         Reschedule(list, wake, last)
  PROVE  /\ overrun' = overrun
         /\ Sorted(timer_list', n, wake) /\ Within(timer_list', n, wake)
<1> DEFINE t    == list[1]
           rest == Tail(list)
           D(x) == Dist(n, wake[x])
<1>1. /\ Linked(list) /\ list \in Seq(Nodes) /\ Len(list) \in Nat /\ Len(list) >= 2
      /\ \A i \in 1..Len(list) : list[i] \in Nodes
      /\ \E p \in 1..Len(list) : list[p] = "periodic"
      /\ 1 \in 1..Len(list)
  BY ListFacts
<1>2. /\ Linked(rest) /\ ToSet(rest) = ToSet(list) \ {t} /\ Len(rest) = Len(list) - 1
      /\ \A i \in 1..(Len(list) - 1) : rest[i] = list[i + 1]
  BY <1>1, TailLinked
<1>3. /\ Len(rest) \in Nat /\ Len(rest) >= 1
      /\ \A i \in 1..Len(rest) : rest[i] \in Nodes /\ wake[rest[i]] \in Clock
      /\ \A i \in 1..(Len(rest) - 1) :
           i \in 1..Len(rest) /\ Near(D(rest[i])) /\ D(rest[i]) \in Int
  BY <1>2, WithinNear
<1>4. /\ t \in Nodes /\ wake[t] \in Clock /\ D(t) \in Int /\ Near(D(t))
      /\ -Latency <= D(t) /\ D(t) <= Horizon + Period
  <2>1. t \in Nodes /\ wake[t] \in Clock
    BY <1>1
  <2>2. D(t) \in Int
    BY <2>1, DistType
  <2> QED BY <2>1, <2>2, HalfProps DEF Near
<1>5. \A i, j \in 1..(Len(rest) - 1) : i <= j => D(rest[i]) <= D(rest[j])
  BY DEF Sorted
<1>6. \A i \in 1..(Len(rest) - 1) :
         -Latency <= D(rest[i]) /\ D(rest[i]) <= Horizon + Period
  BY DEF Within
<1>7. \/ /\ timer_is_before(wake[t], wake[list[2]])
         /\ timer_list' = list /\ overrun' = overrun
      \/ /\ Len(list) >= 3
         /\ \E from \in 1..Len(rest) :
              /\ from > 1 => ~timer_is_before(wake[t], wake[rest[from - 1]])
              /\ insert_timer(rest, wake, from, t)
  BY RescheduleCases
<1>8. CASE /\ timer_is_before(wake[t], wake[list[2]])
           /\ timer_list' = list /\ overrun' = overrun
  <2> HIDE DEF rest
  <2>1. \A i \in 1..(Len(list) - 1) :
          \/ i = 1 /\ list[i] = t
          \/ i > 1 /\ i - 1 \in 1..(Len(rest) - 1) /\ list[i] = rest[i - 1]
    BY <1>1, <1>2
  <2>2. \A i \in 1..(Len(rest) - 1) : D(t) <= D(rest[i])
    <3> SUFFICES ASSUME NEW i \in 1..(Len(rest) - 1)  PROVE D(t) <= D(rest[i])
      OBVIOUS
    <3>1. 1 \in 1..(Len(rest) - 1) /\ 1 <= i /\ rest[1] = list[2]
      BY <1>1, <1>2, <1>3
    <3>2. D(t) < D(rest[1])
      BY <1>3, <1>4, <1>8, <3>1, NearBefore
    <3>3. D(rest[1]) <= D(rest[i])
      BY <1>5, <3>1
    <3> QED BY <1>3, <1>4, <3>1, <3>2, <3>3
  <2>3. Sorted(list, n, wake)
    <3> SUFFICES ASSUME NEW i \in 1..(Len(list) - 1), NEW j \in 1..(Len(list) - 1), i <= j
                 PROVE  D(list[i]) <= D(list[j])
      BY DEF Sorted
    <3> HIDE DEF D, t
    <3>1. CASE j = 1
      BY <1>4, <2>1, <3>1
    <3>2. CASE j > 1 /\ i = 1
      BY <2>1, <2>2, <3>2
    <3>3. CASE i > 1
      BY <1>5, <2>1, <3>3
    <3> QED BY <1>1, <3>1, <3>2, <3>3
  <2>4. Within(list, n, wake)
    <3> SUFFICES ASSUME NEW i \in 1..(Len(list) - 1)
                 PROVE  -Latency <= D(list[i]) /\ D(list[i]) <= Horizon + Period
      BY DEF Within
    <3> HIDE DEF D, t
    <3> QED BY <1>4, <1>6, <2>1
  <2> QED BY <1>8, <2>3, <2>4
<1>9. CASE \E from \in 1..Len(rest) :
              /\ from > 1 => ~timer_is_before(wake[t], wake[rest[from - 1]])
              /\ insert_timer(rest, wake, from, t)
  <2>1. PICK from \in 1..Len(rest) :
              /\ from > 1 => ~timer_is_before(wake[t], wake[rest[from - 1]])
              /\ insert_timer(rest, wake, from, t)
    BY <1>9
  <2>2. \A j \in 1..(from - 1) : j \in 1..(Len(rest) - 1) /\ D(rest[j]) <= D(t)
    <3> SUFFICES ASSUME NEW j \in 1..(from - 1)
                 PROVE  j \in 1..(Len(rest) - 1) /\ D(rest[j]) <= D(t)
      OBVIOUS
    <3> HIDE DEF rest, t
    <3>1. /\ j \in 1..(Len(rest) - 1) /\ from - 1 \in 1..(Len(rest) - 1)
          /\ j <= from - 1 /\ from > 1
      BY <1>3
    <3>2. ~ (D(t) < D(rest[from - 1]))
      BY <1>3, <1>4, <2>1, <3>1, NearBefore
    <3>3. D(rest[j]) <= D(rest[from - 1])
      BY <1>5, <3>1
    <3> QED BY <1>3, <1>4, <3>1, <3>2, <3>3
  <2>3. \/ ~timer_is_before(wake[t], wake["periodic"])
        \/ \E p \in from..Len(rest) : rest[p] = "periodic"
    <3>1. CASE t = "periodic"
      <4>1. ~timer_is_before(wake[t], wake[t])
        BY <1>4, NearBefore
      <4> QED BY <3>1, <4>1
    <3>2. CASE t # "periodic"
      <4> HIDE DEF D
      <4>1. PICK q \in 1..Len(list) : list[q] = "periodic"
        BY <1>1
      <4>2. q # 1
        BY <3>2, <4>1
      <4> HIDE DEF rest, t
      <4>3. q - 1 \in 1..Len(rest) /\ rest[q - 1] = "periodic"
        BY <1>1, <1>2, <4>1, <4>2
      <4>4. CASE q - 1 >= from
        <5>1. q - 1 \in from..Len(rest)
          BY <1>3, <4>3, <4>4
        <5> QED BY <4>3, <5>1
      <4>5. CASE q - 1 < from
        <5>1. q - 1 \in 1..(from - 1)
          BY <1>3, <4>3, <4>5
        <5>2. q - 1 \in 1..(Len(rest) - 1) /\ ~ (D(t) < D(rest[q - 1]))
          BY <1>3, <1>4, <2>2, <5>1
        <5>3. ~timer_is_before(wake[t], wake[rest[q - 1]])
          BY <1>3, <1>4, <5>2, NearBefore DEF D
        <5> QED BY <4>3, <5>3
      <4> QED BY <1>3, <4>1, <4>4, <4>5
    <3> QED BY <3>1, <3>2
  <2>4. Places(rest, wake, from, wake[t]) # {}
    <3>1. Linked(rest) /\ wake[t] \in Clock
      BY <1>2, <1>4
    <3> HIDE DEF rest, t
    <3> QED BY <2>3, <3>1, PlaceFound
  <2>5. PICK k \in Places(rest, wake, from, wake[t]) :
          overrun' = overrun /\ timer_list' = InsertAt(rest, k, t)
    BY <2>1, <2>4 DEF insert_timer
  <2>6. t \notin ToSet(rest)
    BY <1>2
  <2>7. /\ Sorted(InsertAt(rest, k, t), n, wake)
        /\ Within(InsertAt(rest, k, t), n, wake)
    <3>1. Linked(rest) /\ Sorted(rest, n, wake) /\ Within(rest, n, wake)
      BY <1>2
    <3> HIDE DEF rest, t
    <3> QED BY <1>4, <2>2, <2>6, <3>1, InsertOrder
  <2> QED BY <2>5, <2>7
<1> QED BY <1>7, <1>8, <1>9

-----------------------------------------------------------------------------
(* The list after a step *)

LEMMA TailList ==
  ASSUME NEW list, NEW timers, ListOK(list, timers), list[1] # "periodic"
  PROVE  /\ ListOK(Tail(list), timers \ {list[1]})
         /\ Len(list) >= 3
         /\ list[2] \in ToSet(Tail(list)) \ {"deleted", "sentinel"}
         /\ "deleted" \notin ToSet(Tail(list))
         /\ ToSet(Tail(list)) = ToSet(list) \ {list[1]}
<1>1. /\ Linked(list) /\ list \in Seq(Nodes) /\ Len(list) \in Nat /\ Len(list) >= 2
      /\ list[Len(list)] = "sentinel"
      /\ \A i, j \in 1..Len(list) : list[i] = list[j] => i = j
      /\ \A i \in 1..Len(list) : list[i] = "deleted" => i = 1
      /\ \E p \in 1..Len(list) : list[p] = "periodic"
      /\ ToSet(list) \intersect Timers = timers
  BY ListFacts
<1>2. /\ Linked(Tail(list)) /\ ToSet(Tail(list)) = ToSet(list) \ {list[1]}
      /\ Len(Tail(list)) = Len(list) - 1
      /\ \A i \in 1..(Len(list) - 1) : Tail(list)[i] = list[i + 1]
      /\ Tail(list) \in Seq(Nodes)
  BY <1>1, TailLinked DEF Linked
<1>3. PICK p \in 1..Len(list) : list[p] = "periodic"
  BY <1>1
<1>4. p # 1 /\ p # Len(list)
  BY <1>1, <1>3
<1>5. Len(list) >= 3 /\ Len(Tail(list)) >= 2
  <2>1. Len(list) >= 3
    <3>1. Len(list) \in Nat /\ p \in 1..Len(list) /\ p # 1 /\ p # Len(list)
      BY <1>1, <1>4
    <3> QED BY <3>1
  <2>2. Len(Tail(list)) = Len(list) - 1 /\ Len(list) \in Nat
    BY <1>1, <1>2
  <2> QED BY <2>1, <2>2
<1>6. "periodic" \in ToSet(Tail(list))
  <2>1. "periodic" \in ToSet(list)
    BY <1>1, <1>3, SetOf
  <2> QED BY <1>2, <2>1
<1>7. \A i \in 1..Len(Tail(list)) : Tail(list)[i] # "deleted"
  BY <1>1, <1>2
<1>8. "deleted" \notin ToSet(Tail(list))
  BY SMTT(30), <1>2, <1>7, SetOf
<1>9. list[2] \in ToSet(Tail(list)) \ {"deleted", "sentinel"}
  <2>1. 1 \in 1..Len(Tail(list)) /\ Tail(list)[1] = list[2] /\ 2 \in 1..Len(list)
    BY <1>1, <1>2, <1>5
  <2>2. list[2] \in ToSet(Tail(list))
    BY <1>2, <2>1, SetOf
  <2>3. list[2] # "sentinel"
    BY <1>1, <1>5, <2>1
  <2> QED BY <1>8, <2>2, <2>3
<1>10. ToSet(Tail(list)) \intersect Timers = timers \ {list[1]}
  BY <1>1, <1>2
<1>11. ListOK(Tail(list), timers \ {list[1]})
  BY <1>2, <1>5, <1>6, <1>7, <1>10 DEF ListOK
<1> QED BY <1>2, <1>5, <1>8, <1>9, <1>11

LEMMA WithoutList ==
  ASSUME NEW list, NEW timers, ListOK(list, timers),
         NEW del \in SUBSET Timers, list[1] \notin del
  PROVE  /\ ListOK(Without(list, del), timers \ del)
         /\ Without(list, del)[1] = list[1]
         /\ ToSet(Without(list, del)) = ToSet(list) \ del
<1>1. /\ Linked(list) /\ list \in Seq(Nodes) /\ Len(list) \in Nat /\ Len(list) >= 2
      /\ \A i \in 1..Len(list) : list[i] = "deleted" => i = 1
      /\ ToSet(list) \intersect Timers = timers
      /\ "periodic" \in ToSet(list)
  BY ListFacts DEF ListOK
<1>2. "sentinel" \notin del /\ "periodic" \notin del
  BY TimersAssumption
<1>3. /\ Linked(Without(list, del))
      /\ ToSet(Without(list, del)) = ToSet(list) \ del
      /\ Without(list, del)[1] = list[1]
      /\ \A i \in 1..Len(Without(list, del)) :
           Without(list, del)[i] = "deleted" => i = 1
  BY <1>1, <1>2, WithoutLinked
<1> DEFINE r == Without(list, del)
<1> HIDE DEF r
<1>4. /\ r \in Seq(Nodes) /\ Len(r) \in Nat /\ Len(r) >= 1 /\ r[Len(r)] = "sentinel"
      /\ "periodic" \in ToSet(r) /\ ToSet(r) \intersect Timers = timers \ del
  BY <1>1, <1>2, <1>3 DEF Linked, r
<1>5. Len(r) >= 2
  <2>1. PICK p \in 1..Len(r) : r[p] = "periodic"
    BY <1>4, SetOf
  <2>2. p # Len(r)
    BY <1>4, <2>1
  <2> QED BY <1>4, <2>1, <2>2
<1>6. ListOK(r, timers \ del)
  BY <1>3, <1>4, <1>5 DEF ListOK, r
<1> QED BY <1>3, <1>6 DEF r

(* The order depends only on the waketimes before the sentinel. *)
LEMMA SameWake ==
  ASSUME NEW list, NEW n, NEW wake, NEW wake2,
         \A i \in 1..(Len(list) - 1) : wake2[list[i]] = wake[list[i]]
  PROVE  /\ Sorted(list, n, wake) => Sorted(list, n, wake2)
         /\ Within(list, n, wake) => Within(list, n, wake2)
BY DEF Sorted, Within

(* What is known of a timer that is called. *)
LEMMA DueHead ==
  ASSUME IInv, NoLateTimer, IrqDue
  PROVE  /\ -Latency <= Dist(now, irq) /\ Dist(now, irq) <= 0
         /\ Dist(now, irq) \in Int
         /\ timer_list[1] # "deleted" => irq = waketime[timer_list[1]]
<1>1. now \in Clock /\ irq \in Clock /\ IrqInv /\ ~timer_is_before(now, irq)
  BY DEF IInv, TypeOK, OrderInv, IrqDue
<1>2. Dist(now, irq) \in Int /\ Dist(now, irq) < Half /\ -Half <= Dist(now, irq)
      /\ Dist(now, now) = 0
  BY <1>1, DistType
<1>3. -Latency <= Dist(now, irq)
  BY <1>1 DEF IrqInv
<1>4. Dist(now, irq) <= 0
  <2>1. Dist(now, now) - Dist(now, irq) < Half /\ Dist(now, irq) - Dist(now, now) < Half
    BY <1>2, <1>3, HalfProps
  <2>2. ~ (Dist(now, now) < Dist(now, irq))
    BY <1>1, <2>1, BeforeIff
  <2> QED BY <1>2, <2>2
<1> QED BY <1>1, <1>2, <1>3, <1>4 DEF IrqInv

(* What the invariant says when the list was not overrun. *)
LEMMA ListNow ==
  ASSUME IInv, ~overrun
  PROVE  /\ TypeOK /\ SentinelInv /\ ListInv
         /\ timer_list[1] = Head(timer_list)
         /\ ListOK(timer_list, armed)
         /\ NoLateTimer =>
              Sorted(timer_list, now, waketime) /\ Within(timer_list, now, waketime)
<1>1. ListOK(timer_list, armed)
  BY DEF IInv, ListInv
<1>2. timer_list[1] = Head(timer_list)
  BY <1>1, ListFacts
<1> QED BY <1>1, <1>2 DEF IInv, OrderInv

(* After a dispatch the interrupt is set to the first timer's time. *)
LEMMA AfterDispatch ==
  ASSUME IInv, ~overrun, TypeOK', SentinelInv', now' = now, too_close_c' = too_close_c,
         ~overrun' => ListInv',
         NoLateTimer => ~overrun' /\ Sorted(timer_list', now, waketime')
                        /\ Within(timer_list', now, waketime'),
         irq' = waketime'[Head(timer_list')]
  PROVE  IInv'
<1>1. ASSUME NoLateTimer'  PROVE ~overrun' /\ OrderInv'
  <2>1. /\ ~overrun' /\ Sorted(timer_list', now, waketime')
        /\ Within(timer_list', now, waketime')
    BY <1>1 DEF NoLateTimer
  <2>2. /\ timer_list' \in Seq(Nodes) /\ Len(timer_list') \in Nat /\ Len(timer_list') >= 2
        /\ 1 \in 1..(Len(timer_list') - 1)
    BY DEF TypeOK
  <2>3. /\ irq' = waketime'[timer_list'[1]] /\ irq' \in Clock /\ now \in Clock
    BY <2>2 DEF TypeOK, IInv
  <2>4. Dist(now, irq') \in Int /\ -Latency <= Dist(now, irq')
    BY <2>1, <2>2, <2>3, DistType DEF Within
  <2>5. IrqInv'
    BY <2>3, <2>4 DEF IrqInv
  <2> QED BY <2>1, <2>5 DEF OrderInv
<1> QED BY <1>1 DEF IInv

(* deleted_event *)
LEMMA DeletedEventKeeps ==
  ASSUME IInv, DeletedEvent  PROVE IInv'
<1>1. /\ ~overrun /\ Head(timer_list) = "deleted" /\ waketime' = waketime
      /\ armed' = armed /\ now' = now /\ too_close_c' = too_close_c
      /\ timer_list' = Tail(timer_list) /\ overrun' = overrun
      /\ last_insert' = IF last_insert = Head(timer_list) THEN timer_list[2]
                        ELSE last_insert
      /\ irq' = waketime'[Head(timer_list')] /\ shutdown_status' = shutdown_status
  BY DEF DeletedEvent, IrqDue, Done, NextIrq
<1>2. /\ TypeOK /\ SentinelInv /\ ListInv /\ timer_list[1] = "deleted"
      /\ ListOK(timer_list, armed)
      /\ NoLateTimer =>
           Sorted(timer_list, now, waketime) /\ Within(timer_list, now, waketime)
  BY <1>1, ListNow
<1>3. /\ ListOK(timer_list', armed \ {"deleted"})
      /\ Len(timer_list) >= 3
      /\ ToSet(timer_list') = ToSet(timer_list) \ {"deleted"}
  BY <1>1, <1>2, TailList
<1>4. armed \ {"deleted"} = armed
  BY <1>2, TimersAssumption DEF TypeOK
<1>5. last_insert' = last_insert /\ last_insert \in ToSet(timer_list) \ {"deleted", "sentinel"}
  BY <1>1, <1>2 DEF ListInv
<1>6. ListInv'
  BY <1>1, <1>3, <1>4, <1>5 DEF ListInv
<1>7. Linked(timer_list') /\ Len(timer_list') >= 2 /\ timer_list' \in Seq(Nodes)
  BY <1>3 DEF ListOK, Linked
<1>8. irq' \in Clock
  <2>1. Head(timer_list') \in Nodes
    BY <1>7
  <2> QED BY <1>1, <1>2, <2>1 DEF TypeOK
<1>9. TypeOK'
  BY <1>1, <1>2, <1>5, <1>7, <1>8 DEF TypeOK
<1>10. NoLateTimer => Sorted(timer_list', now, waketime') /\ Within(timer_list', now, waketime')
  <2>1. Linked(timer_list) /\ Len(timer_list) >= 2
    BY <1>2 DEF ListOK
  <2> QED BY <1>1, <1>2, <2>1, TailOrder
<1>11. SentinelInv'
  BY <1>1, <1>2 DEF SentinelInv
<1> QED BY <1>1, <1>6, <1>9, <1>10, <1>11, AfterDispatch

(* periodic_event *)
LEMMA PeriodicEventKeeps ==
  ASSUME IInv, PeriodicEvent  PROVE IInv'
<1> DEFINE next == (waketime["periodic"] + Period) % W
<1>1. /\ ~overrun /\ Head(timer_list) = "periodic" /\ IrqDue
      /\ waketime' = [waketime EXCEPT !["periodic"] = next,
                                      !["sentinel"] = (next + Half) % W]
      /\ armed' = armed /\ now' = now /\ too_close_c' = too_close_c
      /\ Reschedule(timer_list, waketime', last_insert)
      /\ irq' = waketime'[Head(timer_list')] /\ shutdown_status' = shutdown_status
  BY DEF PeriodicEvent, IrqDue, NextIrq
<1>2. /\ TypeOK /\ SentinelInv /\ ListInv /\ timer_list[1] = "periodic"
      /\ ListOK(timer_list, armed)
      /\ NoLateTimer =>
           Sorted(timer_list, now, waketime) /\ Within(timer_list, now, waketime)
  BY <1>1, ListNow
<1>3. next \in Clock /\ (next + Half) % W \in Clock
  <2>1. waketime["periodic"] \in Clock
    BY <1>2 DEF TypeOK, Nodes
  <2>2. waketime["periodic"] + Period \in Int
    BY <2>1, HalfProps DEF Clock
  <2>3. next \in Clock
    BY <2>2, ModW
  <2> HIDE DEF next
  <2>4. next + Half \in Int
    BY <2>3, HalfProps DEF Clock
  <2> QED BY <2>3, <2>4, ModW
<1>4. /\ waketime' \in [Nodes -> Clock]
      /\ waketime'["periodic"] = next /\ waketime'["sentinel"] = (next + Half) % W
      /\ \A x \in Nodes : x # "periodic" /\ x # "sentinel" => waketime'[x] = waketime[x]
  <2> HIDE DEF next
  <2>1. waketime \in [Nodes -> Clock] /\ "periodic" \in Nodes /\ "sentinel" \in Nodes
    BY <1>2 DEF TypeOK, Nodes
  <2> QED BY <1>1, <1>3, <2>1
<1> HIDE DEF next
<1>5. SentinelInv' /\ waketime'["sentinel"] = (waketime'["periodic"] + Half) % W
  BY <1>4 DEF SentinelInv
<1>6. last_insert \in ToSet(timer_list) \ {"deleted", "sentinel"}
  BY <1>2 DEF ListInv
<1>7. /\ overrun' \in BOOLEAN
      /\ timer_list' \in Seq(Nodes) /\ Len(timer_list') >= 2
      /\ last_insert' \in Nodes
      /\ ~overrun' => /\ ListOK(timer_list', armed)
                      /\ last_insert' \in ToSet(timer_list') \ {"deleted", "sentinel"}
  BY <1>1, <1>2, <1>4, <1>5, <1>6, RescheduleList
<1>8. ~overrun' => ListInv'
  BY <1>1, <1>7 DEF ListInv
<1>9. irq' \in Clock
  <2>1. Head(timer_list') \in Nodes
    BY <1>7
  <2> QED BY <1>1, <1>4, <2>1
<1>10. TypeOK'
  BY <1>1, <1>2, <1>4, <1>7, <1>9 DEF TypeOK
<1>11. ASSUME NoLateTimer
       PROVE  /\ ~overrun' /\ Sorted(timer_list', now, waketime')
              /\ Within(timer_list', now, waketime')
  <2>1. /\ -Latency <= Dist(now, irq) /\ Dist(now, irq) <= 0 /\ Dist(now, irq) \in Int
        /\ irq = waketime["periodic"] /\ now \in Clock /\ irq \in Clock
    BY <1>1, <1>2, <1>11, DueHead DEF TypeOK
  <2>2. Dist(now, next) = Dist(now, irq) + Period
    <3>1. /\ -Half <= Period /\ Period <= Half /\ Period \in Int
          /\ -Half <= Dist(now, irq) + Period /\ Dist(now, irq) + Period < Half
      BY <2>1, HalfProps
    <3> QED BY <2>1, <3>1, DistAdd DEF next
  <2>3. /\ -Latency <= Dist(now, waketime'[timer_list[1]])
        /\ Dist(now, waketime'[timer_list[1]]) <= Horizon + Period
    BY <1>2, <1>4, <2>1, <2>2, HalfProps
  <2>4. /\ Sorted(Tail(timer_list), now, waketime')
        /\ Within(Tail(timer_list), now, waketime')
    <3>1. Linked(timer_list) /\ Len(timer_list) >= 2 /\ Len(timer_list) \in Nat
      BY <1>2, ListFacts
    <3>2. /\ Sorted(Tail(timer_list), now, waketime)
          /\ Within(Tail(timer_list), now, waketime)
      BY <1>2, <1>11, <3>1, TailOrder
    <3>3. /\ \A i, j \in 1..Len(timer_list) : timer_list[i] = timer_list[j] => i = j
          /\ timer_list[Len(timer_list)] = "sentinel"
          /\ \A i \in 1..Len(timer_list) : timer_list[i] \in Nodes
          /\ Len(Tail(timer_list)) = Len(timer_list) - 1
          /\ \A i \in 1..(Len(timer_list) - 1) : Tail(timer_list)[i] = timer_list[i + 1]
      BY <1>2, <3>1, ListFacts, TailLinked
    <3>4. \A i \in 1..(Len(Tail(timer_list)) - 1) :
            waketime'[Tail(timer_list)[i]] = waketime[Tail(timer_list)[i]]
      <4> SUFFICES ASSUME NEW i \in 1..(Len(Tail(timer_list)) - 1)
                   PROVE  waketime'[Tail(timer_list)[i]] = waketime[Tail(timer_list)[i]]
        OBVIOUS
      <4>1. /\ Tail(timer_list)[i] = timer_list[i + 1] /\ i + 1 \in 1..Len(timer_list)
            /\ i + 1 # 1 /\ i + 1 # Len(timer_list)
            /\ 1 \in 1..Len(timer_list) /\ Len(timer_list) \in 1..Len(timer_list)
        BY <3>1, <3>3
      <4>2. timer_list[i + 1] # "periodic" /\ timer_list[i + 1] # "sentinel"
        BY <1>2, <3>3, <4>1
      <4> QED BY <1>4, <3>3, <4>1, <4>2
    <3> QED BY <3>2, <3>4, SameWake
  <2>5. /\ overrun' = overrun
        /\ Sorted(timer_list', now, waketime') /\ Within(timer_list', now, waketime')
    BY <1>1, <1>2, <1>4, <1>5, <1>6, <2>1, <2>3, <2>4, RescheduleOrder
  <2> QED BY <1>1, <2>5
<1> QED BY <1>1, <1>5, <1>8, <1>10, <1>11, AfterDispatch

(* The callback of a user timer: other timers may be deleted before the timer
   itself is done or put where it belongs next. *)
LEMMA UserEventKeeps ==
  ASSUME IInv, UserEvent  PROVE IInv'
<1>1. PICK del \in SUBSET (Timers \ {Head(timer_list)}) :
        \/ /\ waketime' = waketime
           /\ armed' = armed \ (del \union {Head(timer_list)})
           /\ Done(Without(timer_list, del), LastInsertAfterDelete(del))
        \/ /\ \E d \in 1..Horizon :
                waketime' = [waketime EXCEPT ![Head(timer_list)] = (@ + d) % W]
           /\ armed' = armed \ del
           /\ Reschedule(Without(timer_list, del), waketime', LastInsertAfterDelete(del))
  BY DEF UserEvent
<1>2. /\ ~overrun /\ Head(timer_list) \in Timers /\ IrqDue
      /\ now' = now /\ too_close_c' = too_close_c
      /\ irq' = waketime'[Head(timer_list')] /\ shutdown_status' = shutdown_status
  BY DEF UserEvent, IrqDue, NextIrq
<1> DEFINE t    == timer_list[1]
           list == Without(timer_list, del)
           last == LastInsertAfterDelete(del)
<1>3. /\ TypeOK /\ SentinelInv /\ ListInv /\ Head(timer_list) = t
      /\ ListOK(timer_list, armed)
      /\ NoLateTimer =>
           Sorted(timer_list, now, waketime) /\ Within(timer_list, now, waketime)
  BY <1>2, ListNow
<1>4. /\ t \in Timers /\ del \in SUBSET Timers /\ t \notin del
      /\ t # "periodic" /\ t # "sentinel" /\ t # "deleted"
      /\ "periodic" \notin del /\ "sentinel" \notin del
  <2> HIDE DEF t
  <2> QED BY <1>2, <1>3, TimersAssumption
<1>5. /\ ListOK(list, armed \ del) /\ list[1] = t
      /\ ToSet(list) = ToSet(timer_list) \ del
  BY <1>3, <1>4, WithoutList
<1>6. last \in ToSet(list) \ {"deleted", "sentinel"}
  <2>1. "periodic" \in ToSet(list)
    BY <1>5 DEF ListOK
  <2>2. last_insert \in ToSet(timer_list) \ {"deleted", "sentinel"}
    BY <1>3 DEF ListInv
  <2> HIDE DEF list
  <2> QED BY <1>5, <2>1, <2>2 DEF LastInsertAfterDelete
<1>7. NoLateTimer => Sorted(list, now, waketime) /\ Within(list, now, waketime)
  <2>1. Linked(timer_list)
    BY <1>3 DEF ListOK
  <2> QED BY <1>3, <1>4, <2>1, WithoutLinked
<1> HIDE DEF list, last
<1>8. Linked(list) /\ Len(list) >= 2 /\ Head(list) = t
  BY <1>5, ListFacts
<1>9. CASE /\ waketime' = waketime
           /\ armed' = armed \ (del \union {t})
           /\ Done(list, last)
  <2>1. /\ timer_list' = Tail(list) /\ overrun' = overrun
        /\ last_insert' = IF last = t THEN list[2] ELSE last
    BY <1>8, <1>9 DEF Done
  <2>2. /\ ListOK(Tail(list), (armed \ del) \ {t})
        /\ list[2] \in ToSet(Tail(list)) \ {"deleted", "sentinel"}
        /\ ToSet(Tail(list)) = ToSet(list) \ {t}
    <3> HIDE DEF t
    <3> QED BY <1>4, <1>5, TailList
  <2>3. armed' = (armed \ del) \ {t}
    BY <1>9
  <2>4. ListInv'
    <3>1. last_insert' \in ToSet(Tail(list)) \ {"deleted", "sentinel"}
      <4> HIDE DEF t
      <4> QED BY <1>6, <2>1, <2>2
    <3> QED BY <2>1, <2>2, <2>3, <3>1 DEF ListInv
  <2>5. timer_list' \in Seq(Nodes) /\ Len(timer_list') >= 2 /\ last_insert' \in Nodes
    <3>1. Tail(list) \in Seq(Nodes) /\ Len(Tail(list)) >= 2
      BY <2>2, ListFacts
    <3>2. last_insert' \in ToSet(Tail(list))
      BY <2>1, <2>4 DEF ListInv
    <3>3. PICK i \in 1..Len(Tail(list)) : Tail(list)[i] = last_insert'
      BY <3>1, <3>2, SetOf
    <3> QED BY <2>1, <3>1, <3>3
  <2>6. irq' \in Clock
    <3>1. Head(timer_list') \in Nodes
      BY <2>5
    <3> QED BY <1>2, <1>3, <1>9, <3>1 DEF TypeOK
  <2>7. TypeOK'
    BY <1>2, <1>3, <1>9, <2>1, <2>3, <2>5, <2>6 DEF TypeOK
  <2>8. NoLateTimer => Sorted(timer_list', now, waketime') /\ Within(timer_list', now, waketime')
    BY <1>7, <1>8, <1>9, <2>1, TailOrder
  <2>9. SentinelInv'
    BY <1>3, <1>9 DEF SentinelInv
  <2> QED BY <1>2, <2>1, <2>4, <2>7, <2>8, <2>9, AfterDispatch
<1>10. CASE /\ \E d \in 1..Horizon : waketime' = [waketime EXCEPT ![t] = (@ + d) % W]
            /\ armed' = armed \ del
            /\ Reschedule(list, waketime', last)
  <2>1. PICK d \in 1..Horizon : waketime' = [waketime EXCEPT ![t] = (@ + d) % W]
    BY <1>10
  <2>2. waketime \in [Nodes -> Clock] /\ t \in Nodes /\ waketime[t] \in Clock
    BY <1>3, <1>4 DEF TypeOK, Nodes
  <2>3. (waketime[t] + d) % W \in Clock
    <3>1. waketime[t] + d \in Int
      BY <2>2, HalfProps DEF Clock
    <3> QED BY <3>1, ModW
  <2>4. /\ waketime' \in [Nodes -> Clock]
        /\ waketime'[t] = (waketime[t] + d) % W
        /\ \A x \in Nodes : x # t => waketime'[x] = waketime[x]
    <3> HIDE DEF t
    <3> QED BY <2>1, <2>2, <2>3
  <2>5. SentinelInv' /\ waketime'["sentinel"] = (waketime'["periodic"] + Half) % W
    <3>1. waketime'["sentinel"] = waketime["sentinel"] /\ waketime'["periodic"] = waketime["periodic"]
      BY <1>4, <2>4 DEF Nodes
    <3> QED BY <1>3, <3>1 DEF SentinelInv
  <2>6. /\ overrun' \in BOOLEAN
        /\ timer_list' \in Seq(Nodes) /\ Len(timer_list') >= 2
        /\ last_insert' \in Nodes
        /\ ~overrun' => /\ ListOK(timer_list', armed \ del)
                        /\ last_insert' \in ToSet(timer_list') \ {"deleted", "sentinel"}
    BY <1>2, <1>4, <1>5, <1>6, <1>10, <2>4, <2>5, RescheduleList
  <2>7. ~overrun' => ListInv'
    BY <1>10, <2>6 DEF ListInv
  <2>8. irq' \in Clock
    <3>1. Head(timer_list') \in Nodes
      BY <2>6
    <3> QED BY <1>2, <2>4, <3>1
  <2>9. TypeOK'
    BY <1>2, <1>3, <1>10, <2>4, <2>6, <2>8 DEF TypeOK
  <2>10. ASSUME NoLateTimer
         PROVE  /\ ~overrun' /\ Sorted(timer_list', now, waketime')
                /\ Within(timer_list', now, waketime')
    <3>1. /\ -Latency <= Dist(now, irq) /\ Dist(now, irq) <= 0 /\ Dist(now, irq) \in Int
          /\ irq = waketime[t] /\ now \in Clock
      BY <1>2, <1>3, <1>4, <2>10, DueHead DEF TypeOK
    <3>2. Dist(now, waketime'[t]) = Dist(now, irq) + d
      <4>1. /\ -Half <= d /\ d <= Half /\ d \in Int
            /\ -Half <= Dist(now, waketime[t]) + d /\ Dist(now, waketime[t]) + d < Half
        <5>1. d \in Int /\ 1 <= d /\ d <= Horizon
          BY HalfProps
        <5> QED BY <3>1, <5>1, HalfProps
      <4>2. Dist(now, (waketime[t] + d) % W) = Dist(now, waketime[t]) + d
        BY <2>2, <3>1, <4>1, DistAdd
      <4> QED BY <2>4, <3>1, <4>2
    <3>3. /\ -Latency <= Dist(now, waketime'[t])
          /\ Dist(now, waketime'[t]) <= Horizon + Period
      <4>1. d \in Int /\ 1 <= d /\ d <= Horizon
        BY HalfProps
      <4> QED BY <3>1, <3>2, <4>1, HalfProps
    <3>4. /\ Sorted(Tail(list), now, waketime')
          /\ Within(Tail(list), now, waketime')
      <4>1. /\ Sorted(Tail(list), now, waketime)
            /\ Within(Tail(list), now, waketime)
        BY <1>7, <1>8, <2>10, TailOrder
      <4>2. /\ Linked(Tail(list)) /\ ToSet(Tail(list)) = ToSet(list) \ {list[1]}
            /\ Tail(list) \in Seq(Nodes) /\ Len(Tail(list)) \in Nat
        BY <1>8, TailLinked DEF Linked
      <4>3. \A i \in 1..(Len(Tail(list)) - 1) :
              waketime'[Tail(list)[i]] = waketime[Tail(list)[i]]
        <5> SUFFICES ASSUME NEW i \in 1..(Len(Tail(list)) - 1)
                     PROVE  waketime'[Tail(list)[i]] = waketime[Tail(list)[i]]
          OBVIOUS
        <5>1. i \in 1..Len(Tail(list))
          BY <4>2
        <5>2. Tail(list)[i] \in ToSet(Tail(list)) /\ Tail(list)[i] \in Nodes
          <6> DEFINE r == Tail(list)
          <6>1. r \in Seq(Nodes) /\ i \in 1..Len(r)
            BY <4>2, <5>1
          <6> HIDE DEF r
          <6>2. r[i] \in Nodes /\ r[i] \in ToSet(r)
            BY <6>1, SetOf
          <6> QED BY <6>2 DEF r
        <5>3. Tail(list)[i] # t
          BY <1>5, <4>2, <5>2
        <5> QED BY <2>4, <5>2, <5>3
      <4> QED BY <4>1, <4>3, SameWake
    <3>5. /\ overrun' = overrun
          /\ Sorted(timer_list', now, waketime') /\ Within(timer_list', now, waketime')
      BY <1>4, <1>5, <1>6, <1>10, <2>4, <2>5, <3>1, <3>3, <3>4, RescheduleOrder
    <3> QED BY <1>2, <3>5
  <2> QED BY <1>2, <2>5, <2>7, <2>9, <2>10, AfterDispatch
<1> QED BY <1>1, <1>3, <1>9, <1>10 DEF list, last

(* run_shutdown: the list is the one that the program starts with, behind a
   deleted_timer. *)
LEMMA ShutdownKeeps ==
  ASSUME TypeOK, SentinelInv, now' = now, too_close_c' \in 1..3, ~overrun,
         run_shutdown(waketime)
  PROVE  IInv'
<1> DEFINE list == <<"deleted", "periodic", "sentinel">>
<1>1. /\ timer_list' = list /\ last_insert' = "periodic" /\ irq' = now
      /\ armed' = {} /\ overrun' = overrun /\ shutdown_status' = TRUE
      /\ waketime' = [waketime EXCEPT !["deleted"] = waketime["periodic"]]
  BY DEF run_shutdown, timer_kick
<1>2. /\ list \in Seq(Nodes) /\ Len(list) = 3
      /\ list[1] = "deleted" /\ list[2] = "periodic" /\ list[3] = "sentinel"
  BY DEF Nodes
<1>3. /\ waketime \in [Nodes -> Clock] /\ "deleted" \in Nodes /\ "periodic" \in Nodes
      /\ "sentinel" \in Nodes
  BY DEF TypeOK, Nodes
<1>4. /\ waketime' \in [Nodes -> Clock]
      /\ waketime'["sentinel"] = waketime["sentinel"]
      /\ waketime'["periodic"] = waketime["periodic"]
  BY <1>1, <1>3
<1> HIDE DEF list
<1>5. ToSet(list) = {"deleted", "periodic", "sentinel"}
  <2>1. \A i \in 1..3 : i = 1 \/ i = 2 \/ i = 3
    OBVIOUS
  <2>2. 1 \in 1..3 /\ 2 \in 1..3 /\ 3 \in 1..3
    OBVIOUS
  <2>3. \A x : x \in ToSet(list) <=> \E i \in 1..3 : list[i] = x
    BY <1>2, SetOf
  <2>4. \A x \in ToSet(list) : x \in {"deleted", "periodic", "sentinel"}
    BY <1>2, <2>1, <2>3
  <2>5. /\ "deleted" \in ToSet(list) /\ "periodic" \in ToSet(list)
        /\ "sentinel" \in ToSet(list)
    BY <1>2, <2>2, <2>3
  <2> QED BY <2>4, <2>5
<1>6. IsInjective(list)
  BY <1>2 DEF IsInjective
<1>7. Linked(list)
  BY <1>2, <1>6 DEF Linked
<1>8. ListOK(list, {})
  <2>1. ToSet(list) \intersect Timers = {}
    BY <1>5, TimersAssumption
  <2>2. \A i \in 1..Len(list) : list[i] = "deleted" => i = 1
    BY <1>2
  <2> QED BY <1>2, <1>5, <1>7, <2>1, <2>2 DEF ListOK
<1>9. ListInv'
  BY <1>1, <1>5, <1>8 DEF ListInv
<1>10. SentinelInv'
  BY <1>4 DEF SentinelInv
<1>11. TypeOK'
  <2>1. too_close_c' \in 0..3 /\ {} \subseteq Timers
    OBVIOUS
  <2>2. shutdown_status' \in BOOLEAN
    BY <1>1
  <2>3. irq' \in Clock /\ now' \in Clock /\ overrun' \in BOOLEAN
    BY <1>1 DEF TypeOK
  <2>4. timer_list' \in Seq(Nodes) /\ Len(timer_list') >= 2 /\ last_insert' \in Nodes
    BY <1>1, <1>2, <1>3
  <2> QED BY <1>1, <1>4, <2>1, <2>2, <2>3, <2>4 DEF TypeOK
<1>12. ~NoLateTimer'
  BY DEF NoLateTimer
<1> QED BY <1>9, <1>10, <1>11, <1>12 DEF IInv

(* "Rescheduled timer in the past" needs a late timer. *)
LEMMA PastShutdownKeeps ==
  ASSUME IInv, PastShutdown  PROVE IInv'
<1>1. /\ IrqDue /\ ~overrun /\ (now - irq) % W > PastLimit
      /\ run_shutdown(waketime) /\ now' = now /\ too_close_c' = too_close_c
  BY DEF PastShutdown, IrqDue
<1>2. TypeOK /\ SentinelInv
  BY DEF IInv
<1>3. ~NoLateTimer
  <2> SUFFICES ASSUME NoLateTimer  PROVE FALSE
    OBVIOUS
  <2>1. -Latency <= Dist(now, irq) /\ Dist(now, irq) <= 0 /\ Dist(now, irq) \in Int
    BY <1>1, DueHead
  <2>2. now \in Clock /\ irq \in Clock
    BY <1>2 DEF TypeOK
  <2>3. (now - irq) % W = -Dist(now, irq)
    BY <2>1, <2>2, Elapsed
  <2> HIDE DEF Dist
  <2> QED BY <1>1, <2>1, <2>3, HalfProps
<1>4. too_close_c' \in 1..3
  BY <1>1, <1>2, <1>3 DEF TypeOK, NoLateTimer
<1> QED BY <1>1, <1>2, <1>4, ShutdownKeeps

(* sched_del_timer *)
LEMMA DelTimerKeeps ==
  ASSUME IInv, DelTimer  PROVE IInv'
<1>1. PICK t \in Timers : sched_del_timer(t)
  BY DEF DelTimer
<1>2. /\ ~overrun /\ now' = now /\ irq' = irq /\ too_close_c' = too_close_c
      /\ shutdown_status' = shutdown_status /\ overrun' = overrun
      /\ armed' = armed \ {t} /\ last_insert' = LastInsertAfterDelete({t})
  BY <1>1 DEF DelTimer, sched_del_timer
<1>3. /\ TypeOK /\ SentinelInv /\ ListInv /\ Head(timer_list) = timer_list[1]
      /\ ListOK(timer_list, armed)
      /\ NoLateTimer =>
           Sorted(timer_list, now, waketime) /\ Within(timer_list, now, waketime)
  BY <1>2, ListNow
<1>4. t # "periodic" /\ t # "sentinel" /\ t # "deleted"
  BY TimersAssumption
<1>5. last_insert \in ToSet(timer_list) \ {"deleted", "sentinel"} /\ "periodic" \in ToSet(timer_list)
  BY <1>3 DEF ListInv, ListOK
<1>6. /\ last_insert' \in (ToSet(timer_list) \ {t}) \ {"deleted", "sentinel"}
      /\ last_insert' \in Nodes
  <2>1. last_insert \in Nodes /\ "periodic" \in Nodes
    BY <1>3 DEF TypeOK, Nodes
  <2> QED BY <1>2, <1>4, <1>5, <2>1 DEF LastInsertAfterDelete
<1>7. NoLateTimer => IrqInv
  BY DEF IInv, OrderInv
<1>8. CASE timer_list[1] # t
  <2>1. timer_list' = Without(timer_list, {t}) /\ waketime' = waketime
    BY <1>1, <1>3, <1>8 DEF sched_del_timer
  <2>2. /\ ListOK(timer_list', armed \ {t})
        /\ timer_list'[1] = timer_list[1]
        /\ ToSet(timer_list') = ToSet(timer_list) \ {t}
    BY <1>3, <1>8, <2>1, WithoutList
  <2>3. ListInv'
    BY <1>2, <1>6, <2>2 DEF ListInv
  <2>4. timer_list' \in Seq(Nodes) /\ Len(timer_list') >= 2
    BY <2>2, ListFacts
  <2>5. TypeOK'
    BY <1>2, <1>3, <1>6, <2>1, <2>4 DEF TypeOK
  <2>6. SentinelInv'
    BY <1>3, <2>1 DEF SentinelInv
  <2>7. ASSUME NoLateTimer  PROVE OrderInv'
    <3>1. Linked(timer_list) /\ "sentinel" \notin {t}
      BY <1>3, <1>4 DEF ListOK
    <3>2. Sorted(timer_list', now, waketime) /\ Within(timer_list', now, waketime)
      BY <1>3, <2>1, <2>7, <3>1, WithoutLinked
    <3>3. IrqInv'
      BY <1>2, <1>7, <2>1, <2>2, <2>7 DEF IrqInv
    <3> QED BY <1>2, <2>1, <3>2, <3>3 DEF OrderInv
  <2> QED BY <1>2, <2>3, <2>5, <2>6, <2>7 DEF IInv, NoLateTimer
<1>9. CASE timer_list[1] = t
  <2> DEFINE rest == Tail(timer_list)
  <2>1. /\ timer_list' = <<"deleted">> \o rest
        /\ waketime' = [waketime EXCEPT !["deleted"] = waketime[t]]
    BY <1>1, <1>3, <1>9 DEF sched_del_timer
  <2>2. /\ ListOK(rest, armed \ {t}) /\ "deleted" \notin ToSet(rest)
        /\ ToSet(rest) = ToSet(timer_list) \ {t}
    BY <1>3, <1>4, <1>9, TailList
  <2>3. /\ Linked(timer_list) /\ Len(timer_list) >= 2 /\ Len(timer_list) \in Nat
        /\ Len(rest) = Len(timer_list) - 1
        /\ \A i \in 1..(Len(timer_list) - 1) : rest[i] = timer_list[i + 1]
    BY <1>3, ListFacts, TailLinked
  <2> HIDE DEF rest
  <2>4. "deleted" \in Nodes /\ t \in Nodes /\ waketime \in [Nodes -> Clock]
    BY <1>3 DEF TypeOK, Nodes
  <2>5. /\ Linked(timer_list') /\ Len(timer_list') = Len(rest) + 1
        /\ ToSet(timer_list') = ToSet(rest) \union {"deleted"}
        /\ timer_list'[1] = "deleted"
        /\ \A i \in 1..Len(rest) : timer_list'[i + 1] = rest[i]
    <3>1. Linked(rest)
      BY <2>2 DEF ListOK
    <3> QED BY <2>1, <2>2, <2>4, <3>1, ConsLinked
  <2>6. Len(rest) \in Nat /\ Len(rest) >= 2 /\ rest \in Seq(Nodes)
    BY <2>2, ListFacts
  <2>7. ListOK(timer_list', armed \ {t})
    <3>1. \A i \in 1..Len(timer_list') : timer_list'[i] = "deleted" => i = 1
      <4> SUFFICES ASSUME NEW i \in 1..Len(timer_list'), i # 1
                   PROVE  timer_list'[i] # "deleted"
        OBVIOUS
      <4>1. i - 1 \in 1..Len(rest) /\ timer_list'[i] = rest[i - 1]
        BY <2>5, <2>6
      <4> QED BY <2>2, <2>6, <4>1, SetOf
    <3>2. "periodic" \in ToSet(timer_list')
      BY <2>2, <2>5 DEF ListOK
    <3>3. ToSet(timer_list') \intersect Timers = armed \ {t}
      BY <2>2, <2>5, TimersAssumption DEF ListOK
    <3> QED BY <2>5, <2>6, <3>1, <3>2, <3>3 DEF ListOK
  <2>8. ListInv'
    BY <1>2, <1>6, <2>2, <2>5, <2>7 DEF ListInv
  <2>9. /\ waketime' \in [Nodes -> Clock] /\ waketime'["deleted"] = waketime[t]
        /\ \A x \in Nodes : x # "deleted" => waketime'[x] = waketime[x]
    BY <2>1, <2>4
  <2>10. TypeOK'
    <3>1. timer_list' \in Seq(Nodes) /\ Len(timer_list') >= 2
      BY <2>7, ListFacts
    <3> QED BY <1>2, <1>3, <1>6, <2>9, <3>1 DEF TypeOK
  <2>11. SentinelInv'
    <3>1. /\ waketime'["sentinel"] = waketime["sentinel"]
          /\ waketime'["periodic"] = waketime["periodic"]
      BY <2>9 DEF Nodes
    <3> QED BY <1>3, <3>1 DEF SentinelInv
  (* The node in front has another name and the same time. *)
  <2>12. \A i \in 1..(Len(timer_list) - 1) :
           waketime'[timer_list'[i]] = waketime[timer_list[i]]
    <3> SUFFICES ASSUME NEW i \in 1..(Len(timer_list) - 1)
                 PROVE  waketime'[timer_list'[i]] = waketime[timer_list[i]]
      OBVIOUS
    <3>1. CASE i = 1
      BY <1>9, <2>5, <2>9, <3>1
    <3>2. CASE i # 1
      <4>1. /\ i - 1 \in 1..Len(rest) /\ (i - 1) + 1 = i
            /\ i - 1 \in 1..(Len(timer_list) - 1)
        BY <2>3, <3>2
      <4>2. timer_list'[i] = rest[i - 1] /\ timer_list[i] = rest[i - 1]
        BY <2>3, <2>5, <4>1
      <4>3. rest[i - 1] \in Nodes /\ rest[i - 1] # "deleted"
        BY <2>2, <2>6, <4>1, SetOf
      <4> QED BY <2>9, <4>2, <4>3
    <3> QED BY <3>1, <3>2
  <2>13. ASSUME NoLateTimer  PROVE OrderInv'
    <3>1. Len(timer_list') = Len(timer_list)
      BY <2>3, <2>5
    <3>2. Sorted(timer_list', now, waketime')
      BY <1>3, <2>12, <2>13, <3>1 DEF Sorted
    <3>3. Within(timer_list', now, waketime')
      BY <1>3, <2>12, <2>13, <3>1 DEF Within
    <3>4. IrqInv'
      BY <1>2, <1>7, <1>9, <2>5, <2>9, <2>13 DEF IrqInv
    <3> QED BY <1>2, <3>2, <3>3, <3>4 DEF OrderInv
  <2> QED BY <1>2, <2>8, <2>10, <2>11, <2>13 DEF IInv, NoLateTimer
<1> QED BY <1>8, <1>9

LEMMA ClearShutdownKeeps ==
  ASSUME IInv, ClearShutdown  PROVE IInv'
<1>1. /\ UNCHANGED <<now, timer_list, waketime, last_insert, irq, too_close_c,
                     overrun, armed>>
      /\ shutdown_status' = FALSE
  BY DEF ClearShutdown
<1>2. FALSE \in BOOLEAN
  OBVIOUS
<1>3. TypeOK'
  BY <1>1, <1>2 DEF IInv, TypeOK
<1> QED BY <1>1, <1>3 DEF IInv, SentinelInv, ListInv, OrderInv, IrqInv, NoLateTimer

(* Time passes no further than the interrupt may be late. *)
LEMMA TickKeeps ==
  ASSUME IInv, Tick  PROVE IInv'
<1>1. /\ UNCHANGED <<timer_list, waketime, last_insert, irq, too_close_c,
                     shutdown_status, overrun, armed>>
      /\ now' = (now + 1) % W /\ ~overrun
      /\ timer_is_before(now, irq) \/ (now - irq) % W < Latency
  BY DEF Tick
<1>2. /\ TypeOK /\ SentinelInv /\ ListInv /\ ListOK(timer_list, armed)
      /\ NoLateTimer =>
           Sorted(timer_list, now, waketime) /\ Within(timer_list, now, waketime)
  BY <1>1, ListNow
<1>3. now \in Clock /\ irq \in Clock /\ waketime \in [Nodes -> Clock]
  BY <1>2 DEF TypeOK
<1>4. now' \in Clock
  <2>1. now + 1 \in Int
    BY <1>3, HalfProps DEF Clock
  <2> QED BY <1>1, <2>1, ModW
<1>5. TypeOK'
  BY <1>1, <1>2, <1>4 DEF TypeOK
<1>6. SentinelInv' /\ ListInv'
  BY <1>1, <1>2 DEF SentinelInv, ListInv
<1>7. ASSUME NoLateTimer  PROVE OrderInv'
  <2>1. /\ timer_list \in Seq(Nodes) /\ Len(timer_list) \in Nat /\ Len(timer_list) >= 2
        /\ Linked(timer_list)
        /\ \A i \in 1..Len(timer_list) : timer_list[i] \in Nodes
        /\ 1 \in 1..(Len(timer_list) - 1)
    BY <1>2, ListFacts
  <2>2. /\ Sorted(timer_list, now, waketime) /\ Within(timer_list, now, waketime) /\ IrqInv
    BY <1>2, <1>7 DEF IInv, OrderInv
  <2>3. \A c \in Clock : Dist(now, c) \in Int
    BY <1>3, DistType
  (* A late interrupt is less than Latency late before the tick. *)
  <2>4. -Latency < Dist(now, irq)
    <3>1. CASE timer_is_before(now, irq)
      <4>1. Dist(now, now) = 0 /\ Dist(now, irq) < Half /\ -Latency <= Dist(now, irq)
        BY <1>3, <2>2, DistType DEF IrqInv
      <4>2. Dist(now, now) - Dist(now, irq) < Half /\ Dist(now, irq) - Dist(now, now) < Half
        BY <1>3, <2>3, <4>1, HalfProps
      <4>3. Dist(now, now) < Dist(now, irq)
        BY <1>3, <3>1, <4>2, BeforeIff
      <4> QED BY <1>3, <2>3, <4>1, <4>3, HalfProps
    <3>2. CASE (now - irq) % W < Latency
      <4>1. CASE Dist(now, irq) > 0
        BY <1>3, <2>3, <4>1, HalfProps
      <4>2. CASE Dist(now, irq) <= 0
        <5>1. (now - irq) % W = -Dist(now, irq)
          BY <1>3, <4>2, Elapsed
        <5> QED BY <1>3, <2>3, <3>2, <5>1, HalfProps
      <4> QED BY <1>3, <2>3, <4>1, <4>2
    <3> QED BY <1>1, <3>1, <3>2
  <2>5. \A c \in Clock : Dist(now, irq) <= Dist(now, c) => Dist(now', c) = Dist(now, c) - 1
    <3> SUFFICES ASSUME NEW c \in Clock, Dist(now, irq) <= Dist(now, c)
                 PROVE  Dist(now', c) = Dist(now, c) - 1
      OBVIOUS
    <3>1. Dist(now, c) > -Half
      BY <1>3, <2>3, <2>4, HalfProps
    <3> QED BY <1>1, <1>3, <3>1, DistTick
  <2>6. \A i \in 1..(Len(timer_list) - 1) :
          /\ waketime[timer_list[i]] \in Clock
          /\ Dist(now, irq) <= Dist(now, waketime[timer_list[i]])
    <3> SUFFICES ASSUME NEW i \in 1..(Len(timer_list) - 1)
                 PROVE  /\ waketime[timer_list[i]] \in Clock
                        /\ Dist(now, irq) <= Dist(now, waketime[timer_list[i]])
      OBVIOUS
    <3>1. i \in 1..Len(timer_list) /\ 1 \in 1..Len(timer_list) /\ 1 <= i
      BY <2>1
    <3>2. waketime[timer_list[i]] \in Clock /\ waketime[timer_list[1]] \in Clock
      BY <1>3, <2>1, <3>1
    <3>3. Dist(now, waketime[timer_list[1]]) <= Dist(now, waketime[timer_list[i]])
      BY <2>1, <2>2, <3>1 DEF Sorted
    <3>4. Dist(now, irq) <= Dist(now, waketime[timer_list[1]])
      BY <2>2 DEF IrqInv
    <3> QED BY <1>3, <2>3, <3>2, <3>3, <3>4
  <2>7. \A i \in 1..(Len(timer_list) - 1) :
          /\ Dist(now', waketime[timer_list[i]]) = Dist(now, waketime[timer_list[i]]) - 1
          /\ Dist(now, waketime[timer_list[i]]) \in Int
    BY <2>3, <2>5, <2>6
  <2>8. Dist(now', irq) = Dist(now, irq) - 1 /\ Dist(now, irq) \in Int
    BY <1>3, <2>3, <2>5
  <2>9. Sorted(timer_list, now', waketime)
    BY <2>2, <2>7 DEF Sorted
  <2>10. Within(timer_list, now', waketime)
    <3> SUFFICES ASSUME NEW i \in 1..(Len(timer_list) - 1)
                 PROVE  /\ -Latency <= Dist(now', waketime[timer_list[i]])
                        /\ Dist(now', waketime[timer_list[i]]) <= Horizon + Period
      BY DEF Within
    <3>1. Dist(now, waketime[timer_list[i]]) <= Horizon + Period
      BY <2>2 DEF Within
    <3> QED BY <2>4, <2>6, <2>7, <2>8, <3>1, HalfProps
  <2>11. /\ -Latency <= Dist(now', irq)
         /\ Dist(now', irq) <= Dist(now', waketime[timer_list[1]])
    BY <2>1, <2>4, <2>6, <2>7, <2>8, HalfProps
  <2>12. IrqInv'
    BY <1>1, <2>2, <2>11 DEF IrqInv
  <2> QED BY <1>1, <2>9, <2>10, <2>12 DEF OrderInv
<1> QED BY <1>1, <1>5, <1>6, <1>7 DEF IInv, NoLateTimer

(* A timer that a command inserts behind the head. *)
LEMMA InsertBehindHead ==
  ASSUME IInv, ~overrun, NEW t \in Timers \ ToSet(timer_list), NEW w \in Clock,
         waketime' = [waketime EXCEPT ![t] = w],
         insert_timer(timer_list, waketime', 2, t),
         armed' = armed \union {t},
         now' = now, irq' = irq, last_insert' = last_insert,
         shutdown_status' = shutdown_status, too_close_c' \in 0..3
  PROVE  /\ TypeOK' /\ SentinelInv' /\ (~overrun' => ListInv')
         /\ waketime'[t] = w
         /\ \A x \in Nodes : x # t => waketime'[x] = waketime[x]
         /\ \/ overrun' = TRUE /\ Places(timer_list, waketime', 2, w) = {}
            \/ /\ overrun' = FALSE
               /\ \E k \in Places(timer_list, waketime', 2, w) :
                    timer_list' = InsertAt(timer_list, k, t)
<1>1. /\ TypeOK /\ SentinelInv /\ ListInv /\ ListOK(timer_list, armed)
  BY ListNow
<1>2. /\ Linked(timer_list) /\ timer_list \in Seq(Nodes) /\ Len(timer_list) \in Nat
      /\ Len(timer_list) >= 2
      /\ \A i \in 1..Len(timer_list) : timer_list[i] = "deleted" => i = 1
      /\ "periodic" \in ToSet(timer_list) /\ ToSet(timer_list) \intersect Timers = armed
  BY <1>1, ListFacts DEF ListOK
<1>3. /\ t \in Nodes /\ t \notin ToSet(timer_list)
      /\ t # "periodic" /\ t # "sentinel" /\ t # "deleted"
      /\ "periodic" \in Nodes /\ "sentinel" \in Nodes
      /\ waketime \in [Nodes -> Clock]
  BY <1>1, TimersAssumption DEF Nodes, TypeOK
<1>4. /\ waketime' \in [Nodes -> Clock] /\ waketime'[t] = w
      /\ \A x \in Nodes : x # t => waketime'[x] = waketime[x]
  BY <1>3
<1>5. SentinelInv'
  BY <1>1, <1>3, <1>4 DEF SentinelInv
<1>6. \/ overrun' = TRUE /\ timer_list' = timer_list /\ Places(timer_list, waketime', 2, w) = {}
      \/ /\ overrun' = FALSE
         /\ \E k \in Places(timer_list, waketime', 2, w) :
              timer_list' = InsertAt(timer_list, k, t)
  <2>1. overrun = FALSE
    BY <1>1 DEF TypeOK
  <2>2. \/ overrun' = TRUE /\ timer_list' = timer_list /\ Places(timer_list, waketime', 2, w) = {}
        \/ /\ overrun' = overrun
           /\ \E k \in Places(timer_list, waketime', 2, w) :
                timer_list' = InsertAt(timer_list, k, t)
    BY <1>4 DEF insert_timer
  <2> QED BY <2>1, <2>2
<1>7. CASE overrun' = TRUE /\ timer_list' = timer_list
  <2>1. overrun' \in BOOLEAN
    BY <1>7
  <2>2. TypeOK'
    BY <1>1, <1>4, <1>7, <2>1 DEF TypeOK
  <2> QED BY <1>4, <1>5, <1>6, <1>7, <2>2
<1>8. CASE /\ overrun' = FALSE
           /\ \E k \in Places(timer_list, waketime', 2, w) :
                timer_list' = InsertAt(timer_list, k, t)
  <2>1. PICK k \in Places(timer_list, waketime', 2, w) :
                timer_list' = InsertAt(timer_list, k, t)
    BY <1>8
  <2>2. k \in 2..Len(timer_list) /\ k \in 1..Len(timer_list) /\ k \in Nat
    BY <1>2 DEF Places
  <2>3. /\ Linked(timer_list') /\ ToSet(timer_list') = ToSet(timer_list) \union {t}
        /\ Len(timer_list') = Len(timer_list) + 1
    BY <1>2, <1>3, <2>1, <2>2, InsertLinked
  <2>4. /\ timer_list' \in Seq(Nodes)
        /\ \A i \in 1..(Len(timer_list) + 1) :
             timer_list'[i] = IF i < k THEN timer_list[i]
                              ELSE IF i = k THEN t ELSE timer_list[i - 1]
    <3>1. timer_list \in Seq(Nodes) /\ t \in Nodes
      BY <1>2, <1>3
    <3> QED BY <2>1, <2>2, <3>1, Inserted
  <2>5. \A i \in 1..Len(timer_list') : timer_list'[i] = "deleted" => i = 1
    <3> SUFFICES ASSUME NEW i \in 1..Len(timer_list'), timer_list'[i] = "deleted", i # 1
                 PROVE  FALSE
      OBVIOUS
    <3>1. i \in 1..(Len(timer_list) + 1)
      BY <2>3
    <3>2. CASE i < k
      BY <1>2, <2>2, <2>4, <3>1, <3>2
    <3>3. CASE i = k
      BY <1>3, <2>2, <2>4, <3>1, <3>3
    <3>4. CASE i > k
      <4>1. i - 1 \in 1..Len(timer_list) /\ i - 1 # 1 /\ timer_list'[i] = timer_list[i - 1]
        BY <1>2, <2>2, <2>4, <3>1, <3>4
      <4> QED BY <1>2, <4>1
    <3> QED BY <2>2, <3>1, <3>2, <3>3, <3>4
  <2>6. ListOK(timer_list', armed')
    <3>1. "periodic" \in ToSet(timer_list')
      BY <1>2, <2>3
    <3>2. ToSet(timer_list') \intersect Timers = armed'
      BY <1>2, <2>3
    <3> QED BY <1>2, <2>3, <2>5, <3>1, <3>2 DEF ListOK
  <2>7. ListInv'
    BY <1>1, <2>3, <2>6 DEF ListInv
  <2>8. overrun' \in BOOLEAN
    BY <1>8
  <2>9. TypeOK'
    BY <1>1, <1>2, <1>4, <2>3, <2>4, <2>8 DEF TypeOK
  <2> QED BY <1>4, <1>5, <1>8, <2>7, <2>9
<1> QED BY <1>6, <1>7, <1>8

(* sched_add_timer, not before the first timer *)
LEMMA AddBehindHead ==
  ASSUME IInv, ~overrun, NEW t \in Timers \ ToSet(timer_list),
         NEW d \in (-MaxPast)..Horizon, NEW w \in Clock, Dist(now, w) = d,
         ~timer_is_before(w, waketime[Head(timer_list)]),
         waketime' = [waketime EXCEPT ![t] = w],
         insert_timer(timer_list, waketime', 2, t),
         armed' = armed \union {t}, now' = now,
         UNCHANGED <<last_insert, irq, too_close_c, shutdown_status>>
  PROVE  IInv'
<1>1. /\ TypeOK /\ SentinelInv /\ ListInv /\ ListOK(timer_list, armed)
      /\ Head(timer_list) = timer_list[1]
      /\ NoLateTimer =>
           Sorted(timer_list, now, waketime) /\ Within(timer_list, now, waketime)
  BY ListNow
<1>2. too_close_c' \in 0..3
  BY <1>1 DEF TypeOK
<1>3. /\ TypeOK' /\ SentinelInv' /\ (~overrun' => ListInv')
      /\ waketime'[t] = w
      /\ \A x \in Nodes : x # t => waketime'[x] = waketime[x]
      /\ \/ overrun' = TRUE /\ Places(timer_list, waketime', 2, w) = {}
         \/ /\ overrun' = FALSE
            /\ \E k \in Places(timer_list, waketime', 2, w) :
                 timer_list' = InsertAt(timer_list, k, t)
  BY <1>2, InsertBehindHead
<1>4. ASSUME NoLateTimer  PROVE ~overrun' /\ OrderInv'
  <2>1. /\ Linked(timer_list) /\ timer_list \in Seq(Nodes) /\ Len(timer_list) \in Nat
        /\ Len(timer_list) >= 2
        /\ \A i \in 1..Len(timer_list) : timer_list[i] \in Nodes
        /\ 1 \in 1..(Len(timer_list) - 1) /\ 1 \in 1..Len(timer_list)
    BY <1>1, ListFacts
  <2>2. /\ Sorted(timer_list, now, waketime) /\ Within(timer_list, now, waketime) /\ IrqInv
    BY <1>1, <1>4 DEF IInv, OrderInv
  <2>3. /\ now \in Clock /\ waketime \in [Nodes -> Clock] /\ waketime' \in [Nodes -> Clock]
    BY <1>1, <1>3 DEF TypeOK
  <2>4. \A i \in 1..Len(timer_list) :
          timer_list[i] # t /\ waketime'[timer_list[i]] = waketime[timer_list[i]]
    <3>1. \A i \in 1..Len(timer_list) : timer_list[i] # t
      BY <2>1, SetOf
    <3> QED BY <1>3, <2>1, <3>1
  <2>5. /\ Sorted(timer_list, now, waketime') /\ Within(timer_list, now, waketime')
    <3>1. \A i \in 1..(Len(timer_list) - 1) : i \in 1..Len(timer_list)
      BY <2>1
    <3> QED BY <2>2, <2>4, <3>1, SameWake
  <2>6. d \in Int /\ -MaxPast <= d /\ d <= Horizon
    BY HalfProps
  <2>7. Dist(now, waketime[timer_list[1]]) <= d
    <3>1. /\ waketime[timer_list[1]] \in Clock
          /\ Near(Dist(now, waketime[timer_list[1]]))
          /\ Dist(now, waketime[timer_list[1]]) \in Int
      BY <2>1, <2>2, <2>3, WithinNear
    <3>2. Near(Dist(now, w))
      BY <2>6, HalfProps DEF Near
    <3>3. ~ (Dist(now, w) < Dist(now, waketime[timer_list[1]]))
      BY <1>1, <2>3, <3>1, <3>2, NearBefore
    <3> QED BY <2>6, <3>1, <3>3
  <2>8. /\ -Latency <= Dist(now, waketime'[t])
        /\ Dist(now, waketime'[t]) <= Horizon + Period
    <3>1. Dist(now, waketime[timer_list[1]]) \in Int
      BY <2>1, <2>3, DistType
    <3>2. -Latency <= Dist(now, waketime[timer_list[1]])
      BY <2>1, <2>2 DEF Within
    <3> QED BY <1>3, <2>6, <2>7, <3>1, <3>2, HalfProps
  <2>9. Places(timer_list, waketime', 2, w) # {}
    <3>1. waketime'["sentinel"] = (waketime'["periodic"] + Half) % W
      BY <1>3 DEF SentinelInv
    <3>2. \/ ~timer_is_before(w, waketime'["periodic"])
          \/ \E p \in 2..Len(timer_list) : timer_list[p] = "periodic"
      <4>1. PICK p \in 1..Len(timer_list) : timer_list[p] = "periodic"
        BY <1>1, ListFacts
      <4>2. CASE p = 1
        BY <1>1, <2>4, <4>1, <4>2
      <4>3. CASE p # 1
        <5>1. p \in 2..Len(timer_list)
          BY <2>1, <4>1, <4>3
        <5> QED BY <4>1, <5>1
      <4> QED BY <4>2, <4>3
    <3>3. 2 \in 1..Len(timer_list)
      BY <2>1
    <3> QED BY <2>1, <2>3, <3>1, <3>2, <3>3, PlaceFound
  <2>10. PICK k \in Places(timer_list, waketime', 2, w) :
           timer_list' = InsertAt(timer_list, k, t)
    BY <1>3, <2>9
  <2>11. /\ Sorted(timer_list', now, waketime') /\ Within(timer_list', now, waketime')
    <3>1. /\ 2 \in 1..Len(timer_list) /\ t \in Nodes /\ t \notin ToSet(timer_list)
          /\ k \in Places(timer_list, waketime', 2, waketime'[t])
      BY <1>3, <2>1, <2>10 DEF Nodes
    <3>2. \A j \in 1..(2 - 1) :
            Dist(now, waketime'[timer_list[j]]) <= Dist(now, waketime'[t])
      BY <1>3, <2>1, <2>4, <2>7
    <3>3. /\ Sorted(InsertAt(timer_list, k, t), now, waketime')
          /\ Within(InsertAt(timer_list, k, t), now, waketime')
      BY <2>1, <2>3, <2>5, <2>8, <3>1, <3>2, InsertOrder
    <3> QED BY <2>10, <3>3
  <2>12. timer_list'[1] = timer_list[1]
    <3>1. k \in 1..Len(timer_list) /\ 1 < k /\ t \in Nodes
          /\ 1 \in 1..(Len(timer_list) + 1)
      BY <2>1 DEF Places, Nodes
    <3>2. InsertAt(timer_list, k, t)[1] =
            IF 1 < k THEN timer_list[1] ELSE IF 1 = k THEN t ELSE timer_list[1 - 1]
      BY <2>1, <3>1, Inserted
    <3> QED BY <2>10, <3>1, <3>2
  <2>13. IrqInv'
    BY <2>1, <2>2, <2>4, <2>12 DEF IrqInv
  <2> QED BY <1>3, <2>9, <2>11, <2>13 DEF OrderInv
<1> QED BY <1>3, <1>4 DEF IInv, NoLateTimer

(* What follows a deleted_timer that is put in front. *)
LEMMA BehindDeletedList ==
  ASSUME NEW list, NEW timers, ListOK(list, timers), timers \subseteq Timers
  PROVE  /\ Linked(BehindDeleted(list)) /\ "deleted" \notin ToSet(BehindDeleted(list))
         /\ ToSet(BehindDeleted(list)) = ToSet(list) \ {"deleted"}
         /\ \A n, wake : Sorted(list, n, wake) /\ Within(list, n, wake) =>
              /\ Sorted(BehindDeleted(list), n, wake)
              /\ Within(BehindDeleted(list), n, wake)
              /\ \A i \in 1..(Len(BehindDeleted(list)) - 1) :
                   Dist(n, wake[list[1]]) <= Dist(n, wake[BehindDeleted(list)[i]])
<1>1. /\ Linked(list) /\ list \in Seq(Nodes) /\ Len(list) \in Nat /\ Len(list) >= 2
      /\ Head(list) = list[1]
      /\ \A i \in 1..Len(list) : list[i] = "deleted" => i = 1
      /\ 1 \in 1..(Len(list) - 1)
  BY ListFacts
<1>2. CASE list[1] = "deleted"
  <2>1. BehindDeleted(list) = Tail(list)
    BY <1>1, <1>2 DEF BehindDeleted
  <2>2. /\ Linked(Tail(list)) /\ ToSet(Tail(list)) = ToSet(list) \ {list[1]}
        /\ Len(Tail(list)) = Len(list) - 1
        /\ \A i \in 1..(Len(list) - 1) : Tail(list)[i] = list[i + 1]
    BY <1>1, TailLinked
  <2>3. ASSUME NEW n, NEW wake, Sorted(list, n, wake), Within(list, n, wake)
        PROVE  /\ Sorted(Tail(list), n, wake) /\ Within(Tail(list), n, wake)
               /\ \A i \in 1..(Len(Tail(list)) - 1) :
                    Dist(n, wake[list[1]]) <= Dist(n, wake[Tail(list)[i]])
    <3>1. Sorted(Tail(list), n, wake) /\ Within(Tail(list), n, wake)
      BY <1>1, <2>3, TailOrder
    <3>2. \A i \in 1..(Len(Tail(list)) - 1) :
            Dist(n, wake[list[1]]) <= Dist(n, wake[Tail(list)[i]])
      <4> SUFFICES ASSUME NEW i \in 1..(Len(Tail(list)) - 1)
                   PROVE  Dist(n, wake[list[1]]) <= Dist(n, wake[Tail(list)[i]])
        OBVIOUS
      <4>1. i + 1 \in 1..(Len(list) - 1) /\ 1 <= i + 1 /\ Tail(list)[i] = list[i + 1]
        BY <1>1, <2>2
      <4> QED BY <1>1, <2>3, <4>1 DEF Sorted
    <3> QED BY <3>1, <3>2
  <2>4. "deleted" \notin ToSet(Tail(list))
    BY <1>2, <2>2
  <2> HIDE DEF Linked, Sorted, Within, Dist
  <2> QED BY <1>2, <2>1, <2>2, <2>3, <2>4
<1>3. CASE list[1] # "deleted"
  <2>1. BehindDeleted(list) = list
    BY <1>1, <1>3 DEF BehindDeleted
  <2>2. "deleted" \notin ToSet(list)
    BY <1>1, <1>3, SetOf
  <2>3. ASSUME NEW n, NEW wake, Sorted(list, n, wake)
        PROVE  \A i \in 1..(Len(list) - 1) :
                 Dist(n, wake[list[1]]) <= Dist(n, wake[list[i]])
    BY <1>1, <2>3 DEF Sorted
  <2> QED BY <1>1, <2>1, <2>2, <2>3
<1> QED BY <1>2, <1>3

(* sched_add_timer, before the first timer and not before the current time:
   the interrupt is raised for the deleted_timer in front, which is before its
   time and so makes the handler only look at the list again. *)
LEMMA AddInFront ==
  ASSUME IInv, ~overrun, NEW t \in Timers \ ToSet(timer_list),
         NEW d \in (-MaxPast)..Horizon, NEW w \in Clock, Dist(now, w) = d,
         timer_is_before(w, waketime[Head(timer_list)]), ~timer_is_before(w, now),
         waketime' = [[waketime EXCEPT ![t] = w] EXCEPT !["deleted"] = w],
         timer_list' = <<"deleted", t>> \o BehindDeleted(timer_list),
         armed' = armed \union {t}, now' = now, irq' = now,
         UNCHANGED <<last_insert, too_close_c, shutdown_status, overrun>>
  PROVE  IInv'
<1> DEFINE rest == BehindDeleted(timer_list)
<1>1. /\ TypeOK /\ SentinelInv /\ ListInv /\ ListOK(timer_list, armed)
      /\ Head(timer_list) = timer_list[1]
      /\ NoLateTimer =>
           Sorted(timer_list, now, waketime) /\ Within(timer_list, now, waketime)
  BY ListNow
<1>2. /\ Linked(rest) /\ "deleted" \notin ToSet(rest)
      /\ ToSet(rest) = ToSet(timer_list) \ {"deleted"}
      /\ \A n, wake : Sorted(timer_list, n, wake) /\ Within(timer_list, n, wake) =>
           /\ Sorted(rest, n, wake) /\ Within(rest, n, wake)
           /\ \A i \in 1..(Len(rest) - 1) :
                Dist(n, wake[timer_list[1]]) <= Dist(n, wake[rest[i]])
  <2>1. armed \subseteq Timers
    BY <1>1 DEF TypeOK
  <2> QED BY <1>1, <2>1, BehindDeletedList
<1>3. /\ t \in Nodes /\ "deleted" \in Nodes /\ t # "deleted"
      /\ t # "periodic" /\ t # "sentinel"
      /\ "periodic" \in Nodes /\ "sentinel" \in Nodes
      /\ t \notin ToSet(rest)
      /\ waketime \in [Nodes -> Clock]
  BY <1>1, <1>2, TimersAssumption DEF Nodes, TypeOK
<1> HIDE DEF rest
<1>4. rest \in Seq(Nodes) /\ Len(rest) \in Nat /\ Len(rest) >= 1
  BY <1>2 DEF Linked
<1>5. /\ Linked(<<t>> \o rest)
      /\ ToSet(<<t>> \o rest) = ToSet(rest) \union {t}
      /\ Len(<<t>> \o rest) = Len(rest) + 1
      /\ (<<t>> \o rest)[1] = t
      /\ \A i \in 1..Len(rest) : (<<t>> \o rest)[i + 1] = rest[i]
  BY <1>2, <1>3, ConsLinked
<1>6. timer_list' = <<"deleted">> \o (<<t>> \o rest)
  BY <1>3, <1>4 DEF rest
<1> DEFINE r == timer_list'
           tr == <<t>> \o rest
<1>7. /\ Linked(r) /\ ToSet(r) = ToSet(rest) \union {t, "deleted"}
      /\ Len(r) = Len(rest) + 2 /\ r[1] = "deleted" /\ r[2] = t
      /\ \A i \in 1..Len(rest) : r[i + 2] = rest[i]
  <2> HIDE DEF tr
  <2>1. /\ Linked(tr) /\ ToSet(tr) = ToSet(rest) \union {t}
        /\ Len(tr) = Len(rest) + 1 /\ tr[1] = t
        /\ \A i \in 1..Len(rest) : tr[i + 1] = rest[i]
    BY <1>5 DEF tr
  <2>2. "deleted" \notin ToSet(tr)
    BY <1>2, <1>3, <2>1
  <2>3. /\ Linked(<<"deleted">> \o tr)
        /\ ToSet(<<"deleted">> \o tr) = ToSet(tr) \union {"deleted"}
        /\ Len(<<"deleted">> \o tr) = Len(tr) + 1
        /\ (<<"deleted">> \o tr)[1] = "deleted"
        /\ \A i \in 1..Len(tr) : (<<"deleted">> \o tr)[i + 1] = tr[i]
    BY <1>3, <2>1, <2>2, ConsLinked
  <2>4. r = <<"deleted">> \o tr
    BY <1>6 DEF tr
  <2> HIDE DEF r
  <2>5. /\ Linked(r) /\ ToSet(r) = ToSet(tr) \union {"deleted"} /\ Len(r) = Len(tr) + 1
        /\ r[1] = "deleted" /\ \A i \in 1..Len(tr) : r[i + 1] = tr[i]
    BY <2>3, <2>4
  <2>6. /\ 1 \in 1..Len(tr) /\ 1 + 1 = 2
        /\ \A i \in 1..Len(rest) : i + 1 \in 1..Len(tr) /\ (i + 1) + 1 = i + 2
    BY <1>4, <2>1
  <2>7. r[2] = t /\ \A i \in 1..Len(rest) : r[i + 2] = rest[i]
    BY <2>1, <2>5, <2>6
  <2>8. Len(r) = Len(rest) + 2
    BY <1>4, <2>1, <2>5
  <2> QED BY <2>1, <2>5, <2>7, <2>8
<1>8. /\ r \in Seq(Nodes) /\ Len(r) >= 2
      /\ \A i \in 1..(Len(r) - 1) :
           i = 1 \/ i = 2 \/ (i - 2 \in 1..(Len(rest) - 1) /\ i - 2 \in 1..Len(rest))
      /\ \A i \in 1..Len(r) : i = 1 \/ i = 2 \/ i - 2 \in 1..Len(rest)
  <2>1. Linked(r) /\ Len(r) = Len(rest) + 2
    BY <1>7
  <2> HIDE DEF r
  <2>2. r \in Seq(Nodes)
    BY <2>1 DEF Linked
  <2> QED BY <1>4, <2>1, <2>2
<1>9. ListOK(r, armed')
  <2>1. \A i \in 1..Len(r) : r[i] = "deleted" => i = 1
    <3> SUFFICES ASSUME NEW i \in 1..Len(r), r[i] = "deleted", i # 1
                 PROVE  FALSE
      OBVIOUS
    <3> HIDE DEF r
    <3>1. CASE i = 2
      BY <1>3, <1>7, <3>1 DEF r
    <3>2. CASE i - 2 \in 1..Len(rest)
      <4>1. (i - 2) + 2 = i
        BY <3>2
      <4>2. rest[i - 2] = "deleted"
        BY <1>7, <3>2, <4>1 DEF r
      <4> QED BY <1>2, <1>4, <3>2, <4>2, SetOf
    <3> QED BY <1>8, <3>1, <3>2 DEF r
  <2>2. "periodic" \in ToSet(timer_list) /\ ToSet(timer_list) \intersect Timers = armed
    BY <1>1 DEF ListOK
  <2>3. "periodic" \in ToSet(r) /\ ToSet(r) \intersect Timers = armed'
    BY <1>2, <1>7, <2>2, TimersAssumption
  <2> QED BY <1>7, <1>8, <2>1, <2>3 DEF ListOK
<1>10. ListInv'
  <2>1. last_insert \in ToSet(timer_list) \ {"deleted", "sentinel"}
    BY <1>1 DEF ListInv
  <2>2. last_insert \in ToSet(r)
    BY <1>2, <1>7, <2>1
  <2> QED BY <1>9, <2>1, <2>2 DEF ListInv
<1>11. /\ waketime' \in [Nodes -> Clock]
       /\ waketime'[t] = w /\ waketime'["deleted"] = w
       /\ \A x \in Nodes : x # t /\ x # "deleted" => waketime'[x] = waketime[x]
  BY <1>3
<1>12. SentinelInv'
  BY <1>1, <1>3, <1>11 DEF SentinelInv
<1>13. TypeOK'
  BY <1>1, <1>8, <1>11 DEF TypeOK
<1>14. ASSUME NoLateTimer  PROVE OrderInv'
  <2>1. /\ Sorted(timer_list, now, waketime) /\ Within(timer_list, now, waketime)
        /\ now \in Clock
    BY <1>1, <1>14 DEF TypeOK
  <2>2. /\ Sorted(rest, now, waketime) /\ Within(rest, now, waketime)
        /\ \A i \in 1..(Len(rest) - 1) :
             Dist(now, waketime[timer_list[1]]) <= Dist(now, waketime[rest[i]])
    BY <1>2, <2>1
  <2>3. d \in Int /\ d <= Horizon /\ -MaxPast <= d
    BY HalfProps
  <2>4. 0 <= d
    <3>1. Dist(now, now) = 0
      BY <2>1, DistType
    <3>2. Near(Dist(now, w)) /\ Near(Dist(now, now))
      BY <2>3, <3>1, HalfProps DEF Near
    <3>3. ~ (Dist(now, w) < Dist(now, now))
      BY <2>1, <3>2, NearBefore
    <3> QED BY <2>3, <3>1, <3>3
  <2>5. /\ d < Dist(now, waketime[timer_list[1]])
        /\ Dist(now, waketime[timer_list[1]]) \in Int
    <3>1. 1 \in 1..(Len(timer_list) - 1) /\ Linked(timer_list)
      BY <1>1, ListFacts
    <3>2. /\ waketime[timer_list[1]] \in Clock
          /\ Near(Dist(now, waketime[timer_list[1]]))
          /\ Dist(now, waketime[timer_list[1]]) \in Int
      BY <1>3, <2>1, <3>1, WithinNear
    <3>3. Near(Dist(now, w))
      BY <2>3, HalfProps DEF Near
    <3> QED BY <1>1, <2>1, <3>2, <3>3, NearBefore
  <2>6. \A i \in 1..(Len(rest) - 1) :
          /\ i \in 1..Len(rest)
          /\ waketime'[rest[i]] = waketime[rest[i]]
          /\ Dist(now, waketime[rest[i]]) \in Int
          /\ d <= Dist(now, waketime[rest[i]])
          /\ -Latency <= Dist(now, waketime[rest[i]])
          /\ Dist(now, waketime[rest[i]]) <= Horizon + Period
    <3> SUFFICES ASSUME NEW i \in 1..(Len(rest) - 1)
                 PROVE  /\ i \in 1..Len(rest)
                        /\ waketime'[rest[i]] = waketime[rest[i]]
                        /\ Dist(now, waketime[rest[i]]) \in Int
                        /\ d <= Dist(now, waketime[rest[i]])
                        /\ -Latency <= Dist(now, waketime[rest[i]])
                        /\ Dist(now, waketime[rest[i]]) <= Horizon + Period
      OBVIOUS
    <3>1. i \in 1..Len(rest)
      BY <1>4
    <3>2. rest[i] \in Nodes /\ rest[i] \in ToSet(rest)
      BY <1>4, <3>1, SetOf
    <3>3. waketime'[rest[i]] = waketime[rest[i]] /\ waketime[rest[i]] \in Clock
      BY <1>2, <1>3, <1>11, <3>2
    <3>4. Dist(now, waketime[rest[i]]) \in Int
      BY <2>1, <3>3, DistType
    <3>5. d <= Dist(now, waketime[rest[i]])
      BY <2>2, <2>3, <2>5, <3>4
    <3> QED BY <2>2, <3>1, <3>3, <3>4, <3>5 DEF Within
  (* The times of the new list: twice d, then those of the rest. *)
  <2>7. \A i \in 1..(Len(r) - 1) :
          \/ (i = 1 \/ i = 2) /\ Dist(now, waketime'[r[i]]) = d
          \/ /\ i > 2 /\ i - 2 \in 1..(Len(rest) - 1)
             /\ Dist(now, waketime'[r[i]]) = Dist(now, waketime[rest[i - 2]])
    <3> SUFFICES ASSUME NEW i \in 1..(Len(r) - 1)
                 PROVE  \/ (i = 1 \/ i = 2) /\ Dist(now, waketime'[r[i]]) = d
                        \/ /\ i > 2 /\ i - 2 \in 1..(Len(rest) - 1)
                           /\ Dist(now, waketime'[r[i]]) = Dist(now, waketime[rest[i - 2]])
      OBVIOUS
    <3> HIDE DEF r
    <3>1. CASE i = 1 \/ i = 2
      BY <1>7, <1>11, <3>1 DEF r
    <3>2. CASE i - 2 \in 1..(Len(rest) - 1)
      <4>1. i > 2 /\ (i - 2) + 2 = i /\ i - 2 \in 1..Len(rest)
        BY <1>4, <3>2
      <4>2. r[i] = rest[i - 2]
        BY <1>7, <4>1 DEF r
      <4> QED BY <2>6, <3>2, <4>1, <4>2
    <3> QED BY <1>8, <3>1, <3>2 DEF r
  <2>8. Sorted(r, now, waketime')
    <3> SUFFICES ASSUME NEW i \in 1..(Len(r) - 1), NEW j \in 1..(Len(r) - 1), i <= j
                 PROVE  Dist(now, waketime'[r[i]]) <= Dist(now, waketime'[r[j]])
      BY DEF Sorted
    <3> DEFINE D(h) == Dist(now, waketime'[r[h]])
               R(h) == Dist(now, waketime[rest[h]])
    <3>1. /\ i \in Int /\ j \in Int
          /\ \/ (i = 1 \/ i = 2) /\ D(i) = d
             \/ i > 2 /\ i - 2 \in 1..(Len(rest) - 1) /\ D(i) = R(i - 2)
          /\ \/ (j = 1 \/ j = 2) /\ D(j) = d
             \/ j > 2 /\ j - 2 \in 1..(Len(rest) - 1) /\ D(j) = R(j - 2)
      <4>1. \A h \in 1..(Len(r) - 1) :
              \/ (h = 1 \/ h = 2) /\ D(h) = d
              \/ h > 2 /\ h - 2 \in 1..(Len(rest) - 1) /\ D(h) = R(h - 2)
        BY <2>7, Zenon
      <4> HIDE DEF D, R, r
      <4>2. i \in Int /\ j \in Int
        OBVIOUS
      <4> QED BY <4>1, <4>2
    <3>2. \A h \in 1..(Len(rest) - 1) : d <= R(h)
      BY <2>6
    <3>3. \A g, h \in 1..(Len(rest) - 1) : g <= h => R(g) <= R(h)
      BY <2>2 DEF Sorted
    <3> HIDE DEF D, R
    <3>4. CASE i > 2
      <4>1. j > 2 /\ i - 2 <= j - 2
        BY <3>1, <3>4
      <4>2. R(i - 2) <= R(j - 2)
        BY <3>1, <3>3, <3>4, <4>1
      <4>3. D(i) = R(i - 2) /\ D(j) = R(j - 2)
        BY <3>1, <3>4, <4>1
      <4> QED BY <4>2, <4>3 DEF D
    <3>5. CASE (i = 1 \/ i = 2) /\ D(i) = d
      <4>1. CASE D(j) = d
        BY <2>3, <3>5, <4>1 DEF D
      <4>2. CASE j - 2 \in 1..(Len(rest) - 1) /\ D(j) = R(j - 2)
        <5>1. d <= R(j - 2)
          BY <3>2, <4>2
        <5>2. D(i) <= D(j)
          BY <3>5, <4>2, <5>1
        <5> QED BY <5>2 DEF D
      <4> QED BY <3>1, <4>1, <4>2
    <3> QED BY <3>1, <3>4, <3>5
  <2>9. Within(r, now, waketime')
    <3> SUFFICES ASSUME NEW i \in 1..(Len(r) - 1)
                 PROVE  /\ -Latency <= Dist(now, waketime'[r[i]])
                        /\ Dist(now, waketime'[r[i]]) <= Horizon + Period
      BY DEF Within
    <3>1. CASE Dist(now, waketime'[r[i]]) = d
      BY <2>3, <2>4, <3>1, HalfProps
    <3>2. CASE /\ i - 2 \in 1..(Len(rest) - 1)
               /\ Dist(now, waketime'[r[i]]) = Dist(now, waketime[rest[i - 2]])
      BY <2>6, <3>2
    <3> QED BY <2>7, <3>1, <3>2
  <2>10. IrqInv'
    <3>1. Dist(now', irq') = 0
      BY <2>1, DistType
    <3>2. Dist(now', waketime'[timer_list'[1]]) = d
      BY <1>7, <1>11
    <3> QED BY <1>7, <2>3, <2>4, <3>1, <3>2, HalfProps DEF IrqInv
  <2> QED BY <2>8, <2>9, <2>10 DEF OrderInv
<1>15. overrun' = overrun /\ too_close_c' = too_close_c
  OBVIOUS
<1> QED BY <1>10, <1>12, <1>13, <1>14, <1>15 DEF IInv, NoLateTimer

(* sched_add_timer, all branches *)
LEMMA AddTimerKeeps ==
  ASSUME IInv, AddTimer  PROVE IInv'
<1>1. PICK t \in Timers \ ToSet(timer_list), d \in (-MaxPast)..Horizon :
        sched_add_timer(t, (now + d) % W)
  BY DEF AddTimer
<1>2. ~overrun /\ now' = now
  BY DEF AddTimer
<1>3. TypeOK /\ SentinelInv /\ now \in Clock /\ overrun = FALSE
  BY <1>2 DEF IInv, TypeOK
<1> DEFINE w == (now + d) % W
<1>4. w \in Clock /\ Dist(now, w) = d
  <2>1. /\ d \in Int /\ -Half <= d /\ d <= Half /\ Dist(now, now) = 0
        /\ -Half <= Dist(now, now) + d /\ Dist(now, now) + d < Half
    BY <1>3, DistType, HalfProps
  <2>2. w \in Clock /\ Dist(now, w) = Dist(now, now) + d
    BY <1>3, <2>1, DistAdd
  <2> HIDE DEF w
  <2> QED BY <2>1, <2>2
<1> HIDE DEF w
<1>5. sched_add_timer(t, w)
  BY <1>1 DEF w
<1> DEFINE first == waketime[Head(timer_list)]
           late  == timer_is_before(w, first) /\ timer_is_before(w, now)
           wake  == [waketime EXCEPT ![t] = IF late THEN now ELSE w]
<1>6. \/ /\ ~timer_is_before(w, first)
         /\ waketime' = wake
         /\ insert_timer(timer_list, wake, 2, t)
         /\ armed' = armed \union {t}
         /\ UNCHANGED <<last_insert, irq, too_close_c, shutdown_status>>
      \/ /\ timer_is_before(w, first) /\ ~timer_is_before(w, now)
         /\ waketime' = [wake EXCEPT !["deleted"] = w]
         /\ timer_list' = <<"deleted", t>> \o BehindDeleted(timer_list)
         /\ irq' = now
         /\ armed' = armed \union {t}
         /\ UNCHANGED <<last_insert, too_close_c, shutdown_status, overrun>>
      \/ /\ late /\ too_close_c < 2
         /\ too_close_c' = too_close_c + 1
         /\ waketime' = wake
         /\ insert_timer(timer_list, wake, 2, t)
         /\ armed' = armed \union {t}
         /\ UNCHANGED <<last_insert, irq, shutdown_status>>
      \/ /\ late /\ too_close_c >= 2
         /\ too_close_c' = 3
         /\ run_shutdown(waketime)
  BY <1>5 DEF sched_add_timer, timer_kick
<1>7. /\ ~late => wake = [waketime EXCEPT ![t] = w]
      /\ late => wake = [waketime EXCEPT ![t] = now]
  OBVIOUS
<1>8. ~timer_is_before(w, first) => ~late
  OBVIOUS
<1>9. ~timer_is_before(w, now) => ~late
  OBVIOUS
<1> HIDE DEF wake, late
<1>10. CASE /\ ~timer_is_before(w, first)
            /\ waketime' = wake
            /\ insert_timer(timer_list, wake, 2, t)
            /\ armed' = armed \union {t}
            /\ UNCHANGED <<last_insert, irq, too_close_c, shutdown_status>>
  <2>1. /\ waketime' = [waketime EXCEPT ![t] = w]
        /\ insert_timer(timer_list, waketime', 2, t)
    BY <1>7, <1>8, <1>10
  <2> QED BY <1>2, <1>4, <1>10, <2>1, AddBehindHead
<1>11. CASE /\ timer_is_before(w, first) /\ ~timer_is_before(w, now)
            /\ waketime' = [wake EXCEPT !["deleted"] = w]
            /\ timer_list' = <<"deleted", t>> \o BehindDeleted(timer_list)
            /\ irq' = now
            /\ armed' = armed \union {t}
            /\ UNCHANGED <<last_insert, too_close_c, shutdown_status, overrun>>
  <2>1. waketime' = [[waketime EXCEPT ![t] = w] EXCEPT !["deleted"] = w]
    BY <1>7, <1>9, <1>11
  <2> QED BY <1>2, <1>4, <1>11, <2>1, AddInFront
<1>12. CASE /\ late /\ too_close_c < 2
            /\ too_close_c' = too_close_c + 1
            /\ waketime' = wake
            /\ insert_timer(timer_list, wake, 2, t)
            /\ armed' = armed \union {t}
            /\ UNCHANGED <<last_insert, irq, shutdown_status>>
  <2>1. /\ waketime' = [waketime EXCEPT ![t] = now]
        /\ insert_timer(timer_list, waketime', 2, t)
    BY <1>7, <1>12
  <2>2. too_close_c' \in 0..3 /\ too_close_c' # 0
    BY <1>3, <1>12 DEF TypeOK
  <2>3. TypeOK' /\ SentinelInv' /\ (~overrun' => ListInv')
    BY <1>2, <1>3, <1>12, <2>1, <2>2, InsertBehindHead
  <2> QED BY <2>2, <2>3 DEF IInv, NoLateTimer
<1>13. CASE late /\ too_close_c >= 2 /\ too_close_c' = 3 /\ run_shutdown(waketime)
  <2>1. too_close_c' \in 1..3
    BY <1>13
  <2> QED BY <1>2, <1>3, <1>13, <2>1, ShutdownKeeps
<1> QED BY <1>6, <1>10, <1>11, <1>12, <1>13

-----------------------------------------------------------------------------
(* The theorems *)

LEMMA InitHolds == Init => IInv
<1> SUFFICES ASSUME Init  PROVE IInv
  OBVIOUS
<1> DEFINE list == <<"periodic", "sentinel">>
<1>1. /\ now = 0 /\ irq = 0 /\ timer_list = list /\ last_insert = "periodic"
      /\ waketime = [n \in Nodes |-> IF n = "sentinel" THEN Half ELSE 0]
      /\ too_close_c = 0 /\ shutdown_status = FALSE /\ overrun = FALSE /\ armed = {}
  BY DEF Init
<1>2. /\ list \in Seq(Nodes) /\ Len(list) = 2
      /\ list[1] = "periodic" /\ list[2] = "sentinel"
      /\ "periodic" \in Nodes /\ "sentinel" \in Nodes
  BY DEF Nodes
<1>3. 0 \in Clock /\ Half \in Clock /\ 0 + Half = Half /\ Half % W = Half
  <2>1. 0 \in Clock /\ Half \in Clock /\ 0 + Half = Half
    BY HalfProps DEF Clock
  <2>2. Half \in Int /\ 0 <= Half /\ Half < W
    BY HalfProps
  <2> QED BY <2>1, <2>2, ModW
<1> HIDE DEF list
<1>4. ToSet(list) = {"periodic", "sentinel"}
  <2>1. \A x : x \in ToSet(list) <=> \E i \in 1..2 : list[i] = x
    BY <1>2, SetOf
  <2>2. 1 \in 1..2 /\ 2 \in 1..2 /\ \A i \in 1..2 : i = 1 \/ i = 2
    OBVIOUS
  <2> QED BY <1>2, <2>1, <2>2
<1>5. Linked(list)
  <2>1. IsInjective(list)
    BY <1>2 DEF IsInjective
  <2> QED BY <1>2, <2>1 DEF Linked
<1>6. ListOK(list, {})
  <2>1. ToSet(list) \intersect Timers = {}
    BY <1>4, TimersAssumption
  <2>2. \A i \in 1..Len(list) : list[i] = "deleted" => i = 1
    BY <1>2
  <2> QED BY <1>2, <1>4, <1>5, <2>1, <2>2 DEF ListOK
<1>7. ListInv
  BY <1>1, <1>4, <1>6 DEF ListInv
<1>8. waketime \in [Nodes -> Clock] /\ waketime["sentinel"] = Half /\ waketime["periodic"] = 0
  BY <1>1, <1>2, <1>3
<1>9. SentinelInv
  BY <1>3, <1>8 DEF SentinelInv
<1>10. TypeOK
  <2>1. FALSE \in BOOLEAN /\ 0 \in 0..3 /\ {} \subseteq Timers
    OBVIOUS
  <2>2. too_close_c \in 0..3 /\ shutdown_status \in BOOLEAN /\ overrun \in BOOLEAN
        /\ armed \subseteq Timers
    BY <1>1, <2>1
  <2>3. timer_list \in Seq(Nodes) /\ Len(timer_list) >= 2 /\ last_insert \in Nodes
    BY <1>1, <1>2
  <2> QED BY <1>1, <1>3, <1>8, <2>2, <2>3 DEF TypeOK
<1>11. OrderInv
  <2>1. Dist(0, 0) = 0
    BY <1>3, DistType
  <2>2. \A i \in 1..(Len(timer_list) - 1) : Dist(now, waketime[timer_list[i]]) = 0
    BY <1>1, <1>2, <1>8, <2>1
  <2>3. Sorted(timer_list, now, waketime)
    BY <2>2 DEF Sorted
  <2>4. Within(timer_list, now, waketime)
    BY <2>2, HalfProps DEF Within
  <2>5. IrqInv
    BY <1>1, <1>2, <1>8, <2>1, HalfProps DEF IrqInv
  <2> QED BY <2>3, <2>4, <2>5 DEF OrderInv
<1> QED BY <1>1, <1>7, <1>9, <1>10, <1>11 DEF IInv

LEMMA StepKeeps == IInv /\ [Next]_vars => IInv'
<1> SUFFICES ASSUME IInv, [Next]_vars  PROVE IInv'
  OBVIOUS
<1>1. CASE DeletedEvent
  BY <1>1, DeletedEventKeeps
<1>2. CASE PeriodicEvent
  BY <1>2, PeriodicEventKeeps
<1>3. CASE UserEvent
  BY <1>3, UserEventKeeps
<1>4. CASE PastShutdown
  BY <1>4, PastShutdownKeeps
<1>5. CASE AddTimer
  BY <1>5, AddTimerKeeps
<1>6. CASE DelTimer
  BY <1>6, DelTimerKeeps
<1>7. CASE ClearShutdown
  BY <1>7, ClearShutdownKeeps
<1>8. CASE Tick
  BY <1>8, TickKeeps
<1>9. CASE UNCHANGED vars
  BY <1>9 DEF vars, IInv, TypeOK, SentinelInv, ListInv, OrderInv, IrqInv, NoLateTimer
<1> QED BY <1>1, <1>2, <1>3, <1>4, <1>5, <1>6, <1>7, <1>8, <1>9 DEF Next, Dispatch

(* The list, its order and the time of the next interrupt at every step of
   sched_add_timer, sched_del_timer and the dispatch. *)
THEOREM InductiveInvariant == Spec => []IInv
<1>1. Init => IInv
  BY InitHolds
<1>2. IInv /\ [Next]_vars => IInv'
  BY StepKeeps
<1> QED BY <1>1, <1>2, PTL DEF Spec

(* What the invariant says to those who use the list. *)
LEMMA InvImpliesList == IInv => TimerListInv
<1> SUFFICES ASSUME IInv  PROVE TimerListInv
  OBVIOUS
<1>1. TypeOK
  BY DEF IInv
<1>2. TimerListSorted
  <2> SUFFICES ASSUME NoLateTimer,
                      NEW i \in 1..(Len(timer_list) - 1), NEW j \in 1..(Len(timer_list) - 1),
                      i < j
               PROVE  ~timer_is_before(waketime[timer_list[j]], waketime[timer_list[i]])
    BY DEF TimerListSorted
  <2>1. /\ ListOK(timer_list, armed) /\ now \in Clock /\ waketime \in [Nodes -> Clock]
        /\ Sorted(timer_list, now, waketime) /\ Within(timer_list, now, waketime)
    BY <1>1 DEF IInv, ListInv, OrderInv, TypeOK
  <2>2. Linked(timer_list)
    BY <2>1 DEF ListOK
  <2>3. /\ \A h \in 1..Len(timer_list) : waketime[timer_list[h]] \in Clock
        /\ \A h \in 1..(Len(timer_list) - 1) :
             /\ h \in 1..Len(timer_list)
             /\ Near(Dist(now, waketime[timer_list[h]]))
             /\ Dist(now, waketime[timer_list[h]]) \in Int
    BY <2>1, <2>2, WithinNear
  <2>4. Dist(now, waketime[timer_list[i]]) <= Dist(now, waketime[timer_list[j]])
    <3>1. i <= j
      OBVIOUS
    <3> QED BY <2>1, <3>1 DEF Sorted
  <2>5. ~ (Dist(now, waketime[timer_list[j]]) < Dist(now, waketime[timer_list[i]]))
    BY <2>3, <2>4
  <2> QED BY <2>1, <2>3, <2>5, NearBefore
<1>3. NothingLost /\ LastInsertValid
  BY DEF IInv, ListInv, ListOK, Linked, NothingLost, LastInsertValid, Last
<1>4. OverrunOnlyWhenLate
  BY DEF IInv, OverrunOnlyWhenLate
<1> QED BY <1>1, <1>2, <1>3, <1>4 DEF TimerListInv

(* insert_timer, sched_add_timer, sched_del_timer and sched_timer_dispatch
   never lose a timer, link one twice or leave last_insert on a timer that is
   gone; and as long as no command came too late, the list is sorted across the
   wrap of the clock and no search for a place runs past the sentinel. *)
THEOREM TimerList == Spec => []TimerListInv
BY InductiveInvariant, InvImpliesList, PTL

(* "The scheduler code will arrange for the given function to be called at the
   requested clock time": as long as no command came too late, no timer's
   function is called before its waketime or more than Latency after it. *)
THEOREM OnTime == Spec => CalledOnTime
<1>1. IInv => (UserEvent /\ NoLateTimer
               => (now - waketime[Head(timer_list)]) % W <= Latency)
  <2> SUFFICES ASSUME IInv, UserEvent, NoLateTimer
               PROVE  (now - waketime[Head(timer_list)]) % W <= Latency
    OBVIOUS
  <2>1. IrqDue /\ ~overrun /\ Head(timer_list) \in Timers
    BY DEF UserEvent, IrqDue
  <2>2. Head(timer_list) = timer_list[1] /\ now \in Clock /\ irq \in Clock
    BY <2>1, ListNow DEF TypeOK
  <2>3. timer_list[1] # "deleted"
    BY <2>1, <2>2, TimersAssumption
  <2>4. /\ -Latency <= Dist(now, irq) /\ Dist(now, irq) <= 0 /\ Dist(now, irq) \in Int
        /\ irq = waketime[Head(timer_list)]
    BY <2>1, <2>2, <2>3, DueHead
  <2>5. (now - irq) % W = -Dist(now, irq)
    BY <2>2, <2>4, Elapsed
  <2> HIDE DEF Dist
  <2> QED BY <2>4, <2>5, HalfProps
<1> QED BY <1>1, InductiveInvariant, PTL DEF CalledOnTime
=============================================================================
